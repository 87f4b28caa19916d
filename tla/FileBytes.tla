----------------------------- MODULE FileBytes -----------------------------
(***************************************************************************)
(* What a regular file promises its callers: a sequence of bytes, and a    *)
(* position per open file.  The promise holds as long as the callers keep  *)
(* to the calls it covers and no call fails; promise says whether it does. *)
(***************************************************************************)
EXTENDS Integers, Sequences

CONSTANTS
  Handle,   \* open files
  Payload,  \* what a call may write
  Count     \* how much a call may read

VARIABLES bytes, pos, promise

vars == <<bytes, pos, promise>>

Init ==
  /\ bytes = << >>
  /\ pos = [h \in Handle |-> 0]
  /\ promise = TRUE

\* Writing replaces what is at the position and extends the file.
Write(h, s) ==
  /\ pos[h] <= Len(bytes)
  /\ bytes' = SubSeq(bytes, 1, pos[h]) \o s \o SubSeq(bytes, pos[h] + Len(s) + 1, Len(bytes))
  /\ pos' = [pos EXCEPT ![h] = @ + Len(s)]

\* Reading goes on by what there is; only a position that a truncate left behind
\* the end goes on by all that was asked for.
Read(h, n) ==
  /\ pos[h] + n <= Len(bytes) \/ (pos[h] > Len(bytes) /\ n \in Count)
  /\ pos' = [pos EXCEPT ![h] = @ + n]
  /\ UNCHANGED bytes

\* Only towards the beginning.
Truncate(n) ==
  /\ n <= Len(bytes)
  /\ bytes' = SubSeq(bytes, 1, n)
  /\ UNCHANGED pos

Open(h, n) ==
  /\ n \in {0, Len(bytes)}
  /\ bytes' = SubSeq(bytes, 1, n)
  /\ pos' = [pos EXCEPT ![h] = 0]

Kept ==
  \/ \E h \in Handle :
       \/ \E s \in Payload : Write(h, s)
       \/ \E n \in 0 .. Len(bytes) \union Count : Read(h, n)
       \/ \E n \in {0, Len(bytes)} : Open(h, n)
  \/ \E n \in 0 .. Len(bytes) : Truncate(n)

\* Once broken, the promise is not made again, and says nothing.
Next == promise' => promise /\ Kept

Spec == Init /\ [][Next]_vars
=============================================================================
