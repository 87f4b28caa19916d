------------------------------- MODULE DirMap -------------------------------
(***************************************************************************)
(* What a directory promises its callers: a set of names, each bound to    *)
(* one inode number; and that it makes no promise about names in doubt.    *)
(***************************************************************************)
CONSTANTS
  Names,    \* every name an entry may have
  Ino,      \* inode numbers
  Given,    \* the possible bindings and doubts of the image
  Spoils    \* sets of names that a failure may put in doubt at once

VARIABLES
  bound,  \* pairs of a name and its inode number
  doubt   \* names whose entries are not known any more

Init == \E g \in Given : bound = g.bound /\ doubt = g.doubt

Insert(n, ino) ==
  /\ n \notin doubt /\ \A p \in bound : p[1] # n
  /\ bound' = bound \cup {<<n, ino>>}
  /\ UNCHANGED doubt

Delete(n) ==
  /\ \E p \in bound : p[1] = n
  /\ bound' = {p \in bound : p[1] # n}
  /\ UNCHANGED doubt

Spoil(S) ==
  /\ doubt' = doubt \cup S
  /\ bound' = {p \in bound : p[1] \notin S}

Next ==
  \/ \E n \in Names : Delete(n) \/ \E ino \in Ino : Insert(n, ino)
  \/ \E S \in Spoils : Spoil(S)

Spec == Init /\ [][Next]_<<bound, doubt>>
=============================================================================
