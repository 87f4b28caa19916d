------------------------------ MODULE Ext2Dir ------------------------------
(***************************************************************************)
(* The content of one ext2 directory (src/ext2/ext2dir.c, and find,        *)
(* readdir and the emptiness check of unlink in src/ext2/ext2vnop.c).      *)
(*                                                                         *)
(* A directory is a list of blocks.  A block is tiled by entries: each has *)
(* a length that leads to the next one and that is at least what its name  *)
(* needs.  An entry is added in what another one does not need, or in a    *)
(* new block; it is removed by giving its length to a neighbour, or with   *)
(* its block.  Lengths and offsets are counted in words of four bytes, to  *)
(* which the code aligns them.                                             *)
(*                                                                         *)
(* A block is a function from the offsets at which its walk finds entries; *)
(* the empty function is a block of zeros, whose first length is 0.        *)
(*                                                                         *)
(* Two things make more than one entry of a name, or an entry of a name    *)
(* that find does not see: other drivers leave the name to an entry whose  *)
(* inode they set to 0, and a new block whose first write fails keeps what *)
(* the block held in its former use.  The history variable doubt has the   *)
(* names to which that has happened; the properties are about the others.  *)
(***************************************************************************)
EXTENDS Integers, FiniteSets, Sequences

CONSTANTS
  Name,        \* names that are added and removed
  Dots,        \* "." and ".."
  NoName,      \* the empty name of an entry that stands for nothing
  Need,        \* words of an entry with that name: its 8 bytes, and the name
  Ino,         \* inode numbers
  BlockWords,  \* block_size, in words
  NDirect,     \* 12, the direct block pointers of an inode
  Images,      \* the directories a mounted image may hold
  Left,        \* what a free block may still hold of a directory, or zeros
  Handle       \* open directories

Names == Name \cup Dots \cup {NoName}
Offset == 0 .. BlockWords - 1
Entry == [name : Names, ino : Ino \cup {0}, len : 1 .. BlockWords]

ASSUME SizeAssumption ==
  /\ BlockWords \in Nat \ {0} /\ NDirect \in Nat \ {0}
  /\ Ino \subseteq Nat \ {0} /\ NoName \notin Name
  /\ Need \in [Names -> 1 .. BlockWords]

VARIABLES
  dir,    \* per block index, the entries by offset
  fd,     \* per handle, its cursor and what it has listed
  halt,   \* "run"; "abort" and "assert" end the program, "spin" never ends,
          \* "garbage": a block of file data is walked as if it held entries
  doubt   \* history: names that may have entries nobody added

vars == <<dir, fd, halt, doubt>>

Size(d) == Cardinality(DOMAIN d)

-----------------------------------------------------------------------------
(* Entries, and the ways to look at them.                                  *)

\* Where an entry is: the index of its block and its offset.
Place(d) == UNION {{i} \X DOMAIN d[i] : i \in DOMAIN d}
At(d, p) == d[p[1]][p[2]]
Before(p, q) == p[1] < q[1] \/ (p[1] = q[1] /\ p[2] < q[2])

\* The block is all zeros: the walks of add and remove, which go on by a
\* length of 0, never leave it; find and readdir do.
Zero(block) == DOMAIN block = {}
Passed(d) == {p \in Place(d) : \A i \in 0 .. p[1] : ~Zero(d[i])}
Stuck(d) == \E i \in DOMAIN d : Zero(d[i])

\* The first place in the order of a walk.
FirstOf(S, p) == p \in S /\ \A q \in S : q = p \/ Before(p, q)

\* What find looks for; an entry without an inode is skipped.
Matches(d, n) == {p \in Place(d) : At(d, p).name = n /\ At(d, p).ino # 0}

\* Mutant: only the first block is searched.
ext2_vnode_find_OneBlock(d, n) ==
  {At(d, p).ino : p \in {q \in Matches(d, n) : q[1] = 0}}

\* The number of the first match, or of none (-ENOENT).
ext2_vnode_find(d, n) ==
  {At(d, p).ino : p \in {q \in Matches(d, n) : FirstOf(Matches(d, n), q)}}

\* The directory as its callers see it; the names to be sure of, those of
\* entries without an inode, and all names of a block.
Binds(d) == {<<At(d, p).name, At(d, p).ino>> : p \in {q \in Place(d) : At(d, q).ino # 0}}
Sure(d, u) == {b \in Binds(d) : b[1] \notin u}
bound == Sure(dir, doubt)
Ghosts(d) == {At(d, p).name : p \in {q \in Place(d) : At(d, q).ino = 0}}
NamesOf(block) == {block[o].name : o \in DOMAIN block}

\* A caller that removes a name means this inode: it found it here, or its
\* node of the path tree outlived the entry, which keeps the name from being
\* given away again, unless the name comes back by itself.
Meant(n, ino) == n \in doubt \/ <<n, ino>> \in bound \/ Matches(dir, n) = {}

\* Mutant: the block is not looked at beyond the dots.
Vacant_FirstEntries(d) == Size(d) <= 1

\* The check of unlink: one block, in which nothing but the dots comes before
\* the end or an entry without an inode.
Vacant(d) ==
  /\ Size(d) <= 1
  /\ \A o \in DOMAIN d[0] :
       (\A p \in DOMAIN d[0] : p <= o => d[0][p].ino # 0) => d[0][o].name \in Dots

-----------------------------------------------------------------------------
(* Adding.                                                                 *)

\* What add leaves to the entry it splits: one word more than needed, because
\* it takes the size of struct dirent (12) where ext2_dirent has 8 bytes.
Real(e) == Need[e.name] + 1

\* Mutant: the guard lets the entry be split when the rest is one word short.
Room_OffByOne(d, n) ==
  {p \in Passed(d) : Real(At(d, p)) < At(d, p).len
                     /\ At(d, p).len - Real(At(d, p)) >= Need[n] - 1}

\* The entries that can be split for the name.
Room(d, n) ==
  {p \in Passed(d) : Real(At(d, p)) < At(d, p).len
                     /\ At(d, p).len - Real(At(d, p)) >= Need[n]}

\* Mutant: the entry that was split keeps its length.
Split_KeepLen(block, o, n, ino) ==
  LET at == o + Real(block[o])
  IN [q \in DOMAIN block \cup {at} |->
        IF q = at THEN [name |-> n, ino |-> ino, len |-> block[o].len - Real(block[o])]
        ELSE block[q]]

Split(block, o, n, ino) ==
  LET at == o + Real(block[o])
  IN [q \in DOMAIN block \cup {at} |->
        IF q = at THEN [name |-> n, ino |-> ino, len |-> block[o].len - Real(block[o])]
        ELSE IF q = o THEN [block[o] EXCEPT !.len = Real(block[o])]
        ELSE block[q]]

\* The directory with one more block, and one less.
AddBlock(d, block) ==
  [i \in 0 .. Size(d) |-> IF i = Size(d) THEN block ELSE d[i]]

\* Mutant: the last pointer is dropped, not the one of the freed block.
ext2_free_block_index_Last(d, i) == [j \in 0 .. Size(d) - 2 |-> d[j]]

ext2_free_block_index(d, i) ==
  [j \in 0 .. Size(d) - 2 |-> IF j < i THEN d[j] ELSE d[j + 1]]

\* Mutant: no test whether the name is taken.
ext2_dir_add_inode_Again(n, ino) ==
  /\ halt = "run"
  /\ Size(dir) < NDirect
  /\ dir' = AddBlock(dir, [o \in {0} |-> [name |-> n, ino |-> ino, len |-> BlockWords]])
  /\ UNCHANGED <<fd, halt, doubt>>

\* Mutant: a new block is put in front of the others.
ext2_dir_add_inode_Front(n, ino) ==
  /\ halt = "run"
  /\ Matches(dir, n) = {}
  /\ Size(dir) < NDirect
  /\ dir' = [i \in 0 .. Size(dir) |->
               IF i = 0 THEN [o \in {0} |-> [name |-> n, ino |-> ino, len |-> BlockWords]]
               ELSE dir[i - 1]]
  /\ UNCHANGED <<fd, halt, doubt>>

\* The callers have found that the name is free.  A directory that needs a
\* block more than an inode has pointers ends the program.
ext2_dir_add_inode(n, ino) ==
  /\ halt = "run"
  /\ Matches(dir, n) = {}
  /\ \/ \E p \in Room(dir, n) :
          /\ FirstOf(Room(dir, n), p)
          /\ dir' = [dir EXCEPT ![p[1]] = Split(@, p[2], n, ino)]
          /\ UNCHANGED halt
     \/ /\ Room(dir, n) = {} /\ ~Stuck(dir) /\ Size(dir) < NDirect
        /\ dir' = AddBlock(dir, [o \in {0} |-> [name |-> n, ino |-> ino, len |-> BlockWords]])
        /\ UNCHANGED halt
     \/ /\ Room(dir, n) = {} /\ (Stuck(dir) \/ Size(dir) >= NDirect)
        /\ halt' = IF Stuck(dir) THEN "spin" ELSE "abort"
        /\ UNCHANGED dir
  /\ UNCHANGED <<fd, doubt>>

\* Mutant: no test for the number of blocks.
ext2_dir_add_inode_fails_NoLimit(n, old) ==
  /\ halt = "run"
  /\ Matches(dir, n) = {} /\ Room(dir, n) = {} /\ ~Stuck(dir)
  /\ dir' = AddBlock(dir, old) /\ doubt' = doubt \cup NamesOf(old)
  /\ UNCHANGED <<fd, halt>>

\* The same call when the last write, that of the new block, fails: the block
\* is in the directory with what it held before, as nothing cleared it when it
\* was freed or allocated.  The data of a file is not followed further.
ext2_dir_add_inode_fails(n, old) ==
  /\ halt = "run"
  /\ Matches(dir, n) = {} /\ Room(dir, n) = {} /\ ~Stuck(dir) /\ Size(dir) < NDirect
  /\ \/ /\ dir' = AddBlock(dir, old) /\ doubt' = doubt \cup NamesOf(old)
        /\ UNCHANGED halt
     \/ halt' = "garbage" /\ UNCHANGED <<dir, doubt>>
  /\ UNCHANGED fd

-----------------------------------------------------------------------------
(* Removing.                                                               *)

\* The last entry of a block goes to the one before it.
Join(block, o) ==
  [q \in DOMAIN block \ {o} |->
     IF q + block[q].len = o THEN [block[q] EXCEPT !.len = @ + block[o].len]
     ELSE block[q]]

\* Any other is overwritten with the next one, which gets the length of both.
Pull(block, o) ==
  LET next == o + block[o].len
  IN [q \in DOMAIN block \ {next} |->
        IF q = o THEN [block[next] EXCEPT !.len = @ + block[o].len] ELSE block[q]]

\* The directory without the entry at offset o of block i.
Remove(d, i, o) ==
  IF o + d[i][o].len < BlockWords THEN [d EXCEPT ![i] = Pull(@, o)]
  ELSE IF DOMAIN d[i] = {o} THEN ext2_free_block_index(d, i)
  ELSE [d EXCEPT ![i] = Join(@, o)]

\* What a listing has returned is of interest until an entry goes away.
Disturbed(f) == [f EXCEPT !.kept = FALSE, !.got = <<>>, !.had = {}]

\* A name is looked for whatever its inode.
ext2_dir_remove_inode(n, ino) ==
  /\ halt = "run"
  /\ LET named == {p \in Passed(dir) : At(dir, p).name = n}
     IN \/ \E p \in named :
             /\ FirstOf(named, p)
             /\ IF At(dir, p).ino = ino
                THEN dir' = Remove(dir, p[1], p[2]) /\ UNCHANGED halt
                ELSE halt' = "assert" /\ UNCHANGED dir
        \/ /\ named = {} /\ Stuck(dir)
           /\ halt' = "spin" /\ UNCHANGED dir
  /\ fd' = [h \in Handle |-> Disturbed(fd[h])]
  /\ UNCHANGED doubt

-----------------------------------------------------------------------------
(* Listing.                                                                *)

Start == [mode |-> "listing", pos |-> 0, got |-> <<>>, kept |-> TRUE, had |-> {}]

vfs_opendir(h) ==
  /\ halt = "run"
  /\ fd[h].mode # "listing"
  /\ fd' = [fd EXCEPT ![h] = [Start EXCEPT !.had = {b[1] : b \in Binds(dir)}]]
  /\ UNCHANGED <<dir, halt, doubt>>

Listed(f, n) == IF f.kept THEN [f EXCEPT !.got = Append(@, n)] ELSE f

\* Mutant: the cursor stays at the last entry of a block.
Step_Stay(f, e) ==
  IF (f.pos + e.len) % BlockWords = 0 THEN f ELSE [Listed(f, e.name) EXCEPT !.pos = @ + e.len]

\* The entry is returned and the cursor goes to the next one.
Step(f, e) == [Listed(f, e.name) EXCEPT !.pos = @ + e.len]

\* A cursor behind the end ends the listing; so does a length of 0, after which
\* the number of blocks up to the cursor is its new value in bytes.  Where
\* entries were removed the cursor may be at none: what it reads there is not
\* followed further.
ext2_vnode_readdir(h) ==
  /\ halt = "run"
  /\ fd[h].mode = "listing"
  /\ LET i == fd[h].pos \div BlockWords
         o == fd[h].pos % BlockWords
         next == IF i >= Size(dir) THEN [fd[h] EXCEPT !.mode = "ended"]
                 ELSE IF o \in DOMAIN dir[i] THEN Step(fd[h], dir[i][o])
                 ELSE IF Zero(dir[i]) THEN [fd[h] EXCEPT !.mode = "ended", !.pos = i \div 4]
                 ELSE [fd[h] EXCEPT !.mode = "astray"]
     IN fd' = [fd EXCEPT ![h] = next]
  /\ UNCHANGED <<dir, halt, doubt>>

-----------------------------------------------------------------------------

Init ==
  /\ dir \in Images
  /\ fd = [h \in Handle |-> [Start EXCEPT !.mode = "closed"]]
  /\ halt = "run"
  /\ doubt = Ghosts(dir)

\* Names are added when they are free, and removed by those who found them,
\* perhaps before somebody else removed them.  On any other failure of a device
\* access or of the allocator nothing changes, but for a removal that frees its
\* block and then cannot write the inode: for all who use this inode it is done.
Next ==
  \/ \E n \in Name, ino \in Ino :
       \/ ext2_dir_add_inode(n, ino)
       \/ Meant(n, ino) /\ ext2_dir_remove_inode(n, ino)
  \/ \E n \in Name, old \in Left : ext2_dir_add_inode_fails(n, old)
  \/ \E h \in Handle : vfs_opendir(h) \/ ext2_vnode_readdir(h)

Spec == Init /\ [][Next]_vars

\* A client that has begun a listing goes on calling until it is told the end,
\* as the loops of the shell's ls do; nobody else has to do anything.
Fairness == \A h \in Handle : WF_vars(ext2_vnode_readdir(h))

FairSpec == Spec /\ Fairness

-----------------------------------------------------------------------------
(* Well-formed directories: what an image holds and the calls keep.        *)

\* At most NDirect blocks of entries.
Typed(d) ==
  /\ Size(d) \in 0 .. NDirect /\ DOMAIN d = 0 .. Size(d) - 1
  /\ \A i \in DOMAIN d :
       DOMAIN d[i] \subseteq Offset /\ \A o \in DOMAIN d[i] : d[i][o] \in Entry

\* Lengths lead from entry to entry and to the end of the block.
TiledBlock(block) ==
  /\ 0 \in DOMAIN block
  /\ \A o \in DOMAIN block :
       LET next == o + block[o].len
       IN /\ next = BlockWords \/ next \in DOMAIN block
          /\ \A q \in DOMAIN block : q <= o \/ next <= q

\* An entry has the length its name needs.
FitBlock(block) == \A o \in DOMAIN block : block[o].len >= Need[block[o].name]

\* A name has one entry, unless it is one of u.
Once(d, u) ==
  \A p, q \in Place(d) :
    At(d, p).name = At(d, q).name /\ At(d, p).name \notin u \cup {NoName} => p = q

\* What has no inode has no name, or one of u.
Named(d, u) == Ghosts(d) \subseteq u

Written(block) == Zero(block) \/ (TiledBlock(block) /\ FitBlock(block))

WellFormed(d, u) ==
  /\ Typed(d) /\ Once(d, u) /\ Named(d, u)
  /\ \A i \in DOMAIN d : Written(d[i])

ASSUME ImageAssumption == \A d \in Images : WellFormed(d, Ghosts(d))

\* A block that was a directory's when it was freed.
ASSUME LeftAssumption ==
  \A old \in Left :
    /\ DOMAIN old \subseteq Offset /\ (\A o \in DOMAIN old : old[o] \in Entry)
    /\ Written(old)

\* The first block begins with one of the dots and has entries with an inode
\* only, and the dots are there and nowhere else: so mkdir makes a directory,
\* and the drivers that leave an entry without an inode do it at the start of a
\* block and give to the entry before it what they remove elsewhere.
DotsFirst(d, u) ==
  /\ 0 \in DOMAIN d /\ 0 \in DOMAIN d[0] /\ d[0][0].name \in Dots
  /\ \A o \in DOMAIN d[0] : d[0][o].ino # 0
  /\ \A i \in DOMAIN d : \A o \in DOMAIN d[i] : d[i][o].name \in Dots \ u => i = 0

\* A block of zeros is the last one: a call that fails leaves it at the end,
\* and no other is appended to it.
ZeroLast(d) == \A i, j \in DOMAIN d : Zero(d[i]) => j <= i

\* Needed for the emptiness test and for listings only: where an image has an
\* entry without an inode in front of others, the test does not see those.
ASSUME DotsAssumption ==
  /\ Name \cap Dots = {}
  /\ \A d \in Images : DotsFirst(d, Ghosts(d)) /\ ZeroLast(d)

-----------------------------------------------------------------------------
(* Properties.                                                             *)

\* Every variable has its type; a directory has at most NDirect blocks.
TypeOK ==
  /\ Typed(dir)
  /\ fd \in [Handle -> [mode : {"closed", "listing", "ended", "astray"}, pos : Nat,
                         got : Seq(Names), kept : BOOLEAN, had : SUBSET Names]]
  /\ halt \in {"run", "abort", "assert", "spin", "garbage"}
  /\ doubt \subseteq Names

\* Following the lengths from the start of a written block visits every entry
\* and ends at the end of the block, whatever was split, joined and moved:
\* ext2_dir_add_inode and ext2_dir_remove_inode change the lengths of two
\* neighbours at a time.
Tiled == \A i \in DOMAIN dir : Zero(dir[i]) \/ TiledBlock(dir[i])

\* No entry is so short that the next one overwrites its name: the split leaves
\* enough on both sides although the code measures the two with different structs.
EntriesFit == \A i \in DOMAIN dir : FitBlock(dir[i])

\* A name has one entry, so that find, which stops at the first match, and
\* remove, which does not look at the inode to match, mean the same one: every
\* name but those that an entry without an inode kept or an unwritten block
\* brought back.
NameOnce == Once(dir, doubt)

\* The walk of remove, which also matches entries without an inode, never
\* meets another entry than the one that find returned (ext2dir.c:147): the
\* assert fails for no other name than one in doubt.
SanityHolds ==
  [][halt' = "assert" =>
       \A n \in Name \ doubt, ino \in Ino :
         ~ (Meant(n, ino) /\ ext2_dir_remove_inode(n, ino))]_vars

\* find tells every binding of a name that is not in doubt, in whichever block,
\* and nothing else.
FindsBound ==
  \A n \in Name \ doubt : ext2_vnode_find(dir, n) = {b[2] : b \in {c \in bound : c[1] = n}}

\* unlink takes a directory for empty only if it is, and, unless no name is in
\* doubt and no block unwritten, whenever it is: a second block exists only as
\* long as a name is in it ("totally has something inside", ext2vnop.c:573).
VacantExact ==
  LET inhabited == \E b \in Binds(dir) : b[1] \notin Dots
  IN /\ Vacant(dir) => ~inhabited
     /\ ~inhabited /\ doubt = {} /\ ~Stuck(dir) => Vacant(dir)

\* A listing during which nothing was removed returns no name twice that is not
\* in doubt, and when it ends has returned every name the directory had when it
\* began, although entries may have been split behind and before the cursor, and
\* an old block may have come in, in the meantime.
ListingExact ==
  \A h \in Handle :
    LET names == {fd[h].got[k] : k \in DOMAIN fd[h].got}
    IN fd[h].kept =>
         /\ fd[h].mode # "astray"
         /\ \A j, k \in DOMAIN fd[h].got :
              fd[h].got[j] = fd[h].got[k] /\ fd[h].got[j] \notin doubt \cup {NoName} => j = k
         /\ fd[h].mode = "ended" => fd[h].had \subseteq names

\* A listing ends, while other calls go on adding to and removing from the
\* directory: the cursor only moves forward (ext2vnop.c:503).
ListingEnds ==
  \A h \in Handle : fd[h].mode = "listing" ~> (fd[h].mode # "listing" \/ halt # "run")

\* A cursor never moves back during a listing: at a length of 0 it is aligned
\* up to the next block ("align the fd->pos up to block size", ext2vnop.c:488).
ListingForward ==
  [][\A h \in Handle : fd[h].mode = "listing" => fd'[h].pos >= fd[h].pos]_vars

\* The directory implements a map from names to inode numbers: whatever ext2dir.c
\* does to its blocks, its callers see one binding come or go at a time, until
\* an unwritten block puts the names it brings in doubt.
Map == INSTANCE DirMap WITH
         Given <- {[bound |-> Sure(d, Ghosts(d)), doubt |-> Ghosts(d)] : d \in Images},
         Spoils <- {NamesOf(old) : old \in Left}

MapSpec == Map!Spec

\* The binding that comes or goes is the one of the call: no entry that add
\* splits, or that remove joins, moves, or shifts to another index with its
\* block, takes another name's place; an unwritten block touches only the
\* names it holds.
CallsMapped ==
  [][bound' # bound =>
       \A n \in Name :
         /\ \A ino \in Ino :
              /\ ext2_dir_add_inode(n, ino) => Map!Insert(n, ino)
              /\ Meant(n, ino) /\ ext2_dir_remove_inode(n, ino) => Map!Delete(n)
         /\ \A old \in Left :
              ext2_dir_add_inode_fails(n, old) => Map!Spoil(NamesOf(old))]_vars

\* The inductive invariant behind the proofs: the parts of WellFormed need each
\* other (a split is only right in a block whose lengths are).
IInv == TypeOK /\ WellFormed(dir, doubt)

\* The place a cursor is at, and the entries before it.
Where(f) == <<f.pos \div BlockWords, f.pos % BlockWords>>
Behind(d, f) == {p \in Place(d) : Before(p, Where(f))}

\* What a listing knows of a directory: its cursor is at an entry, at a block of
\* zeros or at the end; the names it has returned are behind the cursor, and those
\* it has not returned of the names that were there at its start are not.
Tracks(d, f) ==
  /\ Where(f) \in Place(d) \cup {<<Size(d), 0>>} \cup {<<i, 0>> : i \in {j \in DOMAIN d : Zero(d[j])}}
  /\ \A k \in DOMAIN f.got :
       f.got[k] # NoName => \E p \in Behind(d, f) : At(d, p).name = f.got[k]
  /\ \A n \in f.had :
       \/ \E k \in DOMAIN f.got : f.got[k] = n
       \/ \E p \in Place(d) \ Behind(d, f) : At(d, p).name = n

\* What makes ListingExact and VacantExact inductive.
ListingInv ==
  /\ IInv /\ DotsFirst(dir, doubt) /\ ZeroLast(dir) /\ ListingExact
  /\ \A h \in Handle : fd[h].mode = "listing" /\ fd[h].kept => Tracks(dir, fd[h])
=============================================================================
