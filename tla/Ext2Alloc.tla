----------------------------- MODULE Ext2Alloc -----------------------------
(***************************************************************************)
(* The block and inode allocator of the ext2 driver (src/ext2/ext2alloc.c) *)
(* together with what src/ext2/ext2.c loads at mount time.                 *)
(*                                                                         *)
(* Blocks and inodes are allocated by two copies of one algorithm, so the  *)
(* state is indexed by the kind of unit.  On the device there are a usage  *)
(* bitmap per group, the block group descriptor table (BGDT) with a free   *)
(* counter per group, and the superblock with a total.  The driver reads   *)
(* the bitmap from the device on every call but works on a copy of the     *)
(* BGDT and of the superblock that it read at mount time and writes back   *)
(* block by block: each of those writes may fail, and the machine may stop *)
(* between any two of them.  A release that ends early after its first     *)
(* write leaves its caller with a unit that is marked free; the history    *)
(* variables torn and cut remember these releases, so that the properties  *)
(* can say what they may harm and what they may not.                       *)
(*                                                                         *)
(* The bit of a unit is built in the code as (1 << k), a shift of a 32-bit *)
(* int that is then widened to the 64-bit word of the bitmap.  Mask says   *)
(* what this does in the x86-64 build: the shift count is taken modulo     *)
(* IntBits and bit IntBits-1 is the sign bit, which is extended.           *)
(***************************************************************************)
EXTENDS Integers, FiniteSets, FiniteSetsExt

CONSTANTS
  WordBits,     \* bits of a bitmap word (uint64_t: 64)
  IntBits,      \* bits of the shifted constant (int: 32)
  MapWords,     \* words of a bitmap block
  NGroups,      \* block_group_count
  PerGroup,     \* per kind: block_group_size_blocks / _inodes
  TableBlocks,  \* block_group_descriptor_table_size_blocks
  DescBlock,    \* per group: the table block that holds its descriptor
  GroupMod,     \* 2^16, the range of a group's free counter
  TotalMod,     \* 2^32, the range of the superblock's total
  MaxCut,       \* bound, per kind: releases in a group that end early
  Marked,       \* the image: per kind and group, the bits set in the bitmap
  Held,         \* the image: per kind, the numbers that removable files use
  FreeTotal     \* the image: per kind, the superblock's total

Kind == {"block", "inode"}
Group == 0 .. NGroups - 1
Bit == 0 .. WordBits * MapWords - 1

ASSUME SizeAssumption ==
  /\ IntBits \in Nat \ {0} /\ WordBits = 2 * IntBits
  /\ MapWords \in Nat \ {0} /\ NGroups \in Nat \ {0} /\ TableBlocks \in Nat
  /\ PerGroup \in [Kind -> Nat \ {0}]
  /\ DescBlock \in [Group -> 0 .. TableBlocks - 1]
  /\ GroupMod \in Nat /\ TotalMod \in Nat
  /\ MaxCut \in [Kind -> Nat]
  /\ \A k \in Kind : WordBits * MapWords + MaxCut[k] < GroupMod

\* The bits of the bitmap that (1 << (b % 64)) stands for in word b / 64.
Mask(b) ==
  LET base == b - (b % WordBits)
      k == (b % WordBits) % IntBits
  IN IF k = IntBits - 1 THEN base + k .. base + WordBits - 1 ELSE {base + k}

\* A bit of the lower half of its word: the only ones the shift can name.
Low(b) == b % WordBits < IntBits

\* The number handed to callers, and back to the group and the bit in it.
UnitNo(k, g, b) == b + g * PerGroup[k] + 1
GroupOf(k, no) == (no - 1) \div PerGroup[k]
BitOf(k, no) == (no - 1) % PerGroup[k]

Number(k) == {UnitNo(k, g, b) : g \in Group, b \in Bit}

ASSUME ImageAssumption ==
  /\ Marked \in [Kind -> [Group -> SUBSET Bit]]
  /\ Held \in [Kind -> SUBSET Nat]
  /\ \A k \in Kind : Held[k] \subseteq Number(k)
  /\ FreeTotal \in [Kind -> 0 .. TotalMod - 1]

VARIABLES
  bitmap,   \* device: usage bitmaps
  dfree,    \* device: free counters of the BGDT
  dtotal,   \* device: totals of the superblock
  free,     \* memory copy of the BGDT counters
  total,    \* memory copy of the totals
  refs,     \* number of inodes and directory entries that use a unit
  halted,   \* an assert() of the driver has failed
  torn,     \* history: units of which a release ended early
  cut       \* history: per group, how many releases ended early

vars == <<bitmap, dfree, dtotal, free, total, refs, halted, torn, cut>>

-----------------------------------------------------------------------------
(* What the scan loops find.                                               *)

\* Bits the inner loops accept: !(qw & (1 << k)).
Avail(map) == {b \in Bit : Mask(b) \cap map = {}}

\* Groups in which the scan succeeds; a group whose counter is 0 is skipped.
Candidates(k) == {g \in Group : free[k][g] > 0 /\ Avail(bitmap[k][g]) # {}}

\* The group and the bit the scan stops at, the first of both: a set of one
\* element, or of none when there is nothing to allocate.
FirstGroup(k) ==
  LET groups == Candidates(k) IN {g \in groups : \A h \in groups : g <= h}
FirstBit(map) ==
  LET bits == Avail(map) IN {b \in bits : \A c \in bits : b <= c}

(***************************************************************************)
(* The write sequence shared by the four operations, of which the first w  *)
(* writes succeed: the bitmap, every block of the BGDT, the superblock.    *)
(* The group counter changes in memory once the bitmap is written, the     *)
(* total once the whole table is; writing a table block or the superblock  *)
(* takes along whatever memory holds for the other groups and kind.        *)
(***************************************************************************)
AllWrites == TableBlocks + 2

\* Mutant: the modified bitmap is not written back.
Commit_NoBitmap(k, g, map, d, w) ==
  /\ free' = IF w >= 1 THEN [free EXCEPT ![k][g] = (@ + d) % GroupMod] ELSE free
  /\ total' = [total EXCEPT ![k] = (@ + d) % TotalMod]
  /\ UNCHANGED <<bitmap, dfree, dtotal>>

\* Mutant: the table is written before the bitmap.
Commit_TableFirst(k, g, map, d, w) ==
  /\ bitmap' = IF w > TableBlocks THEN [bitmap EXCEPT ![k][g] = map] ELSE bitmap
  /\ free' = [free EXCEPT ![k][g] = (@ + d) % GroupMod]
  /\ dfree' = [j \in Kind |-> [h \in Group |->
                 IF w > DescBlock[h] THEN free'[j][h] ELSE dfree[j][h]]]
  /\ UNCHANGED <<total, dtotal>>

\* Mutant: the last block of the table is not written.
Commit_ShortTable(k, g, map, d, w) ==
  /\ bitmap' = [bitmap EXCEPT ![k][g] = map]
  /\ free' = [free EXCEPT ![k][g] = (@ + d) % GroupMod]
  /\ dfree' = [j \in Kind |-> [h \in Group |->
                 IF w >= 2 + DescBlock[h] /\ DescBlock[h] < TableBlocks - 1
                 THEN free'[j][h] ELSE dfree[j][h]]]
  /\ UNCHANGED <<total, dtotal>>

Commit(k, g, map, d, w) ==
  /\ bitmap' = IF w >= 1 THEN [bitmap EXCEPT ![k][g] = map] ELSE bitmap
  /\ free' = IF w >= 1 THEN [free EXCEPT ![k][g] = (@ + d) % GroupMod] ELSE free
  /\ dfree' = [j \in Kind |-> [h \in Group |->
                 IF w >= 2 + DescBlock[h] THEN free'[j][h] ELSE dfree[j][h]]]
  /\ total' = IF w >= 1 + TableBlocks
              THEN [total EXCEPT ![k] = (@ + d) % TotalMod] ELSE total
  /\ dtotal' = IF w = AllWrites THEN total' ELSE dtotal

\* Allocation; the caller then records the number in an inode or a directory
\* entry, or fails before it does (recorded = FALSE) and loses it.
Alloc(k, w, recorded) ==
  /\ ~halted
  /\ \E g \in FirstGroup(k) : \E b \in FirstBit(bitmap[k][g]) :
       /\ Commit(k, g, bitmap[k][g] \cup Mask(b), -1, w)
       /\ refs' = IF w = AllWrites /\ recorded
                  THEN [refs EXCEPT ![k][UnitNo(k, g, b)] = @ + 1] ELSE refs
  /\ UNCHANGED <<halted, torn, cut>>

\* After its writes a release has taken the unit from its user; or it ends
\* early: a write failed, the machine stopped, or the user did not get to
\* drop its reference (dropped = FALSE) and goes on with a unit marked free.
Drop(k, no, w, dropped) ==
  IF w = AllWrites /\ dropped
  THEN refs' = [refs EXCEPT ![k][no] = @ - 1] /\ UNCHANGED <<torn, cut>>
  ELSE LET g == GroupOf(k, no)
       IN /\ cut[k][g] < MaxCut[k]
          /\ torn' = [torn EXCEPT ![k] = @ \cup {no}]
          /\ cut' = [cut EXCEPT ![k][g] = @ + 1]
          /\ UNCHANGED refs

\* Mutant: a unit is released whether or not anything uses it.
Release_Unused(k, no, w, dropped) ==
  /\ ~halted
  /\ GroupOf(k, no) \in Group
  /\ Mask(BitOf(k, no)) \cap bitmap[k][GroupOf(k, no)] # {}
  /\ Commit(k, GroupOf(k, no), bitmap[k][GroupOf(k, no)] \ Mask(BitOf(k, no)), 1, w)
  /\ Drop(k, no, w, dropped)
  /\ UNCHANGED halted

\* Mutant: the whole bitmap word is cleared with the unit's bit.
Release_ClearWord(k, no, w, dropped) ==
  /\ ~halted
  /\ refs[k][no] > 0
  /\ LET g == GroupOf(k, no)
         j == BitOf(k, no) \div WordBits
     IN Commit(k, g, bitmap[k][g] \ {b \in Bit : b \div WordBits = j}, 1, w)
  /\ Drop(k, no, w, dropped)
  /\ UNCHANGED halted

\* Mutant: the user keeps its reference after a complete release.
Release_KeepRef(k, no, w, dropped) ==
  /\ ~halted
  /\ refs[k][no] > 0
  /\ LET g == GroupOf(k, no)
         b == BitOf(k, no)
     IN IF Mask(b) \cap bitmap[k][g] = {}
        THEN halted' = TRUE /\ UNCHANGED <<bitmap, dfree, dtotal, free, total>>
        ELSE Commit(k, g, bitmap[k][g] \ Mask(b), 1, w) /\ UNCHANGED halted
  /\ UNCHANGED <<refs, torn, cut>>

\* Release of a unit some inode or entry uses, of which the first w writes
\* succeed.
Release(k, no, w, dropped) ==
  /\ ~halted
  /\ refs[k][no] > 0
  /\ LET g == GroupOf(k, no)
         b == BitOf(k, no)
     IN IF Mask(b) \cap bitmap[k][g] = {}
        THEN /\ halted' = TRUE
             /\ UNCHANGED <<bitmap, dfree, dtotal, free, total, refs, torn, cut>>
        ELSE /\ Commit(k, g, bitmap[k][g] \ Mask(b), 1, w)
             /\ Drop(k, no, w, dropped)
             /\ UNCHANGED halted

ext2_alloc_block(w, recorded) == Alloc("block", w, recorded)

ext2_alloc_inode(w, recorded) == Alloc("inode", w, recorded)

ext2_free_block(no, w, dropped) == Release("block", no, w, dropped)

ext2_free_inode(no, w, dropped) == Release("inode", no, w, dropped)

\* Mounting, after a crash or a regular stop: memory is read from the device.
ext2_fs_mount ==
  /\ free' = dfree
  /\ total' = dtotal
  /\ halted' = FALSE
  /\ UNCHANGED <<bitmap, dfree, dtotal, refs, torn, cut>>

-----------------------------------------------------------------------------

Init ==
  /\ bitmap = Marked
  /\ dfree = [k \in Kind |-> [g \in Group |-> Cardinality(Bit \ Marked[k][g])]]
  /\ dtotal = FreeTotal
  /\ free = dfree
  /\ total = dtotal
  /\ refs = [k \in Kind |-> [no \in Number(k) |-> IF no \in Held[k] THEN 1 ELSE 0]]
  /\ halted = FALSE
  /\ torn = [k \in Kind |-> {}]
  /\ cut = [k \in Kind |-> [g \in Group |-> 0]]

\* An operation whose first write fails changes nothing; any later one may.
Next ==
  \/ \E w \in 1 .. AllWrites, recorded \in BOOLEAN :
       ext2_alloc_block(w, recorded) \/ ext2_alloc_inode(w, recorded)
  \/ \E w \in 1 .. AllWrites, dropped \in BOOLEAN :
       \/ \E no \in Number("block") : ext2_free_block(no, w, dropped)
       \/ \E no \in Number("inode") : ext2_free_inode(no, w, dropped)
  \/ ext2_fs_mount

Spec == Init /\ [][Next]_vars

-----------------------------------------------------------------------------
(* The image for which the allocator is correct.                           *)

\* Bits of the image that no removable file stands for: metadata, the files
\* that stay, and the padding behind the last unit of a group.
Pinned(k, g) ==
  Marked[k][g] \ {BitOf(k, no) : no \in {n \in Held[k] : GroupOf(k, n) = g}}

\* Removable files use marked units of the lower halves, and those whose bit
\* is the sign bit have no pinned unit above them in the same word.
LowImage ==
  \A k \in Kind :
    /\ \A g \in Group : {b \in Bit : b >= PerGroup[k]} \subseteq Pinned(k, g)
    /\ \A no \in Held[k] :
         LET g == GroupOf(k, no)
             b == BitOf(k, no)
         IN /\ g \in Group /\ b \in Marked[k][g] /\ Low(b)
            /\ Mask(b) \cap Pinned(k, g) = {}

-----------------------------------------------------------------------------
(* Properties.                                                             *)

\* Every variable has its type; the counters stay in the range of their C
\* types and no unit is released more often than it is used.
TypeOK ==
  /\ bitmap \in [Kind -> [Group -> SUBSET Bit]]
  /\ dfree \in [Kind -> [Group -> 0 .. GroupMod - 1]]
  /\ free \in [Kind -> [Group -> 0 .. GroupMod - 1]]
  /\ dtotal \in [Kind -> 0 .. TotalMod - 1]
  /\ total \in [Kind -> 0 .. TotalMod - 1]
  /\ DOMAIN refs = Kind
  /\ \A k \in Kind : refs[k] \in [Number(k) -> Nat]
  /\ halted \in BOOLEAN
  /\ torn \in [Kind -> SUBSET Nat]
  /\ DOMAIN cut = Kind
  /\ \A k \in Kind : cut[k] \in [Group -> 0 .. MaxCut[k]]

\* A unit that an inode or an entry uses is marked in the bitmap on the
\* device, and a pinned one is always: of all writes that fail, only those of
\* its own release leave a unit in use and marked free (ext2_alloc_block
\* writes the bitmap first, ext2_free_block clears no bit but its own).
UsedMarked ==
  \A k \in Kind :
    /\ \A g \in Group : Pinned(k, g) \subseteq bitmap[k][g]
    /\ \A no \in Number(k) \ torn[k] :
         refs[k][no] > 0 => BitOf(k, no) \in bitmap[k][GroupOf(k, no)]

\* No block or inode is handed out while something else uses it, unless the
\* one that uses it was refused the release of it half way.
NoSharing == \A k \in Kind : \A no \in Number(k) \ torn[k] : refs[k][no] <= 1

\* The asserts of ext2_free_block and ext2_free_inode, that the unit to be
\* released is marked as used (ext2alloc.c:110 and 201), fail only when a
\* release is tried again that ended early before.
AssertHolds ==
  halted => \E k \in Kind : \E no \in torn[k] :
              refs[k][no] > 0 /\ BitOf(k, no) \notin bitmap[k][GroupOf(k, no)]

\* The bits of a bitmap the driver can hand out.
LowAvail(map) == {b \in Avail(map) : Low(b)}

\* An allocation does not report ENOSPC while more bits are clear than the
\* releases that ended early could hide, one each: in the mounted system and
\* after the next mount a group's counter is never further behind its bitmap.
NoFalseENOSPC ==
  \A k \in Kind, g \in Group :
    /\ Cardinality(LowAvail(bitmap[k][g])) <= free[k][g] + cut[k][g]
    /\ Cardinality(LowAvail(bitmap[k][g])) <= dfree[k][g] + cut[k][g]

\* The units of a group that are not pinned, and its uses: a pair for every
\* inode or entry that uses one.
Loose(k, g) == Bit \ Pinned(k, g)
Uses(k, g) ==
  {p \in Loose(k, g) \X (1 .. MaxCut[k] + 1) : p[2] <= refs[k][UnitNo(k, g, p[1])]}

\* A group's counter never claims more units than are unused, give or take
\* one for every release that ended early, so the 16-bit counter cannot
\* overflow in ext2_free_block.
CounterHonest ==
  \A k \in Kind, g \in Group :
    LET most == Cardinality(Loose(k, g)) + cut[k][g]
    IN /\ free[k][g] + Cardinality(Uses(k, g)) <= most
       /\ dfree[k][g] + Cardinality(Uses(k, g)) <= most

\* A used unit is in the lower half of its word, and its mask holds no pinned
\* bit: whatever the driver allocates, or may remove, it can name exactly.
UsedLow ==
  \A k \in Kind : \A no \in Number(k) :
    refs[k][no] > 0 =>
      LET g == GroupOf(k, no)
          b == BitOf(k, no)
      IN /\ g \in Group /\ b \in Bit /\ Low(b)
         /\ Mask(b) \cap Pinned(k, g) = {}

\* Every use of a unit but the last comes from a release that ended early,
\* and every use of a unit marked free does.
UsesCut ==
  \A k \in Kind : \A no \in Number(k) :
    refs[k][no] > 0 =>
      LET g == GroupOf(k, no)
      IN refs[k][no] <= cut[k][g] + IF BitOf(k, no) \in bitmap[k][g] THEN 1 ELSE 0

\* The inductive invariant behind UsedMarked, NoSharing and AssertHolds
\* (the code of both release functions leaves the checks to its callers).
IInv == TypeOK /\ UsedMarked /\ UsedLow /\ UsesCut /\ NoSharing /\ AssertHolds
=============================================================================
