---------------------------- MODULE MCExt2Alloc ----------------------------
(***************************************************************************)
(* Small images for the allocator.  A word has 6 bits and an int 3, so     *)
(* bits 0..2 of a word are its lower half and bit 2 is the sign bit.       *)
(***************************************************************************)
EXTENDS Ext2Alloc

MCPerGroup == [k \in Kind |-> IF k = "block" THEN 6 ELSE 2]
MCDescBlock == [g \in Group |-> g % TableBlocks]

Padding(k) == {b \in Bit : b >= MCPerGroup[k]}

\* An image: the marked bits below the padding in both groups, and the
\* numbers that removable files use.
Image(k, g0, g1) == [g \in Group |-> Padding(k) \cup IF g = 0 THEN g0 ELSE g1]

SumFree(marked) ==
  [k \in Kind |-> MapThenSumSet(LAMBDA g : Cardinality(Bit \ marked[k][g]), Group)]

\* Metadata and one removable file with its inode in the first group; the
\* second group holds a file in an upper half that is never removed, and no
\* free inode.
LowMarked == [k \in Kind |-> IF k = "block" THEN Image(k, {0, 1}, {0, 4})
                                            ELSE Image(k, {0, 1}, {0, 1})]
LowHeld == [k \in Kind |-> IF k = "block" THEN {2} ELSE {1}]
LowTotal == SumFree(LowMarked)
\* The image satisfies the hypothesis of the theorems.
ASSUME LowImageHolds == Marked = LowMarked => LowImage

CutBlock == [k \in Kind |-> IF k = "block" THEN 1 ELSE 0]
CutNone == [k \in Kind |-> 0]
\* A file of the image owns block 5 of the first group, bit 4: an upper half.
UpperMarked == [k \in Kind |-> IF k = "block" THEN Image(k, {0, 4}, {0})
                                              ELSE Image(k, {0}, {})]
UpperHeld == [k \in Kind |-> IF k = "block" THEN {5} ELSE {1}]
UpperTotal == SumFree(UpperMarked)
=============================================================================
