-------------------------- MODULE Ext2FileProofs --------------------------
(***************************************************************************)
(* Proofs about Ext2File: whatever is called and whatever fails, a file    *)
(* has each of its blocks to itself, but for those of which a release      *)
(* failed half way; and as long as the calls are those the code supports   *)
(* and succeed, it has exactly the blocks of its size, after a restart     *)
(* too.                                                                    *)
(***************************************************************************)
EXTENDS Ext2File, TLAPS

-----------------------------------------------------------------------------
(* Blocks and positions.                                                   *)

\* The number of blocks is the least that is enough.
LEMMA BlocksIs ==
  ASSUME NEW n \in Nat
  PROVE  /\ Blocks(n) \in Nat
         /\ n <= Blocks(n) * BlockSize
         /\ Blocks(n) * BlockSize < n + BlockSize
         /\ BlockSize \in Nat \ {0}
<1>1. BlockSize \in Nat \ {0}
  BY FileAssumption
<1>2. n + BlockSize - 1 \in Nat
  BY <1>1
<1>3. \A a \in Nat, b \in Nat \ {0} :
        /\ a \div b \in Nat
        /\ b * (a \div b) <= a /\ a < b * (a \div b) + b
  BY SMT
<1>4. /\ Blocks(n) \in Nat
      /\ BlockSize * Blocks(n) <= n + BlockSize - 1
      /\ n + BlockSize - 1 < BlockSize * Blocks(n) + BlockSize
  BY <1>1, <1>2, <1>3 DEF Blocks
<1> QED
  BY <1>1, <1>4, SMT

\* And the only one between those two bounds.
LEMMA BlocksUnique ==
  ASSUME NEW n \in Nat, NEW q \in Nat,
         n <= q * BlockSize, q * BlockSize < n + BlockSize
  PROVE  Blocks(n) = q
<1>1. \A x, y \in Nat, b \in Nat \ {0} :
        n <= x * b /\ x * b < n + b /\ n <= y * b /\ y * b < n + b => x = y
  <2> SUFFICES ASSUME NEW x \in Nat, NEW y \in Nat, NEW b \in Nat \ {0},
                      n <= x * b, x * b < n + b, n <= y * b, y * b < n + b
               PROVE  x = y
    OBVIOUS
  <2>1. x * b < (y + 1) * b /\ y * b < (x + 1) * b
    BY SMT
  <2>2. x < y + 1 /\ y < x + 1
    BY <2>1, SMT
  <2> QED
    BY <2>2
<1> QED
  BY <1>1, BlocksIs

\* Fewer blocks are fewer bytes.
LEMMA BlocksLess ==
  ASSUME NEW m \in Nat, NEW n \in Nat, Blocks(m) < Blocks(n)
  PROVE  m < n
<1>1. \A x, y \in Nat, b \in Nat \ {0} : x < y => x * b + b <= y * b
  <2> TAKE x \in Nat, y \in Nat, b \in Nat \ {0}
  <2> HAVE x < y
  <2>1. (x + 1) * b <= y * b
    BY SMT
  <2> QED BY <2>1, SMT
<1> DEFINE x == Blocks(m) * BlockSize
           y == Blocks(n) * BlockSize
<1>2. x + BlockSize <= y
  BY <1>1, BlocksIs
<1>3. \A u, v \in Nat : u * v \in Nat
  BY SMT
<1>4. m <= x /\ y < n + BlockSize /\ x \in Nat /\ y \in Nat /\ BlockSize \in Nat
  BY <1>3, BlocksIs
<1> HIDE DEF x, y
<1> QED
  BY <1>2, <1>4

\* A position is its block's number and the place in the block.
LEMMA PosIs ==
  ASSUME NEW p \in Nat
  PROVE  /\ block_number(p) \in Nat /\ pos_in_block(p) \in Offset
         /\ p = block_number(p) * BlockSize + pos_in_block(p)
<1>1. BlockSize \in Nat \ {0}
  BY FileAssumption
<1>2. \A a \in Nat, b \in Nat \ {0} :
        /\ a \div b \in Nat /\ a % b \in 0 .. b - 1
        /\ a = (a \div b) * b + (a % b)
  BY SMT
<1> QED
  BY <1>1, <1>2 DEF block_number, pos_in_block, Offset

-----------------------------------------------------------------------------
(* The content of blocks.                                                  *)

Content0 == [Block -> [Offset -> Byte \cup {Junk}]]

\* What a write puts into a block is bytes.
LEMMA PatchType ==
  ASSUME NEW block \in [Offset -> Byte \cup {Junk}], NEW o \in Nat, NEW s \in Seq(Byte)
  PROVE  Patch(block, o, s) \in [Offset -> Byte \cup {Junk}]
<1>1. \A k \in Offset : k \in o .. o + Len(s) - 1 => s[k - o + 1] \in Byte
  <2> TAKE k \in Offset
  <2> HAVE k \in o .. o + Len(s) - 1
  <2>1. k - o + 1 \in 1 .. Len(s)
    BY FileAssumption DEF Offset
  <2> QED BY <2>1
<1> QED
  BY <1>1 DEF Patch

\* What is followed is bytes.
LEMMA FollowedType ==
  ASSUME NEW content \in Content0, Followed(content)
  PROVE  data' \in Content0
<1>1. Blank \in [Offset -> Byte \cup {Junk}]
  BY DEF Blank
<1> QED
  BY <1>1 DEF Followed, Content0

-----------------------------------------------------------------------------
(* Reading.                                                                *)

\* A read moves one position forward.
LEMMA ReadStep ==
  ASSUME IInv, NEW h \in Handle, NEW count \in Count, vfs_read(h, count)
  PROVE  IInv'
<1>1. pos' \in [Handle -> Nat]
  <2>1. nread(pos[h], count) \in Nat
    BY FileAssumption DEF IInv, TypeOK, Inode, nread, MIN, vfs_read
  <2> QED BY <2>1 DEF IInv, TypeOK, vfs_read
<1>2. UNCHANGED <<inode, stored, data, free, torn, sound, halt>>
  BY DEF vfs_read
<1> QED
  BY <1>1, <1>2 DEF IInv, TypeOK, NoShare, SoundWhole, SoundBacked, Backed, RestartBacked

-----------------------------------------------------------------------------
(* Writing.                                                                *)

\* An inode in memory can be written.
LEMMA Fits ==
  ASSUME NEW e \in Inode
  PROVE  e \in OnDevice
BY FileAssumption DEF Inode, OnDevice

\* A write that ends short leaves an inode that has its pointers.
LEMMA BreakStep ==
  ASSUME IInv, NEW h \in Handle, NEW at \in Nat, NEW content \in Content0,
         Break(h, at, content), inode' \in Inode, stored' \in OnDevice,
         free' \in SUBSET Block, halt' \in {"run", "abort", "assert"},
         torn' = torn, NoShare'
  PROVE  IInv'
<1>1. data' \in [Block -> [Offset -> Byte \cup {Junk}]]
  BY FollowedType DEF Break, Content0
<1>2. pos' \in [Handle -> Nat] /\ sound' = FALSE
  BY DEF Break, IInv, TypeOK
<1> QED
  BY <1>1, <1>2 DEF IInv, TypeOK, SoundWhole, SoundBacked, RestartBacked

\* The second part of a write.
LEMMA WriteNewStep ==
  ASSUME IInv, NEW h \in Handle, NEW s \in Seq(Byte), Len(s) > 0,
         NEW i \in Nat, NEW at \in Nat, NEW ip \in Inode, ip.ptr = inode.ptr,
         NEW content \in Content0, NEW good \in BOOLEAN,
         sound /\ good => ip.size = i * BlockSize /\ Blocks(inode.size) = i,
         WriteNew(h, s, i, at, ip, content, good)
  PROVE  IInv'
<1> DEFINE n == MIN(Len(s), BlockSize)
           grown == Grown(ip, n)
<1>1. n \in Nat \ {0} /\ (Len(s) < BlockSize => n < BlockSize)
  BY FileAssumption DEF MIN
<1>2. grown.size = ip.size + n /\ grown.ptr = inode.ptr
  BY DEF Grown, Sized, Inode
<1>3. grown \in Inode
  BY <1>1 DEF WriteNew, Grown, Sized, Inode
<1> HIDE DEF grown
<1>11. torn' = torn
  BY DEF WriteNew
<1>4. ASSUME inode' = grown, Break(h, at, content), stored' = stored,
             free' \in {free} \cup {free \ {b} : b \in free},
             halt' \in {"abort", halt}
      PROVE  IInv'
  <2>1. free' \in SUBSET free
    BY <1>4
  <2>2. NoShare'
    BY <1>2, <1>4, <1>11, <2>1 DEF IInv, NoShare
  <2> QED
    BY <1>3, <1>4, <1>11, <2>1, <2>2, BreakStep DEF IInv, TypeOK
<1>5. ASSUME i < NDirect, NEW b \in free, ext2_inode_alloc_block(grown, i, b)
      PROVE  /\ inode' \in Inode /\ free' \in SUBSET Block /\ NoShare'
             /\ inode'.size = grown.size
             /\ \A j \in Index : inode'.ptr[j] = IF j = i THEN b ELSE inode.ptr[j]
             /\ free' = free \ {b} /\ i \in Index
  <2>1. i \in Index
    BY <1>5, FileAssumption DEF Index
  <2>2. /\ inode'.size = grown.size
        /\ \A j \in Index : inode'.ptr[j] = IF j = i THEN b ELSE inode.ptr[j]
        /\ free' = free \ {b} /\ inode' \in Inode /\ free' \in SUBSET Block
    BY <1>2, <1>3, <1>5, <2>1 DEF ext2_inode_alloc_block, Inode, IInv, TypeOK
  <2> DEFINE q == inode'.ptr
             f == free'
  <2>3. /\ \A j \in Index : q[j] = IF j = i THEN b ELSE inode.ptr[j]
        /\ \A x \in f : x \in free /\ x # b
    BY <2>2
  <2> HIDE DEF q, f
  <2>4. /\ \A j, k \in Index : q[j] = q[k] /\ q[j] \notin {0} \cup torn => j = k
        /\ \A j \in Index : q[j] \in f => q[j] \in torn
    <3>1. /\ \A j, k \in Index :
               inode.ptr[j] = inode.ptr[k] /\ inode.ptr[j] \notin {0} \cup torn => j = k
          /\ \A j \in Index : inode.ptr[j] \in free => inode.ptr[j] \in torn
      BY DEF IInv, NoShare
    <3>2. b \in free
      OBVIOUS
    <3> QED
      BY ONLY <2>1, <2>3, <3>1, <3>2
  <2>5. NoShare'
    BY <1>11, <2>4 DEF NoShare, q, f
  <2> QED
    BY <2>1, <2>2, <2>5
<1>6. ASSUME i < NDirect, NEW b \in free, ext2_inode_alloc_block(grown, i, b),
             stored' \in {stored, inode'}, Break(h, at, content),
             halt' \in {"run", "abort", halt}
      PROVE  IInv'
  BY <1>5, <1>6, <1>11, Fits, BreakStep DEF IInv, TypeOK
<1>7. ASSUME i < NDirect, NEW b \in free, ext2_inode_alloc_block(grown, i, b),
             ext2_write_inode, Len(s) < BlockSize,
             pos' = [pos EXCEPT ![h] = at + Len(s)],
             sound' = (sound /\ good),
             Followed([content EXCEPT ![b] = Patch(Blank, 0, s)]),
             halt' = halt
      PROVE  IInv'
  <2>1. b \in Block
    BY DEF IInv, TypeOK
  <2>2. Patch(Blank, 0, s) \in [Offset -> Byte \cup {Junk}]
    BY PatchType DEF Blank
  <2>3. data' \in Content0
    BY <1>7, <2>1, <2>2, FollowedType DEF Content0
  <2>4. stored' = inode' /\ stored' \in OnDevice
    BY <1>5, <1>7, Fits DEF ext2_write_inode
  <2>5. pos' \in [Handle -> Nat]
    BY <1>7 DEF IInv, TypeOK
  <2>6. ASSUME sound, good
        PROVE  Backed'
    <3>1. ip.size = i * BlockSize /\ Blocks(inode.size) = i /\ Backed
      BY <2>6 DEF IInv, SoundBacked
    <3>2. inode'.size = i * BlockSize + n
      BY <1>2, <1>5, <1>7, <3>1
    <3>3. Blocks(inode'.size) = i + 1
      <4> DEFINE z == inode'.size
      <4>1. (i + 1) * BlockSize = i * BlockSize + BlockSize /\ i * BlockSize \in Nat
        BY FileAssumption, SMT
      <4>2. /\ z \in Nat /\ z <= (i + 1) * BlockSize /\ (i + 1) * BlockSize < z + BlockSize
        BY <1>1, <1>7, <3>2, <4>1, FileAssumption
      <4> HIDE DEF z
      <4>3. Blocks(z) = i + 1
        BY <4>2, BlocksUnique
      <4> QED BY <4>3 DEF z
    <3> DEFINE q == inode'.ptr
               f == free'
    <3>4. /\ \A j \in Index : q[j] = IF j = i THEN b ELSE inode.ptr[j]
          /\ f = free \ {b} /\ i \in Index /\ b # 0
      BY <1>5, <1>7, <2>1, FileAssumption
    <3>5. \A j \in Index : inode.ptr[j] # 0 <=> j < i
      BY <3>1 DEF Backed
    <3>6. Block \ free = {inode.ptr[j] : j \in Index} \ {0}
      BY <3>1 DEF Backed
    <3> HIDE DEF q, f
    <3>7. \A j \in Index : q[j] # 0 <=> j < i + 1
      BY <3>4, <3>5 DEF Index
    <3>8. inode.ptr[i] = 0
      BY <3>4, <3>5
    <3>9. Block \ f = {q[j] : j \in Index} \ {0}
      BY <2>1, <3>4, <3>6, <3>8
    <3>10. i + 1 <= NDirect
      BY <1>7, FileAssumption
    <3> QED
      BY <3>3, <3>7, <3>9, <3>10 DEF Backed, q, f
  <2>7. inode'.size \in Nat
    BY <1>5, <1>7, FileAssumption DEF Inode
  <2>8. RestartBacked'
    BY <2>4, <2>7 DEF RestartBacked
  <2>9. SoundWhole' /\ SoundBacked'
    BY <1>7, <1>11, <2>6 DEF IInv, SoundWhole, SoundBacked
  <2>10. TypeOK' /\ NoShare'
    BY <1>5, <1>7, <1>11, <2>3, <2>4, <2>5 DEF IInv, TypeOK, Content0
  <2> QED
    BY <2>8, <2>9, <2>10 DEF IInv
<1>8. CASE /\ i >= NDirect
           /\ inode' = grown /\ halt' = "abort" /\ Break(h, at, content)
           /\ UNCHANGED <<stored, free>>
  BY <1>4, <1>8
<1>9. CASE /\ i < NDirect
           /\ inode' = grown /\ Break(h, at, content)
           /\ free' \in {free} \cup {free \ {b} : b \in free}
           /\ UNCHANGED <<stored, halt>>
  BY <1>4, <1>9
<1>10. CASE /\ i < NDirect
            /\ \E b \in free :
                 /\ ext2_inode_alloc_block(grown, i, b)
                 /\ \/ /\ stored' = stored /\ Break(h, at, content)
                       /\ UNCHANGED halt
                    \/ /\ ext2_write_inode /\ Break(h, at, content)
                       /\ halt' = IF Len(s) >= BlockSize THEN "abort" ELSE "run"
                    \/ /\ ext2_write_inode /\ Len(s) < BlockSize
                       /\ pos' = [pos EXCEPT ![h] = at + Len(s)]
                       /\ sound' = (sound /\ good)
                       /\ Followed([content EXCEPT ![b] = Patch(Blank, 0, s)])
                       /\ UNCHANGED halt
  <2> PICK b \in free :
                 /\ ext2_inode_alloc_block(grown, i, b)
                 /\ \/ /\ stored' = stored /\ Break(h, at, content)
                       /\ UNCHANGED halt
                    \/ /\ ext2_write_inode /\ Break(h, at, content)
                       /\ halt' = IF Len(s) >= BlockSize THEN "abort" ELSE "run"
                    \/ /\ ext2_write_inode /\ Len(s) < BlockSize
                       /\ pos' = [pos EXCEPT ![h] = at + Len(s)]
                       /\ sound' = (sound /\ good)
                       /\ Followed([content EXCEPT ![b] = Patch(Blank, 0, s)])
                       /\ UNCHANGED halt
    BY <1>10
  <2>1. CASE stored' = stored /\ Break(h, at, content) /\ UNCHANGED halt
    BY <1>6, <1>10, <2>1
  <2>2. CASE /\ ext2_write_inode /\ Break(h, at, content)
             /\ halt' = IF Len(s) >= BlockSize THEN "abort" ELSE "run"
    BY <1>6, <1>10, <2>2 DEF ext2_write_inode
  <2>3. CASE /\ ext2_write_inode /\ Len(s) < BlockSize
             /\ pos' = [pos EXCEPT ![h] = at + Len(s)]
             /\ sound' = (sound /\ good)
             /\ Followed([content EXCEPT ![b] = Patch(Blank, 0, s)])
             /\ UNCHANGED halt
    BY <1>7, <1>10, <2>3
  <2> QED
    BY <2>1, <2>2, <2>3
<1> QED
  BY <1>8, <1>9, <1>10 DEF WriteNew, grown

\* A last block that is full.
LEMMA SpareNone ==
  ASSUME NEW m \in Nat, Blocks(m) * BlockSize = m
  PROVE  block_number(m) = Blocks(m)
<1>1. \A k \in Nat, b \in Nat \ {0} : (k * b) \div b = k
  BY SMT
<1>2. (Blocks(m) * BlockSize) \div BlockSize = Blocks(m)
  BY <1>1, BlocksIs
<1> QED
  BY <1>2 DEF block_number

\* A last block that has something left is that of the end.
LEMMA SpareSome ==
  ASSUME NEW m \in Nat, Blocks(m) * BlockSize # m
  PROVE  Blocks(m) = block_number(m) + 1
<1> DEFINE q == block_number(m)
           r == pos_in_block(m)
<1>1. q \in Nat /\ r \in Offset /\ m = q * BlockSize + r
  BY PosIs
<1>2. q * BlockSize \in Nat /\ (q + 1) * BlockSize = q * BlockSize + BlockSize
  BY <1>1, FileAssumption, SMT
<1> HIDE DEF q, r
<1>3. CASE r = 0
  <2>1. m = q * BlockSize
    BY <1>1, <1>2, <1>3
  <2>2. m <= q * BlockSize /\ q * BlockSize < m + BlockSize
    BY <2>1, FileAssumption
  <2>3. Blocks(m) = q
    BY <1>1, <2>2, BlocksUnique
  <2> QED
    BY <2>1, <2>3
<1>4. CASE r # 0
  <2>1. r \in 1 .. BlockSize - 1
    BY <1>1, <1>4, FileAssumption DEF Offset
  <2> DEFINE z == (q + 1) * BlockSize
  <2>2. m <= z /\ z < m + BlockSize
    BY <1>1, <1>2, <2>1, FileAssumption
  <2>3. Blocks(m) = q + 1
    BY <1>1, <2>2, BlocksUnique
  <2> QED
    BY <2>3 DEF q
<1> QED
  BY <1>3, <1>4

\* What is not further is in no later block.
LEMMA NumberLess ==
  ASSUME NEW p \in Nat, NEW m \in Nat, p <= m
  PROVE  (block_number(p) + 1) * BlockSize <= (block_number(m) + 1) * BlockSize
<1>1. \A a, c \in Nat, b \in Nat \ {0} : a <= c => a \div b <= c \div b
  BY SMT
<1>2. \A a, c \in Nat, b \in Nat \ {0} : a <= c => (a + 1) * b <= (c + 1) * b
  BY SMT
<1>3. block_number(p) <= block_number(m)
  BY <1>1, FileAssumption DEF block_number
<1> QED
  BY <1>2, <1>3, PosIs, FileAssumption

\* The first part of a write ends with its block.
LEMMA PartEnds ==
  ASSUME NEW p \in Nat
  PROVE  /\ BlockSize - pos_in_block(p) \in Nat \ {0}
         /\ p + (BlockSize - pos_in_block(p)) = (block_number(p) + 1) * BlockSize
<1> DEFINE q == block_number(p)
           r == pos_in_block(p)
<1>1. q \in Nat /\ r \in Offset /\ p = q * BlockSize + r
  BY PosIs
<1>2. q * BlockSize \in Nat /\ (q + 1) * BlockSize = q * BlockSize + BlockSize
  BY <1>1, FileAssumption, SMT
<1> HIDE DEF q, r
<1>3. BlockSize - r \in Nat \ {0} /\ p + (BlockSize - r) = (q + 1) * BlockSize
  BY <1>1, <1>2, FileAssumption DEF Offset
<1> QED
  BY <1>3 DEF q, r

\* Where the second part of a write goes, if the code supports it: to the block
\* after the last one of the file.
LEMMA NewStarts ==
  ASSUME NEW p \in Nat, NEW s \in Seq(Byte), inode.size \in Nat, p <= inode.size,
         NEW n, n = IF Spare = 0 THEN 0 ELSE MIN(Len(s), BlockSize - pos_in_block(p)),
         n < Len(s), Supported(p, Len(s)),
         NEW k, k = IF Spare = 0 THEN block_number(p) ELSE block_number(p) + 1
  PROVE  p + n = k * BlockSize /\ inode.size <= k * BlockSize /\ Blocks(inode.size) = k
<1> DEFINE i == block_number(p)
           o == pos_in_block(p)
           m == inode.size
           y == Blocks(m) * BlockSize
<1>1. i \in Nat /\ o \in 0 .. BlockSize - 1 /\ BlockSize \in Nat \ {0} /\ Len(s) \in Nat
  BY PosIs, FileAssumption DEF Offset
<1>2. y \in Nat /\ Blocks(m) \in Nat /\ m <= y
  <2>1. \A u, v \in Nat : u * v \in Nat
    BY SMT
  <2> QED
    BY <1>1, <2>1, BlocksIs
<1>3. CASE Spare = 0
  <2>1. p = m /\ n = 0 /\ k = i
    BY <1>3 DEF Supported
  <2>2. y - m = 0
    BY <1>3 DEF Spare
  <2> HIDE DEF y
  <2>3. y = m
    BY <1>2, <2>2
  <2>4. Blocks(m) = i
    BY <2>1, <2>3, SpareNone DEF y
  <2> QED
    BY <2>1, <2>3, <2>4 DEF y
<1>4. CASE Spare # 0
  <2>1. n = BlockSize - o /\ k = i + 1
    BY <1>1, <1>4 DEF MIN
  <2>2. o + Len(s) > BlockSize
    BY <1>1, <2>1
  <2>3. i = block_number(m)
    <3>1. CASE p = m
      BY <3>1
    <3>2. CASE p # m
      BY <1>1, <2>2, <3>2 DEF Supported
    <3> QED
      BY <3>1, <3>2
  <2>4. Blocks(m) = i + 1
    <3>1. Blocks(m) * BlockSize # m
      BY <1>2, <1>4 DEF Spare
    <3> QED
      BY <2>3, <3>1, SpareSome
  <2>5. p + n = (i + 1) * BlockSize
    BY <2>1, PartEnds
  <2> QED
    BY <1>2, <2>1, <2>4, <2>5
<1> QED
  BY <1>3, <1>4

\* Writing, in the block there is, in a new one, or in both.
LEMMA WriteStep ==
  ASSUME IInv, NEW h \in Handle, NEW s \in Payload, vfs_write(h, s)
  PROVE  IInv'
<1> DEFINE p == pos[h]
           i == block_number(p)
           m == inode.size
           left == BlockSize - pos_in_block(p)
           n == IF Spare = 0 THEN 0 ELSE MIN(Len(s), left)
<1>1. /\ p \in Nat /\ m \in Nat /\ p <= m /\ s \in Seq(Byte) /\ i \in Nat /\ Len(s) \in Nat
      /\ inode.ptr \in [Index -> Block \cup {0}]
  <2>1. pos[h] \in Nat
    BY DEF IInv, TypeOK
  <2>2. block_number(pos[h]) \in Nat
    BY <2>1, PosIs
  <2>3. s \in Seq(Byte)
    BY FileAssumption
  <2> QED
    BY <2>1, <2>2, <2>3 DEF IInv, TypeOK, Inode, vfs_write
<1>2. left \in Nat \ {0} /\ p + left = (i + 1) * BlockSize
  BY <1>1, PartEnds
<1>9. pos_in_block(p) \in Nat /\ left = BlockSize - pos_in_block(p) /\ BlockSize \in Nat
  <2>1. pos_in_block(p) \in Offset
    BY <1>1, PosIs
  <2> QED
    BY <2>1, FileAssumption DEF Offset, left
<1> HIDE DEF left
<1>3. n \in 0 .. Len(s)
  BY <1>1, <1>2 DEF MIN
<1>4. CASE /\ n = BlockSize
           /\ halt' = "abort" /\ sound' = FALSE
           /\ UNCHANGED <<inode, stored, free, pos, torn>>
           /\ Followed(data)
  <2>1. data' \in [Block -> [Offset -> Byte \cup {Junk}]]
    BY <1>4, FollowedType DEF Content0, IInv, TypeOK
  <2> QED
    BY <1>4, <2>1 DEF IInv, TypeOK, NoShare, SoundWhole, SoundBacked, RestartBacked
<1>5. ASSUME NEW done \in IF BlockAt(i) = 0 THEN {0} ELSE {0, n},
             NEW content,
             content = IF done = 0 THEN data
                       ELSE [data EXCEPT ![BlockAt(i)] = Patch(@, pos_in_block(p), SubSeq(s, 1, n))]
      PROVE  content \in Content0 /\ done \in 0 .. n
  <2>1. CASE done = 0
    BY <1>3, <1>5, <2>1 DEF Content0, IInv, TypeOK
  <2>2. CASE done # 0
    <3>1. BlockAt(i) \in Block /\ done = n
      BY <1>1, <2>2 DEF BlockAt
    <3>2. SubSeq(s, 1, n) \in Seq(Byte)
      BY <1>1, <1>3
    <3>3. pos_in_block(p) \in Nat
      BY <1>9
    <3> DEFINE t == SubSeq(s, 1, n)
               o == pos_in_block(p)
               c == BlockAt(i)
    <3>4. data[c] \in [Offset -> Byte \cup {Junk}]
      BY <3>1 DEF IInv, TypeOK
    <3> HIDE DEF t, o, c
    <3>5. Patch(data[c], o, t) \in [Offset -> Byte \cup {Junk}]
      BY <3>2, <3>3, <3>4, PatchType DEF t, o
    <3>6. content = [data EXCEPT ![c] = Patch(data[c], o, t)]
      BY <1>5, <2>2 DEF t, o, c
    <3>7. data \in [Block -> [Offset -> Byte \cup {Junk}]]
      BY DEF IInv, TypeOK
    <3>8. c \in Block
      BY <3>1 DEF c
    <3> QED
      BY <1>3, <3>1, <3>5, <3>6, <3>7, <3>8 DEF Content0
  <2> QED
    BY <2>1, <2>2
<1>6. ASSUME NEW done \in 0 .. n, NEW content \in Content0, NEW good \in BOOLEAN,
             good = (done = n /\ Supported(p, Len(s))),
             NEW ip, ip = Sized(inode, MAX(p + done, m)),
             done = Len(s), ip.size <= MaxSize,
             inode' = ip, ext2_write_inode \/ stored' = stored,
             pos' = [pos EXCEPT ![h] = p + done],
             sound' = (sound /\ good),
             UNCHANGED <<free, torn, halt>>, Followed(content)
      PROVE  IInv'
  <2>1. done = Len(s) /\ n = Len(s)
    BY <1>1, <1>3, <1>6
  <2>2. ip.size = MAX(p + done, m) /\ ip.ptr = inode.ptr /\ ip \in Inode
    <3>1. ip.size = MAX(p + done, m) /\ ip.ptr = inode.ptr
      BY <1>6 DEF Sized, Inode, IInv, TypeOK
    <3>2. MAX(p + done, m) \in 0 .. MaxSize
      BY <1>1, <1>3, <1>6, <3>1, FileAssumption DEF MAX
    <3> QED
      BY <1>6, <3>1, <3>2 DEF Sized, Inode, IInv, TypeOK
  <2>3. data' \in [Block -> [Offset -> Byte \cup {Junk}]]
    BY <1>6, FollowedType DEF Content0
  <2>4. stored' \in OnDevice
    BY <1>6, <2>2, Fits DEF ext2_write_inode, IInv, TypeOK
  <2>5. TypeOK'
    BY <1>1, <1>6, <2>2, <2>3, <2>4 DEF IInv, TypeOK
  <2>6. NoShare'
    BY <1>6, <2>2 DEF IInv, NoShare
  <2>7. Blocks(ip.size) = Blocks(m)
    <3>1. CASE Spare = 0
      BY <1>1, <2>1, <2>2, <3>1 DEF MAX
    <3>2. CASE Spare # 0
      <4> DEFINE y == Blocks(m) * BlockSize
                 z == ip.size
      <4>1. Blocks(m) = i + 1 \/ y >= (i + 1) * BlockSize
        BY <1>1, <3>2, SpareSome, NumberLess DEF Spare
      <4>2. y >= (i + 1) * BlockSize /\ y \in Nat /\ y < m + BlockSize /\ m <= y
        <5>1. \A u, v \in Nat : u * v \in Nat
          BY SMT
        <5>2. y \in Nat /\ (i + 1) * BlockSize \in Nat /\ y < m + BlockSize /\ m <= y
          <6>1. Blocks(m) \in Nat /\ y < m + BlockSize /\ m <= y
            BY <1>1, BlocksIs
          <6>2. i + 1 \in Nat
            BY <1>1
          <6> DEFINE c == Blocks(m)
                     k == i + 1
          <6>3. c \in Nat /\ k \in Nat
            BY <6>1, <6>2
          <6> HIDE DEF c, k
          <6>4. c * BlockSize \in Nat /\ k * BlockSize \in Nat
            BY <1>9, <5>1, <6>3
          <6> QED
            BY <6>1, <6>4 DEF c, k
        <5> QED
          BY <4>1, <5>2
      <4>3. p + done <= y
        BY <1>1, <1>2, <2>1, <3>2, <4>2 DEF MIN
      <4>4. z \in Nat /\ z <= y /\ y < z + BlockSize
        BY <1>1, <2>1, <2>2, <4>2, <4>3, FileAssumption DEF MAX
      <4>5. Blocks(m) \in Nat
        BY <1>1, BlocksIs
      <4> HIDE DEF z
      <4>6. Blocks(z) = Blocks(m)
        BY <4>4, <4>5, BlocksUnique
      <4> QED
        BY <4>6 DEF z
    <3> QED
      BY <3>1, <3>2
  <2>8. SoundWhole' /\ SoundBacked'
    BY <1>6, <2>2, <2>7 DEF IInv, SoundWhole, SoundBacked, Backed
  <2>9. RestartBacked'
    <3>1. ASSUME sound
          PROVE  /\ stored'.ptr = inode'.ptr /\ stored'.size <= inode'.size
                 /\ Blocks(stored'.size) = Blocks(inode'.size)
      <4>1. CASE stored' = inode'
        BY <1>1, <1>3, <1>6, <2>2, <4>1 DEF MAX
      <4>2. CASE stored' = stored
        <5>1. stored.ptr = inode.ptr /\ stored.size <= m /\ Blocks(stored.size) = Blocks(m)
          BY <3>1 DEF IInv, RestartBacked
        <5>2. m <= MAX(p + done, m)
          BY <1>1, <1>3 DEF MAX
        <5>3. stored.size \in Nat /\ MAX(p + done, m) \in Nat
          BY <1>1, <1>3, FileAssumption DEF IInv, TypeOK, OnDevice, MAX
        <5>4. inode' = ip
          BY <1>6
        <5> QED
          BY <1>1, <2>2, <2>7, <4>2, <5>1, <5>2, <5>3, <5>4
      <4> QED
        BY <1>6, <4>1, <4>2 DEF ext2_write_inode
    <3> QED
      BY <1>6, <3>1 DEF RestartBacked
  <2> QED
    BY <2>5, <2>6, <2>8, <2>9 DEF IInv
<1>7. ASSUME NEW done \in 0 .. n, NEW content \in Content0, NEW good \in BOOLEAN,
             good = (done = n /\ Supported(p, Len(s))),
             NEW ip, ip = Sized(inode, MAX(p + done, m)),
             NEW rest, rest = SubSeq(s, done + 1, Len(s)), done < Len(s),
             WriteNew(h, rest, IF Spare = 0 THEN i ELSE i + 1, p + done, ip, content, good)
      PROVE  IInv'
  <2>1. rest \in Seq(Byte) /\ done < Len(s) /\ Len(rest) > 0
    BY <1>1, <1>3, <1>7
  <2>2. ip.size = MAX(p + done, m) /\ ip.ptr = inode.ptr
    BY <1>7 DEF Sized, Inode, IInv, TypeOK
  <2>3. ip \in Inode
    <3>1. MIN(Len(rest), BlockSize) \in Nat
      BY <2>1, FileAssumption DEF MIN
    <3>2. MAX(p + done, m) + MIN(Len(rest), BlockSize) <= MaxSize
      BY <1>7, <2>2 DEF WriteNew, Grown, Sized, Inode, IInv, TypeOK
    <3> QED
      <4>1. MAX(p + done, m) \in 0 .. MaxSize
        BY <1>1, <1>3, <3>1, <3>2, FileAssumption DEF MAX
      <4> QED
        BY <1>7, <4>1 DEF Sized, Inode, IInv, TypeOK
  <2> DEFINE k == IF Spare = 0 THEN i ELSE i + 1
  <2>4. k \in Nat /\ p + done \in Nat
    BY <1>1
  <2>5. ASSUME sound, good
        PROVE  ip.size = k * BlockSize /\ Blocks(m) = k
    <3>1. done = n /\ Supported(p, Len(s))
      BY <1>7, <2>5
    <3>4. /\ p \in Nat /\ s \in Seq(Byte) /\ m \in Nat /\ p <= m /\ n < Len(s)
          /\ n = IF Spare = 0 THEN 0 ELSE MIN(Len(s), BlockSize - pos_in_block(p))
      BY <1>1, <1>7, <3>1 DEF left
    <3>5. k = IF Spare = 0 THEN block_number(p) ELSE block_number(p) + 1
      OBVIOUS
    <3> HIDE DEF n, k, p
    <3>2. p + n = k * BlockSize /\ m <= k * BlockSize /\ Blocks(m) = k
      BY <3>1, <3>4, <3>5, NewStarts
    <3>3. MAX(p + n, m) = p + n
      BY <1>1, <1>3, <3>2 DEF MAX
    <3> QED
      BY <2>2, <3>1, <3>2, <3>3
  <2> HIDE DEF k
  <2>6. WriteNew(h, rest, k, p + done, ip, content, good)
    BY <1>7 DEF k
  <2> QED
    BY <1>7, <2>1, <2>2, <2>3, <2>4, <2>5, <2>6, WriteNewStep
<1> QED
  <2>1. CASE n = BlockSize
    BY <1>4, <2>1 DEF vfs_write, left
  <2>2. CASE n # BlockSize
    <3>1. PICK done \in IF BlockAt(i) = 0 THEN {0} ELSE {0, n} :
            LET ip == Sized(inode, MAX(p + done, m))
                content == IF done = 0 THEN data
                           ELSE [data EXCEPT ![BlockAt(i)] = Patch(@, pos_in_block(p), SubSeq(s, 1, n))]
                rest == SubSeq(s, done + 1, Len(s))
                good == done = n /\ Supported(p, Len(s))
            IN \/ /\ done = Len(s) /\ ip.size <= MaxSize
                  /\ inode' = ip /\ (ext2_write_inode \/ stored' = stored)
                  /\ pos' = [pos EXCEPT ![h] = p + done]
                  /\ sound' = (sound /\ good)
                  /\ UNCHANGED <<free, torn, halt>>
                  /\ Followed(content)
               \/ /\ done < Len(s)
                  /\ WriteNew(h, rest, IF Spare = 0 THEN i ELSE i + 1, p + done, ip, content, good)
      BY <2>2 DEF vfs_write, left
    <3> DEFINE ip == Sized(inode, MAX(p + done, m))
               content == IF done = 0 THEN data
                          ELSE [data EXCEPT ![BlockAt(i)] = Patch(@, pos_in_block(p), SubSeq(s, 1, n))]
               rest == SubSeq(s, done + 1, Len(s))
               good == done = n /\ Supported(p, Len(s))
    <3>2. content \in Content0 /\ done \in 0 .. n
      BY <1>5
    <3>3. good \in BOOLEAN
      OBVIOUS
    <3> HIDE DEF ip, content, good, n, i, m, p
    <3>4. CASE done = Len(s)
      <4>1. /\ good = (done = n /\ Supported(p, Len(s)))
            /\ ip = Sized(inode, MAX(p + done, m))
        BY DEF good, ip
      <4>2. /\ ip.size <= MaxSize
            /\ inode' = ip /\ (ext2_write_inode \/ stored' = stored)
            /\ pos' = [pos EXCEPT ![h] = p + done]
            /\ sound' = (sound /\ good)
            /\ UNCHANGED <<free, torn, halt>>
            /\ Followed(content)
        BY <3>1, <3>4 DEF ip, content, good
      <4> QED
        BY <1>6, <3>2, <3>3, <3>4, <4>1, <4>2
    <3>5. CASE done # Len(s)
      BY <1>7, <3>1, <3>2, <3>3, <3>5 DEF ip, content, good
    <3> QED
      BY <3>4, <3>5
  <2> QED
    BY <2>1, <2>2

-----------------------------------------------------------------------------
(* Truncating and opening.                                                 *)

\* The size that truncate leaves fits, and does not wrap around as long as not
\* every block is taken off.
LEMMA WithoutIs ==
  ASSUME inode \in Inode, NEW m \in Nat, NEW k \in Nat, m <= k
  PROVE  /\ Without(m, k) \in OnDevice
         /\ \A j \in Index : Without(m, k).ptr[j] = IF j \in m .. k - 1 THEN 0 ELSE inode.ptr[j]
         /\ k - m < Blocks(inode.size) => Without(m, k) \in Inode
<1> DEFINE d == (k - m) * BlockSize
           x == inode.size - d
<1>1. inode.size \in 0 .. MaxSize /\ inode.ptr \in [Index -> Block \cup {0}]
  BY DEF Inode
<1>2. d \in Nat
  <2>1. \A u, v \in Nat : u * v \in Nat
    BY SMT
  <2> QED
    BY <2>1, FileAssumption
<1>3. x % Word \in 0 .. Word - 1
  <2>1. \A a \in Int, b \in Nat \ {0} : a % b \in 0 .. b - 1
    BY SMT
  <2> HIDE DEF d
  <2>2. x \in Int
    BY <1>1, <1>2, FileAssumption
  <2> QED
    BY <2>1, <2>2, FileAssumption
<1>4. ASSUME k - m < Blocks(inode.size)
      PROVE  x % Word \in 0 .. MaxSize
  <2> DEFINE y == Blocks(inode.size)
  <2>1. \A u, v \in Nat, b \in Nat \ {0} : u < v => u * b + b <= v * b
    <3> TAKE u \in Nat, v \in Nat, b \in Nat \ {0}
    <3> HAVE u < v
    <3>1. (u + 1) * b <= v * b
      BY SMT
    <3> QED BY <3>1, SMT
  <2>2. y \in Nat /\ y * BlockSize < inode.size + BlockSize /\ BlockSize \in Nat \ {0}
    <3>1. inode.size \in Nat
      BY <1>1, FileAssumption
    <3> QED
      BY <3>1, BlocksIs
  <2>3. d + BlockSize <= y * BlockSize
    BY <1>4, <2>1, <2>2
  <2>4. y * BlockSize \in Nat
    <3>1. \A u, v \in Nat : u * v \in Nat
      BY SMT
    <3> QED
      BY <2>2, <3>1
  <2> DEFINE z == y * BlockSize
  <2> HIDE DEF d, z
  <2>5. d < inode.size
    BY <1>1, <1>2, <2>2, <2>3, <2>4, FileAssumption DEF z
  <2>6. x \in 0 .. MaxSize
    BY <1>1, <1>2, <2>5, FileAssumption
  <2>7. \A a, b \in Nat : a < b => a % b = a
    BY SMT
  <2>8. x % Word = x
    BY <2>6, <2>7, FileAssumption
  <2> QED
    BY <2>6, <2>8
<1> QED
  BY <1>1, <1>3, <1>4 DEF Without, Inode, OnDevice

\* The blocks that can be released are different blocks of the file.
LEMMA GoneIs ==
  ASSUME inode \in Inode, NEW m \in Nat, NEW k \in Nat, \A j \in m .. k - 1 : Present(m, j)
  PROVE  /\ \A j \in m .. k - 1 : j \in Index /\ inode.ptr[j] \in Block /\ inode.ptr[j] \notin free
         /\ \A i, j \in m .. k - 1 : i < j => inode.ptr[i] # inode.ptr[j]
         /\ Gone(m, k) \in SUBSET Block
<1>1. \A j \in m .. k - 1 : j \in Index /\ inode.ptr[j] \in Block /\ inode.ptr[j] \notin free
  BY DEF Present, BlockAt, Inode
<1>2. \A i, j \in m .. k - 1 : i < j => inode.ptr[i] # inode.ptr[j]
  <2> TAKE i, j \in m .. k - 1
  <2> HAVE i < j
  <2>1. i \in m .. j - 1
    OBVIOUS
  <2>2. inode.ptr[j] \notin Gone(m, j)
    BY <1>1 DEF Present, BlockAt
  <2> QED
    BY <2>1, <2>2 DEF Gone
<1> QED
  BY <1>1, <1>2 DEF Gone

\* The blocks that go are blocks of the file, and their pointers go with them, or
\* they are torn.
LEMMA GoneShare ==
  ASSUME NoShare, inode \in Inode, free \in SUBSET Block, torn \in SUBSET Block,
         NEW m \in Nat, NEW k \in Nat,
         NEW g \in SUBSET Block, torn' = torn \cup g,
         \A j \in m .. k - 1 : j \in Index /\ inode.ptr[j] \in Block,
         \A j \in Index : inode'.ptr[j] = IF j \in m .. k - 1 THEN 0 ELSE inode.ptr[j],
         free' = free \cup Gone(m, k) \cup g
  PROVE  NoShare' /\ free' \in SUBSET Block
<1>2. Gone(m, k) \in SUBSET Block
  BY DEF Gone
<1> DEFINE q == inode'.ptr
           f == free'
           t == torn'
<1>3. \A j \in Index : q[j] = IF j \in m .. k - 1 THEN 0 ELSE inode.ptr[j]
  OBVIOUS
<1>4. \A y \in f : y \in free \/ y \in g \/ \E j \in m .. k - 1 : y = inode.ptr[j]
  BY DEF Gone
<1>5. /\ \A i, j \in Index :
           inode.ptr[i] = inode.ptr[j] /\ inode.ptr[i] \notin {0} \cup torn => i = j
      /\ \A i \in Index : inode.ptr[i] \in free => inode.ptr[i] \in torn
  BY DEF NoShare
<1>6. 0 \notin Block /\ 0 \notin free /\ 0 \notin g /\ t = torn \cup g
  BY FileAssumption
<1>9. \A j \in m .. k - 1 : j \in Index /\ inode.ptr[j] \in Block
  OBVIOUS
<1> HIDE DEF q, f, t
<1>7. \A i, j \in Index : q[i] = q[j] /\ q[i] \notin {0} \cup t => i = j
  BY ONLY <1>3, <1>5, <1>6
<1>8. \A i \in Index : q[i] \in f => q[i] \in t
  <2> SUFFICES ASSUME NEW i \in Index, q[i] \in f
               PROVE  q[i] \in t
    OBVIOUS
  <2>1. CASE i \in m .. k - 1
    BY <1>3, <1>4, <1>6, <1>9, <2>1
  <2>2. CASE i \notin m .. k - 1
    <3>1. q[i] = inode.ptr[i]
      BY <1>3, <2>2
    <3>2. CASE q[i] \in free \cup g
      BY <1>5, <1>6, <3>1, <3>2
    <3>3. CASE q[i] \notin free \cup g
      <4>1. PICK j \in m .. k - 1 : inode.ptr[i] = inode.ptr[j]
        BY <1>4, <3>1, <3>3
      <4>2. j \in Index /\ inode.ptr[i] # 0 /\ i # j
        BY <1>6, <1>9, <2>2, <4>1
      <4> QED
        BY <1>5, <1>6, <3>1, <4>1, <4>2
    <3> QED
      BY <3>2, <3>3
  <2> QED
    BY <2>1, <2>2
<1> QED
  BY <1>2, <1>7, <1>8 DEF NoShare, q, f, t

\* A truncate that ends early keeps the pointers in order.
LEMMA TornStep ==
  ASSUME IInv, torn' \in SUBSET Block, inode' \in Inode, stored' \in OnDevice, NoShare', free' \in SUBSET Block,
         pos' \in [Handle -> Nat], Followed(data), sound' = FALSE,
         halt' \in {"run", "abort", "assert"}
  PROVE  IInv'
<1>1. data' \in [Block -> [Offset -> Byte \cup {Junk}]]
  BY FollowedType DEF Content0, IInv, TypeOK
<1> QED
  BY <1>1 DEF IInv, TypeOK, SoundWhole, SoundBacked, RestartBacked

\* Truncating, whichever of its accesses fails.
LEMMA TruncateStep ==
  ASSUME IInv, NEW length \in Nat, NEW ok \in BOOLEAN, Truncate(length, ok),
         pos' \in [Handle -> Nat]
  PROVE  IInv'
<1> DEFINE now == Blocks(length)
           was == Blocks(inode.size)
<1>1. /\ inode \in Inode /\ stored \in OnDevice /\ free \in SUBSET Block /\ NoShare
      /\ torn \in SUBSET Block
      /\ inode.size \in Nat /\ halt \in {"run", "abort", "assert"}
  BY DEF IInv, TypeOK, Inode
<1>2. now \in Nat /\ was \in Nat
  BY <1>1, BlocksIs
<1>3. CASE /\ length = inode.size \/ now >= was
           /\ UNCHANGED <<inode, stored, data, free, torn, sound, halt>>
  BY <1>3 DEF IInv, TypeOK, NoShare, SoundWhole, SoundBacked, Backed, RestartBacked
<1>4. ASSUME now < was, \A j \in now .. was - 1 : Present(now, j), FreesAll(now, was, length, ok),
             Followed(data)
      PROVE  IInv'
  <2> DEFINE left == Without(now, was)
  <2>1. /\ left \in OnDevice
        /\ \A j \in Index : left.ptr[j] = IF j \in now .. was - 1 THEN 0 ELSE inode.ptr[j]
    BY <1>1, <1>2, <1>4, WithoutIs
  <2>2. length < inode.size
    BY <1>1, <1>4, BlocksLess
  <2>3. left.ptr \in [Index -> Block \cup {0}] /\ left = [size |-> left.size, ptr |-> left.ptr]
    BY <2>1 DEF OnDevice
  <2> HIDE DEF left, now, was
  <2>4. /\ inode' = [left EXCEPT !.size = length] /\ free' = free \cup Gone(now, was)
        /\ halt' = halt
        /\ \/ ok /\ stored' = inode' /\ sound' = sound
           \/ ~ok /\ stored' = left /\ sound' = FALSE
    BY <1>4 DEF FreesAll, left, Sized, ext2_write_inode
  <2>5. /\ inode' \in Inode /\ inode'.size = length /\ inode'.ptr = left.ptr
    <3>1. inode'.size = length /\ inode'.ptr = left.ptr
      BY <2>3, <2>4
    <3>2. inode' = [size |-> length, ptr |-> left.ptr]
      BY <2>3, <2>4
    <3>3. length \in 0 .. MaxSize
      BY <1>1, <2>2, FileAssumption DEF Inode
    <3> QED
      BY <2>3, <3>1, <3>2, <3>3 DEF Inode
  <2>9. /\ \A j \in now .. was - 1 : j \in Index /\ inode.ptr[j] \in Block
        /\ \A i, j \in now .. was - 1 : i < j => inode.ptr[i] # inode.ptr[j]
    BY <1>1, <1>2, <1>4, GoneIs
  <2>10. torn' = torn
    BY <1>4 DEF FreesAll
  <2>6. NoShare' /\ free' \in SUBSET Block
    <3> DEFINE g == {}
    <3>1. /\ g \in SUBSET Block
          /\ torn' = torn \cup g /\ free' = free \cup Gone(now, was) \cup g
      BY <2>4, <2>10
    <3>2. \A j \in Index : inode'.ptr[j] = IF j \in now .. was - 1 THEN 0 ELSE inode.ptr[j]
      BY <2>1, <2>5
    <3> HIDE DEF g
    <3> QED
      BY <1>1, <1>2, <2>9, <3>1, <3>2, GoneShare
  <2>7. CASE sound' = FALSE
    <3>1. stored' \in OnDevice
      BY <2>1, <2>4, <2>5, Fits
    <3> QED
      BY <1>1, <1>4, <2>4, <2>5, <2>6, <2>7, <2>10, <3>1, TornStep
  <2>8. CASE ok /\ stored' = inode' /\ sound' = sound
    <3>1. data' \in [Block -> [Offset -> Byte \cup {Junk}]]
      BY <1>4, FollowedType DEF Content0, IInv, TypeOK
    <3>2. ASSUME sound
          PROVE  Backed'
      <4> DEFINE q == inode'.ptr
                 f == free'
      <4>1. /\ \A j \in Index : inode.ptr[j] # 0 <=> j < was
            /\ was <= NDirect
            /\ Block \ free = {inode.ptr[j] : j \in Index} \ {0}
        BY <3>2 DEF IInv, SoundBacked, Backed, was
      <4>2. \A j \in Index : q[j] = IF j \in now .. was - 1 THEN 0 ELSE inode.ptr[j]
        BY <2>1, <2>5
      <4>3. Blocks(inode'.size) = now
        BY <2>5 DEF now
      <4>4. f = free \cup {inode.ptr[j] : j \in now .. was - 1}
        BY <2>4 DEF Gone
      <4>5. \A i, j \in Index : inode.ptr[i] = inode.ptr[j] /\ inode.ptr[i] # 0 => i = j
        BY <1>1, <3>2 DEF NoShare, IInv, SoundWhole
      <4> HIDE DEF q, f
      <4>6. now .. was - 1 \subseteq Index
        BY <1>2, <4>1, FileAssumption DEF Index
      <4>7. \A j \in Index : q[j] # 0 <=> j < now
        BY <1>2, <1>4, <4>1, <4>2 DEF Index
      <4>8. Block \ f = {q[j] : j \in Index} \ {0}
        <5>1. \A y \in Block \ f : \E j \in Index : y = q[j] /\ y # 0
          BY <4>1, <4>2, <4>4
        <5>2. \A j \in Index : q[j] # 0 => q[j] \in Block \ f
          <6> TAKE j \in Index
          <6> HAVE q[j] # 0
          <6>1. j \notin now .. was - 1 /\ q[j] = inode.ptr[j]
            BY <4>2
          <6>2. q[j] \in Block \ free
            BY <4>1, <6>1
          <6>3. q[j] \notin {inode.ptr[i] : i \in now .. was - 1}
            BY <4>5, <4>6, <6>1
          <6> QED
            BY <4>4, <6>2, <6>3
        <5> QED
          BY <5>1, <5>2
      <4> QED
        BY <1>2, <1>4, <4>1, <4>3, <4>7, <4>8, FileAssumption DEF Backed, q, f
    <3>5. stored'.size <= inode'.size
      BY <1>1, <2>2, <2>5, <2>8
    <3>3. SoundWhole' /\ SoundBacked' /\ RestartBacked'
      BY <2>8, <2>10, <3>2, <3>5 DEF IInv, SoundWhole, SoundBacked, RestartBacked
    <3>4. TypeOK'
      BY <1>1, <2>4, <2>5, <2>6, <2>8, <2>10, <3>1, Fits DEF IInv, TypeOK
    <3> QED
      BY <2>6, <3>3, <3>4 DEF IInv
  <2> QED
    BY <2>4, <2>7, <2>8
<1>5. ASSUME now < was, NEW k \in now .. was - 1, \A j \in now .. k - 1 : Present(now, j),
             FailsAt(now, k) \/ Missing(now, k), Followed(data)
      PROVE  IInv'
  <2> DEFINE left == Without(now, k)
  <2>1. k \in Nat /\ now <= k /\ k - now < was
    BY <1>2, <1>5
  <2>2. /\ left \in OnDevice /\ left \in Inode
        /\ \A j \in Index : left.ptr[j] = IF j \in now .. k - 1 THEN 0 ELSE inode.ptr[j]
    BY <1>1, <1>2, <2>1, WithoutIs
  <2> HIDE DEF left, now, was
  <2>3. stored' \in OnDevice /\ sound' = FALSE
    BY <1>1, <1>5, <2>2 DEF FailsAt, Missing, left
  <2>4. \A j \in now .. k - 1 : j \in Index /\ inode.ptr[j] \in Block
    BY <1>1, <1>2, <1>5, <2>1, GoneIs
  <2>5. CASE /\ inode' = left /\ torn' = torn
             /\ free' = free \cup Gone(now, k) /\ halt' \in {"run", "abort", "assert"}
    <3>1. \A j \in Index : inode'.ptr[j] = IF j \in now .. k - 1 THEN 0 ELSE inode.ptr[j]
      BY <2>2, <2>5
    <3> DEFINE g == {}
    <3>2. /\ g \in SUBSET Block
          /\ torn' = torn \cup g /\ free' = free \cup Gone(now, k) \cup g
      BY <2>5
    <3> HIDE DEF g
    <3>3. NoShare' /\ free' \in SUBSET Block
      BY <1>1, <1>2, <2>1, <2>4, <3>1, <3>2, GoneShare
    <3> QED
      BY <1>1, <1>5, <2>2, <2>3, <2>5, <3>3, TornStep
  <2>6. ASSUME Present(now, k)
        PROVE  /\ \A j \in now .. k + 1 - 1 : j \in Index /\ inode.ptr[j] \in Block
               /\ Gone(now, k + 1) = Gone(now, k) \cup {inode.ptr[k]}
    <3>1. \A j \in now .. k + 1 - 1 : j \in now .. k - 1 \/ j = k
      BY <1>2, <2>1
    <3>2. k \in now .. k + 1 - 1 /\ k + 1 \in Nat
      BY <1>2, <2>1
    <3>3. \A j \in now .. k + 1 - 1 : Present(now, j)
      BY <1>5, <2>6, <3>1
    <3>4. \A j \in now .. k + 1 - 1 : j \in Index /\ inode.ptr[j] \in Block
      <4> DEFINE e == k + 1
      <4>1. e \in Nat /\ \A j \in now .. e - 1 : Present(now, j)
        BY <3>2, <3>3
      <4> HIDE DEF e
      <4>2. \A j \in now .. e - 1 : j \in Index /\ inode.ptr[j] \in Block
        BY <1>1, <1>2, <4>1, GoneIs
      <4> QED
        BY <4>2 DEF e
    <3>5. Gone(now, k + 1) = Gone(now, k) \cup {inode.ptr[k]}
      BY <1>2, <2>1, <3>1, <3>2 DEF Gone
    <3> QED
      BY <3>4, <3>5
  <2>7. CASE /\ Present(now, k) /\ inode' = left /\ free' = free \cup Gone(now, k + 1)
             /\ torn' = torn \cup {inode.ptr[k]} /\ halt' = halt
    <3>1. \A j \in Index : inode'.ptr[j] = IF j \in now .. k - 1 THEN 0 ELSE inode.ptr[j]
      BY <2>2, <2>7
    <3> DEFINE g == {inode.ptr[k]}
    <3>2. g \in SUBSET Block
      BY <1>2, <2>1, <2>6, <2>7
    <3>3. torn' = torn \cup g /\ free' = free \cup Gone(now, k) \cup g
      BY <2>6, <2>7
    <3> HIDE DEF g
    <3>4. NoShare' /\ free' \in SUBSET Block
      BY <1>1, <1>2, <2>1, <2>4, <3>1, <3>2, <3>3, GoneShare
    <3>5. torn' \in SUBSET Block
      BY <1>1, <3>2, <3>3
    <3> QED
      BY <1>1, <1>5, <2>2, <2>3, <2>7, <3>4, <3>5, TornStep
  <2>8. CASE /\ Present(now, k) /\ inode' = [left EXCEPT !.ptr[k] = 0]
             /\ free' = free \cup Gone(now, k + 1) /\ torn' = torn /\ halt' = halt
    <3>1. inode' \in Inode /\ \A j \in Index : inode'.ptr[j] = IF j = k THEN 0 ELSE left.ptr[j]
      BY <2>2, <2>8 DEF Inode
    <3>2. \A j \in Index : inode'.ptr[j] = IF j \in now .. k + 1 - 1 THEN 0 ELSE inode.ptr[j]
      BY <1>2, <2>1, <2>2, <3>1 DEF Index
    <3>3. \A j \in now .. k + 1 - 1 : j \in Index /\ inode.ptr[j] \in Block
      BY <2>6, <2>8
    <3> DEFINE g == {}
               e == k + 1
    <3>4. e \in Nat
      BY <2>1
    <3>5. /\ g \in SUBSET Block
          /\ torn' = torn \cup g /\ free' = free \cup Gone(now, e) \cup g
          /\ \A j \in now .. e - 1 : j \in Index /\ inode.ptr[j] \in Block
          /\ \A j \in Index : inode'.ptr[j] = IF j \in now .. e - 1 THEN 0 ELSE inode.ptr[j]
      BY <2>8, <3>2, <3>3
    <3> HIDE DEF g, e
    <3>6. NoShare' /\ free' \in SUBSET Block
      BY <1>1, <1>2, <3>4, <3>5, GoneShare
    <3> QED
      BY <1>1, <1>5, <2>3, <2>8, <3>1, <3>6, TornStep
  <2> QED
    BY <1>1, <1>5, <2>5, <2>7, <2>8 DEF FailsAt, Missing, left
<1> QED
  <2>1. CASE length = inode.size \/ now >= was
    BY <1>2, <1>3, <1>4, <1>5, <2>1 DEF Truncate
  <2>2. CASE ~(length = inode.size \/ now >= was)
    <3>1. now < was /\ Followed(data)
      BY <1>2, <2>2 DEF Truncate
    <3>2. PICK k \in now .. was :
            /\ \A j \in now .. k - 1 : Present(now, j)
            /\ \/ k = was /\ FreesAll(now, was, length, ok)
               \/ k < was /\ ~ok /\ (FailsAt(now, k) \/ Missing(now, k))
      BY <2>2 DEF Truncate
    <3>3. k = was \/ k \in now .. was - 1
      BY <1>2
    <3> QED
      BY <1>2, <1>4, <1>5, <3>1, <3>2, <3>3
  <2> QED
    BY <2>1, <2>2

-----------------------------------------------------------------------------
(* Everything together.                                                    *)

\* A new file has no blocks.
LEMMA InitInv == Init => IInv
<1> SUFFICES ASSUME Init
             PROVE  IInv
  OBVIOUS
<1>1. Blocks(0) = 0
  <2>1. 0 * BlockSize = 0
    BY FileAssumption, SMT
  <2> QED
    BY <2>1, FileAssumption, BlocksUnique
<1>2. TypeOK
  BY FileAssumption DEF Init, TypeOK, Inode, OnDevice
<1> QED
  BY <1>1, <1>2, FileAssumption DEF Init, IInv, NoShare, SoundWhole, SoundBacked, Backed, RestartBacked, Index

\* Every call keeps the invariant.
LEMMA NextInv == IInv /\ [Next]_vars => IInv'
<1> SUFFICES ASSUME IInv, [Next]_vars
             PROVE  IInv'
  OBVIOUS
<1>1. CASE UNCHANGED vars
  BY <1>1 DEF vars, IInv, TypeOK, NoShare, SoundWhole, SoundBacked, Backed, RestartBacked
<1>2. CASE Next
  <2> PICK h \in Handle :
        \/ \E count \in Count : vfs_read(h, count)
        \/ \E s \in Payload : vfs_write(h, s)
        \/ \E length \in Length : vfs_truncate(h, length)
        \/ \E trunc \in BOOLEAN : vfs_open_node(h, trunc)
    BY <1>2 DEF Next
  <2>1. pos \in [Handle -> Nat]
    BY DEF IInv, TypeOK
  <2>2. CASE \E count \in Count : vfs_read(h, count)
    BY <2>2, ReadStep
  <2>3. CASE \E s \in Payload : vfs_write(h, s)
    BY <2>3, WriteStep
  <2>4. CASE \E length \in Length : vfs_truncate(h, length)
    BY <2>1, <2>4, TruncateStep, FileAssumption DEF vfs_truncate
  <2>5. CASE \E trunc \in BOOLEAN : vfs_open_node(h, trunc)
    <3> PICK trunc \in BOOLEAN : vfs_open_node(h, trunc)
      BY <2>5
    <3>1. pos' \in [Handle -> Nat]
      BY <2>1 DEF vfs_open_node
    <3>2. CASE trunc
      BY <3>1, <3>2, TruncateStep DEF vfs_open_node
    <3>3. CASE ~trunc
      BY <3>1, <3>3 DEF vfs_open_node, IInv, TypeOK, NoShare, SoundWhole, SoundBacked, Backed, RestartBacked
    <3> QED
      BY <3>2, <3>3
  <2> QED
    BY <2>2, <2>3, <2>4, <2>5
<1> QED
  BY <1>1, <1>2

\* The invariant holds however the calls follow one another.
THEOREM FileInvariant == Spec => []IInv
<1> QED
  BY InitInv, NextInv, PTL DEF Spec

\* The size in memory never wraps around, whatever is truncated.
THEOREM FileTypeOK == Spec => []TypeOK
<1>1. IInv => TypeOK
  BY DEF IInv
<1> QED
  BY <1>1, FileInvariant, PTL

\* A block that is in the file twice, or in the file and not marked, is one of
\* which a release failed half way.
THEOREM FileNoShare == Spec => []NoShare
<1>1. IInv => NoShare
  BY DEF IInv
<1> QED
  BY <1>1, FileInvariant, PTL

\* As long as the calls succeed and are those the code supports, the file has
\* exactly the blocks of its size.
THEOREM FileBacked == Spec => []SoundBacked
<1>1. IInv => SoundBacked
  BY DEF IInv
<1> QED
  BY <1>1, FileInvariant, PTL

\* And the inode on the device has those blocks too, whether write's write of the
\* inode succeeded or not.
THEOREM FileRestartBacked == Spec => []RestartBacked
<1>1. IInv => RestartBacked
  BY DEF IInv
<1> QED
  BY <1>1, FileInvariant, PTL
=============================================================================
