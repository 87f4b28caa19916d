------------------------- MODULE Ext2BytesProofs -------------------------
(***************************************************************************)
(* Proofs about what Ext2File holds: as long as the calls are those the    *)
(* code supports and succeed, the blocks of a file hold a sequence of      *)
(* bytes that changes as FileBytes says, and a read returns it.            *)
(***************************************************************************)
EXTENDS Ext2FileProofs, SequenceTheorems

Value == Byte \cup {Junk}

-----------------------------------------------------------------------------
(* Places.                                                                 *)

\* Products of block numbers.
LEMMA Products ==
  /\ \A a, b \in Nat : a * b \in Nat
  /\ \A a, b, c \in Nat : a <= c => a * b <= c * b
  /\ \A a, b \in Nat : (a + 1) * b = a * b + b
  /\ \A a, b, c \in Nat : (a + c) * b = a * b + c * b
BY SMT

\* A position between two ends of blocks is in the block between them.
LEMMA NumberIs ==
  ASSUME NEW q \in Nat, NEW i \in Nat, i * BlockSize <= q, q < i * BlockSize + BlockSize
  PROVE  block_number(q) = i /\ pos_in_block(q) = q - i * BlockSize
<1> DEFINE j == block_number(q)
           r == pos_in_block(q)
<1>1. j \in Nat /\ r \in 0 .. BlockSize - 1 /\ q = j * BlockSize + r /\ BlockSize \in Nat \ {0}
  BY PosIs, FileAssumption DEF Offset
<1> HIDE DEF j, r
<1>2. \A a, b, c \in Nat : c # 0 /\ a < b => a * c + c <= b * c
  <2> TAKE a \in Nat, b \in Nat, c \in Nat
  <2> HAVE c # 0 /\ a < b
  <2>1. (a + 1) * c <= b * c
    BY SMT
  <2> QED
    BY <2>1, Products
<1>3. i * BlockSize \in Nat /\ j * BlockSize \in Nat
  BY <1>1, Products
<1>4. ~(j < i) /\ ~(i < j)
  BY <1>1, <1>2, <1>3
<1>5. j = i
  BY <1>1, <1>4
<1> QED
  BY <1>1, <1>3, <1>5 DEF j, r

\* A piece that fits in a block is the same piece in the file.
LEMMA Placed ==
  ASSUME NEW i \in Nat, NEW o \in Nat, NEW l \in Nat, o + l <= BlockSize,
         NEW p \in Nat, p = i * BlockSize + o, NEW q \in Nat
  PROVE  /\ q \in p .. p + l - 1 <=> block_number(q) = i /\ pos_in_block(q) \in o .. o + l - 1
         /\ block_number(q) = i => pos_in_block(q) - o = q - p
<1> DEFINE z == i * BlockSize
           j == block_number(q)
           r == pos_in_block(q)
<1>1. BlockSize \in Nat \ {0} /\ z \in Nat
  BY Products, FileAssumption
<1>2. j \in Nat /\ r \in 0 .. BlockSize - 1 /\ q = j * BlockSize + r
  BY PosIs DEF Offset
<1>3. z <= q /\ q < z + BlockSize => j = i
  BY NumberIs
<1>4. j = i => q = z + r
  BY <1>2
<1>5. p = z + o
  OBVIOUS
<1> HIDE DEF z, j, r
<1>6. q \in p .. p + l - 1 => j = i
  BY <1>1, <1>3, <1>5
<1>7. j = i => r - o = q - p
  BY <1>1, <1>2, <1>4, <1>5
<1>8. q \in p .. p + l - 1 <=> j = i /\ r \in o .. o + l - 1
  BY <1>1, <1>2, <1>4, <1>5, <1>6
<1> QED
  BY <1>7, <1>8 DEF j, r

\* A position before the end of a file is in one of the blocks that its size
\* counts.
LEMMA Within ==
  ASSUME NEW m \in Nat, NEW i \in Nat, i * BlockSize < m
  PROVE  i < Blocks(m)
<1>1. Blocks(m) \in Nat /\ m <= Blocks(m) * BlockSize /\ BlockSize \in Nat
  BY BlocksIs
<1>2. Blocks(m) <= i => Blocks(m) * BlockSize <= i * BlockSize
  BY <1>1, Products
<1>3. i * BlockSize \in Nat /\ Blocks(m) * BlockSize \in Nat
  BY <1>1, Products
<1> QED
  BY <1>1, <1>2, <1>3

-----------------------------------------------------------------------------
(* What is held.                                                           *)

\* Content, for any size, pointers and blocks.
Held(m, ptr, d) == [k \in 1 .. m |-> d[ptr[block_number(k - 1)]][pos_in_block(k - 1)]]

\* A position of a file is in a block of its own.
LEMMA HeldAt ==
  ASSUME NEW m \in Nat, NEW ptr \in [Index -> Block \cup {0}], Blocks(m) <= NDirect,
         \A i \in Index : ptr[i] # 0 <=> i < Blocks(m), NEW q \in 0 .. m - 1
  PROVE  /\ block_number(q) \in Index /\ block_number(q) < Blocks(m)
         /\ ptr[block_number(q)] \in Block /\ pos_in_block(q) \in Offset
<1>1. /\ block_number(q) \in Nat /\ pos_in_block(q) \in Offset
      /\ q = block_number(q) * BlockSize + pos_in_block(q)
  BY PosIs
<1>2. block_number(q) * BlockSize < m
  <2>1. block_number(q) * BlockSize \in Nat /\ pos_in_block(q) \in Nat
    BY <1>1, Products, FileAssumption DEF Offset
  <2> QED
    BY <1>1, <2>1
<1>3. block_number(q) < Blocks(m)
  BY <1>1, <1>2, Within
<1>4. block_number(q) \in Index
  <2>1. Blocks(m) \in Nat
    BY BlocksIs
  <2> QED
    BY <1>1, <1>3, <2>1, FileAssumption DEF Index
<1> QED
  BY <1>1, <1>3, <1>4

\* What a file holds is a sequence of bytes, as long as its size.
LEMMA HeldIs ==
  ASSUME NEW m \in Nat, NEW ptr \in [Index -> Block \cup {0}], Blocks(m) <= NDirect,
         \A i \in Index : ptr[i] # 0 <=> i < Blocks(m), NEW d \in Content0
  PROVE  Held(m, ptr, d) \in Seq(Value) /\ Len(Held(m, ptr, d)) = m
<1>1. \A k \in 1 .. m : d[ptr[block_number(k - 1)]][pos_in_block(k - 1)] \in Value
  <2> TAKE k \in 1 .. m
  <2>1. k - 1 \in 0 .. m - 1
    OBVIOUS
  <2>2. ptr[block_number(k - 1)] \in Block /\ pos_in_block(k - 1) \in Offset
    BY <2>1, HeldAt
  <2> QED
    BY <2>2 DEF Content0, Value
<1>2. Held(m, ptr, d) \in [1 .. m -> Value]
  BY <1>1 DEF Held
<1> QED
  BY <1>2, SeqDef

\* A sequence of bytes is held if it is held at each position.
LEMMA HeldEqual ==
  ASSUME NEW m \in Nat, NEW ptr \in [Index -> Block \cup {0}], Blocks(m) <= NDirect,
         \A i \in Index : ptr[i] # 0 <=> i < Blocks(m), NEW d \in Content0,
         NEW c \in Seq(Value), Len(c) = m,
         \A q \in 0 .. m - 1 : c[q + 1] = d[ptr[block_number(q)]][pos_in_block(q)]
  PROVE  Held(m, ptr, d) = c
<1> DEFINE e == Held(m, ptr, d)
<1>1. e \in Seq(Value) /\ Len(e) = m
  BY HeldIs
<1>2. \A k \in 1 .. m : e[k] = c[k]
  <2> TAKE k \in 1 .. m
  <2>1. k - 1 \in 0 .. m - 1 /\ (k - 1) + 1 = k
    OBVIOUS
  <2>2. c[k] = d[ptr[block_number(k - 1)]][pos_in_block(k - 1)]
    BY <2>1
  <2> QED
    BY <2>2 DEF Held
<1> HIDE DEF e
<1>3. e = c
  BY <1>1, <1>2, SeqEqual
<1> QED
  BY <1>3 DEF e

\* A sequence that has s at position p, and is as it was elsewhere, is what
\* FileBytes says of a write.
LEMMA Written ==
  ASSUME NEW b \in Seq(Value), NEW s \in Seq(Value), NEW c \in Seq(Value),
         NEW p \in 0 .. Len(b), Len(c) = MAX(p + Len(s), Len(b)),
         \A q \in 0 .. Len(c) - 1 :
           c[q + 1] = IF q \in p .. p + Len(s) - 1 THEN s[q - p + 1] ELSE b[q + 1]
  PROVE  c = SubSeq(b, 1, p) \o s \o SubSeq(b, p + Len(s) + 1, Len(b))
<1> DEFINE u == SubSeq(b, 1, p)
           v == SubSeq(b, p + Len(s) + 1, Len(b))
           x == u \o s
           y == x \o v
<1>1. Len(b) \in Nat /\ Len(s) \in Nat /\ Len(c) \in Nat
  BY LenProperties
<1>2. /\ u \in Seq(Value) /\ Len(u) = p
      /\ \A k \in 1 .. p : u[k] = b[k]
  <2>1. \A k \in 1 .. p : b[k] \in Value
    BY <1>1, ElementOfSeq
  <2>2. /\ u \in Seq(Value)
        /\ Len(u) = IF 1 <= p THEN p - 1 + 1 ELSE 0
        /\ \A k \in 1 .. p - 1 + 1 : u[k] = b[1 + k - 1]
    BY <1>1, <2>1, SubSeqProperties
  <2> QED
    BY <1>1, <2>2
<1>3. /\ v \in Seq(Value) /\ Len(v) = MAX(p + Len(s), Len(b)) - (p + Len(s))
      /\ \A k \in 1 .. Len(v) : v[k] = b[p + Len(s) + k]
  <2>1. \A k \in p + Len(s) + 1 .. Len(b) : b[k] \in Value
    BY <1>1, ElementOfSeq
  <2>2. /\ v \in Seq(Value)
        /\ Len(v) = IF p + Len(s) + 1 <= Len(b) THEN Len(b) - (p + Len(s) + 1) + 1 ELSE 0
        /\ \A k \in 1 .. Len(b) - (p + Len(s) + 1) + 1 : v[k] = b[p + Len(s) + 1 + k - 1]
    BY <1>1, <2>1, SubSeqProperties
  <2> HIDE DEF v
  <2>3. Len(v) = MAX(p + Len(s), Len(b)) - (p + Len(s))
    BY <1>1, <2>2 DEF MAX
  <2>4. \A k \in 1 .. Len(v) : k \in 1 .. Len(b) - (p + Len(s) + 1) + 1 /\ p + Len(s) + 1 + k - 1 = p + Len(s) + k
    BY <1>1, <2>2
  <2> QED
    BY <2>2, <2>3, <2>4
<1> HIDE DEF u, v
<1>4. /\ x \in Seq(Value) /\ Len(x) = p + Len(s)
      /\ \A k \in 1 .. p + Len(s) : x[k] = IF k <= p THEN u[k] ELSE s[k - p]
  BY <1>1, <1>2, ConcatProperties
<1> HIDE DEF x
<1>5. /\ y \in Seq(Value) /\ Len(y) = MAX(p + Len(s), Len(b))
      /\ \A k \in 1 .. Len(y) : y[k] = IF k <= p + Len(s) THEN x[k] ELSE v[k - (p + Len(s))]
  <2>1. /\ y \in Seq(Value) /\ Len(y) = Len(x) + Len(v)
        /\ \A k \in 1 .. Len(x) + Len(v) : y[k] = IF k <= Len(x) THEN x[k] ELSE v[k - Len(x)]
    BY <1>3, <1>4, ConcatProperties
  <2> DEFINE w == MAX(p + Len(s), Len(b))
  <2>2. w \in Nat /\ Len(v) = w - (p + Len(s))
    BY <1>1, <1>3 DEF MAX
  <2> HIDE DEF w
  <2>3. Len(x) + Len(v) = w
    BY <1>1, <1>4, <2>2
  <2>4. Len(y) = w /\ Len(x) = p + Len(s)
    BY <1>4, <2>1, <2>3
  <2>5. \A k \in 1 .. w : y[k] = IF k <= p + Len(s) THEN x[k] ELSE v[k - (p + Len(s))]
    BY <2>1, <2>3, <2>4
  <2> QED
    BY <2>1, <2>4, <2>5 DEF w
<1> HIDE DEF y
<1>6. \A k \in 1 .. Len(c) : c[k] = y[k]
  <2> TAKE k \in 1 .. Len(c)
  <2>1. k - 1 \in 0 .. Len(c) - 1 /\ (k - 1) + 1 = k
    BY <1>1
  <2>2. c[k] = IF k - 1 \in p .. p + Len(s) - 1 THEN s[k - 1 - p + 1] ELSE b[k]
    BY <2>1
  <2>3. CASE k <= p
    BY <1>1, <1>2, <1>4, <1>5, <2>2, <2>3
  <2>4. CASE k > p /\ k <= p + Len(s)
    <3>1. k - 1 - p + 1 = k - p /\ k - 1 \in p .. p + Len(s) - 1
      BY <1>1, <2>4
    <3> QED
      BY <1>1, <1>4, <1>5, <2>2, <2>4, <3>1
  <2>5. CASE k > p + Len(s)
    <3>1. k - (p + Len(s)) \in 1 .. Len(v) /\ p + Len(s) + (k - (p + Len(s))) = k
      BY <1>1, <1>3, <2>5
    <3>2. v[k - (p + Len(s))] = b[k]
      BY <1>3, <3>1
    <3>3. ~(k - 1 \in p .. p + Len(s) - 1)
      BY <1>1, <2>5
    <3> QED
      BY <1>1, <1>5, <2>2, <2>5, <3>2, <3>3
  <2> QED
    BY <1>1, <2>3, <2>4, <2>5
<1>7. c = y
  BY <1>5, <1>6, SeqEqual
<1> QED
  BY <1>7 DEF y, x, u, v

\* The content of a sound file.
LEMMA ContentIs ==
  ASSUME IInv, sound
  PROVE  /\ inode.size \in Nat /\ inode.ptr \in [Index -> Block \cup {0}] /\ data \in Content0
         /\ Blocks(inode.size) <= NDirect
         /\ \A i \in Index : inode.ptr[i] # 0 <=> i < Blocks(inode.size)
         /\ \A i, j \in Index : inode.ptr[i] = inode.ptr[j] /\ inode.ptr[i] # 0 => i = j
         /\ \A i \in Index : inode.ptr[i] \notin free
         /\ Content = Held(inode.size, inode.ptr, data)
         /\ Content \in Seq(Value) /\ Len(Content) = inode.size
         /\ \A q \in 0 .. inode.size - 1 :
              Content[q + 1] = data[inode.ptr[block_number(q)]][pos_in_block(q)]
<1>1. /\ inode.size \in Nat /\ inode.ptr \in [Index -> Block \cup {0}] /\ data \in Content0
      /\ Blocks(inode.size) <= NDirect
      /\ \A i \in Index : inode.ptr[i] # 0 <=> i < Blocks(inode.size)
  BY DEF IInv, TypeOK, Inode, SoundBacked, Backed, Content0
<1>2. /\ \A i, j \in Index : inode.ptr[i] = inode.ptr[j] /\ inode.ptr[i] # 0 => i = j
      /\ \A i \in Index : inode.ptr[i] \notin free
  BY DEF IInv, NoShare, SoundWhole
<1>3. Content = Held(inode.size, inode.ptr, data)
  BY DEF Content, Held
<1>4. Content \in Seq(Value) /\ Len(Content) = inode.size
  BY <1>1, <1>3, HeldIs
<1>5. ASSUME NEW q \in 0 .. inode.size - 1
      PROVE  Content[q + 1] = data[inode.ptr[block_number(q)]][pos_in_block(q)]
  <2>1. q + 1 \in 1 .. inode.size /\ q + 1 - 1 = q
    BY <1>1
  <2> QED
    BY <2>1 DEF Content
<1> QED
  BY <1>1, <1>2, <1>3, <1>4, <1>5

\* The same after a step.
LEMMA ContentNext ==
  ASSUME IInv', sound'
  PROVE  /\ inode'.size \in Nat /\ inode'.ptr \in [Index -> Block \cup {0}] /\ data' \in Content0
         /\ Blocks(inode'.size) <= NDirect
         /\ \A i \in Index : inode'.ptr[i] # 0 <=> i < Blocks(inode'.size)
         /\ \A i \in Index : inode'.ptr[i] \notin free'
         /\ Content' \in Seq(Value) /\ Len(Content') = inode'.size
         /\ \A q \in 0 .. inode'.size - 1 :
              Content'[q + 1] = data'[inode'.ptr[block_number(q)]][pos_in_block(q)]
<1>1. /\ inode'.size \in Nat /\ inode'.ptr \in [Index -> Block \cup {0}] /\ data' \in Content0
      /\ Blocks(inode'.size) <= NDirect
      /\ \A i \in Index : inode'.ptr[i] # 0 <=> i < Blocks(inode'.size)
  BY DEF IInv, TypeOK, Inode, SoundBacked, Backed, Content0
<1>2. \A i \in Index : inode'.ptr[i] \notin free'
  BY DEF IInv, NoShare, SoundWhole
<1>3. Content' = Held(inode'.size, inode'.ptr, data')
  BY DEF Content, Held
<1>4. Content' \in Seq(Value) /\ Len(Content') = inode'.size
  BY <1>1, <1>3, HeldIs
<1>5. ASSUME NEW q \in 0 .. inode'.size - 1
      PROVE  Content'[q + 1] = data'[inode'.ptr[block_number(q)]][pos_in_block(q)]
  <2>1. q + 1 \in 1 .. inode'.size /\ q + 1 - 1 = q
    BY <1>1
  <2> QED
    BY <2>1 DEF Content
<1> QED
  BY <1>1, <1>2, <1>4, <1>5

-----------------------------------------------------------------------------
(* Reading.                                                                *)

\* The blocks that a read from the beginning of a block, or within one, counts
\* are blocks of the file.
LEMMA TouchedIs ==
  ASSUME NEW m \in Nat, NEW p \in Nat, NEW n \in Nat, p < m, p + n <= m,
         pos_in_block(p) = 0 \/ pos_in_block(p) + n <= BlockSize, NEW i \in Touched(p, n)
  PROVE  i \in Nat /\ i < Blocks(m)
<1> DEFINE q == block_number(p)
           o == pos_in_block(p)
           z == q * BlockSize
           c == Blocks(n)
           y == c * BlockSize
<1>1. q \in Nat /\ o \in Offset /\ p = z + o
  BY PosIs
<1>2. c \in Nat /\ y < n + BlockSize /\ BlockSize \in Nat \ {0}
  BY BlocksIs
<1>3. z \in Nat /\ y \in Nat
  BY <1>1, <1>2, Products
<1>4. i \in q .. q + c - 1
  BY DEF Touched
<1> DEFINE k == i - q
<1>5. k \in Nat /\ i = q + k /\ i \in Nat /\ k + 1 <= c
  BY <1>1, <1>2, <1>4
<1>6. i * BlockSize = z + k * BlockSize /\ k * BlockSize \in Nat
  BY <1>1, <1>2, <1>5, Products
<1>7. k * BlockSize + BlockSize <= y
  <2>1. (k + 1) * BlockSize <= y
    BY <1>2, <1>5, Products
  <2> QED
    BY <1>2, <1>5, <2>1, Products
<1> DEFINE x == k * BlockSize
<1>8. x = 0 \/ BlockSize <= x
  <2>1. CASE k = 0
    BY <1>2, <2>1, SMT
  <2>2. CASE k # 0
    <3>1. 1 <= k /\ 1 * BlockSize = BlockSize
      BY <1>2, <1>5, <2>2, SMT
    <3> QED
      BY <1>2, <1>5, <3>1, Products
  <2> QED
    BY <2>1, <2>2
<1>9. i * BlockSize = z + x /\ x \in Nat /\ x + BlockSize <= y
  BY <1>6, <1>7
<1> HIDE DEF q, o, z, c, y, k, x
<1>10. z + x < m
  BY <1>1, <1>2, <1>3, <1>8, <1>9 DEF o, Offset
<1> QED
  BY <1>5, <1>9, <1>10, Within

\* A sound file is read as it is.
LEMMA ReadIs ==
  ASSUME IInv, sound, NEW p \in 0 .. inode.size - 1, NEW count \in Count
  PROVE  LET n == nread(p, count)
         IN pos_in_block(p) = 0 \/ pos_in_block(p) + n <= BlockSize =>
              /\ ~Fails(p, n)
              /\ ext2_vnode_read(p, n) = SubSeq(Content, p + 1, p + n)
<1> DEFINE n == nread(p, count)
           m == inode.size
           q == block_number(p)
           o == pos_in_block(p)
           z == q * BlockSize
<1>1. m \in Nat /\ p \in Nat /\ p < m /\ n \in Nat /\ p + n <= m
  <2>1. m \in Nat /\ count \in Nat
    BY ContentIs, FileAssumption
  <2> QED
    BY <2>1 DEF nread, MIN
<1> SUFFICES ASSUME o = 0 \/ o + n <= BlockSize
             PROVE  ~Fails(p, n) /\ ext2_vnode_read(p, n) = SubSeq(Content, p + 1, p + n)
  OBVIOUS
<1> HIDE DEF n
<1>2. ~Fails(p, n)
  <2>1. ASSUME NEW i \in Touched(p, n)
        PROVE  BlockAt(i) # 0
    <3>1. i \in Nat /\ i < Blocks(m)
      BY <1>1, TouchedIs
    <3>2. Blocks(m) \in Nat /\ Blocks(m) <= NDirect
      BY <1>1, BlocksIs, ContentIs
    <3>3. i \in Index
      BY <3>1, <3>2, FileAssumption DEF Index
    <3> QED
      BY <3>1, <3>3, ContentIs DEF BlockAt
  <2> QED
    BY <2>1 DEF Fails
<1>3. q \in Nat /\ o \in 0 .. BlockSize - 1 /\ p = z + o /\ z \in Nat /\ BlockSize \in Nat \ {0}
  BY <1>1, PosIs, Products, FileAssumption DEF Offset
<1> DEFINE r == ext2_vnode_read(p, n)
<1>4. ASSUME NEW k \in 1 .. n
      PROVE  r[k] = Content[p + k]
  <2> DEFINE first == MIN(BlockSize - o, n)
             j == block_number(k - 1)
             x == pos_in_block(k - 1)
             g == p + (k - 1)
  <2>1. r[k] = IF k <= first THEN data[BlockAt(q + 0)][o + k - 1]
               ELSE IF j = 0 THEN Junk
               ELSE data[BlockAt(q + j)][x]
    BY DEF ext2_vnode_read
  <2>2. g \in 0 .. m - 1 /\ g + 1 = p + k
    BY <1>1
  <2>3. Content[p + k] = data[inode.ptr[block_number(g)]][pos_in_block(g)] /\ block_number(g) \in Index
    BY <1>1, <2>2, HeldAt, ContentIs
  <2>4. k - 1 \in Nat /\ j \in Nat /\ x \in 0 .. BlockSize - 1 /\ k - 1 = j * BlockSize + x
    <3>1. k - 1 \in Nat
      BY <1>1
    <3> QED
      BY <3>1, PosIs DEF Offset
  <2>5. CASE k <= first
    <3>1. k <= BlockSize - o
      BY <1>1, <1>3, <2>5 DEF MIN
    <3> HIDE DEF q, o, z
    <3>2. z <= g /\ g < z + BlockSize /\ g - z = o + k - 1
      BY <1>1, <1>3, <3>1
    <3>3. block_number(g) = q /\ pos_in_block(g) = o + k - 1
      BY <1>3, <2>2, <3>2, NumberIs DEF z
    <3>4. q + 0 = q
      BY <1>3
    <3> QED
      BY <2>1, <2>3, <2>5, <3>3, <3>4 DEF BlockAt
  <2>6. CASE ~(k <= first)
    <3>1. o = 0 /\ k > BlockSize
      BY <1>1, <1>3, <2>6 DEF MIN
    <3> DEFINE y == j * BlockSize
    <3>2. y \in Nat
      BY <1>3, <2>4, Products
    <3>3. j # 0
      <4>1. j = 0 => y = 0
        BY <1>3, SMT
      <4> HIDE DEF y, j, x
      <4> QED
        BY <1>3, <2>4, <3>1, <4>1 DEF y
    <3>4. (q + j) * BlockSize = z + y
      BY <1>3, <2>4, Products
    <3>5. q + j \in Nat
      BY <1>3, <2>4
    <3> HIDE DEF q, o, z, j, x, y
    <3>6. z + y <= g /\ g < z + y + BlockSize /\ g - (z + y) = x
      BY <1>1, <1>3, <2>4, <3>1, <3>2 DEF y
    <3>7. block_number(g) = q + j /\ pos_in_block(g) = x
      BY <2>2, <3>4, <3>5, <3>6, NumberIs
    <3> QED
      BY <2>1, <2>3, <2>6, <3>3, <3>7 DEF BlockAt
  <2> QED
    BY <2>5, <2>6
<1>5. SubSeq(Content, p + 1, p + n) = [k \in 1 .. n |-> Content[p + k]]
  <2>1. \A k \in p + 1 .. p + n : Content[k] \in Value
    BY <1>1, ContentIs, ElementOfSeq
  <2> DEFINE u == SubSeq(Content, p + 1, p + n)
  <2>2. /\ u \in Seq(Value) /\ Len(u) = IF p + 1 <= p + n THEN p + n - (p + 1) + 1 ELSE 0
        /\ \A k \in 1 .. p + n - (p + 1) + 1 : u[k] = Content[p + 1 + k - 1]
    BY <1>1, <2>1, SubSeqProperties
  <2> HIDE DEF u
  <2>3. Len(u) = n /\ \A k \in 1 .. n : u[k] = Content[p + k]
    BY <1>1, <2>2
  <2>4. u \in [1 .. n -> Value]
    BY <2>2, <2>3, LenProperties
  <2>5. u = [k \in 1 .. n |-> u[k]]
    BY <2>4
  <2>6. u = [k \in 1 .. n |-> Content[p + k]]
    BY <2>3, <2>5
  <2> QED
    BY <2>6 DEF u
<1>6. r = [k \in 1 .. n |-> r[k]]
  BY DEF ext2_vnode_read
<1> HIDE DEF r
<1>7. r = [k \in 1 .. n |-> Content[p + k]]
  BY <1>4, <1>6
<1> QED
  BY <1>2, <1>5, <1>7 DEF r

-----------------------------------------------------------------------------
(* Writing.                                                                *)

\* The blocks after n bytes of s went to the block of position p.
Patched(p, s, n) ==
  IF n = 0 THEN data
  ELSE [data EXCEPT ![BlockAt(block_number(p))] = Patch(@, pos_in_block(p), SubSeq(s, 1, n))]

\* What the blocks of a file hold then.
LEMMA PatchAt ==
  ASSUME IInv, sound, NEW p \in Nat, NEW s \in Seq(Byte), NEW n \in 0 .. Len(s),
         pos_in_block(p) + n <= BlockSize, n # 0 => BlockAt(block_number(p)) # 0,
         NEW q \in Nat, block_number(q) \in Index, inode.ptr[block_number(q)] \in Block
  PROVE  Patched(p, s, n)[inode.ptr[block_number(q)]][pos_in_block(q)] =
           IF q \in p .. p + n - 1 THEN s[q - p + 1]
           ELSE data[inode.ptr[block_number(q)]][pos_in_block(q)]
<1> DEFINE i == block_number(p)
           o == pos_in_block(p)
           j == block_number(q)
           r == pos_in_block(q)
           b == inode.ptr[j]
           t == SubSeq(s, 1, n)
           content == Patched(p, s, n)
<1>1. i \in Nat /\ o \in Nat /\ p = i * BlockSize + o /\ r \in Offset /\ n \in Nat
  <2>1. i \in Nat /\ o \in Offset /\ p = i * BlockSize + o /\ r \in Offset
    BY PosIs
  <2> QED
    BY <2>1, LenProperties, FileAssumption DEF Offset
<1>2. /\ q \in p .. p + n - 1 <=> j = i /\ r \in o .. o + n - 1
      /\ j = i => r - o = q - p
  BY <1>1, Placed
<1>3. CASE n = 0
  BY <1>1, <1>3 DEF Patched
<1>4. CASE n # 0
  <2> DEFINE a == BlockAt(i)
  <2>1. a # 0 /\ i \in Index /\ a = inode.ptr[i]
    BY <1>4 DEF BlockAt
  <2>2. a \in Block /\ data \in [Block -> [Offset -> Byte \cup {Junk}]]
    BY <2>1, ContentIs DEF Content0
  <2>3. b = a <=> j = i
    BY <2>1, ContentIs
  <2>4. content[b] = IF b = a THEN Patch(data[a], o, t) ELSE data[b]
    BY <1>4, <2>2 DEF Patched
  <2>5. CASE j # i
    BY <1>2, <2>3, <2>4, <2>5
  <2>6. CASE j = i
    <3>1. Len(t) = n /\ \A k \in 1 .. n : t[k] = s[k]
      <4>1. \A k \in 1 .. n : s[k] \in Byte
        BY LenProperties, ElementOfSeq
      <4>2. /\ Len(t) = IF 1 <= n THEN n - 1 + 1 ELSE 0
            /\ \A k \in 1 .. n - 1 + 1 : t[k] = s[1 + k - 1]
        BY <1>1, <4>1, SubSeqProperties
      <4> QED
        BY <1>1, <4>2
    <3>2. Patch(data[a], o, t)[r] = IF r \in o .. o + Len(t) - 1 THEN t[r - o + 1] ELSE data[a][r]
      BY <1>1 DEF Patch
    <3> HIDE DEF i, j, o, r, b, t, a, content
    <3>3. r \in Int
      BY <1>1, FileAssumption DEF Offset
    <3>4. r \in o .. o + n - 1 => t[r - o + 1] = s[q - p + 1]
      <4> HAVE r \in o .. o + n - 1
      <4>1. r - o + 1 \in 1 .. n
        BY <1>1, <3>3
      <4> QED
        BY <1>2, <2>6, <3>1, <4>1
    <3>5. content[b][r] = IF q \in p .. p + n - 1 THEN s[q - p + 1] ELSE data[b][r]
      BY <1>2, <2>3, <2>4, <2>6, <3>1, <3>2, <3>4
    <3> QED
      BY <3>5 DEF b, j, r, content
  <2> QED
    BY <2>5, <2>6
<1> QED
  BY <1>3, <1>4

\* A write that stays in the block of its position.
LEMMA WriteInside ==
  ASSUME IInv, IInv', sound, sound', NEW p \in Nat, p <= inode.size, NEW s \in Seq(Byte),
         pos_in_block(p) + Len(s) <= BlockSize, Len(s) # 0 => BlockAt(block_number(p)) # 0,
         inode'.size = MAX(p + Len(s), inode.size), inode'.ptr = inode.ptr,
         Followed(Patched(p, s, Len(s)))
  PROVE  Content' = SubSeq(Content, 1, p) \o s \o SubSeq(Content, p + Len(s) + 1, Len(Content))
<1> DEFINE b == Content
           c == Content'
           l == Len(s)
           m == inode.size
           content == Patched(p, s, l)
<1>1. m \in Nat /\ l \in Nat /\ b \in Seq(Value) /\ Len(b) = m
  BY ContentIs, LenProperties
<1>2. c \in Seq(Value) /\ Len(c) = MAX(p + l, m)
  BY ContentNext
<1>3. s \in Seq(Value)
  BY SeqMonotonic DEF Value
<1>4. ASSUME NEW q \in 0 .. Len(c) - 1
      PROVE  c[q + 1] = IF q \in p .. p + l - 1 THEN s[q - p + 1] ELSE b[q + 1]
  <2>1. q \in 0 .. inode'.size - 1 /\ q \in Nat
    BY <1>2
  <2>2. /\ c[q + 1] = data'[inode.ptr[block_number(q)]][pos_in_block(q)]
        /\ block_number(q) \in Index /\ inode.ptr[block_number(q)] \in Block
    BY <2>1, ContentNext, HeldAt
  <2>3. data'[inode.ptr[block_number(q)]] = content[inode.ptr[block_number(q)]]
    BY <2>2, ContentNext DEF Followed
  <2>4. c[q + 1] = IF q \in p .. p + l - 1 THEN s[q - p + 1]
                   ELSE data[inode.ptr[block_number(q)]][pos_in_block(q)]
    <3>1. l \in 0 .. Len(s)
      BY <1>1
    <3>2. content[inode.ptr[block_number(q)]][pos_in_block(q)] =
            IF q \in p .. p + l - 1 THEN s[q - p + 1]
            ELSE data[inode.ptr[block_number(q)]][pos_in_block(q)]
      BY <2>1, <2>2, <3>1, PatchAt
    <3> QED
      BY <2>2, <2>3, <3>2
  <2>5. CASE q \in p .. p + l - 1
    BY <2>4, <2>5
  <2>6. CASE q \notin p .. p + l - 1
    <3>1. q \in 0 .. m - 1
      <4> HIDE DEF c, b, l, m
      <4> QED
        BY <1>1, <1>2, <2>6 DEF MAX, m
    <3> QED
      BY <2>4, <2>6, <3>1, ContentIs
  <2> QED
    BY <2>5, <2>6
<1>5. p \in 0 .. Len(b)
  BY <1>1
<1> HIDE DEF b, c
<1> QED
  BY <1>1, <1>2, <1>3, <1>4, <1>5, Written DEF b, c

\* After the first n bytes of s, the others went to block b, the k-th.
Beyond(p, s, n, k, b) ==
  /\ n = IF Spare = 0 THEN 0 ELSE MIN(Len(s), BlockSize - pos_in_block(p))
  /\ n < Len(s) /\ Len(s) - n < BlockSize
  /\ n # 0 => BlockAt(block_number(p)) # 0
  /\ k = IF Spare = 0 THEN block_number(p) ELSE block_number(p) + 1
  /\ k \in Index /\ b \in free
  /\ inode'.size = p + Len(s)
  /\ \A j \in Index : inode'.ptr[j] = IF j = k THEN b ELSE inode.ptr[j]
  /\ \A x \in Block \ free' :
       data'[x] = IF x = b THEN Patch(Blank, 0, SubSeq(s, n + 1, Len(s)))
                  ELSE Patched(p, s, n)[x]

\* A write whose rest goes to a new block.
LEMMA WriteBeyond ==
  ASSUME IInv, IInv', sound, sound', NEW p \in Nat, p <= inode.size, NEW s \in Seq(Byte),
         Supported(p, Len(s)), NEW n, NEW k, NEW b, Beyond(p, s, n, k, b)
  PROVE  Content' = SubSeq(Content, 1, p) \o s \o SubSeq(Content, p + Len(s) + 1, Len(Content))
<1>0. /\ n < Len(s) /\ Len(s) - n < BlockSize /\ k \in Index /\ b \in free
      /\ n # 0 => BlockAt(block_number(p)) # 0
      /\ n = IF Spare = 0 THEN 0 ELSE MIN(Len(s), BlockSize - pos_in_block(p))
      /\ k = IF Spare = 0 THEN block_number(p) ELSE block_number(p) + 1
      /\ inode'.size = p + Len(s)
      /\ \A j \in Index : inode'.ptr[j] = IF j = k THEN b ELSE inode.ptr[j]
      /\ \A x \in Block \ free' :
           data'[x] = IF x = b THEN Patch(Blank, 0, SubSeq(s, n + 1, Len(s)))
                      ELSE Patched(p, s, n)[x]
  BY DEF Beyond
<1> USE <1>0
<1> DEFINE old == Content
           c == Content'
           l == Len(s)
           m == inode.size
           o == pos_in_block(p)
           z == k * BlockSize
           t == SubSeq(s, n + 1, l)
<1>1. m \in Nat /\ l \in Nat /\ old \in Seq(Value) /\ Len(old) = m
  BY ContentIs, LenProperties
<1>2. c \in Seq(Value) /\ Len(c) = p + l /\ inode'.size \in Nat
  BY ContentNext
<1>3. s \in Seq(Value)
  BY SeqMonotonic DEF Value
<1>4. /\ BlockSize - o \in Nat \ {0} /\ o \in 0 .. BlockSize - 1 /\ BlockSize \in Nat \ {0}
      /\ block_number(p) \in Nat
  BY PosIs, PartEnds, FileAssumption DEF Offset
<1>5. n \in 0 .. l /\ o + n <= BlockSize
  BY <1>1, <1>4 DEF MIN
<1>6. p + n = z /\ m <= z /\ k \in Nat
  <2>1. p + n = z /\ m <= z
    BY <1>1, NewStarts
  <2> QED
    BY <1>4, <2>1
<1>7. z \in Nat
  BY <1>4, <1>6, Products
<1>8. Len(t) = l - n /\ \A x \in 1 .. l - n : t[x] = s[n + x]
  <2>1. \A x \in n + 1 .. l : s[x] \in Byte
    BY <1>1, <1>5, ElementOfSeq
  <2>2. /\ Len(t) = IF n + 1 <= l THEN l - (n + 1) + 1 ELSE 0
        /\ \A x \in 1 .. l - (n + 1) + 1 : t[x] = s[n + 1 + x - 1]
    BY <1>1, <1>5, <2>1, SubSeqProperties
  <2> HIDE DEF t, l
  <2> QED
    BY ONLY <1>1, <1>5, <2>2
<1>9. n # 0 => BlockAt(block_number(p)) # 0
  OBVIOUS
<1>10. ASSUME NEW q \in 0 .. Len(c) - 1
      PROVE  c[q + 1] = IF q \in p .. p + l - 1 THEN s[q - p + 1] ELSE old[q + 1]
  <2> DEFINE j == block_number(q)
             r == pos_in_block(q)
             y == j * BlockSize
  <2>1. q \in 0 .. inode'.size - 1 /\ q \in Nat /\ q < p + l
    BY <1>1, <1>2
  <2>2. /\ c[q + 1] = data'[inode'.ptr[j]][r]
        /\ j \in Index /\ inode'.ptr[j] \in Block /\ r \in Offset
    BY <2>1, ContentNext, HeldAt
  <2>3. inode'.ptr[j] \in Block \ free'
    BY <2>2, ContentNext
  <2>4. j \in Nat /\ r \in 0 .. BlockSize - 1 /\ q = y + r /\ y \in Nat
    BY <1>4, <2>1, PosIs, Products DEF Offset
  <2>5. CASE j = k
    <3>1. r < l - n /\ q = z + r
      <4>1. q = z + r
        BY <2>4, <2>5
      <4> HIDE DEF z, o, t, c, r, j, y
      <4> QED
        BY ONLY p \in Nat, <1>1, <1>4, <1>5, <1>6, <1>7, <2>1, <2>4, <4>1
    <3>2. c[q + 1] = Patch(Blank, 0, t)[r]
      BY <2>2, <2>3, <2>5
    <3>3. Patch(Blank, 0, t)[r] = IF r \in 0 .. 0 + Len(t) - 1 THEN t[r - 0 + 1] ELSE Blank[r]
      BY <2>2 DEF Patch
    <3> HIDE DEF z, o, t, c, r, j, y, old
    <3>4. r \in 0 .. 0 + Len(t) - 1 /\ r - 0 + 1 = r + 1 /\ r + 1 \in 1 .. l - n
      BY <1>1, <1>5, <1>8, <2>4, <3>1
    <3>5. n + (r + 1) = q - p + 1 /\ q \in p .. p + l - 1
      BY ONLY p \in Nat, <1>1, <1>4, <1>5, <1>6, <1>7, <2>1, <2>4, <3>1
    <3> QED
      BY <1>8, <3>2, <3>3, <3>4, <3>5
  <2>6. CASE j # k
    <3>1. inode'.ptr[j] = inode.ptr[j] /\ inode.ptr[j] \in Block
      BY <2>2, <2>6
    <3>2. q < z
      <4>1. ~(z <= q /\ q < z + BlockSize)
        BY <1>6, <2>1, <2>6, NumberIs
      <4> HIDE DEF z, o, t, c, r, j, y
      <4> QED
        BY ONLY p \in Nat, l - n < BlockSize, <1>1, <1>4, <1>5, <1>6, <1>7, <2>1, <4>1
    <3>3. inode.ptr[j] # b
      BY <2>2, ContentIs
    <3>4. c[q + 1] = Patched(p, s, n)[inode.ptr[j]][r]
      BY <2>2, <2>3, <3>1, <3>3
    <3>5. c[q + 1] = IF q \in p .. p + n - 1 THEN s[q - p + 1] ELSE data[inode.ptr[j]][r]
      BY ONLY IInv, sound, p \in Nat, s \in Seq(Byte), <1>9,
              <1>5, <2>1, <2>2, <3>1, <3>4, PatchAt
    <3>6. q \in p .. p + n - 1 <=> q \in p .. p + l - 1
      <4> HIDE DEF z, o, t, c, r, j, y
      <4> QED
        BY <1>1, <1>5, <1>6, <1>7, <2>1, <3>2
    <3>7. CASE q \in p .. p + l - 1
      BY <3>5, <3>6, <3>7
    <3>8. CASE q \notin p .. p + l - 1
      <4>1. q \in 0 .. m - 1
        <5> HIDE DEF z, o, t, c, r, j, y
        <5> QED
          BY <1>1, <2>1, <3>8
      <4> QED
        BY <3>5, <3>6, <3>8, <4>1, ContentIs
    <3> QED
      BY <3>7, <3>8
  <2> QED
    BY <2>5, <2>6
<1>11. p \in 0 .. Len(old) /\ Len(c) = MAX(p + l, Len(old))
  <2>1. p \in 0 .. Len(old)
    BY <1>1
  <2>2. m <= p + l
    <3> HIDE DEF z, o, t, c, old, m
    <3> QED
      BY <1>1, <1>5, <1>6, <1>7
  <2> QED
    BY ONLY p \in Nat, <1>1, <1>2, <2>1, <2>2 DEF MAX
<1> HIDE DEF old, c
<1> QED
  BY <1>1, <1>2, <1>3, <1>10, <1>11, Written DEF old, c

-----------------------------------------------------------------------------
(* Truncating.                                                             *)

\* A truncate that keeps the file sound keeps its beginning, up to length.
LEMMA TruncateKeeps ==
  ASSUME IInv, IInv', sound', NEW length \in Nat, NEW ok \in BOOLEAN, Truncate(length, ok)
  PROVE  /\ sound
         /\ \/ Content' = Content /\ ok = (length = inode.size)
            \/ /\ ok /\ length < inode.size
               /\ Content' = SubSeq(Content, 1, length)
<1> DEFINE now == Blocks(length)
           was == Blocks(inode.size)
           m == inode.size
<1>1. inode \in Inode /\ m \in Nat
  BY DEF IInv, TypeOK, Inode
<1>2. now \in Nat /\ was \in Nat
  BY <1>1, BlocksIs
<1>3. CASE /\ length = inode.size \/ now >= was
           /\ ok = (length = inode.size)
           /\ UNCHANGED <<inode, stored, data, free, torn, sound, halt>>
  BY <1>3 DEF Content
<1>4. CASE /\ now < was /\ Followed(data)
           /\ \E k \in now .. was :
                \/ k = was /\ FreesAll(now, was, length, ok)
                \/ k < was /\ ~ok /\ (FailsAt(now, k) \/ Missing(now, k))
  <2>1. /\ FreesAll(now, was, length, ok) /\ ok /\ sound
    BY <1>4 DEF FreesAll, FailsAt, Missing
  <2>2. length < m
    BY <1>1, <1>4, BlocksLess
  <2>3. /\ inode'.size = length
        /\ \A j \in Index : inode'.ptr[j] = IF j \in now .. was - 1 THEN 0 ELSE inode.ptr[j]
    <3> DEFINE gone == Without(now, was)
    <3>1. /\ gone \in OnDevice
          /\ \A j \in Index : gone.ptr[j] = IF j \in now .. was - 1 THEN 0 ELSE inode.ptr[j]
      BY <1>1, <1>2, <1>4, WithoutIs
    <3> HIDE DEF gone
    <3>2. inode' = [gone EXCEPT !.size = length]
      BY <2>1 DEF FreesAll, Sized, gone
    <3> QED
      BY <3>1, <3>2 DEF OnDevice
  <2> DEFINE b == Content
             c == Content'
             u == SubSeq(b, 1, length)
  <2>4. b \in Seq(Value) /\ Len(b) = m
    BY <2>1, ContentIs
  <2>5. c \in Seq(Value) /\ Len(c) = length
    BY <2>3, ContentNext
  <2>6. u \in Seq(Value) /\ Len(u) = length /\ \A k \in 1 .. length : u[k] = b[k]
    <3>1. \A k \in 1 .. length : b[k] \in Value
      BY <1>1, <2>2, <2>4, ElementOfSeq
    <3>2. /\ u \in Seq(Value) /\ Len(u) = IF 1 <= length THEN length - 1 + 1 ELSE 0
          /\ \A k \in 1 .. length - 1 + 1 : u[k] = b[1 + k - 1]
      BY <3>1, SubSeqProperties
    <3> HIDE DEF u, b
    <3> QED
      BY <3>2
  <2>7. ASSUME NEW k \in 1 .. length
        PROVE  c[k] = b[k]
    <3> DEFINE q == k - 1
               j == block_number(q)
    <3>1. q \in 0 .. length - 1 /\ q + 1 = k /\ q \in 0 .. m - 1
      BY <1>1, <2>2
    <3>2. c[k] = data'[inode'.ptr[j]][pos_in_block(q)] /\ j \in Index /\ inode'.ptr[j] \in Block
      BY <2>3, <3>1, ContentNext, HeldAt
    <3>3. b[k] = data[inode.ptr[j]][pos_in_block(q)]
      BY <2>1, <3>1, ContentIs
    <3>4. inode'.ptr[j] = inode.ptr[j]
      BY <2>3, <3>2, FileAssumption
    <3>5. data'[inode'.ptr[j]] = data[inode'.ptr[j]]
      BY <1>4, <3>2, ContentNext DEF Followed
    <3> QED
      BY <3>2, <3>3, <3>4, <3>5
  <2> HIDE DEF b, c, u
  <2>8. c = u
    BY <2>5, <2>6, <2>7, SeqEqual
  <2> QED
    BY <2>1, <2>2, <2>8 DEF b, c, u
<1> QED
  BY <1>2, <1>3, <1>4 DEF Truncate

-----------------------------------------------------------------------------
(* The refinement.                                                         *)

\* What FileBytes sees of a sound file.
LEMMA Seen ==
  ASSUME IInv, sound
  PROVE  /\ (IF sound THEN Content ELSE << >>) = Content
         /\ Content \in Seq(Value) /\ Len(Content) = inode.size /\ inode.size \in Nat
         /\ pos \in [Handle -> Nat]
         /\ SubSeq(Content, 1, Len(Content)) = Content
<1>1. Content \in Seq(Value) /\ Len(Content) = inode.size /\ inode.size \in Nat
  BY ContentIs
<1> QED
  BY <1>1, SubSeqFull DEF IInv, TypeOK

\* A read goes on by what there is.
LEMMA ReadMaps ==
  ASSUME IInv, NEW h \in Handle, NEW count \in Count, vfs_read(h, count)
  PROVE  Bytes!Next
<1> SUFFICES ASSUME sound'
             PROVE  sound /\ Bytes!Kept
  BY DEF Bytes!Next
<1> DEFINE n == nread(pos[h], count)
<1>1. sound /\ Content' = Content /\ pos' = [pos EXCEPT ![h] = @ + n]
  BY DEF vfs_read, Content
<1>2. /\ Content = IF sound THEN Content ELSE << >>
      /\ Len(Content) = inode.size /\ inode.size \in Nat /\ pos[h] \in Nat /\ count \in Nat
  BY <1>1, Seen, FileAssumption
<1>3. n \in 0 .. Len(Content) \union Count
  BY <1>2 DEF nread, MIN
<1>4. pos[h] + n <= Len(Content) \/ (pos[h] > Len(Content) /\ n \in Count)
  BY <1>2 DEF nread, MIN
<1> HIDE DEF n
<1>5. Bytes!Read(h, n)
  BY <1>1, <1>4 DEF Bytes!Read
<1> QED
  BY <1>1, <1>3, <1>5 DEF Bytes!Kept

\* A truncate, by itself or when the file is opened, only cuts off the end.
LEMMA TruncateMaps ==
  ASSUME IInv, IInv', NEW length \in Nat, NEW ok \in BOOLEAN, Truncate(length, ok),
         NEW h \in Handle,
         \/ pos' = pos
         \/ length = 0 /\ ok /\ pos' = [pos EXCEPT ![h] = 0]
  PROVE  Bytes!Next
<1> SUFFICES ASSUME sound'
             PROVE  sound /\ Bytes!Kept
  BY DEF Bytes!Next
<1> DEFINE b == Content
           c == Content'
<1>1. /\ sound
      /\ \/ c = b /\ ok = (length = inode.size)
         \/ ok /\ length < inode.size /\ c = SubSeq(b, 1, length)
  BY TruncateKeeps
<1>2. /\ b = (IF sound THEN Content ELSE << >>) /\ c = (IF sound THEN Content ELSE << >>)'
      /\ Len(b) = inode.size /\ inode.size \in Nat /\ SubSeq(b, 1, Len(b)) = b
  BY <1>1, Seen
<1>3. \E n \in 0 .. Len(b) : c = SubSeq(b, 1, n) /\ (ok => n = length)
  <2> HIDE DEF b, c
  <2>1. CASE c = b /\ ok = (length = inode.size)
    <3> DEFINE l == Len(b)
    <3>1. l \in Nat /\ l = inode.size /\ c = SubSeq(b, 1, l)
      BY <1>2, <2>1
    <3>2. ok => l = length
      BY <2>1, <3>1
    <3> HIDE DEF l
    <3>3. l \in 0 .. l
      BY <3>1
    <3> QED
      BY <3>1, <3>2, <3>3 DEF l
  <2>2. CASE ok /\ length < inode.size /\ c = SubSeq(b, 1, length)
    <3>1. length \in 0 .. Len(b)
      BY <1>2, <2>2
    <3> QED
      BY <2>2, <3>1
  <2> QED
    BY <1>1, <2>1, <2>2
<1> PICK n \in 0 .. Len(b) : c = SubSeq(b, 1, n) /\ (ok => n = length)
  BY <1>3
<1>4. CASE pos' = pos
  <2>1. Bytes!Truncate(n)
    BY <1>2, <1>4 DEF Bytes!Truncate
  <2> QED
    BY <1>1, <1>2, <2>1 DEF Bytes!Kept
<1>5. CASE length = 0 /\ ok /\ pos' = [pos EXCEPT ![h] = 0]
  <2>1. n = 0 /\ Bytes!Open(h, n)
    BY <1>2, <1>5 DEF Bytes!Open
  <2> QED
    BY <1>1, <1>2, <2>1 DEF Bytes!Kept
<1> QED
  BY <1>4, <1>5

\* A file that is opened begins at its beginning, whole or empty.
LEMMA OpenMaps ==
  ASSUME IInv, IInv', NEW h \in Handle, NEW trunc \in BOOLEAN, vfs_open_node(h, trunc)
  PROVE  Bytes!Next
<1>1. CASE ~trunc
  <2> SUFFICES ASSUME sound'
               PROVE  sound /\ Bytes!Kept
    BY DEF Bytes!Next
  <2>1. sound /\ Content' = Content /\ pos' = [pos EXCEPT ![h] = 0]
    BY <1>1 DEF vfs_open_node, Content
  <2>2. /\ Content = IF sound THEN Content ELSE << >>
        /\ SubSeq(Content, 1, Len(Content)) = Content
    BY <2>1, Seen
  <2> DEFINE n == Len(Content)
  <2>3. Bytes!Open(h, n)
    BY <2>1, <2>2 DEF Bytes!Open
  <2> QED
    BY <2>1, <2>2, <2>3 DEF Bytes!Kept
<1>2. CASE trunc
  <2> PICK ok \in BOOLEAN : Truncate(0, ok) /\ pos' = IF ok THEN [pos EXCEPT ![h] = 0] ELSE pos
    BY <1>2 DEF vfs_open_node
  <2> QED
    BY TruncateMaps
<1> QED
  BY <1>1, <1>2

\* A write of s puts s at the position, whichever blocks it takes.
LEMMA WriteMaps ==
  ASSUME IInv, IInv', NEW h \in Handle, NEW s \in Payload, vfs_write(h, s)
  PROVE  Bytes!Next
<1> SUFFICES ASSUME sound'
             PROVE  sound /\ Bytes!Kept
  BY DEF Bytes!Next
<1> DEFINE p == pos[h]
           i == block_number(p)
           o == pos_in_block(p)
           m == inode.size
           n == IF Spare = 0 THEN 0 ELSE MIN(Len(s), BlockSize - o)
           k == IF Spare = 0 THEN i ELSE i + 1
           new == SubSeq(Content, 1, p) \o s \o SubSeq(Content, p + Len(s) + 1, Len(Content))
<1>1. p \in Nat /\ p <= m /\ m \in Nat /\ s \in Seq(Byte) /\ Len(s) \in Nat /\ pos \in [Handle -> Nat]
  <2>1. s \in Seq(Byte)
    BY FileAssumption
  <2> QED
    BY <2>1 DEF vfs_write, IInv, TypeOK, Inode
<1>2. /\ BlockSize - o \in Nat \ {0} /\ o \in 0 .. BlockSize - 1 /\ BlockSize \in Nat \ {0}
      /\ i \in Nat
  BY <1>1, PosIs, PartEnds, FileAssumption DEF Offset
<1>3. n \in 0 .. Len(s) /\ o + n <= BlockSize
  BY <1>1, <1>2 DEF MIN
<1>4. n # BlockSize /\
      \E done \in IF BlockAt(i) = 0 THEN {0} ELSE {0, n} :
        LET ip == Sized(inode, MAX(p + done, m))
            content == IF done = 0 THEN data
                       ELSE [data EXCEPT ![BlockAt(i)] = Patch(@, o, SubSeq(s, 1, n))]
            rest == SubSeq(s, done + 1, Len(s))
            good == done = n /\ Supported(p, Len(s))
        IN \/ /\ done = Len(s) /\ ip.size <= MaxSize
              /\ inode' = ip /\ (ext2_write_inode \/ stored' = stored)
              /\ pos' = [pos EXCEPT ![h] = p + done]
              /\ sound' = (sound /\ good)
              /\ UNCHANGED <<free, torn, halt>>
              /\ Followed(content)
           \/ /\ done < Len(s)
              /\ WriteNew(h, rest, k, p + done, ip, content, good)
  BY DEF vfs_write
<1> PICK done \in IF BlockAt(i) = 0 THEN {0} ELSE {0, n} :
        LET ip == Sized(inode, MAX(p + done, m))
            content == IF done = 0 THEN data
                       ELSE [data EXCEPT ![BlockAt(i)] = Patch(@, o, SubSeq(s, 1, n))]
            rest == SubSeq(s, done + 1, Len(s))
            good == done = n /\ Supported(p, Len(s))
        IN \/ /\ done = Len(s) /\ ip.size <= MaxSize
              /\ inode' = ip /\ (ext2_write_inode \/ stored' = stored)
              /\ pos' = [pos EXCEPT ![h] = p + done]
              /\ sound' = (sound /\ good)
              /\ UNCHANGED <<free, torn, halt>>
              /\ Followed(content)
           \/ /\ done < Len(s)
              /\ WriteNew(h, rest, k, p + done, ip, content, good)
  BY <1>4
<1> DEFINE ip == Sized(inode, MAX(p + done, m))
           content == IF done = 0 THEN data
                      ELSE [data EXCEPT ![BlockAt(i)] = Patch(@, o, SubSeq(s, 1, n))]
           rest == SubSeq(s, done + 1, Len(s))
           good == done = n /\ Supported(p, Len(s))
<1>5. ip.size = MAX(p + done, m) /\ ip.ptr = inode.ptr
  BY DEF Sized, IInv, TypeOK, Inode
<1>6. done = n => content = Patched(p, s, n) /\ (n # 0 => BlockAt(i) # 0)
  BY DEF Patched
<1>7. ASSUME done = Len(s), inode' = ip, pos' = [pos EXCEPT ![h] = p + done],
             sound' = (sound /\ good), Followed(content)
      PROVE  sound /\ Content' = new /\ pos' = [pos EXCEPT ![h] = p + Len(s)]
  <2>1. sound /\ n = Len(s) /\ done = n
    BY <1>7
  <2>2. /\ inode'.size = MAX(p + Len(s), m) /\ inode'.ptr = inode.ptr
        /\ Followed(Patched(p, s, Len(s))) /\ (Len(s) # 0 => BlockAt(i) # 0)
    BY <1>5, <1>6, <1>7, <2>1
  <2>3. o + Len(s) <= BlockSize
    BY <1>3, <2>1
  <2>4. Content' = new
    BY <1>1, <2>1, <2>2, <2>3, WriteInside
  <2> QED
    BY <1>7, <2>1, <2>4
<1>8. ASSUME done < Len(s), WriteNew(h, rest, k, p + done, ip, content, good)
      PROVE  sound /\ Content' = new /\ pos' = [pos EXCEPT ![h] = p + Len(s)]
  <2> DEFINE grown == Grown(ip, MIN(Len(rest), BlockSize))
  <2>1. PICK b \in free :
          /\ k < NDirect /\ ext2_inode_alloc_block(grown, k, b)
          /\ Len(rest) < BlockSize
          /\ pos' = [pos EXCEPT ![h] = p + done + Len(rest)]
          /\ sound /\ good
          /\ Followed([content EXCEPT ![b] = Patch(Blank, 0, rest)])
    BY <1>8 DEF WriteNew, Break
  <2>2. done = n /\ Supported(p, Len(s))
    BY <2>1
  <2>3. Len(rest) = Len(s) - n
    <3>1. \A x \in n + 1 .. Len(s) : s[x] \in Byte
      BY <1>1, <1>3, ElementOfSeq
    <3>2. Len(SubSeq(s, n + 1, Len(s))) = IF n + 1 <= Len(s) THEN Len(s) - (n + 1) + 1 ELSE 0
      BY <1>1, <1>3, <3>1, SubSeqProperties
    <3> QED
      BY <1>1, <1>3, <1>8, <2>2, <3>2
  <2>4. p + n = k * BlockSize /\ m <= k * BlockSize
    BY <1>1, <1>8, <2>2, NewStarts
  <2>5. k \in Index
    BY <1>2, <2>1, FileAssumption DEF Index
  <2>6. b \in Block
    BY DEF IInv, TypeOK
  <2>7. content \in Content0
    <3>1. CASE done = 0
      BY <3>1 DEF IInv, TypeOK, Content0
    <3>2. CASE done # 0
      <4> DEFINE a == BlockAt(i)
                 t == SubSeq(s, 1, n)
      <4>1. a \in Block
        <5>1. a # 0
          BY <3>2
        <5> QED
          BY <5>1 DEF BlockAt, IInv, TypeOK, Inode
      <4>2. t \in Seq(Byte) /\ o \in Nat
        BY <1>1, <1>2, <1>3
      <4>3. data \in [Block -> [Offset -> Byte \cup {Junk}]]
        BY DEF IInv, TypeOK
      <4>4. Patch(data[a], o, t) \in [Offset -> Byte \cup {Junk}]
        BY <4>1, <4>2, <4>3, PatchType
      <4>5. content = [data EXCEPT ![a] = Patch(data[a], o, t)]
        BY <3>2
      <4> HIDE DEF a, t, content
      <4> QED
        BY <4>1, <4>3, <4>4, <4>5 DEF Content0
    <3> QED
      BY <3>1, <3>2
  <2> DEFINE after == [content EXCEPT ![b] = Patch(Blank, 0, rest)]
  <2>8. \A x \in Block : after[x] = IF x = b THEN Patch(Blank, 0, SubSeq(s, n + 1, Len(s)))
                                    ELSE Patched(p, s, n)[x]
    BY <1>6, <2>2, <2>6, <2>7 DEF Content0
  <2>9. /\ inode'.size = p + Len(s)
        /\ \A j \in Index : inode'.ptr[j] = IF j = k THEN b ELSE inode.ptr[j]
    <3>1. grown.size = ip.size + (Len(s) - n) /\ grown.ptr = inode.ptr
      BY <1>2, <1>5, <2>1, <2>3 DEF Grown, Sized, MIN
    <3>2. ip.size = p + n
      BY <1>1, <1>3, <1>5, <2>2, <2>4 DEF MAX
    <3>3. grown \in [size : Int, ptr : [Index -> Block \cup {0}]]
      <4>1. MAX(p + done, m) \in Int /\ MIN(Len(rest), BlockSize) \in Int
        <5> HIDE DEF n, k, rest
        <5>1. n \in Int /\ done = n /\ Len(rest) \in Int
          BY <1>1, <1>3, <2>2, <2>3
        <5> QED
          BY <1>1, <1>2, <5>1 DEF MAX, MIN
      <4>2. ip \in [size : Int, ptr : [Index -> Block \cup {0}]]
        BY <4>1 DEF Sized, IInv, TypeOK, Inode
      <4> HIDE DEF ip, rest
      <4> QED
        BY <4>1, <4>2 DEF Grown, Sized
    <3> HIDE DEF grown, ip, n, k
    <3>4. inode'.size = grown.size /\ inode'.ptr = [grown.ptr EXCEPT ![k] = b]
      BY <2>1, <3>3 DEF ext2_inode_alloc_block
    <3>5. \A j \in Index : inode'.ptr[j] = IF j = k THEN b ELSE inode.ptr[j]
      BY <2>5, <3>1, <3>3, <3>4
    <3>6. inode'.size = p + Len(s)
      BY <1>1, <1>3, <3>1, <3>2, <3>4
    <3> QED
      BY <3>5, <3>6
  <2>10. n < Len(s) /\ Len(s) - n < BlockSize /\ (n # 0 => BlockAt(i) # 0)
    BY <1>6, <1>8, <2>1, <2>2, <2>3
  <2>11. Content' = new
    <3>1. \A x \in Block \ free' :
            data'[x] = IF x = b THEN Patch(Blank, 0, SubSeq(s, n + 1, Len(s)))
                       ELSE Patched(p, s, n)[x]
      <4>1. \A x \in Block \ free' : data'[x] = after[x]
        BY <2>1 DEF Followed
      <4> HIDE DEF after
      <4> QED
        BY <2>8, <4>1
    <3>2. Beyond(p, s, n, k, b)
      <4>1. /\ n = IF Spare = 0 THEN 0 ELSE MIN(Len(s), BlockSize - o)
            /\ k = IF Spare = 0 THEN i ELSE i + 1
        OBVIOUS
      <4> HIDE DEF n, k
      <4> QED
        BY <2>5, <2>9, <2>10, <3>1, <4>1 DEF Beyond
    <3> HIDE DEF n, k
    <3> QED
      BY <1>1, <2>1, <2>2, <3>2, WriteBeyond
  <2>12. p + done + Len(rest) = p + Len(s)
    BY <1>1, <1>3, <2>2, <2>3
  <2> QED
    BY <2>1, <2>11, <2>12
<1>9. sound /\ Content' = new /\ pos' = [pos EXCEPT ![h] = p + Len(s)]
  BY <1>7, <1>8
<1>10. /\ Content = (IF sound THEN Content ELSE << >>)
       /\ Content' = (IF sound THEN Content ELSE << >>)'
       /\ Len(Content) = m
  BY <1>9, Seen
<1> HIDE DEF i, o, n, k
<1>11. Bytes!Write(h, s)
  BY <1>1, <1>9, <1>10 DEF Bytes!Write
<1> QED
  BY <1>9, <1>11 DEF Bytes!Kept

\* Every call is one of the abstract file, or breaks the promise.
LEMMA NextMaps ==
  ASSUME IInv, [Next]_vars
  PROVE  [Bytes!Next]_<<IF sound THEN Content ELSE << >>, pos, sound>>
<1>1. CASE UNCHANGED vars
  BY <1>1 DEF vars, Content
<1>2. CASE Next
  <2>1. IInv'
    BY NextInv
  <2> PICK h \in Handle :
        \/ \E count \in Count : vfs_read(h, count)
        \/ \E s \in Payload : vfs_write(h, s)
        \/ \E length \in Length : vfs_truncate(h, length)
        \/ \E trunc \in BOOLEAN : vfs_open_node(h, trunc)
    BY <1>2 DEF Next
  <2>2. CASE \E count \in Count : vfs_read(h, count)
    BY <2>2, ReadMaps
  <2>3. CASE \E s \in Payload : vfs_write(h, s)
    BY <2>1, <2>3, WriteMaps
  <2>4. CASE \E length \in Length : vfs_truncate(h, length)
    BY <2>1, <2>4, TruncateMaps, FileAssumption DEF vfs_truncate
  <2>5. CASE \E trunc \in BOOLEAN : vfs_open_node(h, trunc)
    BY <2>1, <2>5, OpenMaps
  <2> QED
    BY <2>2, <2>3, <2>4, <2>5
<1> QED
  BY <1>1, <1>2

\* The file implements FileBytes: whatever sizes, block numbers and calls, no
\* write or truncate that the code supports changes a byte that is not its own,
\* in one block or over two.
THEOREM FileRefines == Spec => BytesSpec
<1>1. Init => Bytes!Init
  <2> SUFFICES ASSUME Init
               PROVE  Bytes!Init
    OBVIOUS
  <2>1. sound /\ Len(Content) = 0 /\ Content \in Seq(Value)
    BY InitInv, Seen DEF Init
  <2>2. Content = << >>
    BY <2>1, EmptySeq
  <2> QED
    BY <2>1, <2>2 DEF Init, Bytes!Init
<1>2. IInv /\ [Next]_vars => [Bytes!Next]_<<IF sound THEN Content ELSE << >>, pos, sound>>
  BY NextMaps
<1> QED
  BY <1>1, <1>2, FileInvariant, PTL DEF Spec, BytesSpec, Bytes!Spec, Bytes!vars

\* And a read that starts at a block, or stays within one, finds every block it
\* counts and returns those bytes.
THEOREM FileReads == Spec => []ReadsExact
<1>1. IInv => ReadsExact
  BY ReadIs DEF ReadsExact
<1> QED
  BY <1>1, FileInvariant, PTL
=============================================================================
