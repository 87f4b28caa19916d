--------------------------- MODULE Ext2DirProofs ---------------------------
(***************************************************************************)
(* Proofs about Ext2Dir: a directory stays well-formed under every         *)
(* sequence of its calls, and implements the map of DirMap.                *)
(***************************************************************************)
EXTENDS Ext2Dir, FiniteSetTheorems, TLAPS

-----------------------------------------------------------------------------
(* Blocks.                                                                 *)

\* A written block: typed, tiled, and every entry as long as its name needs.
GoodBlock(block) ==
  /\ DOMAIN block \subseteq Offset
  /\ \A o \in DOMAIN block : block[o] \in Entry
  /\ TiledBlock(block) /\ FitBlock(block)

\* What an entry can keep when it is split is what its name needs and a word.
LEMMA RealNat ==
  ASSUME NEW e \in Entry
  PROVE  /\ Need[e.name] \in 1 .. BlockWords
         /\ Real(e) = Need[e.name] + 1
         /\ e.len \in 1 .. BlockWords
         /\ BlockWords \in Nat
BY SizeAssumption DEF Entry, Real

\* The entry that add writes into the rest of another lies between two entries,
\* and the block is tiled again.
LEMMA SplitGood ==
  ASSUME NEW block, GoodBlock(block), NEW o \in DOMAIN block,
         NEW n \in Name, NEW ino \in Ino,
         Real(block[o]) < block[o].len,
         block[o].len - Real(block[o]) >= Need[n]
  PROVE  /\ GoodBlock(Split(block, o, n, ino))
         /\ o + Real(block[o]) \notin DOMAIN block
         /\ DOMAIN Split(block, o, n, ino) = DOMAIN block \cup {o + Real(block[o])}
<1> DEFINE at == o + Real(block[o])
           new == [name |-> n, ino |-> ino, len |-> block[o].len - Real(block[o])]
           B == Split(block, o, n, ino)
<1>1. /\ o \in Offset /\ block[o] \in Entry
      /\ o + block[o].len = BlockWords \/ o + block[o].len \in DOMAIN block
      /\ \A q \in DOMAIN block : q <= o \/ o + block[o].len <= q
  BY DEF GoodBlock, TiledBlock
<1>2. /\ Real(block[o]) \in Nat \ {0} /\ block[o].len \in 1 .. BlockWords
      /\ BlockWords \in Nat /\ o \in Nat /\ at \in Nat
      /\ Need[block[o].name] \in 1 .. BlockWords
      /\ Real(block[o]) = Need[block[o].name] + 1
  BY <1>1, RealNat DEF Offset
<1>3. o < at /\ at < o + block[o].len /\ o + block[o].len <= BlockWords
  BY <1>1, <1>2 DEF GoodBlock, Offset
<1>4. at \notin DOMAIN block /\ at \in Offset
  BY <1>1, <1>2, <1>3 DEF GoodBlock, Offset
<1>5. /\ DOMAIN B = DOMAIN block \cup {at}
      /\ B[at] = new
      /\ B[o] = [block[o] EXCEPT !.len = Real(block[o])]
      /\ \A q \in DOMAIN block : q # o => B[q] = block[q]
  BY <1>4 DEF Split
<1>6. n \in Names /\ Need[n] \in 1 .. BlockWords
  BY SizeAssumption DEF Names
<1>7. new \in Entry /\ B[o] \in Entry
  BY <1>1, <1>2, <1>3, <1>5, <1>6 DEF Entry
<1>8. DOMAIN B \subseteq Offset /\ \A q \in DOMAIN B : B[q] \in Entry
  BY <1>4, <1>5, <1>7 DEF GoodBlock
<1>9. B[o].len = Real(block[o]) /\ B[o].name = block[o].name
  BY <1>1, <1>5 DEF Entry
<1>10. TiledBlock(B)
  <2>1. 0 \in DOMAIN B
    BY <1>5 DEF GoodBlock, TiledBlock
  <2> SUFFICES ASSUME NEW p \in DOMAIN B
               PROVE  /\ p + B[p].len = BlockWords \/ p + B[p].len \in DOMAIN B
                      /\ \A q \in DOMAIN B : q <= p \/ p + B[p].len <= q
    BY <2>1 DEF TiledBlock
  <2>2. CASE p = at
    BY <1>1, <1>2, <1>3, <1>5, <2>2 DEF Offset, GoodBlock
  <2>3. CASE p = o
    <3>1. p + B[p].len = at
      BY <1>9, <2>3
    <3>2. \A q \in DOMAIN B : q \in Nat /\ (q = at \/ q <= o \/ o + block[o].len <= q)
      BY <1>1, <1>5, <1>8 DEF Offset
    <3>3. \A q \in DOMAIN B : q <= o \/ at <= q
      BY <1>2, <1>3, <3>2
    <3> QED
      BY <1>5, <2>3, <3>1, <3>3
  <2>4. CASE p # o /\ p # at
    <3>1. p \in DOMAIN block /\ B[p] = block[p]
      BY <1>5, <2>4
    <3>2. /\ p + block[p].len = BlockWords \/ p + block[p].len \in DOMAIN block
          /\ \A q \in DOMAIN block : q <= p \/ p + block[p].len <= q
      BY <3>1 DEF GoodBlock, TiledBlock
    <3>3. p \in Nat /\ block[p].len \in Nat
      BY <3>1 DEF GoodBlock, Offset, Entry
    <3>4. at <= p \/ p + block[p].len <= at
      <4>1. o <= p \/ p + block[p].len <= o
        BY <3>2
      <4>2. p <= o \/ o + block[o].len <= p
        BY <1>1, <3>1
      <4> QED
        BY <4>1, <4>2, <1>2, <1>3, <2>4, <3>3
    <3> QED
      BY <1>5, <3>1, <3>2, <3>4
  <2> QED
    BY <2>2, <2>3, <2>4
<1>11. FitBlock(B)
  <2> SUFFICES ASSUME NEW p \in DOMAIN B
               PROVE  B[p].len >= Need[B[p].name]
    BY DEF FitBlock
  <2>1. CASE p = at
    BY <1>5, <1>6, <2>1
  <2>2. CASE p = o
    BY <1>2, <1>9, <2>2
  <2>3. CASE p # at /\ p # o
    BY <1>5, <2>3 DEF FitBlock, GoodBlock
  <2> QED
    BY <2>1, <2>2, <2>3
<1> QED
  BY <1>4, <1>5, <1>8, <1>10, <1>11 DEF GoodBlock

\* The entry that moved up to the place of the one before it leads where it led.
LEMMA PullGood ==
  ASSUME NEW block, GoodBlock(block), NEW o \in DOMAIN block,
         o + block[o].len < BlockWords
  PROVE  /\ o + block[o].len \in DOMAIN block
         /\ o + block[o].len # o
         /\ GoodBlock(Pull(block, o))
         /\ DOMAIN Pull(block, o) = DOMAIN block \ {o + block[o].len}
         /\ Pull(block, o)[o].name = block[o + block[o].len].name
         /\ Pull(block, o)[o].ino = block[o + block[o].len].ino
         /\ \A q \in DOMAIN Pull(block, o) : q # o => Pull(block, o)[q] = block[q]
<1> DEFINE next == o + block[o].len
           B == Pull(block, o)
<1>1. /\ o \in Offset /\ block[o] \in Entry /\ next \in DOMAIN block
      /\ \A q \in DOMAIN block : q <= o \/ next <= q
  BY SizeAssumption DEF GoodBlock, TiledBlock, Offset
<1>2. /\ o \in Nat /\ block[o].len \in 1 .. BlockWords /\ next \in Nat /\ o < next
      /\ BlockWords \in Nat
  BY <1>1, SizeAssumption DEF Offset, Entry
<1>3. /\ block[next] \in Entry
      /\ next + block[next].len = BlockWords \/ next + block[next].len \in DOMAIN block
      /\ \A q \in DOMAIN block : q <= next \/ next + block[next].len <= q
  BY <1>1 DEF GoodBlock, TiledBlock
<1>4. /\ block[next].len \in 1 .. BlockWords
      /\ next + block[next].len <= BlockWords
  BY <1>2, <1>3 DEF GoodBlock, Offset, Entry
<1>5. /\ DOMAIN B = DOMAIN block \ {next}
      /\ B[o] = [block[next] EXCEPT !.len = @ + block[o].len]
      /\ \A q \in DOMAIN B : q # o => B[q] = block[q]
  BY <1>2 DEF Pull
<1>6. /\ B[o].len = block[next].len + block[o].len
      /\ B[o].name = block[next].name /\ B[o].ino = block[next].ino
      /\ B[o] \in Entry
  BY <1>2, <1>3, <1>4, <1>5 DEF Entry
<1>7. DOMAIN B \subseteq Offset /\ \A q \in DOMAIN B : B[q] \in Entry
  BY <1>5, <1>6 DEF GoodBlock
<1>8. TiledBlock(B)
  <2>1. 0 \in DOMAIN B
    BY <1>2, <1>5 DEF GoodBlock, TiledBlock
  <2> SUFFICES ASSUME NEW p \in DOMAIN B
               PROVE  /\ p + B[p].len = BlockWords \/ p + B[p].len \in DOMAIN B
                      /\ \A q \in DOMAIN B : q <= p \/ p + B[p].len <= q
    BY <2>1 DEF TiledBlock
  <2>2. CASE p = o
    <3>1. p + B[p].len = next + block[next].len
      BY <1>2, <1>4, <1>6, <2>2
    <3>2. next + block[next].len # next
      BY <1>2, <1>4
    <3>3. \A q \in DOMAIN B : q <= o \/ next + block[next].len <= q
      <4> TAKE q \in DOMAIN B
      <4>1. q \in DOMAIN block /\ q # next /\ q \in Nat
        BY <1>5, <1>7 DEF Offset
      <4>2. (q <= o \/ next <= q) /\ (q <= next \/ next + block[next].len <= q)
        BY <1>1, <1>3, <4>1
      <4> QED
        BY <4>1, <4>2, <1>2
    <3> QED
      BY <1>3, <1>5, <2>2, <3>1, <3>2, <3>3
  <2>3. CASE p # o
    <3>1. p \in DOMAIN block /\ p # next /\ B[p] = block[p]
      BY <1>5, <2>3
    <3>2. /\ p + block[p].len = BlockWords \/ p + block[p].len \in DOMAIN block
          /\ \A q \in DOMAIN block : q <= p \/ p + block[p].len <= q
      BY <3>1 DEF GoodBlock, TiledBlock
    <3>3. p \in Nat /\ block[p].len \in Nat \ {0}
      BY <3>1 DEF GoodBlock, Offset, Entry
    <3>4. p + block[p].len # next
      <4>1. o <= p \/ p + block[p].len <= o
        BY <3>2
      <4>2. p <= o \/ next <= p
        BY <1>1, <3>1
      <4> QED
        BY <4>1, <4>2, <1>2, <2>3, <3>3
    <3> QED
      BY <1>5, <3>1, <3>2, <3>4
  <2> QED
    BY <2>2, <2>3
<1>9. FitBlock(B)
  <2> SUFFICES ASSUME NEW p \in DOMAIN B
               PROVE  B[p].len >= Need[B[p].name]
    BY DEF FitBlock
  <2>1. CASE p = o
    <3>1. block[next].len >= Need[block[next].name]
      BY <1>1 DEF GoodBlock, FitBlock
    <3>2. Need[block[next].name] \in Nat
      BY <1>3, RealNat
    <3> QED
      BY <1>2, <1>4, <1>6, <2>1, <3>1, <3>2
  <2>2. CASE p # o
    BY <1>5, <2>2 DEF GoodBlock, FitBlock
  <2> QED
    BY <2>1, <2>2
<1> QED
  BY <1>1, <1>2, <1>5, <1>6, <1>7, <1>8, <1>9 DEF GoodBlock

\* The entry before the last one takes its place up to the end of the block.
LEMMA JoinGood ==
  ASSUME NEW block, GoodBlock(block), NEW o \in DOMAIN block,
         ~(o + block[o].len < BlockWords), DOMAIN block # {o}
  PROVE  /\ GoodBlock(Join(block, o))
         /\ DOMAIN Join(block, o) = DOMAIN block \ {o}
         /\ \A q \in DOMAIN Join(block, o) :
              /\ Join(block, o)[q].name = block[q].name
              /\ Join(block, o)[q].ino = block[q].ino
<1> DEFINE B == Join(block, o)
<1>1. /\ o \in Offset /\ block[o] \in Entry
      /\ o + block[o].len = BlockWords \/ o + block[o].len \in DOMAIN block
      /\ \A q \in DOMAIN block : q <= o \/ o + block[o].len <= q
  BY DEF GoodBlock, TiledBlock
<1>2. /\ o \in Nat /\ block[o].len \in 1 .. BlockWords /\ BlockWords \in Nat
      /\ o + block[o].len = BlockWords
  BY <1>1, SizeAssumption DEF GoodBlock, Offset, Entry
<1>3. \A q \in DOMAIN block : q \in Nat /\ q <= o
  BY <1>1, <1>2 DEF GoodBlock, Offset
<1>4. o # 0 /\ 0 \in DOMAIN block
  BY <1>3, <1>2 DEF GoodBlock, TiledBlock
<1>5. DOMAIN B = DOMAIN block \ {o}
  BY DEF Join
<1>6. ASSUME NEW q \in DOMAIN B
      PROVE  /\ q \in DOMAIN block /\ q \in Nat /\ q < o
             /\ block[q] \in Entry /\ block[q].len \in 1 .. BlockWords
             /\ q + block[q].len = BlockWords \/ q + block[q].len \in DOMAIN block
             /\ \A p \in DOMAIN block : p <= q \/ q + block[q].len <= p
             /\ block[q].len >= Need[block[q].name]
             /\ Need[block[q].name] \in Nat
  <2>1. q \in DOMAIN block /\ q # o /\ block[q] \in Entry
    BY <1>5, <1>6 DEF GoodBlock
  <2>2. Need[block[q].name] \in Nat /\ block[q].len \in 1 .. BlockWords
    BY <2>1, RealNat
  <2> QED
    BY <1>2, <1>3, <2>1, <2>2 DEF GoodBlock, TiledBlock, FitBlock
<1>7. ASSUME NEW q \in DOMAIN B, q + block[q].len = o
      PROVE  /\ B[q].name = block[q].name /\ B[q].ino = block[q].ino
             /\ B[q].len = block[q].len + block[o].len
             /\ B[q] \in Entry
  <2>1. B[q] = [block[q] EXCEPT !.len = @ + block[o].len]
    BY <1>5, <1>7 DEF Join
  <2>2. block[q].len + block[o].len \in 1 .. BlockWords
    BY <1>2, <1>6, <1>7
  <2> QED
    BY <1>6, <2>1, <2>2 DEF Entry
<1>8. ASSUME NEW q \in DOMAIN B, q + block[q].len # o
      PROVE  B[q] = block[q]
  BY <1>5, <1>8 DEF Join
<1>9. TiledBlock(B)
  <2>1. 0 \in DOMAIN B
    BY <1>4, <1>5
  <2> SUFFICES ASSUME NEW p \in DOMAIN B
               PROVE  /\ p + B[p].len = BlockWords \/ p + B[p].len \in DOMAIN B
                      /\ \A q \in DOMAIN B : q <= p \/ p + B[p].len <= q
    BY <2>1 DEF TiledBlock
  <2>2. CASE p + block[p].len = o
    <3>1. p + B[p].len = BlockWords
      BY <1>2, <1>6, <1>7, <2>2
    <3>2. \A q \in DOMAIN B : q <= p
      BY <1>6, <2>2
    <3> QED
      BY <3>1, <3>2
  <2>3. CASE p + block[p].len # o
    BY <1>5, <1>6, <1>8, <2>3
  <2> QED
    BY <2>2, <2>3
<1>10. FitBlock(B)
  <2> SUFFICES ASSUME NEW p \in DOMAIN B
               PROVE  B[p].len >= Need[B[p].name]
    BY DEF FitBlock
  <2>1. CASE p + block[p].len = o
    BY <1>2, <1>6, <1>7, <2>1
  <2>2. CASE p + block[p].len # o
    BY <1>6, <1>8, <2>2
  <2> QED
    BY <2>1, <2>2
<1>11. DOMAIN B \subseteq Offset /\ \A q \in DOMAIN B : B[q] \in Entry
  BY <1>5, <1>6, <1>7, <1>8 DEF GoodBlock
<1> QED
  BY <1>5, <1>7, <1>8, <1>9, <1>10, <1>11 DEF GoodBlock

-----------------------------------------------------------------------------
(* Directories.                                                            *)

\* The number of blocks of a directory, from its indexes.
LEMMA SizeIs ==
  ASSUME NEW d, NEW n \in Nat, DOMAIN d = 0 .. n - 1
  PROVE  Size(d) = n
<1>1. Cardinality(0 .. n - 1) = IF 0 > n - 1 THEN 0 ELSE n - 1 - 0 + 1
  BY FS_Interval
<1> QED
  BY <1>1 DEF Size

\* A place is a block index and an offset.
LEMMA PlaceIs ==
  ASSUME NEW d
  PROVE  /\ \A p \in Place(d) : /\ p = <<p[1], p[2]>>
                                /\ p[1] \in DOMAIN d /\ p[2] \in DOMAIN d[p[1]]
         /\ \A i \in DOMAIN d : \A o \in DOMAIN d[i] : <<i, o>> \in Place(d)
BY DEF Place

\* A directory is well-formed if its blocks are, and its names.
LEMMA WellFormedIs ==
  ASSUME NEW d, NEW u
  PROVE  WellFormed(d, u) <=> /\ Size(d) \in 0 .. NDirect /\ DOMAIN d = 0 .. Size(d) - 1
                              /\ \A i \in DOMAIN d : Zero(d[i]) \/ GoodBlock(d[i])
                              /\ Once(d, u) /\ Named(d, u)
BY DEF WellFormed, Typed, Written, GoodBlock, Zero

\* A directory with one entry more, of a name that none with an inode had.
LEMMA GrowNames ==
  ASSUME NEW d, NEW u, NEW e, NEW x, NEW n \in Name, NEW ino \in Ino,
         Once(d, u), Named(d, u), Matches(d, n) = {},
         Place(e) = Place(d) \cup {x}, x \notin Place(d),
         At(e, x).name = n, At(e, x).ino = ino,
         \A p \in Place(d) : At(e, p).name = At(d, p).name /\ At(e, p).ino = At(d, p).ino
  PROVE  /\ Once(e, u) /\ Named(e, u)
         /\ Binds(e) = Binds(d) \cup {<<n, ino>>}
         /\ \A b \in Binds(d) : b[1] # n
<1>1. n # NoName /\ ino # 0
  BY SizeAssumption
<1>2. ASSUME NEW p \in Place(d), At(d, p).name = n PROVE n \in u
  BY <1>2 DEF Matches, Named, Ghosts
<1>3. Once(e, u)
  BY <1>2 DEF Once
<1>4. Named(e, u)
  BY <1>1 DEF Named, Ghosts
<1>5. Binds(e) = Binds(d) \cup {<<n, ino>>}
  <2>1. x \in Place(e)
    OBVIOUS
  <2>2. <<n, ino>> \in Binds(e)
    BY <1>1, <2>1 DEF Binds
  <2>3. Binds(d) \subseteq Binds(e)
    BY DEF Binds
  <2>4. \A b \in Binds(e) : b \in Binds(d) \cup {<<n, ino>>}
    BY DEF Binds
  <2> QED
    BY <2>2, <2>3, <2>4
<1>6. \A b \in Binds(d) : b[1] # n
  BY DEF Binds, Matches
<1> QED
  BY <1>3, <1>4, <1>5, <1>6

\* Without its entry a name is not bound, and all others are as before.
Without(d, e, u, n) ==
  /\ Once(e, u) /\ Named(e, u)
  /\ Sure(e, u) = {b \in Sure(d, u) : b[1] # n}

\* A directory whose entries are those of another one, but for one of them.
LEMMA ShrinkNames ==
  ASSUME NEW d, NEW u, NEW e, NEW x \in Place(d), NEW g \in [Place(e) -> Place(d)],
         Once(d, u), Named(d, u), At(d, x).name # NoName,
         \A p, q \in Place(e) : g[p] = g[q] => p = q,
         \A p \in Place(e) : g[p] # x,
         \A p \in Place(d) \ {x} : \E q \in Place(e) : g[q] = p,
         \A p \in Place(e) : At(e, p).name = At(d, g[p]).name /\ At(e, p).ino = At(d, g[p]).ino
  PROVE  Without(d, e, u, At(d, x).name)
<1>1. Once(e, u)
  <2> SUFFICES ASSUME NEW p \in Place(e), NEW q \in Place(e),
                      At(e, p).name = At(e, q).name, At(e, p).name \notin u \cup {NoName}
               PROVE  p = q
    BY DEF Once
  <2>1. g[p] \in Place(d) /\ g[q] \in Place(d)
    OBVIOUS
  <2>2. At(d, g[p]).name = At(d, g[q]).name /\ At(d, g[p]).name \notin u \cup {NoName}
    OBVIOUS
  <2>3. g[p] = g[q]
    BY <2>1, <2>2 DEF Once
  <2> QED
    BY <2>3
<1>2. Named(e, u)
  <2> SUFFICES ASSUME NEW p \in Place(e), At(e, p).ino = 0
               PROVE  At(e, p).name \in u
    BY DEF Named, Ghosts
  <2>1. g[p] \in Place(d) /\ At(d, g[p]).ino = 0 /\ At(d, g[p]).name = At(e, p).name
    OBVIOUS
  <2> QED
    BY <2>1 DEF Named, Ghosts
<1>3. \A p \in Place(d) : At(d, p).name = At(d, x).name => p = x \/ At(d, x).name \in u
  BY DEF Once
<1>4. ASSUME NEW b \in Sure(e, u)
      PROVE  b \in Sure(d, u) /\ b[1] # At(d, x).name
  <2>1. PICK p \in Place(e) : b = <<At(e, p).name, At(e, p).ino>> /\ At(e, p).ino # 0
    BY <1>4 DEF Sure, Binds
  <2>2. g[p] \in Place(d) /\ g[p] # x /\ At(d, g[p]).ino # 0
        /\ b = <<At(d, g[p]).name, At(d, g[p]).ino>> /\ b[1] \notin u
    BY <1>4, <2>1 DEF Sure
  <2> QED
    BY <1>3, <2>2 DEF Sure, Binds
<1>5. ASSUME NEW b \in Sure(d, u), b[1] # At(d, x).name
      PROVE  b \in Sure(e, u)
  <2>1. PICK p \in Place(d) : b = <<At(d, p).name, At(d, p).ino>> /\ At(d, p).ino # 0
    BY <1>5 DEF Sure, Binds
  <2>2. p # x
    BY <1>5, <2>1
  <2>3. PICK q \in Place(e) : g[q] = p
    BY <2>2
  <2>4. b = <<At(e, q).name, At(e, q).ino>> /\ At(e, q).ino # 0 /\ b[1] \notin u
    BY <1>5, <2>1, <2>3 DEF Sure
  <2> QED
    BY <2>4 DEF Sure, Binds
<1> QED
  BY <1>1, <1>2, <1>4, <1>5 DEF Without

\* What add does to a directory: the entries stay where they are, and what is new
\* has a name and an inode, or came with an old block and its name is in u.
Grown(d, e, u) ==
  /\ Size(e) \in {Size(d), Size(d) + 1}
  /\ \A i \in DOMAIN d : i \in DOMAIN e /\ (Zero(e[i]) <=> Zero(d[i]))
  /\ \A p \in Place(d) :
       p \in Place(e) /\ At(e, p).name = At(d, p).name /\ At(e, p).ino = At(d, p).ino
  /\ \A p \in Place(e) \ Place(d) :
       \/ At(e, p).name \in Name /\ At(e, p).ino # 0
       \/ p[1] = Size(d) /\ At(e, p).name \in u

\* The first half of add: an entry is split.
LEMMA SplitDir ==
  ASSUME NEW d, NEW u, WellFormed(d, u), NEW n \in Name, NEW ino \in Ino, Matches(d, n) = {},
         NEW p \in Room(d, n), NEW e, DOMAIN e = DOMAIN d,
         e[p[1]] = Split(d[p[1]], p[2], n, ino),
         \A j \in DOMAIN d : j # p[1] => e[j] = d[j]
  PROVE  /\ WellFormed(e, u)
         /\ Binds(e) = Binds(d) \cup {<<n, ino>>}
         /\ \A b \in Binds(d) : b[1] # n
         /\ Grown(d, e, u)
<1> DEFINE i == p[1]
           o == p[2]
           B == Split(d[i], o, n, ino)
           at == o + Real(d[i][o])
<1>1. p \in Place(d) /\ Real(d[i][o]) < d[i][o].len /\ d[i][o].len - Real(d[i][o]) >= Need[n]
  BY DEF Room, Passed, At
<1>2. p = <<i, o>> /\ i \in DOMAIN d /\ o \in DOMAIN d[i]
  BY <1>1, PlaceIs
<1>3. GoodBlock(d[i])
  BY <1>2, WellFormedIs DEF Zero
<1>4. GoodBlock(B) /\ at \notin DOMAIN d[i] /\ DOMAIN B = DOMAIN d[i] \cup {at}
  BY <1>1, <1>2, <1>3, SplitGood
<1>5. DOMAIN e = DOMAIN d /\ e[i] = B /\ \A j \in DOMAIN d : j # i => e[j] = d[j]
  BY <1>2
<1>6. Size(e) = Size(d)
  BY <1>5 DEF Size
<1>7. /\ Place(e) = Place(d) \cup {<<i, at>>}
      /\ <<i, at>> \notin Place(d)
  <2>1. \A j \in DOMAIN d : \A q : q \in DOMAIN e[j] <=> (q \in DOMAIN d[j] \/ (j = i /\ q = at))
    BY <1>4, <1>5
  <2>2. <<i, at>> \notin Place(d)
    BY <1>4, PlaceIs
  <2>3. \A z \in Place(e) : z \in Place(d) \cup {<<i, at>>}
    BY <2>1, <1>5, PlaceIs
  <2>4. \A z \in Place(d) : z \in Place(e)
    <3> TAKE z \in Place(d)
    <3>1. z = <<z[1], z[2]>> /\ z[1] \in DOMAIN d /\ z[2] \in DOMAIN d[z[1]]
      BY PlaceIs
    <3>2. z[1] \in DOMAIN e /\ z[2] \in DOMAIN e[z[1]]
      BY <3>1, <2>1, <1>5
    <3> QED
      BY <3>1, <3>2, PlaceIs
  <2>5. <<i, at>> \in Place(e)
    BY <2>1, <1>2, <1>5, PlaceIs
  <2> QED
    BY <2>2, <2>3, <2>4, <2>5
<1>8. At(e, <<i, at>>).name = n /\ At(e, <<i, at>>).ino = ino
  <2>1. at \in DOMAIN B /\ B[at] = [name |-> n, ino |-> ino, len |-> d[i][o].len - Real(d[i][o])]
    BY <1>4 DEF Split
  <2>2. At(e, <<i, at>>) = B[at]
    BY <1>5 DEF At
  <2> QED
    BY <2>1, <2>2
<1>9. ASSUME NEW z \in Place(d)
      PROVE  At(e, z).name = At(d, z).name /\ At(e, z).ino = At(d, z).ino
  <2>1. z = <<z[1], z[2]>> /\ z[1] \in DOMAIN d /\ z[2] \in DOMAIN d[z[1]]
    BY <1>9, PlaceIs
  <2>2. CASE z[1] # i
    BY <1>5, <2>1, <2>2 DEF At
  <2>3. CASE z[1] = i
    <3>1. z[2] # at /\ z[2] \in DOMAIN d[i]
      BY <1>4, <2>1, <2>3
    <3>2. d[i][z[2]] \in Entry
      BY <1>3, <3>1 DEF GoodBlock
    <3>3. B[z[2]] = d[i][z[2]]
          \/ B[z[2]] = [d[i][z[2]] EXCEPT !.len = Real(d[i][o])]
      BY <3>1 DEF Split
    <3>4. B[z[2]].name = d[i][z[2]].name /\ B[z[2]].ino = d[i][z[2]].ino
      BY <3>2, <3>3 DEF Entry
    <3> QED
      BY <1>5, <2>3, <3>4 DEF At
  <2> QED
    BY <2>2, <2>3
<1>10. Once(d, u) /\ Named(d, u)
  BY WellFormedIs
<1>11. /\ Once(e, u) /\ Named(e, u)
       /\ Binds(e) = Binds(d) \cup {<<n, ino>>}
       /\ \A b \in Binds(d) : b[1] # n
  <2> HIDE DEF B, at
  <2>1. \A z \in Place(d) : At(e, z).name = At(d, z).name /\ At(e, z).ino = At(d, z).ino
    BY <1>9
  <2> QED
    BY <1>7, <1>8, <1>10, <2>1, GrowNames
<1>12. WellFormed(e, u)
  <2>1. \A j \in DOMAIN e : Zero(e[j]) \/ GoodBlock(e[j])
    BY <1>4, <1>5, WellFormedIs
  <2>2. Size(e) \in 0 .. NDirect /\ DOMAIN e = 0 .. Size(e) - 1
    BY <1>5, <1>6, WellFormedIs
  <2> QED
    BY <1>11, <2>1, <2>2, WellFormedIs
<1>13. Grown(d, e, u)
  <2>1. \A j \in DOMAIN d : j \in DOMAIN e /\ (Zero(e[j]) <=> Zero(d[j]))
    BY <1>2, <1>4, <1>5 DEF Zero
  <2>2. ino # 0
    BY SizeAssumption
  <2> HIDE DEF at
  <2> QED
    BY <1>6, <1>7, <1>8, <1>9, <2>1, <2>2 DEF Grown
<1> QED
  BY <1>11, <1>12, <1>13

\* The blocks of a directory with one more.
LEMMA AddBlockIs ==
  ASSUME NEW d, NEW u, WellFormed(d, u), NEW block, NEW e, e = AddBlock(d, block)
  PROVE  Size(d) \in Nat /\ Size(e) = Size(d) + 1 /\ DOMAIN e = 0 .. Size(d)
<1>1. Size(d) \in Nat /\ DOMAIN d = 0 .. Size(d) - 1
  BY WellFormedIs, SizeAssumption
<1>2. DOMAIN e = 0 .. Size(d)
  BY DEF AddBlock
<1>3. Size(d) + 1 \in Nat /\ DOMAIN e = 0 .. (Size(d) + 1) - 1
  BY <1>1, <1>2
<1>4. Size(e) = Size(d) + 1
  BY <1>3, SizeIs
<1> QED
  BY <1>1, <1>2, <1>4 DEF AddBlock

\* The second half of add: a new block for the entry.
LEMMA AppendDir ==
  ASSUME NEW d, NEW u, WellFormed(d, u), NEW n \in Name, NEW ino \in Ino, Matches(d, n) = {},
         Size(d) < NDirect,
         NEW B, DOMAIN B = {0}, B[0] = [name |-> n, ino |-> ino, len |-> BlockWords],
         NEW e, e = AddBlock(d, B)
  PROVE  /\ WellFormed(e, u)
         /\ Binds(e) = Binds(d) \cup {<<n, ino>>}
         /\ \A b \in Binds(d) : b[1] # n
         /\ Grown(d, e, u)
<1> DEFINE x == <<Size(d), 0>>
<1>1. /\ Size(d) \in Nat /\ Size(e) = Size(d) + 1 /\ DOMAIN e = 0 .. Size(d)
      /\ Size(d) \notin DOMAIN d /\ DOMAIN e = DOMAIN d \cup {Size(d)}
      /\ e[Size(d)] = B
      /\ \A i \in DOMAIN d : e[i] = d[i]
  <2>1. WellFormed(d, u) /\ e = AddBlock(d, B)
    OBVIOUS
  <2>2. Size(d) \in Nat /\ Size(e) = Size(d) + 1 /\ DOMAIN e = 0 .. Size(d)
    BY ONLY <2>1, AddBlockIs, Zenon
  <2>3. DOMAIN d = 0 .. Size(d) - 1
    BY WellFormedIs
  <2>4. e[Size(d)] = B /\ \A i \in DOMAIN d : e[i] = d[i]
    BY <2>1, <2>2, <2>3 DEF AddBlock
  <2> QED
    BY <2>2, <2>3, <2>4
<1>2. GoodBlock(B)
  <2>1. n \in Names /\ Need[n] \in 1 .. BlockWords /\ BlockWords \in Nat \ {0}
    BY SizeAssumption DEF Names
  <2>2. DOMAIN B = {0} /\ B[0] \in Entry /\ B[0].len = BlockWords /\ B[0].name = n
    BY <2>1 DEF Entry
  <2>3. TiledBlock(B)
    BY <2>1, <2>2 DEF TiledBlock
  <2>4. FitBlock(B)
    BY <2>1, <2>2 DEF FitBlock
  <2>5. DOMAIN B \subseteq Offset
    BY <2>1, <2>2 DEF Offset
  <2> QED
    BY <2>2, <2>3, <2>4, <2>5 DEF GoodBlock
<1>3. DOMAIN B = {0} /\ B[0].name = n /\ B[0].ino = ino
  OBVIOUS
<1>4. Place(e) = Place(d) \cup {x} /\ x \notin Place(d)
  <2>1. x \notin Place(d)
    BY <1>1, PlaceIs
  <2>2. x \in Place(e)
    BY <1>1, <1>3, PlaceIs
  <2>3. ASSUME NEW z \in Place(e) PROVE z \in Place(d) \cup {x}
    <3>1. z = <<z[1], z[2]>> /\ z[1] \in DOMAIN e /\ z[2] \in DOMAIN e[z[1]]
      BY PlaceIs
    <3>2. CASE z[1] \in DOMAIN d
      BY <1>1, <3>1, <3>2, PlaceIs
    <3>3. CASE z[1] = Size(d)
      BY <1>1, <1>3, <3>1, <3>3
    <3> QED
      BY <1>1, <3>1, <3>2, <3>3
  <2>4. ASSUME NEW z \in Place(d) PROVE z \in Place(e)
    <3>1. z = <<z[1], z[2]>> /\ z[1] \in DOMAIN d /\ z[2] \in DOMAIN d[z[1]]
      BY PlaceIs
    <3>2. z[1] \in DOMAIN e /\ z[2] \in DOMAIN e[z[1]]
      BY <1>1, <3>1
    <3> QED
      BY <3>1, <3>2, PlaceIs
  <2> QED
    BY <2>1, <2>2, <2>3, <2>4
<1>5. At(e, x).name = n /\ At(e, x).ino = ino
  BY <1>1, <1>3 DEF At
<1>6. \A z \in Place(d) : At(e, z).name = At(d, z).name /\ At(e, z).ino = At(d, z).ino
  BY <1>1, PlaceIs DEF At
<1>7. Once(d, u) /\ Named(d, u)
  BY WellFormedIs
<1>8. /\ Once(e, u) /\ Named(e, u)
      /\ Binds(e) = Binds(d) \cup {<<n, ino>>}
      /\ \A b \in Binds(d) : b[1] # n
  <2> HIDE DEF x
  <2> QED
    BY <1>4, <1>5, <1>6, <1>7, GrowNames
<1>9. WellFormed(e, u)
  <2>1. \A j \in DOMAIN e : Zero(e[j]) \/ GoodBlock(e[j])
    BY <1>1, <1>2, WellFormedIs
  <2>2. Size(e) \in 0 .. NDirect /\ DOMAIN e = 0 .. Size(e) - 1
    BY <1>1, SizeAssumption
  <2> QED
    BY <1>8, <2>1, <2>2, WellFormedIs
<1>10. Grown(d, e, u)
  <2>1. \A i \in DOMAIN d : i \in DOMAIN e /\ (Zero(e[i]) <=> Zero(d[i]))
    BY <1>1
  <2>2. ino # 0
    BY SizeAssumption
  <2> HIDE DEF x
  <2> QED
    BY <1>1, <1>4, <1>5, <1>6, <2>1, <2>2 DEF Grown
<1> QED
  BY <1>8, <1>9, <1>10

\* A new block that was not written has the entries of its former use.
LEMMA OldDir ==
  ASSUME NEW d, NEW u, WellFormed(d, u), Size(d) < NDirect, NEW B \in Left,
         NEW e, e = AddBlock(d, B), NEW v, v = u \cup NamesOf(B)
  PROVE  /\ WellFormed(e, v)
         /\ Sure(e, v) = {b \in Sure(d, u) : b[1] \notin NamesOf(B)}
         /\ Grown(d, e, v)
<1>1. /\ Size(d) \in Nat /\ Size(e) = Size(d) + 1 /\ DOMAIN e = 0 .. Size(d)
      /\ Size(d) \notin DOMAIN d /\ DOMAIN e = DOMAIN d \cup {Size(d)}
      /\ e[Size(d)] = B
      /\ \A i \in DOMAIN d : e[i] = d[i]
  <2>1. WellFormed(d, u) /\ e = AddBlock(d, B)
    OBVIOUS
  <2>2. Size(d) \in Nat /\ Size(e) = Size(d) + 1 /\ DOMAIN e = 0 .. Size(d)
    BY ONLY <2>1, AddBlockIs, Zenon
  <2>3. DOMAIN d = 0 .. Size(d) - 1
    BY WellFormedIs
  <2>4. e[Size(d)] = B /\ \A i \in DOMAIN d : e[i] = d[i]
    BY <2>1, <2>2, <2>3 DEF AddBlock
  <2> QED
    BY <2>2, <2>3, <2>4
<1>2. Zero(B) \/ GoodBlock(B)
  BY LeftAssumption DEF Written, GoodBlock
<1>3. ASSUME NEW z \in Place(e)
      PROVE  \/ z \in Place(d) /\ At(e, z) = At(d, z)
             \/ z[1] = Size(d) /\ At(e, z).name \in NamesOf(B)
  <2>1. z = <<z[1], z[2]>> /\ z[1] \in DOMAIN e /\ z[2] \in DOMAIN e[z[1]]
    BY PlaceIs
  <2>2. CASE z[1] \in DOMAIN d
    BY <1>1, <2>1, <2>2, PlaceIs DEF At
  <2>3. CASE z[1] = Size(d)
    BY <1>1, <2>1, <2>3 DEF At, NamesOf
  <2> QED
    BY <1>1, <2>1, <2>2, <2>3
<1>4. ASSUME NEW z \in Place(d) PROVE z \in Place(e) /\ At(e, z) = At(d, z)
  <2>1. z = <<z[1], z[2]>> /\ z[1] \in DOMAIN d /\ z[2] \in DOMAIN d[z[1]]
    BY PlaceIs
  <2>2. z[1] \in DOMAIN e /\ z[2] \in DOMAIN e[z[1]]
    BY <1>1, <2>1
  <2> QED
    BY <1>1, <2>1, <2>2, PlaceIs DEF At
<1>5. Once(d, u) /\ Named(d, u)
  BY WellFormedIs
<1>6. Once(e, v)
  <2> SUFFICES ASSUME NEW y \in Place(e), NEW z \in Place(e),
                      At(e, y).name = At(e, z).name, At(e, y).name \notin v \cup {NoName}
               PROVE  y = z
    BY DEF Once
  <2>1. y \in Place(d) /\ At(e, y) = At(d, y) /\ z \in Place(d) /\ At(e, z) = At(d, z)
    BY <1>3
  <2> QED
    BY <1>5, <2>1 DEF Once
<1>7. Named(e, v)
  <2> SUFFICES ASSUME NEW z \in Place(e), At(e, z).ino = 0 PROVE At(e, z).name \in v
    BY DEF Named, Ghosts
  <2>1. CASE z \in Place(d) /\ At(e, z) = At(d, z)
    BY <1>5, <2>1 DEF Named, Ghosts
  <2> QED
    BY <1>3, <2>1
<1>8. WellFormed(e, v)
  <2>1. \A j \in DOMAIN e : Zero(e[j]) \/ GoodBlock(e[j])
    BY <1>1, <1>2, WellFormedIs
  <2>2. Size(e) \in 0 .. NDirect /\ DOMAIN e = 0 .. Size(e) - 1
    BY <1>1, SizeAssumption
  <2> QED
    BY <1>6, <1>7, <2>1, <2>2, WellFormedIs
<1>9. ASSUME NEW b \in Sure(e, v)
      PROVE  b \in Sure(d, u) /\ b[1] \notin NamesOf(B)
  <2>1. PICK z \in Place(e) : b = <<At(e, z).name, At(e, z).ino>> /\ At(e, z).ino # 0
    BY <1>9 DEF Sure, Binds
  <2>2. b[1] \notin u /\ b[1] \notin NamesOf(B)
    BY <1>9 DEF Sure
  <2>3. z \in Place(d) /\ At(e, z) = At(d, z)
    BY <1>3, <2>1, <2>2
  <2> QED
    BY <2>1, <2>2, <2>3 DEF Sure, Binds
<1>10. ASSUME NEW b \in Sure(d, u), b[1] \notin NamesOf(B)
       PROVE  b \in Sure(e, v)
  <2>1. PICK z \in Place(d) : b = <<At(d, z).name, At(d, z).ino>> /\ At(d, z).ino # 0
    BY <1>10 DEF Sure, Binds
  <2>2. b[1] \notin v
    BY <1>10 DEF Sure
  <2> QED
    BY <1>4, <2>1, <2>2 DEF Sure, Binds
<1>11. Grown(d, e, v)
  <2>1. \A i \in DOMAIN d : i \in DOMAIN e /\ (Zero(e[i]) <=> Zero(d[i]))
    BY <1>1
  <2>2. ASSUME NEW z \in Place(e) \ Place(d)
        PROVE  z[1] = Size(d) /\ At(e, z).name \in v
    BY <1>3
  <2> QED
    BY <1>1, <1>4, <2>1, <2>2 DEF Grown
<1> QED
  BY <1>8, <1>9, <1>10, <1>11

\* Removing an entry that has one behind it: that one moves up.
LEMMA PullDir ==
  ASSUME NEW d, NEW u, WellFormed(d, u), NEW i \in DOMAIN d, NEW o \in DOMAIN d[i],
         NEW e, DOMAIN e = DOMAIN d, e[i] = Pull(d[i], o),
         \A j \in DOMAIN d : j # i => e[j] = d[j],
         d[i][o].name # NoName, o + d[i][o].len < BlockWords
  PROVE  WellFormed(e, u) /\ Without(d, e, u, d[i][o].name)
<1> DEFINE B == Pull(d[i], o)
           next == o + d[i][o].len
           x == <<i, o>>
           g == [p \in Place(e) |-> IF p = x THEN <<i, next>> ELSE p]
<1>1. GoodBlock(d[i])
  BY WellFormedIs DEF Zero
<1>2. /\ next \in DOMAIN d[i] /\ next # o
      /\ GoodBlock(B)
      /\ DOMAIN B = DOMAIN d[i] \ {next}
      /\ B[o].name = d[i][next].name /\ B[o].ino = d[i][next].ino
      /\ \A q \in DOMAIN B : q # o => B[q] = d[i][q]
  BY <1>1, PullGood
<1>3. DOMAIN e = DOMAIN d /\ e[i] = B /\ \A j \in DOMAIN d : j # i => e[j] = d[j]
  OBVIOUS
<1>4. Size(e) = Size(d)
  BY <1>3 DEF Size
<1> HIDE DEF B, next
<1>5. ASSUME NEW p
      PROVE  p \in Place(e) <=> p \in Place(d) /\ p # <<i, next>>
  <2>1. \A j \in DOMAIN d : \A q : q \in DOMAIN e[j] <=> q \in DOMAIN d[j] /\ ~(j = i /\ q = next)
    BY <1>2, <1>3
  <2>2. ASSUME p \in Place(e) PROVE p \in Place(d) /\ p # <<i, next>>
    <3>1. p = <<p[1], p[2]>> /\ p[1] \in DOMAIN e /\ p[2] \in DOMAIN e[p[1]]
      BY <2>2, PlaceIs
    <3>2. p[1] \in DOMAIN d /\ p[2] \in DOMAIN d[p[1]] /\ ~(p[1] = i /\ p[2] = next)
      BY <1>3, <2>1, <3>1
    <3> QED
      BY <3>1, <3>2, PlaceIs
  <2>3. ASSUME p \in Place(d), p # <<i, next>> PROVE p \in Place(e)
    <3>1. p = <<p[1], p[2]>> /\ p[1] \in DOMAIN d /\ p[2] \in DOMAIN d[p[1]]
      BY <2>3, PlaceIs
    <3>2. p[1] \in DOMAIN e /\ p[2] \in DOMAIN e[p[1]]
      BY <1>3, <2>1, <2>3, <3>1
    <3> QED
      BY <3>1, <3>2, PlaceIs
  <2> QED
    BY <2>2, <2>3
<1>6. x \in Place(d) /\ <<i, next>> \in Place(d) /\ x # <<i, next>>
  BY <1>2, PlaceIs
<1>7. g \in [Place(e) -> Place(d)]
  BY <1>5, <1>6
<1>8. \A p, q \in Place(e) : g[p] = g[q] => p = q
  BY <1>5
<1>9. \A p \in Place(e) : g[p] # x
  BY <1>6
<1>10. \A p \in Place(d) \ {x} : \E q \in Place(e) : g[q] = p
  <2> TAKE p \in Place(d) \ {x}
  <2>1. CASE p = <<i, next>>
    <3>1. x \in Place(e) /\ g[x] = p
      BY <1>5, <1>6, <2>1
    <3> QED BY <3>1
  <2>2. CASE p # <<i, next>>
    <3>1. p \in Place(e) /\ g[p] = p
      BY <1>5, <2>2
    <3> QED BY <3>1
  <2> QED BY <2>1, <2>2
<1>11. ASSUME NEW p \in Place(e)
       PROVE  At(e, p).name = At(d, g[p]).name /\ At(e, p).ino = At(d, g[p]).ino
  <2>1. p = <<p[1], p[2]>> /\ p[1] \in DOMAIN e /\ p[2] \in DOMAIN e[p[1]]
    BY PlaceIs
  <2>2. CASE p = x
    <3>1. g[p] = <<i, next>> /\ At(e, p) = B[o] /\ At(d, g[p]) = d[i][next]
      BY <1>3, <2>2 DEF At
    <3> QED BY <1>2, <3>1
  <2>3. CASE p # x
    <3>1. g[p] = p
      BY <2>3
    <3>2. p[1] # i \/ p[2] # o
      BY <2>1, <2>3
    <3>3. e[p[1]][p[2]] = d[p[1]][p[2]]
      BY <1>2, <1>3, <2>1, <3>2
    <3> QED BY <3>1, <3>3 DEF At
  <2> QED BY <2>2, <2>3
<1>12. \A p \in Place(e) : At(e, p).name = At(d, g[p]).name /\ At(e, p).ino = At(d, g[p]).ino
  BY <1>11
<1>13. At(d, x) = d[i][o] /\ Once(d, u) /\ Named(d, u)
  BY WellFormedIs DEF At
<1>14. Without(d, e, u, d[i][o].name)
  <2> HIDE DEF g, x
  <2> QED
    BY <1>6, <1>7, <1>8, <1>9, <1>10, <1>12, <1>13, ShrinkNames
<1>15. WellFormed(e, u)
  <2>1. \A j \in DOMAIN e : Zero(e[j]) \/ GoodBlock(e[j])
    BY <1>2, <1>3, WellFormedIs
  <2>2. Size(e) \in 0 .. NDirect /\ DOMAIN e = 0 .. Size(e) - 1
    BY <1>3, <1>4, WellFormedIs
  <2> QED
    BY <1>14, <2>1, <2>2, WellFormedIs DEF Without
<1> QED
  BY <1>14, <1>15

\* Removing the last entry of a block: the one before it takes its place.
LEMMA JoinDir ==
  ASSUME NEW d, NEW u, WellFormed(d, u), NEW i \in DOMAIN d, NEW o \in DOMAIN d[i],
         NEW e, DOMAIN e = DOMAIN d, e[i] = Join(d[i], o),
         \A j \in DOMAIN d : j # i => e[j] = d[j],
         d[i][o].name # NoName, ~(o + d[i][o].len < BlockWords), DOMAIN d[i] # {o}
  PROVE  WellFormed(e, u) /\ Without(d, e, u, d[i][o].name)
<1> DEFINE B == Join(d[i], o)
           x == <<i, o>>
           g == [p \in Place(e) |-> p]
<1>1. GoodBlock(d[i])
  BY WellFormedIs DEF Zero
<1>2. /\ GoodBlock(B)
      /\ DOMAIN B = DOMAIN d[i] \ {o}
      /\ \A q \in DOMAIN B : B[q].name = d[i][q].name /\ B[q].ino = d[i][q].ino
  BY <1>1, JoinGood
<1>3. DOMAIN e = DOMAIN d /\ e[i] = B /\ \A j \in DOMAIN d : j # i => e[j] = d[j]
  OBVIOUS
<1>4. Size(e) = Size(d)
  BY <1>3 DEF Size
<1> HIDE DEF B
<1>5. ASSUME NEW p
      PROVE  p \in Place(e) <=> p \in Place(d) /\ p # x
  <2>1. \A j \in DOMAIN d : \A q : q \in DOMAIN e[j] <=> q \in DOMAIN d[j] /\ ~(j = i /\ q = o)
    BY <1>2, <1>3
  <2>2. ASSUME p \in Place(e) PROVE p \in Place(d) /\ p # x
    <3>1. p = <<p[1], p[2]>> /\ p[1] \in DOMAIN e /\ p[2] \in DOMAIN e[p[1]]
      BY <2>2, PlaceIs
    <3>2. p[1] \in DOMAIN d /\ p[2] \in DOMAIN d[p[1]] /\ ~(p[1] = i /\ p[2] = o)
      BY <1>3, <2>1, <3>1
    <3> QED
      BY <3>1, <3>2, PlaceIs
  <2>3. ASSUME p \in Place(d), p # x PROVE p \in Place(e)
    <3>1. p = <<p[1], p[2]>> /\ p[1] \in DOMAIN d /\ p[2] \in DOMAIN d[p[1]]
      BY <2>3, PlaceIs
    <3>2. p[1] \in DOMAIN e /\ p[2] \in DOMAIN e[p[1]]
      BY <1>3, <2>1, <2>3, <3>1
    <3> QED
      BY <3>1, <3>2, PlaceIs
  <2> QED
    BY <2>2, <2>3
<1>6. x \in Place(d)
  BY PlaceIs
<1>7. /\ g \in [Place(e) -> Place(d)]
      /\ \A p, q \in Place(e) : g[p] = g[q] => p = q
      /\ \A p \in Place(e) : g[p] # x
  BY <1>5
<1>8. \A p \in Place(d) \ {x} : \E q \in Place(e) : g[q] = p
  <2> TAKE p \in Place(d) \ {x}
  <2>1. p \in Place(e) /\ g[p] = p
    BY <1>5
  <2> QED BY <2>1
<1>9. \A p \in Place(e) : At(e, p).name = At(d, g[p]).name /\ At(e, p).ino = At(d, g[p]).ino
  <2> TAKE p \in Place(e)
  <2>1. p = <<p[1], p[2]>> /\ p[1] \in DOMAIN e /\ p[2] \in DOMAIN e[p[1]]
    BY PlaceIs
  <2>2. e[p[1]][p[2]].name = d[p[1]][p[2]].name /\ e[p[1]][p[2]].ino = d[p[1]][p[2]].ino
    BY <1>2, <1>3, <2>1
  <2> QED BY <2>2 DEF At
<1>10. At(d, x) = d[i][o] /\ Once(d, u) /\ Named(d, u)
  BY WellFormedIs DEF At
<1>11. Without(d, e, u, d[i][o].name)
  <2> HIDE DEF g, x
  <2> QED
    BY <1>6, <1>7, <1>8, <1>9, <1>10, ShrinkNames
<1>12. WellFormed(e, u)
  <2>1. \A j \in DOMAIN e : Zero(e[j]) \/ GoodBlock(e[j])
    BY <1>2, <1>3, WellFormedIs
  <2>2. Size(e) \in 0 .. NDirect /\ DOMAIN e = 0 .. Size(e) - 1
    BY <1>3, <1>4, WellFormedIs
  <2> QED
    BY <1>11, <2>1, <2>2, WellFormedIs DEF Without
<1> QED
  BY <1>11, <1>12

\* Removing the only entry of a block: the blocks behind it move up by one.
LEMMA FreeDir ==
  ASSUME NEW d, NEW u, WellFormed(d, u), NEW i \in DOMAIN d, NEW o \in DOMAIN d[i],
         d[i][o].name # NoName, DOMAIN d[i] = {o}
  PROVE  LET e == ext2_free_block_index(d, i)
         IN WellFormed(e, u) /\ Without(d, e, u, d[i][o].name)
<1> DEFINE e == ext2_free_block_index(d, i)
           x == <<i, o>>
           from(j) == IF j < i THEN j ELSE j + 1
           g == [p \in Place(e) |-> <<from(p[1]), p[2]>>]
<1>1. Size(d) \in Nat /\ DOMAIN d = 0 .. Size(d) - 1 /\ i \in Nat /\ Size(d) - 1 \in Nat
      /\ Size(d) <= NDirect /\ NDirect \in Nat
  BY WellFormedIs, SizeAssumption
<1>2. DOMAIN e = 0 .. (Size(d) - 1) - 1
  BY <1>1 DEF ext2_free_block_index
<1>3. \A j \in DOMAIN e : j \in Nat /\ from(j) \in DOMAIN d /\ from(j) # i /\ e[j] = d[from(j)]
  BY <1>1, <1>2 DEF ext2_free_block_index
<1>4. \A j, k \in DOMAIN e : from(j) = from(k) => j = k
  BY <1>1, <1>3
<1>5. \A j \in DOMAIN d : j # i => \E k \in DOMAIN e : from(k) = j
  <2> TAKE j \in DOMAIN d
  <2> HAVE j # i
  <2>1. CASE j < i
    BY <1>1, <1>2, <2>1
  <2>2. CASE ~(j < i)
    <3>1. j - 1 \in DOMAIN e /\ from(j - 1) = j
      BY <1>1, <1>2, <2>2
    <3> QED BY <3>1
  <2> QED BY <2>1, <2>2
<1>6. Size(e) = Size(d) - 1
  <2> HIDE DEF e
  <2> QED BY <1>1, <1>2, SizeIs
<1> HIDE DEF e, from
<1>7. ASSUME NEW p \in Place(e)
      PROVE  /\ p = <<p[1], p[2]>> /\ p[1] \in DOMAIN e
             /\ from(p[1]) \in DOMAIN d /\ p[2] \in DOMAIN d[from(p[1])]
             /\ g[p] = <<from(p[1]), p[2]>> /\ g[p] \in Place(d) /\ g[p] # x
  <2>1. p = <<p[1], p[2]>> /\ p[1] \in DOMAIN e /\ p[2] \in DOMAIN e[p[1]]
    BY PlaceIs
  <2>2. from(p[1]) \in DOMAIN d /\ p[2] \in DOMAIN d[from(p[1])] /\ from(p[1]) # i
    BY <1>3, <2>1
  <2>3. <<from(p[1]), p[2]>> \in Place(d)
    BY <2>2, PlaceIs
  <2> QED
    BY <2>1, <2>2, <2>3
<1>8. g \in [Place(e) -> Place(d)]
  BY <1>7
<1>9. \A p, q \in Place(e) : g[p] = g[q] => p = q
  <2> TAKE p, q \in Place(e)
  <2> HAVE g[p] = g[q]
  <2>1. from(p[1]) = from(q[1]) /\ p[2] = q[2]
    BY <1>7
  <2> QED BY <1>4, <1>7, <2>1
<1>10. \A p \in Place(e) : g[p] # x
  BY <1>7
<1>11. \A p \in Place(d) \ {x} : \E q \in Place(e) : g[q] = p
  <2> TAKE p \in Place(d) \ {x}
  <2>1. p = <<p[1], p[2]>> /\ p[1] \in DOMAIN d /\ p[2] \in DOMAIN d[p[1]]
    BY PlaceIs
  <2>2. p[1] # i
    BY <2>1
  <2>3. PICK k \in DOMAIN e : from(k) = p[1]
    BY <1>5, <2>1, <2>2
  <2>4. p[2] \in DOMAIN e[k]
    BY <1>3, <2>1, <2>3
  <2>5. <<k, p[2]>> \in Place(e)
    BY <2>4, PlaceIs
  <2>6. g[<<k, p[2]>>] = p
    BY <2>1, <2>3, <2>5
  <2> QED BY <2>5, <2>6
<1>12. \A p \in Place(e) : At(e, p).name = At(d, g[p]).name /\ At(e, p).ino = At(d, g[p]).ino
  <2> TAKE p \in Place(e)
  <2>1. e[p[1]] = d[from(p[1])]
    BY <1>3, <1>7
  <2>2. At(e, p) = At(d, g[p])
    BY <1>7, <2>1 DEF At
  <2> QED BY <2>2
<1>13. x \in Place(d) /\ At(d, x) = d[i][o] /\ Once(d, u) /\ Named(d, u)
  BY PlaceIs, WellFormedIs DEF At
<1>14. Without(d, e, u, d[i][o].name)
  <2> HIDE DEF g, x
  <2> QED
    BY <1>8, <1>9, <1>10, <1>11, <1>12, <1>13, ShrinkNames
<1>15. WellFormed(e, u)
  <2>1. \A j \in DOMAIN e : Zero(e[j]) \/ GoodBlock(e[j])
    BY <1>3, WellFormedIs
  <2>2. Size(e) \in 0 .. NDirect /\ DOMAIN e = 0 .. Size(e) - 1
    BY <1>1, <1>2, <1>6
  <2> QED
    BY <1>14, <2>1, <2>2, WellFormedIs DEF Without
<1> QED
  BY <1>14, <1>15 DEF e

\* Whichever way an entry goes, its name is gone and nothing else.
LEMMA RemoveDir ==
  ASSUME NEW d, NEW u, WellFormed(d, u), NEW p \in Place(d), At(d, p).name # NoName
  PROVE  /\ WellFormed(Remove(d, p[1], p[2]), u)
         /\ Without(d, Remove(d, p[1], p[2]), u, At(d, p).name)
<1> DEFINE i == p[1]
           o == p[2]
<1>1. i \in DOMAIN d /\ o \in DOMAIN d[i] /\ At(d, p) = d[i][o] /\ d[i][o].name # NoName
  BY PlaceIs DEF At
<1> HIDE DEF i, o
<1> SUFFICES /\ WellFormed(Remove(d, i, o), u)
             /\ Without(d, Remove(d, i, o), u, d[i][o].name)
  BY <1>1 DEF i, o
<1>2. CASE o + d[i][o].len < BlockWords
  <2>1. /\ DOMAIN Remove(d, i, o) = DOMAIN d
        /\ Remove(d, i, o)[i] = Pull(d[i], o)
        /\ \A j \in DOMAIN d : j # i => Remove(d, i, o)[j] = d[j]
    BY <1>1, <1>2 DEF Remove
  <2> QED
    BY <1>1, <1>2, <2>1, PullDir
<1>3. CASE ~(o + d[i][o].len < BlockWords) /\ DOMAIN d[i] = {o}
  BY <1>1, <1>3, FreeDir DEF Remove
<1>4. CASE ~(o + d[i][o].len < BlockWords) /\ DOMAIN d[i] # {o}
  <2>1. /\ DOMAIN Remove(d, i, o) = DOMAIN d
        /\ Remove(d, i, o)[i] = Join(d[i], o)
        /\ \A j \in DOMAIN d : j # i => Remove(d, i, o)[j] = d[j]
    BY <1>1, <1>4 DEF Remove
  <2> QED
    BY <1>1, <1>4, <2>1, JoinDir
<1> QED
  BY <1>2, <1>3, <1>4
-----------------------------------------------------------------------------
(* The calls.                                                              *)

\* A directory is typed when it is well-formed.
LEMMA TypeIs ==
  ASSUME NEW d, NEW u, WellFormed(d, u)
  PROVE  Typed(d)
BY DEF WellFormed

\* The three outcomes of add that are not an endless walk or an abort.
LEMMA AddStep ==
  ASSUME IInv, NEW n \in Name, NEW ino \in Ino, ext2_dir_add_inode(n, ino)
  PROVE  IInv' /\ (Map!Insert(n, ino) \/ UNCHANGED <<bound, doubt>>)
<1>1. /\ WellFormed(dir, doubt) /\ Matches(dir, n) = {} /\ fd' = fd /\ doubt' = doubt
      /\ halt \in {"run", "abort", "assert", "spin", "garbage"} /\ doubt \subseteq Names
  BY DEF IInv, TypeOK, ext2_dir_add_inode
<1>2. halt' \in {"run", "abort", "assert", "spin", "garbage"}
  BY <1>1 DEF ext2_dir_add_inode
<1>3. SUFFICES \/ /\ WellFormed(dir', doubt) /\ Binds(dir') = Binds(dir) \cup {<<n, ino>>}
                  /\ \A b \in Binds(dir) : b[1] # n
               \/ dir' = dir
  <2>1. CASE dir' = dir
    BY <1>1, <1>2, <2>1 DEF IInv, TypeOK, WellFormed, bound
  <2>2. CASE /\ WellFormed(dir', doubt) /\ Binds(dir') = Binds(dir) \cup {<<n, ino>>}
             /\ \A b \in Binds(dir) : b[1] # n
    <3>1. PICK e : e = dir'
      OBVIOUS
    <3>2. Typed(e)
      BY <2>2, <3>1, TypeIs
    <3>3. IInv'
      BY <1>1, <1>2, <2>2, <3>1, <3>2 DEF IInv, TypeOK
    <3>4. CASE n \in doubt
      <4>1. Sure(e, doubt) = Sure(dir, doubt)
        BY <2>2, <3>1, <3>4 DEF Sure
      <4> QED
        BY <1>1, <3>1, <3>3, <4>1 DEF bound
    <3>5. CASE n \notin doubt
      <4>1. Sure(e, doubt) = Sure(dir, doubt) \cup {<<n, ino>>}
        BY <2>2, <3>1, <3>5 DEF Sure
      <4>2. \A b \in Sure(dir, doubt) : b[1] # n
        BY <2>2 DEF Sure
      <4> QED
        BY <1>1, <3>1, <3>3, <3>5, <4>1, <4>2 DEF Map!Insert, bound
    <3> QED
      BY <3>4, <3>5
  <2> QED
    BY <1>3, <2>1, <2>2
<1>4. CASE \E p \in Room(dir, n) : dir' = [dir EXCEPT ![p[1]] = Split(@, p[2], n, ino)]
  <2>1. PICK p \in Room(dir, n) : dir' = [dir EXCEPT ![p[1]] = Split(@, p[2], n, ino)]
    BY <1>4
  <2>2. p[1] \in DOMAIN dir
    BY <2>1, PlaceIs DEF Room, Passed
  <2>3. PICK e : e = dir'
    OBVIOUS
  <2>4. DOMAIN e = DOMAIN dir /\ e[p[1]] = Split(dir[p[1]], p[2], n, ino)
        /\ \A j \in DOMAIN dir : j # p[1] => e[j] = dir[j]
    BY <2>1, <2>2, <2>3
  <2>5. WellFormed(e, doubt) /\ Binds(e) = Binds(dir) \cup {<<n, ino>>}
        /\ \A b \in Binds(dir) : b[1] # n
    BY <1>1, <2>4, SplitDir
  <2> QED
    BY <2>3, <2>5
<1>5. CASE /\ Size(dir) < NDirect
           /\ dir' = AddBlock(dir, [o \in {0} |-> [name |-> n, ino |-> ino, len |-> BlockWords]])
  <2> DEFINE B == [o \in {0} |-> [name |-> n, ino |-> ino, len |-> BlockWords]]
  <2>1. PICK e : e = dir'
    OBVIOUS
  <2>2. e = AddBlock(dir, B) /\ DOMAIN B = {0}
        /\ B[0] = [name |-> n, ino |-> ino, len |-> BlockWords]
    BY <1>5, <2>1
  <2> HIDE DEF B
  <2>3. WellFormed(e, doubt) /\ Binds(e) = Binds(dir) \cup {<<n, ino>>}
        /\ \A b \in Binds(dir) : b[1] # n
    BY <1>1, <1>5, <2>2, AppendDir
  <2> QED
    BY <2>1, <2>3
<1> QED
  BY <1>4, <1>5 DEF ext2_dir_add_inode

\* A block that stays unwritten puts the names it holds in doubt.
LEMMA AddFailsStep ==
  ASSUME IInv, NEW n \in Name, NEW old \in Left, ext2_dir_add_inode_fails(n, old)
  PROVE  IInv' /\ (Map!Spoil(NamesOf(old)) \/ UNCHANGED <<bound, doubt>>)
<1>1. /\ WellFormed(dir, doubt) /\ Size(dir) < NDirect /\ fd' = fd
      /\ halt \in {"run", "abort", "assert", "spin", "garbage"} /\ doubt \subseteq Names
  BY DEF IInv, TypeOK, ext2_dir_add_inode_fails
<1>2. CASE dir' = AddBlock(dir, old) /\ doubt' = doubt \cup NamesOf(old) /\ halt' = halt
  <2>1. PICK e, v : e = dir' /\ v = doubt'
    OBVIOUS
  <2>2. /\ WellFormed(e, v)
        /\ Sure(e, v) = {b \in Sure(dir, doubt) : b[1] \notin NamesOf(old)}
    BY <1>1, <1>2, <2>1, OldDir
  <2>3. Typed(e)
    BY <2>2, TypeIs
  <2>4. v \subseteq Names
    BY <1>1, <1>2, <2>1, LeftAssumption DEF NamesOf, Entry
  <2>5. IInv'
    BY <1>1, <1>2, <2>1, <2>2, <2>3, <2>4 DEF IInv, TypeOK
  <2> QED
    BY <1>2, <2>1, <2>2, <2>5 DEF Map!Spoil, bound
<1>3. CASE halt' = "garbage" /\ dir' = dir /\ doubt' = doubt
  BY <1>1, <1>3 DEF IInv, TypeOK, WellFormed, bound
<1> QED
  BY <1>2, <1>3 DEF ext2_dir_add_inode_fails

\* The entry that remove finds by its name has the inode that was meant, if the
\* name is not in doubt.
LEMMA RemoveStep ==
  ASSUME IInv, NEW n \in Name, NEW ino \in Ino, Meant(n, ino), ext2_dir_remove_inode(n, ino)
  PROVE  /\ IInv' /\ (Map!Delete(n) \/ UNCHANGED <<bound, doubt>>)
         /\ halt' = "assert" => n \in doubt
<1> DEFINE named == {p \in Passed(dir) : At(dir, p).name = n}
<1>1. /\ WellFormed(dir, doubt) /\ Once(dir, doubt) /\ Named(dir, doubt)
      /\ n # NoName /\ ino # 0 /\ doubt' = doubt /\ doubt \subseteq Names /\ halt = "run"
  BY SizeAssumption DEF IInv, TypeOK, WellFormed, ext2_dir_remove_inode
<1>2. fd' \in [Handle -> [mode : {"closed", "listing", "ended", "astray"}, pos : Nat,
                          got : Seq(Names), kept : BOOLEAN, had : SUBSET Names]]
  <2>1. fd \in [Handle -> [mode : {"closed", "listing", "ended", "astray"}, pos : Nat,
                           got : Seq(Names), kept : BOOLEAN, had : SUBSET Names]]
    BY DEF IInv, TypeOK
  <2>2. << >> \in Seq(Names)
    OBVIOUS
  <2>3. \A h \in Handle :
          Disturbed(fd[h]) \in [mode : {"closed", "listing", "ended", "astray"}, pos : Nat,
                                got : Seq(Names), kept : BOOLEAN, had : SUBSET Names]
    BY <2>1, <2>2 DEF Disturbed
  <2> QED
    BY <2>3 DEF ext2_dir_remove_inode
<1>3. ASSUME NEW p \in named, n \notin doubt
      PROVE  At(dir, p).ino = ino /\ <<n, ino>> \in bound
  <2>1. p \in Place(dir) /\ At(dir, p).name = n
    BY <1>3 DEF Passed
  <2>2. At(dir, p).ino # 0
    BY <1>1, <1>3, <2>1 DEF Named, Ghosts
  <2>3. <<n, ino>> \in bound
    BY <1>3, <2>1, <2>2 DEF Meant, Matches
  <2>4. PICK q \in Place(dir) : At(dir, q).name = n /\ At(dir, q).ino = ino
    BY <2>3 DEF bound, Sure, Binds
  <2>5. p = q
    BY <1>1, <1>3, <2>1, <2>4 DEF Once
  <2> QED
    BY <2>3, <2>4, <2>5
<1>4. CASE \E p \in named : dir' = Remove(dir, p[1], p[2]) /\ halt' = halt
  <2>1. PICK p \in named : dir' = Remove(dir, p[1], p[2]) /\ halt' = halt
    BY <1>4
  <2>2. p \in Place(dir) /\ At(dir, p).name = n
    BY <2>1 DEF Passed
  <2>3. PICK e : e = dir'
    OBVIOUS
  <2>4. WellFormed(e, doubt) /\ Sure(e, doubt) = {b \in Sure(dir, doubt) : b[1] # n}
    BY <1>1, <2>1, <2>2, <2>3, RemoveDir DEF Without
  <2>5. Typed(e)
    BY <2>4, TypeIs
  <2>6. IInv'
    BY <1>1, <1>2, <2>1, <2>3, <2>4, <2>5 DEF IInv, TypeOK
  <2>7. CASE n \in doubt
    <3>1. Sure(e, doubt) = Sure(dir, doubt)
      BY <2>4, <2>7 DEF Sure
    <3> QED
      BY <1>1, <2>1, <2>3, <2>6, <3>1 DEF bound
  <2>8. CASE n \notin doubt
    <3>1. \E b \in bound : b[1] = n
      BY <1>3, <2>1, <2>8
    <3> QED
      BY <1>1, <2>1, <2>3, <2>4, <2>6, <3>1 DEF bound, Map!Delete
  <2> QED
    BY <2>7, <2>8
<1>5. CASE dir' = dir /\ halt' \in {"spin", "assert"} /\ (halt' = "assert" => n \in doubt)
  BY <1>1, <1>2, <1>5 DEF IInv, TypeOK, WellFormed, bound
<1> QED
  BY <1>3, <1>4, <1>5 DEF ext2_dir_remove_inode

\* A listing reads.
LEMMA ListStep ==
  ASSUME IInv, NEW h \in Handle, vfs_opendir(h) \/ ext2_vnode_readdir(h)
  PROVE  IInv' /\ dir' = dir /\ halt' = halt /\ doubt' = doubt
<1> DEFINE FD == [mode : {"closed", "listing", "ended", "astray"}, pos : Nat,
                  got : Seq(Names), kept : BOOLEAN, had : SUBSET Names]
<1>1. /\ fd \in [Handle -> FD] /\ Typed(dir) /\ WellFormed(dir, doubt)
      /\ halt \in {"run", "abort", "assert", "spin", "garbage"} /\ doubt \subseteq Names
  BY DEF IInv, TypeOK
<1>2. dir' = dir /\ halt' = halt /\ doubt' = doubt
  BY DEF vfs_opendir, ext2_vnode_readdir
<1>3. CASE vfs_opendir(h)
  <2>1. {b[1] : b \in Binds(dir)} \subseteq Names
    BY <1>1, PlaceIs DEF Binds, Typed, Entry, At
  <2>2. [Start EXCEPT !.had = {b[1] : b \in Binds(dir)}] \in FD
    <3>1. << >> \in Seq(Names)
      OBVIOUS
    <3> QED
      BY <2>1, <3>1 DEF Start
  <2>3. fd' \in [Handle -> FD]
    BY <1>1, <1>3, <2>2 DEF vfs_opendir
  <2> QED
    BY <1>1, <1>2, <2>3 DEF IInv, TypeOK, Typed
<1>4. CASE ext2_vnode_readdir(h)
  <2> DEFINE i == fd[h].pos \div BlockWords
             o == fd[h].pos % BlockWords
             next == IF i >= Size(dir) THEN [fd[h] EXCEPT !.mode = "ended"]
                     ELSE IF o \in DOMAIN dir[i] THEN Step(fd[h], dir[i][o])
                     ELSE IF Zero(dir[i]) THEN [fd[h] EXCEPT !.mode = "ended", !.pos = i \div 4]
                     ELSE [fd[h] EXCEPT !.mode = "astray"]
  <2>1. fd[h] \in FD /\ fd[h].pos \in Nat
    BY <1>1
  <2>2. i \in Nat /\ i \div 4 \in Nat
    <3>1. \A a \in Nat, b \in Nat \ {0} : a \div b \in Nat
      OBVIOUS
    <3> QED
      BY <2>1, <3>1, SizeAssumption
  <2>3. ASSUME i \in DOMAIN dir, o \in DOMAIN dir[i]
        PROVE  Step(fd[h], dir[i][o]) \in FD
    <3>1. dir[i][o].name \in Names /\ dir[i][o].len \in Nat
      BY <1>1, <2>3, SizeAssumption DEF Typed, Entry
    <3>2. Append(fd[h].got, dir[i][o].name) \in Seq(Names)
      BY <2>1, <3>1
    <3>3. Listed(fd[h], dir[i][o].name) \in FD
          /\ Listed(fd[h], dir[i][o].name).pos = fd[h].pos
      BY <2>1, <3>2 DEF Listed
    <3>4. fd[h].pos + dir[i][o].len \in Nat
      BY <2>1, <3>1
    <3> QED
      BY <3>3, <3>4 DEF Step
  <2>4. i >= Size(dir) \/ i \in DOMAIN dir
    BY <1>1, <2>2, SizeAssumption DEF Typed
  <2>5. [fd[h] EXCEPT !.mode = "ended"] \in FD /\ [fd[h] EXCEPT !.mode = "astray"] \in FD
        /\ [fd[h] EXCEPT !.mode = "ended", !.pos = i \div 4] \in FD
    BY <2>1, <2>2
  <2>6. fd' = [fd EXCEPT ![h] = next]
    BY <1>4 DEF ext2_vnode_readdir
  <2> HIDE DEF i, o, FD
  <2>7. next \in FD
    BY <2>3, <2>4, <2>5
  <2>8. fd' \in [Handle -> FD]
    <3> HIDE DEF next
    <3> QED BY <1>1, <2>6, <2>7
  <2> QED
    BY <1>1, <1>2, <2>8 DEF IInv, TypeOK, Typed, FD
<1> QED
  BY <1>2, <1>3, <1>4

\* Images are well-formed.
LEMMA InitInv == Init => IInv
<1> SUFFICES ASSUME Init PROVE IInv
  OBVIOUS
<1>1. WellFormed(dir, doubt) /\ halt = "run" /\ doubt = Ghosts(dir)
  BY ImageAssumption DEF Init
<1>2. [Start EXCEPT !.mode = "closed"] \in
        [mode : {"closed", "listing", "ended", "astray"}, pos : Nat,
         got : Seq(Names), kept : BOOLEAN, had : SUBSET Names]
  <2>1. << >> \in Seq(Names)
    OBVIOUS
  <2> QED
    BY <2>1 DEF Start
<1>3. Typed(dir)
  BY <1>1, TypeIs
<1>4. doubt \subseteq Names
  BY <1>1, <1>3, PlaceIs DEF Ghosts, At, Typed, Entry
<1> QED
  BY <1>1, <1>2, <1>3, <1>4 DEF Init, IInv, TypeOK

\* Every step keeps the invariant and, for the callers, is a step of the map or
\* none.
LEMMA NextInv ==
  ASSUME IInv, [Next]_vars
  PROVE  IInv' /\ [Map!Next]_<<bound, doubt>>
<1>1. ASSUME NEW n \in Name, NEW ino \in Ino, ext2_dir_add_inode(n, ino)
      PROVE  IInv' /\ [Map!Next]_<<bound, doubt>>
  <2>1. n \in Names
    BY DEF Names
  <2> QED
    BY <1>1, <2>1, AddStep DEF Map!Next
<1>2. ASSUME NEW n \in Name, NEW old \in Left, ext2_dir_add_inode_fails(n, old)
      PROVE  IInv' /\ [Map!Next]_<<bound, doubt>>
  BY <1>2, AddFailsStep DEF Map!Next
<1>3. ASSUME NEW n \in Name, NEW ino \in Ino, Meant(n, ino), ext2_dir_remove_inode(n, ino)
      PROVE  IInv' /\ [Map!Next]_<<bound, doubt>>
  <2>1. n \in Names
    BY DEF Names
  <2> QED
    BY <1>3, <2>1, RemoveStep DEF Map!Next
<1>4. ASSUME NEW h \in Handle, vfs_opendir(h) \/ ext2_vnode_readdir(h)
      PROVE  IInv' /\ [Map!Next]_<<bound, doubt>>
  BY <1>4, ListStep DEF bound
<1>5. CASE UNCHANGED vars
  BY <1>5 DEF vars, IInv, TypeOK, WellFormed, bound
<1> QED
  BY <1>1, <1>2, <1>3, <1>4, <1>5 DEF Next

\* The content of a directory stays well-formed.
THEOREM DirInvariant == Spec => []IInv
<1>1. IInv /\ [Next]_vars => IInv'
  BY NextInv
<1> QED
  BY InitInv, <1>1, PTL DEF Spec

\* Types, and at most NDirect blocks.
THEOREM DirTypeOK == Spec => []TypeOK
<1>1. IInv => TypeOK
  BY DEF IInv
<1> QED
  BY DirInvariant, <1>1, PTL

\* The lengths of a written block tile it.
THEOREM DirTiled == Spec => []Tiled
<1>1. IInv => Tiled
  BY DEF IInv, WellFormed, Written, Tiled
<1> QED
  BY DirInvariant, <1>1, PTL

\* No entry is shorter than its name.
THEOREM DirEntriesFit == Spec => []EntriesFit
<1>1. IInv => EntriesFit
  BY DEF IInv, WellFormed, Written, EntriesFit, Zero, FitBlock
<1> QED
  BY DirInvariant, <1>1, PTL

\* A name that is not in doubt has one entry.
THEOREM DirNameOnce == Spec => []NameOnce
<1>1. IInv => NameOnce
  BY DEF IInv, WellFormed, NameOnce
<1> QED
  BY DirInvariant, <1>1, PTL

\* The assertion of ext2_dir_remove_inode fails for no name but one in doubt.
THEOREM DirSanity == Spec => SanityHolds
<1>1. ASSUME IInv
      PROVE  halt' = "assert" =>
               \A n \in Name \ doubt, ino \in Ino :
                 ~ (Meant(n, ino) /\ ext2_dir_remove_inode(n, ino))
  BY <1>1, RemoveStep
<1> QED
  BY <1>1, DirInvariant, PTL DEF SanityHolds

\* find returns exactly what is bound.
THEOREM DirFinds == Spec => []FindsBound
<1>1. ASSUME IInv PROVE FindsBound
  <2> SUFFICES ASSUME NEW n \in Name \ doubt
               PROVE  ext2_vnode_find(dir, n) = {b[2] : b \in {c \in bound : c[1] = n}}
    BY DEF FindsBound
  <2>1. n # NoName /\ n \notin doubt /\ Once(dir, doubt)
    BY <1>1, SizeAssumption DEF IInv, WellFormed
  <2>2. \A p, q \in Matches(dir, n) : p = q
    BY <2>1 DEF Matches, Once
  <2>3. ext2_vnode_find(dir, n) = {At(dir, p).ino : p \in Matches(dir, n)}
    BY <2>2 DEF ext2_vnode_find, FirstOf
  <2>4. ASSUME NEW p \in Matches(dir, n)
        PROVE  At(dir, p).ino \in {b[2] : b \in {c \in bound : c[1] = n}}
    <3>1. <<At(dir, p).name, At(dir, p).ino>> \in bound /\ At(dir, p).name = n
      BY <2>1 DEF bound, Sure, Binds, Matches
    <3> QED BY <3>1
  <2>5. ASSUME NEW b \in bound, b[1] = n
        PROVE  b[2] \in {At(dir, p).ino : p \in Matches(dir, n)}
    <3>1. PICK p \in Place(dir) : b = <<At(dir, p).name, At(dir, p).ino>> /\ At(dir, p).ino # 0
      BY <2>5 DEF bound, Sure, Binds
    <3> QED BY <2>5, <3>1 DEF Matches
  <2> QED
    BY <2>3, <2>4, <2>5
<1> QED
  BY DirInvariant, <1>1, PTL

\* The blocks of a directory implement a map from names to inode numbers.
THEOREM DirRefines == Spec => MapSpec
<1>1. ASSUME Init PROVE Map!Init
  <2>1. PICK d \in Images : dir = d /\ doubt = Ghosts(d)
    BY <1>1 DEF Init
  <2> DEFINE g == [bound |-> Sure(d, Ghosts(d)), doubt |-> Ghosts(d)]
  <2>2. g \in {[bound |-> Sure(c, Ghosts(c)), doubt |-> Ghosts(c)] : c \in Images}
    OBVIOUS
  <2>3. bound = g.bound /\ doubt = g.doubt
    BY <2>1 DEF bound
  <2> QED
    BY <2>2, <2>3 DEF Map!Init
<1>2. IInv /\ [Next]_vars => [Map!Next]_<<bound, doubt>>
  BY NextInv
<1> QED
  BY <1>1, <1>2, DirInvariant, PTL DEF Spec, MapSpec, Map!Spec

\* And each call is the operation of the map that it is named for.
THEOREM DirCalls == Spec => CallsMapped
<1>1. ASSUME IInv
      PROVE  bound' # bound =>
               \A n \in Name :
                 /\ \A ino \in Ino :
                      /\ ext2_dir_add_inode(n, ino) => Map!Insert(n, ino)
                      /\ Meant(n, ino) /\ ext2_dir_remove_inode(n, ino) => Map!Delete(n)
                 /\ \A old \in Left :
                      ext2_dir_add_inode_fails(n, old) => Map!Spoil(NamesOf(old))
  <2> SUFFICES ASSUME bound' # bound, NEW n \in Name
               PROVE  /\ \A ino \in Ino :
                           /\ ext2_dir_add_inode(n, ino) => Map!Insert(n, ino)
                           /\ Meant(n, ino) /\ ext2_dir_remove_inode(n, ino) => Map!Delete(n)
                      /\ \A old \in Left :
                           ext2_dir_add_inode_fails(n, old) => Map!Spoil(NamesOf(old))
    OBVIOUS
  <2>1. ASSUME NEW ino \in Ino, ext2_dir_add_inode(n, ino) PROVE Map!Insert(n, ino)
    BY <1>1, <2>1, AddStep
  <2>2. ASSUME NEW ino \in Ino, Meant(n, ino), ext2_dir_remove_inode(n, ino)
        PROVE  Map!Delete(n)
    BY <1>1, <2>2, RemoveStep
  <2>3. ASSUME NEW old \in Left, ext2_dir_add_inode_fails(n, old)
        PROVE  Map!Spoil(NamesOf(old))
    BY <1>1, <2>3, AddFailsStep
  <2> QED
    BY <2>1, <2>2, <2>3
<1> QED
  BY <1>1, DirInvariant, PTL DEF CallsMapped
=============================================================================
