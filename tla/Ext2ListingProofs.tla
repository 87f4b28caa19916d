------------------------- MODULE Ext2ListingProofs -------------------------
(***************************************************************************)
(* Proofs about Ext2Dir: what a client concludes from reading a directory  *)
(* entry by entry.  A listing is exact, and unlink's test for an empty     *)
(* directory is.                                                           *)
(***************************************************************************)
EXTENDS Ext2DirProofs

-----------------------------------------------------------------------------
(* The shape of directories.                                               *)

\* Blocks are numbered from 0, and a written one has an entry at its start.
LEMMA BlocksAre ==
  ASSUME NEW d, NEW u, WellFormed(d, u)
  PROVE  /\ Size(d) \in Nat /\ DOMAIN d = 0 .. Size(d) - 1
         /\ \A i \in DOMAIN d : Zero(d[i]) \/ (GoodBlock(d[i]) /\ 0 \in DOMAIN d[i])
         /\ \A i \in DOMAIN d : DOMAIN d[i] \subseteq Offset
BY WellFormedIs, SizeAssumption DEF GoodBlock, TiledBlock, Zero

\* What add leaves keeps the dots and the blocks of zeros where they belong.
LEMMA GrownShape ==
  ASSUME NEW d, NEW e, NEW u, NEW v, u \subseteq v,
         WellFormed(d, u), WellFormed(e, v), Grown(d, e, v),
         Size(e) = Size(d) \/ ~Stuck(d), DotsFirst(d, u), ZeroLast(d)
  PROVE  DotsFirst(e, v) /\ ZeroLast(e)
<1>1. /\ Size(d) \in Nat /\ DOMAIN d = 0 .. Size(d) - 1
      /\ Size(e) \in Nat /\ DOMAIN e = 0 .. Size(e) - 1
      /\ Size(e) \in {Size(d), Size(d) + 1}
      /\ \A i \in DOMAIN d : i \in DOMAIN e /\ (Zero(e[i]) <=> Zero(d[i]))
  BY BlocksAre DEF Grown
<1>2. ZeroLast(e)
  <2> SUFFICES ASSUME NEW i \in DOMAIN e, NEW j \in DOMAIN e, Zero(e[i])
               PROVE  j <= i
    BY DEF ZeroLast
  <2>1. CASE i \in DOMAIN d
    <3>1. Zero(d[i]) /\ Stuck(d)
      BY <1>1, <2>1 DEF Stuck
    <3>2. j \in DOMAIN d
      BY <1>1, <3>1
    <3> QED
      BY <2>1, <3>1, <3>2 DEF ZeroLast
  <2>2. CASE i \notin DOMAIN d
    BY <1>1, <2>2
  <2> QED
    BY <2>1, <2>2
<1>3. 0 \in DOMAIN d /\ 0 \in DOMAIN d[0] /\ <<0, 0>> \in Place(d)
  BY PlaceIs DEF DotsFirst
<1>4. 0 \in DOMAIN e /\ 0 \in DOMAIN e[0] /\ e[0][0].name = d[0][0].name
  <2>1. <<0, 0>> \in Place(e) /\ At(e, <<0, 0>>).name = At(d, <<0, 0>>).name
    BY <1>3 DEF Grown
  <2> QED
    BY <2>1, PlaceIs DEF At
<1>5. ASSUME NEW i \in DOMAIN e, NEW o \in DOMAIN e[i]
      PROVE  (i = 0 => e[i][o].ino # 0) /\ (e[i][o].name \in Dots \ v => i = 0)
  <2>1. <<i, o>> \in Place(e) /\ At(e, <<i, o>>) = e[i][o] /\ <<i, o>>[1] = i
    BY PlaceIs DEF At
  <2>2. CASE <<i, o>> \in Place(d)
    <3>1. i \in DOMAIN d /\ o \in DOMAIN d[i] /\ At(d, <<i, o>>) = d[i][o]
      BY <2>2, PlaceIs DEF At
    <3>2. e[i][o].name = d[i][o].name /\ e[i][o].ino = d[i][o].ino
      BY <2>1, <2>2, <3>1 DEF Grown
    <3> QED
      BY <3>1, <3>2 DEF DotsFirst
  <2>3. CASE <<i, o>> \notin Place(d)
    <3>1. Size(d) # 0
      BY <1>1, <1>3
    <3>2. \/ e[i][o].name \in Name /\ e[i][o].ino # 0
          \/ i = Size(d) /\ e[i][o].name \in v
      BY <2>1, <2>3 DEF Grown
    <3> QED
      BY <3>1, <3>2, DotsAssumption
  <2> QED
    BY <2>2, <2>3
<1>6. DotsFirst(e, v)
  BY <1>3, <1>4, <1>5 DEF DotsFirst
<1> QED
  BY <1>2, <1>6

\* The same for the three ways in which an entry goes.
LEMMA RemoveShape ==
  ASSUME NEW d, NEW u, WellFormed(d, u), DotsFirst(d, u), ZeroLast(d),
         NEW i \in DOMAIN d, NEW o \in DOMAIN d[i], d[i][o].name \in Name
  PROVE  DotsFirst(Remove(d, i, o), u) /\ ZeroLast(Remove(d, i, o))
<1> DEFINE e == Remove(d, i, o)
<1>1. /\ Size(d) \in Nat /\ DOMAIN d = 0 .. Size(d) - 1 /\ i \in Nat
      /\ GoodBlock(d[i]) /\ o \in Nat
  BY BlocksAre DEF Zero, Offset
<1>2. ~(i = 0 /\ o = 0)
  BY DotsAssumption DEF DotsFirst
<1>3. /\ 0 \in DOMAIN d /\ 0 \in DOMAIN d[0]
      /\ d[0][0].name \in Dots
      /\ \A j \in DOMAIN d : \A q \in DOMAIN d[j] :
           (j = 0 => d[j][q].ino # 0) /\ (d[j][q].name \in Dots \ u => j = 0)
  BY DEF DotsFirst
<1>4. \A j, k \in DOMAIN d : Zero(d[j]) => k <= j
  BY DEF ZeroLast
<1>5. CASE o + d[i][o].len < BlockWords
  <2> DEFINE next == o + d[i][o].len
             B == Pull(d[i], o)
  <2>1. /\ DOMAIN e = DOMAIN d /\ e[i] = B
        /\ \A j \in DOMAIN d : j # i => e[j] = d[j]
    BY <1>5 DEF Remove
  <2>2. /\ next \in DOMAIN d[i] /\ next # o
        /\ DOMAIN B = DOMAIN d[i] \ {next}
        /\ B[o].name = d[i][next].name /\ B[o].ino = d[i][next].ino
        /\ \A q \in DOMAIN B : q # o => B[q] = d[i][q]
    BY <1>1, <1>5, PullGood
  <2>3. next # 0
    <3>1. d[i][o].len \in Nat \ {0}
      BY <1>1 DEF GoodBlock, Entry
    <3> QED
      BY <1>1, <3>1
  <2> HIDE DEF B, next, e
  <2>4. ZeroLast(e)
    <3>1. ~Zero(e[i])
      BY <2>1, <2>2 DEF Zero
    <3> QED
      BY <1>4, <2>1, <3>1 DEF ZeroLast
  <2>5. 0 \in DOMAIN e[0] /\ e[0][0].name \in Dots
    <3>1. CASE i = 0
      BY <1>2, <1>3, <2>1, <2>2, <2>3, <3>1
    <3>2. CASE i # 0
      BY <1>3, <2>1, <3>2
    <3> QED
      BY <3>1, <3>2
  <2>6. ASSUME NEW j \in DOMAIN e, NEW q \in DOMAIN e[j]
        PROVE  (j = 0 => e[j][q].ino # 0) /\ (e[j][q].name \in Dots \ u => j = 0)
    <3>1. CASE j # i
      BY <1>3, <2>1, <3>1
    <3>2. CASE j = i /\ q # o
      BY <1>3, <2>1, <2>2, <3>2
    <3>3. CASE j = i /\ q = o
      BY <1>3, <2>1, <2>2, <2>3, <3>3
    <3> QED
      BY <3>1, <3>2, <3>3
  <2>7. DotsFirst(e, u)
    BY <1>3, <2>1, <2>5, <2>6 DEF DotsFirst
  <2> QED
    BY <2>4, <2>7 DEF e
<1>6. CASE ~(o + d[i][o].len < BlockWords) /\ DOMAIN d[i] # {o}
  <2> DEFINE B == Join(d[i], o)
  <2>1. /\ DOMAIN e = DOMAIN d /\ e[i] = B
        /\ \A j \in DOMAIN d : j # i => e[j] = d[j]
    BY <1>6 DEF Remove
  <2>2. /\ DOMAIN B = DOMAIN d[i] \ {o} /\ DOMAIN B # {}
        /\ \A q \in DOMAIN B : B[q].name = d[i][q].name /\ B[q].ino = d[i][q].ino
    <3>1. /\ DOMAIN B = DOMAIN d[i] \ {o}
          /\ \A q \in DOMAIN B : B[q].name = d[i][q].name /\ B[q].ino = d[i][q].ino
      BY <1>1, <1>6, JoinGood
    <3>2. PICK q \in DOMAIN d[i] : q # o
      BY <1>6
    <3> QED
      BY <3>1, <3>2
  <2> HIDE DEF B, e
  <2>3. ZeroLast(e)
    <3>1. ~Zero(e[i])
      BY <2>1, <2>2 DEF Zero
    <3> QED
      BY <1>4, <2>1, <3>1 DEF ZeroLast
  <2>4. 0 \in DOMAIN e[0] /\ e[0][0].name \in Dots
    <3>1. CASE i = 0
      BY <1>2, <1>3, <2>1, <2>2, <3>1
    <3>2. CASE i # 0
      BY <1>3, <2>1, <3>2
    <3> QED
      BY <3>1, <3>2
  <2>5. ASSUME NEW j \in DOMAIN e, NEW q \in DOMAIN e[j]
        PROVE  (j = 0 => e[j][q].ino # 0) /\ (e[j][q].name \in Dots \ u => j = 0)
    <3>1. CASE j # i
      BY <1>3, <2>1, <3>1
    <3>2. CASE j = i
      BY <1>3, <2>1, <2>2, <3>2
    <3> QED
      BY <3>1, <3>2
  <2>6. DotsFirst(e, u)
    BY <1>3, <2>1, <2>4, <2>5 DEF DotsFirst
  <2> QED
    BY <2>3, <2>6 DEF e
<1>7. CASE ~(o + d[i][o].len < BlockWords) /\ DOMAIN d[i] = {o}
  <2> DEFINE from(j) == IF j < i THEN j ELSE j + 1
  <2>1. e = ext2_free_block_index(d, i)
    BY <1>7 DEF Remove
  <2>2. i # 0
    BY <1>2, <1>3, <1>7
  <2>3. /\ DOMAIN e = 0 .. Size(d) - 2
        /\ \A j \in DOMAIN e : /\ j \in Nat /\ from(j) \in DOMAIN d
                               /\ e[j] = d[from(j)] /\ (from(j) = 0 => j = 0)
    <3> HIDE DEF e
    <3> QED
      BY <1>1, <2>1, <2>2 DEF ext2_free_block_index
  <2>4. 0 \in DOMAIN e /\ e[0] = d[0]
    <3> HIDE DEF e
    <3> QED
      BY <1>1, <2>2, <2>3
  <2>5. \A j, k \in DOMAIN e : from(k) <= from(j) => k <= j
    BY <1>1, <2>3
  <2> HIDE DEF e, from
  <2>6. ZeroLast(e)
    BY <1>4, <2>3, <2>5 DEF ZeroLast
  <2>7. DotsFirst(e, u)
    BY <1>3, <2>3, <2>4 DEF DotsFirst
  <2> QED
    BY <2>6, <2>7 DEF e
<1> QED
  BY <1>5, <1>6, <1>7

-----------------------------------------------------------------------------
(* Cursors.                                                                *)

\* A cursor is in the block that its position divides to.
LEMMA Position ==
  ASSUME NEW p \in Nat
  PROVE  /\ p \div BlockWords \in Nat /\ p % BlockWords \in Offset
         /\ p = BlockWords * (p \div BlockWords) + (p % BlockWords)
         /\ BlockWords \in Nat \ {0}
<1>1. BlockWords \in Nat \ {0}
  BY SizeAssumption
<1>2. \A a \in Nat, b \in Nat \ {0} :
        a \div b \in Nat /\ a % b \in 0 .. b - 1 /\ a = b * (a \div b) + (a % b)
  BY SMT
<1> QED
  BY <1>1, <1>2 DEF Offset

\* And from block and offset the position follows.
LEMMA PositionOf ==
  ASSUME NEW i \in Nat, NEW o \in Offset, NEW p, p = BlockWords * i + o
  PROVE  p \in Nat /\ p \div BlockWords = i /\ p % BlockWords = o
<1>1. BlockWords \in Nat \ {0} /\ o \in 0 .. BlockWords - 1
  BY SizeAssumption DEF Offset
<1>2. p \in Nat
  BY <1>1
<1> DEFINE j == p \div BlockWords
           q == p % BlockWords
<1>3. j \in Nat /\ q \in 0 .. BlockWords - 1 /\ p = BlockWords * j + q
  BY <1>2, Position DEF Offset
<1> HIDE DEF j, q
<1>4. BlockWords * (i - j) = q - o
  BY <1>1, <1>3
<1>5. q - o < BlockWords /\ q - o > - BlockWords
  BY <1>1, <1>3
<1>6. i - j = 0
  <2>1. \A b \in Nat \ {0}, x \in Int : x >= 1 => b * x >= b
    BY SMT
  <2>2. \A b \in Nat \ {0}, x \in Int : x <= -1 => b * x <= - b
    BY SMT
  <2>3. i - j \in Int /\ BlockWords \in Nat \ {0}
    BY <1>1, <1>3
  <2>4. ~(i - j >= 1) /\ ~(i - j <= -1)
    BY <1>4, <1>5, <2>1, <2>2, <2>3
  <2> QED
    BY <2>3, <2>4
<1>7. i = j /\ o = q
  BY <1>1, <1>3, <1>6
<1> QED
  BY <1>2, <1>7 DEF j, q

\* The next place of a cursor that is at an entry: the next entry, or the start
\* of the next block.
LEMMA NextWhere ==
  ASSUME NEW f, f.pos \in Nat, NEW g, NEW l \in Nat \ {0}, g.pos = f.pos + l,
         Where(f)[2] + l <= BlockWords
  PROVE  Where(g) = IF Where(f)[2] + l = BlockWords THEN <<Where(f)[1] + 1, 0>>
                    ELSE <<Where(f)[1], Where(f)[2] + l>>
<1> DEFINE i == f.pos \div BlockWords
           o == f.pos % BlockWords
<1>1. /\ i \in Nat /\ o \in Offset /\ f.pos = BlockWords * i + o
      /\ BlockWords \in Nat \ {0}
  BY Position
<1>2. Where(f) = <<i, o>> /\ o + l <= BlockWords
  BY DEF Where
<1> HIDE DEF i, o
<1>3. CASE o + l = BlockWords
  <2>1. i + 1 \in Nat /\ 0 \in Offset
    BY <1>1 DEF Offset
  <2>2. g.pos = BlockWords * (i + 1) + 0
    BY <1>1, <1>3 DEF Offset
  <2>3. g.pos \div BlockWords = i + 1 /\ g.pos % BlockWords = 0
    BY <2>1, <2>2, PositionOf
  <2> QED
    BY <1>2, <1>3, <2>3 DEF Where
<1>4. CASE o + l # BlockWords
  <2>1. o + l \in Offset
    BY <1>1, <1>2, <1>4 DEF Offset
  <2>2. g.pos = BlockWords * i + (o + l)
    BY <1>1 DEF Offset
  <2>3. g.pos \div BlockWords = i /\ g.pos % BlockWords = o + l
    <3> DEFINE x == o + l
    <3>1. x \in Offset /\ g.pos = BlockWords * i + x /\ i \in Nat
      BY <1>1, <2>1, <2>2
    <3> HIDE DEF x
    <3>2. g.pos \div BlockWords = i /\ g.pos % BlockWords = x
      BY ONLY <3>1, PositionOf
    <3> QED
      BY <3>2 DEF x
  <2> QED
    BY <1>2, <1>4, <2>3 DEF Where
<1> QED
  BY <1>3, <1>4

\* What is the case for every listing: ListingExact, of one cursor.
Exact(f, u) ==
  f.kept =>
    /\ f.mode # "astray"
    /\ \A j, k \in DOMAIN f.got :
         f.got[j] = f.got[k] /\ f.got[j] \notin u \cup {NoName} => j = k
    /\ f.mode = "ended" => \A n \in f.had : \E k \in DOMAIN f.got : f.got[k] = n

LEMMA ExactIs == ListingExact <=> \A h \in Handle : Exact(fd[h], doubt)
<1>1. ASSUME NEW f
      PROVE  f.had \subseteq {f.got[k] : k \in DOMAIN f.got}
             <=> \A n \in f.had : \E k \in DOMAIN f.got : f.got[k] = n
  OBVIOUS
<1> QED
  BY <1>1 DEF ListingExact, Exact

\* A cursor during a listing, or one that need not know anything any more.
Sound(d, f, u) == Exact(f, u) /\ (f.mode = "listing" /\ f.kept => Tracks(d, f))

\* Adding a name disturbs no listing.
LEMMA GrownTracks ==
  ASSUME NEW d, NEW e, NEW u, NEW v, WellFormed(d, u), WellFormed(e, v), Grown(d, e, v),
         NEW f, Tracks(d, f)
  PROVE  Tracks(e, f)
<1> DEFINE w == Where(f)
<1>1. /\ Size(d) \in Nat /\ DOMAIN d = 0 .. Size(d) - 1
      /\ Size(e) \in Nat /\ DOMAIN e = 0 .. Size(e) - 1
      /\ Size(e) \in {Size(d), Size(d) + 1}
      /\ \A i \in DOMAIN d : i \in DOMAIN e /\ (Zero(e[i]) <=> Zero(d[i]))
      /\ \A p \in Place(d) : p \in Place(e) /\ At(e, p).name = At(d, p).name
  BY BlocksAre DEF Grown
<1>2. w \in Place(e) \cup {<<Size(e), 0>>} \cup {<<i, 0>> : i \in {j \in DOMAIN e : Zero(e[j])}}
  <2>1. w \in Place(d) \cup {<<Size(d), 0>>} \cup {<<i, 0>> : i \in {j \in DOMAIN d : Zero(d[j])}}
    BY DEF Tracks
  <2> HIDE DEF w
  <2>2. CASE w = <<Size(d), 0>>
    <3>1. CASE Size(e) = Size(d)
      BY <2>2, <3>1
    <3>2. CASE Size(e) = Size(d) + 1
      <4>1. Size(d) \in DOMAIN e
        BY <1>1, <3>2
      <4>2. Zero(e[Size(d)]) \/ 0 \in DOMAIN e[Size(d)]
        BY <4>1, BlocksAre
      <4> QED
        BY <2>2, <4>1, <4>2, PlaceIs
    <3> QED
      BY <1>1, <3>1, <3>2
  <2>3. CASE w \in Place(d)
    BY <1>1, <2>3
  <2>4. CASE \E i \in DOMAIN d : Zero(d[i]) /\ w = <<i, 0>>
    BY <1>1, <2>4
  <2> QED
    BY <2>1, <2>2, <2>3, <2>4
<1>3. \A p \in Place(d) : p \in Behind(e, f) <=> p \in Behind(d, f)
  BY <1>1 DEF Behind
<1>4. Behind(d, f) \subseteq Place(d)
  BY DEF Behind
<1>5. ASSUME NEW k \in DOMAIN f.got, f.got[k] # NoName
      PROVE  \E p \in Behind(e, f) : At(e, p).name = f.got[k]
  BY <1>1, <1>3, <1>4, <1>5 DEF Tracks
<1>6. ASSUME NEW n \in f.had
      PROVE  \/ \E k \in DOMAIN f.got : f.got[k] = n
             \/ \E p \in Place(e) \ Behind(e, f) : At(e, p).name = n
  BY <1>1, <1>3, <1>6 DEF Tracks
<1> QED
  BY <1>2, <1>5, <1>6 DEF Tracks

\* Opening a directory starts a listing in front of all its entries.
LEMMA OpenSound ==
  ASSUME NEW d, NEW u, WellFormed(d, u)
  PROVE  Sound(d, [Start EXCEPT !.had = {b[1] : b \in Binds(d)}], u)
<1> DEFINE f == [Start EXCEPT !.had = {b[1] : b \in Binds(d)}]
<1>1. /\ f.mode = "listing" /\ f.pos = 0 /\ f.got = << >> /\ f.kept
      /\ f.had = {b[1] : b \in Binds(d)}
  BY DEF Start
<1> HIDE DEF f
<1>2. /\ Size(d) \in Nat /\ DOMAIN d = 0 .. Size(d) - 1
      /\ \A i \in DOMAIN d : Zero(d[i]) \/ 0 \in DOMAIN d[i]
      /\ \A i \in DOMAIN d : DOMAIN d[i] \subseteq Offset
  BY BlocksAre
<1>3. Where(f) = <<0, 0>>
  <2>1. 0 \in Nat /\ 0 \in Offset /\ 0 = BlockWords * 0 + 0
    BY SizeAssumption DEF Offset
  <2>2. 0 \div BlockWords = 0 /\ 0 % BlockWords = 0
    BY ONLY <2>1, PositionOf
  <2> QED
    BY <1>1, <2>2 DEF Where
<1>4. Behind(d, f) = {}
  <2>1. ASSUME NEW p \in Place(d) PROVE ~Before(p, <<0, 0>>)
    <3>1. p[1] \in Nat /\ p[2] \in Nat
      BY <1>2, PlaceIs DEF Offset
    <3> QED
      BY <3>1 DEF Before
  <2> QED
    BY <1>3, <2>1 DEF Behind
<1>5. Where(f) \in Place(d) \cup {<<Size(d), 0>>}
                   \cup {<<i, 0>> : i \in {j \in DOMAIN d : Zero(d[j])}}
  <2>1. CASE Size(d) = 0
    BY <1>3, <2>1
  <2>2. CASE Size(d) # 0
    <3>1. 0 \in DOMAIN d
      BY <1>2, <2>2
    <3> QED
      BY <1>2, <1>3, <3>1, PlaceIs
  <2> QED
    BY <2>1, <2>2
<1>6. ASSUME NEW n \in f.had
      PROVE  \E p \in Place(d) \ Behind(d, f) : At(d, p).name = n
  BY <1>1, <1>4, <1>6 DEF Binds
<1>7. DOMAIN f.got = {}
  BY <1>1
<1>8. Tracks(d, f)
  BY <1>5, <1>6, <1>7 DEF Tracks
<1>9. Exact(f, u)
  BY <1>1, <1>7 DEF Exact
<1> QED
  BY <1>8, <1>9 DEF Sound, f

\* An entry of a well-formed directory and what follows it.
LEMMA EntryAt ==
  ASSUME NEW d, NEW u, WellFormed(d, u), NEW i \in DOMAIN d, NEW o \in DOMAIN d[i]
  PROVE  /\ i \in Nat /\ o \in Offset /\ d[i][o] \in Entry
         /\ d[i][o].len \in Nat \ {0} /\ o + d[i][o].len <= BlockWords
         /\ o + d[i][o].len = BlockWords \/ o + d[i][o].len \in DOMAIN d[i]
         /\ \A q \in DOMAIN d[i] : q \in Nat /\ q < BlockWords
                                   /\ (q <= o \/ o + d[i][o].len <= q)
         /\ BlockWords \in Nat
<1>1. GoodBlock(d[i]) /\ i \in Nat /\ BlockWords \in Nat
  BY BlocksAre, SizeAssumption DEF Zero
<1>2. /\ o \in Offset /\ d[i][o] \in Entry
      /\ o + d[i][o].len = BlockWords \/ o + d[i][o].len \in DOMAIN d[i]
      /\ \A q \in DOMAIN d[i] : q \in Offset /\ (q <= o \/ o + d[i][o].len <= q)
  BY <1>1 DEF GoodBlock, TiledBlock
<1>3. d[i][o].len \in Nat \ {0}
  BY <1>1, <1>2 DEF Entry
<1> QED
  BY <1>1, <1>2, <1>3 DEF Offset

\* Where the cursor goes from an entry, and that this entry alone is what it has
\* then passed in addition.
LEMMA StepMoves ==
  ASSUME NEW d, NEW u, WellFormed(d, u), NEW f, f.pos \in Nat, NEW g,
         Where(f)[1] \in DOMAIN d, Where(f)[2] \in DOMAIN d[Where(f)[1]],
         g.pos = f.pos + d[Where(f)[1]][Where(f)[2]].len
  PROVE  /\ Where(f) \in Place(d)
         /\ Where(g) \in Place(d) \cup {<<Size(d), 0>>}
                           \cup {<<i, 0>> : i \in {j \in DOMAIN d : Zero(d[j])}}
         /\ Behind(d, g) = Behind(d, f) \cup {Where(f)}
         /\ Where(f) \notin Behind(d, f)
<1> DEFINE i == f.pos \div BlockWords
           o == f.pos % BlockWords
<1>1. Where(f) = <<i, o>> /\ Where(f)[1] = i /\ Where(f)[2] = o
  BY DEF Where
<1> HIDE DEF i, o
<1> DEFINE l == d[i][o].len
<1>2. i \in DOMAIN d /\ o \in DOMAIN d[i] /\ <<i, o>> \in Place(d) /\ g.pos = f.pos + l
  BY <1>1, PlaceIs
<1>3. /\ i \in Nat /\ o \in Nat /\ l \in Nat \ {0} /\ o + l <= BlockWords
      /\ o + l = BlockWords \/ o + l \in DOMAIN d[i]
      /\ \A q \in DOMAIN d[i] : q \in Nat /\ q < BlockWords /\ (q <= o \/ o + l <= q)
      /\ BlockWords \in Nat
  BY <1>2, EntryAt DEF Offset
<1> HIDE DEF l
<1>4. Where(g) = IF o + l = BlockWords THEN <<i + 1, 0>> ELSE <<i, o + l>>
  BY <1>1, <1>2, <1>3, NextWhere
<1>5. /\ Size(d) \in Nat /\ DOMAIN d = 0 .. Size(d) - 1
      /\ \A j \in DOMAIN d : Zero(d[j]) \/ 0 \in DOMAIN d[j]
      /\ \A j \in DOMAIN d : DOMAIN d[j] \subseteq Offset
  BY BlocksAre
<1>6. Where(g) \in Place(d) \cup {<<Size(d), 0>>}
                   \cup {<<j, 0>> : j \in {k \in DOMAIN d : Zero(d[k])}}
  <2>1. CASE o + l # BlockWords
    BY <1>2, <1>3, <1>4, <2>1, PlaceIs
  <2>2. CASE o + l = BlockWords
    <3>1. i + 1 = Size(d) \/ i + 1 \in DOMAIN d
      BY <1>2, <1>5
    <3>2. CASE i + 1 = Size(d)
      BY <1>4, <2>2, <3>2
    <3>3. CASE i + 1 \in DOMAIN d
      BY <1>4, <1>5, <2>2, <3>3, PlaceIs
    <3> QED
      BY <3>1, <3>2, <3>3
  <2> QED
    BY <2>1, <2>2
<1>7. ASSUME NEW p \in Place(d)
      PROVE  Before(p, Where(g)) <=> Before(p, <<i, o>>) \/ p = <<i, o>>
  <2>1. /\ p = <<p[1], p[2]>> /\ p[1] \in DOMAIN d /\ p[2] \in DOMAIN d[p[1]]
        /\ p[1] \in Nat /\ p[2] \in Nat
    BY <1>5, PlaceIs DEF Offset
  <2>2. p[1] = i => p[2] < BlockWords /\ (p[2] <= o \/ o + l <= p[2])
    BY <1>3, <2>1
  <2>3. p = <<i, o>> <=> p[1] = i /\ p[2] = o
    BY <2>1
  <2>4. Before(p, <<i, o>>) <=> p[1] < i \/ (p[1] = i /\ p[2] < o)
    BY DEF Before
  <2>5. CASE o + l = BlockWords
    <3>1. Before(p, Where(g)) <=> p[1] < i + 1 \/ (p[1] = i + 1 /\ p[2] < 0)
      BY <1>4, <2>5 DEF Before
    <3> QED
      BY <1>3, <2>1, <2>2, <2>3, <2>4, <2>5, <3>1
  <2>6. CASE o + l # BlockWords
    <3>1. Before(p, Where(g)) <=> p[1] < i \/ (p[1] = i /\ p[2] < o + l)
      BY <1>4, <2>6 DEF Before
    <3> QED
      BY <1>3, <2>1, <2>2, <2>3, <2>4, <3>1
  <2> QED
    BY <2>5, <2>6
<1>8. Behind(d, g) = Behind(d, f) \cup {<<i, o>>}
  BY <1>1, <1>2, <1>7 DEF Behind
<1>9. <<i, o>> \notin Behind(d, f)
  BY <1>1, <1>3 DEF Behind, Before
<1> QED
  BY <1>1, <1>2, <1>6, <1>8, <1>9

\* Reading an entry: its name is new to the listing, or has none.
LEMMA StepSound ==
  ASSUME NEW d, NEW u, WellFormed(d, u), NEW f, f.pos \in Nat, f.got \in Seq(Names), f.kept,
         f.mode = "listing", Exact(f, u), Tracks(d, f),
         Where(f)[1] \in DOMAIN d, Where(f)[2] \in DOMAIN d[Where(f)[1]],
         NEW e, e = d[Where(f)[1]][Where(f)[2]],
         NEW g, g.pos = f.pos + e.len, g.got = Append(f.got, e.name),
         g.mode = f.mode, g.had = f.had
  PROVE  Sound(d, g, u)
<1> DEFINE w == Where(f)
<1>1. /\ w \in Place(d) /\ At(d, w) = e /\ w \notin Behind(d, f)
      /\ Behind(d, g) = Behind(d, f) \cup {w}
      /\ Where(g) \in Place(d) \cup {<<Size(d), 0>>}
                        \cup {<<i, 0>> : i \in {j \in DOMAIN d : Zero(d[j])}}
  BY StepMoves DEF At
<1> HIDE DEF w
<1>2. e.name \in Names
  <2>1. w[1] \in DOMAIN d /\ w[2] \in DOMAIN d[w[1]]
    BY <1>1, PlaceIs
  <2>2. d[w[1]][w[2]] \in Entry
    BY <2>1, EntryAt
  <2> QED
    BY <1>1, <2>2 DEF At, Entry
<1>3. /\ DOMAIN f.got = 1 .. Len(f.got) /\ Len(f.got) \in Nat
      /\ DOMAIN g.got = 1 .. Len(f.got) + 1
      /\ \A k \in DOMAIN f.got : g.got[k] = f.got[k]
      /\ g.got[Len(f.got) + 1] = e.name
  BY <1>2
<1>4. ASSUME NEW k \in DOMAIN g.got
      PROVE  k \in DOMAIN f.got \/ k = Len(f.got) + 1
  BY <1>3
<1>5. \A p, q \in Place(d) :
        At(d, p).name = At(d, q).name /\ At(d, p).name \notin u \cup {NoName} => p = q
  BY DEF WellFormed, Once
<1>6. ASSUME NEW k \in DOMAIN f.got, f.got[k] \notin u \cup {NoName}
      PROVE  f.got[k] # e.name
  <2>1. PICK p \in Behind(d, f) : At(d, p).name = f.got[k]
    BY <1>6 DEF Tracks
  <2>2. p \in Place(d) /\ p # w
    BY <1>1, <2>1 DEF Behind
  <2> QED
    BY <1>1, <1>5, <1>6, <2>1, <2>2
<1>7. \A j, k \in DOMAIN f.got :
        f.got[j] = f.got[k] /\ f.got[j] \notin u \cup {NoName} => j = k
  BY DEF Exact
<1>8. Exact(g, u)
  <2>1. ASSUME NEW j \in DOMAIN g.got, NEW k \in DOMAIN g.got,
               g.got[j] = g.got[k], g.got[j] \notin u \cup {NoName}
        PROVE  j = k
    BY <1>3, <1>4, <1>6, <1>7, <2>1
  <2> QED
    BY <2>1 DEF Exact
<1>9. ASSUME NEW k \in DOMAIN g.got, g.got[k] # NoName
      PROVE  \E p \in Behind(d, g) : At(d, p).name = g.got[k]
  <2>1. CASE k \in DOMAIN f.got
    BY <1>1, <1>3, <1>9, <2>1 DEF Tracks
  <2>2. CASE k = Len(f.got) + 1
    BY <1>1, <1>3, <2>2
  <2> QED
    BY <1>4, <2>1, <2>2
<1>10. ASSUME NEW n \in g.had
       PROVE  \/ \E k \in DOMAIN g.got : g.got[k] = n
              \/ \E p \in Place(d) \ Behind(d, g) : At(d, p).name = n
  <2>1. CASE \E k \in DOMAIN f.got : f.got[k] = n
    <3>1. PICK k \in DOMAIN f.got : f.got[k] = n
      BY <2>1
    <3>2. k \in DOMAIN g.got /\ g.got[k] = n
      BY <1>3, <3>1
    <3> QED
      BY <3>2
  <2>2. CASE \E p \in Place(d) \ Behind(d, f) : At(d, p).name = n
    <3>1. PICK p \in Place(d) \ Behind(d, f) : At(d, p).name = n
      BY <2>2
    <3>2. CASE p = w
      <4>1. Len(f.got) + 1 \in DOMAIN g.got /\ g.got[Len(f.got) + 1] = n
        BY <1>1, <1>3, <3>1, <3>2
      <4> QED
        BY <4>1
    <3>3. CASE p # w
      BY <1>1, <3>1, <3>3
    <3> QED
      BY <3>2, <3>3
  <2> QED
    BY <1>10, <2>1, <2>2 DEF Tracks
<1>11. Tracks(d, g)
  BY <1>1, <1>9, <1>10 DEF Tracks
<1> QED
  BY <1>8, <1>11 DEF Sound

\* The end of a listing: nothing is ahead of the cursor.
LEMMA EndSound ==
  ASSUME NEW d, NEW u, WellFormed(d, u), ZeroLast(d), NEW f, Exact(f, u), Tracks(d, f), f.kept,
         f.pos \in Nat,
         Where(f)[1] \notin DOMAIN d \/ Zero(d[Where(f)[1]]),
         NEW g, g.mode = "ended", g.got = f.got, g.had = f.had
  PROVE  Sound(d, g, u)
<1> DEFINE i == Where(f)[1]
<1>1. /\ i \in Nat /\ Size(d) \in Nat /\ DOMAIN d = 0 .. Size(d) - 1
  BY Position, BlocksAre DEF Where
<1>2. i \notin DOMAIN d \/ Zero(d[i])
  OBVIOUS
<1> HIDE DEF i
<1>3. ASSUME NEW p \in Place(d) PROVE p[1] < i
  <2>1. p[1] \in DOMAIN d /\ p[1] \in Nat /\ ~Zero(d[p[1]])
    BY <1>1, PlaceIs DEF Zero
  <2>2. CASE i \notin DOMAIN d
    BY <1>1, <2>1, <2>2
  <2>3. CASE i \in DOMAIN d
    <3>1. Zero(d[i]) /\ p[1] <= i /\ p[1] # i
      BY <1>2, <2>1, <2>3 DEF ZeroLast
    <3> QED
      BY <1>1, <2>1, <3>1
  <2> QED
    BY <2>2, <2>3
<1>4. \A p \in Place(d) : p \in Behind(d, f)
  BY <1>3 DEF Behind, Before, i
<1>5. \A n \in f.had : \E k \in DOMAIN f.got : f.got[k] = n
  BY <1>4 DEF Tracks
<1>6. Exact(g, u)
  BY <1>5 DEF Exact
<1> QED
  BY <1>6 DEF Sound

\* readdir, by one of the four ways it takes; the last, a cursor at no entry,
\* is not taken by a listing during which nothing was removed.
LEMMA ReadSound ==
  ASSUME ListingInv, NEW h \in Handle, ext2_vnode_readdir(h)
  PROVE  Sound(dir, fd'[h], doubt)
<1> DEFINE f == fd[h]
           i == f.pos \div BlockWords
           o == f.pos % BlockWords
           g == fd'[h]
<1>1. /\ WellFormed(dir, doubt) /\ ZeroLast(dir) /\ Exact(f, doubt) /\ f.mode = "listing"
      /\ f.kept => Tracks(dir, f)
  BY ExactIs DEF ListingInv, IInv, ext2_vnode_readdir
<1>2. /\ f \in [mode : {"closed", "listing", "ended", "astray"}, pos : Nat,
                got : Seq(Names), kept : BOOLEAN, had : SUBSET Names]
      /\ f.pos \in Nat /\ f.got \in Seq(Names)
      /\ fd' = [fd EXCEPT ![h] = g]
      /\ g = IF i >= Size(dir) THEN [f EXCEPT !.mode = "ended"]
             ELSE IF o \in DOMAIN dir[i] THEN Step(f, dir[i][o])
             ELSE IF Zero(dir[i]) THEN [f EXCEPT !.mode = "ended", !.pos = i \div 4]
             ELSE [f EXCEPT !.mode = "astray"]
  BY DEF ListingInv, IInv, TypeOK, ext2_vnode_readdir
<1>3. /\ Size(dir) \in Nat /\ DOMAIN dir = 0 .. Size(dir) - 1
      /\ i \in Nat /\ Where(f) = <<i, o>> /\ Where(f)[1] = i /\ Where(f)[2] = o
  BY <1>1, <1>2, BlocksAre, Position DEF Where
<1> HIDE DEF f, i, o, g
<1>4. CASE ~f.kept
  <2>1. ASSUME o \in DOMAIN dir[i], g = Step(f, dir[i][o])
        PROVE  g.kept = f.kept
    BY <1>2, <1>4, <2>1 DEF Step, Listed
  <2>2. g.kept = f.kept
    BY <1>2, <2>1
  <2> QED
    BY <1>4, <2>2 DEF Sound, Exact, g
<1>5. CASE f.kept /\ i >= Size(dir)
  <2>1. g.mode = "ended" /\ g.got = f.got /\ g.had = f.had
    BY <1>2, <1>5
  <2>2. i \notin DOMAIN dir
    BY <1>3, <1>5
  <2>3. Sound(dir, g, doubt)
    BY <1>1, <1>2, <1>3, <1>5, <2>1, <2>2, EndSound
  <2> QED
    BY <2>3 DEF g
<1>6. CASE f.kept /\ i < Size(dir) /\ o \in DOMAIN dir[i]
  <2>1. i \in DOMAIN dir /\ ~(i >= Size(dir))
    BY <1>3, <1>6
  <2> DEFINE e == dir[i][o]
  <2>2. e.name \in Names /\ e.len \in Nat
    BY <1>1, <1>6, <2>1, EntryAt DEF Entry
  <2>3. g = Step(f, e)
    BY <1>2, <1>6, <2>1
  <2> HIDE DEF e
  <2>4. /\ g.pos = f.pos + e.len /\ g.got = Append(f.got, e.name)
        /\ g.mode = f.mode /\ g.had = f.had
    <3>1. Append(f.got, e.name) \in Seq(Names)
      BY <1>2, <2>2
    <3> DEFINE l == [f EXCEPT !.got = Append(@, e.name)]
    <3>2. /\ l \in [mode : {"closed", "listing", "ended", "astray"}, pos : Nat,
                    got : Seq(Names), kept : BOOLEAN, had : SUBSET Names]
          /\ l.pos = f.pos /\ l.got = Append(f.got, e.name)
          /\ l.mode = f.mode /\ l.had = f.had
      BY <1>2, <3>1
    <3>3. g = [l EXCEPT !.pos = @ + e.len]
      BY <1>6, <2>3 DEF Step, Listed
    <3> HIDE DEF l
    <3> QED
      BY <3>2, <3>3
  <2>5. e = dir[Where(f)[1]][Where(f)[2]]
    BY <1>3 DEF e
  <2>6. Sound(dir, g, doubt)
    BY <1>1, <1>2, <1>3, <1>6, <2>1, <2>4, <2>5, StepSound
  <2> QED
    BY <2>6 DEF g
<1>7. CASE f.kept /\ i < Size(dir) /\ o \notin DOMAIN dir[i]
  <2>1. i \in DOMAIN dir /\ ~(i >= Size(dir))
    BY <1>3, <1>7
  <2>2. Zero(dir[i])
    <3>1. <<i, o>> \in Place(dir) \cup {<<Size(dir), 0>>}
                        \cup {<<j, 0>> : j \in {k \in DOMAIN dir : Zero(dir[k])}}
      BY <1>1, <1>3, <1>7 DEF Tracks
    <3>2. <<i, o>> \notin Place(dir)
      BY <1>7, PlaceIs
    <3> QED
      BY <1>3, <1>7, <3>1, <3>2
  <2>3. g.mode = "ended" /\ g.got = f.got /\ g.had = f.had
    BY <1>2, <1>7, <2>1, <2>2
  <2>4. Sound(dir, g, doubt)
    BY <1>1, <1>2, <1>3, <1>7, <2>2, <2>3, EndSound
  <2> QED
    BY <2>4 DEF g
<1> QED
  BY <1>3, <1>4, <1>5, <1>6, <1>7

-----------------------------------------------------------------------------
(* The calls.                                                              *)

\* The invariant, with its two parts about handles as one.
LEMMA ListingIs ==
  ListingInv <=> /\ IInv /\ DotsFirst(dir, doubt) /\ ZeroLast(dir)
                 /\ \A h \in Handle : Sound(dir, fd[h], doubt)
BY ExactIs DEF ListingInv, Sound

\* The same of the next state.
LEMMA ListingNext ==
  ListingInv' <=> /\ IInv' /\ DotsFirst(dir', doubt') /\ ZeroLast(dir')
                  /\ \A h \in Handle : Sound(dir', fd'[h], doubt')
<1>1. ListingExact' <=> \A h \in Handle : Exact(fd'[h], doubt')
  <2>1. ASSUME NEW f
        PROVE  f.had \subseteq {f.got[k] : k \in DOMAIN f.got}
               <=> \A n \in f.had : \E k \in DOMAIN f.got : f.got[k] = n
    OBVIOUS
  <2> QED
    BY <2>1 DEF ListingExact, Exact
<1> QED
  BY <1>1 DEF ListingInv, Sound

\* What add makes of the directory, in each of its ways.
LEMMA AddGrows ==
  ASSUME IInv, NEW n \in Name,
         \/ \E ino \in Ino : ext2_dir_add_inode(n, ino)
         \/ \E old \in Left : ext2_dir_add_inode_fails(n, old)
  PROVE  /\ dir' = dir \/ (Grown(dir, dir', doubt') /\ (Size(dir') = Size(dir) \/ ~Stuck(dir)))
         /\ fd' = fd /\ doubt \subseteq doubt'
<1>1. WellFormed(dir, doubt) /\ fd' = fd /\ Matches(dir, n) = {} /\ doubt \subseteq doubt'
  BY DEF IInv, ext2_dir_add_inode, ext2_dir_add_inode_fails
<1>2. ASSUME NEW old \in Left, ext2_dir_add_inode_fails(n, old), dir' # dir
      PROVE  Grown(dir, dir', doubt') /\ (Size(dir') = Size(dir) \/ ~Stuck(dir))
  <2>1. /\ ~Stuck(dir) /\ Size(dir) < NDirect
        /\ dir' = AddBlock(dir, old) /\ doubt' = doubt \cup NamesOf(old)
    BY <1>2 DEF ext2_dir_add_inode_fails
  <2>2. PICK e, v : e = dir' /\ v = doubt'
    OBVIOUS
  <2>3. Grown(dir, e, v)
    BY <1>1, <2>1, <2>2, OldDir
  <2> QED
    BY <2>1, <2>2, <2>3
<1>3. ASSUME NEW ino \in Ino, ext2_dir_add_inode(n, ino), dir' # dir
      PROVE  Grown(dir, dir', doubt') /\ (Size(dir') = Size(dir) \/ ~Stuck(dir))
  <2>0. doubt' = doubt
    BY <1>3 DEF ext2_dir_add_inode
  <2>1. CASE \E p \in Room(dir, n) : dir' = [dir EXCEPT ![p[1]] = Split(@, p[2], n, ino)]
    <3>1. PICK p \in Room(dir, n) : dir' = [dir EXCEPT ![p[1]] = Split(@, p[2], n, ino)]
      BY <2>1
    <3>2. PICK e : e = dir'
      OBVIOUS
    <3>3. p[1] \in DOMAIN dir
      BY <3>1, PlaceIs DEF Room, Passed
    <3>4. /\ DOMAIN e = DOMAIN dir /\ e[p[1]] = Split(dir[p[1]], p[2], n, ino)
          /\ \A j \in DOMAIN dir : j # p[1] => e[j] = dir[j]
      BY <3>1, <3>2, <3>3
    <3>5. Grown(dir, e, doubt)
      BY <1>1, <3>4, SplitDir
    <3>6. Size(e) = Size(dir)
      BY <3>4 DEF Size
    <3> QED
      BY <2>0, <3>2, <3>5, <3>6
  <2>2. CASE /\ ~Stuck(dir) /\ Size(dir) < NDirect
             /\ dir' = AddBlock(dir, [o \in {0} |-> [name |-> n, ino |-> ino, len |-> BlockWords]])
    <3> DEFINE B == [o \in {0} |-> [name |-> n, ino |-> ino, len |-> BlockWords]]
    <3>1. PICK e : e = dir'
      OBVIOUS
    <3>2. e = AddBlock(dir, B) /\ DOMAIN B = {0}
          /\ B[0] = [name |-> n, ino |-> ino, len |-> BlockWords]
      BY <2>2, <3>1
    <3> HIDE DEF B
    <3>3. Grown(dir, e, doubt)
      BY <1>1, <2>2, <3>2, AppendDir
    <3> QED
      BY <2>0, <2>2, <3>1, <3>3
  <2> QED
    BY <1>3, <2>1, <2>2 DEF ext2_dir_add_inode
<1> QED
  BY <1>1, <1>2, <1>3

\* A call that only adds keeps the listings.
LEMMA GrowKeeps ==
  ASSUME ListingInv, IInv', fd' = fd, doubt \subseteq doubt',
         dir' = dir \/ (Grown(dir, dir', doubt') /\ (Size(dir') = Size(dir) \/ ~Stuck(dir)))
  PROVE  ListingInv'
<1>1. /\ WellFormed(dir, doubt) /\ WellFormed(dir', doubt') /\ DotsFirst(dir, doubt) /\ ZeroLast(dir)
      /\ \A h \in Handle : Sound(dir, fd[h], doubt)
  BY ListingIs DEF IInv
<1>2. CASE dir' = dir
  <2>1. ASSUME NEW h \in Handle PROVE Sound(dir, fd[h], doubt')
    BY <1>1 DEF Sound, Exact
  <2>2. DotsFirst(dir, doubt')
    BY <1>1 DEF DotsFirst
  <2> QED
    BY <1>1, <1>2, <2>1, <2>2, ListingNext
<1>3. CASE Grown(dir, dir', doubt') /\ (Size(dir') = Size(dir) \/ ~Stuck(dir))
  <2>1. PICK e, v : e = dir' /\ v = doubt'
    OBVIOUS
  <2>2. DotsFirst(e, v) /\ ZeroLast(e)
    BY <1>1, <1>3, <2>1, GrownShape
  <2>3. ASSUME NEW h \in Handle PROVE Sound(e, fd[h], v)
    <3>1. Sound(dir, fd[h], doubt) /\ doubt \subseteq v
      BY <1>1, <2>1
    <3>2. Exact(fd[h], v)
      BY <3>1 DEF Sound, Exact
    <3>3. fd[h].mode = "listing" /\ fd[h].kept => Tracks(e, fd[h])
      BY <1>1, <1>3, <2>1, <3>1, GrownTracks DEF Sound
    <3> QED
      BY <3>2, <3>3 DEF Sound
  <2> QED
    BY <2>1, <2>2, <2>3, ListingNext
<1> QED
  BY <1>2, <1>3

\* After a removal no listing promises anything.
LEMMA RemoveListing ==
  ASSUME ListingInv, NEW n \in Name, NEW ino \in Ino, Meant(n, ino),
         ext2_dir_remove_inode(n, ino)
  PROVE  ListingInv'
<1>1. IInv /\ WellFormed(dir, doubt) /\ DotsFirst(dir, doubt) /\ ZeroLast(dir)
  BY ListingIs DEF IInv
<1>2. IInv' /\ doubt' = doubt
  BY <1>1, RemoveStep DEF ext2_dir_remove_inode
<1>3. DotsFirst(dir', doubt) /\ ZeroLast(dir')
  <2>1. CASE dir' = dir
    BY <1>1, <2>1
  <2>2. CASE \E p \in Passed(dir) : At(dir, p).name = n /\ dir' = Remove(dir, p[1], p[2])
    <3>1. PICK p \in Passed(dir) : At(dir, p).name = n /\ dir' = Remove(dir, p[1], p[2])
      BY <2>2
    <3>2. /\ p[1] \in DOMAIN dir /\ p[2] \in DOMAIN dir[p[1]]
          /\ dir[p[1]][p[2]].name \in Name
      BY <3>1, PlaceIs DEF Passed, At
    <3>3. DotsFirst(Remove(dir, p[1], p[2]), doubt) /\ ZeroLast(Remove(dir, p[1], p[2]))
      BY <1>1, <3>2, RemoveShape
    <3> QED
      BY <3>1, <3>3
  <2> QED
    BY <2>1, <2>2 DEF ext2_dir_remove_inode
<1>4. ASSUME NEW h \in Handle PROVE Sound(dir', fd'[h], doubt')
  <2>1. fd'[h].kept = FALSE
    <3>1. fd[h] \in [mode : {"closed", "listing", "ended", "astray"}, pos : Nat,
                     got : Seq(Names), kept : BOOLEAN, had : SUBSET Names]
      BY <1>1 DEF IInv, TypeOK
    <3>2. Disturbed(fd[h]).kept = FALSE
      BY <3>1 DEF Disturbed
    <3> QED
      BY <3>2 DEF ext2_dir_remove_inode
  <2> QED
    BY <2>1 DEF Sound, Exact
<1> QED
  BY <1>2, <1>3, <1>4, ListingNext

\* Opening a directory and reading from it concern one handle.
LEMMA ListListing ==
  ASSUME ListingInv, NEW h \in Handle, vfs_opendir(h) \/ ext2_vnode_readdir(h)
  PROVE  ListingInv'
<1>1. /\ IInv /\ WellFormed(dir, doubt) /\ DotsFirst(dir, doubt) /\ ZeroLast(dir)
      /\ \A k \in Handle : Sound(dir, fd[k], doubt)
  BY ListingIs DEF IInv
<1>2. IInv' /\ dir' = dir /\ doubt' = doubt
  BY <1>1, ListStep
<1>3. Sound(dir, fd'[h], doubt)
  <2>1. CASE vfs_opendir(h)
    <3>1. fd'[h] = [Start EXCEPT !.had = {b[1] : b \in Binds(dir)}]
      BY <1>1, <2>1 DEF vfs_opendir, IInv, TypeOK
    <3> QED
      BY <1>1, <3>1, OpenSound
  <2>2. CASE ext2_vnode_readdir(h)
    BY <2>2, ReadSound
  <2> QED
    BY <2>1, <2>2
<1>4. \A k \in Handle : k # h => fd'[k] = fd[k]
  BY <1>1 DEF vfs_opendir, ext2_vnode_readdir, IInv, TypeOK
<1>5. \A k \in Handle : Sound(dir, fd'[k], doubt)
  BY <1>1, <1>3, <1>4
<1> QED
  BY <1>1, <1>2, <1>5, ListingNext

\* The handles are closed at first.
LEMMA InitListing == Init => ListingInv
<1> SUFFICES ASSUME Init PROVE ListingInv
  OBVIOUS
<1>1. IInv /\ DotsFirst(dir, doubt) /\ ZeroLast(dir)
  BY InitInv, DotsAssumption DEF Init
<1>2. ASSUME NEW h \in Handle PROVE Sound(dir, fd[h], doubt)
  <2>1. fd[h].mode = "closed" /\ DOMAIN fd[h].got = {}
    BY DEF Init, Start
  <2> QED
    BY <2>1 DEF Sound, Exact
<1> QED
  BY <1>1, <1>2, ListingIs

\* Every step keeps what listings and the emptiness test rely on.
LEMMA NextListing ==
  ASSUME ListingInv, [Next]_vars
  PROVE  ListingInv'
<1>1. IInv /\ IInv'
  BY NextInv, ListingIs
<1>2. ASSUME NEW n \in Name, NEW ino \in Ino, ext2_dir_add_inode(n, ino)
      PROVE  ListingInv'
  BY <1>1, <1>2, AddGrows, GrowKeeps
<1>3. ASSUME NEW n \in Name, NEW old \in Left, ext2_dir_add_inode_fails(n, old)
      PROVE  ListingInv'
  BY <1>1, <1>3, AddGrows, GrowKeeps
<1>4. ASSUME NEW n \in Name, NEW ino \in Ino, Meant(n, ino), ext2_dir_remove_inode(n, ino)
      PROVE  ListingInv'
  BY <1>4, RemoveListing
<1>5. ASSUME NEW h \in Handle, vfs_opendir(h) \/ ext2_vnode_readdir(h)
      PROVE  ListingInv'
  BY <1>5, ListListing
<1>6. CASE UNCHANGED vars
  <2>1. dir' = dir /\ fd' = fd /\ doubt' = doubt
    BY <1>6 DEF vars
  <2> QED
    BY <1>1, <2>1, GrowKeeps
<1> QED
  BY <1>2, <1>3, <1>4, <1>5, <1>6 DEF Next

\* The inductive invariant of the clients that read a directory.
THEOREM DirListingInv == Spec => []ListingInv
<1>1. ListingInv /\ [Next]_vars => ListingInv'
  BY NextListing
<1> QED
  BY InitListing, <1>1, PTL DEF Spec

\* A listing during which nothing is removed returns every name that was there
\* at its start and none twice that is not in doubt, whatever is added meanwhile.
THEOREM DirListingExact == Spec => []ListingExact
<1>1. ListingInv => ListingExact
  BY DEF ListingInv
<1> QED
  BY DirListingInv, <1>1, PTL

\* unlink takes a directory for empty only if it is, and whenever it is one
\* without unused entries and blocks.
THEOREM DirVacantExact == Spec => []VacantExact
<1>1. ASSUME ListingInv PROVE VacantExact
  <2>1. /\ Size(dir) \in Nat /\ DOMAIN dir = 0 .. Size(dir) - 1
        /\ \A i \in DOMAIN dir : Zero(dir[i]) \/ 0 \in DOMAIN dir[i]
        /\ Named(dir, doubt)
    BY <1>1, BlocksAre DEF ListingInv, IInv, WellFormed
  <2>2. /\ 0 \in DOMAIN dir /\ 0 \in DOMAIN dir[0]
        /\ \A o \in DOMAIN dir[0] : dir[0][o].ino # 0
        /\ \A i \in DOMAIN dir : \A o \in DOMAIN dir[i] : dir[i][o].name \in Dots \ doubt => i = 0
    BY <1>1 DEF ListingInv, DotsFirst
  <2>3. ASSUME Vacant(dir), NEW b \in Binds(dir) PROVE b[1] \in Dots
    <3>1. PICK p \in Place(dir) : b = <<At(dir, p).name, At(dir, p).ino>>
      BY DEF Binds
    <3>2. p[2] \in DOMAIN dir[0] /\ At(dir, p) = dir[0][p[2]]
      <4>1. p[1] \in DOMAIN dir /\ p[2] \in DOMAIN dir[p[1]]
        BY PlaceIs
      <4>2. p[1] = 0
        BY <2>1, <2>3, <4>1 DEF Vacant
      <4> QED
        BY <4>1, <4>2 DEF At
    <3> QED
      BY <2>2, <2>3, <3>1, <3>2 DEF Vacant
  <2>4. ASSUME \A b \in Binds(dir) : b[1] \in Dots, ~Stuck(dir), doubt = {}
        PROVE  Vacant(dir)
    <3>1. ASSUME NEW i \in DOMAIN dir, NEW o \in DOMAIN dir[i]
          PROVE  dir[i][o].name \in Dots /\ i = 0
      <4>1. <<i, o>> \in Place(dir) /\ At(dir, <<i, o>>) = dir[i][o]
        BY PlaceIs DEF At
      <4>2. dir[i][o].ino # 0
        BY <2>1, <2>4, <4>1 DEF Named, Ghosts
      <4>3. <<dir[i][o].name, dir[i][o].ino>> \in Binds(dir)
        BY <4>1, <4>2 DEF Binds
      <4> QED
        BY <2>2, <2>4, <4>3
    <3>2. \A i \in DOMAIN dir : i = 0
      BY <2>1, <2>4, <3>1 DEF Stuck
    <3>3. Size(dir) <= 1
      <4>1. CASE Size(dir) > 1
        <5>1. 1 \in DOMAIN dir
          BY <2>1, <4>1
        <5> QED
          BY <3>2, <5>1
      <4> QED
        BY <2>1, <4>1
    <3> QED
      BY <2>2, <3>1, <3>3 DEF Vacant
  <2> QED
    BY <2>3, <2>4 DEF VacantExact
<1> QED
  BY DirListingInv, <1>1, PTL
=============================================================================
