--------------------------- MODULE VfsMountProofs ---------------------------
(***************************************************************************)
(* Proofs about VfsMount.  Only the first section looks into paths; from   *)
(* then on Chain(p) is a finite line of directories ordered by Len, and    *)
(* the nodes are two functions on Dir.                                     *)
(***************************************************************************)
EXTENDS VfsMount, FiniteSetTheorems, WellFoundedInduction, TLAPS

-----------------------------------------------------------------------------
(* Paths.                                                                  *)

Names == UNION {Range(p) : p \in Dir}

\* Every path is a sequence of names, and its prefixes are paths.
LEMMA DirSeq ==
  /\ Dir \subseteq Seq(Names)
  /\ \A p \in Dir : \A n \in 0 .. Len(p) : SubSeq(p, 1, n) \in Dir
<1>1. \A p \in Dir : p \in Seq(Range(p)) /\ \A n \in 0 .. Len(p) : SubSeq(p, 1, n) \in Dir
  BY MountAssumption
<1>2. ASSUME NEW p \in Dir PROVE p \in Seq(Names)
  <2>1. \A i \in 1 .. Len(p) : p[i] \in Range(p)
    BY <1>1
  <2>2. Range(p) \subseteq Names
    BY DEF Names
  <2>3. Len(p) \in Nat /\ DOMAIN p = 1 .. Len(p) /\ p = [i \in 1 .. Len(p) |-> p[i]]
    BY <1>1
  <2> QED
    BY <2>1, <2>2, <2>3
<1> QED
  BY <1>1, <1>2

\* A prefix, element by element.
LEMMA PrefixElems ==
  ASSUME NEW s \in Dir, NEW t \in Dir
  PROVE  IsPrefix(s, t) <=> /\ Len(s) <= Len(t)
                            /\ \A i \in 1 .. Len(s) : s[i] = t[i]
<1>0. s \in Seq(Names) /\ t \in Seq(Names)
  BY DirSeq
<1>1. CASE Len(s) <= Len(t)
  <2>1. /\ SubSeq(s, 1, Len(s)) \in Seq(Names) /\ Len(SubSeq(s, 1, Len(s))) = Len(s)
        /\ \A i \in 1 .. Len(s) : SubSeq(s, 1, Len(s))[i] = s[i]
    BY <1>0
  <2>2. /\ SubSeq(t, 1, Len(s)) \in Seq(Names) /\ Len(SubSeq(t, 1, Len(s))) = Len(s)
        /\ \A i \in 1 .. Len(s) : SubSeq(t, 1, Len(s))[i] = t[i]
    BY <1>0, <1>1
  <2>3. ASSUME \A i \in 1 .. Len(s) : s[i] = t[i]
        PROVE  SubSeq(s, 1, Len(s)) = SubSeq(t, 1, Len(s))
    <3> DEFINE u == SubSeq(s, 1, Len(s))
               v == SubSeq(t, 1, Len(s))
    <3>1. u \in Seq(Names) /\ v \in Seq(Names) /\ Len(u) = Len(v)
          /\ \A i \in 1 .. Len(u) : u[i] = v[i]
      BY <1>0, <2>1, <2>2, <2>3
    <3> HIDE DEF u, v
    <3>2. u = v
      BY <3>1
    <3> QED
      BY <3>2 DEF u, v
  <2> QED
    BY <1>0, <1>1, <2>1, <2>2, <2>3 DEF IsPrefix
<1>2. CASE ~(Len(s) <= Len(t))
  BY <1>2 DEF IsPrefix
<1> QED
  BY <1>1, <1>2

\* The chain of p, element by element.
LEMMA ChainElems ==
  ASSUME NEW p \in Dir, NEW q
  PROVE  q \in Chain(p) <=> /\ q \in Dir /\ Len(q) <= Len(p)
                            /\ \A i \in 1 .. Len(q) : q[i] = p[i]
BY PrefixElems DEF Chain

\* Lengths are natural numbers, and only the root has none.
LEMMA LenDir ==
  ASSUME NEW p \in Dir
  PROVE  Len(p) \in Nat /\ (p # Root => Len(p) > 0)
BY DirSeq DEF Root

\* A directory and the root lie on the chain.
LEMMA ChainSelf ==
  ASSUME NEW p \in Dir
  PROVE  p \in Chain(p) /\ Root \in Chain(p) /\ Root \in Dir
<1>1. Root \in Dir /\ Len(Root) = 0
  BY MountAssumption DEF Root
<1> QED
  BY <1>1, ChainElems, LenDir

\* What lies above is a directory and not longer.
LEMMA ChainLen ==
  ASSUME NEW p \in Dir, NEW q \in Chain(p)
  PROVE  q \in Dir /\ Len(q) <= Len(p) /\ Len(q) \in Nat
BY ChainElems, LenDir

\* What is above something above p is above p.
LEMMA ChainTransitive ==
  ASSUME NEW p \in Dir, NEW q \in Chain(p)
  PROVE  Chain(q) \subseteq Chain(p)
<1>1. q \in Dir /\ Len(q) <= Len(p) /\ \A i \in 1 .. Len(q) : q[i] = p[i]
  BY ChainElems
<1> SUFFICES ASSUME NEW r \in Chain(q) PROVE r \in Chain(p)
  OBVIOUS
<1>2. r \in Dir /\ Len(r) <= Len(q) /\ \A i \in 1 .. Len(r) : r[i] = q[i]
  BY <1>1, ChainElems
<1>3. Len(p) \in Nat /\ Len(q) \in Nat /\ Len(r) \in Nat
  BY <1>1, <1>2, LenDir
<1> QED
  BY <1>1, <1>2, <1>3, ChainElems

\* Of two directories above p the shorter is above the other.
LEMMA ChainLinear ==
  ASSUME NEW p \in Dir, NEW q \in Chain(p), NEW r \in Chain(p), Len(q) <= Len(r)
  PROVE  q \in Chain(r)
<1>1. q \in Dir /\ Len(q) <= Len(p) /\ \A i \in 1 .. Len(q) : q[i] = p[i]
  BY ChainElems
<1>2. r \in Dir /\ Len(r) <= Len(p) /\ \A i \in 1 .. Len(r) : r[i] = p[i]
  BY ChainElems
<1>3. Len(p) \in Nat /\ Len(q) \in Nat /\ Len(r) \in Nat
  BY <1>1, <1>2, LenDir
<1> QED
  BY <1>1, <1>2, <1>3, ChainElems

\* Of equal length means equal.
LEMMA ChainEqual ==
  ASSUME NEW p \in Dir, NEW q \in Chain(p), Len(q) >= Len(p)
  PROVE  q = p
<1>1. q \in Dir /\ Len(q) <= Len(p) /\ \A i \in 1 .. Len(q) : q[i] = p[i]
  BY ChainElems
<1>2. q \in Seq(Names) /\ p \in Seq(Names) /\ Len(q) = Len(p)
  BY <1>1, DirSeq
<1> QED
  BY <1>1, <1>2

\* The shortest one is the root.
LEMMA RootLen ==
  /\ Len(Root) = 0
  /\ \A p \in Dir : Root \in Chain(p) /\ (Len(p) = 0 => p = Root)
<1>1. Len(Root) = 0
  BY DEF Root
<1> QED
  BY <1>1, ChainSelf, LenDir

\* A prefix of p is above p, and as long as it should be.
LEMMA ChainAt ==
  ASSUME NEW p \in Dir, NEW n \in 0 .. Len(p)
  PROVE  SubSeq(p, 1, n) \in Chain(p) /\ Len(SubSeq(p, 1, n)) = n
<1>1. p \in Seq(Names) /\ SubSeq(p, 1, n) \in Dir
  BY DirSeq
<1>2. Len(p) \in Nat
  BY LenDir
<1> DEFINE q == SubSeq(p, 1, n)
<1>3. q \in Dir /\ Len(q) = n /\ \A i \in 1 .. n : q[i] = p[i]
  BY <1>1, <1>2
<1> HIDE DEF q
<1>4. q \in Chain(p)
  BY <1>2, <1>3, ChainElems
<1> QED
  BY <1>3, <1>4 DEF q

\* The parent is the next on the chain.
LEMMA FrontChain ==
  ASSUME NEW p \in Dir, p # Root
  PROVE  /\ Front(p) \in Dir /\ Front(p) \in Chain(p)
         /\ Len(Front(p)) = Len(p) - 1 /\ Len(p) \in Nat /\ Front(p) # p
<1>1. Len(p) \in Nat /\ Len(p) > 0
  BY LenDir
<1>2. Len(p) - 1 \in 0 .. Len(p)
  BY <1>1
<1>3. Front(p) \in Chain(p) /\ Len(Front(p)) = Len(p) - 1
  BY <1>2, ChainAt DEF Front
<1> QED
  BY <1>1, <1>3, ChainLen

\* Everything above p other than p is above its parent.
LEMMA FrontLast ==
  ASSUME NEW p \in Dir, NEW q \in Chain(p), q # p
  PROVE  p # Root /\ q \in Chain(Front(p))
<1>1. q \in Dir /\ Len(q) \in Nat /\ Len(p) \in Nat /\ Len(q) < Len(p)
  BY ChainLen, LenDir, ChainEqual
<1>2. p # Root
  BY <1>1, RootLen
<1>3. Front(p) \in Chain(p) /\ Len(q) <= Len(Front(p))
  BY <1>1, <1>2, FrontChain
<1> QED
  BY <1>2, <1>3, ChainLinear

\* Whatever is above p has a child that is above p, or is p.
LEMMA ChainDown ==
  ASSUME NEW p \in Dir, NEW q \in Chain(p), q # p
  PROVE  \E c \in Chain(p) : c # Root /\ c \in Dir /\ Front(c) = q /\ Len(c) = Len(q) + 1
<1>1. q \in Dir /\ Len(q) \in Nat /\ Len(p) \in Nat /\ Len(q) < Len(p)
  BY ChainLen, LenDir, ChainEqual
<1> DEFINE c == SubSeq(p, 1, Len(q) + 1)
<1>2. c \in Chain(p) /\ Len(c) = Len(q) + 1
  BY <1>1, ChainAt
<1> HIDE DEF c
<1>3. c \in Dir /\ c # Root
  BY <1>1, <1>2, ChainLen, RootLen
<1>4. Front(c) \in Chain(c) /\ Len(Front(c)) = Len(q)
  BY <1>1, <1>2, <1>3, FrontChain
<1>5. q \in Chain(c)
  BY <1>1, <1>2, ChainLinear
<1>6. q \in Chain(Front(c)) /\ Front(c) \in Dir
  BY <1>1, <1>2, <1>3, <1>5, FrontLast, FrontChain
<1>7. q = Front(c)
  BY <1>1, <1>4, <1>6, ChainEqual
<1> QED
  BY <1>2, <1>3, <1>7

\* A set of directories above p has a longest one.
LEMMA Longest ==
  ASSUME NEW p \in Dir, NEW A, A \subseteq Chain(p), A # {}
  PROVE  \E m \in A : \A c \in A : Len(c) <= Len(m)
<1> DEFINE R == StrictSubsetOrdering(0 .. Len(p))
           I(q) == (Len(q) + 1) .. Len(p)
           T == {I(q) : q \in A}
<1>1. Len(p) \in Nat /\ \A q \in A : Len(q) \in Nat /\ Len(q) <= Len(p)
  BY ChainLen, LenDir
<1>2. IsFiniteSet(0 .. Len(p))
  BY <1>1, FS_Interval
<1>3. IsWellFoundedOn(R, SUBSET (0 .. Len(p)))
  BY <1>2, FS_StrictSubsetOrderingWellFounded, FS_FiniteSubsetsOfFinite
<1>4. T \subseteq SUBSET (0 .. Len(p)) /\ T # {}
  BY <1>1
<1>5. PICK x \in T : \A y \in T : ~(<<y, x>> \in R)
  <2> HIDE DEF R, T
  <2> QED
    BY <1>3, <1>4, WFMin
<1>6. PICK m \in A : x = I(m)
  BY <1>5
<1>7. ASSUME NEW c \in A, Len(c) > Len(m) PROVE FALSE
  <2>1. I(c) \subseteq I(m) /\ Len(c) \in I(m) /\ Len(c) \notin I(c)
    BY <1>1, <1>7
  <2>2. I(c) \in SUBSET (0 .. Len(p)) /\ I(m) \in SUBSET (0 .. Len(p)) /\ I(c) # I(m)
    BY <1>1, <2>1
  <2>3. <<I(c), I(m)>> \in R
    BY <2>1, <2>2 DEF StrictSubsetOrdering
  <2> QED
    BY <1>5, <1>6, <2>3
<1> QED
  BY <1>1, <1>7

-----------------------------------------------------------------------------
(* The nodes and the counts, for any value of the variables.               *)

\* The file system of the directory itself, covered or not.
Own(p, t, b) == IF b[p] = None THEN t[p] ELSE b[p]

MountOf(p, t, b) == b[p] # None \/ (p = Root /\ t[Root] # None)

Lives(v, t, b) == v.fs \in {t[v.dir], b[v.dir]}

Present(k, t, b) == \E q \in Dir : k \in {t[q], b[q]}

\* What is covered is covered by another file system.
Covered(t, b, u) ==
  /\ t \in [Dir -> (1 .. u) \cup {None}] /\ b \in [Dir -> (1 .. u) \cup {None}]
  /\ \A p \in Dir : b[p] # None => t[p] # None /\ b[p] # t[p]

\* What is above a node is there.
Closed(t) == \A p \in Dir : t[p] # None => \A q \in Chain(p) : t[q] # None

Hangs(t, b) ==
  \A p \in Dir \ {Root} :
    t[p] # None => t[Front(p)] # None /\ Own(p, t, b) = t[Front(p)]

\* A file system is found only at and below the directory that it is mounted on.
Home(t, b) ==
  \A p, q \in Dir :
    MountOf(p, t, b) /\ t[p] \in {t[q], b[q]} => p \in Chain(q)

Tree(t, b, u) == Covered(t, b, u) /\ Closed(t) /\ Hangs(t, b) /\ Home(t, b)

\* The count of a directory is the number of its users; the roots of mounted
\* file systems and of the tree are left out.
Right(t, b, c, w) ==
  \A p \in Dir \ {Root} :
    t[p] # None => c[V(p, Own(p, t, b))] = w[V(p, Own(p, t, b))]

\* A vnode that a lookup may attach again, or for the first time, has no count
\* and no users.
Blank(t, b, c, w, u) ==
  \A v \in Vnode :
    ~Lives(v, t, b) /\ (Present(v.fs, t, b) \/ v.fs > u) => c[v] = 0 /\ w[v] = 0

Counts(t, b, c, w, u) ==
  /\ c \in [Vnode -> 0 .. Word - 1] /\ w \in [Vnode -> Nat]
  /\ Right(t, b, c, w) /\ Blank(t, b, c, w, u)

\* One user more or less.
More(w, v) == [w EXCEPT ![v] = @ + 1]
Less(w, v) == [w EXCEPT ![v] = @ - 1]

\* None is neither a file system nor a vnode; numbers are numbers.
LEMMA Constants ==
  /\ Slots \in Nat /\ Word \in Nat /\ None \notin 1 .. Slots /\ None \notin Vnode
  /\ Junk \subseteq 0 .. Word - 1
BY MountAssumption DEF Fs

\* The vnode of a directory and a file system, and back.
LEMMA VnodeIs ==
  /\ \A p \in Dir, k \in 1 .. Slots :
       V(p, k) \in Vnode /\ V(p, k).dir = p /\ V(p, k).fs = k
  /\ \A v \in Vnode : v.dir \in Dir /\ v.fs \in 1 .. Slots /\ v = V(v.dir, v.fs)
BY DEF V, Vnode, Fs

\* Nothing is attached below a directory without children.
LEMMA Leaf ==
  ASSUME NEW t, Closed(t), NEW p \in Dir, Kids(p, t) = {},
         NEW q \in Dir, t[q] # None, p \in Chain(q)
  PROVE  q = p
<1> SUFFICES ASSUME q # p PROVE FALSE
  OBVIOUS
<1>1. PICK c \in Chain(q) : c # Root /\ c \in Dir /\ Front(c) = p
  BY ChainDown
<1>2. t[c] # None
  BY <1>1 DEF Closed
<1> QED
  BY <1>1, <1>2 DEF Kids

\* More slots may be taken.
LEMMA MoreSlots ==
  ASSUME NEW t, NEW b, NEW u \in 0 .. Slots, u < Slots, Tree(t, b, u)
  PROVE  /\ Tree(t, b, u + 1)
         /\ \A c, w : Counts(t, b, c, w, u) => Counts(t, b, c, w, u + 1)
<1>1. 1 .. u \subseteq 1 .. (u + 1)
  BY Constants
<1>2. Covered(t, b, u + 1)
  BY <1>1 DEF Tree, Covered
<1>3. ASSUME NEW c, NEW w, Counts(t, b, c, w, u) PROVE Counts(t, b, c, w, u + 1)
  <2>1. ASSUME NEW v \in Vnode, v.fs > u + 1 PROVE v.fs > u
    BY <2>1, VnodeIs, Constants
  <2> QED
    BY <1>3, <2>1 DEF Counts, Blank
<1> QED
  BY <1>2, <1>3 DEF Tree

-----------------------------------------------------------------------------
(* Lookups.                                                                *)

\* A lookup gives the missing nodes of the chain the file system of the last one
\* that is there, their nearest neighbour above.
LEMMA AttachIs ==
  ASSUME Tree(at, below, used), at[Root] # None, NEW p \in Dir
  PROVE  \E l \in Chain(p) :
           /\ at[l] # None
           /\ Attach(p) = [q \in Dir |-> IF q \in Chain(p) /\ at[q] = None THEN at[l] ELSE at[q]]
           /\ \A q \in Chain(p) : at[q] = None => l \in Chain(q) /\ l # q
           /\ \A q \in Chain(p) : at[q] # None => q \in Chain(l)
<1> DEFINE L(q) == at[q] # None /\ \A c \in Chain(p) : at[c] # None => Len(c) <= Len(q)
           A == {q \in Chain(p) : at[q] # None}
<1>1. A \subseteq Chain(p) /\ A # {}
  BY ChainSelf
<1>2. \E m \in A : \A c \in A : Len(c) <= Len(m)
  BY <1>1, Longest
<1>3. \E m \in Chain(p) : L(m)
  BY <1>2
<1> DEFINE l == CHOOSE q \in Chain(p) : L(q)
<1>4. l \in Chain(p) /\ L(l)
  BY <1>3
<1>5. Attach(p) = [q \in Dir |-> IF q \in Chain(p) /\ at[q] = None THEN at[l] ELSE at[q]]
  BY DEF Attach
<1> HIDE DEF l
<1>6. l \in Dir /\ Len(l) \in Nat
  BY <1>4, ChainLen
<1>7. ASSUME NEW q \in Chain(p), at[q] = None PROVE l \in Chain(q) /\ l # q
  <2>1. q \in Dir /\ Len(q) \in Nat
    BY ChainLen
  <2>2. CASE Len(l) <= Len(q)
    BY <1>4, <1>7, <2>2, ChainLinear
  <2>3. CASE Len(q) <= Len(l)
    <3>1. q \in Chain(l)
      BY <1>4, <2>3, ChainLinear
    <3> QED
      BY <1>4, <1>6, <1>7, <3>1 DEF Tree, Closed
  <2> QED
    BY <1>6, <2>1, <2>2, <2>3
<1>8. ASSUME NEW q \in Chain(p), at[q] # None PROVE q \in Chain(l)
  BY <1>4, <1>8, ChainLinear
<1> QED
  BY <1>4, <1>5, <1>7, <1>8

\* What a lookup does to the nodes.
LEMMA AttachKeeps ==
  ASSUME Tree(at, below, used), at[Root] # None, NEW p \in Dir
  PROVE  /\ \A q \in Dir : at[q] # None => Attach(p)[q] = at[q]
         /\ \A q \in Chain(p) : Attach(p)[q] # None
         /\ \A q \in Dir : Attach(p)[q] = None \/ \E k \in Dir : at[k] = Attach(p)[q]
<1>1. PICK l \in Chain(p) :
        /\ at[l] # None
        /\ Attach(p) = [q \in Dir |-> IF q \in Chain(p) /\ at[q] = None THEN at[l] ELSE at[q]]
  BY AttachIs
<1>2. l \in Dir /\ Chain(p) \subseteq Dir
  BY ChainLen
<1> QED
  BY <1>1, <1>2

\* The nodes stay a tree.
LEMMA AttachTree ==
  ASSUME used \in 0 .. Slots, Tree(at, below, used), at[Root] # None, NEW p \in Dir
  PROVE  Tree(Attach(p), below, used)
<1>1. PICK l \in Chain(p) :
        /\ at[l] # None
        /\ Attach(p) = [q \in Dir |-> IF q \in Chain(p) /\ at[q] = None THEN at[l] ELSE at[q]]
        /\ \A q \in Chain(p) : at[q] = None => l \in Chain(q) /\ l # q
        /\ \A q \in Chain(p) : at[q] # None => q \in Chain(l)
  BY AttachIs
<1> DEFINE t == Attach(p)
<1>2. t = [q \in Dir |-> IF q \in Chain(p) /\ at[q] = None THEN at[l] ELSE at[q]]
  BY <1>1
<1> HIDE DEF t
<1>3. Chain(p) \subseteq Dir /\ l \in Dir
  BY ChainLen
<1>4. \A q \in Dir : at[q] = None => below[q] = None
  BY DEF Tree, Covered
<1>5. Covered(t, below, used)
  BY <1>1, <1>2, <1>3 DEF Tree, Covered
<1>6. Closed(t)
  <2> SUFFICES ASSUME NEW x \in Dir, t[x] # None, NEW q \in Chain(x) PROVE t[q] # None
    BY DEF Closed
  <2>1. q \in Dir
    BY ChainLen
  <2>2. CASE at[x] # None
    <3>1. at[q] # None
      BY <2>2 DEF Tree, Closed
    <3> QED
      BY <1>2, <2>1, <3>1
  <2>3. CASE at[x] = None
    <3>1. x \in Chain(p)
      BY <1>2, <2>3
    <3>2. q \in Chain(p)
      BY <3>1, ChainTransitive
    <3> QED
      BY <1>1, <1>2, <2>1, <3>2
  <2> QED
    BY <2>2, <2>3
<1>7. Hangs(t, below)
  <2> SUFFICES ASSUME NEW x \in Dir \ {Root}, t[x] # None
               PROVE  t[Front(x)] # None /\ Own(x, t, below) = t[Front(x)]
    BY DEF Hangs
  <2>1. Front(x) \in Dir /\ Front(x) \in Chain(x)
    BY FrontChain
  <2>2. CASE at[x] # None
    <3>1. at[Front(x)] # None /\ Own(x, at, below) = at[Front(x)]
      BY <2>2 DEF Tree, Hangs
    <3>2. t[Front(x)] = at[Front(x)] /\ t[x] = at[x]
      BY <1>2, <2>1, <2>2, <3>1
    <3> QED
      BY <3>1, <3>2 DEF Own
  <2>3. CASE at[x] = None
    <3>1. x \in Chain(p) /\ t[x] = at[l] /\ below[x] = None
      BY <1>2, <1>4, <2>3
    <3>2. l \in Chain(Front(x)) /\ Front(x) \in Chain(p)
      BY <1>1, <2>1, <2>3, <3>1, FrontLast, ChainTransitive
    <3>3. CASE at[Front(x)] = None
      BY <1>1, <1>2, <2>1, <3>1, <3>2, <3>3 DEF Own
    <3>4. CASE at[Front(x)] # None
      <4>1. Front(x) \in Chain(l)
        BY <1>1, <3>2, <3>4
      <4>2. Len(Front(x)) <= Len(l)
        BY <1>3, <4>1, ChainLen
      <4>3. l = Front(x)
        BY <2>1, <3>2, <4>2, ChainEqual, ChainLen
      <4> QED
        BY <1>1, <1>2, <2>1, <3>1, <4>3 DEF Own
    <3> QED
      BY <3>3, <3>4
  <2> QED
    BY <2>2, <2>3
<1>8. Home(t, below)
  <2> SUFFICES ASSUME NEW x \in Dir, NEW q \in Dir,
                      MountOf(x, t, below), t[x] \in {t[q], below[q]}
               PROVE  x \in Chain(q)
    BY DEF Home
  <2>1. Root \in Dir
    BY MountAssumption
  <2>2. MountOf(x, at, below) /\ t[x] = at[x] /\ at[x] # None
    BY <1>2, <1>4, <2>1 DEF MountOf
  <2>3. CASE at[x] \in {at[q], below[q]}
    BY <2>2, <2>3 DEF Tree, Home
  <2>4. CASE at[x] \notin {at[q], below[q]}
    <3>1. q \in Chain(p) /\ at[q] = None /\ at[x] = at[l]
      BY <1>2, <2>2, <2>4
    <3>2. x \in Chain(l)
      BY <1>3, <2>2, <3>1 DEF Tree, Home
    <3>3. l \in Chain(q)
      BY <1>1, <3>1
    <3> QED
      BY <3>2, <3>3, ChainTransitive
  <2> QED
    BY <2>3, <2>4
<1>9. Tree(t, below, used)
  BY <1>5, <1>6, <1>7, <1>8 DEF Tree
<1> QED
  BY <1>9 DEF t

\* The nodes that a lookup attaches have no users and no count.
LEMMA AttachCounts ==
  ASSUME used \in 0 .. Slots, Tree(at, below, used), at[Root] # None, NEW p \in Dir,
         NEW c, NEW w, Counts(at, below, c, w, used)
  PROVE  Counts(Attach(p), below, c, w, used)
<1>1. PICK l \in Chain(p) :
        /\ at[l] # None
        /\ Attach(p) = [q \in Dir |-> IF q \in Chain(p) /\ at[q] = None THEN at[l] ELSE at[q]]
  BY AttachIs
<1> DEFINE t == Attach(p)
<1>2. t = [q \in Dir |-> IF q \in Chain(p) /\ at[q] = None THEN at[l] ELSE at[q]]
  BY <1>1
<1> HIDE DEF t
<1>3. Chain(p) \subseteq Dir /\ l \in Dir
  BY ChainLen
<1>4. /\ \A q \in Dir : at[q] = None => below[q] = None
      /\ at \in [Dir -> (1 .. Slots) \cup {None}] /\ below \in [Dir -> (1 .. Slots) \cup {None}]
  BY Constants DEF Tree, Covered
<1>5. Right(t, below, c, w)
  <2> SUFFICES ASSUME NEW q \in Dir \ {Root}, t[q] # None
               PROVE  c[V(q, Own(q, t, below))] = w[V(q, Own(q, t, below))]
    BY DEF Right
  <2>1. CASE at[q] # None
    <3>1. t[q] = at[q]
      BY <1>2, <2>1
    <3> QED
      BY <2>1, <3>1 DEF Counts, Right, Own
  <2>2. CASE at[q] = None
    <3>1. Own(q, t, below) = at[l] /\ at[l] \in 1 .. Slots /\ below[q] = None
      BY <1>1, <1>2, <1>3, <1>4, <2>2 DEF Own
    <3> DEFINE v == V(q, at[l])
    <3>2. v \in Vnode /\ v.dir = q /\ v.fs = at[l]
      BY <3>1, VnodeIs
    <3>3. ~Lives(v, at, below) /\ Present(v.fs, at, below)
      BY <1>1, <1>3, <2>2, <3>1, <3>2 DEF Lives, Present
    <3>4. c[v] = 0 /\ w[v] = 0
      BY <3>2, <3>3 DEF Counts, Blank
    <3> QED
      BY <3>1, <3>4
  <2> QED
    BY <2>1, <2>2
<1>6. Blank(t, below, c, w, used)
  <2> SUFFICES ASSUME NEW v \in Vnode, ~Lives(v, t, below),
                      Present(v.fs, t, below) \/ v.fs > used
               PROVE  c[v] = 0 /\ w[v] = 0
    BY DEF Blank
  <2>1. v.dir \in Dir /\ v.fs # None
    BY VnodeIs, Constants
  <2>2. ~Lives(v, at, below)
    BY <1>2, <2>1 DEF Lives
  <2>3. Present(v.fs, t, below) => Present(v.fs, at, below)
    BY <1>2, <1>3, <2>1 DEF Present
  <2> QED
    BY <2>2, <2>3 DEF Counts, Blank
<1>7. Counts(t, below, c, w, used)
  BY <1>5, <1>6 DEF Counts
<1> QED
  BY <1>7 DEF t

-----------------------------------------------------------------------------
(* Nodes that are given back.                                              *)

\* Nodes go from the bottom: no child is left behind.
LEMMA GoneTree ==
  ASSUME NEW u \in 0 .. Slots, NEW t, NEW b, Tree(t, b, u), NEW c, NEW p \in Dir,
         Kids(p, t) = {}, b[p] = None, \A q \in Dir \ {p} : b[q] = below[q]
  PROVE  /\ Tree(Without(t, Gone(p, t, c)), b, u)
         /\ \A q \in Gone(p, t, c) :
              q \in Dir \ {Root} /\ b[q] = None /\ (q = p \/ c[V(q, t[q])] = 0)
<1> DEFINE R == Gone(p, t, c)
           s == Without(t, R)
<1>1. \A q \in R : /\ q \in Chain(p) /\ q # Root
                   /\ \A x \in Chain(p) : x # p /\ Len(x) >= Len(q) => x \in R
                   /\ q = p \/ (below[q] = None /\ Kids(q, t) \subseteq Chain(p)
                                /\ c[V(q, t[q])] = 0)
  <2> SUFFICES ASSUME NEW q \in R
               PROVE  /\ q \in Chain(p) /\ q # Root
                      /\ \A x \in Chain(p) : x # p /\ Len(x) >= Len(q) => x \in R
                      /\ q = p \/ (below[q] = None /\ Kids(q, t) \subseteq Chain(p)
                                   /\ c[V(q, t[q])] = 0)
    OBVIOUS
  <2>1. /\ q \in Chain(p) /\ q # Root /\ Len(q) \in Nat
        /\ \A x \in Chain(p) \ {p} : Len(x) >= Len(q) => Idle(x, p, t, c)
    BY ChainLen DEF Gone
  <2>2. ASSUME NEW x \in Chain(p), x # p, Len(x) >= Len(q) PROVE x \in R
    <3>1. \A y \in Chain(p) \ {p} : Len(y) >= Len(x) => Len(y) >= Len(q)
      BY <2>1, <2>2, ChainLen
    <3>2. Idle(x, p, t, c)
      BY <2>1, <2>2
    <3> QED
      BY <2>1, <2>2, <3>1, <3>2 DEF Gone, Idle
  <2>3. q # p => Idle(q, p, t, c)
    BY <2>1
  <2> QED
    BY <2>1, <2>2, <2>3 DEF Idle
<1>2. R \subseteq Dir \ {Root} /\ \A q \in R : b[q] = None
  BY <1>1, ChainLen
<1>3. s = [q \in Dir |-> IF q \in R THEN None ELSE t[q]]
  BY DEF Without
<1> HIDE DEF R, s
<1>4. Covered(s, b, u)
  BY <1>2, <1>3 DEF Tree, Covered
<1>5. ASSUME NEW m \in R, NEW x \in Dir \ {Root}, t[x] # None, Front(x) = m
      PROVE  x \in R
  <2>1. x \in Kids(m, t)
    BY <1>5 DEF Kids
  <2>2. m # p /\ x \in Chain(p)
    BY <1>1, <2>1
  <2>3. x # p => Len(x) >= Len(m)
    BY <1>5, FrontChain
  <2>4. x # p => x \in R
    BY <1>1, <2>2, <2>3
  <2>5. x = p => x \in R
    <3> HAVE x = p
    <3>1. \A y \in Chain(p) \ {p} : ~(Len(y) >= Len(p))
      BY ChainEqual
    <3> QED
      BY <3>1, ChainSelf DEF R, Gone
  <2> QED
    BY <2>4, <2>5
<1>6. Hangs(s, b)
  <2> SUFFICES ASSUME NEW x \in Dir \ {Root}, s[x] # None
               PROVE  s[Front(x)] # None /\ Own(x, s, b) = s[Front(x)]
    BY DEF Hangs
  <2>1. Front(x) \in Dir /\ t[x] # None /\ s[x] = t[x] /\ x \notin R
    BY <1>3, FrontChain
  <2>2. t[Front(x)] # None /\ Own(x, t, b) = t[Front(x)]
    BY <2>1 DEF Tree, Hangs
  <2>3. Front(x) \notin R
    BY <1>5, <2>1
  <2> QED
    BY <1>3, <2>1, <2>2, <2>3 DEF Own
<1>7. Closed(s)
  <2> SUFFICES ASSUME NEW x \in Dir, s[x] # None, NEW y \in Chain(x), y \in R PROVE FALSE
    <3>1. \A x \in Dir : \A y \in Chain(x) : y \in Dir
      BY ChainLen
    <3> QED
      BY <1>3, <3>1 DEF Closed, Tree
  <2>1. t[x] # None /\ x \notin R /\ \A q \in Chain(x) : t[q] # None /\ q \in Dir
    BY <1>3, ChainLen DEF Tree, Closed
  <2> DEFINE A == Chain(x) \cap R
  <2>2. PICK m \in A : \A q \in A : Len(q) <= Len(m)
    BY Longest
  <2>3. PICK k \in Chain(x) : k # Root /\ k \in Dir /\ Front(k) = m /\ Len(k) = Len(m) + 1
    BY <2>1, <2>2, ChainDown
  <2>4. k \in R
    BY <1>5, <2>1, <2>2, <2>3
  <2>5. Len(k) <= Len(m) /\ Len(m) \in Nat
    BY <2>2, <2>3, <2>4, ChainLen
  <2> QED
    BY <2>3, <2>5
<1>8. Home(s, b)
  <2> SUFFICES ASSUME NEW x \in Dir, NEW q \in Dir,
                      MountOf(x, s, b), s[x] \in {s[q], b[q]}
               PROVE  x \in Chain(q)
    BY DEF Home
  <2>1. x \notin R /\ s[x] = t[x] /\ MountOf(x, t, b) /\ t[x] # None
    BY <1>2, <1>3, ChainSelf DEF MountOf, Tree, Covered
  <2>2. t[x] \in {t[q], b[q]}
    BY <1>3, <2>1
  <2> QED
    BY <2>1, <2>2 DEF Tree, Home
<1>9. Tree(s, b, u)
  BY <1>4, <1>6, <1>7, <1>8 DEF Tree
<1> QED
  BY <1>1, <1>2, <1>9 DEF R, s

\* Nodes that nobody counts may go.
LEMMA GoneCounts ==
  ASSUME NEW u \in 0 .. Slots, NEW t, NEW b, Tree(t, b, u),
         NEW c, NEW w, Counts(t, b, c, w, u),
         NEW R \in SUBSET (Dir \ {Root}),
         \A q \in R : b[q] = None /\ (t[q] # None => c[V(q, t[q])] = 0)
  PROVE  /\ Counts(Without(t, R), b, c, w, u)
         /\ \A q \in R : t[q] # None => w[V(q, t[q])] = 0
<1> DEFINE s == Without(t, R)
<1>1. s = [q \in Dir |-> IF q \in R THEN None ELSE t[q]]
  BY DEF Without
<1> HIDE DEF s
<1>2. t \in [Dir -> (1 .. Slots) \cup {None}] /\ b \in [Dir -> (1 .. Slots) \cup {None}]
  BY Constants DEF Tree, Covered
<1>3. \A q \in R : t[q] # None => w[V(q, t[q])] = 0
  BY DEF Counts, Right, Own
<1>4. Right(s, b, c, w)
  BY <1>1 DEF Counts, Right, Own
<1>5. Blank(s, b, c, w, u)
  <2> SUFFICES ASSUME NEW v \in Vnode, ~Lives(v, s, b),
                      Present(v.fs, s, b) \/ v.fs > u
               PROVE  c[v] = 0 /\ w[v] = 0
    BY DEF Blank
  <2>1. v.dir \in Dir /\ v.fs \in 1 .. Slots /\ v.fs # None /\ v = V(v.dir, v.fs)
    BY VnodeIs, Constants
  <2>2. Present(v.fs, s, b) => Present(v.fs, t, b)
    BY <1>1, <2>1 DEF Present
  <2>3. CASE Lives(v, t, b)
    <3>1. v.dir \in R /\ v.fs = t[v.dir]
      BY <1>1, <2>1, <2>3 DEF Lives
    <3> QED
      BY <1>3, <2>1, <3>1
  <2>4. CASE ~Lives(v, t, b)
    BY <2>2, <2>4 DEF Counts, Blank
  <2> QED
    BY <2>3, <2>4
<1>6. Counts(s, b, c, w, u)
  BY <1>4, <1>5 DEF Counts
<1> QED
  BY <1>3, <1>6 DEF s

-----------------------------------------------------------------------------
(* Counting.                                                               *)

\* One more user of a vnode that is attached.
LEMMA RefCounts ==
  ASSUME NEW u \in 0 .. Slots, NEW t, NEW b, Tree(t, b, u),
         NEW c, NEW w, Counts(t, b, c, w, u),
         NEW v \in Vnode, Lives(v, t, b), w[v] + 1 < Word
  PROVE  Counts(t, b, Ref(v, c), More(w, v), u)
<1> DEFINE d == Ref(v, c)
           x == More(w, v)
<1>1. c \in [Vnode -> 0 .. Word - 1] /\ w \in [Vnode -> Nat] /\ Word \in Nat
  BY Constants DEF Counts
<1>2. /\ d \in [Vnode -> 0 .. Word - 1] /\ x \in [Vnode -> Nat]
      /\ \A k \in Vnode \ {v} : d[k] = c[k] /\ x[k] = w[k]
      /\ v.dir # Root /\ c[v] = w[v] => d[v] = x[v]
  <2>1. \A n \in 0 .. Word - 1 : (n + 1) % Word \in 0 .. Word - 1 /\ (n + 1 < Word => (n + 1) % Word = n + 1)
    BY <1>1
  <2> QED
    BY <1>1, <2>1 DEF Ref, More
<1> HIDE DEF d, x
<1>3. \A q \in Dir : t[q] # None => Own(q, t, b) \in 1 .. Slots
  BY Constants DEF Own, Tree, Covered
<1>4. Right(t, b, d, x)
  <2> SUFFICES ASSUME NEW q \in Dir \ {Root}, t[q] # None
               PROVE  d[V(q, Own(q, t, b))] = x[V(q, Own(q, t, b))]
    BY DEF Right
  <2>1. V(q, Own(q, t, b)) \in Vnode /\ V(q, Own(q, t, b)).dir = q
    BY <1>3, VnodeIs
  <2>2. c[V(q, Own(q, t, b))] = w[V(q, Own(q, t, b))]
    BY DEF Counts, Right
  <2> QED
    BY <1>2, <2>1, <2>2
<1>5. Blank(t, b, d, x, u)
  BY <1>2 DEF Counts, Blank
<1>6. Counts(t, b, d, x, u)
  BY <1>2, <1>4, <1>5 DEF Counts
<1> QED
  BY <1>6 DEF d, x

\* One user less of a vnode that is attached: if the program goes on, the counts
\* are right, nodes go only if nobody uses them, and mount points stay.
LEMMA UnrefKeeps ==
  ASSUME used \in 0 .. Slots, NEW t, Tree(t, below, used),
         NEW c, NEW w, Counts(t, below, c, w, used),
         NEW v \in Vnode, Lives(v, t, below), w[v] > 0,
         Unref(v, t, c)
  PROVE  LET x == Less(w, v)
         IN /\ Tree(at', below, used) /\ Counts(at', below, ref', x, used)
            /\ \A q \in Dir : MountOf(q, t, below) => at'[q] = t[q]
            /\ \A k \in Vnode : Lives(k, t, below) => Lives(k, at', below) \/ x[k] = 0
            /\ halt' \in {halt, "assert"}
<1> DEFINE x == Less(w, v)
           d == [c EXCEPT ![v] = @ - 1]
           R == Gone(v.dir, t, d)
<1>0. v.dir \in Dir /\ v.fs \in 1 .. Slots /\ v = V(v.dir, v.fs) /\ v.fs # None
  BY VnodeIs, Constants
<1>1. /\ c \in [Vnode -> 0 .. Word - 1] /\ w \in [Vnode -> Nat] /\ Word \in Nat
      /\ w[v] \in Nat
  BY Constants DEF Counts
<1>2. x \in [Vnode -> Nat] /\ \A k \in Vnode \ {v} : x[k] = w[k]
  BY <1>1 DEF Less
<1>3. x[v] = w[v] - 1
  BY <1>1 DEF Less
<1>4. \A q \in Dir : t[q] # None => Own(q, t, below) \in 1 .. Slots
  BY Constants DEF Own, Tree, Covered
<1>5. \A q \in Dir \ {Root} : t[q] # None =>
        /\ V(q, Own(q, t, below)) \in Vnode /\ V(q, Own(q, t, below)).dir = q
        /\ V(q, Own(q, t, below)).fs = Own(q, t, below)
        /\ c[V(q, Own(q, t, below))] = w[V(q, Own(q, t, below))]
  BY <1>4, VnodeIs DEF Counts, Right
<1>6. t[v.dir] # None
  BY <1>0 DEF Lives, Tree, Covered
<1> HIDE DEF x
<1>7. ASSUME at' = t, ref' = c, halt' \in {halt, "assert"}, v.dir = Root \/ c[v] = 0
      PROVE  /\ Tree(at', below, used) /\ Counts(at', below, ref', x, used)
             /\ \A q \in Dir : MountOf(q, t, below) => at'[q] = t[q]
             /\ \A k \in Vnode : Lives(k, t, below) => Lives(k, at', below) \/ x[k] = 0
             /\ halt' \in {halt, "assert"}
  <2>1. Right(t, below, c, x)
    <3> SUFFICES ASSUME NEW q \in Dir \ {Root}, t[q] # None
                 PROVE  c[V(q, Own(q, t, below))] = x[V(q, Own(q, t, below))]
      BY DEF Right
    <3>1. V(q, Own(q, t, below)) # v
      BY <1>1, <1>5, <1>7
    <3> QED
      BY <1>2, <1>5, <3>1
  <2>2. Blank(t, below, c, x, used)
    BY <1>2 DEF Counts, Blank
  <2> QED
    BY <1>2, <1>7, <2>1, <2>2 DEF Counts
<1>8. ASSUME v.dir # Root, c[v] # 0
      PROVE  Counts(t, below, d, x, used) /\ d[v] = c[v] - 1
  <2>1. /\ d \in [Vnode -> 0 .. Word - 1] /\ d[v] = c[v] - 1
        /\ \A k \in Vnode \ {v} : d[k] = c[k]
    BY <1>1, <1>8
  <2> HIDE DEF d
  <2>2. Right(t, below, d, x)
    BY <1>1, <1>2, <1>3, <1>5, <2>1 DEF Right
  <2>3. Blank(t, below, d, x, used)
    BY <1>2, <2>1 DEF Counts, Blank
  <2> QED
    BY <1>2, <2>1, <2>2, <2>3 DEF Counts
<1>9. CASE v.dir = Root
  BY <1>7, <1>9 DEF Unref, x
<1>10. CASE v.dir # Root /\ c[v] = 0
  <2>1. at' = t /\ ref' = c /\ halt' \in {halt, "assert"}
    BY <1>10 DEF Unref
  <2> QED
    BY <1>7, <1>10, <2>1 DEF x
<1>11. CASE v.dir # Root /\ c[v] # 0
  <2>1. ref' = d /\ halt' = halt
    BY <1>11 DEF Unref
  <2>2. Counts(t, below, d, x, used)
    BY <1>8, <1>11
  <2>3. CASE ~(d[v] = 0 /\ Kids(v.dir, t) = {} /\ below[v.dir] = None)
    <3>1. at' = t
      BY <1>11, <2>3 DEF Unref
    <3> QED
      BY <2>1, <2>2, <3>1 DEF x
  <2>4. CASE d[v] = 0 /\ Kids(v.dir, t) = {} /\ below[v.dir] = None
    <3>1. at' = Without(t, R)
      BY <1>11, <2>4 DEF Unref
    <3> HIDE DEF d
    <3>2. /\ Tree(Without(t, R), below, used)
          /\ \A q \in R :
               q \in Dir \ {Root} /\ below[q] = None /\ (q = v.dir \/ d[V(q, t[q])] = 0)
      <4>1. /\ v.dir \in Dir /\ Kids(v.dir, t) = {} /\ below[v.dir] = None
            /\ \A q \in Dir \ {v.dir} : below[q] = below[q]
        BY <1>0, <2>4
      <4> QED
        BY <4>1, GoneTree
    <3>3. \A q \in R : q \in Dir \ {Root} /\ below[q] = None /\ (q = v.dir \/ d[V(q, t[q])] = 0)
      BY <3>2
    <3>4. v.fs = t[v.dir]
      BY <1>0, <2>4 DEF Lives
    <3>5. \A q \in R : below[q] = None /\ (t[q] # None => d[V(q, t[q])] = 0)
      BY <1>0, <2>4, <3>3, <3>4
    <3> HIDE DEF R
    <3>6. /\ Counts(Without(t, R), below, d, x, used)
          /\ \A q \in R : t[q] # None => x[V(q, t[q])] = 0
      BY <2>2, <3>3, <3>5, GoneCounts
    <3>7. ASSUME NEW q \in Dir, MountOf(q, t, below) PROVE at'[q] = t[q]
      BY <3>1, <3>3, <3>7 DEF MountOf, Without
    <3>8. ASSUME NEW k \in Vnode, Lives(k, t, below), ~Lives(k, at', below) PROVE x[k] = 0
      <4>1. k.dir \in Dir /\ k.fs # None /\ k = V(k.dir, k.fs)
        BY VnodeIs, Constants
      <4>2. k.dir \in R /\ k.fs = t[k.dir]
        BY <3>1, <3>3, <3>8, <4>1 DEF Lives, Without
      <4> QED
        BY <3>6, <4>1, <4>2
    <3> QED
      BY <2>1, <3>1, <3>2, <3>6, <3>7, <3>8 DEF x
  <2> QED
    BY <2>3, <2>4
<1> QED
  BY <1>9, <1>10, <1>11

-----------------------------------------------------------------------------
(* Mounting.                                                               *)

\* The root of a new file system covers a directory without children.
LEMMA CoverKeeps ==
  ASSUME NEW u \in 0 .. Slots, u < Slots, NEW t, NEW b, Tree(t, b, u),
         NEW p \in Dir, t[p] # None \/ p = Root,
         Kids(p, t) = {}, ~MountOf(p, t, b), NEW j \in 0 .. Word - 1
  PROVE  LET s == [t EXCEPT ![p] = u + 1]
             a == [b EXCEPT ![p] = t[p]]
         IN /\ Tree(s, a, u + 1)
            /\ \A c, w : Counts(t, b, c, w, u) =>
                           Counts(s, a, [c EXCEPT ![V(p, u + 1)] = j], w, u + 1)
<1> DEFINE s == [t EXCEPT ![p] = u + 1]
           a == [b EXCEPT ![p] = t[p]]
<1>1. /\ t \in [Dir -> (1 .. u) \cup {None}] /\ b \in [Dir -> (1 .. u) \cup {None}]
      /\ u \in Nat /\ u + 1 \in 1 .. Slots /\ None \notin 1 .. Slots
      /\ 1 .. u \subseteq 1 .. (u + 1) /\ 1 .. u \subseteq 1 .. Slots
      /\ u + 1 \notin 1 .. u
  BY Constants DEF Tree, Covered
<1>2. /\ s \in [Dir -> (1 .. (u + 1)) \cup {None}] /\ a \in [Dir -> (1 .. (u + 1)) \cup {None}]
      /\ s[p] = u + 1 /\ a[p] = t[p] /\ b[p] = None
      /\ \A q \in Dir \ {p} : s[q] = t[q] /\ a[q] = b[q]
      /\ u + 1 # None /\ t[p] # u + 1
  BY <1>1 DEF MountOf
<1> HIDE DEF s, a
<1>3. Covered(s, a, u + 1)
  BY <1>2 DEF Covered, Tree
<1>4. p = Root => \A q \in Dir : t[q] = None
  BY ChainSelf DEF MountOf, Tree, Closed
<1>5. Closed(s)
  <2> SUFFICES ASSUME NEW x \in Dir, s[x] # None, NEW q \in Chain(x) PROVE s[q] # None
    BY DEF Closed
  <2>1. q \in Dir
    BY ChainLen
  <2>2. CASE t[x] # None
    <3>1. t[q] # None
      BY <2>2 DEF Tree, Closed
    <3> QED
      BY <1>2, <2>1, <3>1
  <2>3. CASE t[x] = None
    <3>1. x = p /\ x = Root
      BY <1>2, <2>3
    <3>2. q = Root
      BY <2>1, <3>1, ChainEqual, RootLen, ChainLen
    <3> QED
      BY <1>2, <3>1, <3>2
  <2> QED
    BY <2>2, <2>3
<1>6. Hangs(s, a)
  <2> SUFFICES ASSUME NEW x \in Dir \ {Root}, s[x] # None
               PROVE  s[Front(x)] # None /\ Own(x, s, a) = s[Front(x)]
    BY DEF Hangs
  <2>1. Front(x) \in Dir
    BY FrontChain
  <2>2. t[x] # None
    BY <1>2
  <2>3. t[Front(x)] # None /\ Own(x, t, b) = t[Front(x)]
    BY <2>2 DEF Tree, Hangs
  <2>4. Front(x) # p
    BY <2>2 DEF Kids
  <2> QED
    BY <1>2, <2>1, <2>2, <2>3, <2>4 DEF Own
<1>7. Home(s, a)
  <2> SUFFICES ASSUME NEW x \in Dir, NEW q \in Dir,
                      MountOf(x, s, a), s[x] \in {s[q], a[q]}
               PROVE  x \in Chain(q)
    BY DEF Home
  <2>1. CASE x = p
    <3>1. q = p
      BY <1>1, <1>2, <2>1
    <3> QED
      BY <2>1, <3>1, ChainSelf
  <2>2. CASE x # p
    <3>1. MountOf(x, t, b) /\ s[x] = t[x] /\ t[x] # None
      BY <1>2, <2>2, ChainSelf DEF MountOf, Tree, Covered
    <3>2. t[x] \in {t[q], b[q]}
      BY <1>1, <1>2, <3>1
    <3> QED
      BY <3>1, <3>2 DEF Tree, Home
  <2> QED
    BY <2>1, <2>2
<1>8. ASSUME NEW c, NEW w, Counts(t, b, c, w, u)
      PROVE  Counts(s, a, [c EXCEPT ![V(p, u + 1)] = j], w, u + 1)
  <2> DEFINE v == V(p, u + 1)
             d == [c EXCEPT ![v] = j]
  <2>1. v \in Vnode /\ v.dir = p /\ v.fs = u + 1
    BY <1>1, VnodeIs
  <2>2. d \in [Vnode -> 0 .. Word - 1] /\ \A k \in Vnode \ {v} : d[k] = c[k]
    BY <1>8 DEF Counts
  <2> HIDE DEF d, v
  <2>3. Right(s, a, d, w)
    <3> SUFFICES ASSUME NEW q \in Dir \ {Root}, s[q] # None
                 PROVE  d[V(q, Own(q, s, a))] = w[V(q, Own(q, s, a))]
      BY DEF Right
    <3>1. t[q] # None /\ Own(q, s, a) = Own(q, t, b) /\ Own(q, t, b) \in 1 .. u
      BY <1>1, <1>2 DEF Own
    <3>2. V(q, Own(q, t, b)) \in Vnode \ {v}
      BY <1>1, <2>1, <3>1, VnodeIs
    <3> QED
      BY <1>8, <2>2, <3>1, <3>2 DEF Counts, Right
  <2>4. Blank(s, a, d, w, u + 1)
    <3> SUFFICES ASSUME NEW k \in Vnode, ~Lives(k, s, a),
                        Present(k.fs, s, a) \/ k.fs > u + 1
                 PROVE  d[k] = 0 /\ w[k] = 0
      BY DEF Blank
    <3>1. k.dir \in Dir /\ k.fs \in 1 .. Slots /\ k.fs # None /\ k.fs \in Nat
      BY <1>1, VnodeIs
    <3>2. k # v
      BY <1>2, <2>1 DEF Lives
    <3>3. ~Lives(k, t, b)
      <4>1. CASE k.dir = p
        BY <1>2, <3>1, <4>1 DEF Lives
      <4>2. CASE k.dir # p
        BY <1>2, <3>1, <4>2 DEF Lives
      <4> QED
        BY <4>1, <4>2
    <3>4. Present(k.fs, t, b) \/ k.fs > u
      <4>1. CASE k.fs > u
        BY <4>1
      <4>2. CASE ~(k.fs > u)
        <5>1. k.fs # u + 1 /\ ~(k.fs > u + 1)
          BY <1>1, <3>1, <4>2
        <5>2. PICK q \in Dir : k.fs \in {s[q], a[q]}
          BY <5>1 DEF Present
        <5>3. k.fs \in {t[q], b[q]}
          BY <1>2, <5>1, <5>2
        <5> QED
          BY <5>3 DEF Present
      <4> QED
        BY <4>1, <4>2
    <3> QED
      BY <1>8, <2>2, <3>2, <3>3, <3>4 DEF Counts, Blank
  <2>5. Counts(s, a, d, w, u + 1)
    BY <1>8, <2>2, <2>3, <2>4 DEF Counts
  <2> QED
    BY <2>5 DEF d, v
<1> QED
  BY <1>3, <1>5, <1>6, <1>7, <1>8 DEF Tree, s, a

\* A mounted file system without nodes below its root uncovers the directory.
\* No vnode of it is left attached, so whatever counts and users its root has no
\* longer matter.
LEMMA UncoverKeeps ==
  ASSUME NEW u \in 0 .. Slots, NEW t, NEW b, Tree(t, b, u),
         NEW p \in Dir, MountOf(p, t, b), Kids(p, t) = {}
  PROVE  LET s == [t EXCEPT ![p] = b[p]]
             a == [b EXCEPT ![p] = None]
             top == V(p, t[p])
         IN /\ Tree(s, a, u) /\ t[p] # None /\ top \in Vnode
            /\ \A c, w : \A n \in Nat : Counts(t, b, c, w, u) =>
                 Counts(s, a, [c EXCEPT ![top] = 0], [w EXCEPT ![top] = n], u)
<1> DEFINE s == [t EXCEPT ![p] = b[p]]
           a == [b EXCEPT ![p] = None]
           top == V(p, t[p])
<1>1. /\ t \in [Dir -> (1 .. u) \cup {None}] /\ b \in [Dir -> (1 .. u) \cup {None}]
      /\ u \in Nat /\ None \notin 1 .. Slots
      /\ 1 .. u \subseteq 1 .. Slots /\ Word \in Nat \ {0}
  BY Constants, MountAssumption DEF Tree, Covered
<1>2. t[p] # None /\ t[p] \in 1 .. u /\ b[p] # t[p]
  BY <1>1 DEF MountOf, Tree, Covered
<1>3. /\ s \in [Dir -> (1 .. u) \cup {None}] /\ a \in [Dir -> (1 .. u) \cup {None}]
      /\ s[p] = b[p] /\ a[p] = None
      /\ \A q \in Dir \ {p} : s[q] = t[q] /\ a[q] = b[q]
  BY <1>1
<1>4. top \in Vnode /\ top.dir = p /\ top.fs = t[p]
  BY <1>1, <1>2, VnodeIs
<1> HIDE DEF s, a, top
<1>5. \A q \in Dir : t[q] # None /\ p \in Chain(q) => q = p
  BY Leaf DEF Tree
<1>6. ~Present(t[p], s, a)
  <2> SUFFICES ASSUME NEW q \in Dir, t[p] \in {s[q], a[q]} PROVE FALSE
    BY DEF Present
  <2>1. q # p
    BY <1>2, <1>3
  <2>2. t[p] \in {t[q], b[q]}
    BY <1>3, <2>1
  <2>3. p \in Chain(q) /\ t[q] # None
    BY <1>2, <2>2 DEF Tree, Home, Covered
  <2> QED
    BY <1>5, <2>1, <2>3
<1>7. Covered(s, a, u)
  BY <1>3 DEF Covered, Tree
<1>8. Closed(s)
  <2> SUFFICES ASSUME NEW x \in Dir, s[x] # None, NEW q \in Chain(x) PROVE s[q] # None
    BY DEF Closed
  <2>1. q \in Dir
    BY ChainLen
  <2>2. t[x] # None
    BY <1>2, <1>3
  <2>3. t[q] # None
    BY <2>2 DEF Tree, Closed
  <2>4. q = p => x = p
    BY <1>5, <2>2
  <2> QED
    BY <1>3, <2>1, <2>3, <2>4
<1>9. Hangs(s, a)
  <2> SUFFICES ASSUME NEW x \in Dir \ {Root}, s[x] # None
               PROVE  s[Front(x)] # None /\ Own(x, s, a) = s[Front(x)]
    BY DEF Hangs
  <2>1. Front(x) \in Dir
    BY FrontChain
  <2>2. t[x] # None
    BY <1>2, <1>3
  <2>3. t[Front(x)] # None /\ Own(x, t, b) = t[Front(x)]
    BY <2>2 DEF Tree, Hangs
  <2>4. Front(x) # p
    BY <2>2 DEF Kids
  <2>5. Own(x, s, a) = Own(x, t, b)
    BY <1>3 DEF Own
  <2> QED
    BY <1>3, <2>1, <2>3, <2>4, <2>5
<1>10. Home(s, a)
  <2> SUFFICES ASSUME NEW x \in Dir, NEW q \in Dir,
                      MountOf(x, s, a), s[x] \in {s[q], a[q]}
               PROVE  x \in Chain(q)
    BY DEF Home
  <2>1. CASE x = p
    BY <1>3, <2>1, RootLen DEF MountOf
  <2>2. CASE x # p
    <3>1. MountOf(x, t, b) /\ s[x] = t[x] /\ t[x] # None
      BY <1>3, <2>2, ChainSelf DEF MountOf, Tree, Covered
    <3>2. t[x] \in {t[q], b[q]}
      BY <1>3, <3>1
    <3> QED
      BY <3>1, <3>2 DEF Tree, Home
  <2> QED
    BY <2>1, <2>2
<1>11. ASSUME NEW c, NEW w, NEW n \in Nat, Counts(t, b, c, w, u)
       PROVE  Counts(s, a, [c EXCEPT ![top] = 0], [w EXCEPT ![top] = n], u)
  <2> DEFINE d == [c EXCEPT ![top] = 0]
             x == [w EXCEPT ![top] = n]
  <2>1. /\ d \in [Vnode -> 0 .. Word - 1] /\ x \in [Vnode -> Nat]
        /\ \A k \in Vnode \ {top} : d[k] = c[k] /\ x[k] = w[k]
    <3>1. 0 \in 0 .. Word - 1
      BY <1>1
    <3>2. c \in [Vnode -> 0 .. Word - 1] /\ w \in [Vnode -> Nat]
      BY <1>11 DEF Counts
    <3> QED
      BY <1>4, <3>1, <3>2
  <2> HIDE DEF d, x
  <2>2. Right(s, a, d, x)
    <3> SUFFICES ASSUME NEW q \in Dir \ {Root}, s[q] # None
                 PROVE  d[V(q, Own(q, s, a))] = x[V(q, Own(q, s, a))]
      BY DEF Right
    <3>1. t[q] # None /\ Own(q, s, a) = Own(q, t, b) /\ Own(q, t, b) \in 1 .. u
      BY <1>1, <1>2, <1>3 DEF Own
    <3>2. Own(q, t, b) # t[p] \/ q # p
      BY <1>2, <1>3, <3>1 DEF Own
    <3>3. V(q, Own(q, t, b)) \in Vnode \ {top}
      BY <1>1, <1>4, <3>1, <3>2, VnodeIs
    <3> QED
      BY <1>11, <2>1, <3>1, <3>3 DEF Counts, Right
  <2>3. Blank(s, a, d, x, u)
    <3> SUFFICES ASSUME NEW k \in Vnode, ~Lives(k, s, a),
                        Present(k.fs, s, a) \/ k.fs > u
                 PROVE  d[k] = 0 /\ x[k] = 0
      BY DEF Blank
    <3>1. k.dir \in Dir /\ k.fs \in 1 .. Slots /\ k.fs # None
      BY <1>1, VnodeIs
    <3>2. k.fs # t[p]
      BY <1>2, <1>6, <1>1
    <3>3. k # top
      BY <1>4, <3>2
    <3>4. ~Lives(k, t, b)
      BY <1>3, <3>1, <3>2 DEF Lives
    <3>5. Present(k.fs, s, a) => Present(k.fs, t, b)
      <4> SUFFICES ASSUME NEW q \in Dir, k.fs \in {s[q], a[q]} PROVE k.fs \in {t[q], b[q]}
        BY DEF Present
      <4> QED
        BY <1>3, <3>1
    <3> QED
      BY <1>11, <2>1, <3>3, <3>4, <3>5 DEF Counts, Blank
  <2>4. Counts(s, a, d, x, u)
    BY <1>11, <2>1, <2>2, <2>3 DEF Counts
  <2> QED
    BY <2>4 DEF d, x
<1> QED
  BY <1>2, <1>4, <1>7, <1>8, <1>9, <1>10, <1>11 DEF Tree, s, a, top

-----------------------------------------------------------------------------
(* Users.                                                                  *)

UsersOf(v, f, d) == {h \in Handle : f[h] = v} \cup (IF d = v THEN {"cwd"} ELSE {})

Number(f, d) == [v \in Vnode |-> Cardinality(UsersOf(v, f, d))]

\* Users are finite, and fewer than the counts can hold.
LEMMA UsersFinite ==
  ASSUME NEW v, NEW f, NEW d
  PROVE  /\ IsFiniteSet(UsersOf(v, f, d)) /\ Cardinality(UsersOf(v, f, d)) \in Nat
         /\ Cardinality(UsersOf(v, f, d)) + 1 < Word
<1>1. UsersOf(v, f, d) \in SUBSET (Handle \cup {"cwd"})
  BY DEF UsersOf
<1>2. IsFiniteSet(Handle) /\ Cardinality(Handle) + 2 < Word /\ Word \in Nat
  BY MountAssumption
<1>3. /\ IsFiniteSet(Handle \cup {"cwd"})
      /\ Cardinality(Handle \cup {"cwd"}) <= Cardinality(Handle) + 1
      /\ Cardinality(Handle) \in Nat
  <2>1. Cardinality(Handle) \in Nat
    BY <1>2, FS_CardinalityType
  <2>2. /\ IsFiniteSet(Handle \cup {"cwd"})
        /\ Cardinality(Handle \cup {"cwd"}) = Cardinality(Handle) + 1
    BY MountAssumption, FS_AddElement
  <2> QED
    BY <2>1, <2>2
<1>4. /\ IsFiniteSet(UsersOf(v, f, d))
      /\ Cardinality(UsersOf(v, f, d)) <= Cardinality(Handle \cup {"cwd"})
  BY <1>1, <1>3, FS_Subset
<1>5. Cardinality(UsersOf(v, f, d)) \in Nat /\ Cardinality(Handle \cup {"cwd"}) \in Nat
  BY <1>3, <1>4, FS_CardinalityType
<1> QED
  BY <1>2, <1>3, <1>4, <1>5

\* A vnode has users exactly if their number is not 0.
LEMMA NumberIs ==
  ASSUME NEW f, NEW d
  PROVE  /\ Number(f, d) \in [Vnode -> Nat]
         /\ \A v \in Vnode : /\ Number(f, d)[v] + 1 < Word
                             /\ Number(f, d)[v] = 0 <=> UsersOf(v, f, d) = {}
         /\ d \in Vnode => Number(f, d)[d] > 0
         /\ \A h \in Handle : f[h] \in Vnode => Number(f, d)[f[h]] > 0
<1>1. ASSUME NEW v \in Vnode
      PROVE  /\ Number(f, d)[v] \in Nat /\ Number(f, d)[v] + 1 < Word
             /\ Number(f, d)[v] = 0 <=> UsersOf(v, f, d) = {}
  BY UsersFinite, FS_EmptySet DEF Number
<1>2. Number(f, d) \in [Vnode -> Nat]
  BY <1>1 DEF Number
<1>3. d \in Vnode => Number(f, d)[d] > 0
  <2> HAVE d \in Vnode
  <2>1. UsersOf(d, f, d) # {}
    BY DEF UsersOf
  <2> QED
    BY <1>1, <2>1
<1>4. ASSUME NEW h \in Handle, f[h] \in Vnode PROVE Number(f, d)[f[h]] > 0
  <2>1. UsersOf(f[h], f, d) # {}
    BY DEF UsersOf
  <2> QED
    BY <1>1, <1>4, <2>1
<1> QED
  BY <1>1, <1>2, <1>3, <1>4

\* One less undoes one more.
LEMMA OneLess ==
  ASSUME NEW x \in [Vnode -> Nat], NEW v \in Vnode
  PROVE  Less(More(x, v), v) = x
<1> DEFINE y == More(x, v)
           z == Less(y, v)
<1>1. x[v] \in Nat
  OBVIOUS
<1>2. y \in [Vnode -> Nat] /\ y[v] = x[v] + 1 /\ \A k \in Vnode \ {v} : y[k] = x[k]
  BY <1>1 DEF More
<1> HIDE DEF y
<1>3. z \in [Vnode -> Nat] /\ \A k \in Vnode : z[k] = x[k]
  BY <1>1, <1>2 DEF Less
<1> HIDE DEF z
<1>4. x = [k \in Vnode |-> x[k]] /\ z = [k \in Vnode |-> z[k]]
  BY <1>3
<1>5. x = z
  BY <1>3, <1>4
<1> QED
  BY <1>5 DEF y, z

\* A handle that is opened is one user more.
LEMMA OpenNumber ==
  ASSUME NEW f \in [Handle -> Vnode \cup {None}], NEW d, NEW h \in Handle, f[h] = None,
         NEW v \in Vnode, NEW g, g[h] = v, \A k \in Handle \ {h} : g[k] = f[k]
  PROVE  Number(g, d) = More(Number(f, d), v)
<1>1. ASSUME NEW k \in Vnode, k # v PROVE UsersOf(k, g, d) = UsersOf(k, f, d)
  BY <1>1, Constants DEF UsersOf
<1>2. UsersOf(v, g, d) = UsersOf(v, f, d) \cup {h} /\ h \notin UsersOf(v, f, d)
  BY Constants, MountAssumption DEF UsersOf
<1>3. Cardinality(UsersOf(v, g, d)) = Cardinality(UsersOf(v, f, d)) + 1
  <2>1. IsFiniteSet(UsersOf(v, f, d))
    BY UsersFinite
  <2> QED
    BY <1>2, <2>1, FS_AddElement
<1> QED
  BY <1>1, <1>3 DEF Number, More

\* A handle that is closed is one user less.
LEMMA CloseNumber ==
  ASSUME NEW f \in [Handle -> Vnode \cup {None}], NEW d, NEW h \in Handle, f[h] # None,
         NEW g \in [Handle -> Vnode \cup {None}], g[h] = None,
         \A k \in Handle \ {h} : g[k] = f[k]
  PROVE  Number(g, d) = Less(Number(f, d), f[h])
<1>1. f[h] \in Vnode
  OBVIOUS
<1>3. Number(f, d) = More(Number(g, d), f[h])
  BY <1>1, OpenNumber
<1>4. Number(g, d) \in [Vnode -> Nat]
  BY NumberIs
<1> QED
  BY <1>1, <1>3, <1>4, OneLess

\* So is the working directory.
LEMMA CwdNumber ==
  ASSUME NEW f, NEW v \in Vnode
  PROVE  /\ Number(f, v) = More(Number(f, None), v)
         /\ Number(f, None) = Less(Number(f, v), v)
<1>1. ASSUME NEW k \in Vnode, k # v PROVE UsersOf(k, f, v) = UsersOf(k, f, None)
  BY <1>1, Constants DEF UsersOf
<1>2. UsersOf(v, f, v) = UsersOf(v, f, None) \cup {"cwd"} /\ "cwd" \notin UsersOf(v, f, None)
  BY Constants, MountAssumption DEF UsersOf
<1>3. Cardinality(UsersOf(v, f, v)) = Cardinality(UsersOf(v, f, None)) + 1
  <2>1. IsFiniteSet(UsersOf(v, f, None))
    BY UsersFinite
  <2> QED
    BY <1>2, <2>1, FS_AddElement
<1>4. Number(f, v) = More(Number(f, None), v)
  BY <1>1, <1>3 DEF Number, More
<1>5. Number(f, None) \in [Vnode -> Nat]
  BY NumberIs
<1> QED
  BY <1>4, <1>5, OneLess

-----------------------------------------------------------------------------
(* The invariant, and what a step may not do.                              *)

\* The nodes are a tree as long as they last; the counts are right and the
\* working directory is attached while the program runs.
IInv ==
  /\ used \in 0 .. Slots /\ Tree(at, below, used) /\ ref \in [Vnode -> 0 .. Word - 1]
  /\ cwd \in Vnode \cup {None} /\ fd \in [Handle -> Vnode \cup {None}]
  /\ halt \in {"run", "assert", "abort", "stray"}
  /\ halt = "run" => /\ Counts(at, below, ref, Number(fd, cwd), used)
                     /\ cwd # None => Lives(cwd, at, below)

MountsKeep ==
  \A p \in Dir : IsMount(p) => vfs_umount(p) \/ (at'[p] = at[p] /\ below'[p] = below[p])

UsersKeep ==
  \A v \in Vnode :
    Users(v) \cap Users(v)' # {} /\ Alive(v) /\ halt' = "run" =>
      \/ Alive(v)'
      \/ IsMount(v.dir) /\ at[v.dir] = v.fs /\ cwd' # v

Good == IInv' /\ MountsKeep /\ UsersKeep

\* The operators of this module are those of the model.
LEMMA Same ==
  /\ \A v : Alive(v) <=> Lives(v, at, below)
  /\ \A p : IsMount(p) <=> MountOf(p, at, below)
  /\ \A v : Users(v) = UsersOf(v, fd, cwd)
BY DEF Alive, Lives, IsMount, MountOf, Users, UsersOf

\* What has to be shown of a call.
LEMMA Done ==
  ASSUME used' \in 0 .. Slots, Tree(at', below', used'), ref' \in [Vnode -> 0 .. Word - 1],
         cwd' \in Vnode \cup {None}, fd' \in [Handle -> Vnode \cup {None}],
         halt' \in {"run", "assert", "abort", "stray"},
         halt' = "run" =>
           /\ Counts(at', below', ref', Number(fd', cwd'), used')
           /\ cwd' # None => Lives(cwd', at', below'),
         \A p \in Dir : MountOf(p, at, below) =>
           vfs_umount(p) \/ (at'[p] = at[p] /\ below'[p] = below[p]),
         halt' = "run" =>
           \A v \in Vnode : Lives(v, at, below) =>
             \/ Lives(v, at', below') \/ Number(fd', cwd')[v] = 0
             \/ MountOf(v.dir, at, below) /\ at[v.dir] = v.fs /\ cwd' # v
  PROVE  Good
<1>1. IInv'
  BY DEF IInv, Number, UsersOf, Tree, Covered, Closed, Hangs, Home, MountOf, Own, Kids,
         Counts, Right, Blank, Lives, Present
<1>2. MountsKeep
  BY Same DEF MountsKeep
<1>3. UsersKeep
  <2> SUFFICES ASSUME NEW v \in Vnode, Users(v) \cap Users(v)' # {}, Alive(v), halt' = "run"
               PROVE  Alive(v)' \/ (IsMount(v.dir) /\ at[v.dir] = v.fs /\ cwd' # v)
    BY DEF UsersKeep
  <2>1. Users(v)' = UsersOf(v, fd', cwd') /\ (Alive(v)' <=> Lives(v, at', below'))
    BY DEF Users, UsersOf, Alive, Lives
  <2>2. Number(fd', cwd')[v] # 0
    BY <2>1, NumberIs
  <2> QED
    BY <2>1, <2>2, Same
<1> QED
  BY <1>1, <1>2, <1>3 DEF Good

-----------------------------------------------------------------------------
(* Lookups and the calls that only look.                                   *)

\* What a lookup of p finds while the program runs.
LEMMA Looked ==
  ASSUME IInv, Mounted, NEW p \in Dir
  PROVE  LET t == Attach(p)
             v == V(p, t[p])
         IN /\ Tree(t, below, used) /\ Counts(t, below, ref, Number(fd, cwd), used)
            /\ v \in Vnode /\ Lives(v, t, below) /\ Number(fd, cwd)[v] + 1 < Word
            /\ \A k \in Vnode : Lives(k, at, below) => Lives(k, t, below)
            /\ \A q \in Dir : MountOf(q, at, below) => t[q] = at[q] /\ MountOf(q, t, below)
            /\ cwd # None => cwd \in Vnode /\ Lives(cwd, t, below)
<1> DEFINE t == Attach(p)
           v == V(p, t[p])
<1>1. /\ used \in 0 .. Slots /\ Tree(at, below, used) /\ at[Root] # None
      /\ Counts(at, below, ref, Number(fd, cwd), used)
      /\ cwd # None => cwd \in Vnode /\ Lives(cwd, at, below)
  BY DEF IInv, Mounted
<1>2. Tree(t, below, used) /\ Counts(t, below, ref, Number(fd, cwd), used)
  BY <1>1, AttachTree, AttachCounts
<1>3. \A q \in Dir : at[q] # None => t[q] = at[q]
  BY <1>1, AttachKeeps
<1>4. t[p] # None
  BY <1>1, AttachKeeps, ChainSelf
<1> HIDE DEF t
<1>5. t[p] \in 1 .. Slots
  BY <1>1, <1>2, <1>4, Constants DEF Tree, Covered
<1>6. v \in Vnode /\ Lives(v, t, below)
  BY <1>5, VnodeIs DEF Lives
<1>7. Number(fd, cwd)[v] + 1 < Word
  BY <1>6, NumberIs
<1>8. ASSUME NEW k \in Vnode, Lives(k, at, below) PROVE Lives(k, t, below)
  <2>1. k.dir \in Dir /\ k.fs # None
    BY VnodeIs, Constants
  <2>2. at[k.dir] # None
    BY <1>1, <1>8, <2>1 DEF Lives, Tree, Covered
  <2> QED
    BY <1>3, <1>8, <2>1, <2>2 DEF Lives
<1>9. ASSUME NEW q \in Dir, MountOf(q, at, below) PROVE t[q] = at[q] /\ MountOf(q, t, below)
  <2>1. at[q] # None
    BY <1>1, <1>9 DEF MountOf, Tree, Covered
  <2> QED
    BY <1>3, <1>9, <2>1 DEF MountOf
<1> QED
  BY <1>1, <1>2, <1>6, <1>7, <1>8, <1>9 DEF t

\* vfs_find only attaches nodes.
LEMMA FindGood ==
  ASSUME IInv, NEW p \in Dir, vfs_find(p)
  PROVE  Good
<1> DEFINE t == Attach(p)
<1>1. Mounted /\ at' = t /\ UNCHANGED <<used, below, ref, cwd, fd, halt>>
  BY DEF vfs_find
<1>2. /\ Tree(t, below, used) /\ Counts(t, below, ref, Number(fd, cwd), used)
      /\ \A k \in Vnode : Lives(k, at, below) => Lives(k, t, below)
      /\ \A q \in Dir : MountOf(q, at, below) => t[q] = at[q] /\ MountOf(q, t, below)
      /\ cwd # None => cwd \in Vnode /\ Lives(cwd, t, below)
  BY <1>1, Looked
<1> HIDE DEF t
<1> QED
  BY <1>1, <1>2, Done DEF IInv

\* vfs_stat counts the vnode and gives it back.
LEMMA StatGood ==
  ASSUME IInv, NEW p \in Dir, vfs_stat(p)
  PROVE  Good
<1> DEFINE t == Attach(p)
           v == V(p, t[p])
           w == Number(fd, cwd)
<1>1. Mounted /\ Unref(v, t, Ref(v, ref)) /\ UNCHANGED <<used, below, cwd, fd>>
  BY DEF vfs_stat
<1>2. /\ Tree(t, below, used) /\ Counts(t, below, ref, w, used)
      /\ v \in Vnode /\ Lives(v, t, below) /\ w[v] + 1 < Word
      /\ \A k \in Vnode : Lives(k, at, below) => Lives(k, t, below)
      /\ \A q \in Dir : MountOf(q, at, below) => t[q] = at[q] /\ MountOf(q, t, below)
      /\ cwd # None => cwd \in Vnode /\ Lives(cwd, t, below)
  BY <1>1, Looked
<1> HIDE DEF t, v
<1>3. used \in 0 .. Slots /\ w \in [Vnode -> Nat]
  BY NumberIs DEF IInv
<1>4. Less(More(w, v), v) = w
  BY <1>2, <1>3, OneLess
<1>5. Counts(t, below, Ref(v, ref), More(w, v), used)
  BY <1>2, <1>3, RefCounts
<1>6. More(w, v)[v] > 0
  BY <1>2, <1>3 DEF More
<1>7. /\ Tree(at', below, used) /\ Counts(at', below, ref', w, used)
      /\ \A q \in Dir : MountOf(q, t, below) => at'[q] = t[q]
      /\ \A k \in Vnode : Lives(k, t, below) => Lives(k, at', below) \/ w[k] = 0
      /\ halt' \in {halt, "assert"}
  BY <1>1, <1>2, <1>3, <1>4, <1>5, <1>6, UnrefKeeps
<1>8. cwd # None => Lives(cwd, at', below)
  <2> HAVE cwd # None
  <2>1. w[cwd] > 0 /\ cwd \in Vnode
    BY <1>2, NumberIs
  <2> QED
    BY <1>2, <1>7, <2>1
<1>9. /\ cwd \in Vnode \cup {None} /\ fd \in [Handle -> Vnode \cup {None}]
      /\ halt' \in {"run", "assert", "abort", "stray"}
      /\ ref' \in [Vnode -> 0 .. Word - 1]
  BY <1>7 DEF IInv, Counts
<1> HIDE DEF w
<1>10. Counts(at', below', ref', Number(fd', cwd'), used') /\ Tree(at', below', used')
  BY <1>1, <1>7 DEF w
<1>11. \A k \in Vnode : Lives(k, at, below) => Lives(k, at', below') \/ Number(fd', cwd')[k] = 0
  BY <1>1, <1>2, <1>7 DEF w
<1>12. \A q \in Dir : MountOf(q, at, below) => at'[q] = at[q] /\ below'[q] = below[q]
  BY <1>1, <1>2, <1>7
<1> QED
  BY <1>1, <1>3, <1>8, <1>9, <1>10, <1>11, <1>12, Done

\* vfs_opendir counts the vnode.
LEMMA OpendirGood ==
  ASSUME IInv, NEW p \in Dir, NEW h \in Handle, vfs_opendir(h, p)
  PROVE  Good
<1> DEFINE t == Attach(p)
           v == V(p, t[p])
           w == Number(fd, cwd)
<1>1. /\ Mounted /\ fd[h] = None /\ at' = t /\ ref' = Ref(v, ref)
      /\ fd' = [fd EXCEPT ![h] = v] /\ UNCHANGED <<used, below, cwd, halt>>
  BY DEF vfs_opendir
<1>2. /\ Tree(t, below, used) /\ Counts(t, below, ref, w, used)
      /\ v \in Vnode /\ Lives(v, t, below) /\ w[v] + 1 < Word
      /\ \A k \in Vnode : Lives(k, at, below) => Lives(k, t, below)
      /\ \A q \in Dir : MountOf(q, at, below) => t[q] = at[q] /\ MountOf(q, t, below)
      /\ cwd # None => cwd \in Vnode /\ Lives(cwd, t, below)
  BY <1>1, Looked
<1> HIDE DEF t, v
<1>3. /\ used \in 0 .. Slots /\ fd \in [Handle -> Vnode \cup {None}]
      /\ cwd \in Vnode \cup {None} /\ halt \in {"run", "assert", "abort", "stray"}
  BY DEF IInv
<1>4. Number(fd', cwd) = More(w, v)
  <2>1. PICK g : g = fd'
    OBVIOUS
  <2>2. /\ fd \in [Handle -> Vnode \cup {None}] /\ fd[h] = None /\ v \in Vnode
        /\ g[h] = v /\ \A k \in Handle \ {h} : g[k] = fd[k]
    BY <1>1, <1>2, <1>3, <2>1
  <2>3. Number(g, cwd) = More(Number(fd, cwd), v)
    BY <2>2, OpenNumber
  <2> QED
    BY <2>1, <2>3
<1>5. Counts(t, below, Ref(v, ref), More(w, v), used)
  BY <1>2, <1>3, RefCounts
<1> HIDE DEF w
<1>6. Counts(at', below', ref', Number(fd', cwd'), used') /\ Tree(at', below', used')
  BY <1>1, <1>2, <1>4, <1>5
<1>7. ref' \in [Vnode -> 0 .. Word - 1] /\ fd' \in [Handle -> Vnode \cup {None}]
  BY <1>1, <1>2, <1>3, <1>6 DEF Counts
<1> QED
  BY <1>1, <1>2, <1>3, <1>6, <1>7, Done

\* vfs_chdir counts the new directory and gives the old one back.
LEMMA ChdirGood ==
  ASSUME IInv, NEW p \in Dir, vfs_chdir(p)
  PROVE  Good
<1> DEFINE t == Attach(p)
           v == V(p, t[p])
           w == Number(fd, cwd)
<1>1. /\ Mounted /\ cwd' = v /\ UNCHANGED <<used, below, fd>>
      /\ IF cwd = None THEN at' = t /\ ref' = Ref(v, ref) /\ halt' = halt
         ELSE Unref(cwd, t, Ref(v, ref))
  BY DEF vfs_chdir
<1>2. /\ Tree(t, below, used) /\ Counts(t, below, ref, w, used)
      /\ v \in Vnode /\ Lives(v, t, below) /\ w[v] + 1 < Word
      /\ \A k \in Vnode : Lives(k, at, below) => Lives(k, t, below)
      /\ \A q \in Dir : MountOf(q, at, below) => t[q] = at[q] /\ MountOf(q, t, below)
      /\ cwd # None => cwd \in Vnode /\ Lives(cwd, t, below)
  BY <1>1, Looked
<1> HIDE DEF t, v
<1>3. /\ used \in 0 .. Slots /\ fd \in [Handle -> Vnode \cup {None}]
      /\ cwd \in Vnode \cup {None} /\ halt \in {"run", "assert", "abort", "stray"}
      /\ w \in [Vnode -> Nat] /\ Number(fd, None) \in [Vnode -> Nat]
  BY NumberIs DEF IInv
<1>4. Counts(t, below, Ref(v, ref), More(w, v), used)
  BY <1>2, <1>3, RefCounts
<1>5. Number(fd, v) = More(Number(fd, None), v) /\ Number(fd, v)[v] > 0
  BY <1>2, CwdNumber, NumberIs
<1>6. CASE cwd = None
  <2>1. Counts(at', below', ref', Number(fd', cwd'), used') /\ Tree(at', below', used')
    BY <1>1, <1>2, <1>4, <1>5, <1>6
  <2>2. ref' \in [Vnode -> 0 .. Word - 1]
    BY <2>1 DEF Counts
  <2> HIDE DEF w
  <2> QED
    BY <1>1, <1>2, <1>3, <1>6, <2>1, <2>2, Done
<1>7. CASE cwd # None
  <2>1. cwd \in Vnode /\ Number(fd, None) = Less(w, cwd) /\ w[cwd] > 0
    BY <1>2, <1>7, CwdNumber, NumberIs
  <2> HIDE DEF w
  <2>2. More(w, v)[cwd] > 0
    BY <1>2, <1>3, <2>1 DEF More
  <2>3. Less(More(w, v), cwd) = Number(fd, v)
    <3> DEFINE x == Number(fd, None)
               y == Less(More(w, v), cwd)
               z == More(x, v)
    <3>1. x = Less(w, cwd) /\ x \in [Vnode -> Nat]
      BY <1>3, <2>1
    <3> HIDE DEF x
    <3>2. z \in [Vnode -> Nat] /\ z[v] = x[v] + 1 /\ \A k \in Vnode \ {v} : z[k] = x[k]
      BY <1>2, <3>1 DEF More
    <3>3. x[cwd] = w[cwd] - 1 /\ \A k \in Vnode \ {cwd} : x[k] = w[k]
      BY <1>3, <2>1, <3>1 DEF Less
    <3>4. DOMAIN y = Vnode /\ y = [k \in Vnode |-> y[k]]
      BY <1>3 DEF More, Less
    <3>5. \A k \in Vnode : y[k] = (IF k = v THEN w[k] + 1 ELSE w[k]) - (IF k = cwd THEN 1 ELSE 0)
      BY <1>2, <1>3, <2>1 DEF More, Less
    <3>6. \A k \in Vnode : w[k] \in Nat /\ x[k] \in Nat
      BY <1>3, <3>1
    <3> HIDE DEF y, z
    <3>7. ASSUME NEW k \in Vnode PROVE y[k] = z[k]
      <4>1. y[k] = (IF k = v THEN w[k] + 1 ELSE w[k]) - (IF k = cwd THEN 1 ELSE 0)
        BY <3>5
      <4>2. x[k] = w[k] - (IF k = cwd THEN 1 ELSE 0)
        BY <3>3, <3>6
      <4>3. z[k] = x[k] + (IF k = v THEN 1 ELSE 0)
        BY <3>2, <3>6
      <4> QED
        BY <3>6, <4>1, <4>2, <4>3
    <3>8. z = [k \in Vnode |-> z[k]]
      BY <3>2
    <3>9. y = z
      BY <3>4, <3>7, <3>8
    <3> QED
      BY <1>5, <3>9 DEF x, y, z
  <2>4. Unref(cwd, t, Ref(v, ref))
    BY <1>1, <1>7
  <2>5. /\ Tree(at', below, used) /\ Counts(at', below, ref', Number(fd, v), used)
        /\ \A q \in Dir : MountOf(q, t, below) => at'[q] = t[q]
        /\ \A k \in Vnode : Lives(k, t, below) => Lives(k, at', below) \/ Number(fd, v)[k] = 0
        /\ halt' \in {halt, "assert"}
    BY <1>2, <1>3, <1>4, <1>7, <2>1, <2>2, <2>3, <2>4, UnrefKeeps
  <2>6. Lives(v, at', below)
    BY <1>2, <1>5, <2>5
  <2>7. ref' \in [Vnode -> 0 .. Word - 1] /\ halt' \in {"run", "assert", "abort", "stray"}
    BY <1>3, <2>5 DEF Counts
  <2>8. Counts(at', below', ref', Number(fd', cwd'), used') /\ Tree(at', below', used')
    BY <1>1, <2>5
  <2>9. \A k \in Vnode : Lives(k, at, below) => Lives(k, at', below') \/ Number(fd', cwd')[k] = 0
    BY <1>1, <1>2, <2>5
  <2>10. \A q \in Dir : MountOf(q, at, below) => at'[q] = at[q] /\ below'[q] = below[q]
    BY <1>1, <1>2, <2>5
  <2> QED
    BY <1>1, <1>2, <1>3, <2>6, <2>7, <2>8, <2>9, <2>10, Done
<1> QED
  BY <1>6, <1>7

\* vfs_close gives the vnode back.
LEMMA CloseGood ==
  ASSUME IInv, NEW h \in Handle, vfs_close(h)
  PROVE  Good
<1> DEFINE v == fd[h]
           w == Number(fd, cwd)
<1>1. /\ halt = "run" /\ v # None /\ Lives(v, at, below) /\ fd' = [fd EXCEPT ![h] = None]
      /\ Unref(v, at, ref) /\ UNCHANGED <<used, below, cwd>>
  BY Same DEF vfs_close
<1>2. /\ used \in 0 .. Slots /\ fd \in [Handle -> Vnode \cup {None}] /\ v \in Vnode
      /\ cwd \in Vnode \cup {None} /\ halt \in {"run", "assert", "abort", "stray"}
      /\ Tree(at, below, used) /\ Counts(at, below, ref, w, used)
      /\ cwd # None => Lives(cwd, at, below)
  BY <1>1 DEF IInv
<1>3. w[v] > 0
  BY <1>2, NumberIs
<1>4. Number(fd', cwd) = Less(w, v)
  <2>1. PICK g : g = fd'
    OBVIOUS
  <2>2. /\ fd \in [Handle -> Vnode \cup {None}] /\ fd[h] # None
        /\ g \in [Handle -> Vnode \cup {None}] /\ g[h] = None
        /\ \A k \in Handle \ {h} : g[k] = fd[k]
    BY <1>1, <1>2, <2>1
  <2>3. Number(g, cwd) = Less(Number(fd, cwd), fd[h])
    BY <2>2, CloseNumber
  <2> QED
    BY <2>1, <2>3
<1> HIDE DEF v, w
<1>5. /\ Tree(at', below, used) /\ Counts(at', below, ref', Number(fd', cwd), used)
      /\ \A q \in Dir : MountOf(q, at, below) => at'[q] = at[q]
      /\ \A k \in Vnode : Lives(k, at, below) => Lives(k, at', below) \/ Number(fd', cwd)[k] = 0
      /\ halt' \in {halt, "assert"}
  <2>1. /\ Tree(at', below, used) /\ Counts(at', below, ref', Less(w, v), used)
        /\ \A q \in Dir : MountOf(q, at, below) => at'[q] = at[q]
        /\ \A k \in Vnode : Lives(k, at, below) => Lives(k, at', below) \/ Less(w, v)[k] = 0
        /\ halt' \in {halt, "assert"}
    BY <1>1, <1>2, <1>3, UnrefKeeps
  <2> QED
    BY <1>4, <2>1
<1>6. cwd # None => Lives(cwd, at', below)
  <2> HAVE cwd # None
  <2>1. Number(fd', cwd)[cwd] > 0 /\ cwd \in Vnode
    BY <1>2, NumberIs
  <2> QED
    BY <1>2, <1>5, <2>1
<1>7. ref' \in [Vnode -> 0 .. Word - 1] /\ fd' \in [Handle -> Vnode \cup {None}]
      /\ halt' \in {"run", "assert", "abort", "stray"}
  BY <1>1, <1>2, <1>5 DEF Counts
<1> QED
  BY <1>1, <1>2, <1>5, <1>6, <1>7, Done

\* Closing what was unmounted ends the program.
LEMMA StrayGood ==
  ASSUME IInv, NEW h \in Handle, close_stray(h)
  PROVE  Good
<1>1. halt' = "stray" /\ UNCHANGED <<used, at, below, ref, cwd, fd>>
  BY DEF close_stray
<1> QED
  BY <1>1, Done DEF IInv

-----------------------------------------------------------------------------
(* Mounting and unmounting.                                                *)

\* vfs_mount, whatever comes of it.
LEMMA MountGood ==
  ASSUME IInv, NEW p \in Dir, vfs_mount(p)
  PROVE  Good
<1> DEFINE t == IF at[Root] = None THEN at ELSE Attach(p)
           w == Number(fd, cwd)
<1>1. /\ halt = "run" /\ (at[Root] # None \/ p = Root) /\ UNCHANGED <<cwd, fd>>
      /\ \/ fs_create_fails(t)
         \/ used < Slots /\ mount_fails(t)
         \/ used < Slots /\ mount_root(t, p)
         \/ used < Slots /\ get_root_fails(t, p)
  BY DEF vfs_mount
<1>2. /\ used \in 0 .. Slots /\ fd \in [Handle -> Vnode \cup {None}]
      /\ cwd \in Vnode \cup {None} /\ ref \in [Vnode -> 0 .. Word - 1]
      /\ Tree(at, below, used) /\ Counts(at, below, ref, w, used)
      /\ cwd # None => Lives(cwd, at, below)
      /\ Root \in Dir
  BY <1>1, ChainSelf DEF IInv
<1>3. /\ Tree(t, below, used) /\ Counts(t, below, ref, w, used)
      /\ \A k \in Vnode : Lives(k, at, below) => Lives(k, t, below)
      /\ \A q \in Dir : MountOf(q, at, below) => t[q] = at[q]
      /\ MountOf(p, t, below) => MountOf(p, at, below)
      /\ t[p] # None \/ p = Root
      /\ cwd # None => cwd \in Vnode /\ Lives(cwd, t, below)
  <2>1. CASE at[Root] = None
    BY <1>1, <1>2, <2>1
  <2>2. CASE at[Root] # None
    <3>1. Mounted /\ t = Attach(p)
      BY <1>1, <2>2 DEF Mounted
    <3>2. /\ Tree(t, below, used) /\ Counts(t, below, ref, w, used)
          /\ \A k \in Vnode : Lives(k, at, below) => Lives(k, t, below)
          /\ \A q \in Dir : MountOf(q, at, below) => t[q] = at[q]
          /\ cwd # None => cwd \in Vnode /\ Lives(cwd, t, below)
      BY <3>1, Looked
    <3>3. t[p] # None
      BY <1>2, <2>2, <3>1, AttachKeeps, ChainSelf
    <3>4. MountOf(p, t, below) => MountOf(p, at, below)
      BY <2>2 DEF MountOf
    <3> QED
      BY <3>2, <3>3, <3>4
  <2> QED
    BY <2>1, <2>2
<1> HIDE DEF t
<1>4. ASSUME used' \in 0 .. Slots, used' = used \/ (used < Slots /\ used' = used + 1),
             at' = t, UNCHANGED <<below, ref>>, halt' \in {"run", "abort"}
      PROVE  Good
  <2>1. Tree(t, below, used') /\ Counts(t, below, ref, w, used')
    BY <1>2, <1>3, <1>4, MoreSlots
  <2> QED
    BY <1>1, <1>2, <1>3, <1>4, <2>1, Done
<1>5. used < Slots => used + 1 \in 0 .. Slots
  BY <1>2, Constants
<1>6. CASE fs_create_fails(t)
  BY <1>1, <1>2, <1>4, <1>6 DEF fs_create_fails
<1>7. CASE used < Slots /\ mount_fails(t)
  BY <1>1, <1>4, <1>5, <1>7 DEF mount_fails
<1>8. CASE used < Slots /\ get_root_fails(t, p)
  BY <1>4, <1>5, <1>8 DEF get_root_fails
<1>9. CASE used < Slots /\ mount_root(t, p) /\ IsMount(p)
  <2>1. used' = used + 1 /\ halt' = "abort" /\ at' = t /\ UNCHANGED <<below, ref>>
    BY <1>9 DEF mount_root
  <2> QED
    BY <1>4, <1>5, <1>9, <2>1
<1>10. CASE used < Slots /\ mount_root(t, p) /\ ~IsMount(p)
  <2>1. PICK j \in Junk :
          /\ used' = used + 1 /\ Kids(p, t) = {} /\ halt' = halt
          /\ at' = [t EXCEPT ![p] = used + 1] /\ below' = [below EXCEPT ![p] = t[p]]
          /\ ref' = [ref EXCEPT ![V(p, used + 1)] = j]
    BY <1>10 DEF mount_root
  <2>2. ~MountOf(p, at, below) /\ ~MountOf(p, t, below) /\ j \in 0 .. Word - 1
    BY <1>3, <1>10, Same, Constants
  <2>3. Tree(at', below', used') /\ Counts(at', below', ref', w, used')
    BY <1>2, <1>3, <1>10, <2>1, <2>2, CoverKeeps
  <2>4. t \in [Dir -> (1 .. used) \cup {None}] /\ below \in [Dir -> (1 .. used) \cup {None}]
    BY <1>3 DEF Tree, Covered
  <2>5. below[p] = None
    BY <2>2 DEF MountOf
  <2>6. ASSUME NEW k \in Vnode, Lives(k, t, below) PROVE Lives(k, at', below')
    <3>1. k.dir \in Dir /\ k.fs # None
      BY VnodeIs, Constants
    <3>2. CASE k.dir = p
      BY <2>1, <2>4, <2>5, <2>6, <3>1, <3>2 DEF Lives
    <3>3. CASE k.dir # p
      BY <2>1, <2>4, <2>6, <3>1, <3>3 DEF Lives
    <3> QED
      BY <3>2, <3>3
  <2>7. ASSUME NEW q \in Dir, MountOf(q, at, below)
        PROVE  at'[q] = at[q] /\ below'[q] = below[q]
    <3>1. q # p
      BY <2>2, <2>7
    <3> QED
      BY <1>3, <2>1, <2>4, <2>7, <3>1
  <2>8. ref' \in [Vnode -> 0 .. Word - 1]
    BY <2>3 DEF Counts
  <2>9. Counts(at', below', ref', Number(fd', cwd'), used')
    BY <1>1, <2>3
  <2> HIDE DEF w
  <2> QED
    BY <1>1, <1>2, <1>3, <1>5, <1>10, <2>1, <2>3, <2>6, <2>7, <2>8, <2>9, Done
<1> QED
  BY <1>1, <1>6, <1>7, <1>8, <1>9, <1>10

\* umount_busy is a lookup.
LEMMA BusyGood ==
  ASSUME IInv, NEW p \in Dir, umount_busy(p)
  PROVE  Good
<1>1. vfs_find(p)
  BY DEF umount_busy, vfs_find
<1> QED
  BY <1>1, FindGood

\* vfs_umount: what it gives back has no user but those of the root.
LEMMA UmountGood ==
  ASSUME IInv, NEW p \in Dir, vfs_umount(p)
  PROVE  Good
<1> DEFINE t == Attach(p)
           top == V(p, t[p])
           s == [t EXCEPT ![p] = below[p]]
           a == [below EXCEPT ![p] = None]
           d == [ref EXCEPT ![top] = 0]
           R == Gone(p, s, ref)
           w == Number(fd, cwd)
           x == Number(fd, cwd')
<1>1. /\ Mounted /\ IsMount(p) /\ Kids(p, t) = {}
      /\ below' = a /\ cwd' = (IF cwd = top THEN None ELSE cwd) /\ ref' = d
      /\ at' = Without(s, R)
      /\ halt' = IF p # Root /\ ref[V(p, below[p])] # 0 THEN "assert" ELSE halt
      /\ UNCHANGED <<used, fd>>
  BY DEF vfs_umount
<1>2. /\ Tree(t, below, used) /\ Counts(t, below, ref, w, used)
      /\ \A k \in Vnode : Lives(k, at, below) => Lives(k, t, below)
      /\ \A q \in Dir : MountOf(q, at, below) => t[q] = at[q] /\ MountOf(q, t, below)
      /\ cwd # None => cwd \in Vnode /\ Lives(cwd, t, below)
  BY <1>1, Looked
<1>3. /\ used \in 0 .. Slots /\ fd \in [Handle -> Vnode \cup {None}]
      /\ cwd \in Vnode \cup {None} /\ halt = "run"
      /\ w \in [Vnode -> Nat] /\ x \in [Vnode -> Nat]
  BY <1>1, NumberIs DEF IInv, Mounted
<1>4. MountOf(p, at, below) /\ MountOf(p, t, below) /\ t[p] = at[p]
  BY <1>1, <1>2, Same
<1> HIDE DEF t
<1>5. /\ Tree(s, a, used) /\ t[p] # None /\ top \in Vnode
      /\ \A n \in Nat : Counts(s, a, d, [w EXCEPT ![top] = n], used)
  BY <1>1, <1>2, <1>3, <1>4, UncoverKeeps
<1>6. /\ s[p] = below[p] /\ a[p] = None
      /\ \A q \in Dir \ {p} : s[q] = t[q] /\ a[q] = below[q]
      /\ d \in [Vnode -> 0 .. Word - 1] /\ \A k \in Vnode : d[k] = 0 \/ d[k] = ref[k]
  <2>1. t \in [Dir -> (1 .. used) \cup {None}] /\ below \in [Dir -> (1 .. used) \cup {None}]
    BY <1>2 DEF Tree, Covered
  <2>2. d \in [Vnode -> 0 .. Word - 1]
    <3>1. Counts(s, a, d, [w EXCEPT ![top] = 0], used)
      BY <1>5
    <3> QED
      BY <3>1 DEF Counts
  <2>3. ref \in [Vnode -> 0 .. Word - 1]
    BY DEF IInv
  <2> QED
    BY <1>5, <2>1, <2>2, <2>3
<1>7. top.dir = p /\ top.fs = t[p] /\ cwd' # top /\ cwd' \in Vnode \cup {None}
      /\ (cwd' # None => cwd' = cwd)
  BY <1>1, <1>3, <1>5, Constants DEF V
<1>8. Counts(s, a, d, x, used)
  <2>1. \A k \in Vnode \ {top} : UsersOf(k, fd, cwd') = UsersOf(k, fd, cwd)
    BY <1>1, Constants DEF UsersOf
  <2>2. \A k \in Vnode \ {top} : x[k] = w[k]
    BY <2>1 DEF Number
  <2>3. x = [w EXCEPT ![top] = x[top]] /\ x[top] \in Nat
    <3> DEFINE y == [w EXCEPT ![top] = x[top]]
    <3> HIDE DEF x, w
    <3>1. y \in [Vnode -> Nat] /\ \A k \in Vnode : y[k] = x[k]
      BY <1>3, <1>5, <2>2
    <3> HIDE DEF y
    <3>2. x = [k \in Vnode |-> x[k]] /\ y = [k \in Vnode |-> y[k]]
      BY <1>3, <3>1
    <3>3. x = y
      BY <3>1, <3>2
    <3> QED
      BY <1>3, <1>5, <3>3 DEF y
  <2> HIDE DEF x, w, s, a, d
  <2> QED
    BY <1>5, <2>3
<1> HIDE DEF s, a, d, top, x, w
<1>9. Kids(p, s) = {}
  BY <1>1, <1>6, FrontChain DEF Kids
<1>10. /\ Tree(at', a, used)
       /\ \A q \in R : q \in Dir \ {Root} /\ a[q] = None /\ (q = p \/ ref[V(q, s[q])] = 0)
  BY <1>1, <1>3, <1>5, <1>6, <1>9, GoneTree
<1>11. ASSUME halt' = "run"
       PROVE  Counts(at', a, d, x, used) /\ \A q \in R : s[q] # None => x[V(q, s[q])] = 0
  <2>1. p # Root => ref[V(p, below[p])] = 0
    BY <1>1, <1>11
  <2>2. ASSUME NEW q \in R, s[q] # None PROVE d[V(q, s[q])] = 0
    <3>1. ref[V(q, s[q])] = 0
      BY <1>6, <1>10, <2>1
    <3>2. q \in Dir /\ s[q] \in 1 .. Slots
      BY <1>3, <1>5, <1>10, <2>2, Constants DEF Tree, Covered
    <3>3. V(q, s[q]) \in Vnode
      BY <3>2, VnodeIs
    <3> QED
      BY <1>6, <3>1, <3>3
  <2>3. R \in SUBSET (Dir \ {Root})
    BY <1>10
  <2> HIDE DEF R
  <2> QED
    BY <1>1, <1>3, <1>5, <1>8, <1>10, <2>2, <2>3, GoneCounts
<1> HIDE DEF R
<1>12. ASSUME NEW k \in Vnode, Lives(k, t, below), k # top, halt' = "run"
       PROVE  Lives(k, at', a) \/ x[k] = 0
  <2>1. k.dir \in Dir /\ k.fs # None /\ k = V(k.dir, k.fs)
    BY VnodeIs, Constants
  <2>2. Lives(k, s, a)
    <3>1. CASE k.dir = p
      <4>1. k.fs # t[p]
        BY <1>12, <2>1, <3>1 DEF top
      <4> QED
        BY <1>6, <1>12, <3>1, <4>1 DEF Lives
    <3>2. CASE k.dir # p
      BY <1>6, <1>12, <2>1, <3>2 DEF Lives
    <3> QED
      BY <3>1, <3>2
  <2>3. CASE k.dir \notin R
    BY <1>1, <2>1, <2>2, <2>3 DEF Lives, Without
  <2>4. CASE k.dir \in R
    <3>1. k.fs = s[k.dir]
      BY <1>10, <2>1, <2>2, <2>4 DEF Lives
    <3> QED
      BY <1>11, <1>12, <2>1, <2>4, <3>1
  <2> QED
    BY <2>3, <2>4
<1>13. halt' = "run" /\ cwd' # None => Lives(cwd', at', below')
  <2> HAVE halt' = "run" /\ cwd' # None
  <2>1. cwd' = cwd /\ cwd \in Vnode /\ cwd # top
    BY <1>2, <1>7
  <2>2. x[cwd] > 0
    BY <2>1, NumberIs DEF x
  <2> QED
    BY <1>1, <1>2, <1>12, <2>1, <2>2
<1>14. ASSUME NEW q \in Dir, MountOf(q, at, below), q # p
       PROVE  at'[q] = at[q] /\ below'[q] = below[q]
  <2>1. t[q] = at[q] /\ a[q] = below[q] /\ s[q] = t[q]
    BY <1>2, <1>6, <1>14
  <2>2. q \notin R
    BY <1>10, <1>14, <2>1 DEF MountOf
  <2> QED
    BY <1>1, <2>1, <2>2 DEF Without
<1>15. halt' = "run" =>
         \A v \in Vnode : Lives(v, at, below) =>
           \/ Lives(v, at', below') \/ Number(fd', cwd')[v] = 0
           \/ MountOf(v.dir, at, below) /\ at[v.dir] = v.fs /\ cwd' # v
  <2> SUFFICES ASSUME halt' = "run", NEW v \in Vnode, Lives(v, at, below)
               PROVE  \/ Lives(v, at', below') \/ Number(fd', cwd')[v] = 0
                      \/ MountOf(v.dir, at, below) /\ at[v.dir] = v.fs /\ cwd' # v
    OBVIOUS
  <2>1. CASE v = top
    BY <1>4, <1>7, <2>1
  <2>2. CASE v # top
    BY <1>1, <1>2, <1>12, <2>2 DEF x
  <2> QED
    BY <2>1, <2>2
<1>16. halt' = "run" => Counts(at', below', ref', Number(fd', cwd'), used')
  BY <1>1, <1>11 DEF x
<1>17. \A q \in Dir : MountOf(q, at, below) =>
         vfs_umount(q) \/ (at'[q] = at[q] /\ below'[q] = below[q])
  BY <1>14
<1>18. /\ Tree(at', below', used') /\ ref' \in [Vnode -> 0 .. Word - 1]
       /\ fd' \in [Handle -> Vnode \cup {None}] /\ used' \in 0 .. Slots
       /\ halt' \in {"run", "assert", "abort", "stray"}
  BY <1>1, <1>3, <1>6, <1>10
<1> QED
  BY <1>7, <1>13, <1>15, <1>16, <1>17, <1>18, Done

-----------------------------------------------------------------------------
(* The theorems.                                                           *)

\* At the start nothing is attached, counted or used.
LEMMA InitInv == Init => IInv
<1> SUFFICES ASSUME Init PROVE IInv
  OBVIOUS
<1>1. /\ used = 0 /\ cwd = None /\ halt = "run"
      /\ at = [p \in Dir |-> None] /\ below = [p \in Dir |-> None]
      /\ ref = [v \in Vnode |-> 0] /\ fd = [h \in Handle |-> None]
  BY DEF Init
<1>2. Tree(at, below, used)
  <2>1. Root \in Dir
    BY MountAssumption
  <2>2. Covered(at, below, used)
    BY <1>1 DEF Covered
  <2>3. Closed(at) /\ Hangs(at, below)
    BY <1>1 DEF Closed, Hangs
  <2>4. Home(at, below)
    BY <1>1, <2>1 DEF Home, MountOf
  <2> QED
    BY <2>2, <2>3, <2>4 DEF Tree
<1>3. 0 \in 0 .. Slots /\ 0 \in 0 .. Word - 1
  BY MountAssumption
<1>4. \A v \in Vnode : Number(fd, cwd)[v] = 0
  <2> SUFFICES ASSUME NEW v \in Vnode PROVE Number(fd, cwd)[v] = 0
    OBVIOUS
  <2>1. UsersOf(v, fd, cwd) = {}
    BY <1>1, Constants DEF UsersOf
  <2> QED
    BY <2>1, NumberIs
<1>5. Number(fd, cwd) \in [Vnode -> Nat]
  BY NumberIs
<1>6. Right(at, below, ref, Number(fd, cwd))
  BY <1>1 DEF Right
<1>7. Blank(at, below, ref, Number(fd, cwd), used)
  BY <1>1, <1>4 DEF Blank
<1>8. Counts(at, below, ref, Number(fd, cwd), used)
  BY <1>1, <1>3, <1>5, <1>6, <1>7 DEF Counts
<1> QED
  BY <1>1, <1>2, <1>3, <1>8 DEF IInv

\* Every step keeps the invariant, the mount points and the users.
LEMMA StepGood == IInv /\ Next => Good
<1> SUFFICES ASSUME IInv, Next PROVE Good
  OBVIOUS
<1>1. CASE \E p \in Dir :
             \/ vfs_find(p) \/ vfs_stat(p) \/ vfs_chdir(p)
             \/ vfs_mount(p) \/ vfs_umount(p) \/ umount_busy(p)
             \/ \E h \in Handle : vfs_opendir(h, p)
  BY <1>1, FindGood, StatGood, ChdirGood, MountGood, UmountGood, BusyGood, OpendirGood
<1>2. CASE \E h \in Handle : vfs_close(h) \/ close_stray(h)
  BY <1>2, CloseGood, StrayGood
<1> QED
  BY <1>1, <1>2 DEF Next

\* The invariant holds in every state.
THEOREM MountInvariant == Spec => []IInv
<1>1. IInv /\ UNCHANGED vars => IInv'
  BY Done DEF Good, IInv, vars
<1>2. IInv /\ [Next]_vars => IInv'
  BY <1>1, StepGood DEF Good
<1> QED
  BY InitInv, <1>2, PTL DEF Spec

\* Every variable keeps its type, and only what is attached covers something.
THEOREM MountTypeOK == Spec => []TypeOK
<1>1. IInv => TypeOK
  BY DEF IInv, Tree, Covered, TypeOK
<1> QED
  BY MountInvariant, <1>1, PTL

\* No file system is unmounted, and no node given back, from under another.
THEOREM MountNested == Spec => []Nested
<1>1. IInv => Nested
  BY DEF IInv, Tree, Hangs, Own, Nested
<1> QED
  BY MountInvariant, <1>1, PTL

\* Directories are counted as often as they are used, covered ones too.
THEOREM MountCounted == Spec => []Counted
<1>1. IInv => Counted
  <2> SUFFICES ASSUME IInv, halt = "run", NEW p \in Dir \ {Root}, at[p] # None
               PROVE  ref[Plain(p)] = Cardinality(Users(Plain(p)))
    BY DEF Counted
  <2>1. Tree(at, below, used) /\ Counts(at, below, ref, Number(fd, cwd), used) /\ used \in 0 .. Slots
    BY DEF IInv
  <2>2. Plain(p) = V(p, Own(p, at, below))
    BY DEF Plain, Own
  <2>3. Own(p, at, below) \in 1 .. Slots
    BY <2>1, Constants DEF Tree, Covered, Own
  <2>4. Plain(p) \in Vnode
    BY <2>2, <2>3, VnodeIs
  <2>5. ref[Plain(p)] = Number(fd, cwd)[Plain(p)]
    BY <2>1, <2>2 DEF Counts, Right
  <2> QED
    BY <2>4, <2>5, Same DEF Number
<1> QED
  BY MountInvariant, <1>1, PTL

\* A file system stays on its mount point until that path is unmounted.
THEOREM MountMountsStay == Spec => MountsStay
<1>1. IInv /\ [Next]_vars => [MountsKeep]_vars
  BY StepGood DEF Good
<1>2. [][MountsKeep]_vars => MountsStay
  <2>1. [MountsKeep]_vars =>
          [\A p \in Dir :
             IsMount(p) => vfs_umount(p) \/ (at'[p] = at[p] /\ below'[p] = below[p])]_vars
    BY DEF MountsKeep
  <2> QED
    BY <2>1, PTL DEF MountsStay
<1> QED
  BY MountInvariant, <1>1, <1>2, PTL DEF Spec

\* A vnode in use is given back only as the root of what is unmounted.
THEOREM MountUsersKept == Spec => UsersKept
<1>1. IInv /\ [Next]_vars => [UsersKeep]_vars
  BY StepGood DEF Good
<1>2. [][UsersKeep]_vars => UsersKept
  <2>1. [UsersKeep]_vars =>
          [\A v \in Vnode :
             Users(v) \cap Users(v)' # {} /\ Alive(v) /\ halt' = "run" =>
               \/ Alive(v)'
               \/ IsMount(v.dir) /\ at[v.dir] = v.fs /\ cwd' # v]_vars
    BY DEF UsersKeep
  <2> QED
    BY <2>1, PTL DEF UsersKept
<1> QED
  BY MountInvariant, <1>1, <1>2, PTL DEF Spec
=============================================================================
