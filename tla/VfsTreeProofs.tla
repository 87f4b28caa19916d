--------------------------- MODULE VfsTreeProofs ---------------------------
(***************************************************************************)
(* Proofs about the path cache, for any names, paths, clients and bounds.  *)
(*                                                                         *)
(* A lookup is a recursive function on walks: what it has seen on its way  *)
(* hangs on the tree, so Attach caches the node that it ends on.           *)
(*                                                                         *)
(* A call is followed through its intermediate states (Balanced); what it  *)
(* may not touch on the way is named before it begins (Watched).           *)
(***************************************************************************)
EXTENDS VfsTree, FiniteSetTheorems, WellFoundedInduction, TLAPS

-----------------------------------------------------------------------------
(* Paths.                                                                  *)

\* A node is a sequence of at most MaxDepth names.
LEMMA NodeSeq ==
  ASSUME NEW p \in Node
  PROVE  p \in Seq(Name) /\ Len(p) \in 0 .. MaxDepth
BY PathAssumption DEF Node

\* A short sequence of names is a node.
LEMMA SeqNode ==
  ASSUME NEW p \in Seq(Name), Len(p) <= MaxDepth
  PROVE  p \in Node
<1>1. p \in [1 .. Len(p) -> Name] /\ Len(p) \in 0 .. MaxDepth
  BY PathAssumption
<1> QED
  BY <1>1 DEF Node

\* The root is the empty path.
LEMMA RootNode == Root \in Node
<1>1. Root \in Seq(Name) /\ Len(Root) <= MaxDepth
  BY PathAssumption DEF Root
<1> QED
  BY <1>1, SeqNode

\* A prefix, element by element.
LEMMA PrefixElems ==
  ASSUME NEW s \in Seq(Name), NEW t \in Seq(Name)
  PROVE  IsPrefix(s, t) <=> /\ Len(s) <= Len(t)
                            /\ \A i \in 1 .. Len(s) : s[i] = t[i]
<1>1. CASE Len(s) <= Len(t)
  <2>1. /\ SubSeq(s, 1, Len(s)) \in Seq(Name) /\ Len(SubSeq(s, 1, Len(s))) = Len(s)
        /\ \A i \in 1 .. Len(s) : SubSeq(s, 1, Len(s))[i] = s[i]
    OBVIOUS
  <2>2. /\ SubSeq(t, 1, Len(s)) \in Seq(Name) /\ Len(SubSeq(t, 1, Len(s))) = Len(s)
        /\ \A i \in 1 .. Len(s) : SubSeq(t, 1, Len(s))[i] = t[i]
    BY <1>1
  <2>3. ASSUME \A i \in 1 .. Len(s) : s[i] = t[i]
        PROVE  SubSeq(s, 1, Len(s)) = SubSeq(t, 1, Len(s))
    <3> DEFINE u == SubSeq(s, 1, Len(s))
               v == SubSeq(t, 1, Len(s))
    <3>1. u \in Seq(Name) /\ v \in Seq(Name) /\ Len(u) = Len(v)
          /\ \A i \in 1 .. Len(u) : u[i] = v[i]
      BY <2>1, <2>2, <2>3
    <3> HIDE DEF u, v
    <3>2. u = v
      BY <3>1
    <3> QED
      BY <3>2 DEF u, v
  <2> QED
    BY <1>1, <2>1, <2>2, <2>3 DEF IsPrefix
<1>2. CASE ~(Len(s) <= Len(t))
  BY <1>2 DEF IsPrefix
<1> QED
  BY <1>1, <1>2

\* Prefixes are an order.
LEMMA PrefixReflexive ==
  ASSUME NEW p \in Node
  PROVE  IsPrefix(p, p)
BY NodeSeq, PrefixElems

\* The order of prefixes is transitive.
LEMMA PrefixTransitive ==
  ASSUME NEW p \in Node, NEW q \in Node, NEW r \in Node,
         IsPrefix(p, q), IsPrefix(q, r)
  PROVE  IsPrefix(p, r)
<1>1. p \in Seq(Name) /\ q \in Seq(Name) /\ r \in Seq(Name)
  BY NodeSeq
<1>2. Len(p) <= Len(q) /\ \A i \in 1 .. Len(p) : p[i] = q[i]
  BY <1>1, PrefixElems
<1>3. Len(q) <= Len(r) /\ \A i \in 1 .. Len(q) : q[i] = r[i]
  BY <1>1, PrefixElems
<1>4. Len(p) <= Len(r) /\ \A i \in 1 .. Len(p) : p[i] = r[i]
  BY <1>1, <1>2, <1>3
<1> QED
  BY <1>1, <1>4, PrefixElems

\* Ancestors of an ancestor are ancestors.
LEMMA AboveTransitive ==
  ASSUME NEW r \in Node, NEW q \in Above(r)
  PROVE  Above(q) \subseteq Above(r)
BY PrefixTransitive DEF Above

\* A node other than the root lies on its own path.
LEMMA AboveSelf ==
  ASSUME NEW p \in Node, p # Root
  PROVE  p \in Above(p)
BY PrefixReflexive DEF Above

\* The path to an entry is the path to its directory and the entry.
LEMMA AboveAppend ==
  ASSUME NEW d \in Node, NEW n \in Name, Append(d, n) \in Node
  PROVE  Above(Append(d, n)) \subseteq Above(d) \cup {Append(d, n)}
<1> DEFINE p == Append(d, n)
<1> SUFFICES ASSUME NEW q \in Above(p), q # p PROVE q \in Above(d)
  OBVIOUS
<1>1. d \in Seq(Name) /\ q \in Seq(Name) /\ p \in Seq(Name) /\ q \in Node /\ q # Root
  BY NodeSeq DEF Above
<1>2. IsPrefix(q, p)
  BY DEF Above
<1>3. Len(q) <= Len(p) /\ \A i \in 1 .. Len(q) : q[i] = p[i]
  BY <1>1, <1>2, PrefixElems
<1>4. Len(p) = Len(d) + 1 /\ \A i \in 1 .. Len(d) : p[i] = d[i]
  BY <1>1
<1>5. Len(q) # Len(p)
  <2> HIDE DEF p
  <2> QED
    BY <1>1, <1>3
<1>6. Len(q) <= Len(d) /\ \A i \in 1 .. Len(q) : q[i] = d[i]
  BY <1>1, <1>3, <1>4, <1>5
<1>7. IsPrefix(q, d)
  BY <1>1, <1>6, PrefixElems
<1> QED
  BY <1>1, <1>7 DEF Above

\* The parent of a node is on the path to it.
LEMMA ParentAbove ==
  ASSUME NEW p \in Node, p # Root
  PROVE  Parent(p) \in Node /\ (Parent(p) = Root \/ Parent(p) \in Above(p))
<1> DEFINE q == SubSeq(p, 1, Len(p) - 1)
<1>1. p \in Seq(Name) /\ Len(p) \in 1 .. MaxDepth
  BY NodeSeq, PathAssumption DEF Root
<1>2. q \in Seq(Name) /\ Len(q) = Len(p) - 1 /\ \A i \in 1 .. Len(q) : q[i] = p[i]
  <2> DEFINE k == Len(p) - 1
  <2>1. k \in Nat /\ k <= Len(p) /\ p \in Seq(Name)
    BY <1>1, PathAssumption
  <2> HIDE DEF k
  <2>2. /\ SubSeq(p, 1, k) \in Seq(Name) /\ Len(SubSeq(p, 1, k)) = k
        /\ \A i \in 1 .. k : SubSeq(p, 1, k)[i] = p[i]
    BY <2>1
  <2> QED
    BY <2>2 DEF k
<1>3. Parent(p) = q
  BY DEF Parent, Front
<1> HIDE DEF q
<1>4. q \in Node
  BY <1>1, <1>2, SeqNode, PathAssumption
<1>5. IsPrefix(q, p)
  BY <1>1, <1>2, PrefixElems
<1> QED
  BY <1>3, <1>4, <1>5 DEF Above

\* Between a node and one below it lies the child on the way there.
LEMMA ChildToward ==
  ASSUME NEW y \in Node, NEW p \in Above(y), y # p
  PROVE  \E c \in Above(y) : Parent(c) = p
<1> DEFINE k == Len(p) + 1
           c == SubSeq(y, 1, k)
<1>1. p \in Node /\ p # Root /\ IsPrefix(p, y)
  BY DEF Above
<1>2. p \in Seq(Name) /\ y \in Seq(Name) /\ Len(y) \in 0 .. MaxDepth
  BY <1>1, NodeSeq
<1>3. Len(p) <= Len(y) /\ \A i \in 1 .. Len(p) : p[i] = y[i]
  BY <1>1, <1>2, PrefixElems
<1>4. Len(p) # Len(y)
  BY <1>2, <1>3
<1>5. k \in Nat /\ k <= Len(y)
  BY <1>2, <1>3, <1>4
<1> HIDE DEF k
<1>6. c \in Seq(Name) /\ Len(c) = k /\ \A i \in 1 .. k : c[i] = y[i]
  BY <1>2, <1>5
<1> HIDE DEF c
<1>7. c \in Node
  BY <1>2, <1>5, <1>6, SeqNode, PathAssumption
<1>8. IsPrefix(c, y)
  BY <1>2, <1>5, <1>6, PrefixElems
<1>9. c # Root
  BY <1>2, <1>6 DEF k, Root
<1>10. Parent(c) = p
  <2> DEFINE f == SubSeq(c, 1, Len(p))
  <2>1. Len(p) \in Nat /\ Len(p) <= Len(c)
    BY <1>2, <1>6 DEF k
  <2>2. f \in Seq(Name) /\ Len(f) = Len(p) /\ \A i \in 1 .. Len(p) : f[i] = c[i]
    BY <1>6, <2>1
  <2>3. Parent(c) = f
    BY <1>2, <1>6 DEF Parent, Front, k
  <2> HIDE DEF f
  <2>4. \A i \in 1 .. Len(p) : f[i] = p[i]
    BY <1>2, <1>3, <1>6, <2>1, <2>2
  <2>5. f = p
    BY <1>2, <2>2, <2>4
  <2> QED
    BY <2>3, <2>5
<1> QED
  BY <1>7, <1>8, <1>9, <1>10 DEF Above

\* The directory of a new path is the one it was made from.
LEMMA ParentAppend ==
  ASSUME NEW d \in Node, NEW n \in Name
  PROVE  Parent(Append(d, n)) = d /\ Append(d, n) # Root
<1> DEFINE q == Append(d, n)
<1>1. d \in Seq(Name) /\ Len(d) \in Nat
  BY NodeSeq
<1>2. q \in Seq(Name) /\ Len(q) = Len(d) + 1 /\ \A i \in 1 .. Len(d) : q[i] = d[i]
  BY <1>1
<1> HIDE DEF q
<1>3. Parent(q) = d
  <2> DEFINE f == SubSeq(q, 1, Len(d))
  <2>1. f \in Seq(Name) /\ Len(f) = Len(d) /\ \A i \in 1 .. Len(d) : f[i] = q[i]
    BY <1>1, <1>2
  <2>2. Parent(q) = f
    BY <1>1, <1>2 DEF Parent, Front
  <2> HIDE DEF f
  <2>3. f = d
    BY <1>1, <1>2, <2>1
  <2> QED
    BY <2>2, <2>3
<1>4. q # Root
  BY <1>1, <1>2 DEF Root
<1> QED
  BY <1>3, <1>4 DEF q

-----------------------------------------------------------------------------
(* States of the cache inside a call.  "owed" is the number of references  *)
(* on every node that somebody has to give back: the users outside, the    *)
(* lost ones, and what the running call holds.  "w" is what is watched     *)
(* during the call: entries that must not leave the device, and nodes      *)
(* whose vnode must not change.                                            *)

Counts == [Node -> Nat]
OneMore(owed, p) == [owed EXCEPT ![p] = @ + 1]
OneLess(owed, p) == [owed EXCEPT ![p] = @ - 1]

Typed(s) ==
  /\ s \in [tree : SUBSET Node, vn : [Node -> Entry \cup {NoEntry}], ref : [Node -> Nat],
            disk : [Node -> Entry \cup {NoEntry}], halt : Halts]
  /\ \A p \in Node \ s.tree : s.vn[p] = NoEntry

Rooted(s) ==
  /\ Root \in s.tree
  /\ \A p \in s.tree : Above(p) \subseteq s.tree

Counted(s, owed) ==
  \A p \in Node \ {Root} : s.ref[p] = owed[p] /\ (owed[p] > 0 => p \in s.tree)

\* CacheCoherent and EntriesHoused inside a call.
Coherent(s) ==
  \A p \in s.tree \ {Root} :
    IF s.disk[p] # NoEntry THEN s.vn[p] = s.disk[p]
    ELSE s.ref[p] > 0 \/ Kids(s, p) # {}

Housed(s) ==
  \A p \in Node \ {Root} : s.disk[p] # NoEntry => EntryOf(s, Parent(p)).type = "DIR"

\* What can be watched: the vnode of a node that somebody counts on; an entry
\* of such a node, or one whose whole path is watched.
Watch(owed, w) ==
  /\ \A x \in w.entry : x \in Node /\ (Above(x) \subseteq w.entry \/ owed[x] > 0 \/ x = Root)
  /\ \A x \in w.vnode : x \in Node /\ (owed[x] > 0 \/ x = Root)

\* What is watched is still there.
Kept(s, w) ==
  /\ \A x \in w.entry : s.disk[x] # NoEntry
  /\ \A x \in w.vnode : s.vn[x] = vfs.vn[x]

\* A call that has met a failed assert is discarded: nothing is asked of its
\* counts, only that the assert was not that of vnode_unref.
Balanced(s, owed, w) ==
  /\ Typed(s) /\ Rooted(s)
  /\ s.halt \notin {"unref", "detached"}
  /\ s.halt = "no" => Counted(s, owed) /\ Coherent(s) /\ Housed(s) /\ Kept(s, w)

\* One more reference, and the same one less.
LEMMA CountsClosed ==
  ASSUME NEW owed \in Counts, NEW p \in Node
  PROVE  /\ OneMore(owed, p) \in Counts
         /\ OneMore(owed, p)[p] > 0
         /\ \A q \in Node : OneMore(owed, p)[q] >= owed[q]
         /\ OneLess(OneMore(owed, p), p) = owed
<1>1. /\ OneMore(owed, p) \in Counts
      /\ OneMore(owed, p)[p] > 0
      /\ \A q \in Node : OneMore(owed, p)[q] >= owed[q]
  BY DEF Counts, OneMore
<1>2. OneLess(OneMore(owed, p), p) = owed
  <2> DEFINE v == OneLess(OneMore(owed, p), p)
  <2>1. v \in [Node -> Nat] /\ owed \in [Node -> Nat] /\ \A q \in Node : v[q] = owed[q]
    BY DEF Counts, OneMore, OneLess
  <2> HIDE DEF v
  <2>2. v = owed
    BY <2>1
  <2> QED
    BY <2>2 DEF v
<1> QED
  BY <1>1, <1>2

\* The order in which references are taken and given back is of no importance.
LEMMA CountsCommute ==
  ASSUME NEW owed \in Counts, NEW p \in Node, NEW q \in Node
  PROVE  OneLess(OneMore(OneMore(owed, p), q), p) = OneMore(owed, q)
<1> DEFINE u == OneLess(OneMore(OneMore(owed, p), q), p)
           v == OneMore(owed, q)
<1>1. u \in [Node -> Nat] /\ v \in [Node -> Nat] /\ \A r \in Node : u[r] = v[r]
  BY DEF Counts, OneMore, OneLess
<1> HIDE DEF u, v
<1>2. u = v
  BY <1>1
<1> QED
  BY <1>2 DEF u, v

\* What is watched stays watched under one more reference.
LEMMA WatchMore ==
  ASSUME NEW owed \in Counts, NEW p \in Node, NEW w, Watch(owed, w)
  PROVE  Watch(OneMore(owed, p), w)
<1>1. \A q \in Node : owed[q] > 0 => OneMore(owed, p)[q] > 0
  BY DEF Counts, OneMore
<1> QED
  BY <1>1 DEF Watch

\* vnode_ref takes one reference on a cached node.
LEMMA RefBalanced ==
  ASSUME NEW s, NEW owed \in Counts, NEW p \in Node, NEW w,
         Balanced(s, owed, w), s.halt = "no" => p \in s.tree
  PROVE  Balanced(Ref(s, p), OneMore(owed, p), w)
<1> DEFINE t == Ref(s, p)
<1>1. CASE p = Root
  BY <1>1 DEF Balanced, Counted, Ref, OneMore, Counts
<1>2. CASE p # Root
  <2>1. t = [s EXCEPT !.ref[p] = @ + 1]
    BY <1>2 DEF Ref
  <2>2. /\ t.tree = s.tree /\ t.vn = s.vn /\ t.disk = s.disk /\ t.halt = s.halt
        /\ t.ref = [s.ref EXCEPT ![p] = @ + 1]
    BY <2>1 DEF Balanced, Typed
  <2>3. Typed(t)
    BY <2>1 DEF Balanced, Typed
  <2>4. Rooted(t)
    BY <2>2 DEF Balanced, Rooted
  <2>5. s.ref \in [Node -> Nat] /\ s.tree \subseteq Node
    BY DEF Balanced, Typed
  <2> HIDE DEF t
  <2>6. ASSUME t.halt = "no" PROVE Counted(t, OneMore(owed, p))
    BY <2>2, <2>5, <2>6 DEF Balanced, Counted, OneMore, Counts
  <2>7. ASSUME t.halt = "no" PROVE Coherent(t)
    <3>1. Coherent(s) /\ \A q \in Node : s.ref[q] > 0 => t.ref[q] > 0
      BY <2>2, <2>5, <2>7 DEF Balanced
    <3> QED
      BY <2>2, <2>5, <3>1 DEF Coherent, Kids
  <2>8. ASSUME t.halt = "no" PROVE Housed(t) /\ Kept(t, w)
    BY <2>2, <2>8 DEF Balanced, Housed, EntryOf, Kept
  <2>9. Balanced(t, OneMore(owed, p), w)
    BY <2>2, <2>3, <2>4, <2>6, <2>7, <2>8 DEF Balanced
  <2> QED
    BY <2>9 DEF t
<1> QED
  BY <1>1, <1>2

\* The program stops: the counts, and what was watched, are discarded.
LEMMA HaltBalanced ==
  ASSUME NEW s, NEW owed, NEW w, Balanced(s, owed, w), NEW why \in Halts \ {"no", "unref", "detached"}
  PROVE  /\ Halt(s, why).halt # "no"
         /\ \A g, v : Balanced(Halt(s, why), g, v)
<1>1. CASE s.halt # "no"
  BY <1>1 DEF Halt, Balanced
<1>2. CASE s.halt = "no"
  <2> DEFINE t == Halt(s, why)
  <2>1. t = [s EXCEPT !.halt = why]
    BY <1>2 DEF Halt
  <2>2. Typed(t) /\ Rooted(t) /\ t.halt = why
    BY <2>1 DEF Balanced, Typed, Rooted
  <2> HIDE DEF t
  <2>3. t.halt # "no" /\ \A g, v : Balanced(t, g, v)
    BY <2>2 DEF Balanced
  <2> QED
    BY <2>3 DEF t
<1> QED
  BY <1>1, <1>2

\* A lookup adds nodes below cached nodes, with the entries the device has for
\* them, and changes no count and no vnode that somebody counts on.
LEMMA AttachBalanced ==
  ASSUME NEW s, NEW owed \in Counts, NEW w, Watch(owed, w), Balanced(s, owed, w), NEW seen
  PROVE  /\ Balanced(Attach(s, seen), owed, w)
         /\ s.tree \subseteq Attach(s, seen).tree
         /\ Attach(s, seen).halt = s.halt
         /\ \A q \in seen \cap Node :
              s.disk[q] # NoEntry /\ Above(q) \subseteq s.tree \cup {q}
              => q \in Attach(s, seen).tree
<1> DEFINE told == {q \in seen \cap Node : s.disk[q] # NoEntry}
           new == {q \in told \ s.tree : Above(q) \subseteq s.tree \cup told}
           t == Attach(s, seen)
<1>1. t = [s EXCEPT !.tree = s.tree \cup new,
                    !.vn = [q \in Node |-> IF q \in new THEN s.disk[q] ELSE s.vn[q]]]
  BY DEF Attach, AddNodes
<1>2. /\ t.tree = s.tree \cup new /\ t.ref = s.ref /\ t.disk = s.disk /\ t.halt = s.halt
      /\ t.vn = [q \in Node |-> IF q \in new THEN s.disk[q] ELSE s.vn[q]]
  <2> HIDE DEF new
  <2> QED
    BY <1>1 DEF Balanced, Typed
<1>3. new \subseteq Node /\ \A q \in new : s.disk[q] # NoEntry /\ q \notin s.tree
  OBVIOUS
<1>4. Typed(t)
  <2> HIDE DEF new
  <2>1. [q \in Node |-> IF q \in new THEN s.disk[q] ELSE s.vn[q]] \in [Node -> Entry \cup {NoEntry}]
    BY DEF Balanced, Typed
  <2>2. t \in [tree : SUBSET Node, vn : [Node -> Entry \cup {NoEntry}], ref : [Node -> Nat],
               disk : [Node -> Entry \cup {NoEntry}], halt : Halts]
    BY <1>1, <1>3, <2>1 DEF Balanced, Typed
  <2> QED
    BY <1>2, <2>2 DEF Balanced, Typed
<1>5. Rooted(t)
  <2>1. ASSUME NEW p \in new PROVE Above(p) \subseteq s.tree \cup new
    <3> SUFFICES ASSUME NEW x \in Above(p), x \notin s.tree PROVE x \in new
      OBVIOUS
    <3>1. x \in told
      BY DEF Above
    <3>2. Above(x) \subseteq Above(p)
      BY AboveTransitive
    <3> QED
      BY <3>1, <3>2
  <2> QED
    BY <1>2, <2>1 DEF Balanced, Rooted
<1>6. ASSUME NEW q \in seen \cap Node, s.disk[q] # NoEntry, Above(q) \subseteq s.tree \cup {q}
      PROVE  q \in t.tree
  <2>1. q \in told
    BY <1>6
  <2>2. q \in s.tree \/ q \in new
    BY <1>6, <2>1
  <2> QED
    BY <1>2, <2>2
<1>7. s.tree \subseteq Node /\ s.tree \subseteq t.tree /\ Root \in s.tree
  BY <1>2 DEF Balanced, Typed, Rooted
<1> HIDE DEF new, t
<1>8. ASSUME s.halt = "no" PROVE Coherent(t)
  <2>1. Coherent(s)
    BY <1>8 DEF Balanced
  <2> SUFFICES ASSUME NEW p \in t.tree \ {Root}
               PROVE  IF t.disk[p] # NoEntry THEN t.vn[p] = t.disk[p]
                      ELSE t.ref[p] > 0 \/ Kids(t, p) # {}
    BY DEF Coherent
  <2>2. CASE p \in new
    BY <1>2, <1>3, <2>2
  <2>3. CASE p \notin new
    <3>1. p \in s.tree \ {Root} /\ t.vn[p] = s.vn[p] /\ Kids(s, p) \subseteq Kids(t, p)
      BY <1>2, <1>7, <2>3 DEF Kids
    <3> QED
      BY <1>2, <2>1, <3>1 DEF Coherent
  <2> QED
    BY <2>2, <2>3
<1>9. ASSUME s.halt = "no" PROVE Housed(t)
  <2>1. Housed(s)
    BY <1>9 DEF Balanced
  <2> SUFFICES ASSUME NEW p \in Node \ {Root}, t.disk[p] # NoEntry
               PROVE  EntryOf(t, Parent(p)).type = "DIR"
    BY DEF Housed
  <2>2. EntryOf(s, Parent(p)).type = "DIR" /\ Parent(p) \in Node
    BY <1>2, <2>1, ParentAbove DEF Housed
  <2>3. EntryOf(t, Parent(p)) = EntryOf(s, Parent(p))
    BY <1>2, <1>3, <2>2 DEF EntryOf
  <2> QED
    BY <2>2, <2>3
<1>10. ASSUME s.halt = "no" PROVE Kept(t, w)
  <2>1. Kept(s, w) /\ Counted(s, owed)
    BY <1>10 DEF Balanced
  <2>2. ASSUME NEW x \in w.vnode PROVE t.vn[x] = s.vn[x]
    <3>1. x \in Node /\ x \in s.tree
      BY <1>7, <2>1 DEF Watch, Counted
    <3> QED
      BY <1>2, <1>3, <3>1
  <2> QED
    BY <1>2, <2>1, <2>2 DEF Kept
<1>11. ASSUME s.halt = "no" PROVE Counted(t, owed)
  BY <1>2, <1>11 DEF Balanced, Counted
<1>12. Balanced(t, owed, w)
  BY <1>2, <1>4, <1>5, <1>8, <1>9, <1>10, <1>11 DEF Balanced
<1> QED
  BY <1>2, <1>6, <1>7, <1>12 DEF t

\* What a release does to every part of the cache.
LEMMA FreeFields ==
  ASSUME NEW s, Typed(s), NEW gone \in SUBSET Node
  PROVE  /\ Typed(Free(s, gone))
         /\ Free(s, gone).tree = s.tree \ gone
         /\ Free(s, gone).ref = s.ref
         /\ Free(s, gone).halt = s.halt
         /\ \A q \in Node : Free(s, gone).vn[q] = IF q \in gone THEN NoEntry ELSE s.vn[q]
         /\ \A x \in Node : Free(s, gone).disk[x] =
              IF \E q \in gone : s.disk[q] = NoEntry /\ IsPrefix(q, x) THEN NoEntry ELSE s.disk[x]
<1> DEFINE t == Free(s, gone)
           vn == [q \in Node |-> IF q \in gone THEN NoEntry ELSE s.vn[q]]
           disk == [x \in Node |->
                     IF \E q \in gone : s.disk[q] = NoEntry /\ IsPrefix(q, x)
                     THEN NoEntry ELSE s.disk[x]]
<1>1. t = [s EXCEPT !.tree = s.tree \ gone, !.vn = vn, !.disk = disk]
  BY DEF Free
<1>2. vn \in [Node -> Entry \cup {NoEntry}] /\ disk \in [Node -> Entry \cup {NoEntry}]
  BY DEF Typed
<1>3. \A p \in Node \ (s.tree \ gone) : vn[p] = NoEntry
  BY DEF Typed
<1>4. \A q \in Node : vn[q] = IF q \in gone THEN NoEntry ELSE s.vn[q]
  OBVIOUS
<1>5. \A x \in Node : disk[x] =
        IF \E q \in gone : s.disk[q] = NoEntry /\ IsPrefix(q, x) THEN NoEntry ELSE s.disk[x]
  OBVIOUS
<1> HIDE DEF vn, disk
<1>6. /\ t.tree = s.tree \ gone /\ t.ref = s.ref /\ t.halt = s.halt /\ t.vn = vn /\ t.disk = disk
      /\ t \in [tree : SUBSET Node, vn : [Node -> Entry \cup {NoEntry}], ref : [Node -> Nat],
               disk : [Node -> Entry \cup {NoEntry}], halt : Halts]
  BY <1>1, <1>2 DEF Typed
<1>7. Typed(t)
  BY <1>3, <1>6 DEF Typed
<1> HIDE DEF t
<1>8. /\ \A q \in Node : t.vn[q] = IF q \in gone THEN NoEntry ELSE s.vn[q]
      /\ \A x \in Node : t.disk[x] =
           IF \E q \in gone : s.disk[q] = NoEntry /\ IsPrefix(q, x) THEN NoEntry ELSE s.disk[x]
  BY <1>4, <1>5, <1>6
<1> QED
  BY <1>6, <1>7, <1>8 DEF t

\* What vnode_free gives back lies above a node, and nothing that stays hangs
\* on it: a node below one that goes is below the released node, or goes too.
LEMMA UnusedClosed ==
  ASSUME NEW s, Typed(s), Rooted(s), NEW p \in Node
  PROVE  /\ Unused(s, p) \subseteq s.tree \ {Root}
         /\ \A q \in Unused(s, p) : q = p \/ s.ref[q] = 0
         /\ \A x \in s.tree \ Unused(s, p) : Above(x) \cap Unused(s, p) = {}
<1>1. s.tree \subseteq Node
  BY DEF Typed
<1>2. Unused(s, p) \subseteq s.tree \ {Root}
  BY DEF Unused, Above
<1>3. ASSUME NEW q \in Unused(s, p) PROVE q = p \/ s.ref[q] = 0
  BY <1>1, <1>2, AboveSelf DEF Unused
<1>4. ASSUME NEW x \in s.tree, NEW q \in Above(x), q \in Unused(s, p)
      PROVE  x \in Unused(s, p)
  <2>1. x \in Above(p)
    BY <1>4 DEF Unused
  <2>2. ASSUME NEW y \in s.tree, x \in Above(y)
        PROVE  y \in Above(p) /\ (y = p \/ s.ref[y] = 0)
    <3>1. q \in Above(y)
      BY <1>1, <2>2, AboveTransitive
    <3> QED
      BY <1>4, <3>1 DEF Unused
  <2> QED
    BY <2>1, <2>2 DEF Unused
<1> QED
  BY <1>2, <1>3, <1>4

\* An ancestor of the released node goes when it is not counted and all its
\* children go.
LEMMA UnusedUpwards ==
  ASSUME NEW s, Typed(s), Rooted(s), NEW p \in Node, NEW x \in s.tree \cap Above(p),
         s.ref[x] = 0, Kids(s, x) \subseteq Unused(s, p)
  PROVE  x \in Unused(s, p)
<1> SUFFICES ASSUME NEW y \in s.tree, x \in Above(y)
             PROVE  y \in Above(p) /\ (y = p \/ s.ref[y] = 0)
  BY DEF Unused
<1>1. s.tree \subseteq Node
  BY DEF Typed
<1>2. CASE y = x
  BY <1>2
<1>3. CASE y # x
  <2>1. PICK c \in Above(y) : Parent(c) = x
    BY <1>1, <1>3, ChildToward
  <2>2. c \in Kids(s, x)
    BY <2>1 DEF Rooted, Kids, Above
  <2>3. c \in Unused(s, p)
    BY <2>2
  <2> QED
    BY <2>3 DEF Unused
<1> QED
  BY <1>2, <1>3

\* A release keeps the agreement of the cache with the device: the entries that
\* go with a removed directory are below it, and no cached node is.
LEMMA FreeCoherent ==
  ASSUME NEW s, Typed(s), Rooted(s), NEW p \in Node \ {Root}, s.ref[p] = 0,
         \A x \in s.tree \ {Root} :
           IF s.disk[x] # NoEntry THEN s.vn[x] = s.disk[x]
           ELSE x = p \/ s.ref[x] > 0 \/ Kids(s, x) # {},
         Housed(s)
  PROVE  /\ Coherent(Free(s, Unused(s, p)))
         /\ Housed(Free(s, Unused(s, p)))
         /\ \A x \in s.tree \ Unused(s, p) : Free(s, Unused(s, p)).disk[x] = s.disk[x]
<1> DEFINE gone == Unused(s, p)
           u == Free(s, gone)
           Cleared(x) == \E q \in gone : s.disk[q] = NoEntry /\ IsPrefix(q, x)
<1>1. /\ gone \subseteq s.tree \ {Root} /\ s.tree \subseteq Node /\ Root \in s.tree
      /\ s.ref \in [Node -> Nat]
      /\ \A x \in s.tree \ gone : Above(x) \cap gone = {}
      /\ \A x \in s.tree : Above(x) \subseteq s.tree
  BY UnusedClosed DEF Typed, Rooted
<1>2. ASSUME NEW x \in s.tree \cap Above(p), s.ref[x] = 0, Kids(s, x) \subseteq gone
      PROVE  x \in gone
  BY <1>2, UnusedUpwards
<1>3. \A q \in gone : q \in Above(p)
  BY DEF Unused
<1> HIDE DEF gone
<1>4. /\ u.tree = s.tree \ gone /\ u.ref = s.ref
      /\ \A q \in Node : u.vn[q] = IF q \in gone THEN NoEntry ELSE s.vn[q]
      /\ \A x \in Node : u.disk[x] = IF Cleared(x) THEN NoEntry ELSE s.disk[x]
  BY <1>1, FreeFields
<1> HIDE DEF u
<1>5. ASSUME NEW x \in s.tree \ gone PROVE ~Cleared(x)
  BY <1>1 DEF Above
<1>6. ASSUME NEW x \in Node, NEW d \in Node, d \in Above(x), Cleared(d) PROVE Cleared(x)
  <2>1. PICK q \in gone : s.disk[q] = NoEntry /\ IsPrefix(q, d)
    BY <1>6
  <2>2. IsPrefix(q, x)
    BY <1>1, <1>6, <2>1, PrefixTransitive DEF Above
  <2> QED
    BY <2>1, <2>2
<1>7. \A q \in gone : s.disk[q] = NoEntry => Cleared(q)
  BY <1>1, PrefixReflexive
<1> HIDE DEF Cleared
<1>8. Coherent(u)
  <2> SUFFICES ASSUME NEW x \in u.tree \ {Root}
               PROVE  IF u.disk[x] # NoEntry THEN u.vn[x] = u.disk[x]
                      ELSE u.ref[x] > 0 \/ Kids(u, x) # {}
    BY DEF Coherent
  <2>1. x \in s.tree \ gone /\ x \in Node /\ u.disk[x] = s.disk[x] /\ u.vn[x] = s.vn[x]
    BY <1>1, <1>4, <1>5
  <2>2. CASE s.disk[x] # NoEntry
    BY <2>1, <2>2
  <2>3. CASE s.disk[x] = NoEntry
    <3> SUFFICES ASSUME ~(s.ref[x] > 0), Kids(u, x) = {} PROVE FALSE
      BY <1>4, <2>1, <2>3
    <3>1. Kids(s, x) \subseteq gone
      BY <1>4 DEF Kids
    <3>2. s.ref[x] = 0
      BY <1>1, <2>1
    <3>3. x \in Above(p)
      <4>1. CASE x = p
        BY <4>1, AboveSelf
      <4>2. CASE x # p
        <5>1. PICK k \in Kids(s, x) : TRUE
          BY <2>1, <2>3, <4>2
        <5>2. k \in Node /\ k # Root /\ Parent(k) = x /\ k \in Above(p)
          BY <1>1, <1>3, <3>1 DEF Kids
        <5>3. x \in Above(k)
          BY <5>2, ParentAbove
        <5> QED
          BY <5>2, <5>3, AboveTransitive
      <4> QED
        BY <4>1, <4>2
    <3> QED
      BY <1>2, <2>1, <3>1, <3>2, <3>3
  <2> QED
    BY <2>2, <2>3
<1>9. Housed(u)
  <2> SUFFICES ASSUME NEW x \in Node \ {Root}, u.disk[x] # NoEntry
               PROVE  EntryOf(u, Parent(x)).type = "DIR"
    BY DEF Housed
  <2> DEFINE d == Parent(x)
  <2>1. ~Cleared(x) /\ s.disk[x] # NoEntry
    BY <1>4
  <2>2. EntryOf(s, d).type = "DIR"
    BY <2>1 DEF Housed
  <2>3. d \in Node /\ (d = Root \/ d \in Above(x))
    BY ParentAbove
  <2> HIDE DEF d
  <2>4. ~Cleared(d)
    BY <1>1, <1>5, <1>6, <2>1, <2>3
  <2>5. CASE d \in gone
    <3>1. d \in s.tree \ {Root} /\ d \notin u.tree
      BY <1>1, <1>4, <2>5
    <3>2. s.disk[d] # NoEntry
      BY <1>7, <2>4, <2>5
    <3>3. s.vn[d] = s.disk[d]
      BY <3>1, <3>2
    <3>4. u.disk[d] = s.disk[d]
      BY <1>4, <2>3, <2>4
    <3> QED
      BY <2>2, <3>1, <3>3, <3>4 DEF EntryOf, d
  <2>6. CASE d \notin gone
    <3>1. u.disk[d] = s.disk[d] /\ u.vn[d] = s.vn[d] /\ (d \in u.tree <=> d \in s.tree)
      BY <1>4, <2>3, <2>4, <2>6
    <3> QED
      BY <2>2, <3>1 DEF EntryOf, d
  <2> QED
    BY <2>5, <2>6
<1>10. \A x \in s.tree \ gone : u.disk[x] = s.disk[x]
  BY <1>1, <1>4, <1>5
<1> QED
  BY <1>8, <1>9, <1>10 DEF u, gone

\* The entries that a release takes off the device are below a removed one.
LEMMA FreeClears ==
  ASSUME NEW s, Typed(s), NEW gone \in SUBSET (Node \ {Root}), NEW x \in Node,
         \A q \in Above(x) : s.disk[q] # NoEntry
  PROVE  Free(s, gone).disk[x] = s.disk[x]
<1>1. gone \in SUBSET Node
  OBVIOUS
<1>2. ~\E q \in gone : s.disk[q] = NoEntry /\ IsPrefix(q, x)
  BY DEF Above
<1> QED
  BY <1>1, <1>2, FreeFields

\* vnode_unref gives one reference back.  No node that is still counted goes,
\* and none whose children stay; nothing that is watched changes.
LEMMA UnrefBalanced ==
  ASSUME NEW s, NEW owed \in Counts, NEW p \in Node, NEW w,
         Balanced(s, owed, w), p # Root => owed[p] > 0,
         Unref(s, p).halt = "no" => Watch(OneLess(owed, p), w)
  PROVE  Balanced(Unref(s, p), OneLess(owed, p), w)
<1>1. Typed(s) /\ Rooted(s) /\ s.ref \in [Node -> Nat] /\ s.tree \subseteq Node
  BY DEF Balanced, Typed
<1>2. CASE Len(p) >= BackStack
  <2>1. "path_depth" \in Halts \ {"no", "unref", "detached"}
    BY DEF Halts
  <2>2. Unref(s, p) = Halt(s, "path_depth")
    BY <1>2 DEF Unref
  <2> QED
    BY <2>1, <2>2, HaltBalanced
<1>3. CASE ~(Len(p) >= BackStack) /\ p = Root
  BY <1>3 DEF Unref, Balanced, Counted, OneLess, Counts
<1>4. CASE ~(Len(p) >= BackStack) /\ p # Root /\ s.ref[p] > 0
  <2> DEFINE t == Uncount(s, p)
             gone == IF s.ref[p] > 1 THEN {} ELSE Unused(t, p)
             u == Unref(s, p)
             less == OneLess(owed, p)
  <2>1. t = [s EXCEPT !.ref[p] = @ - 1]
    BY DEF Uncount
  <2>2. /\ Typed(t) /\ Rooted(t) /\ t.tree = s.tree /\ t.halt = s.halt
        /\ t.vn = s.vn /\ t.disk = s.disk
        /\ t.ref = [s.ref EXCEPT ![p] = @ - 1]
    <3> DEFINE ref == [s.ref EXCEPT ![p] = @ - 1]
    <3>1. ref \in [Node -> Nat]
      BY <1>1, <1>4
    <3>2. t = [s EXCEPT !.ref = ref]
      BY <2>1
    <3> HIDE DEF ref, t
    <3>3. /\ t.ref = ref /\ t.tree = s.tree /\ t.halt = s.halt /\ t.vn = s.vn /\ t.disk = s.disk
          /\ Typed(t)
      BY <1>1, <3>1, <3>2 DEF Typed
    <3>4. Rooted(t)
      BY <1>1, <3>3 DEF Rooted
    <3> QED
      BY <3>3, <3>4 DEF ref
  <2> HIDE DEF t
  <2>3. t.ref[p] = s.ref[p] - 1 /\ \A q \in Node : q # p => t.ref[q] = s.ref[q]
    BY <1>1, <2>2
  <2>4. gone \subseteq s.tree \ {Root} /\ gone \in SUBSET Node /\ gone \in SUBSET (Node \ {Root})
    BY <1>1, <2>2, UnusedClosed
  <2>5. \A x \in s.tree \ gone : Above(x) \cap gone = {}
    BY <2>2, UnusedClosed
  <2>6. \A q \in gone : t.ref[q] = 0
    BY <1>1, <1>4, <2>2, <2>3, UnusedClosed
  <2>7. s.ref[p] \in Nat
    BY <1>1
  <2>8. u = IF s.ref[p] > 1 THEN t ELSE Free(t, gone)
    <3>1. CASE s.ref[p] > 1
      BY <1>4, <3>1 DEF Unref, t
    <3>2. CASE s.ref[p] = 1
      <4>1. gone = Unused(t, p)
        BY <3>2
      <4>2. u = Free(t, Unused(s, p))
        <5> HIDE DEF gone
        <5> QED
          BY <1>4, <3>2 DEF Unref, t
      <4>3. Unused(s, p) = Unused(t, p)
        BY <1>1, <2>2, <2>3 DEF Unused
      <4> HIDE DEF gone, u
      <4> QED
        BY <3>2, <4>1, <4>2, <4>3
    <3> HIDE DEF gone, u
    <3> QED
      BY <1>4, <2>7, <3>1, <3>2
  <2>9. Typed(u) /\ u.tree = s.tree \ gone /\ u.halt = s.halt /\ u.ref = t.ref
    <3> HIDE DEF u
    <3>1. CASE s.ref[p] > 1
      BY <2>2, <2>8, <3>1
    <3>2. CASE ~(s.ref[p] > 1)
      <4> HIDE DEF gone
      <4> QED
        BY <2>2, <2>4, <2>8, <3>2, FreeFields
    <3> QED
      BY <3>1, <3>2
  <2>10. Rooted(u)
    <3> HIDE DEF gone, u
    <3> QED
      BY <1>1, <2>4, <2>5, <2>9 DEF Rooted
  <2>11. ASSUME u.halt = "no" PROVE Counted(u, less)
    <3> HIDE DEF gone, u
    <3> SUFFICES ASSUME NEW q \in Node \ {Root}
                 PROVE  u.ref[q] = less[q] /\ (less[q] > 0 => q \in u.tree)
      BY DEF Counted
    <3>1. s.ref[q] = owed[q] /\ (owed[q] > 0 => q \in s.tree)
      BY <2>9, <2>11 DEF Balanced, Counted
    <3>2. u.ref[q] = less[q]
      BY <1>1, <2>2, <2>9, <3>1 DEF OneLess, Counts
    <3>3. less[q] <= owed[q]
      BY DEF OneLess, Counts
    <3>4. owed[q] \in Nat /\ less[q] \in Int
      BY DEF OneLess, Counts
    <3> HIDE DEF less
    <3> QED
      BY <2>6, <2>9, <3>1, <3>2, <3>3, <3>4
  <2>12. ASSUME u.halt = "no"
         PROVE  /\ Coherent(u) /\ Housed(u)
                /\ \A x \in s.tree \ gone : u.disk[x] = s.disk[x] /\ u.vn[x] = s.vn[x]
    <3>1. Coherent(s) /\ Housed(s)
      BY <2>9, <2>12 DEF Balanced
    <3>2. Housed(t)
      BY <2>2, <3>1 DEF Housed, EntryOf
    <3>3. CASE s.ref[p] > 1
      <4>1. \A q \in Node : s.ref[q] > 0 => t.ref[q] > 0
        BY <1>1, <2>3, <2>7, <3>3
      <4>2. Coherent(t)
        BY <1>1, <2>2, <3>1, <4>1 DEF Coherent, Kids
      <4> QED
        BY <2>2, <2>8, <3>2, <3>3, <4>2
    <3>4. CASE ~(s.ref[p] > 1)
      <4>1. t.ref[p] = 0
        BY <1>4, <2>3, <2>7, <3>4
      <4>2. ASSUME NEW x \in t.tree \ {Root}
            PROVE  IF t.disk[x] # NoEntry THEN t.vn[x] = t.disk[x]
                   ELSE x = p \/ t.ref[x] > 0 \/ Kids(t, x) # {}
        BY <1>1, <2>2, <2>3, <3>1 DEF Coherent, Kids
      <4>3. /\ Coherent(Free(t, Unused(t, p))) /\ Housed(Free(t, Unused(t, p)))
            /\ \A x \in t.tree \ Unused(t, p) : Free(t, Unused(t, p)).disk[x] = t.disk[x]
        <5>1. Typed(t) /\ Rooted(t) /\ p \in Node \ {Root}
          BY <1>4, <2>2
        <5> HIDE DEF gone, u
        <5> QED
          BY <3>2, <4>1, <4>2, <5>1, FreeCoherent
      <4>4. gone = Unused(t, p)
        BY <3>4
      <4> HIDE DEF gone, u
      <4>5. u = Free(t, gone)
        BY <2>8, <3>4
      <4>6. \A x \in s.tree \ gone : u.vn[x] = s.vn[x]
        BY <1>1, <2>2, <2>4, <4>5, FreeFields
      <4> QED
        BY <2>2, <4>3, <4>4, <4>5, <4>6
    <3> QED
      BY <3>3, <3>4
  <2>13. ASSUME u.halt = "no", NEW x \in Node, \A q \in Above(x) : s.disk[q] # NoEntry
         PROVE  u.disk[x] = s.disk[x]
    <3> HIDE DEF gone, u
    <3> QED
      BY <2>2, <2>4, <2>8, <2>13, FreeClears
  <2> HIDE DEF gone, u
  <2>14. ASSUME u.halt = "no" PROVE Kept(u, w)
    <3>1. Kept(s, w) /\ Watch(less, w) /\ Counted(u, less)
      BY <2>9, <2>11, <2>14 DEF Balanced, u
    <3> HIDE DEF less
    <3>2. \A x \in Node : less[x] > 0 \/ x = Root => x \in s.tree \ gone
      BY <2>9, <2>10, <3>1 DEF Counted, Rooted
    <3>3. ASSUME NEW x \in w.entry PROVE u.disk[x] # NoEntry
      <4>1. x \in Node /\ s.disk[x] # NoEntry
        BY <3>1, <3>3 DEF Watch, Kept
      <4>2. CASE Above(x) \subseteq w.entry
        <5>1. \A q \in Above(x) : s.disk[q] # NoEntry
          BY <3>1, <4>2 DEF Kept
        <5> QED
          BY <2>13, <2>14, <4>1, <5>1
      <4>3. CASE less[x] > 0 \/ x = Root
        BY <2>12, <2>14, <3>2, <4>1, <4>3
      <4> QED
        BY <3>1, <3>3, <4>2, <4>3 DEF Watch
    <3>4. ASSUME NEW x \in w.vnode PROVE u.vn[x] = vfs.vn[x]
      <4>1. x \in s.tree \ gone
        BY <3>1, <3>2, <3>4 DEF Watch
      <4> QED
        BY <2>12, <2>14, <3>1, <3>4, <4>1 DEF Kept
    <3> QED
      BY <3>3, <3>4 DEF Kept
  <2>15. Balanced(u, less, w)
    BY <2>9, <2>10, <2>11, <2>12, <2>14 DEF Balanced
  <2> QED
    BY <2>15 DEF u
<1>5. CASE ~(Len(p) >= BackStack) /\ p # Root /\ s.ref[p] = 0
  <2>1. s.halt # "no"
    BY <1>5 DEF Balanced, Counted
  <2>2. Unref(s, p) = s
    BY <1>5, <2>1 DEF Unref, Halt
  <2> QED
    BY <2>1, <2>2 DEF Balanced
<1> QED
  BY <1>1, <1>2, <1>3, <1>4, <1>5

\* A reference that was taken is given back.
LEMMA UnrefGivesBack ==
  ASSUME NEW s, NEW owed \in Counts, NEW p \in Node, NEW w, Watch(owed, w),
         Balanced(s, OneMore(owed, p), w)
  PROVE  Balanced(Unref(s, p), owed, w)
<1>1. /\ OneMore(owed, p) \in Counts /\ OneMore(owed, p)[p] > 0
      /\ OneLess(OneMore(owed, p), p) = owed
  BY CountsClosed
<1> DEFINE g == OneMore(owed, p)
<1>2. Watch(OneLess(g, p), w) /\ Balanced(s, g, w) /\ g \in Counts /\ g[p] > 0
  BY <1>1
<1> HIDE DEF g
<1>3. Balanced(Unref(s, p), OneLess(g, p), w)
  BY <1>2, UnrefBalanced
<1> QED
  BY <1>1, <1>3 DEF g

\* Of two references the first one is given back.
LEMMA UnrefGivesFirst ==
  ASSUME NEW s, NEW owed \in Counts, NEW p \in Node, NEW q \in Node, NEW w, Watch(owed, w),
         Balanced(s, OneMore(OneMore(owed, p), q), w)
  PROVE  Balanced(Unref(s, p), OneMore(owed, q), w)
<1> DEFINE g == OneMore(OneMore(owed, p), q)
<1>1. OneMore(owed, p) \in Counts /\ OneMore(owed, p)[p] > 0
  BY CountsClosed
<1>2. g \in Counts /\ g[p] >= OneMore(owed, p)[p]
  BY <1>1, CountsClosed
<1>3. g[p] \in Nat /\ OneMore(owed, p)[p] \in Nat
  BY <1>1, <1>2 DEF Counts
<1>4. OneLess(g, p) = OneMore(owed, q)
  BY CountsCommute
<1>5. Balanced(s, g, w) /\ Watch(OneLess(g, p), w)
  BY <1>4, WatchMore
<1> HIDE DEF g
<1>6. Balanced(Unref(s, p), OneLess(g, p), w)
  BY <1>1, <1>2, <1>3, <1>5, UnrefBalanced
<1> QED
  BY <1>4, <1>6

-----------------------------------------------------------------------------
(* The recursion of vfs_find_tree, a function on walks.  Every call that a *)
(* call makes is for a shorter walk: the definition has a value, and what  *)
(* holds for the shorter walks may be assumed for the longer ones.         *)

Shorter(v, w) == \/ v.links < w.links
                 \/ v.links = w.links /\ Len(v.el) < Len(w.el)

Answer == [res : {"ok", "noent", "mid_link", "link_loop"}, node : Node, seen : SUBSET Node]

\* The walk that is left after a link in the middle of the path was resolved.
Rest(w, r) == [node |-> r.node, el |-> Tail(w.el), seen |-> r.seen, links |-> w.links - 1]

\* Where a call of the recursion may go on: up, to an attached node, or to one
\* that it attaches.
Leads(s, w, v) ==
  \/ v.seen = w.seen /\ v.node \in {w.node, Up(w.node)} \cup s.tree \cup w.seen
  \/ \E n \in Name : /\ v.node = Append(w.node, n) /\ v.node \in Node
                     /\ s.disk[v.node] # NoEntry /\ v.seen = w.seen \cup {v.node}

\* The three ways a call ends: at once, as another call ends, or with the
\* resolution of a link first.
Stops(s, w, r) == /\ r \in Answer /\ r.seen = w.seen /\ r.node \in {w.node, Root}
                  /\ \A f : WalkOn(s, f, w) = r
Goes(s, w, v) == /\ v \in Walk /\ Shorter(v, w) /\ Leads(s, w, v)
                 /\ \A f : WalkOn(s, f, w) = f[v]
Links(s, w, v) == /\ v \in Walk /\ Shorter(v, w) /\ Leads(s, w, v)
                  /\ w.links > 0 /\ w.el # <<>>
                  /\ \A f : WalkOn(s, f, w) = IF f[v].res = "ok" THEN f[Rest(w, f[v])] ELSE f[v]

\* A set of natural numbers has a least one.
LEMMA LeastNat ==
  ASSUME NEW T \in SUBSET Nat, T # {}
  PROVE  \E n \in T : \A m \in T : n <= m
<1>1. PICK k \in T : TRUE
  OBVIOUS
<1> DEFINE R == StrictSubsetOrdering(0 .. k)
           I(n) == 0 .. n - 1
           P == {n \in T : n <= k}
           Q == {I(n) : n \in P}
<1>2. IsWellFoundedOn(R, SUBSET (0 .. k))
  <2>1. IsFiniteSet(0 .. k)
    BY <1>1, FS_Interval
  <2> QED
    BY <2>1, FS_StrictSubsetOrderingWellFounded, FS_FiniteSubsetsOfFinite
<1>3. Q \subseteq SUBSET (0 .. k) /\ Q # {}
  BY <1>1
<1>4. PICK x \in Q : \A y \in Q : ~(<<y, x>> \in R)
  <2> HIDE DEF R, Q
  <2> QED
    BY <1>2, <1>3, WFMin
<1>5. PICK n \in P : x = I(n)
  BY <1>4
<1>6. ASSUME NEW m \in T, m < n PROVE FALSE
  <2>1. m \in P
    BY <1>6
  <2>2. I(m) \subseteq I(n) /\ m \in I(n) /\ m \notin I(m)
    BY <1>6
  <2>3. I(m) \in SUBSET (0 .. k) /\ I(n) \in SUBSET (0 .. k) /\ I(m) # I(n)
    BY <1>6, <2>2
  <2>4. <<I(m), I(n)>> \in R
    BY <2>2, <2>3 DEF StrictSubsetOrdering
  <2> QED
    BY <1>4, <1>5, <2>1, <2>4
<1> QED
  BY <1>6

\* A set of walks has one that none of them is shorter than.
LEMMA ShortestWalk ==
  ASSUME NEW S \in SUBSET Walk, S # {}
  PROVE  \E w \in S : \A v \in S : ~Shorter(v, w)
<1> DEFINE L == {w.links : w \in S}
<1>1. \A w \in S : w.links \in Nat /\ Len(w.el) \in Nat
  BY PathAssumption DEF Walk
<1>2. PICK l \in L : \A m \in L : l <= m
  BY <1>1, LeastNat
<1> DEFINE M == {Len(w.el) : w \in {x \in S : x.links = l}}
<1>3. M \in SUBSET Nat /\ M # {}
  BY <1>1, <1>2
<1>4. PICK k \in M : \A m \in M : k <= m
  <2> HIDE DEF M
  <2> QED
    BY <1>3, LeastNat
<1>5. PICK w \in S : w.links = l /\ Len(w.el) = k
  BY <1>4
<1>6. ASSUME NEW v \in S PROVE ~Shorter(v, w)
  <2>1. w.links <= v.links /\ (v.links = w.links => Len(w.el) <= Len(v.el))
    BY <1>2, <1>4, <1>5
  <2> QED
    BY <1>1, <2>1 DEF Shorter
<1> QED
  BY <1>6

\* The way a call ends, by the conditions of vfs_find_tree.
LEMMA WalkEnds ==
  ASSUME NEW s, Typed(s), NEW w \in Walk
  PROVE  \/ \E r : Stops(s, w, r)
         \/ \E v : Goes(s, w, v)
         \/ \E v : Links(s, w, v)
<1> DEFINE On(n, seen, links) == [node |-> n, el |-> Tail(w.el), seen |-> seen, links |-> links]
           child == Append(w.node, Head(w.el))
           via == [node |-> Up(w.node), el |-> s.disk[child].to, seen |-> w.seen,
                   links |-> w.links - 1]
<1>1. /\ w.node \in Node /\ w.el \in Seq(Elem) /\ w.seen \in SUBSET Node
      /\ w.links \in 0 .. MaxLinks
      /\ s.tree \subseteq Node /\ s.disk \in [Node -> Entry \cup {NoEntry}]
  BY DEF Walk, Typed
<1>2. CASE w.el = <<>>
  <2>1. Stops(s, w, Found(w.node, w.seen))
    BY <1>1, <1>2 DEF Stops, Answer, Found, WalkOn
  <2> QED
    BY <2>1
<1>3. CASE w.el # <<>>
  <2>1. /\ Tail(w.el) \in Seq(Elem) /\ Head(w.el) \in Elem
        /\ Len(Tail(w.el)) < Len(w.el)
    BY <1>1, <1>3
  <2>2. ASSUME NEW n \in Node, NEW seen \in SUBSET Node
        PROVE  On(n, seen, w.links) \in Walk /\ Shorter(On(n, seen, w.links), w)
    BY <1>1, <2>1 DEF Walk, Shorter
  <2>3. Up(w.node) \in Node
    BY <1>1, RootNode, ParentAbove DEF Up
  <2>4. \A why \in {"noent", "mid_link", "link_loop"} :
          Failed(why, w.seen) \in Answer /\ Failed(why, w.seen).seen = w.seen
          /\ Failed(why, w.seen).node = Root
    BY <1>1, RootNode DEF Answer, Failed
  <2>5. CASE Head(w.el) = "."
    <3>1. Goes(s, w, On(w.node, w.seen, w.links))
      BY <1>1, <1>3, <2>2, <2>5 DEF Goes, Leads, WalkOn
    <3> QED
      BY <3>1
  <2>6. CASE Head(w.el) # "." /\ Head(w.el) = ".."
    <3>1. Goes(s, w, On(Up(w.node), w.seen, w.links))
      BY <1>1, <1>3, <2>2, <2>3, <2>6 DEF Goes, Leads, WalkOn
    <3> QED
      BY <3>1
  <2>7. CASE Head(w.el) \notin {".", ".."} /\ EntryOf(s, w.node).type # "DIR"
    <3>1. \/ Stops(s, w, Failed("mid_link", w.seen))
          \/ Stops(s, w, Failed("noent", w.seen))
      BY <1>1, <1>3, <2>4, <2>7 DEF Stops, WalkOn
    <3> QED
      BY <3>1
  <2>8. CASE Head(w.el) \notin {".", ".."} /\ EntryOf(s, w.node).type = "DIR"
    <3>1. Head(w.el) \in Name
      BY <2>1, <2>8 DEF Elem
    <3>2. CASE child \in s.tree \cup w.seen
      <4>1. child \in Node
        BY <1>1, <3>2
      <4>2. Goes(s, w, On(child, w.seen, w.links))
        BY <1>1, <1>3, <2>2, <2>8, <3>2, <4>1 DEF Goes, Leads, WalkOn
      <4> QED
        BY <4>2
    <3>3. CASE child \notin s.tree \cup w.seen /\ (Len(w.node) = MaxDepth \/ s.disk[child] = NoEntry)
      <4>1. Stops(s, w, Failed("noent", w.seen))
        BY <1>1, <1>3, <2>4, <2>8, <3>3 DEF Stops, WalkOn
      <4> QED
        BY <4>1
    <3>4. CASE /\ child \notin s.tree \cup w.seen
               /\ ~(Len(w.node) = MaxDepth \/ s.disk[child] = NoEntry)
      <4>1. child \in Node
        <5>1. w.node \in Seq(Name) /\ Len(w.node) < MaxDepth
          BY <1>1, <3>4, NodeSeq, PathAssumption
        <5>2. child \in Seq(Name) /\ Len(child) <= MaxDepth
          BY <3>1, <5>1, PathAssumption
        <5> QED
          BY <5>2, SeqNode
      <4>2. CASE s.disk[child].type # "LNK" \/ Len(w.el) = 1
        <5>1. Goes(s, w, On(child, w.seen \cup {child}, w.links))
          <6> DEFINE v == On(child, w.seen \cup {child}, w.links)
          <6>1. v \in Walk /\ Shorter(v, w)
            BY <1>1, <2>2, <4>1
          <6>2. Leads(s, w, v)
            BY <3>1, <3>4, <4>1 DEF Leads
          <6>3. \A f : WalkOn(s, f, w) = f[v]
            BY <1>3, <2>8, <3>4, <4>2 DEF WalkOn
          <6> QED
            BY <6>1, <6>2, <6>3 DEF Goes
        <5> QED
          BY <5>1
      <4>3. CASE ~(s.disk[child].type # "LNK" \/ Len(w.el) = 1) /\ w.links = 0
        <5>1. Stops(s, w, Failed("link_loop", w.seen))
          BY <1>1, <1>3, <2>4, <2>8, <3>4, <4>3 DEF Stops, WalkOn
        <5> QED
          BY <5>1
      <4>4. CASE ~(s.disk[child].type # "LNK" \/ Len(w.el) = 1) /\ w.links # 0
        <5>1. s.disk[child].to \in Seq(Elem)
          BY <1>1, <3>4, <4>1, <4>4, PathAssumption DEF Entry
        <5>2. via \in Walk /\ Shorter(via, w) /\ w.links > 0
          BY <1>1, <2>3, <4>4, <5>1, PathAssumption DEF Walk, Shorter
        <5>3. Leads(s, w, via)
          BY DEF Leads
        <5>4. \A f : WalkOn(s, f, w) = IF f[via].res = "ok" THEN f[Rest(w, f[via])] ELSE f[via]
          BY <1>3, <2>8, <3>4, <4>4 DEF WalkOn, Rest
        <5>5. Links(s, w, via)
          <6> HIDE DEF via
          <6> QED
            BY <1>3, <5>2, <5>3, <5>4 DEF Links
        <5> QED
          BY <5>5
      <4> QED
        BY <4>2, <4>3, <4>4
    <3> QED
      BY <3>2, <3>3, <3>4
  <2> QED
    BY <2>5, <2>6, <2>7, <2>8
<1> QED
  BY <1>2, <1>3

\* Shorter is an order.
LEMMA ShorterOrder ==
  ASSUME NEW u \in Walk, NEW v \in Walk, NEW w \in Walk
  PROVE  ~Shorter(w, w) /\ (Shorter(u, v) /\ Shorter(v, w) => Shorter(u, w))
<1>1. \A x \in Walk : x.links \in Nat /\ Len(x.el) \in Nat
  BY PathAssumption DEF Walk
<1> QED
  BY <1>1 DEF Shorter

\* After a link the rest of the path is walked with one link less.
LEMMA RestShorter ==
  ASSUME NEW s, NEW w \in Walk, NEW v, Links(s, w, v), NEW r \in Answer
  PROVE  Rest(w, r) \in Walk /\ Shorter(Rest(w, r), w)
<1>1. w.el \in Seq(Elem) /\ w.el # <<>> /\ w.links \in 1 .. MaxLinks
  BY PathAssumption DEF Walk, Links
<1>2. Tail(w.el) \in Seq(Elem)
  BY <1>1
<1>3. r.node \in Node /\ r.seen \in SUBSET Node
  BY DEF Answer
<1> QED
  BY <1>1, <1>2, <1>3, PathAssumption DEF Rest, Walk, Shorter

\* A call depends on nothing but the answers to shorter ones.
LEMMA WalkLocal ==
  ASSUME NEW s, Typed(s), NEW w \in Walk, NEW f, NEW g,
         \A v \in Walk : Shorter(v, w) => f[v] = g[v] /\ f[v] \in Answer
  PROVE  WalkOn(s, f, w) = WalkOn(s, g, w) /\ WalkOn(s, f, w) \in Answer
<1>1. CASE \E r : Stops(s, w, r)
  BY <1>1 DEF Stops
<1>2. CASE \E v : Goes(s, w, v)
  BY <1>2 DEF Goes
<1>3. CASE \E v : Links(s, w, v)
  <2>1. PICK v : Links(s, w, v)
    BY <1>3
  <2>2. v \in Walk /\ Shorter(v, w) /\ f[v] = g[v] /\ f[v] \in Answer
    BY <2>1 DEF Links
  <2>3. f[Rest(w, f[v])] = g[Rest(w, g[v])] /\ f[Rest(w, f[v])] \in Answer
    BY <2>1, <2>2, RestShorter
  <2>4. /\ WalkOn(s, f, w) = IF f[v].res = "ok" THEN f[Rest(w, f[v])] ELSE f[v]
        /\ WalkOn(s, g, w) = IF g[v].res = "ok" THEN g[Rest(w, g[v])] ELSE g[v]
    BY <2>1 DEF Links
  <2> QED
    BY <2>2, <2>3, <2>4
<1> QED
  BY <1>1, <1>2, <1>3, WalkEnds

\* g answers w, and all that is shorter, as the recursion asks.
Solves(s, g, w) ==
  /\ g \in [Walk -> Answer]
  /\ \A v \in Walk : v = w \/ Shorter(v, w) => g[v] = WalkOn(s, g, v)

Solved(s, w) == \E g : Solves(s, g, w)

Solution(s) == [w \in Walk |-> (CHOOSE g : Solves(s, g, w))[w]]

\* What answers a walk answers the shorter ones.
LEMMA SolvesShorter ==
  ASSUME NEW s, NEW w \in Walk, NEW v \in Walk, Shorter(v, w), NEW g, Solves(s, g, w)
  PROVE  Solves(s, g, v)
BY ShorterOrder DEF Solves

\* There is one answer at most.
LEMMA SolvesOnce ==
  ASSUME NEW s, Typed(s), NEW w \in Walk, NEW f, NEW g, Solves(s, f, w), Solves(s, g, w)
  PROVE  f[w] = g[w]
<1> DEFINE B == {v \in Walk : (v = w \/ Shorter(v, w)) /\ f[v] # g[v]}
<1>1. SUFFICES ASSUME B # {} PROVE FALSE
  OBVIOUS
<1>2. PICK v \in B : \A u \in B : ~Shorter(u, v)
  <2>1. B \in SUBSET Walk
    OBVIOUS
  <2> HIDE DEF B
  <2> QED
    BY <1>1, <2>1, ShortestWalk
<1>3. v \in Walk /\ (v = w \/ Shorter(v, w)) /\ f[v] # g[v]
  BY <1>2
<1>4. ASSUME NEW u \in Walk, Shorter(u, v) PROVE f[u] = g[u] /\ f[u] \in Answer
  <2>1. Shorter(u, w)
    BY <1>3, <1>4, ShorterOrder
  <2> QED
    BY <1>2, <1>4, <2>1 DEF Solves
<1>5. WalkOn(s, f, v) = WalkOn(s, g, v)
  BY <1>3, <1>4, WalkLocal
<1> QED
  BY <1>3, <1>5 DEF Solves

\* The single answers fit together.
LEMMA SolutionSolves ==
  ASSUME NEW s, Typed(s), NEW w \in Walk, Solved(s, w)
  PROVE  /\ Solution(s)[w] \in Answer
         /\ Solution(s)[w] = WalkOn(s, Solution(s), w)
<1>1. PICK g : Solves(s, g, w)
  BY DEF Solved
<1>2. ASSUME NEW v \in Walk, v = w \/ Shorter(v, w)
      PROVE  g[v] = Solution(s)[v] /\ g[v] \in Answer
  <2>1. Solves(s, g, v)
    BY <1>1, <1>2, SolvesShorter
  <2> DEFINE h == CHOOSE x : Solves(s, x, v)
  <2>2. Solves(s, h, v)
    BY <2>1
  <2>3. Solution(s)[v] = h[v]
    BY DEF Solution
  <2> HIDE DEF h
  <2>4. g[v] = h[v]
    BY <2>1, <2>2, SolvesOnce
  <2> QED
    BY <2>1, <2>3, <2>4 DEF Solves
<1>3. WalkOn(s, g, w) = WalkOn(s, Solution(s), w)
  BY <1>2, WalkLocal
<1> QED
  BY <1>1, <1>2, <1>3 DEF Solves

\* Every walk has an answer.
LEMMA AllSolved ==
  ASSUME NEW s, Typed(s), NEW w \in Walk
  PROVE  Solved(s, w)
<1> DEFINE B == {v \in Walk : ~Solved(s, v)}
<1>1. SUFFICES ASSUME B # {} PROVE FALSE
  OBVIOUS
<1>2. PICK v \in B : \A u \in B : ~Shorter(u, v)
  <2>1. B \in SUBSET Walk
    OBVIOUS
  <2> HIDE DEF B
  <2> QED
    BY <1>1, <2>1, ShortestWalk
<1>3. v \in Walk /\ ~Solved(s, v)
  BY <1>2
<1> DEFINE h == Solution(s)
           g == [u \in Walk |-> IF Shorter(u, v) THEN h[u]
                                 ELSE IF u = v THEN WalkOn(s, h, v) ELSE Failed("noent", {})]
<1>4. ASSUME NEW u \in Walk, Shorter(u, v)
      PROVE  h[u] \in Answer /\ h[u] = WalkOn(s, h, u)
  <2>1. Solved(s, u)
    BY <1>2, <1>4
  <2> QED
    BY <2>1, SolutionSolves
<1>5. WalkOn(s, h, v) \in Answer
  BY <1>3, <1>4, WalkLocal
<1> HIDE DEF h
<1>6. g \in [Walk -> Answer]
  BY <1>4, <1>5, RootNode DEF Failed, Answer
<1>7. ASSUME NEW u \in Walk, u = v \/ Shorter(u, v)
      PROVE  g[u] = WalkOn(s, g, u)
  <2>1. ASSUME NEW x \in Walk, Shorter(x, u) PROVE h[x] = g[x] /\ h[x] \in Answer
    <3>1. Shorter(x, v)
      BY <1>3, <1>7, <2>1, ShorterOrder
    <3> QED
      BY <1>4, <3>1
  <2>2. WalkOn(s, h, u) = WalkOn(s, g, u)
    <3> HIDE DEF g
    <3> QED
      BY <2>1, WalkLocal
  <2>3. g[u] = WalkOn(s, h, u)
    BY <1>3, <1>4, <1>7, ShorterOrder
  <2> QED
    BY <2>2, <2>3
<1>8. Solves(s, g, v)
  <2> HIDE DEF g
  <2> QED
    BY <1>6, <1>7 DEF Solves
<1> QED
  BY <1>3, <1>8 DEF Solved

\* f is the recursion of vfs_find_tree.
Recursion(s, f) == f \in [Walk -> Answer] /\ \A w \in Walk : f[w] = WalkOn(s, f, w)

\* vfs_find_tree is what its recursion says: the definition has a value.
LEMMA FindRecursion ==
  ASSUME NEW s, Typed(s), NEW base, NEW path
  PROVE  \E f : /\ Recursion(s, f)
                /\ vfs_find_tree(s, base, path)
                   = f[[node |-> base, el |-> path, seen |-> {}, links |-> MaxLinks]]
<1> DEFINE h == Solution(s)
<1>1. h = [w \in Walk |-> WalkOn(s, h, w)]
  <2>1. \A w \in Walk : h[w] = WalkOn(s, h, w)
    BY AllSolved, SolutionSolves
  <2>2. h = [w \in Walk |-> h[w]]
    BY DEF Solution
  <2> HIDE DEF h
  <2> QED
    BY <2>1, <2>2
<1> DEFINE f == CHOOSE x : x = [w \in Walk |-> WalkOn(s, x, w)]
<1>2. f = [w \in Walk |-> WalkOn(s, f, w)]
  <2> HIDE DEF h
  <2> QED
    BY <1>1
<1>3. vfs_find_tree(s, base, path)
      = f[[node |-> base, el |-> path, seen |-> {}, links |-> MaxLinks]]
  BY DEF vfs_find_tree
<1> HIDE DEF f
<1>4. \A w \in Walk : f[w] = WalkOn(s, f, w)
  BY <1>2
<1>5. \A w \in Walk : f[w] \in Answer
  <2> DEFINE B == {w \in Walk : f[w] \notin Answer}
  <2>1. SUFFICES ASSUME B # {} PROVE FALSE
    OBVIOUS
  <2>2. PICK v \in B : \A u \in B : ~Shorter(u, v)
    <3>1. B \in SUBSET Walk
      OBVIOUS
    <3> HIDE DEF B
    <3> QED
      BY <2>1, <3>1, ShortestWalk
  <2>3. \A u \in Walk : Shorter(u, v) => f[u] \in Answer
    BY <2>2
  <2>4. WalkOn(s, f, v) \in Answer
    BY <2>2, <2>3, WalkLocal
  <2> QED
    BY <1>4, <2>2, <2>4
<1>6. Recursion(s, f)
  BY <1>2, <1>4, <1>5 DEF Recursion
<1> QED
  BY <1>3, <1>6

\* What a lookup has seen hangs on the tree, and it stands there or on the tree.
Standing(s, x) ==
  /\ x.node \in s.tree \cup x.seen
  /\ \A q \in x.seen : s.disk[q] # NoEntry /\ Above(q) \subseteq s.tree \cup x.seen

\* The path to where a lookup stands is attached.
LEMMA StandingAbove ==
  ASSUME NEW s, Rooted(s), NEW x, Standing(s, x)
  PROVE  Above(x.node) \subseteq s.tree \cup x.seen
BY DEF Rooted, Standing

\* It goes on from one such place to another.
LEMMA LeadsStanding ==
  ASSUME NEW s, Typed(s), Rooted(s), NEW w \in Walk, NEW v \in Walk,
         Standing(s, w), Leads(s, w, v)
  PROVE  Standing(s, v)
<1>1. w.node \in Node /\ w.seen \subseteq Node /\ s.tree \subseteq Node
  BY DEF Walk, Typed
<1>2. Above(w.node) \subseteq s.tree \cup w.seen
  BY StandingAbove
<1>3. Up(w.node) \in s.tree \cup w.seen
  BY <1>1, <1>2, ParentAbove DEF Up, Rooted
<1>4. CASE v.seen = w.seen /\ v.node \in {w.node, Up(w.node)} \cup s.tree \cup w.seen
  BY <1>3, <1>4 DEF Standing
<1>5. CASE \E n \in Name : /\ v.node = Append(w.node, n) /\ v.node \in Node
                            /\ s.disk[v.node] # NoEntry /\ v.seen = w.seen \cup {v.node}
  <2>1. Above(v.node) \subseteq Above(w.node) \cup {v.node}
    BY <1>1, <1>5, AboveAppend
  <2> QED
    BY <1>2, <1>5, <2>1 DEF Standing
<1> QED
  BY <1>4, <1>5 DEF Leads

\* And so it ends.
LEMMA RecursionStanding ==
  ASSUME NEW s, Typed(s), Rooted(s), NEW f, Recursion(s, f), NEW w \in Walk, Standing(s, w)
  PROVE  Standing(s, f[w])
<1> DEFINE B == {v \in Walk : Standing(s, v) /\ ~Standing(s, f[v])}
<1>1. SUFFICES ASSUME B # {} PROVE FALSE
  OBVIOUS
<1>2. PICK v \in B : \A u \in B : ~Shorter(u, v)
  <2>1. B \in SUBSET Walk
    OBVIOUS
  <2> HIDE DEF B
  <2> QED
    BY <1>1, <2>1, ShortestWalk
<1>3. v \in Walk /\ Standing(s, v) /\ ~Standing(s, f[v])
  BY <1>2
<1>4. ASSUME NEW u \in Walk, Shorter(u, v), Standing(s, u) PROVE Standing(s, f[u])
  BY <1>2, <1>4
<1>5. f[v] = WalkOn(s, f, v) /\ \A u \in Walk : f[u] \in Answer
  BY <1>3 DEF Recursion
<1>6. CASE \E r : Stops(s, v, r)
  <2>1. PICK r : Stops(s, v, r)
    BY <1>6
  <2>2. f[v] = r /\ r.seen = v.seen /\ r.node \in {v.node, Root}
    BY <1>5, <2>1 DEF Stops
  <2> QED
    BY <1>3, <2>2 DEF Standing, Rooted
<1>7. CASE \E u : Goes(s, v, u)
  <2>1. PICK u : Goes(s, v, u)
    BY <1>7
  <2>2. u \in Walk /\ Shorter(u, v) /\ Leads(s, v, u) /\ f[v] = f[u]
    BY <1>5, <2>1 DEF Goes
  <2>3. Standing(s, u)
    BY <1>3, <2>2, LeadsStanding
  <2> QED
    BY <1>3, <1>4, <2>2, <2>3
<1>8. CASE \E u : Links(s, v, u)
  <2>1. PICK u : Links(s, v, u)
    BY <1>8
  <2>2. /\ u \in Walk /\ Shorter(u, v) /\ Leads(s, v, u)
        /\ f[v] = IF f[u].res = "ok" THEN f[Rest(v, f[u])] ELSE f[u]
    BY <1>5, <2>1 DEF Links
  <2>3. Standing(s, f[u])
    BY <1>3, <1>4, <2>2, LeadsStanding
  <2>4. Rest(v, f[u]) \in Walk /\ Shorter(Rest(v, f[u]), v)
    BY <1>3, <1>5, <2>1, <2>2, RestShorter
  <2>5. Standing(s, Rest(v, f[u]))
    BY <2>3 DEF Standing, Rest
  <2>6. Standing(s, f[Rest(v, f[u])])
    BY <1>4, <2>4, <2>5
  <2> QED
    BY <1>3, <2>2, <2>3, <2>6
<1> QED
  BY <1>3, <1>6, <1>7, <1>8, WalkEnds

\* A lookup from a cached node ends on a node that Attach caches.
LEMMA FindAttaches ==
  ASSUME NEW s, Typed(s), Rooted(s), NEW base \in s.tree, NEW path \in Seq(Elem)
  PROVE  LET r == vfs_find_tree(s, base, path)
         IN r \in Answer /\ r.node \in Attach(s, r.seen).tree
<1> DEFINE r == vfs_find_tree(s, base, path)
           w == [node |-> base, el |-> path, seen |-> {}, links |-> MaxLinks]
<1>1. PICK f : Recursion(s, f) /\ r = f[w]
  BY FindRecursion
<1>2. w \in Walk
  BY PathAssumption DEF Walk, Typed
<1>3. Standing(s, w)
  BY DEF Standing
<1> HIDE DEF w
<1>4. r \in Answer /\ Standing(s, r)
  BY <1>1, <1>2, <1>3, RecursionStanding DEF Recursion
<1> HIDE DEF r
<1>5. r.seen \subseteq Node /\ s.tree \subseteq Node
  BY <1>4 DEF Answer, Typed
<1>6. Attach(s, r.seen).tree = s.tree \cup r.seen
  <2> DEFINE told == {q \in r.seen \cap Node : s.disk[q] # NoEntry}
             new == {q \in told \ s.tree : Above(q) \subseteq s.tree \cup told}
  <2>1. told = r.seen
    BY <1>4, <1>5 DEF Standing
  <2>2. new = r.seen \ s.tree
    <3> HIDE DEF told
    <3> QED
      BY <1>4, <1>5, <2>1 DEF Standing
  <2>3. Attach(s, r.seen) = AddNodes(s, new)
    BY DEF Attach
  <2> HIDE DEF new
  <2>4. AddNodes(s, new).tree = s.tree \cup new
    BY DEF AddNodes, Typed
  <2> QED
    BY <2>2, <2>3, <2>4
<1>7. r.node \in s.tree \cup r.seen
  BY <1>4 DEF Standing
<1> QED
  BY <1>4, <1>6, <1>7 DEF r

-----------------------------------------------------------------------------
(* Lookups.                                                                *)

\* A node to look up from: the root, or one that somebody counts on.
Base(owed, n) == n \in Node /\ (n = Root \/ owed[n] > 0)

\* The argument of a lookup.
Lookable == [abs : BOOLEAN, el : Seq(Elem)]


Result(r) ==
  /\ r = [ok |-> r.ok, node |-> r.node, s |-> r.s]
  /\ r.ok \in BOOLEAN /\ r.node \in Node

\* What a lookup returns: a cached node, no reference on it.
Located(r, owed, w) ==
  /\ Result(r)
  /\ Balanced(r.s, owed, w)
  /\ r.ok => r.node \in r.s.tree

\* A node with a reference on it, when there is one.
Holding(r, owed, w) ==
  /\ Result(r)
  /\ Balanced(r.s, IF r.ok THEN OneMore(owed, r.node) ELSE owed, w)

\* Where somebody counts on a node, or at the root, the tree is.
LEMMA BaseCached ==
  ASSUME NEW s, NEW owed, NEW w, Balanced(s, owed, w), s.halt = "no", NEW n, Base(owed, n)
  PROVE  n \in s.tree
BY DEF Balanced, Counted, Rooted, Base

\* The node that a lookup from a cached one returns is cached, and the counts
\* are as before.
LEMMA FindLocated ==
  ASSUME NEW s, NEW owed \in Counts, NEW w, Watch(owed, w), Balanced(s, owed, w),
         NEW base, s.halt = "no" => base \in s.tree, NEW path \in Seq(Elem)
  PROVE  Located(FindFrom(s, base, path), owed, w)
<1> DEFINE r == vfs_find_tree(s, base, path)
           t == Attach(s, r.seen)
           f == FindFrom(s, base, path)
<1>1. f = IF r.res = "ok" /\ r.node \in t.tree THEN [ok |-> TRUE, node |-> r.node, s |-> t]
          ELSE [ok |-> FALSE, node |-> Root,
                s |-> CASE r.res = "ok" -> Halt(t, "detached")
                        [] r.res \in {"mid_link", "link_loop"} -> Halt(t, r.res)
                        [] OTHER -> t]
  BY DEF FindFrom, AttachSeen, LookedUp
<1> SUFFICES Located(f, owed, w)
  OBVIOUS
<1>0. s.halt = "no" => r.node \in t.tree
  BY FindAttaches DEF Balanced
<1> HIDE DEF r, f
<1>2. Balanced(t, owed, w) /\ t.halt = s.halt
  BY AttachBalanced
<1>3. t.tree \subseteq Node
  BY <1>2 DEF Balanced, Typed
<1>4. ASSUME NEW why \in {"mid_link", "link_loop"}
      PROVE  Balanced(Halt(t, why), owed, w)
  <2>1. why \in Halts \ {"no", "unref", "detached"}
    BY DEF Halts
  <2> HIDE DEF t
  <2> QED
    BY <1>2, <2>1, HaltBalanced
<1> HIDE DEF t
<1>5. CASE r.res = "ok" /\ r.node \in t.tree
  BY <1>1, <1>2, <1>3, <1>5 DEF Located, Result
<1>6. CASE r.res # "ok"
  BY <1>1, <1>2, <1>4, <1>6, RootNode DEF Located, Result
<1>7. CASE r.res = "ok" /\ r.node \notin t.tree
  <2>1. Halt(t, "detached") = t
    BY <1>0, <1>2, <1>7 DEF Halt
  <2> QED
    BY <1>1, <1>2, <1>7, <2>1, RootNode DEF Located, Result
<1> QED
  BY <1>5, <1>6, <1>7

\* The same from the root or from a working directory.
LEMMA VfsFindLocated ==
  ASSUME NEW s, NEW owed \in Counts, NEW w, Watch(owed, w), Balanced(s, owed, w),
         NEW at, Base(owed, at), NEW p \in Lookable
  PROVE  Located(vfs_find(s, at, p), owed, w)
<1> DEFINE base == IF p.abs THEN Root ELSE at
<1>1. s.halt = "no" => base \in s.tree
  BY BaseCached DEF Balanced, Rooted
<1>2. p.el \in Seq(Elem)
  BY DEF Lookable
<1>3. vfs_find(s, at, p) = FindFrom(s, base, p.el)
  BY DEF vfs_find
<1> HIDE DEF base
<1> QED
  BY <1>1, <1>2, <1>3, FindLocated

\* A found node is referenced.
LEMMA LocatedRef ==
  ASSUME NEW r, NEW owed \in Counts, NEW w, Located(r, owed, w), r.ok
  PROVE  Balanced(Ref(r.s, r.node), OneMore(owed, r.node), w)
BY RefBalanced DEF Located, Result

\* Following a link moves the reference from the link to what it leads to.
LEMMA ResolveHolding ==
  ASSUME NEW s, NEW owed \in Counts, NEW n \in Node, NEW w, Watch(owed, w),
         Balanced(s, OneMore(owed, n), w)
  PROVE  Holding(Resolve(s, n), owed, w)
<1>1. CASE s.vn[n].type = "LNK"
  <2> DEFINE r == FindFrom(s, Parent(n), s.vn[n].to)
             t == IF r.ok THEN Ref(r.s, r.node) ELSE r.s
             v == Resolve(s, n)
  <2>0. s.halt = "no" => Parent(n) \in s.tree
    <3>1. Base(OneMore(owed, n), n)
      BY CountsClosed DEF Base
    <3>2. CASE n = Root
      <4>1. Parent(Root) = Root
        BY DEF Root, Parent, Front
      <4> QED
        BY <3>2, <4>1 DEF Balanced, Rooted
    <3>3. CASE n # Root
      <4>1. Parent(n) = Root \/ Parent(n) \in Above(n)
        BY <3>3, ParentAbove
      <4>2. s.halt = "no" => n \in s.tree
        BY <3>1, BaseCached
      <4> QED
        BY <4>1, <4>2 DEF Balanced, Rooted
    <3> QED
      BY <3>2, <3>3
  <2>1. Located(r, OneMore(owed, n), w)
    <3>1. s.vn[n].to \in Seq(Elem)
      BY <1>1, PathAssumption DEF Balanced, Typed, Entry, NoEntry
    <3> QED
      BY <2>0, <3>1, FindLocated, CountsClosed, WatchMore
  <2>2. v = [r EXCEPT !.s = Unref(t, n)]
    BY <1>1 DEF Resolve, Follow
  <2> HIDE DEF r, v
  <2>3. r = [ok |-> r.ok, node |-> r.node, s |-> r.s] /\ r.ok \in BOOLEAN /\ r.node \in Node
    BY <2>1 DEF Located, Result
  <2>4. v.ok = r.ok /\ v.node = r.node /\ v.s = Unref(t, n)
        /\ v = [ok |-> v.ok, node |-> v.node, s |-> v.s]
    <3> HIDE DEF t
    <3> QED
      BY <2>2, <2>3
  <2>5. CASE r.ok
    <3>1. Balanced(t, OneMore(OneMore(owed, n), r.node), w)
      BY <2>1, <2>5, LocatedRef, CountsClosed
    <3> HIDE DEF t
    <3>2. Balanced(Unref(t, n), OneMore(owed, r.node), w)
      BY <2>3, <3>1, UnrefGivesFirst
    <3> QED
      BY <2>3, <2>4, <2>5, <3>2 DEF Holding, Result, v
  <2>6. CASE ~r.ok
    <3>1. Balanced(t, OneMore(owed, n), w)
      BY <2>1, <2>6 DEF Located
    <3> HIDE DEF t
    <3>2. Balanced(Unref(t, n), owed, w)
      BY <3>1, UnrefGivesBack
    <3> QED
      BY <2>3, <2>4, <2>6, <3>2 DEF Holding, Result, v
  <2> QED
    BY <2>3, <2>5, <2>6
<1>2. CASE s.vn[n].type # "LNK"
  BY <1>2 DEF Resolve, Holding, Result
<1> QED
  BY <1>1, <1>2

\* A lookup that is followed through a link ends with one reference.
LEMMA EnteredHolding ==
  ASSUME NEW r, NEW owed \in Counts, NEW w, Watch(owed, w), Located(r, owed, w)
  PROVE  Holding(Entered(r), owed, w)
<1>1. CASE r.ok
  BY <1>1, LocatedRef, ResolveHolding DEF Entered, Located, Result
<1>2. CASE ~r.ok
  BY <1>2 DEF Entered, Located, Holding
<1> QED
  BY <1>1, <1>2

\* The directory for a new entry is referenced, or nothing is.
LEMMA FindParentHolding ==
  ASSUME NEW s, NEW owed \in Counts, NEW w, Watch(owed, w), Balanced(s, owed, w),
         NEW at, Base(owed, at), NEW p \in Lookable
  PROVE  /\ Holding(FindParent(s, at, p), owed, w)
         /\ FindParent(s, at, p).ok
            => FindParent(s, at, p).s.vn[FindParent(s, at, p).node].type = "DIR"
<1> DEFINE d == Entered(vfs_find(s, at, [p EXCEPT !.el = Front(@)]))
<1>1. Holding(d, owed, w)
  <2>1. p.el \in Seq(Elem) /\ Front(p.el) \in Seq(Elem)
    BY DEF Lookable, Front
  <2>2. [p EXCEPT !.el = Front(@)] \in Lookable
    BY <2>1 DEF Lookable
  <2> QED
    BY <2>2, VfsFindLocated, EnteredHolding
<1>2. FindParent(s, at, p) = OnlyDir(d)
  BY DEF FindParent
<1> HIDE DEF d
<1>3. CASE d.ok /\ d.s.vn[d.node].type # "DIR"
  <2> DEFINE u == Unref(d.s, d.node)
             v == [d EXCEPT !.ok = FALSE, !.s = u]
  <2>1. OnlyDir(d) = v
    BY <1>3 DEF OnlyDir
  <2>2. d = [ok |-> d.ok, node |-> d.node, s |-> d.s] /\ d.node \in Node
    BY <1>1 DEF Holding, Result
  <2>3. /\ v.ok = FALSE /\ v.node = d.node /\ v.s = u
        /\ v = [ok |-> v.ok, node |-> v.node, s |-> v.s]
    <3> HIDE DEF u
    <3> DEFINE failed == [d EXCEPT !.ok = FALSE]
    <3>1. d \in [ok : BOOLEAN, node : Node, s : {d.s, u}]
      BY <1>1, <2>2 DEF Holding, Result
    <3>2. failed \in [ok : BOOLEAN, node : Node, s : {d.s, u}]
          /\ failed.ok = FALSE /\ failed.node = d.node
      BY <3>1
    <3>3. v = [failed EXCEPT !.s = u]
      BY DEF v
    <3> HIDE DEF v, failed
    <3>4. v \in [ok : BOOLEAN, node : Node, s : {d.s, u}]
          /\ v.ok = failed.ok /\ v.node = failed.node /\ v.s = u
      BY <3>2, <3>3
    <3>5. v = [ok |-> v.ok, node |-> v.node, s |-> v.s]
      BY <3>4
    <3> QED
      BY <3>2, <3>4, <3>5
  <2>4. Balanced(d.s, OneMore(owed, d.node), w)
    BY <1>1, <1>3 DEF Holding
  <2>5. Balanced(u, owed, w)
    BY <2>2, <2>4, UnrefGivesBack
  <2> HIDE DEF u, v
  <2> QED
    BY <1>2, <2>1, <2>2, <2>3, <2>5 DEF Holding, Result
<1>4. CASE ~(d.ok /\ d.s.vn[d.node].type # "DIR")
  BY <1>1, <1>2, <1>4 DEF OnlyDir
<1> QED
  BY <1>3, <1>4

-----------------------------------------------------------------------------
(* Users.                                                                  *)

UsersOf(newfd, newcwd, p) ==
  Cardinality({h \in Handle : newfd[h] = p}) + Cardinality({c \in Ctx : newcwd[c] = p})

\* What is owed between two calls.
Owing == [p \in Node |-> Users(p) + leak[p]]

\* 1 for a user of p that stands on q.
At(q, p) == IF q = p THEN 1 ELSE 0

\* A user that moves from one node to another.
LEMMA CountMove ==
  ASSUME NEW S, IsFiniteSet(S), NEW T, NEW f \in [S -> T], NEW x \in S, NEW v \in T, NEW p
  PROVE  Cardinality({y \in S : [f EXCEPT ![x] = v][y] = p})
         = Cardinality({y \in S : f[y] = p}) - At(f[x], p) + At(v, p)
<1> DEFINE A == {y \in S : f[y] = p}
           B == {y \in S : [f EXCEPT ![x] = v][y] = p}
<1>1. /\ IsFiniteSet(A) /\ IsFiniteSet(B)
      /\ Cardinality(A) \in Nat /\ Cardinality(B) \in Nat
  <2>1. A \in SUBSET S /\ B \in SUBSET S
    OBVIOUS
  <2>2. IsFiniteSet(A) /\ IsFiniteSet(B)
    BY <2>1, FS_Subset
  <2> HIDE DEF A, B
  <2> QED
    BY <2>2, FS_CardinalityType
<1>2. A \ {x} = B \ {x}
  OBVIOUS
<1>3. (x \in A <=> f[x] = p) /\ (x \in B <=> v = p)
  OBVIOUS
<1> HIDE DEF A, B
<1>4. /\ Cardinality(A \ {x}) = IF x \in A THEN Cardinality(A) - 1 ELSE Cardinality(A)
      /\ Cardinality(B \ {x}) = IF x \in B THEN Cardinality(B) - 1 ELSE Cardinality(B)
  BY <1>1, FS_RemoveElement
<1>5. Cardinality(B) = Cardinality(A) - At(f[x], p) + At(v, p)
  BY <1>1, <1>2, <1>3, <1>4 DEF At
<1> QED
  BY <1>5 DEF A, B

\* The users of a node are finitely many.
LEMMA UsersFinite ==
  ASSUME NEW f, NEW g, NEW p
  PROVE  /\ IsFiniteSet({h \in Handle : f[h] = p}) /\ IsFiniteSet({c \in Ctx : g[c] = p})
         /\ Cardinality({h \in Handle : f[h] = p}) \in Nat
         /\ Cardinality({c \in Ctx : g[c] = p}) \in Nat
<1> DEFINE A == {h \in Handle : f[h] = p}
           B == {c \in Ctx : g[c] = p}
<1>1. A \in SUBSET Handle /\ B \in SUBSET Ctx
  OBVIOUS
<1> HIDE DEF A, B
<1>2. IsFiniteSet(A) /\ IsFiniteSet(B)
  BY <1>1, FS_Subset, UserAssumption
<1>3. Cardinality(A) \in Nat /\ Cardinality(B) \in Nat
  BY <1>2, FS_CardinalityType
<1> QED
  BY <1>2, <1>3 DEF A, B

\* Users are counted by natural numbers, and a user of a node counts.
LEMMA UsersCount ==
  ASSUME NEW f \in [Handle -> Node \cup {NoNode}], NEW g \in [Ctx -> Node], NEW p
  PROVE  /\ UsersOf(f, g, p) \in Nat
         /\ (\E h \in Handle : f[h] = p) \/ (\E c \in Ctx : g[c] = p) => UsersOf(f, g, p) > 0
<1> DEFINE A == {h \in Handle : f[h] = p}
           B == {c \in Ctx : g[c] = p}
<1>1. IsFiniteSet(A) /\ IsFiniteSet(B)
  BY UsersFinite
<1>2. (\E h \in Handle : f[h] = p) \/ (\E c \in Ctx : g[c] = p) => A # {} \/ B # {}
  OBVIOUS
<1>3. UsersOf(f, g, p) = Cardinality(A) + Cardinality(B)
  BY DEF UsersOf
<1> HIDE DEF A, B
<1>4. /\ Cardinality(A) \in Nat /\ Cardinality(B) \in Nat
      /\ A # {} => Cardinality(A) # 0
      /\ B # {} => Cardinality(B) # 0
  BY <1>1, FS_CardinalityType, FS_EmptySet
<1> QED
  BY <1>2, <1>3, <1>4

\* What is owed is a count for every node, and at least 1 where a user stands.
LEMMA OwingCounts ==
  ASSUME IInv
  PROVE  /\ Owing \in Counts
         /\ \A p \in Node : Owing[p] = UsersOf(fd, cwd, p) + leak[p]
         /\ \A h \in Handle : fd[h] # NoNode => fd[h] \in Node /\ Owing[fd[h]] > 0
         /\ \A c \in Ctx : cwd[c] \in Node /\ Owing[cwd[c]] > 0
<1>1. fd \in [Handle -> Node \cup {NoNode}] /\ cwd \in [Ctx -> Node] /\ leak \in [Node -> Nat]
  BY DEF IInv, TypeOK
<1>2. \A p \in Node : Owing[p] = UsersOf(fd, cwd, p) + leak[p]
  BY DEF Owing, UsersOf, Users
<1>3. Owing \in Counts
  <2>1. ASSUME NEW p \in Node PROVE Users(p) + leak[p] \in Nat
    <3>1. UsersOf(fd, cwd, p) \in Nat
      BY <1>1, UsersCount
    <3> QED
      BY <1>1, <3>1 DEF UsersOf, Users
  <2> QED
    BY <2>1 DEF Owing, Counts
<1>4. ASSUME NEW h \in Handle, fd[h] # NoNode PROVE fd[h] \in Node /\ Owing[fd[h]] > 0
  <2>1. fd[h] \in Node
    BY <1>1, <1>4
  <2>2. UsersOf(fd, cwd, fd[h]) \in Nat /\ UsersOf(fd, cwd, fd[h]) > 0 /\ leak[fd[h]] \in Nat
    BY <1>1, <2>1, UsersCount
  <2> QED
    BY <1>2, <2>1, <2>2
<1>5. ASSUME NEW c \in Ctx PROVE cwd[c] \in Node /\ Owing[cwd[c]] > 0
  <2>1. cwd[c] \in Node
    BY <1>1
  <2>2. UsersOf(fd, cwd, cwd[c]) \in Nat /\ UsersOf(fd, cwd, cwd[c]) > 0 /\ leak[cwd[c]] \in Nat
    BY <1>1, <2>1, UsersCount
  <2> QED
    BY <1>2, <2>1, <2>2
<1> QED
  BY <1>2, <1>3, <1>4, <1>5

\* A call starts with what the users and the lost references owe.
LEMMA CallStarts ==
  ASSUME IInv, Running, NEW w, Kept(vfs, w)
  PROVE  Balanced(vfs, Owing, w)
<1>1. Typed(vfs)
  BY DEF IInv, TypeOK, Typed
<1>2. Rooted(vfs)
  BY DEF IInv, NodesRooted, Rooted
<1>3. Counted(vfs, Owing)
  BY DEF IInv, RefBalance, CountedCached, Owing, Counted
<1>4. Coherent(vfs) /\ Housed(vfs)
  BY DEF IInv, CacheCoherent, EntriesHoused, Coherent, Housed
<1> QED
  BY <1>1, <1>2, <1>3, <1>4 DEF Balanced, Running

\* A context and an open handle are places to look up from.
LEMMA UserBase ==
  ASSUME IInv
  PROVE  /\ \A c \in Ctx : Base(Owing, cwd[c])
         /\ \A h \in Handle : fd[h] # NoNode => Base(Owing, fd[h])
         /\ Path \subseteq Lookable
BY OwingCounts, PathAssumption DEF Base, Lookable

\* What is watched during a step: it is there before it, and for the users
\* before and after it.
Watched(w) == Watch(Owing, w) /\ Watch(Owing', w) /\ Kept(vfs, w)

\* The lookup that a call begins with.
LEMMA CallFinds ==
  ASSUME IInv, Running, NEW w, Watched(w), NEW p \in Path
  PROVE  /\ \A c \in Ctx : Located(vfs_find(vfs, cwd[c], p), Owing, w)
         /\ \A h \in Handle : fd[h] # NoNode => Located(vfs_find(vfs, fd[h], p), Owing, w)
<1>1. Balanced(vfs, Owing, w) /\ Owing \in Counts /\ Watch(Owing, w) /\ p \in Lookable
  BY CallStarts, OwingCounts, UserBase DEF Watched
<1> QED
  BY <1>1, UserBase, VfsFindLocated

\* A call that ends with the counts its users make up keeps the invariant and
\* what is watched.
LEMMA CallEnds ==
  ASSUME IInv, NEW w, Kept(vfs, w), NEW s, NEW owed \in Counts, Balanced(s, owed, w),
         NEW newfd \in [Handle -> Node \cup {NoNode}], NEW newcwd \in [Ctx -> Node],
         NEW newleak \in [Node -> Nat],
         \A p \in Node : owed[p] = UsersOf(newfd, newcwd, p) + newleak[p],
         Finish(s, newfd, newcwd, newleak)
  PROVE  IInv' /\ Kept(vfs', w)
<1>1. CASE s.halt = "no"
  <2>1. vfs' = s /\ fd' = newfd /\ cwd' = newcwd /\ leak' = newleak
    BY <1>1 DEF Finish
  <2>2. TypeOK'
    BY <2>1 DEF Balanced, Typed, TypeOK
  <2>3. NodesRooted'
    BY <2>1 DEF Balanced, Rooted, NodesRooted
  <2>4. RefBalance'
    BY <1>1, <2>1 DEF Balanced, Counted, RefBalance, UsersOf, Users
  <2>5. CountedCached'
    BY <1>1, <2>1 DEF Balanced, Counted, CountedCached
  <2>6. HoldersLive'
    <3>1. ASSUME NEW p \in Node,
                 (\E h \in Handle : newfd[h] = p) \/ (\E c \in Ctx : newcwd[c] = p)
          PROVE  p \in s.tree
      <4>1. UsersOf(newfd, newcwd, p) \in Nat /\ UsersOf(newfd, newcwd, p) > 0
        BY <3>1, UsersCount
      <4>2. owed[p] > 0
        BY <4>1
      <4> QED
        BY <1>1, <4>2 DEF Balanced, Counted, Rooted
    <3>2. \A h \in Handle : newfd[h] # NoNode => newfd[h] \in s.tree
      BY <3>1
    <3>3. \A c \in Ctx : newcwd[c] \in s.tree
      BY <3>1
    <3> QED
      BY <2>1, <3>2, <3>3 DEF HoldersLive
  <2>7. NoUnderflow' /\ LookupAttaches'
    BY <2>1 DEF Balanced, NoUnderflow, LookupAttaches
  <2>8. CacheCoherent' /\ EntriesHoused'
    BY <1>1, <2>1 DEF Balanced, Coherent, Housed, CacheCoherent, EntriesHoused
  <2>9. Kept(vfs', w)
    BY <1>1, <2>1 DEF Balanced
  <2> QED
    BY <2>2, <2>3, <2>4, <2>5, <2>6, <2>7, <2>8, <2>9 DEF IInv
<1>2. CASE s.halt # "no"
  <2>1. vfs' = [vfs EXCEPT !.halt = s.halt] /\ fd' = fd /\ cwd' = cwd /\ leak' = leak
    BY <1>2 DEF Finish
  <2>2. s.halt \in Halts /\ s.halt \notin {"unref", "detached"}
    BY DEF Balanced, Typed
  <2>3. /\ vfs'.tree = vfs.tree /\ vfs'.ref = vfs.ref /\ vfs'.vn = vfs.vn /\ vfs'.disk = vfs.disk
        /\ vfs'.halt = s.halt /\ TypeOK'
    BY <2>1, <2>2 DEF IInv, TypeOK
  <2>4. CacheCoherent' /\ EntriesHoused'
    BY <2>3 DEF IInv, CacheCoherent, EntriesHoused, EntryOf, Kids
  <2>5. Kept(vfs', w)
    BY <2>3 DEF Kept
  <2> QED
    BY <2>1, <2>2, <2>3, <2>4, <2>5
    DEF IInv, NodesRooted, RefBalance, Users, HoldersLive, CountedCached, NoUnderflow,
        LookupAttaches
<1> QED
  BY <1>1, <1>2

\* What is owed after a call that was not stopped.
LEMMA OwingEnds ==
  ASSUME NEW s, s.halt = "no", NEW owed \in Counts, NEW newfd, NEW newcwd, NEW newleak,
         \A p \in Node : owed[p] = UsersOf(newfd, newcwd, p) + newleak[p],
         Finish(s, newfd, newcwd, newleak)
  PROVE  Owing' = owed
<1>1. fd' = newfd /\ cwd' = newcwd /\ leak' = newleak
  BY DEF Finish
<1>2. \A p \in Node : Users(p)' + leak'[p] = owed[p]
  BY <1>1 DEF Users, UsersOf
<1>3. Owing' = [p \in Node |-> Users(p)' + leak'[p]]
  BY DEF Owing
<1>4. [p \in Node |-> Users(p)' + leak'[p]] = [p \in Node |-> owed[p]]
  BY <1>2
<1>5. owed = [p \in Node |-> owed[p]]
  BY DEF Counts
<1> QED
  BY <1>3, <1>4, <1>5

-----------------------------------------------------------------------------
(* The ends of calls.                                                      *)

\* A call that gave back what it took.
LEMMA DoneKeeps ==
  ASSUME IInv, NEW w, Watched(w), NEW s, Balanced(s, Owing, w), Done(s)
  PROVE  IInv' /\ Kept(vfs', w)
<1>1. fd \in [Handle -> Node \cup {NoNode}] /\ cwd \in [Ctx -> Node] /\ leak \in [Node -> Nat]
  BY DEF IInv, TypeOK
<1>2. Finish(s, fd, cwd, leak)
  BY DEF Done
<1> QED
  BY <1>1, <1>2, OwingCounts, CallEnds DEF Watched

\* The reference on n is lost and stays counted.
LEMMA LoseKeeps ==
  ASSUME IInv, NEW w, Watched(w), NEW n \in Node, NEW s, Balanced(s, OneMore(Owing, n), w),
         Lose(s, n)
  PROVE  IInv' /\ Kept(vfs', w)
<1>1. fd \in [Handle -> Node \cup {NoNode}] /\ cwd \in [Ctx -> Node] /\ leak \in [Node -> Nat]
  BY DEF IInv, TypeOK
<1> DEFINE newleak == [leak EXCEPT ![n] = @ + 1]
           owed == OneMore(Owing, n)
<1>2. newleak \in [Node -> Nat]
  BY <1>1
<1>3. Finish(s, fd, cwd, newleak)
  BY DEF Lose
<1>4. owed \in Counts
  BY OwingCounts, CountsClosed
<1>5. ASSUME NEW p \in Node PROVE owed[p] = UsersOf(fd, cwd, p) + newleak[p]
  <2>1. UsersOf(fd, cwd, p) \in Nat
    BY <1>1, UsersCount
  <2>2. Owing[p] = UsersOf(fd, cwd, p) + leak[p] /\ Owing \in Counts
    BY OwingCounts
  <2> QED
    BY <1>1, <2>1, <2>2 DEF OneMore, Counts
<1> HIDE DEF newleak, owed
<1>6. Balanced(s, owed, w)
  BY DEF owed
<1> QED
  BY <1>1, <1>2, <1>3, <1>4, <1>5, <1>6, CallEnds DEF Watched

\* A referenced node becomes the node of a handle that was not open.
LEMMA HandleKeeps ==
  ASSUME IInv, NEW w, Watched(w), NEW h \in Handle, fd[h] = NoNode, NEW n \in Node,
         NEW s, Balanced(s, OneMore(Owing, n), w), Finish(s, [fd EXCEPT ![h] = n], cwd, leak)
  PROVE  IInv' /\ Kept(vfs', w)
<1>1. fd \in [Handle -> Node \cup {NoNode}] /\ cwd \in [Ctx -> Node] /\ leak \in [Node -> Nat]
  BY DEF IInv, TypeOK
<1> DEFINE newfd == [fd EXCEPT ![h] = n]
           owed == OneMore(Owing, n)
<1>2. newfd \in [Handle -> Node \cup {NoNode}]
  BY <1>1
<1>3. Finish(s, newfd, cwd, leak)
  OBVIOUS
<1>4. owed \in Counts
  BY OwingCounts, CountsClosed
<1>5. ASSUME NEW p \in Node PROVE owed[p] = UsersOf(newfd, cwd, p) + leak[p]
  <2>1. UsersOf(newfd, cwd, p) = UsersOf(fd, cwd, p) + At(n, p)
    <3>1. Cardinality({y \in Handle : newfd[y] = p})
          = Cardinality({y \in Handle : fd[y] = p}) - At(fd[h], p) + At(n, p)
      <4> DEFINE T == Node \cup {NoNode}
      <4>1. n \in T /\ fd \in [Handle -> T] /\ IsFiniteSet(Handle)
        BY <1>1, UserAssumption
      <4> HIDE DEF T
      <4> QED
        BY <4>1, CountMove
    <3>2. At(fd[h], p) = 0
      BY UserAssumption DEF At
    <3>3. Cardinality({y \in Handle : fd[y] = p}) \in Nat /\ Cardinality({y \in Ctx : cwd[y] = p}) \in Nat
      BY UsersFinite
    <3> HIDE DEF newfd
    <3> QED
      BY <3>1, <3>2, <3>3 DEF UsersOf, At
  <2>2. UsersOf(fd, cwd, p) \in Nat
    BY <1>1, UsersCount
  <2>3. Owing[p] = UsersOf(fd, cwd, p) + leak[p] /\ Owing \in Counts
    BY OwingCounts
  <2>4. owed[p] = Owing[p] + At(n, p)
    BY <2>3 DEF OneMore, Counts, At
  <2> HIDE DEF newfd, owed
  <2> QED
    BY <1>1, <2>1, <2>2, <2>3, <2>4 DEF At
<1> HIDE DEF newfd, owed
<1>6. Balanced(s, owed, w)
  BY DEF owed
<1> QED
  BY <1>1, <1>2, <1>3, <1>4, <1>5, <1>6, CallEnds DEF Watched

\* vfs_open_node keeps the reference in the handle or gives it back.
LEMMA OpenNodeKeeps ==
  ASSUME IInv, NEW w, Watched(w), NEW h \in Handle, fd[h] = NoNode, NEW n \in Node,
         NEW s, Balanced(s, OneMore(Owing, n), w), NEW directory, NEW ok,
         vfs_open_node(s, h, n, directory, ok)
  PROVE  IInv' /\ Kept(vfs', w)
<1>1. CASE Finish(s, [fd EXCEPT ![h] = n], cwd, leak)
  BY <1>1, HandleKeeps
<1>2. CASE Done(Unref(s, n))
  <2>1. Balanced(Unref(s, n), Owing, w)
    BY OwingCounts, UnrefGivesBack DEF Watched
  <2> QED
    BY <1>2, <2>1, DoneKeeps
<1>3. CASE Done(Halt(s, "open_link"))
  <2>1. "open_link" \in Halts \ {"no", "unref", "detached"}
    BY DEF Halts
  <2>2. Balanced(Halt(s, "open_link"), Owing, w)
    BY <2>1, HaltBalanced
  <2> QED
    BY <1>3, <2>2, DoneKeeps
<1> QED
  BY <1>1, <1>2, <1>3 DEF vfs_open_node

-----------------------------------------------------------------------------
(* Calls.                                                                  *)

\* A node is referenced and given back: stat, access, readlink.
LEMMA TouchBalanced ==
  ASSUME NEW r, NEW owed \in Counts, NEW w, Watch(owed, w), Located(r, owed, w)
  PROVE  Balanced(Touch(r), owed, w)
<1>1. CASE r.ok
  <2>1. r.node \in Node
    BY DEF Located, Result
  <2>2. Balanced(Unref(Ref(r.s, r.node), r.node), owed, w)
    BY <1>1, <2>1, LocatedRef, UnrefGivesBack
  <2> QED
    BY <1>1, <2>2 DEF Touch
<1>2. CASE ~r.ok
  BY <1>2 DEF Touch, Located
<1> QED
  BY <1>1, <1>2

\* The path of a new entry is a node where the directory is not full.
LEMMA NewEntryNode ==
  ASSUME NEW s, NEW d \in Node, ~Full(s, d), NEW p, Plain(p)
  PROVE  Append(d, Last(p.el)) \in Node
<1>1. Last(p.el) \in Name
  BY DEF Plain
<1>2. d \in Seq(Name) /\ Len(d) \in 0 .. MaxDepth /\ Len(d) # MaxDepth
  BY NodeSeq DEF Full
<1> DEFINE q == Append(d, Last(p.el))
<1>3. q \in Seq(Name) /\ Len(q) = Len(d) + 1
  BY <1>1, <1>2
<1> HIDE DEF q
<1>4. Len(q) <= MaxDepth
  BY <1>2, <1>3, PathAssumption
<1>5. q \in Node
  BY <1>3, <1>4, SeqNode
<1> QED
  BY <1>5 DEF q

\* A new entry on the device, in a directory, at a path nothing cached has.
LEMMA AddEntryBalanced ==
  ASSUME NEW s, NEW owed \in Counts, NEW w, Balanced(s, owed, w),
         NEW d \in Node, NEW n \in Name, Append(d, n) \in Node, NEW entry \in Entry,
         s.halt = "no" => d \in s.tree /\ s.vn[d].type = "DIR"
  PROVE  /\ Balanced(AddEntry(s, Append(d, n), entry), owed, w)
         /\ LET t == AddEntry(s, Append(d, n), entry)
            IN t.halt = "no" => t.tree = s.tree /\ t.disk[Append(d, n)] # NoEntry
<1> DEFINE q == Append(d, n)
           t == AddEntry(s, q, entry)
           why == IF s.disk[q] = NoEntry THEN "shadow"
                  ELSE IF entry.type = "REG" THEN "dup_file" ELSE "dup"
<1>1. Parent(q) = d /\ q # Root /\ q \in Node
  BY ParentAppend
<1>2. why \in Halts \ {"no", "unref", "detached"}
  BY DEF Halts
<1> HIDE DEF q
<1>3. CASE ~(s.disk[q] = NoEntry /\ q \notin s.tree)
  <2>1. t = Halt(s, why)
    BY <1>3 DEF AddEntry
  <2> HIDE DEF why, t
  <2>2. Balanced(t, owed, w) /\ t.halt # "no"
    BY <1>2, <2>1, HaltBalanced
  <2> QED
    BY <2>2 DEF t, q
<1>4. CASE s.disk[q] = NoEntry /\ q \notin s.tree
  <2> DEFINE disk == [s.disk EXCEPT ![q] = entry]
  <2>1. t = [s EXCEPT !.disk = disk]
    BY <1>4 DEF AddEntry
  <2>2. disk \in [Node -> Entry \cup {NoEntry}] /\ disk[q] = entry
        /\ \A x \in Node : x # q => disk[x] = s.disk[x]
    BY <1>1 DEF Balanced, Typed
  <2> HIDE DEF disk, t
  <2>3. /\ Typed(t) /\ t.tree = s.tree /\ t.ref = s.ref /\ t.halt = s.halt
        /\ t.vn = s.vn /\ t.disk = disk
    BY <2>1, <2>2 DEF Balanced, Typed
  <2>4. s.tree \subseteq Node /\ entry # NoEntry /\ NoEntry.type # "DIR"
    BY DEF Balanced, Typed, Entry, NoEntry
  <2>5. ASSUME t.halt = "no" PROVE Coherent(t)
    BY <1>4, <2>2, <2>3, <2>4, <2>5 DEF Balanced, Coherent, Kids
  <2>6. ASSUME t.halt = "no" PROVE Housed(t)
    <3> SUFFICES ASSUME NEW x \in Node \ {Root}, t.disk[x] # NoEntry
                 PROVE  EntryOf(t, Parent(x)).type = "DIR"
      BY DEF Housed
    <3>1. CASE x = q
      BY <1>1, <2>3, <2>6, <3>1 DEF EntryOf
    <3>2. CASE x # q
      <4>1. EntryOf(s, Parent(x)).type = "DIR"
        BY <2>2, <2>3, <2>6, <3>2 DEF Balanced, Housed
      <4>2. Parent(x) \in Node /\ Parent(x) # q
        BY <1>4, <2>4, <4>1, ParentAbove DEF EntryOf
      <4>3. EntryOf(t, Parent(x)) = EntryOf(s, Parent(x))
        BY <2>2, <2>3, <4>2 DEF EntryOf
      <4> QED
        BY <4>1, <4>3
    <3> QED
      BY <3>1, <3>2
  <2>7. ASSUME t.halt = "no" PROVE Counted(t, owed) /\ Kept(t, w)
    <3>1. Counted(s, owed) /\ Kept(s, w)
      BY <2>3, <2>7 DEF Balanced
    <3>2. \A x : s.disk[x] # NoEntry => disk[x] # NoEntry
      BY <1>1, <2>4 DEF disk, Balanced, Typed
    <3> QED
      BY <2>3, <3>1, <3>2 DEF Counted, Kept
  <2>8. Balanced(t, owed, w)
    BY <2>3, <2>5, <2>6, <2>7 DEF Balanced, Rooted
  <2> QED
    BY <2>2, <2>3, <2>4, <2>8 DEF t, q
<1> QED
  BY <1>3, <1>4

\* The node of a new entry is attached and referenced, the directory given back.
LEMMA NewNodeBalanced ==
  ASSUME NEW s, NEW owed \in Counts, NEW w, Watch(owed, w),
         NEW d \in Node, NEW n \in Name, Append(d, n) \in Node,
         Balanced(s, OneMore(owed, d), w), s.halt = "no" => s.disk[Append(d, n)] # NoEntry
  PROVE  Balanced(Unref(Ref(Attach(s, {Append(d, n)}), Append(d, n)), d),
                  OneMore(owed, Append(d, n)), w)
<1> DEFINE q == Append(d, n)
           t == Attach(s, {q})
           g == OneMore(owed, d)
<1>1. g \in Counts /\ g[d] > 0 /\ Watch(g, w)
  BY CountsClosed, WatchMore
<1>2. q \in Node /\ Above(q) \subseteq Above(d) \cup {q} /\ Balanced(s, g, w)
      /\ (s.halt = "no" => s.disk[q] # NoEntry)
  BY AboveAppend
<1> HIDE DEF q, g
<1>3. /\ Balanced(t, g, w) /\ t.halt = s.halt
      /\ s.disk[q] # NoEntry /\ Above(q) \subseteq s.tree \cup {q} => q \in t.tree
  BY <1>1, <1>2, AttachBalanced
<1>4. ASSUME t.halt = "no" PROVE q \in t.tree
  <2>1. d \in s.tree /\ Above(d) \subseteq s.tree
    BY <1>1, <1>2, <1>3, <1>4 DEF Balanced, Counted, Rooted
  <2> QED
    BY <1>2, <1>3, <1>4, <2>1
<1> HIDE DEF t
<1>5. Balanced(Ref(t, q), OneMore(g, q), w)
  BY <1>1, <1>2, <1>3, <1>4, RefBalanced
<1>6. Balanced(Unref(Ref(t, q), d), OneMore(owed, q), w)
  BY <1>2, <1>5, UnrefGivesFirst DEF g
<1> QED
  BY <1>6 DEF t, q

\* The directory that was found is in the tree as a directory.
LEMMA HeldDirectory ==
  ASSUME NEW s, NEW owed \in Counts, NEW w, Watch(owed, w), Balanced(s, owed, w),
         NEW at, Base(owed, at), NEW p \in Lookable, NEW d, d = FindParent(s, at, p), d.ok
  PROVE  /\ d.node \in Node /\ Balanced(d.s, OneMore(owed, d.node), w)
         /\ d.s.halt = "no" => d.node \in d.s.tree /\ d.s.vn[d.node].type = "DIR"
<1>1. Holding(d, owed, w) /\ d.s.vn[d.node].type = "DIR"
  BY FindParentHolding
<1>2. d.node \in Node /\ Balanced(d.s, OneMore(owed, d.node), w)
  BY <1>1 DEF Holding, Result
<1>3. OneMore(owed, d.node)[d.node] > 0
  BY <1>2, CountsClosed
<1> QED
  BY <1>1, <1>2, <1>3 DEF Balanced, Counted, Rooted

\* The entries that creat and mkdir add.
LEMMA RegularEntry ==
  [type |-> "REG", to |-> <<>>] \in Entry /\ [type |-> "DIR", to |-> <<>>] \in Entry
BY DEF Entry

\* Creating a file on the way to open it.
LEMMA CreateAndOpenKeeps ==
  ASSUME IInv, NEW w, Watched(w), NEW c \in Ctx, NEW h \in Handle, fd[h] = NoNode,
         NEW p \in Path, Plain(p),
         NEW s, Balanced(s, Owing, w), NEW directory, NEW allowed, NEW ok,
         CreateAndOpen(s, c, h, p, directory, allowed, ok)
  PROVE  IInv' /\ Kept(vfs', w)
<1> DEFINE d == FindParent(s, cwd[c], p)
           q == Append(d.node, Last(p.el))
           made == AddEntry(d.s, q, [type |-> "REG", to |-> <<>>])
<1>1. Owing \in Counts /\ Watch(Owing, w) /\ Base(Owing, cwd[c]) /\ p \in Lookable
  BY OwingCounts, UserBase DEF Watched
<1>2. Holding(d, Owing, w)
  BY <1>1, FindParentHolding
<1>3. IF ~d.ok THEN Done(d.s)
      ELSE IF ~allowed \/ Full(d.s, d.node) THEN Done(Unref(d.s, d.node))
      ELSE IF made.halt # "no" THEN Done(made)
      ELSE vfs_open_node(Unref(Ref(Attach(made, {q}), q), d.node), h, q, directory, ok)
  BY DEF CreateAndOpen
<1>4. ASSUME d.ok
      PROVE  /\ d.node \in Node /\ Balanced(d.s, OneMore(Owing, d.node), w)
             /\ d.s.halt = "no" => d.node \in d.s.tree /\ d.s.vn[d.node].type = "DIR"
  BY <1>1, <1>4, HeldDirectory
<1> HIDE DEF d, q, made
<1>5. CASE ~d.ok
  BY <1>2, <1>3, <1>5, DoneKeeps DEF Holding
<1>6. CASE d.ok /\ (~allowed \/ Full(d.s, d.node))
  <2>1. Balanced(Unref(d.s, d.node), Owing, w)
    BY <1>1, <1>4, <1>6, UnrefGivesBack
  <2> QED
    BY <1>3, <1>6, <2>1, DoneKeeps
<1>7. CASE d.ok /\ ~(~allowed \/ Full(d.s, d.node))
  <2>1. q \in Node /\ Last(p.el) \in Name
    BY <1>4, <1>7, NewEntryNode DEF q, Plain
  <2>2. OneMore(Owing, d.node) \in Counts
    BY <1>1, <1>4, <1>7, CountsClosed
  <2>3. Balanced(made, OneMore(Owing, d.node), w) /\ (made.halt = "no" => made.disk[q] # NoEntry)
    <3> DEFINE e == [type |-> "REG", to |-> <<>>]
               n == Last(p.el)
               g == OneMore(Owing, d.node)
    <3>1. made = AddEntry(d.s, Append(d.node, n), e) /\ q = Append(d.node, n) /\ e \in Entry
      BY RegularEntry DEF made, q
    <3>2. n \in Name /\ d.node \in Node /\ Balanced(d.s, g, w) /\ g \in Counts
      BY <1>4, <1>7, <2>1, <2>2
    <3> HIDE DEF e, n, g
    <3>3. Balanced(made, g, w) /\ (made.halt = "no" => made.disk[q] # NoEntry)
      BY <1>4, <1>7, <2>1, <3>1, <3>2, AddEntryBalanced
    <3> QED
      BY <3>3 DEF g
  <2>4. CASE made.halt # "no"
    <3>1. Balanced(made, Owing, w)
      BY <2>3, <2>4 DEF Balanced
    <3> QED
      BY <1>3, <1>7, <2>4, <3>1, DoneKeeps
  <2>5. CASE made.halt = "no"
    <3>1. Balanced(Unref(Ref(Attach(made, {q}), q), d.node), OneMore(Owing, q), w)
      BY <1>1, <1>4, <1>7, <2>1, <2>3, NewNodeBalanced DEF q
    <3> QED
      BY <1>3, <1>7, <2>1, <2>5, <3>1, OpenNodeKeeps
  <2> QED
    BY <2>4, <2>5
<1> QED
  BY <1>5, <1>6, <1>7

\* vfs_open.
LEMMA OpenKeeps ==
  ASSUME IInv, NEW w, Watched(w), NEW c \in Ctx, NEW h \in Handle, NEW p \in Path,
         NEW create \in BOOLEAN, NEW directory, NEW allowed, NEW ok,
         vfs_open(c, h, p, create, directory, allowed, ok)
  PROVE  IInv' /\ Kept(vfs', w)
<1> DEFINE r == vfs_find(vfs, cwd[c], p)
           t == Entered(r)
<1>1. Running /\ fd[h] = NoNode /\ (create => Plain(p))
  BY DEF vfs_open
<1>2. IF t.ok THEN vfs_open_node(t.s, h, t.node, directory, ok)
      ELSE IF create /\ ~r.ok /\ r.s.halt = "no"
           THEN CreateAndOpen(r.s, c, h, p, directory, allowed, ok)
           ELSE Done(t.s)
  BY DEF vfs_open
<1>3. Located(r, Owing, w)
  BY <1>1, CallFinds, OwingCounts DEF Watched
<1> HIDE DEF r
<1>4. Holding(t, Owing, w)
  BY <1>3, OwingCounts, EnteredHolding DEF Watched
<1> HIDE DEF t
<1>5. CASE t.ok
  BY <1>1, <1>2, <1>4, <1>5, OpenNodeKeeps DEF Holding, Result
<1>6. CASE ~t.ok /\ create /\ ~r.ok /\ r.s.halt = "no"
  BY <1>1, <1>2, <1>3, <1>6, CreateAndOpenKeeps DEF Located
<1>7. CASE ~t.ok /\ ~(create /\ ~r.ok /\ r.s.halt = "no")
  BY <1>2, <1>4, <1>7, DoneKeeps DEF Holding
<1> QED
  BY <1>5, <1>6, <1>7

\* vfs_creat.
LEMMA CreatKeeps ==
  ASSUME IInv, NEW w, Watched(w), NEW c \in Ctx, NEW h \in Handle, NEW p \in Path,
         NEW allowed, NEW ok, vfs_creat(c, h, p, allowed, ok)
  PROVE  IInv' /\ Kept(vfs', w)
<1> DEFINE r == vfs_find(vfs, cwd[c], p)
<1>1. Running /\ fd[h] = NoNode /\ Plain(p)
  BY DEF vfs_creat
<1>2. IF r.ok THEN vfs_open_node(Ref(r.s, r.node), h, r.node, FALSE, ok)
      ELSE IF r.s.halt = "no" THEN CreateAndOpen(r.s, c, h, p, FALSE, allowed, ok)
      ELSE Done(r.s)
  BY DEF vfs_creat
<1>3. Located(r, Owing, w)
  BY <1>1, CallFinds, OwingCounts DEF Watched
<1> HIDE DEF r
<1>4. CASE r.ok
  <2>1. Balanced(Ref(r.s, r.node), OneMore(Owing, r.node), w) /\ r.node \in Node
    BY <1>3, <1>4, OwingCounts, LocatedRef DEF Located, Result
  <2> QED
    BY <1>1, <1>2, <1>4, <2>1, OpenNodeKeeps
<1>5. CASE ~r.ok /\ r.s.halt = "no"
  BY <1>1, <1>2, <1>3, <1>5, CreateAndOpenKeeps DEF Located
<1>6. CASE ~r.ok /\ r.s.halt # "no"
  BY <1>2, <1>3, <1>6, DoneKeeps DEF Located
<1> QED
  BY <1>4, <1>5, <1>6

\* vfs_stat.
LEMMA StatKeeps ==
  ASSUME IInv, NEW w, Watched(w), NEW c \in Ctx, NEW p \in Path, vfs_stat(c, p)
  PROVE  IInv' /\ Kept(vfs', w)
BY CallFinds, OwingCounts, TouchBalanced, DoneKeeps DEF vfs_stat, Watched

\* vfs_statat.
LEMMA StatatKeeps ==
  ASSUME IInv, NEW w, Watched(w), NEW h \in Handle, NEW p \in Path, vfs_statat(h, p)
  PROVE  IInv' /\ Kept(vfs', w)
BY CallFinds, OwingCounts, TouchBalanced, DoneKeeps DEF vfs_statat, Watched

\* A refused vfs_chmod loses the reference it took.
LEMMA ChmodDeniedKeeps ==
  ASSUME IInv, NEW w, Watched(w), NEW c \in Ctx, NEW p \in Path, vfs_chmod_denied(c, p)
  PROVE  IInv' /\ Kept(vfs', w)
<1> DEFINE r == vfs_find(vfs, cwd[c], p)
<1>1. Running /\ IF r.ok /\ r.node # Root THEN Lose(Ref(r.s, r.node), r.node) ELSE Done(r.s)
  BY DEF vfs_chmod_denied
<1>2. Located(r, Owing, w)
  BY <1>1, CallFinds, OwingCounts DEF Watched
<1> HIDE DEF r
<1>3. CASE r.ok /\ r.node # Root
  BY <1>1, <1>2, <1>3, OwingCounts, LocatedRef, LoseKeeps DEF Located, Result
<1>4. CASE ~(r.ok /\ r.node # Root)
  BY <1>1, <1>2, <1>4, DoneKeeps DEF Located
<1> QED
  BY <1>3, <1>4

\* vfs_close gives back the reference of the handle.
LEMMA CloseKeeps ==
  ASSUME IInv, NEW w, Watched(w), NEW h \in Handle, vfs_close(h)
  PROVE  IInv' /\ Kept(vfs', w)
<1> DEFINE n == fd[h]
           newfd == [fd EXCEPT ![h] = NoNode]
           owed == OneLess(Owing, n)
<1>1. fd \in [Handle -> Node \cup {NoNode}] /\ cwd \in [Ctx -> Node] /\ leak \in [Node -> Nat]
  BY DEF IInv, TypeOK
<1>2. Running /\ n # NoNode /\ Finish(Unref(vfs, n), newfd, cwd, leak)
  BY DEF vfs_close
<1>3. Owing \in Counts /\ n \in Node /\ Owing[n] > 0
  BY <1>2, OwingCounts
<1>4. owed \in Counts /\ \A p \in Node : owed[p] = Owing[p] - At(n, p)
  <2> HIDE DEF n
  <2> QED
    BY <1>3 DEF OneLess, Counts, At
<1>5. newfd \in [Handle -> Node \cup {NoNode}]
  BY <1>1
<1>6. ASSUME NEW p \in Node PROVE owed[p] = UsersOf(newfd, cwd, p) + leak[p]
  <2>1. Cardinality({y \in Handle : newfd[y] = p})
        = Cardinality({y \in Handle : fd[y] = p}) - At(n, p) + At(NoNode, p)
    <3> DEFINE T == Node \cup {NoNode}
    <3>1. NoNode \in T /\ fd \in [Handle -> T] /\ IsFiniteSet(Handle)
      BY <1>1, UserAssumption
    <3> HIDE DEF T
    <3> QED
      BY <3>1, CountMove
  <2>2. At(NoNode, p) = 0 /\ At(n, p) \in {0, 1}
    BY UserAssumption DEF At
  <2>3. Cardinality({y \in Handle : fd[y] = p}) \in Nat /\ Cardinality({y \in Ctx : cwd[y] = p}) \in Nat
    BY UsersFinite
  <2>4. Owing[p] = UsersOf(fd, cwd, p) + leak[p] /\ Owing[p] \in Nat /\ leak[p] \in Nat
    BY <1>1, OwingCounts DEF Counts
  <2>5. owed[p] = Owing[p] - At(n, p)
    BY <1>4
  <2> HIDE DEF newfd, owed, n
  <2> QED
    BY <2>1, <2>2, <2>3, <2>4, <2>5 DEF UsersOf
<1> HIDE DEF newfd, n
<1>7. Unref(vfs, n).halt = "no" => Watch(owed, w)
  <2> HIDE DEF owed
  <2> QED
    BY <1>2, <1>4, <1>6, OwingEnds DEF Watched
<1>8. Balanced(Unref(vfs, n), owed, w)
  BY <1>2, <1>3, <1>7, CallStarts, UnrefBalanced DEF Watched
<1> HIDE DEF owed
<1> QED
  BY <1>1, <1>2, <1>4, <1>5, <1>6, <1>8, CallEnds DEF Watched

\* vfs_chdir moves the reference of the context.
LEMMA ChdirKeeps ==
  ASSUME IInv, NEW w, Watched(w), NEW c \in Ctx, NEW p \in Path, NEW ok, vfs_chdir(c, p, ok)
  PROVE  IInv' /\ Kept(vfs', w)
<1> DEFINE r == vfs_find(vfs, cwd[c], p)
           s == Ref(r.s, r.node)
           m == r.node
           n == cwd[c]
           newcwd == [cwd EXCEPT ![c] = m]
<1>1. Running /\ IF ~r.ok THEN Done(r.s)
                 ELSE IF ok /\ s.vn[m].type = "DIR" THEN Finish(Unref(s, n), fd, newcwd, leak)
                 ELSE Done(Unref(s, m))
  BY DEF vfs_chdir
<1>2. Located(r, Owing, w)
  BY <1>1, CallFinds, OwingCounts DEF Watched
<1>3. fd \in [Handle -> Node \cup {NoNode}] /\ cwd \in [Ctx -> Node] /\ leak \in [Node -> Nat]
  BY DEF IInv, TypeOK
<1> HIDE DEF r
<1>4. CASE ~r.ok
  BY <1>1, <1>2, <1>4, DoneKeeps DEF Located
<1>5. ASSUME r.ok PROVE Balanced(s, OneMore(Owing, m), w) /\ m \in Node
  BY <1>2, <1>5, OwingCounts, LocatedRef DEF Located, Result
<1>6. CASE r.ok /\ Done(Unref(s, m))
  <2> HIDE DEF s, m
  <2>1. Balanced(Unref(s, m), Owing, w)
    BY <1>5, <1>6, OwingCounts, UnrefGivesBack DEF Watched
  <2> QED
    BY <1>6, <2>1, DoneKeeps
<1>7. CASE r.ok /\ Finish(Unref(s, n), fd, newcwd, leak)
  <2> DEFINE g == OneMore(Owing, m)
             owed == OneLess(g, n)
  <2>1. Owing \in Counts /\ n \in Node /\ Owing[n] > 0 /\ m \in Node
    BY <1>5, <1>7, OwingCounts
  <2>2. g \in Counts /\ g[n] >= Owing[n] /\ \A q \in Node : g[q] = Owing[q] + At(m, q)
    <3> HIDE DEF n, m
    <3> QED
      BY <2>1 DEF OneMore, Counts, At
  <2>3. g[n] > 0
    <3> HIDE DEF g, n
    <3> QED
      BY <2>1, <2>2 DEF Counts
  <2>4. owed \in Counts /\ \A q \in Node : owed[q] = g[q] - At(n, q)
    <3> HIDE DEF g, n
    <3> QED
      BY <2>1, <2>2, <2>3 DEF OneLess, Counts, At
  <2>5. newcwd \in [Ctx -> Node]
    <3> HIDE DEF m
    <3> QED
      BY <1>3, <2>1
  <2>6. ASSUME NEW q \in Node PROVE owed[q] = UsersOf(fd, newcwd, q) + leak[q]
    <3>1. Cardinality({y \in Ctx : newcwd[y] = q})
          = Cardinality({y \in Ctx : cwd[y] = q}) - At(n, q) + At(m, q)
      <4> HIDE DEF m
      <4> QED
        BY <1>3, <2>1, CountMove, UserAssumption
    <3>2. At(m, q) \in {0, 1} /\ At(n, q) \in {0, 1}
      BY DEF At
    <3>3. Cardinality({y \in Handle : fd[y] = q}) \in Nat /\ Cardinality({y \in Ctx : cwd[y] = q}) \in Nat
      BY UsersFinite
    <3>4. Owing[q] = UsersOf(fd, cwd, q) + leak[q] /\ Owing[q] \in Nat /\ leak[q] \in Nat
      BY <1>3, OwingCounts DEF Counts
    <3>5. owed[q] = Owing[q] + At(m, q) - At(n, q)
      <4> HIDE DEF g, owed, n, m
      <4> QED
        BY <2>2, <2>4, <3>2, <3>4
    <3> HIDE DEF newcwd, owed, g, n, m
    <3> QED
      BY <3>1, <3>2, <3>3, <3>4, <3>5 DEF UsersOf
  <2> HIDE DEF newcwd, n, m, s
  <2>7. Unref(s, n).halt = "no" => Watch(owed, w)
    <3> HIDE DEF owed
    <3> QED
      BY <1>7, <2>4, <2>6, OwingEnds DEF Watched
  <2>8. Balanced(s, g, w)
    BY <1>5, <1>7
  <2> HIDE DEF g
  <2>9. Balanced(Unref(s, n), owed, w)
    BY <2>1, <2>2, <2>3, <2>7, <2>8, UnrefBalanced
  <2> HIDE DEF owed
  <2> QED
    BY <1>3, <1>7, <2>4, <2>5, <2>6, <2>9, CallEnds DEF Watched
<1> QED
  BY <1>1, <1>4, <1>6, <1>7

\* What is watched apart from the entry of n.
Without(w, n) == [entry |-> w.entry \ {n}, vnode |-> w.vnode]

\* No name is left in directory n.
Emptied(s, n) == \A q \in Node : q # Root /\ Parent(q) = n => s.disk[q] = NoEntry

\* No path that is watched as a whole leads through n to another node.
NothingUnder(w, n) == \A x \in Node : n \in Above(x) /\ x # n => ~(Above(x) \subseteq w.entry)

\* Only what has no entries below it is removed: a directory for the check of
\* the code, any other node because the entry of nothing lies in it.
LEMMA RemovalEmptied ==
  ASSUME NEW s, Typed(s), Housed(s), NEW n \in s.tree, NEW found, Removal(s, n, found) = "removed"
  PROVE  Emptied(s, n)
<1>1. CASE s.vn[n].type = "DIR"
  BY <1>1 DEF Removal, MayRemove, Emptied
<1>2. CASE s.vn[n].type # "DIR"
  BY <1>2 DEF Emptied, Housed, EntryOf
<1> QED
  BY <1>1, <1>2

\* An entry with nothing below it can be left out of what is watched.
LEMMA WatchWithout ==
  ASSUME NEW owed, NEW w, Watch(owed, w), NEW s, Kept(s, w),
         NEW n \in Node \ {Root}, Emptied(s, n)
  PROVE  Watch(owed, Without(w, n)) /\ NothingUnder(w, n)
<1>1. NothingUnder(w, n)
  <2> SUFFICES ASSUME NEW x \in Node, n \in Above(x), x # n, Above(x) \subseteq w.entry
               PROVE  FALSE
    BY DEF NothingUnder
  <2>1. PICK c \in Above(x) : Parent(c) = n
    BY ChildToward
  <2>2. c \in Node /\ c # Root /\ s.disk[c] # NoEntry
    BY DEF Above, Kept
  <2> QED
    BY <2>1, <2>2 DEF Emptied
<1> DEFINE v == Without(w, n)
<1>2. v.entry = w.entry \ {n} /\ v.vnode = w.vnode
  BY DEF Without
<1> HIDE DEF v
<1>3. ASSUME NEW x \in v.entry
      PROVE  x \in Node /\ (Above(x) \subseteq v.entry \/ owed[x] > 0 \/ x = Root)
  <2>1. x \in Node /\ (Above(x) \subseteq w.entry \/ owed[x] > 0 \/ x = Root) /\ x # n
    BY <1>2, <1>3 DEF Watch
  <2>2. CASE Above(x) \subseteq w.entry
    <3>1. n \notin Above(x)
      BY <1>1, <2>1, <2>2 DEF NothingUnder
    <3> QED
      BY <1>2, <2>1, <2>2, <3>1
  <2> QED
    BY <2>1, <2>2
<1>4. Watch(owed, v)
  BY <1>2, <1>3 DEF Watch
<1> QED
  BY <1>1, <1>4 DEF v

\* The removal of an entry leaves its node to those that count on it.
LEMMA RemoveBalanced ==
  ASSUME NEW s, NEW owed \in Counts, NEW w, Balanced(s, owed, w),
         NEW n \in Node \ {Root}, owed[n] > 0
  PROVE  Balanced(RemoveEntry(s, n, "removed"), owed, Without(w, n))
<1> DEFINE t == RemoveEntry(s, n, "removed")
           disk == [s.disk EXCEPT ![n] = NoEntry]
           v == Without(w, n)
<1>1. t = [s EXCEPT !.disk = disk]
  BY DEF RemoveEntry
<1>2. /\ disk \in [Node -> Entry \cup {NoEntry}]
      /\ \A x : disk[x] = IF x = n THEN NoEntry ELSE s.disk[x]
  BY DEF Balanced, Typed
<1>3. v.entry = w.entry \ {n} /\ v.vnode = w.vnode
  BY DEF Without
<1> HIDE DEF disk, t, v
<1>4. /\ Typed(t) /\ t.tree = s.tree /\ t.ref = s.ref /\ t.halt = s.halt
      /\ t.vn = s.vn /\ t.disk = disk
  BY <1>1, <1>2 DEF Balanced, Typed
<1>5. Rooted(t) /\ t.halt \notin {"unref", "detached"}
  BY <1>4 DEF Balanced, Rooted
<1>6. ASSUME t.halt = "no" PROVE Counted(t, owed) /\ Coherent(t) /\ Housed(t) /\ Kept(t, v)
  <2>1. Counted(s, owed) /\ Coherent(s) /\ Housed(s) /\ Kept(s, w)
    BY <1>4, <1>6 DEF Balanced
  <2>2. n \in s.tree /\ s.ref[n] > 0
    BY <2>1 DEF Counted
  <2>3. Counted(t, owed)
    BY <1>4, <2>1 DEF Counted
  <2>4. Coherent(t)
    BY <1>2, <1>4, <2>1, <2>2 DEF Coherent, Kids
  <2>5. Housed(t)
    <3> SUFFICES ASSUME NEW x \in Node \ {Root}, t.disk[x] # NoEntry
                 PROVE  EntryOf(t, Parent(x)).type = "DIR"
      BY DEF Housed
    <3>1. EntryOf(s, Parent(x)).type = "DIR"
      BY <1>2, <1>4, <2>1 DEF Housed
    <3>2. EntryOf(t, Parent(x)) = EntryOf(s, Parent(x))
      BY <1>2, <1>4, <2>2 DEF EntryOf
    <3> QED
      BY <3>1, <3>2
  <2>6. Kept(t, v)
    BY <1>2, <1>3, <1>4, <2>1 DEF Kept
  <2> QED
    BY <2>3, <2>4, <2>5, <2>6
<1>7. Balanced(t, owed, v)
  BY <1>4, <1>5, <1>6 DEF Balanced
<1> QED
  BY <1>7 DEF t, v

\* What an unlink does to what is watched: nothing, or the entry of one node
\* goes that is not the working directory and has no watched path below it.
Unlinked(w, c) ==
  \/ Kept(vfs', w)
  \/ \E n \in Node \ {Root} :
       n # cwd[c] /\ Kept(vfs', Without(w, n)) /\ NothingUnder(w, n)

\* vfs_unlink references the node and its directory.
LEMMA UnlinkKeeps ==
  ASSUME IInv, NEW w, Watched(w), NEW c \in Ctx, NEW p \in Path, NEW allowed, NEW found,
         vfs_unlink(c, p, allowed, found)
  PROVE  IInv' /\ Unlinked(w, c)
<1> DEFINE r == vfs_find(vfs, cwd[c], p)
           n == r.node
           s == Ref(r.s, n)
           t == Ref(s, Parent(n))
           verdict == IF allowed THEN Removal(t, n, found) ELSE "error"
<1>1. Running /\ IF ~r.ok THEN Done(r.s)
                 ELSE IF n = Root THEN Done(Unref(s, n))
                 ELSE IF n = cwd[c] THEN MayLose /\ Lose(s, n)
                 ELSE Done(IF verdict \in {"free_block", "free_inode"} THEN Halt(t, verdict)
                           ELSE Unref(Unref(RemoveEntry(t, n, verdict), n), Parent(n)))
  BY DEF vfs_unlink, ShootsLeg
<1>2. Located(r, Owing, w) /\ Owing \in Counts /\ Watch(Owing, w) /\ Kept(vfs, w)
  BY <1>1, CallFinds, OwingCounts DEF Watched
<1> HIDE DEF r
<1>3. CASE ~r.ok
  BY <1>1, <1>2, <1>3, DoneKeeps DEF Located, Unlinked
<1>4. ASSUME r.ok PROVE Balanced(s, OneMore(Owing, n), w) /\ n \in Node
  BY <1>2, <1>4, LocatedRef DEF Located, Result
<1> HIDE DEF s, n
<1>5. CASE r.ok /\ Done(Unref(s, n))
  <2>1. Balanced(Unref(s, n), Owing, w)
    BY <1>2, <1>4, <1>5, UnrefGivesBack
  <2> QED
    BY <1>5, <2>1, DoneKeeps DEF Unlinked
<1>6. CASE r.ok /\ Lose(s, n)
  BY <1>4, <1>6, LoseKeeps DEF Unlinked
<1>7. CASE /\ r.ok /\ n # Root /\ n # cwd[c]
           /\ Done(IF verdict \in {"free_block", "free_inode"} THEN Halt(t, verdict)
                   ELSE Unref(Unref(RemoveEntry(t, n, verdict), n), Parent(n)))
  <2> DEFINE q == Parent(n)
             g == OneMore(OneMore(Owing, n), q)
             u == RemoveEntry(t, n, verdict)
  <2>1. n \in Node \ {Root} /\ q \in Node /\ (q = Root \/ q \in Above(n))
    BY <1>4, <1>7, ParentAbove
  <2>2. OneMore(Owing, n) \in Counts /\ OneMore(Owing, n)[n] > 0
    BY <1>2, <2>1, CountsClosed
  <2>3. ASSUME s.halt = "no" PROVE q \in s.tree
    <3>1. n \in s.tree
      BY <1>4, <1>7, <2>1, <2>2, <2>3 DEF Balanced, Counted
    <3> HIDE DEF q
    <3> QED
      BY <1>4, <1>7, <2>1, <3>1 DEF Balanced, Rooted
  <2>4. Balanced(t, g, w) /\ g \in Counts /\ g[n] > 0
    <3> DEFINE v == Ref(s, q)
               o == OneMore(Owing, n)
    <3>1. t = v /\ g = OneMore(o, q)
      OBVIOUS
    <3>2. o \in Counts /\ o[n] > 0 /\ Balanced(s, o, w)
      BY <1>4, <1>7, <2>2
    <3> HIDE DEF q, t, o, g
    <3>3. Balanced(v, OneMore(o, q), w)
      BY <2>1, <2>3, <3>2, RefBalanced
    <3>4. OneMore(o, q) \in Counts /\ OneMore(o, q)[n] >= o[n]
      BY <2>1, <3>2, CountsClosed
    <3>5. OneMore(o, q)[n] > 0
      BY <2>1, <3>2, <3>4 DEF Counts
    <3> QED
      BY <3>1, <3>3, <3>4, <3>5
  <2> HIDE DEF t, q
  <2>5. ASSUME NEW v, Balanced(u, g, v), Watch(Owing, v),
               verdict \notin {"free_block", "free_inode"}
        PROVE  Balanced(Unref(Unref(u, n), q), Owing, v)
    <3> HIDE DEF u
    <3>1. Balanced(Unref(u, n), OneMore(Owing, q), v)
      BY <1>2, <2>1, <2>5, UnrefGivesFirst
    <3> QED
      BY <1>2, <2>1, <2>5, <3>1, UnrefGivesBack
  <2>6. CASE verdict \in {"free_block", "free_inode"}
    <3> HIDE DEF verdict
    <3>1. verdict \in Halts \ {"no", "unref", "detached"}
      BY <2>6 DEF Halts
    <3>2. Balanced(Halt(t, verdict), Owing, w)
      BY <2>4, <3>1, HaltBalanced
    <3> QED
      BY <1>7, <2>6, <3>2, DoneKeeps DEF Unlinked
  <2>7. CASE verdict \notin {"free_block", "free_inode"} /\ ~(verdict = "removed" /\ t.halt = "no")
    <3> HIDE DEF verdict
    <3>1. Balanced(u, g, w)
      <4>1. CASE verdict = "removed"
        <5> DEFINE v == Without(w, n)
        <5>1. Balanced(u, g, v)
          BY <2>1, <2>4, <4>1, RemoveBalanced
        <5>2. u.halt = t.halt
          BY <2>4, <4>1 DEF RemoveEntry, Balanced, Typed
        <5> HIDE DEF v, u
        <5> QED
          BY <2>7, <4>1, <5>1, <5>2 DEF Balanced
      <4>2. CASE verdict # "removed"
        BY <2>4, <4>2 DEF RemoveEntry
      <4> QED
        BY <4>1, <4>2
    <3>2. Done(Unref(Unref(u, n), q))
      BY <1>7, <2>7 DEF q
    <3> HIDE DEF u
    <3> QED
      BY <1>2, <2>5, <2>7, <3>1, <3>2, DoneKeeps DEF Unlinked
  <2>8. CASE verdict = "removed" /\ t.halt = "no"
    <3> DEFINE v == Without(w, n)
    <3>1. Emptied(t, n)
      <4>1. Housed(t) /\ Typed(t) /\ n \in t.tree
        BY <2>1, <2>4, <2>8 DEF Balanced, Counted
      <4>2. Removal(t, n, found) = "removed"
        BY <2>8
      <4> QED
        BY <4>1, <4>2, RemovalEmptied
    <3> HIDE DEF verdict
    <3>2. Kept(t, w)
      BY <2>4, <2>8 DEF Balanced
    <3>3. Watch(Owing, v) /\ Watch(Owing', v) /\ NothingUnder(w, n)
      BY <1>2, <2>1, <3>1, <3>2, WatchWithout DEF Watched
    <3>4. Kept(vfs, v)
      BY <1>2 DEF Kept, Without
    <3>5. Balanced(u, g, v)
      BY <2>1, <2>4, <2>8, RemoveBalanced
    <3>6. Done(Unref(Unref(u, n), q))
      BY <1>7, <2>8 DEF q
    <3> HIDE DEF u, v
    <3>7. Balanced(Unref(Unref(u, n), q), Owing, v)
      BY <2>5, <2>8, <3>3, <3>5
    <3>8. IInv' /\ Kept(vfs', v)
      BY <3>3, <3>4, <3>6, <3>7, DoneKeeps DEF Watched
    <3> QED
      BY <1>7, <2>1, <3>3, <3>8 DEF Unlinked, v
  <2> QED
    BY <2>6, <2>7, <2>8
<1> QED
  BY <1>1, <1>3, <1>5, <1>6, <1>7

\* What vfs_mkdir and vfs_symlink share.
LEMMA MakeEntryKeeps ==
  ASSUME IInv, NEW w, Watched(w), NEW c \in Ctx, NEW p \in Path, NEW entry \in Entry, NEW ok,
         Running, Plain(p), MakeEntry(c, p, entry, ok)
  PROVE  IInv' /\ Kept(vfs', w)
<1> DEFINE r == vfs_find(vfs, cwd[c], p)
           d == FindParent(r.s, cwd[c], p)
           n == Last(p.el)
           q == Append(d.node, n)
<1>1. IF r.ok \/ r.s.halt # "no" THEN Done(Touch(r))
      ELSE Done(IF ~d.ok THEN d.s
                ELSE IF ~ok \/ Full(d.s, d.node) THEN Unref(d.s, d.node)
                ELSE Unref(AddEntry(d.s, q, entry), d.node))
  BY DEF MakeEntry
<1>2. Located(r, Owing, w) /\ Owing \in Counts /\ Watch(Owing, w)
  BY CallFinds, OwingCounts DEF Watched
<1> HIDE DEF r
<1>3. Holding(d, Owing, w)
  BY <1>2, UserBase, FindParentHolding DEF Located
<1>4. ASSUME d.ok
      PROVE  /\ d.node \in Node /\ Balanced(d.s, OneMore(Owing, d.node), w)
             /\ d.s.halt = "no" => d.node \in d.s.tree /\ d.s.vn[d.node].type = "DIR"
  BY <1>2, <1>4, UserBase, HeldDirectory DEF Located
<1> HIDE DEF d
<1>5. CASE Done(Touch(r))
  BY <1>2, <1>5, TouchBalanced, DoneKeeps
<1>6. CASE ~d.ok /\ Done(d.s)
  BY <1>3, <1>6, DoneKeeps DEF Holding
<1>7. CASE d.ok /\ Done(Unref(d.s, d.node))
  <2>1. Balanced(Unref(d.s, d.node), Owing, w)
    BY <1>2, <1>4, <1>7, UnrefGivesBack
  <2> QED
    BY <1>7, <2>1, DoneKeeps
<1>8. CASE d.ok /\ ~Full(d.s, d.node) /\ Done(Unref(AddEntry(d.s, q, entry), d.node))
  <2> DEFINE g == OneMore(Owing, d.node)
  <2>1. q \in Node /\ n \in Name
    BY <1>4, <1>8, NewEntryNode DEF Plain
  <2> HIDE DEF n
  <2>2. g \in Counts /\ Balanced(d.s, g, w) /\ d.node \in Node
    BY <1>2, <1>4, <1>8, CountsClosed
  <2> HIDE DEF g
  <2>3. Balanced(AddEntry(d.s, q, entry), g, w)
    BY <1>4, <1>8, <2>1, <2>2, AddEntryBalanced
  <2>4. Balanced(Unref(AddEntry(d.s, q, entry), d.node), Owing, w)
    BY <1>2, <2>2, <2>3, UnrefGivesBack DEF g
  <2> QED
    BY <1>8, <2>4, DoneKeeps
<1> QED
  BY <1>1, <1>5, <1>6, <1>7, <1>8

\* vfs_mkdir.
LEMMA MkdirKeeps ==
  ASSUME IInv, NEW w, Watched(w), NEW c \in Ctx, NEW p \in Path, NEW ok, vfs_mkdir(c, p, ok)
  PROVE  IInv' /\ Kept(vfs', w)
BY MakeEntryKeeps, RegularEntry DEF vfs_mkdir

\* vfs_symlink.
LEMMA SymlinkKeeps ==
  ASSUME IInv, NEW w, Watched(w), NEW c \in Ctx, NEW p \in Path, NEW target \in Target, NEW ok,
         vfs_symlink(c, p, target, ok)
  PROVE  IInv' /\ Kept(vfs', w)
<1>1. [type |-> "LNK", to |-> target] \in Entry
  BY DEF Entry
<1> QED
  BY <1>1, MakeEntryKeeps DEF vfs_symlink

-----------------------------------------------------------------------------
(* The invariant.                                                          *)

\* A mounted file system: the root alone, counted by nobody.
LEMMA InitInv == Init => IInv
<1> SUFFICES ASSUME Init PROVE IInv
  OBVIOUS
<1>1. Above(Root) = {}
  <2>1. ASSUME NEW q \in Above(Root) PROVE FALSE
    <3>1. q \in Seq(Name) /\ Root \in Seq(Name) /\ Len(Root) = 0 /\ q # Root
      BY NodeSeq DEF Above, Root
    <3>2. Len(q) <= Len(Root)
      BY <3>1, PrefixElems DEF Above
    <3> QED
      BY <3>1, <3>2 DEF Root
  <2> QED
    BY <2>1
<1>2. TypeOK
  BY RootNode, ImageAssumption DEF Init, TypeOK, Halts
<1>3. NodesRooted
  BY <1>1 DEF Init, NodesRooted
<1>4. RefBalance
  <2> SUFFICES ASSUME NEW p \in Node \ {Root} PROVE vfs.ref[p] = Users(p) + leak[p]
    BY DEF RefBalance
  <2>1. {h \in Handle : fd[h] = p} = {} /\ {c \in Ctx : cwd[c] = p} = {}
    BY UserAssumption DEF Init
  <2>2. Users(p) = 0
    BY <2>1, FS_EmptySet DEF Users
  <2> QED
    BY <2>2 DEF Init
<1>5. HoldersLive /\ CountedCached /\ NoUnderflow /\ LookupAttaches
  BY DEF Init, HoldersLive, CountedCached, NoUnderflow, LookupAttaches
<1>6. CacheCoherent
  BY DEF Init, CacheCoherent
<1>7. EntriesHoused
  <2> SUFFICES ASSUME NEW p \in Node \ {Root}, vfs.disk[p] # NoEntry
               PROVE  EntryOf(vfs, Parent(p)).type = "DIR"
    BY DEF EntriesHoused
  <2>1. Image[Parent(p)].type = "DIR"
    BY ImageAssumption DEF Init, Parent
  <2> QED
    BY <2>1, RootNode DEF Init, EntryOf
<1> QED
  BY <1>2, <1>3, <1>4, <1>5, <1>6, <1>7 DEF IInv

\* Every call keeps the invariant and what is watched; unlink may take one entry.
LEMMA CallKeeps ==
  ASSUME IInv, Next, NEW w, Watched(w)
  PROVE  IInv' /\ (Kept(vfs', w) \/ \E c \in Ctx : Unlinked(w, c))
<1>1. CASE \E c \in Ctx, p \in Path :
             \/ \E h \in Handle, create, directory, allowed, ok \in BOOLEAN :
                  vfs_open(c, h, p, create, directory, allowed, ok)
             \/ \E h \in Handle, allowed, ok \in BOOLEAN : vfs_creat(c, h, p, allowed, ok)
  BY <1>1, OpenKeeps, CreatKeeps
<1>2. CASE \E c \in Ctx, p \in Path :
             \/ \E ok \in BOOLEAN : vfs_chdir(c, p, ok)
             \/ vfs_stat(c, p)
             \/ vfs_chmod_denied(c, p)
  BY <1>2, ChdirKeeps, StatKeeps, ChmodDeniedKeeps
<1>3. CASE \E c \in Ctx, p \in Path :
             \E allowed, found \in BOOLEAN : vfs_unlink(c, p, allowed, found)
  BY <1>3, UnlinkKeeps
<1>4. CASE \E c \in Ctx, p \in Path :
             \/ \E ok \in BOOLEAN : vfs_mkdir(c, p, ok)
             \/ \E target \in Target, ok \in BOOLEAN : vfs_symlink(c, p, target, ok)
  BY <1>4, MkdirKeeps, SymlinkKeeps
<1>5. CASE \/ \E h \in Handle : vfs_close(h)
           \/ \E h \in Handle, p \in Path : vfs_statat(h, p)
  BY <1>5, CloseKeeps, StatatKeeps
<1> QED
  BY <1>1, <1>2, <1>3, <1>4, <1>5 DEF Next

\* The invariant needs nothing to be watched.
LEMMA StepInv == IInv /\ [Next]_vars => IInv'
<1> SUFFICES ASSUME IInv, [Next]_vars PROVE IInv'
  OBVIOUS
<1>1. CASE Next
  <2> DEFINE w == [entry |-> {}, vnode |-> {}]
  <2>1. Watched(w)
    BY DEF Watched, Watch, Kept
  <2> HIDE DEF w
  <2> QED
    BY <1>1, <2>1, CallKeeps
<1>2. CASE UNCHANGED vars
  BY <1>2 DEF vars, IInv, TypeOK, NodesRooted, RefBalance, Users, HoldersLive, CountedCached,
              NoUnderflow, LookupAttaches, CacheCoherent, EntriesHoused, EntryOf, Kids
<1> QED
  BY <1>1, <1>2

\* Between two calls the tree is rooted, every count is that of the users and
\* of the lost references, nothing counted has been released, and the cache
\* agrees with the device: for any tree of directories, files and links, any
\* clients and any sequence of calls.
THEOREM TreeInvariant == Spec => []IInv
<1> QED
  BY InitInv, StepInv, PTL DEF Spec

\* Every variable keeps its type, and no vnode outlives its node.
THEOREM TreeTypes == Spec => []TypeOK
BY TreeInvariant, PTL DEF IInv

\* No release leaves a cached node below a released one (node.c:9).
THEOREM TreeRooted == Spec => []NodesRooted
BY TreeInvariant, PTL DEF IInv

\* Every path through every call gives back the references it took, but for
\* the two that are known to lose one.
THEOREM TreeRefBalance == Spec => []RefBalance
BY TreeInvariant, PTL DEF IInv

\* No open file or working directory stands on a node that was released.
THEOREM TreeHoldersLive == Spec => []HoldersLive
BY TreeInvariant, PTL DEF IInv

\* The assert of vnode_unref on its count (node.c:108) never fails.
THEOREM TreeNoUnderflow == Spec => []NoUnderflow
BY TreeInvariant, PTL DEF IInv

\* A lookup never ends on a node that hangs nowhere: whatever links and ".." it
\* took, the node it returns is attached to the tree (vfs.c:282).
THEOREM TreeLookupAttaches == Spec => []LookupAttaches
BY TreeInvariant, PTL DEF IInv

\* A cached node carries the entry the device has at its path; one whose entry
\* was removed is in use, or above a node that is.
THEOREM TreeCoherent == Spec => []CacheCoherent
BY TreeInvariant, PTL DEF IInv

-----------------------------------------------------------------------------
(* Steps.                                                                  *)

\* Somebody counts on node x before and after the step.
Lasting(x) == x = Root \/ (Owing[x] > 0 /\ Owing'[x] > 0)

\* A user is owed a reference after a step as well as before it.
LEMMA UsersLast ==
  ASSUME IInv, IInv'
  PROVE  /\ \A h \in Handle : fd[h] # NoNode /\ fd'[h] = fd[h] => fd[h] \in Node /\ Lasting(fd[h])
         /\ \A c \in Ctx : cwd'[c] = cwd[c] => cwd[c] \in Node /\ Lasting(cwd[c])
<1>1. /\ fd' \in [Handle -> Node \cup {NoNode}] /\ cwd' \in [Ctx -> Node]
      /\ leak' \in [Node -> Nat]
  BY DEF IInv, TypeOK
<1>2. PICK f \in [Handle -> Node \cup {NoNode}], g \in [Ctx -> Node], l \in [Node -> Nat] :
        f = fd' /\ g = cwd' /\ l = leak'
  BY <1>1
<1>3. ASSUME NEW x \in Node, (\E h \in Handle : f[h] = x) \/ (\E c \in Ctx : g[c] = x)
      PROVE  Owing'[x] > 0
  <2>1. UsersOf(f, g, x) \in Nat /\ UsersOf(f, g, x) > 0 /\ l[x] \in Nat
    BY <1>3, UsersCount
  <2>2. Owing'[x] = UsersOf(f, g, x) + l[x]
    BY <1>2 DEF Owing, Users, UsersOf
  <2> QED
    BY <2>1, <2>2
<1>4. ASSUME NEW h \in Handle, fd[h] # NoNode, fd'[h] = fd[h]
      PROVE  fd[h] \in Node /\ Lasting(fd[h])
  <2>1. fd[h] \in Node /\ Owing[fd[h]] > 0
    BY <1>4, OwingCounts
  <2> QED
    BY <1>2, <1>3, <1>4, <2>1 DEF Lasting
<1>5. ASSUME NEW c \in Ctx, cwd'[c] = cwd[c]
      PROVE  cwd[c] \in Node /\ Lasting(cwd[c])
  <2>1. cwd[c] \in Node /\ Owing[cwd[c]] > 0
    BY OwingCounts
  <2> QED
    BY <1>2, <1>3, <1>5, <2>1 DEF Lasting
<1> QED
  BY <1>4, <1>5

\* During a step: every entry that can be reached, and the entries and vnodes
\* of all nodes that somebody counts on before and after it.
LEMMA WatchAll ==
  ASSUME IInv
  PROVE  \E w : /\ Watched(w)
                /\ \A x \in Node \ {Root} :
                     Reachable(vfs, x) => x \in w.entry /\ Above(x) \subseteq w.entry
                /\ \A x \in Node : Lasting(x) => x \in w.vnode
                /\ \A x \in Node : Lasting(x) /\ vfs.disk[x] # NoEntry => x \in w.entry
<1> DEFINE reach == {x \in Node \ {Root} : Reachable(vfs, x)}
           last == {x \in Node : Lasting(x)}
           kept == {x \in last : vfs.disk[x] # NoEntry}
<1>1. ASSUME NEW x \in reach PROVE Above(x) \subseteq reach /\ vfs.disk[x] # NoEntry
  <2>1. \A q \in Above(x) : q \in Node \ {Root} /\ Above(q) \subseteq Above(x)
    BY AboveTransitive DEF Above
  <2> QED
    BY <2>1, AboveSelf DEF Reachable
<1>2. PICK w : w = [entry |-> reach \cup kept, vnode |-> last]
  OBVIOUS
<1>3. w.entry = reach \cup kept /\ w.vnode = last
  BY <1>2
<1>4. reach \subseteq Node /\ kept \subseteq last /\ last \subseteq Node
      /\ (\A x \in last : Lasting(x)) /\ (\A x \in kept : vfs.disk[x] # NoEntry)
  OBVIOUS
<1>5. /\ \A x \in Node \ {Root} : Reachable(vfs, x) => x \in reach
      /\ \A x \in Node : Lasting(x) => x \in last
      /\ \A x \in Node : Lasting(x) /\ vfs.disk[x] # NoEntry => x \in kept
  OBVIOUS
<1> HIDE DEF reach, last, kept
<1>6. \A x \in w.entry :
        x \in Node /\ (Above(x) \subseteq w.entry \/ Lasting(x)) /\ vfs.disk[x] # NoEntry
  BY <1>1, <1>3, <1>4
<1>7. Watched(w)
  <2>1. Watch(Owing, w)
    BY <1>3, <1>4, <1>6 DEF Watch, Lasting
  <2>2. Watch(Owing', w)
    BY <1>3, <1>4, <1>6 DEF Watch, Lasting
  <2>3. Kept(vfs, w)
    BY <1>6 DEF Kept
  <2> QED
    BY <2>1, <2>2, <2>3 DEF Watched
<1> QED
  BY <1>1, <1>3, <1>5, <1>7

\* No call takes a directory with reachable entries off the device: neither
\* unlink, nor the release of the nodes of a removed directory.
THEOREM TreeNothingOrphaned == Spec => NothingOrphaned
<1>1. IInv /\ [Next]_vars =>
        [\A p \in Node \ {Root} :
           Reachable(vfs, p) /\ vfs'.disk[p] = NoEntry
           => \A x \in Node : p \in Above(x) /\ x # p => ~Reachable(vfs, x)]_vars
  <2> SUFFICES ASSUME IInv, Next,
                      NEW p \in Node \ {Root}, Reachable(vfs, p), vfs'.disk[p] = NoEntry,
                      NEW x \in Node, p \in Above(x), x # p, Reachable(vfs, x)
               PROVE  FALSE
    OBVIOUS
  <2>1. PICK w : /\ Watched(w)
                 /\ \A y \in Node \ {Root} :
                      Reachable(vfs, y) => y \in w.entry /\ Above(y) \subseteq w.entry
    BY WatchAll
  <2>2. x # Root
    <3>1. p \in Above(x) /\ Root \in Seq(Name) /\ p \in Seq(Name) /\ Len(Root) = 0 /\ p # Root
      BY NodeSeq DEF Root
    <3>2. CASE x = Root
      <4>1. Len(p) <= Len(Root)
        BY <3>1, <3>2, PrefixElems DEF Above
      <4> QED
        BY <3>1, <4>1 DEF Root
    <3> QED
      BY <3>2
  <2>3. p \in w.entry /\ Above(x) \subseteq w.entry
    BY <2>1, <2>2
  <2>4. ~Kept(vfs', w)
    BY <2>3 DEF Kept
  <2>5. PICK n \in Node \ {Root} : Kept(vfs', Without(w, n)) /\ NothingUnder(w, n)
    BY <2>1, <2>4, CallKeeps DEF Unlinked
  <2>6. p = n
    BY <2>3, <2>5 DEF Kept, Without
  <2> QED
    BY <2>3, <2>5, <2>6 DEF NothingUnder
<1> QED
  BY <1>1, TreeInvariant, PTL DEF Spec, NothingOrphaned

\* The vnode that an open file or a working directory refers to is the same as
\* long as it stays open there, through removals, releases and lookups of its
\* own path and of those around it.
THEOREM TreeVnodeStable == Spec => VnodeStable
<1>1. IInv /\ [Next]_vars =>
        [/\ \A h \in Handle : fd[h] # NoNode /\ fd'[h] = fd[h] => vfs'.vn[fd[h]] = vfs.vn[fd[h]]
         /\ \A c \in Ctx : cwd'[c] = cwd[c] => vfs'.vn[cwd[c]] = vfs.vn[cwd[c]]]_vars
  <2> SUFFICES ASSUME IInv, Next
               PROVE  /\ \A h \in Handle : fd[h] # NoNode /\ fd'[h] = fd[h]
                                           => vfs'.vn[fd[h]] = vfs.vn[fd[h]]
                      /\ \A c \in Ctx : cwd'[c] = cwd[c] => vfs'.vn[cwd[c]] = vfs.vn[cwd[c]]
    OBVIOUS
  <2>1. PICK w : Watched(w) /\ \A x \in Node : Lasting(x) => x \in w.vnode
    BY WatchAll
  <2>2. IInv' /\ \A x \in w.vnode : vfs'.vn[x] = vfs.vn[x]
    BY <2>1, CallKeeps DEF Unlinked, Kept, Without
  <2> QED
    BY <2>1, <2>2, UsersLast
<1> QED
  BY <1>1, TreeInvariant, PTL DEF Spec, VnodeStable

\* With one context nothing takes the entry of its working directory away: not
\* unlink, which compares the node, and not the release of other nodes.
THEOREM TreeCwdKept ==
  ASSUME \A c, d \in Ctx : c = d
  PROVE  Spec => CwdKept
<1>1. IInv /\ [Next]_vars =>
        [\A c \in Ctx : cwd'[c] = cwd[c] /\ vfs.disk[cwd[c]] # NoEntry
                        => vfs'.disk[cwd[c]] # NoEntry]_vars
  <2> SUFFICES ASSUME IInv, Next, NEW c \in Ctx, cwd'[c] = cwd[c], vfs.disk[cwd[c]] # NoEntry
               PROVE  vfs'.disk[cwd[c]] # NoEntry
    OBVIOUS
  <2>1. PICK w : /\ Watched(w)
                 /\ \A x \in Node : Lasting(x) /\ vfs.disk[x] # NoEntry => x \in w.entry
    BY WatchAll
  <2>2. IInv' /\ (Kept(vfs', w) \/ Unlinked(w, c))
    BY <2>1, CallKeeps
  <2>3. cwd[c] \in w.entry
    BY <2>1, <2>2, UsersLast
  <2> QED
    BY <2>2, <2>3 DEF Unlinked, Kept, Without
<1> QED
  BY <1>1, TreeInvariant, PTL DEF Spec, CwdKept
=============================================================================
