------------------------------ MODULE VfsTree ------------------------------
(***************************************************************************)
(* The cache of path nodes of the VFS layer: src/vfs.c and src/node.c over *)
(* one mounted ext2 file system.                                           *)
(*                                                                         *)
(* A node (struct vfs_node with its vnode_t) is named by its path from the *)
(* root, a sequence of names.  Lookups attach nodes; vnode_unref releases  *)
(* a node whose count drops to 0 and with it every ancestor that has       *)
(* become unused.  Users of nodes are the open files and the working       *)
(* directories.  The file system is kept as the directory entry of every   *)
(* path; a node keeps the entry it was built from, so it survives the      *)
(* removal of that entry while somebody uses it ("stale" below).           *)
(*                                                                         *)
(* The program has one thread: every VFS call is one step.  A call is a    *)
(* composition of the functions Attach, Ref and Unref on a state of the    *)
(* cache, in the order of the code.  A failed assert() or a crash stops    *)
(* the program; "halt" then names the place.                               *)
(***************************************************************************)
EXTENDS Integers, FiniteSets, FiniteSetsExt, Sequences, SequencesExt

CONSTANTS
  Name,       \* names of directory entries
  Target,     \* contents of symbolic links: sequences of path elements
  Path,       \* arguments of calls: [abs |-> BOOLEAN, el |-> path elements]
  Handle,     \* struct ofile objects of the client
  Ctx,        \* struct vfs_ioctx objects: one working directory each
  NoNode,     \* the node of a handle that is not open
  Image,      \* the directory entry of every path at mount time
  MaxDepth,   \* bound: length of a path
  MaxEntries, \* inodes of the device: entries below the root
  MaxLinks,   \* bound: links followed inside one another before the C stack ends
  MaxLeak,    \* bound: references lost in a behaviour
  BackStack   \* size of backstack[] in vfs_vnode_path (10)

Elem == Name \cup {".", ".."}
Root == <<>>
Node == UNION {[1 .. n -> Name] : n \in 0 .. MaxDepth}

NoEntry == [type |-> "NONE", to |-> <<>>]
Entry == [type : {"REG", "DIR"}, to : {<<>>}] \cup [type : {"LNK"}, to : Target]

\* Elements of every path and link: after ".." comes no "." (at the root the
\* code takes such a "." for the name of an entry).
Canonical(el) == \A i \in 1 .. Len(el) - 1 : el[i] = ".." => el[i + 1] # "."

ASSUME PathAssumption ==
  /\ MaxDepth \in Nat /\ MaxEntries \in Nat /\ MaxLinks \in Nat /\ MaxLeak \in Nat /\ BackStack \in Nat
  /\ Target \subseteq Seq(Elem)
  /\ Path \subseteq [abs : BOOLEAN, el : Seq(Elem)]
  /\ \A t \in Target : Canonical(t)
  /\ \A p \in Path : Canonical(p.el)

ASSUME ImageAssumption ==
  /\ Image \in [Node -> Entry \cup {NoEntry}]
  /\ Image[Root].type = "DIR"
  /\ \A p \in Node \ {Root} : Image[p] # NoEntry => Image[Front(p)].type = "DIR"

ASSUME UserAssumption == IsFiniteSet(Handle) /\ IsFiniteSet(Ctx) /\ NoNode \notin Node

VARIABLES
  vfs,   \* the cache and the file system: tree, vn, ref, disk, halt
  fd,    \* node of every handle, or NoNode
  cwd,   \* node of every context's working directory
  leak   \* history: references taken on a node and never given back

vars == <<vfs, fd, cwd, leak>>

Parent(p) == Front(p)

\* The nodes on the path to p, p included, the root excluded.
Above(p) == {q \in Node : q # Root /\ IsPrefix(q, p)}

Kids(s, p) == {q \in s.tree \ {Root} : Parent(q) = p}

\* The entry behind a node: the copy of an attached one, else the device's.
EntryOf(s, p) == IF p \in s.tree THEN s.vn[p] ELSE s.disk[p]

-----------------------------------------------------------------------------
(* Operations on the cache.                                                *)

Halt(s, why) == IF s.halt = "no" THEN [s EXCEPT !.halt = why] ELSE s

\* vfs_node_create for a set of nodes; the count starts at 0.
AddNodes(s, new) ==
  [s EXCEPT !.tree = s.tree \cup new,
            !.vn = [q \in Node |-> IF q \in new THEN s.disk[q] ELSE s.vn[q]]]

\* Mutant: a lookup builds a node again although it is cached.
Attach_Again(s, seen) ==
  AddNodes(s, {q \in seen \cap Node : Above(q) \subseteq s.tree \cup seen} \cup Kids(s, Root))

\* Mutant: only what hangs on an already cached node is attached.
Attach_Leaf(s, seen) ==
  AddNodes(s, {q \in (seen \cap Node) \ s.tree : Parent(q) \in s.tree})

\* The nodes of a lookup that are not cached yet: ->find told the entry of each,
\* and each hangs below an attached parent.
Attach(s, seen) ==
  LET told == {q \in seen \cap Node : s.disk[q] # NoEntry}
  IN AddNodes(s, {q \in told \ s.tree : Above(q) \subseteq s.tree \cup told})

\* vnode_ref: the root is not counted.
Ref(s, p) == IF p = Root THEN s ELSE [s EXCEPT !.ref[p] = @ + 1]

\* The nodes vnode_free and vfs_node_remove give back with the last reference
\* on p: p unless it has children, then upwards every ancestor that has lost
\* its last child and is not counted.
Unused(s, p) ==
  {q \in s.tree : /\ q \in Above(p)
                  /\ \A x \in s.tree :
                       q \in Above(x) => x \in Above(p) /\ (x = p \/ s.ref[x] = 0)}

\* Mutant: the nodes leave the tree, their vnodes stay.
Free_NodeOnly(s, gone) == [s EXCEPT !.tree = s.tree \ gone]

\* vnode_free for a set of nodes.  What was created below a removed directory
\* is out of reach once its node is gone.
Free(s, gone) ==
  [s EXCEPT
     !.tree = s.tree \ gone,
     !.vn = [q \in Node |-> IF q \in gone THEN NoEntry ELSE s.vn[q]],
     !.disk = [x \in Node |->
                IF \E q \in gone : s.disk[q] = NoEntry /\ IsPrefix(q, x)
                THEN NoEntry ELSE s.disk[x]]]

Uncount(s, p) == [s EXCEPT !.ref[p] = @ - 1]

\* Mutant: the node is released on every call, not only at count 0.
Unref_Always(s, p) ==
  IF p = Root \/ s.ref[p] = 0 THEN s
  ELSE Free(Uncount(s, p), {p} \ {Parent(q) : q \in s.tree \ {Root}})

\* Mutant: a node is kept when its count drops to 0.
Unref_Keep(s, p) == IF p = Root \/ s.ref[p] = 0 THEN s ELSE Uncount(s, p)

\* vnode_unref: first prints the path (vfs_vnode_path aborts on a deep one),
\* then counts down.
Unref(s, p) ==
  IF Len(p) >= BackStack THEN Halt(s, "path_depth")
  ELSE IF p = Root THEN s
  ELSE IF s.ref[p] > 1 THEN Uncount(s, p)
  ELSE IF s.ref[p] = 1 THEN Free(Uncount(s, p), Unused(s, p))
  ELSE IF Kids(s, p) = {} THEN Halt(s, "unref") ELSE s

-----------------------------------------------------------------------------
(* Lookup.                                                                 *)

Found(n, seen) == [res |-> "ok", node |-> n, seen |-> seen]
Failed(why, seen) == [res |-> why, node |-> Root, seen |-> seen]

Up(n) == IF n = Root THEN Root ELSE Parent(n)

(***************************************************************************)
(* The recursion of vfs_find_tree.  A walk stands at a node with the       *)
(* elements of the path that remain, the nodes attached so far ("seen")    *)
(* and the links that may still be followed.  A link in the middle of the  *)
(* path that is not cached is resolved from the parent of the directory    *)
(* that holds it, and its own node is not attached; a cached one stops the *)
(* program.  Links that lead to one another recurse without an end.        *)
(***************************************************************************)
Walk == [node : Node, el : Seq(Elem), seen : SUBSET Node, links : 0 .. MaxLinks]

\* One call of it; f answers the recursive calls.
WalkOn(s, f, w) ==
  LET On(n, seen, links) == f[[node |-> n, el |-> Tail(w.el), seen |-> seen, links |-> links]]
      child == Append(w.node, Head(w.el))
      via == f[[node |-> Up(w.node), el |-> s.disk[child].to, seen |-> w.seen,
                links |-> w.links - 1]]
  IN IF w.el = <<>> THEN Found(w.node, w.seen)
     ELSE IF Head(w.el) = "." THEN On(w.node, w.seen, w.links)
     ELSE IF Head(w.el) = ".." THEN On(Up(w.node), w.seen, w.links)
     ELSE IF EntryOf(s, w.node).type = "LNK" THEN Failed("mid_link", w.seen)
     ELSE IF EntryOf(s, w.node).type # "DIR" THEN Failed("noent", w.seen)
     ELSE IF child \in s.tree \cup w.seen THEN On(child, w.seen, w.links)
     ELSE IF Len(w.node) = MaxDepth \/ s.disk[child] = NoEntry THEN Failed("noent", w.seen)
     ELSE IF s.disk[child].type # "LNK" \/ Len(w.el) = 1
          THEN On(child, w.seen \cup {child}, w.links)
     ELSE IF w.links = 0 THEN Failed("link_loop", w.seen)
     ELSE IF via.res = "ok" THEN On(via.node, via.seen, w.links - 1)
     ELSE via

vfs_find_tree(s, base, path) ==
  LET f[w \in Walk] == WalkOn(s, f, w)
  IN f[[node |-> base, el |-> path, seen |-> {}, links |-> MaxLinks]]

\* The result of lookup r with the state t of the cache it leaves behind.  To
\* reach a node that is not attached would be to return a stray pointer: the
\* model stops there.
LookedUp(r, t) ==
  IF r.res = "ok" /\ r.node \in t.tree THEN [ok |-> TRUE, node |-> r.node, s |-> t]
  ELSE [ok |-> FALSE, node |-> Root,
        s |-> CASE r.res = "ok" -> Halt(t, "detached")
                [] r.res \in {"mid_link", "link_loop"} -> Halt(t, r.res)
                [] OTHER -> t]

AttachSeen(r, s) == LookedUp(r, Attach(s, r.seen))

FindFrom(s, base, path) == AttachSeen(vfs_find_tree(s, base, path), s)

\* vfs_find: from the root or from the working directory.
vfs_find(s, at, p) == FindFrom(s, IF p.abs THEN Root ELSE at, p.el)

\* Mutant: the reference on the link is not given back.
Follow_KeepLink(r, n) == [r EXCEPT !.s = IF r.ok THEN Ref(r.s, r.node) ELSE r.s]

\* Mutant: the reference on the link is given back, none taken on its target.
Follow_NoRef(r, n) == [r EXCEPT !.s = Unref(r.s, n)]

\* The target of link n, when it was found, is referenced in its place.
Follow(r, n) == [r EXCEPT !.s = Unref(IF r.ok THEN Ref(r.s, r.node) ELSE r.s, n)]

\* The common tail of open, creat, mkdir and symlink: node n, already
\* referenced, is replaced by what it points to if it is a link, this time
\* seen from the link's own directory.
Resolve(s, n) ==
  IF s.vn[n].type = "LNK" THEN Follow(FindFrom(s, Parent(n), s.vn[n].to), n)
  ELSE [ok |-> TRUE, node |-> n, s |-> s]

\* A found node, referenced and followed.
Entered(r) == IF r.ok THEN Resolve(Ref(r.s, r.node), r.node) ELSE r

\* No other kind of node can take an entry.
OnlyDir(d) ==
  IF d.ok /\ d.s.vn[d.node].type # "DIR"
  THEN [d EXCEPT !.ok = FALSE, !.s = Unref(d.s, d.node)] ELSE d

\* The directory that a new entry goes to, referenced.
FindParent(s, at, p) == OnlyDir(Entered(vfs_find(s, at, [p EXCEPT !.el = Front(@)])))

\* No inode is left, or the path is longer than the model's bound.
Full(s, dir) ==
  \/ Cardinality({x \in Node \ {Root} : s.disk[x] # NoEntry}) >= MaxEntries
  \/ Len(dir) = MaxDepth

\* A new entry on the device.  The code does not look for an entry or a
\* removed node of that name in the directory itself; the model stops there.
AddEntry(s, q, entry) ==
  IF s.disk[q] # NoEntry THEN Halt(s, IF entry.type = "REG" THEN "dup_file" ELSE "dup")
  ELSE IF q \in s.tree THEN Halt(s, "shadow")
  ELSE [s EXCEPT !.disk[q] = entry]

-----------------------------------------------------------------------------
(* Calls.  Permission checks, and errors of the device, are a choice: "ok" *)
(* is FALSE when the call fails for such a reason.  \E r \in {...} names    *)
(* the result of a step of the call.                                       *)

\* The end of a call: its effect, or the place where the program stopped.
Finish(s, newfd, newcwd, newleak) ==
  IF s.halt = "no"
  THEN vfs' = s /\ fd' = newfd /\ cwd' = newcwd /\ leak' = newleak
  ELSE vfs' = [vfs EXCEPT !.halt = s.halt] /\ UNCHANGED <<fd, cwd, leak>>

Done(s) == Finish(s, fd, cwd, leak)

Lose(s, p) == Finish(s, fd, cwd, [leak EXCEPT ![p] = @ + 1])

Running == vfs.halt = "no"

MayLose == MapThenSumSet(LAMBDA p : leak[p], Node) < MaxLeak

\* A path whose last element is a name: the calls that add or remove an entry
\* take it as the name of the entry.
Plain(p) == p.el # <<>> /\ Last(p.el) \in Name

\* vfs_open_node on the referenced node n; if it fails the caller gives the
\* reference back.  opendir takes directories only, open no directory, and
\* the assert of ext2_vnode_open no link.
vfs_open_node(s, h, n, directory, ok) ==
  IF ok /\ s.vn[n].type = (IF directory THEN "DIR" ELSE "REG")
  THEN Finish(s, [fd EXCEPT ![h] = n], cwd, leak)
  ELSE Done(IF ok /\ ~directory /\ s.vn[n].type = "LNK" THEN Halt(s, "open_link")
            ELSE Unref(s, n))

\* What vfs_creat does when the path does not exist: find the directory, add
\* the entry, attach its node, open it.
CreateAndOpen(s, c, h, p, directory, allowed, ok) ==
  \E d \in {FindParent(s, cwd[c], p)} :
    IF ~d.ok THEN Done(d.s)
    ELSE IF ~allowed \/ Full(d.s, d.node) THEN Done(Unref(d.s, d.node))
    ELSE \E q \in {Append(d.node, Last(p.el))} :
         \E made \in {AddEntry(d.s, q, [type |-> "REG", to |-> <<>>])} :
           IF made.halt # "no" THEN Done(made)
           ELSE vfs_open_node(Unref(Ref(Attach(made, {q}), q), d.node), h, q, directory, ok)

vfs_open(c, h, p, create, directory, allowed, ok) ==
  /\ Running /\ fd[h] = NoNode
  /\ create => Plain(p)
  /\ \E r \in {vfs_find(vfs, cwd[c], p)} :
     \E t \in {Entered(r)} :
       IF t.ok THEN vfs_open_node(t.s, h, t.node, directory, ok)
       ELSE IF create /\ ~r.ok /\ r.s.halt = "no"
            THEN CreateAndOpen(r.s, c, h, p, directory, allowed, ok)
            ELSE Done(t.s)

\* Unlike vfs_open, vfs_creat opens what it finds without following a link.
vfs_creat(c, h, p, allowed, ok) ==
  /\ Running /\ fd[h] = NoNode
  /\ Plain(p)
  /\ \E r \in {vfs_find(vfs, cwd[c], p)} :
       IF r.ok THEN vfs_open_node(Ref(r.s, r.node), h, r.node, FALSE, ok)
       ELSE IF r.s.halt = "no" THEN CreateAndOpen(r.s, c, h, p, FALSE, allowed, ok)
       ELSE Done(r.s)

vfs_close(h) ==
  /\ Running /\ fd[h] # NoNode
  /\ Finish(Unref(vfs, fd[h]), [fd EXCEPT ![h] = NoNode], cwd, leak)

\* vfs_setcwd and vfs_chdir: the new directory is referenced before the old
\* one is given back.
vfs_chdir(c, p, ok) ==
  /\ Running
  /\ \E r \in {vfs_find(vfs, cwd[c], p)} :
     \E s \in {Ref(r.s, r.node)} :
       IF ~r.ok THEN Done(r.s)
       ELSE IF ok /\ s.vn[r.node].type = "DIR"
            THEN Finish(Unref(s, cwd[c]), fd, [cwd EXCEPT ![c] = r.node], leak)
            ELSE Done(Unref(s, r.node))

\* A reference for the length of the call on a node that was found.
Touch(r) == IF r.ok THEN Unref(Ref(r.s, r.node), r.node) ELSE r.s

\* vfs_stat, vfs_access, vfs_statvfs, vfs_readlink and a successful vfs_chmod
\* or vfs_chown.
vfs_stat(c, p) == Running /\ Done(Touch(vfs_find(vfs, cwd[c], p)))

\* vfs_statat and vfs_readlinkat: from the node of an open handle.
vfs_statat(h, p) == Running /\ fd[h] # NoNode /\ Done(Touch(vfs_find(vfs, fd[h], p)))

\* vfs_chmod that is refused: the reference is not given back.
vfs_chmod_denied(c, p) ==
  /\ Running /\ MayLose
  /\ \E r \in {vfs_find(vfs, cwd[c], p)} :
       IF r.ok /\ r.node # Root THEN Lose(Ref(r.s, r.node), r.node) ELSE Done(r.s)

\* Mutant: a directory is removed with what is in it.
MayRemove_Full(s, n) == s.disk[n] # NoEntry

\* A directory may be removed when no name is left in it; that of a stale node
\* has no block to look at.
MayRemove(s, n) ==
  /\ s.disk[n] # NoEntry
  /\ \A q \in Node : q # Root /\ Parent(q) = n => s.disk[q] = NoEntry

(***************************************************************************)
(* ext2_vnode_unlink of node n, "found" being what its asserts and reads   *)
(* meet.  The inode of a stale file is free already: either the assert of  *)
(* ext2_free_inode fails, or the number is in use again and it is the      *)
(* entry that is not found.  The text of a link is taken for block numbers *)
(* to free.                                                                *)
(***************************************************************************)
Removal(s, n, found) ==
  CASE s.vn[n].type = "DIR" -> IF MayRemove(s, n) THEN "removed" ELSE "error"
    [] s.vn[n].type = "LNK" /\ ~found -> "free_block"
    [] OTHER -> IF s.disk[n] # NoEntry THEN "removed"
                ELSE IF found THEN "error" ELSE "free_inode"

RemoveEntry(s, n, verdict) ==
  IF verdict = "removed" THEN [s EXCEPT !.disk[n] = NoEntry] ELSE s

\* Mutant: the working directory is not spared.
ShootsLeg_Never(c, n) == FALSE

\* The node to remove is the directory the caller stands in.
ShootsLeg(c, n) == n = cwd[c]

vfs_unlink(c, p, allowed, found) ==
  /\ Running /\ Plain(p)
  /\ \E r \in {vfs_find(vfs, cwd[c], p)} :
     \E s \in {Ref(r.s, r.node)} :
       IF ~r.ok THEN Done(r.s)
       ELSE IF r.node = Root THEN Done(Unref(s, r.node))
       ELSE IF ShootsLeg(c, r.node) THEN MayLose /\ Lose(s, r.node)
       ELSE \E t \in {Ref(s, Parent(r.node))} :
            \E verdict \in {IF allowed THEN Removal(t, r.node, found) ELSE "error"} :
              Done(IF verdict \in {"free_block", "free_inode"} THEN Halt(t, verdict)
                   ELSE Unref(Unref(RemoveEntry(t, r.node, verdict), r.node),
                              Parent(r.node)))

\* vfs_mkdir and vfs_symlink: an existing node is an error; the node of the
\* new entry is attached by the next lookup.
MakeEntry(c, p, entry, ok) ==
  \E r \in {vfs_find(vfs, cwd[c], p)} :
    IF r.ok \/ r.s.halt # "no" THEN Done(Touch(r))
    ELSE \E d \in {FindParent(r.s, cwd[c], p)} :
           Done(IF ~d.ok THEN d.s
                ELSE IF ~ok \/ Full(d.s, d.node) THEN Unref(d.s, d.node)
                ELSE Unref(AddEntry(d.s, Append(d.node, Last(p.el)), entry), d.node))

vfs_mkdir(c, p, ok) ==
  Running /\ Plain(p) /\ MakeEntry(c, p, [type |-> "DIR", to |-> <<>>], ok)

vfs_symlink(c, p, target, ok) ==
  Running /\ Plain(p) /\ MakeEntry(c, p, [type |-> "LNK", to |-> target], ok)

-----------------------------------------------------------------------------

Init ==
  /\ vfs = [tree |-> {Root},
            vn |-> [p \in Node |-> IF p = Root THEN Image[Root] ELSE NoEntry],
            ref |-> [p \in Node |-> 0],
            disk |-> Image,
            halt |-> "no"]
  /\ fd = [h \in Handle |-> NoNode]
  /\ cwd = [c \in Ctx |-> Root]
  /\ leak = [p \in Node |-> 0]

Next ==
  \/ \E c \in Ctx, p \in Path :
       \/ \E h \in Handle, create, directory, allowed, ok \in BOOLEAN :
            vfs_open(c, h, p, create, directory, allowed, ok)
       \/ \E h \in Handle, allowed, ok \in BOOLEAN : vfs_creat(c, h, p, allowed, ok)
       \/ \E ok \in BOOLEAN : vfs_chdir(c, p, ok)
       \/ vfs_stat(c, p)
       \/ vfs_chmod_denied(c, p)
       \/ \E allowed, found \in BOOLEAN : vfs_unlink(c, p, allowed, found)
       \/ \E ok \in BOOLEAN : vfs_mkdir(c, p, ok)
       \/ \E target \in Target, ok \in BOOLEAN : vfs_symlink(c, p, target, ok)
  \/ \E h \in Handle : vfs_close(h)
  \/ \E h \in Handle, p \in Path : vfs_statat(h, p)

Spec == Init /\ [][Next]_vars

-----------------------------------------------------------------------------
(* Properties.                                                             *)

Halts == {"no", "path_depth", "unref", "mid_link", "link_loop", "dup", "dup_file", "shadow",
          "open_link", "free_block", "free_inode", "detached"}

\* Every variable has its type, and there is no vnode without a node.
TypeOK ==
  /\ vfs \in [tree : SUBSET Node, vn : [Node -> Entry \cup {NoEntry}], ref : [Node -> Nat],
              disk : [Node -> Entry \cup {NoEntry}], halt : Halts]
  /\ \A p \in Node \ vfs.tree : vfs.vn[p] = NoEntry
  /\ fd \in [Handle -> Node \cup {NoNode}]
  /\ cwd \in [Ctx -> Node]
  /\ leak \in [Node -> Nat]

\* A cached node hangs on cached directories up to the root: no release of a
\* node leaves a child with a dangling parent pointer.
NodesRooted ==
  /\ Root \in vfs.tree
  /\ \A p \in vfs.tree : Above(p) \subseteq vfs.tree

\* The users of a node: open files and working directories.
Users(p) == Cardinality({h \in Handle : fd[h] = p}) + Cardinality({c \in Ctx : cwd[c] = p})

\* The count of a node is the number of its users and of the references that
\* were lost; every call gives back what it took, on every path through it.
RefBalance == \A p \in Node \ {Root} : vfs.ref[p] = Users(p) + leak[p]

\* No open file or working directory ever stands on a node that was released,
\* however often its path is unlinked, looked up and created again.
HoldersLive ==
  /\ \A h \in Handle : fd[h] # NoNode => fd[h] \in vfs.tree
  /\ \A c \in Ctx : cwd[c] \in vfs.tree

\* A count stands on a cached node only, so RefBalance speaks of the counts
\* that vnode_unref will read.
CountedCached == \A p \in Node \ {Root} : vfs.ref[p] > 0 => p \in vfs.tree

\* vnode_unref is never called on a count of 0 (assert at node.c:108).
NoUnderflow == vfs.halt # "unref"

\* A lookup returns nodes that hang in the tree, also after links and ".." took
\* it elsewhere: what it passes on the way to one is attached with it.
LookupAttaches == vfs.halt # "detached"

\* The cache agrees with the device: a cached node whose path has an entry
\* carries that entry, and one whose entry was removed is kept only for a
\* user of it or of a node below it.
CacheCoherent ==
  \A p \in vfs.tree \ {Root} :
    IF vfs.disk[p] # NoEntry THEN vfs.vn[p] = vfs.disk[p]
    ELSE vfs.ref[p] > 0 \/ Kids(vfs, p) # {}

\* Every entry lies in a directory: one of the device, or a removed one that
\* the cache keeps for its users.
EntriesHoused ==
  \A p \in Node \ {Root} : vfs.disk[p] # NoEntry => EntryOf(vfs, Parent(p)).type = "DIR"

\* The inductive invariant: between two calls the counts are those of the
\* users and of the lost references, nothing that is counted was released, and
\* the cache agrees with the device.
IInv ==
  /\ TypeOK /\ NodesRooted /\ RefBalance /\ HoldersLive /\ CountedCached /\ NoUnderflow
  /\ LookupAttaches /\ CacheCoherent /\ EntriesHoused

\* Every entry on the path to p is on the device.
Reachable(s, p) == \A q \in Above(p) : s.disk[q] # NoEntry

\* An entry that can be reached from the root leaves the device only when
\* nothing that can be reached is below it: neither unlink nor the release of
\* a node cuts off files.
NothingOrphaned ==
  [][\A p \in Node \ {Root} :
       Reachable(vfs, p) /\ vfs'.disk[p] = NoEntry
       => \A x \in Node : p \in Above(x) /\ x # p => ~Reachable(vfs, x)]_vars

\* "just check if vfs_ctx is trying to shoot its' leg off by unlinking the CWD"
\* (vfs.c:1006): no step removes the entry of a directory a context stands in,
\* as long as the program has one context (like the shell).
CwdKept ==
  [][\A c \in Ctx : cwd'[c] = cwd[c] /\ vfs.disk[cwd[c]] # NoEntry
                     => vfs'.disk[cwd[c]] # NoEntry]_vars

\* What an open file or a working directory refers to never changes under its
\* user, whatever is removed, looked up and created around it.
VnodeStable ==
  [][/\ \A h \in Handle : fd[h] # NoNode /\ fd'[h] = fd[h] => vfs'.vn[fd[h]] = vfs.vn[fd[h]]
     /\ \A c \in Ctx : cwd'[c] = cwd[c] => vfs'.vn[cwd[c]] = vfs.vn[cwd[c]]]_vars

\* The assert of ext2_free_inode (ext2alloc.c:201) seen from unlink.
NoDoubleFree == vfs.halt # "free_inode"
=============================================================================
