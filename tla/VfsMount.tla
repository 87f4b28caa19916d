------------------------------ MODULE VfsMount ------------------------------
(***************************************************************************)
(* Mount points: vfs_mount and vfs_umount of src/vfs.c with the table of   *)
(* src/fs_class.c, over the cached path nodes that lookups attach and that *)
(* the last user of a node gives back (src/node.c).                        *)
(*                                                                         *)
(* Only directories matter here.  A node is named by its path, its vnode   *)
(* by the path and the file system it belongs to; a mount point has two    *)
(* vnodes, the root of what is mounted on it and the one this covers.      *)
(* Users of vnodes are the open directories and the working directory of   *)
(* the one context that the program has.  VfsTree is about the nodes of a  *)
(* single file system.                                                     *)
(***************************************************************************)
EXTENDS Integers, Sequences, SequencesExt, FiniteSets

CONSTANTS
  Dir,     \* paths of directories: sequences of names
  Slots,   \* size of mounts[] (10)
  Handle,  \* open directories
  Word,    \* 2^32: refcount wraps around
  Junk,    \* what may be in memory that malloc returns
  None     \* no file system, no user

Fs == 1 .. Slots
Root == <<>>

Vnode == [dir : Dir, fs : Fs]

ASSUME MountAssumption ==
  /\ Slots \in Nat \ {0} /\ Word \in Nat \ {0}
  /\ Junk \subseteq 0 .. Word - 1
  /\ IsFiniteSet(Handle) /\ Cardinality(Handle) + 2 < Word /\ "cwd" \notin Handle
  /\ Root \in Dir
  /\ \A p \in Dir : p \in Seq(Range(p)) /\ \A n \in 0 .. Len(p) : SubSeq(p, 1, n) \in Dir
  /\ None \notin Fs /\ None \notin Vnode

VARIABLES
  used,    \* mounts[]: the slots taken so far
  at,      \* the file system of every node's vnode; None: not attached
  below,   \* real_vnode of the mount points
  ref,     \* refcount of the vnodes
  cwd,     \* cwd_vnode
  fd,      \* the vnode of every handle
  halt     \* "run"; "assert", "abort" and "stray" end the program

vars == <<used, at, below, ref, cwd, fd, halt>>

IsMount(p) == below[p] # None \/ (p = Root /\ at[Root] # None)

V(p, fs) == [dir |-> p, fs |-> fs]

\* p and the directories above it.
Chain(p) == {q \in Dir : IsPrefix(q, p)}

Kids(p, tree) == {q \in Dir \ {Root} : tree[q] # None /\ Front(q) = p}

\* A vnode that is not given back.
Alive(v) == v.fs \in {at[v.dir], below[v.dir]}

-----------------------------------------------------------------------------
(* The nodes.                                                              *)

\* vfs_find_tree: the nodes down to p are attached, each with a vnode of the
\* file system that its parent shows.
Attach(p) ==
  LET last == CHOOSE q \in Chain(p) :
                at[q] # None /\ \A c \in Chain(p) : at[c] # None => Len(c) <= Len(q)
  IN [q \in Dir |-> IF q \in Chain(p) /\ at[q] = None THEN at[last] ELSE at[q]]

\* Mutant: a mount point goes like any other directory.
Idle_Mount(q, p, tree, count) ==
  /\ q # Root
  /\ Kids(q, tree) \subseteq Chain(p)
  /\ count[V(q, tree[q])] = 0

\* A directory on the way to p that goes when the one below it does: nobody uses
\* it, it has no other child, and nothing is mounted on it.
Idle(q, p, tree, count) ==
  /\ q # Root /\ below[q] = None
  /\ Kids(q, tree) \subseteq Chain(p)
  /\ count[V(q, tree[q])] = 0

\* vnode_free of p's vnode: the nodes that go.
Gone(p, tree, count) ==
  {q \in Chain(p) \ {Root} :
     \A c \in Chain(p) \ {p} : Len(c) >= Len(q) => Idle(c, p, tree, count)}

Without(tree, gone) == [q \in Dir |-> IF q \in gone THEN None ELSE tree[q]]

\* vnode_ref: roots of the tree are not counted.
Ref(v, count) ==
  IF v.dir = Root THEN count ELSE [count EXCEPT ![v] = (@ + 1) % Word]

\* Mutant: a node goes with its last user although it has children.
Unref_Parent(v, tree, count) ==
  LET left == [count EXCEPT ![v] = @ - 1]
  IN IF v.dir = Root THEN at' = tree /\ ref' = count /\ halt' = halt
     ELSE IF count[v] = 0
     THEN /\ at' = tree /\ ref' = count
          /\ halt' = IF Kids(v.dir, tree) = {} THEN "assert" ELSE halt
     ELSE /\ ref' = left /\ halt' = halt
          /\ at' = IF left[v] = 0 /\ below[v.dir] = None
                   THEN Without(tree, Gone(v.dir, tree, left)) ELSE tree

\* vnode_unref, the last thing a call does: tree and count are what it has made
\* of the nodes and counts.  The vnode is there (see UsersKept).
Unref(v, tree, count) ==
  LET left == [count EXCEPT ![v] = @ - 1]
  IN IF v.dir = Root THEN at' = tree /\ ref' = count /\ halt' = halt
     ELSE IF count[v] = 0
     THEN /\ at' = tree /\ ref' = count
          /\ halt' = IF Kids(v.dir, tree) = {} THEN "assert" ELSE halt
     ELSE /\ ref' = left /\ halt' = halt
          /\ at' = IF left[v] = 0 /\ Kids(v.dir, tree) = {} /\ below[v.dir] = None
                   THEN Without(tree, Gone(v.dir, tree, left)) ELSE tree

-----------------------------------------------------------------------------
(* Calls on directories.  A lookup starts at the root or at the working     *)
(* directory, which is attached itself.                                    *)

Mounted == halt = "run" /\ at[Root] # None

\* A lookup that finds nothing below p leaves the nodes attached.
vfs_find(p) ==
  /\ Mounted
  /\ at' = Attach(p)
  /\ UNCHANGED <<used, below, ref, cwd, fd, halt>>

\* Also vfs_opendir and vfs_chdir that are refused: the vnode is used while the
\* call lasts.
vfs_stat(p) ==
  LET tree == Attach(p)
      v == V(p, tree[p])
  IN /\ Mounted
     /\ Unref(v, tree, Ref(v, ref))
     /\ UNCHANGED <<used, below, cwd, fd>>

\* Mutant: the old directory is not given back.
vfs_chdir_Keep(p) ==
  LET tree == Attach(p)
      v == V(p, tree[p])
  IN /\ Mounted
     /\ cwd' = v /\ at' = tree /\ ref' = Ref(v, ref)
     /\ UNCHANGED <<used, below, fd, halt>>

\* The new directory is counted before the old one is given back.
vfs_chdir(p) ==
  LET tree == Attach(p)
      v == V(p, tree[p])
  IN /\ Mounted
     /\ cwd' = v
     /\ IF cwd = None THEN at' = tree /\ ref' = Ref(v, ref) /\ halt' = halt
        ELSE Unref(cwd, tree, Ref(v, ref))
     /\ UNCHANGED <<used, below, fd>>

vfs_opendir(h, p) ==
  LET tree == Attach(p)
      v == V(p, tree[p])
  IN /\ Mounted /\ fd[h] = None
     /\ at' = tree /\ ref' = Ref(v, ref)
     /\ fd' = [fd EXCEPT ![h] = v]
     /\ UNCHANGED <<used, below, cwd, halt>>

\* The root of what was unmounted is used after it was given back.
close_stray(h) ==
  /\ halt = "run" /\ fd[h] # None /\ ~Alive(fd[h])
  /\ halt' = "stray"
  /\ UNCHANGED <<used, at, below, ref, cwd, fd>>

vfs_close(h) ==
  /\ halt = "run" /\ fd[h] # None /\ Alive(fd[h])
  /\ fd' = [fd EXCEPT ![h] = None]
  /\ Unref(fd[h], at, ref)
  /\ UNCHANGED <<used, below, cwd>>

-----------------------------------------------------------------------------
(* Mounting.                                                               *)

\* A slot is taken first, and kept when the class or the directory refuses: the
\* device has no file system, or nodes below the directory are attached.
mount_fails(tree) ==
  /\ used' = used + 1 /\ at' = tree
  /\ UNCHANGED <<below, ref, halt>>

\* Mutant: the slot is not marked.
mount_root_Free(tree, p) ==
  /\ Kids(p, tree) = {} /\ ~IsMount(p)
  /\ at' = [tree EXCEPT ![p] = used + 1]
  /\ below' = [below EXCEPT ![p] = tree[p]]
  /\ \E j \in Junk : ref' = [ref EXCEPT ![V(p, used + 1)] = j]
  /\ UNCHANGED <<used, halt>>

\* The root of the new file system covers the directory; its count is what
\* malloc returned.
mount_root(tree, p) ==
  /\ used' = used + 1
  /\ Kids(p, tree) = {}
  /\ IF IsMount(p)
     THEN halt' = "abort" /\ at' = tree /\ UNCHANGED <<below, ref>>
     ELSE /\ at' = [tree EXCEPT ![p] = used + 1]
          /\ below' = [below EXCEPT ![p] = tree[p]]
          /\ \E j \in Junk : ref' = [ref EXCEPT ![V(p, used + 1)] = j]
          /\ halt' = halt

\* The root's vnode cannot be read.
get_root_fails(tree, p) ==
  /\ used' = used + 1 /\ Kids(p, tree) = {}
  /\ halt' = "abort" /\ at' = tree
  /\ UNCHANGED <<below, ref>>

\* A full table refuses.
fs_create_fails(tree) ==
  /\ used = Slots
  /\ at' = tree
  /\ UNCHANGED <<used, below, ref, halt>>

vfs_mount(p) ==
  /\ halt = "run" /\ (at[Root] # None \/ p = Root)
  /\ LET tree == IF at[Root] = None THEN at ELSE Attach(p)
     IN \/ fs_create_fails(tree)
        \/ used < Slots /\ mount_fails(tree)
        \/ used < Slots /\ mount_root(tree, p)
        \/ used < Slots /\ get_root_fails(tree, p)
  /\ UNCHANGED <<cwd, fd>>

\* Nodes below the mount point keep it.
umount_busy(p) ==
  /\ Mounted /\ IsMount(p)
  /\ Kids(p, Attach(p)) # {}
  /\ at' = Attach(p)
  /\ UNCHANGED <<used, below, ref, cwd, fd, halt>>

\* Mutant: the working directory stays in what is unmounted.
vfs_umount_KeepCwd(p) ==
  LET tree == Attach(p)
      under == [tree EXCEPT ![p] = below[p]]
  IN /\ Mounted /\ IsMount(p) /\ Kids(p, tree) = {}
     /\ below' = [below EXCEPT ![p] = None]
     /\ ref' = [ref EXCEPT ![V(p, tree[p])] = 0]
     /\ at' = Without(under, Gone(p, under, ref))
     /\ halt' = IF p # Root /\ ref[V(p, below[p])] # 0 THEN "assert" ELSE halt
     /\ UNCHANGED <<used, cwd, fd>>

\* The root of what was mounted is given back whoever uses it; only the caller's
\* working directory is taken care of.  With it goes the node, unless it is the
\* root of the tree; the vnode that was covered must not be in use.
vfs_umount(p) ==
  LET tree == Attach(p)
      top == V(p, tree[p])
      under == [tree EXCEPT ![p] = below[p]]
  IN /\ Mounted /\ IsMount(p) /\ Kids(p, tree) = {}
     /\ below' = [below EXCEPT ![p] = None]
     /\ cwd' = IF cwd = top THEN None ELSE cwd
     /\ ref' = [ref EXCEPT ![top] = 0]
     /\ at' = Without(under, Gone(p, under, ref))
     /\ halt' = IF p # Root /\ ref[V(p, below[p])] # 0 THEN "assert" ELSE halt
     /\ UNCHANGED <<used, fd>>

-----------------------------------------------------------------------------

Init ==
  /\ used = 0 /\ cwd = None /\ halt = "run"
  /\ at = [p \in Dir |-> None] /\ below = [p \in Dir |-> None]
  /\ ref = [v \in Vnode |-> 0]
  /\ fd = [h \in Handle |-> None]

Next ==
  \/ \E p \in Dir :
       \/ vfs_find(p) \/ vfs_stat(p) \/ vfs_chdir(p)
       \/ vfs_mount(p) \/ vfs_umount(p) \/ umount_busy(p)
       \/ \E h \in Handle : vfs_opendir(h, p)
  \/ \E h \in Handle : vfs_close(h) \/ close_stray(h)

Spec == Init /\ [][Next]_vars

-----------------------------------------------------------------------------
(* Properties.                                                             *)

\* Every variable has its type; what is covered is covered by something, and no
\* slot is mounted before it is taken.
TypeOK ==
  /\ used \in 0 .. Slots
  /\ at \in [Dir -> (1 .. used) \cup {None}] /\ below \in [Dir -> (1 .. used) \cup {None}]
  /\ ref \in [Vnode -> 0 .. Word - 1]
  /\ cwd \in Vnode \cup {None} /\ fd \in [Handle -> Vnode \cup {None}]
  /\ \A p \in Dir : below[p] # None => at[p] # None
  /\ halt \in {"run", "assert", "abort", "stray"}

\* A node hangs on a node, and is of the file system that this one shows: no
\* file system is unmounted, and no node given back, from under another.
Nested ==
  \A p \in Dir \ {Root} :
    at[p] # None =>
      /\ at[Front(p)] # None
      /\ (IF below[p] = None THEN at[p] ELSE below[p]) = at[Front(p)]

\* The vnode of the directory itself, whether or not it is covered.
Plain(p) == V(p, IF below[p] = None THEN at[p] ELSE below[p])

Users(v) == {h \in Handle : fd[h] = v} \cup (IF cwd = v THEN {"cwd"} ELSE {})

\* Every directory is counted as often as it is used, covered ones too, so that
\* umount notices that the directory it uncovers is in use.
Counted ==
  halt = "run" =>
    \A p \in Dir \ {Root} :
      at[p] # None => ref[Plain(p)] = Cardinality(Users(Plain(p)))

\* A file system stays on its mount point, whatever is looked up, closed or
\* mounted elsewhere, until this path is unmounted.
MountsStay ==
  [][\A p \in Dir :
      IsMount(p) => vfs_umount(p) \/ (at'[p] = at[p] /\ below'[p] = below[p])]_vars

\* A vnode in use is not given back, unless it is the root of what is unmounted
\* and not the caller's working directory.
UsersKept ==
  [][\A v \in Vnode :
      Users(v) \cap Users(v)' # {} /\ Alive(v) /\ halt' = "run" =>
        \/ Alive(v)'
        \/ IsMount(v.dir) /\ at[v.dir] = v.fs /\ cwd' # v]_vars
=============================================================================
