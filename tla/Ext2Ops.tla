------------------------------- MODULE Ext2Ops -------------------------------
(***************************************************************************)
(* How files come and go: creat, mkdir, symlink and unlink of              *)
(* src/ext2/ext2vnop.c over one directory, with the inode that the VFS     *)
(* keeps of a file that is in use, and with the machine stopping between   *)
(* any two writes to the device.                                           *)
(*                                                                         *)
(* A call is a sequence of writes; the first w of them reach the device.   *)
(* If those are not all, the call returns an error or the machine stops:   *)
(* restart is possible in every state.  Which inode or block the allocator *)
(* gives is left open (Ext2Alloc), so is where in its directory an entry   *)
(* is (Ext2Dir).  A file has at most one block (Ext2File).                 *)
(*                                                                         *)
(* A short link keeps its text where other inodes keep block numbers.      *)
(***************************************************************************)
EXTENDS Integers, Sequences

CONSTANTS
  Name,       \* names in the directory
  Ino,        \* inode numbers
  Block,      \* numbers of blocks
  BlockSize,  \* block_size
  Inline,     \* 60: links up to this length are kept in the inode
  Text,       \* texts of links: their length, and the number that the first
              \* four characters are
  Handle,     \* open files
  None        \* no name, no node

ASSUME OpsAssumption ==
  /\ 0 \notin Ino /\ 0 \notin Block /\ None \notin Name /\ Name # {}
  /\ BlockSize \in Nat \ {0} /\ Inline \in 0 .. BlockSize
  /\ Text \subseteq [len : 1 .. BlockSize, no : Nat \ {0}]

\* The inodes that matter here, and what is kept of one in memory.
Type == {"NONE", "REG", "DIR", "LNK"}
Content == [type : Type, size : 0 .. BlockSize, ptr : Block \cup {0} \cup {t.no : t \in Text}]
Node == [ino : Ino, ip : Content]

ASSUME NodeAssumption == None \notin Node

VARIABLES
  imap,    \* inodes that are marked on the device
  bmap,    \* blocks that are marked on the device
  entry,   \* the directory: the inode of every name, or 0
  itab,    \* the inodes on the device
  node,    \* what the VFS keeps of a file: its inode's number and content
  open,    \* the name under which every handle was opened
  care,    \* history: see Careful
  halt     \* "run"; "assert", "abort" and "stray" end the program

vars == <<imap, bmap, entry, itab, node, open, care, halt>>

Inode(type, size, ptr) == [type |-> type, size |-> size, ptr |-> ptr]
Unused == Inode("NONE", 0, 0)

\* The blocks that a size counts: none or one.
nblocks(ip) == (ip.size + BlockSize - 1) \div BlockSize

\* The block number that an inode holds if it is no short link.
Short(ip) == ip.type = "LNK" /\ ip.size <= Inline
BlockOf(ip) == IF Short(ip) THEN 0 ELSE ip.ptr

\* The writes of a call, of which the first w are done.
Done(order, w) == {order[k] : k \in 1 .. w}

-----------------------------------------------------------------------------
(* Looking a name up.                                                      *)

\* The inode behind a name: the one kept in memory, else the device's.
vfs_find(n) ==
  IF node[n] # None THEN node[n] ELSE [ino |-> entry[n], ip |-> itab[entry[n]]]

Cached(n) == node[n] # None
Known(n) == Cached(n) \/ entry[n] # 0
Typed(n) == Known(n) /\ vfs_find(n).ip.type # "NONE"

\* The entry that a kept node was read from is gone.
Stale(n) == Cached(n) /\ entry[n] = 0

\* Looking up an entry whose inode was never written ends the program.
ext2_inode_type(n) ==
  /\ halt = "run"
  /\ Known(n) /\ ~Typed(n)
  /\ halt' = "abort"
  /\ UNCHANGED <<imap, bmap, entry, itab, node, open, care>>

Users(n) == {h \in Handle : open[h] = n}

-----------------------------------------------------------------------------
(* Creating.                                                               *)

\* Mutant: the name is entered before its inode is marked.
CreatOrder_EntryFirst == <<"entry", "inode", "pointer">>

\* The inode is written last, into a table slot that holds an older one.
CreatOrder == <<"inode", "entry", "pointer">>
MkdirOrder == <<"inode", "block", "entry", "pointer">>
LinkOrder == <<"inode", "entry", "block", "pointer">>

\* Mutant: the inode is taken whether or not it is marked.
Create_AnyInode(n, d, i, b, ip) ==
  /\ b \notin bmap
  /\ imap' = IF "inode" \in d THEN imap \cup {i} ELSE imap
  /\ bmap' = IF "block" \in d THEN bmap \cup {b} ELSE bmap
  /\ entry' = IF "entry" \in d THEN [entry EXCEPT ![n] = i] ELSE entry
  /\ itab' = IF "pointer" \in d THEN [itab EXCEPT ![i] = ip] ELSE itab

\* Name n is given an inode; d are the writes that are done.
Create(n, d, i, b, ip) ==
  /\ i \notin imap /\ b \notin bmap
  /\ imap' = IF "inode" \in d THEN imap \cup {i} ELSE imap
  /\ bmap' = IF "block" \in d THEN bmap \cup {b} ELSE bmap
  /\ entry' = IF "entry" \in d THEN [entry EXCEPT ![n] = i] ELSE entry
  /\ itab' = IF "pointer" \in d THEN [itab EXCEPT ![i] = ip] ELSE itab

\* The new file is opened as soon as it is complete.
ext2_vnode_creat(h, n) ==
  /\ halt = "run" /\ ~Known(n) /\ open[h] = None
  /\ \E i \in Ino, w \in 1 .. Len(CreatOrder) :
       LET ip == Inode("REG", 0, 0)
       IN /\ Create(n, Done(CreatOrder, w), i, 0, ip)
          /\ IF w = Len(CreatOrder)
             THEN /\ node' = [node EXCEPT ![n] = [ino |-> i, ip |-> ip]]
                  /\ open' = [open EXCEPT ![h] = n]
             ELSE UNCHANGED <<node, open>>
  /\ UNCHANGED <<care, halt>>

ext2_vnode_mkdir(n) ==
  /\ halt = "run" /\ ~Known(n)
  /\ \E i \in Ino, b \in Block, w \in 1 .. Len(MkdirOrder) :
       Create(n, Done(MkdirOrder, w), i, b, Inode("DIR", BlockSize, b))
  /\ UNCHANGED <<node, open, care, halt>>

ext2_vnode_symlink(n, t) ==
  /\ halt = "run" /\ ~Known(n)
  /\ \E i \in Ino :
       IF t.len <= Inline
       THEN \E w \in 1 .. Len(CreatOrder) :
              Create(n, Done(CreatOrder, w), i, 0, Inode("LNK", t.len, t.no))
       ELSE \E b \in Block, w \in 1 .. Len(LinkOrder) :
              Create(n, Done(LinkOrder, w), i, b, Inode("LNK", t.len, b))
  /\ UNCHANGED <<node, open, care, halt>>

-----------------------------------------------------------------------------
(* Files in use.                                                           *)

vfs_open(h, n) ==
  /\ halt = "run" /\ open[h] = None
  /\ Typed(n) /\ vfs_find(n).ip.type = "REG"
  /\ node' = [node EXCEPT ![n] = vfs_find(n)]
  /\ open' = [open EXCEPT ![h] = n]
  /\ UNCHANGED <<imap, bmap, entry, itab, care, halt>>

\* Mutant: the inode stays in memory.
vfs_close_Keep(h) ==
  /\ halt = "run" /\ open[h] # None
  /\ open' = [open EXCEPT ![h] = None]
  /\ UNCHANGED <<imap, bmap, entry, itab, node, care, halt>>

\* The last handle takes the inode in memory with it.
vfs_close(h) ==
  LET n == open[h]
  IN /\ halt = "run" /\ n # None
     /\ open' = [open EXCEPT ![h] = None]
     /\ node' = IF Users(n) = {h} THEN [node EXCEPT ![n] = None] ELSE node
     /\ UNCHANGED <<imap, bmap, entry, itab, care, halt>>

\* Mutant: the inode is written before its block is marked.
WriteOrder_PointerFirst == <<"pointer", "block">>

\* A block is marked before an inode has it.
WriteOrder == <<"block", "pointer">>

\* The first write to an empty file: its size is raised, a block is marked,
\* the inode is written.  After an error of the allocator a marked block is lost.
vfs_write(h) ==
  LET n == open[h]
  IN /\ halt = "run" /\ n # None /\ nblocks(node[n].ip) = 0
     /\ \E b \in Block \ bmap, w \in 0 .. Len(WriteOrder) :
          LET d == Done(WriteOrder, w)
          IN /\ bmap' = IF "block" \in d THEN bmap \cup {b} ELSE bmap
             /\ \E ptr \in (IF d = {} THEN {} ELSE {b})
                          \cup (IF "pointer" \in d THEN {} ELSE {node[n].ip.ptr}) :
                  node' = [node EXCEPT ![n].ip = Inode("REG", 1, ptr)]
             /\ itab' = IF "pointer" \in d
                        THEN [itab EXCEPT ![node[n].ino] = node'[n].ip] ELSE itab
     /\ care' = (care /\ ~Stale(n))
     /\ UNCHANGED <<imap, entry, open, halt>>

\* The inode of a file in use is written back as it is in memory.
vfs_chmod(n) ==
  /\ halt = "run" /\ Cached(n)
  /\ itab' = [itab EXCEPT ![node[n].ino] = node[n].ip]
  /\ care' = (care /\ ~Stale(n))
  /\ UNCHANGED <<imap, bmap, entry, node, open, halt>>

-----------------------------------------------------------------------------
(* Removing.                                                               *)

\* The block is released before the inode that points to it is written, the
\* inode is released before the entry is removed.
UnlinkOrder(ip) ==
  IF nblocks(ip) = 0 THEN <<"inode", "entry">>
  ELSE <<"block", "pointer", "inode", "entry">>

\* What is released by the number is no block, or one that is not marked: that
\* ends the program, unless the number leads out of the table of the groups or
\* to a block that is none of a file's, which is not followed further.
Misses(ip) == nblocks(ip) > 0 /\ ip.ptr \notin bmap

\* The windows: a stop that leaves a released block in the inode, or a
\* released inode in the directory.
InWindow(d) ==
  \/ "block" \in d /\ "pointer" \notin d
  \/ "inode" \in d /\ "entry" \notin d

Careful(n, ip, d) == ~Stale(n) /\ ~InWindow(d) /\ ~("block" \in d /\ Short(ip))

\* What is left in memory of a file that is open; the number of a block whose
\* release has failed is kept.
Left(ip, d) ==
  IF nblocks(ip) = 0 THEN {ip}
  ELSE {Inode(ip.type, 0, ptr) :
          ptr \in (IF "block" \in d THEN {0} ELSE {})
                 \cup (IF "pointer" \in d THEN {} ELSE {ip.ptr})}

\* The first w steps; a file whose inode is not marked any more ends the program.
Unlink(n, ino, ip, w) ==
  LET order == UnlinkOrder(ip)
      d == Done(order, w)
      last == "inode" \notin d /\ w < Len(order) /\ order[w + 1] = "inode"
  IN /\ "inode" \in d => ino \in imap
     /\ bmap' = IF "block" \in d THEN bmap \ {ip.ptr} ELSE bmap
     /\ itab' = IF "pointer" \in d THEN [itab EXCEPT ![ino] = Inode(ip.type, 0, 0)] ELSE itab
     /\ imap' = IF "inode" \in d THEN imap \ {ino} ELSE imap
     /\ entry' = IF "entry" \in d THEN [entry EXCEPT ![n] = 0] ELSE entry
     /\ IF Users(n) = {} THEN UNCHANGED node
        ELSE \E left \in Left(ip, d) : node' = [node EXCEPT ![n].ip = left]
     /\ care' = (care /\ Careful(n, ip, d))
     /\ halt' = IF last /\ ino \notin imap THEN "assert" ELSE "run"

\* A directory is only removed when its block can be read (and is empty, see
\* Ext2Dir).
vfs_unlink(n) ==
  LET v == vfs_find(n)
  IN /\ halt = "run" /\ Typed(n)
     /\ v.ip.type = "DIR" => v.ip.ptr # 0
     /\ \/ /\ Misses(v.ip)
           /\ halt' = IF v.ip.ptr \in Block \cup {0} THEN "assert" ELSE "stray"
           /\ UNCHANGED <<imap, bmap, entry, itab, node, care>>
        \/ /\ ~Misses(v.ip)
           /\ \E w \in 0 .. Len(UnlinkOrder(v.ip)) : Unlink(n, v.ino, v.ip, w)
     /\ UNCHANGED open

-----------------------------------------------------------------------------

\* The program ends or the machine stops, and the device is mounted again.
ext2_fs_mount ==
  /\ node' = [n \in Name |-> None]
  /\ open' = [h \in Handle |-> None]
  /\ halt' = "run"
  /\ UNCHANGED <<imap, bmap, entry, itab, care>>

Init ==
  /\ imap = {} /\ bmap = {}
  /\ entry = [n \in Name |-> 0]
  /\ itab = [i \in Ino |-> Unused]
  /\ node = [n \in Name |-> None]
  /\ open = [h \in Handle |-> None]
  /\ care = TRUE
  /\ halt = "run"

Next ==
  \/ \E n \in Name :
       \/ ext2_inode_type(n) \/ ext2_vnode_mkdir(n)
       \/ vfs_chmod(n) \/ vfs_unlink(n)
       \/ \E t \in Text : ext2_vnode_symlink(n, t)
       \/ \E h \in Handle : ext2_vnode_creat(h, n) \/ vfs_open(h, n)
  \/ \E h \in Handle : vfs_close(h) \/ vfs_write(h)
  \/ ext2_fs_mount

Spec == Init /\ [][Next]_vars

-----------------------------------------------------------------------------
(* Properties.                                                             *)

\* Every variable has its type; files in use are kept in memory, others are not.
TypeOK ==
  /\ imap \in SUBSET Ino /\ bmap \in SUBSET Block
  /\ entry \in [Name -> Ino \cup {0}]
  /\ itab \in [Ino -> Content]
  /\ node \in [Name -> Node \cup {None}]
  /\ open \in [Handle -> Name \cup {None}]
  /\ \A n \in Name : Cached(n) <=> Users(n) # {}
  /\ care \in BOOLEAN
  /\ halt \in {"run", "assert", "abort", "stray"}

\* Names never come to share an inode, and theirs are marked, although creat
\* enters the inode in the directory before it writes it, and whatever call was
\* cut short outside the windows of unlink.
NamesApart ==
  care =>
    \A n, m \in Name :
      /\ entry[n] # 0 => entry[n] \in imap
      /\ entry[n] = entry[m] /\ entry[n] # 0 => n = m

\* The block of a file in use, as the inode in memory has it.
InMemory(n) == IF Cached(n) /\ ~Stale(n) THEN BlockOf(node[n].ip) ELSE 0

Apart(x, y) == x = y => x = 0

\* No two inodes have the same block, and all they have is marked: on the
\* device, free inodes included, whose content comes back with an entry that was
\* made but never written, and in memory.
BlocksApart ==
  care =>
    /\ \A i \in Ino : BlockOf(itab[i]) \in bmap \cup {0}
    /\ \A n \in Name : InMemory(n) \in bmap \cup {0}
    /\ \A i, j \in Ino : i # j => Apart(BlockOf(itab[i]), BlockOf(itab[j]))
    /\ \A n \in Name, i \in Ino : i # entry[n] => Apart(InMemory(n), BlockOf(itab[i]))
    /\ \A n, m \in Name : n # m => Apart(InMemory(n), InMemory(m))

\* A call concerns one name: what a restart would show of every other, its
\* inode's number and content on the device, stays.
OneNameChanges ==
  [][care' =>
      \E n \in Name : \A m \in Name \ {n} :
        /\ entry'[m] = entry[m]
        /\ entry[m] # 0 => itab'[entry[m]] = itab[entry[m]]]_vars

\* What is kept in memory is the regular file that the name leads to, or led to
\* before it was removed.
NodeOfEntry ==
  \A n \in Name :
    Cached(n) => node[n].ip.type = "REG" /\ entry[n] \in {0, node[n].ino}

\* The inductive invariant behind the proofs.
IInv == TypeOK /\ NodeOfEntry /\ NamesApart /\ BlocksApart

\* "Free blocks used by the inode" (ext2vnop.c:602): unlink releases no block
\* that another file uses.
ReleasesOwn ==
  [][\A n \in Name : vfs_unlink(n) =>
       \A m \in Name \ {n} : Known(m) =>
         (BlockOf(vfs_find(m).ip) \in bmap => BlockOf(vfs_find(m).ip) \in bmap')]_vars
=============================================================================
