---------------------------- MODULE Ext2OpsProofs ----------------------------
(***************************************************************************)
(* Proofs about Ext2Ops: wherever a call is cut short, outside the windows *)
(* of unlink, files keep their inodes and blocks to themselves, and a call *)
(* changes what one name shows.                                            *)
(***************************************************************************)
EXTENDS Ext2Ops, TLAPS

\* Every name but n shows what it showed.
Others(n) ==
  \A m \in Name \ {n} :
    /\ entry'[m] = entry[m]
    /\ entry[m] # 0 => itab'[entry[m]] = itab[entry[m]]

-----------------------------------------------------------------------------
(* Inodes and their writes.                                                *)

\* The fields of an inode, and the block of each kind.
LEMMA InodeIs ==
  ASSUME NEW type, NEW size, NEW ptr
  PROVE  /\ Inode(type, size, ptr).type = type
         /\ Inode(type, size, ptr).size = size
         /\ Inode(type, size, ptr).ptr = ptr
         /\ type # "LNK" => BlockOf(Inode(type, size, ptr)) = ptr
         /\ type = "LNK" /\ size <= Inline => BlockOf(Inode(type, size, ptr)) = 0
         /\ BlockOf(Inode(type, size, ptr)) \in {0, ptr}
BY DEF Inode, BlockOf, Short

\* The inode is marked before it is entered; a block is marked before it is
\* pointed to.
LEMMA CreatWrites ==
  ASSUME NEW w \in 1 .. Len(CreatOrder)
  PROVE  /\ "entry" \in Done(CreatOrder, w) => "inode" \in Done(CreatOrder, w)
         /\ "block" \notin Done(CreatOrder, w)
         /\ w = Len(CreatOrder) => {"inode", "entry", "pointer"} \subseteq Done(CreatOrder, w)
<1>1. Len(CreatOrder) = 3 /\ CreatOrder[1] = "inode" /\ CreatOrder[2] = "entry"
      /\ CreatOrder[3] = "pointer"
  BY DEF CreatOrder
<1> QED
  BY <1>1 DEF Done

\* The prefixes of the writes of mkdir.
LEMMA MkdirWrites ==
  ASSUME NEW w \in 1 .. Len(MkdirOrder)
  PROVE  /\ "entry" \in Done(MkdirOrder, w) => "inode" \in Done(MkdirOrder, w)
         /\ "pointer" \in Done(MkdirOrder, w) => "block" \in Done(MkdirOrder, w)
<1>1. Len(MkdirOrder) = 4 /\ MkdirOrder[1] = "inode" /\ MkdirOrder[2] = "block"
      /\ MkdirOrder[3] = "entry" /\ MkdirOrder[4] = "pointer"
  BY DEF MkdirOrder
<1> QED
  BY <1>1 DEF Done

\* The prefixes of the writes of symlink for a link with a block.
LEMMA LinkWrites ==
  ASSUME NEW w \in 1 .. Len(LinkOrder)
  PROVE  /\ "entry" \in Done(LinkOrder, w) => "inode" \in Done(LinkOrder, w)
         /\ "pointer" \in Done(LinkOrder, w) => "block" \in Done(LinkOrder, w)
<1>1. Len(LinkOrder) = 4 /\ LinkOrder[1] = "inode" /\ LinkOrder[2] = "entry"
      /\ LinkOrder[3] = "block" /\ LinkOrder[4] = "pointer"
  BY DEF LinkOrder
<1> QED
  BY <1>1 DEF Done

\* The prefixes of the writes that give a file its block.
LEMMA WriteWrites ==
  ASSUME NEW w \in 0 .. Len(WriteOrder)
  PROVE  /\ "pointer" \in Done(WriteOrder, w) => "block" \in Done(WriteOrder, w)
         /\ Done(WriteOrder, w) # {} => "block" \in Done(WriteOrder, w)
<1>1. Len(WriteOrder) = 2 /\ WriteOrder[1] = "block" /\ WriteOrder[2] = "pointer"
  BY DEF WriteOrder
<1> QED
  BY <1>1 DEF Done

\* Only a file with blocks has one released and its inode written.
LEMMA UnlinkWrites ==
  ASSUME NEW ip, NEW w \in 0 .. Len(UnlinkOrder(ip))
  PROVE  LET d == Done(UnlinkOrder(ip), w)
         IN /\ "block" \in d => nblocks(ip) # 0
            /\ "pointer" \in d => "block" \in d
<1>1. CASE nblocks(ip) = 0
  <2>1. /\ Len(UnlinkOrder(ip)) = 2 /\ UnlinkOrder(ip)[1] = "inode"
        /\ UnlinkOrder(ip)[2] = "entry"
    BY <1>1 DEF UnlinkOrder
  <2> QED
    BY <2>1 DEF Done
<1>2. CASE nblocks(ip) # 0
  <2>1. /\ Len(UnlinkOrder(ip)) = 4 /\ UnlinkOrder(ip)[1] = "block"
        /\ UnlinkOrder(ip)[2] = "pointer" /\ UnlinkOrder(ip)[3] = "inode"
        /\ UnlinkOrder(ip)[4] = "entry"
    BY <1>2 DEF UnlinkOrder
  <2> QED
    BY <1>2, <2>1 DEF Done
<1> QED
  BY <1>1, <1>2

\* What a name in memory has on the device.
LEMMA NodeIs ==
  ASSUME TypeOK, NodeOfEntry, NEW n \in Name, Cached(n)
  PROVE  /\ node[n] \in Node /\ node[n].ino \in Ino /\ node[n].ip \in Content
         /\ node[n].ip.type = "REG"
         /\ BlockOf(node[n].ip) = node[n].ip.ptr
         /\ entry[n] \in {0, node[n].ino}
         /\ ~Stale(n) => entry[n] = node[n].ino /\ InMemory(n) = node[n].ip.ptr
BY NodeAssumption DEF TypeOK, NodeOfEntry, Cached, Node, BlockOf, Short, Stale, InMemory

\* The file behind a name.
LEMMA FindIs ==
  ASSUME TypeOK, NodeOfEntry, NEW n \in Name, Known(n)
  PROVE  /\ vfs_find(n) \in Node
         /\ vfs_find(n).ino \in Ino /\ vfs_find(n).ip \in Content
         /\ ~Stale(n) => entry[n] = vfs_find(n).ino
         /\ ~Cached(n) => vfs_find(n).ip = itab[entry[n]] /\ entry[n] \in Ino
         /\ Cached(n) => vfs_find(n) = node[n]
<1>1. CASE Cached(n)
  BY <1>1, NodeIs DEF vfs_find, Cached
<1>2. CASE ~Cached(n)
  <2>1. entry[n] \in Ino /\ itab[entry[n]] \in Content
    BY <1>2 DEF Known, TypeOK
  <2> QED
    BY <1>2, <2>1 DEF vfs_find, Cached, Node
<1> QED
  BY <1>1, <1>2

-----------------------------------------------------------------------------
(* Creating.                                                               *)

\* What the calls that create have in common: n is a new name, d are the writes
\* done, and the file may be opened when it is complete.
Creates(n, d, i, b, ip) ==
  /\ halt = "run" /\ ~Known(n) /\ UNCHANGED <<care, halt>>
  /\ Create(n, d, i, b, ip)
  /\ "entry" \in d => "inode" \in d
  /\ "block" \in d => b # 0
  /\ "pointer" \in d => BlockOf(ip) = 0 \/ (BlockOf(ip) = b /\ "block" \in d)
  /\ \/ UNCHANGED <<node, open>>
     \/ \E h \in Handle :
          /\ ip.type = "REG" /\ BlockOf(ip) = 0 /\ "entry" \in d /\ open[h] = None
          /\ node' = [node EXCEPT ![n] = [ino |-> i, ip |-> ip]]
          /\ open' = [open EXCEPT ![h] = n]

\* Each of them is such a step.
LEMMA CreatCreates ==
  ASSUME TypeOK, NEW h \in Handle, NEW n \in Name, ext2_vnode_creat(h, n)
  PROVE  \E i \in Ino, b \in Block \cup {0}, ip \in Content : \E d : Creates(n, d, i, b, ip)
<1> DEFINE ip == Inode("REG", 0, 0)
<1>1. PICK i \in Ino, w \in 1 .. Len(CreatOrder) :
         /\ Create(n, Done(CreatOrder, w), i, 0, ip)
         /\ IF w = Len(CreatOrder)
            THEN /\ node' = [node EXCEPT ![n] = [ino |-> i, ip |-> ip]]
                 /\ open' = [open EXCEPT ![h] = n]
            ELSE UNCHANGED <<node, open>>
  BY DEF ext2_vnode_creat
<1>2. ip \in Content /\ BlockOf(ip) = 0 /\ ip.type = "REG"
  BY OpsAssumption, InodeIs DEF Content, Type, Inode
<1> HIDE DEF ip
<1>3. Creates(n, Done(CreatOrder, w), i, 0, ip)
  BY <1>1, <1>2, CreatWrites DEF Creates, ext2_vnode_creat
<1> QED
  BY <1>2, <1>3

\* Wherever mkdir is cut short, its writes are those of one creation.
LEMMA MkdirCreates ==
  ASSUME TypeOK, NEW n \in Name, ext2_vnode_mkdir(n)
  PROVE  \E i \in Ino, b \in Block \cup {0}, ip \in Content : \E d : Creates(n, d, i, b, ip)
<1>1. PICK i \in Ino, b \in Block, w \in 1 .. Len(MkdirOrder) :
         Create(n, Done(MkdirOrder, w), i, b, Inode("DIR", BlockSize, b))
  BY DEF ext2_vnode_mkdir
<1> DEFINE ip == Inode("DIR", BlockSize, b)
<1>2. ip \in Content /\ BlockOf(ip) = b /\ b # 0
  BY OpsAssumption, InodeIs DEF Content, Type, Inode
<1> HIDE DEF ip
<1>3. Creates(n, Done(MkdirOrder, w), i, b, ip)
  BY <1>1, <1>2, MkdirWrites DEF Creates, ext2_vnode_mkdir, ip
<1> QED
  BY <1>2, <1>3

\* Wherever symlink is cut short, its writes are those of one creation.
LEMMA LinkCreates ==
  ASSUME TypeOK, NEW n \in Name, NEW t \in Text, ext2_vnode_symlink(n, t)
  PROVE  \E i \in Ino, b \in Block \cup {0}, ip \in Content : \E d : Creates(n, d, i, b, ip)
<1>1. t.len \in 0 .. BlockSize /\ t.len \in Int /\ Inline \in Int /\ BlockSize \in Nat
  BY OpsAssumption
<1>2. CASE t.len <= Inline
  <2> DEFINE ip == Inode("LNK", t.len, t.no)
  <2>1. PICK i \in Ino, w \in 1 .. Len(CreatOrder) :
           Create(n, Done(CreatOrder, w), i, 0, ip)
    BY <1>2 DEF ext2_vnode_symlink
  <2>2. ip \in Content /\ BlockOf(ip) = 0
    BY <1>1, <1>2, InodeIs DEF Content, Type, Inode
  <2> HIDE DEF ip
  <2>3. Creates(n, Done(CreatOrder, w), i, 0, ip)
    BY <2>1, <2>2, CreatWrites DEF Creates, ext2_vnode_symlink
  <2> QED
    BY <2>2, <2>3
<1>3. CASE ~(t.len <= Inline)
  <2>1. PICK i \in Ino, b \in Block, w \in 1 .. Len(LinkOrder) :
           Create(n, Done(LinkOrder, w), i, b, Inode("LNK", t.len, b))
    BY <1>3 DEF ext2_vnode_symlink
  <2> DEFINE ip == Inode("LNK", t.len, b)
  <2>2. ip \in Content /\ BlockOf(ip) = b /\ b # 0
    BY <1>1, <1>3, OpsAssumption DEF Content, Type, Inode, BlockOf, Short
  <2> HIDE DEF ip
  <2>3. Creates(n, Done(LinkOrder, w), i, b, ip)
    BY <2>1, <2>2, LinkWrites DEF Creates, ext2_vnode_symlink, ip
  <2> QED
    BY <2>2, <2>3
<1> QED
  BY <1>2, <1>3

\* What the step does to every name and inode.
LEMMA CreatesIs ==
  ASSUME TypeOK, NEW n \in Name, NEW i \in Ino, NEW b \in Block \cup {0},
         NEW ip \in Content, NEW d, Creates(n, d, i, b, ip)
  PROVE  /\ entry[n] = 0 /\ node[n] = None /\ i \notin imap /\ b \notin bmap
         /\ imap \subseteq imap' /\ imap' \in SUBSET Ino
         /\ bmap \subseteq bmap' /\ bmap' \in SUBSET Block
         /\ entry' \in [Name -> Ino \cup {0}]
         /\ \A m \in Name \ {n} : entry'[m] = entry[m]
         /\ entry'[n] \in {0, i} /\ (entry'[n] = i => i \in imap')
         /\ itab' \in [Ino -> Content]
         /\ \A j \in Ino \ {i} : itab'[j] = itab[j]
         /\ \/ itab'[i] = itab[i]
            \/ BlockOf(itab'[i]) = 0
            \/ BlockOf(itab'[i]) = b /\ b \in bmap'
<1>1. entry[n] = 0 /\ node[n] = None /\ i \notin imap /\ b \notin bmap
  BY DEF Creates, Create, Known, Cached
<1>2. /\ imap \subseteq imap' /\ imap' \in SUBSET Ino
      /\ bmap \subseteq bmap' /\ bmap' \in SUBSET Block
  BY DEF Creates, Create, TypeOK
<1>3. /\ entry' \in [Name -> Ino \cup {0}]
      /\ \A m \in Name \ {n} : entry'[m] = entry[m]
      /\ entry'[n] \in {0, i} /\ (entry'[n] = i => i \in imap')
  BY <1>1, OpsAssumption DEF Creates, Create, TypeOK
<1>4. /\ itab' \in [Ino -> Content]
      /\ \A j \in Ino \ {i} : itab'[j] = itab[j]
      /\ \/ itab'[i] = itab[i]
         \/ BlockOf(itab'[i]) = 0
         \/ BlockOf(itab'[i]) = b /\ b \in bmap'
  BY DEF Creates, Create, TypeOK
<1> QED
  BY <1>1, <1>2, <1>3, <1>4

\* The inode in memory, of a file that was opened as it was made.
LEMMA CreatesNode ==
  ASSUME TypeOK, NEW n \in Name, NEW i \in Ino, NEW b \in Block \cup {0},
         NEW ip \in Content, NEW d, Creates(n, d, i, b, ip)
  PROVE  /\ node' \in [Name -> Node \cup {None}]
         /\ open' \in [Handle -> Name \cup {None}]
         /\ \A m \in Name : Cached(m)' <=> Users(m)' # {}
         /\ \A m \in Name \ {n} : node'[m] = node[m]
         /\ \/ node'[n] = None
            \/ /\ node'[n].ip.type = "REG" /\ BlockOf(node'[n].ip) = 0
               /\ node'[n].ino = i /\ entry'[n] = i
<1>1. CASE UNCHANGED <<node, open>>
  BY <1>1, CreatesIs DEF TypeOK, Cached, Users
<1>2. CASE \E h \in Handle :
             /\ ip.type = "REG" /\ BlockOf(ip) = 0 /\ "entry" \in d /\ open[h] = None
             /\ node' = [node EXCEPT ![n] = [ino |-> i, ip |-> ip]]
             /\ open' = [open EXCEPT ![h] = n]
  <2>1. PICK h \in Handle :
           /\ ip.type = "REG" /\ BlockOf(ip) = 0 /\ "entry" \in d /\ open[h] = None
           /\ node' = [node EXCEPT ![n] = [ino |-> i, ip |-> ip]]
           /\ open' = [open EXCEPT ![h] = n]
    BY <1>2
  <2> DEFINE new == [ino |-> i, ip |-> ip]
  <2>2. new \in Node /\ new.ip = ip /\ new.ino = i /\ new # None
    BY NodeAssumption DEF Node
  <2> HIDE DEF new
  <2>3. /\ node' \in [Name -> Node \cup {None}]
        /\ open' \in [Handle -> Name \cup {None}]
        /\ node'[n] = new /\ \A m \in Name \ {n} : node'[m] = node[m]
        /\ open'[h] = n /\ \A k \in Handle \ {h} : open'[k] = open[k]
    BY <2>1, <2>2 DEF TypeOK, new
  <2>4. entry'[n] = i
    BY <2>1 DEF Creates, Create, TypeOK
  <2>5. ASSUME NEW m \in Name
        PROVE  Cached(m)' <=> Users(m)' # {}
    <3>1. CASE m = n
      BY <2>2, <2>3, <3>1 DEF Cached, Users
    <3>2. CASE m # n
      <4>1. Users(m)' = Users(m)
        BY <2>1, <2>3, <3>2, OpsAssumption DEF Users
      <4> QED
        BY <2>3, <3>2, <4>1 DEF TypeOK, Cached
    <3> QED
      BY <3>1, <3>2
  <2> QED
    BY <2>1, <2>2, <2>3, <2>4, <2>5
<1> QED
  BY <1>1, <1>2 DEF Creates

\* The new name has an inode and a block that nobody had.
LEMMA CreatesStep ==
  ASSUME IInv, NEW n \in Name, NEW i \in Ino, NEW b \in Block \cup {0},
         NEW ip \in Content, NEW d, Creates(n, d, i, b, ip)
  PROVE  IInv' /\ (care' => Others(n))
<1> USE DEF IInv
<1>1. halt' = halt /\ care' = care
  BY DEF Creates
<1>2. TypeOK'
  BY <1>1, CreatesIs, CreatesNode DEF TypeOK
<1>3. NodeOfEntry'
  <2> SUFFICES ASSUME NEW m \in Name, Cached(m)'
               PROVE  node'[m].ip.type = "REG" /\ entry'[m] \in {0, node'[m].ino}
    BY DEF NodeOfEntry
  <2>1. CASE m = n
    BY <2>1, CreatesNode DEF Cached
  <2>2. CASE m # n
    BY <2>2, CreatesIs, CreatesNode DEF Cached, NodeOfEntry
  <2> QED
    BY <2>1, <2>2
<1>4. ASSUME care
      PROVE  NamesApart' /\ BlocksApart' /\ Others(n)
  <2>1. \A m \in Name : entry[m] # 0 => entry[m] \in imap /\ entry[m] # i
    BY <1>4, CreatesIs DEF NamesApart
  <2>2. NamesApart'
    BY <1>4, <2>1, CreatesIs DEF NamesApart
  <2>3. Others(n)
    BY <2>1, CreatesIs DEF Others, TypeOK
  <2>4. InMemory(n)' = 0
    BY CreatesNode, CreatesIs DEF InMemory, Cached, Stale
  <2>5. \A m \in Name \ {n} : InMemory(m)' = InMemory(m)
    BY CreatesNode, CreatesIs DEF InMemory, Cached, Stale
  <2>6. /\ bmap \subseteq bmap' /\ b \notin bmap
        /\ \A j \in Ino : \/ BlockOf(itab'[j]) = BlockOf(itab[j])
                          \/ BlockOf(itab'[j]) = 0
                          \/ j = i /\ BlockOf(itab'[j]) = b /\ b \in bmap'
        /\ \A m \in Name \ {n} : entry'[m] = entry[m]
    BY CreatesIs
  <2>7. BlocksApart'
    <3>1. /\ \A j \in Ino : BlockOf(itab[j]) \in bmap \cup {0}
          /\ \A m \in Name : InMemory(m) \in bmap \cup {0}
          /\ \A j, k \in Ino : j # k => Apart(BlockOf(itab[j]), BlockOf(itab[k]))
          /\ \A m \in Name, j \in Ino : j # entry[m] => Apart(InMemory(m), BlockOf(itab[j]))
          /\ \A m, o \in Name : m # o => Apart(InMemory(m), InMemory(o))
      BY <1>4 DEF BlocksApart
    <3>2. \A j \in Ino : BlockOf(itab'[j]) \in bmap' \cup {0}
      BY <2>6, <3>1
    <3>3. \A m \in Name : InMemory(m)' \in bmap' \cup {0}
      BY <2>4, <2>5, <2>6, <3>1
    <3>4. \A j, k \in Ino : j # k => Apart(BlockOf(itab'[j]), BlockOf(itab'[k]))
      BY <2>6, <3>1 DEF Apart
    <3>5. \A m \in Name, j \in Ino : j # entry'[m] => Apart(InMemory(m)', BlockOf(itab'[j]))
      BY <2>4, <2>5, <2>6, <3>1 DEF Apart
    <3>6. \A m, o \in Name : m # o => Apart(InMemory(m)', InMemory(o)')
      BY <2>4, <2>5, <3>1 DEF Apart
    <3> QED
      BY <3>2, <3>3, <3>4, <3>5, <3>6 DEF BlocksApart
  <2> QED
    BY <2>2, <2>3, <2>7
<1>5. CASE ~care
  BY <1>1, <1>2, <1>3, <1>5 DEF NamesApart, BlocksApart
<1> QED
  BY <1>1, <1>2, <1>3, <1>4, <1>5

-----------------------------------------------------------------------------
(* A step of one name, whose inode is o: what is written to o or kept in    *)
(* memory was a block of that name or is one that nobody had; only a block *)
(* of that name is released.                                               *)

LEMMA OneNameStep ==
  ASSUME TypeOK, NamesApart, BlocksApart, care, care' = care,
         NEW n \in Name, NEW o \in Ino, entry[n] = o, NEW b, b \notin bmap,
         NEW p \in {0, InMemory(n), BlockOf(itab[o])},
         \A m \in Name \ {n} : entry'[m] = entry[m] /\ InMemory(m)' = InMemory(m),
         \A j \in Ino \ {o} : itab'[j] = itab[j],
         \A x \in {BlockOf(itab'[o]), InMemory(n)'} :
           x \in {0, InMemory(n), BlockOf(itab[o]), b} /\ x \in bmap' \cup {0},
         bmap \subseteq bmap' \cup {p},
         imap \subseteq imap' \cup {o},
         \/ entry'[n] = 0 /\ InMemory(n)' = 0
         \/ entry'[n] = o /\ o \in imap'
  PROVE  NamesApart' /\ BlocksApart' /\ Others(n)
<1>1. \A m \in Name \ {n} : entry[m] # o
  BY OpsAssumption DEF NamesApart
<1>2. NamesApart'
  <2> SUFFICES ASSUME NEW m \in Name, NEW k \in Name
               PROVE  /\ entry'[m] # 0 => entry'[m] \in imap'
                      /\ entry'[m] = entry'[k] /\ entry'[m] # 0 => m = k
    BY DEF NamesApart
  <2>1. /\ entry[m] # 0 => entry[m] \in imap
        /\ entry[m] = entry[k] /\ entry[m] # 0 => m = k
    BY DEF NamesApart
  <2> QED
    BY <1>1, <2>1
<1>3. Others(n)
  BY <1>1 DEF Others, TypeOK
<1>4. /\ \A j \in Ino : BlockOf(itab[j]) \in bmap \cup {0}
      /\ \A m \in Name : InMemory(m) \in bmap \cup {0}
      /\ \A j, k \in Ino : j # k => Apart(BlockOf(itab[j]), BlockOf(itab[k]))
      /\ \A m \in Name, j \in Ino : j # entry[m] => Apart(InMemory(m), BlockOf(itab[j]))
      /\ \A m, k \in Name : m # k => Apart(InMemory(m), InMemory(k))
  BY DEF BlocksApart
<1> DEFINE x == BlockOf(itab'[o])
           y == InMemory(n)'
           mine == {InMemory(n), BlockOf(itab[o])}
<1>5. /\ \A j \in Ino \ {o} : BlockOf(itab[j]) = 0 \/ (BlockOf(itab[j]) \notin mine /\ BlockOf(itab[j]) # b)
      /\ \A m \in Name \ {n} : InMemory(m) = 0 \/ (InMemory(m) \notin mine /\ InMemory(m) # b)
  BY <1>1, <1>4 DEF Apart
<1>6. BlocksApart'
  <2>1. \A j \in Ino : BlockOf(itab'[j]) \in bmap' \cup {0}
    BY <1>4, <1>5
  <2>2. \A m \in Name : InMemory(m)' \in bmap' \cup {0}
    BY <1>4, <1>5
  <2>3. \A j, k \in Ino : j # k => Apart(BlockOf(itab'[j]), BlockOf(itab'[k]))
    BY <1>4, <1>5 DEF Apart
  <2>4. \A m \in Name, j \in Ino : j # entry'[m] => Apart(InMemory(m)', BlockOf(itab'[j]))
    BY <1>4, <1>5 DEF Apart
  <2>5. \A m, k \in Name : m # k => Apart(InMemory(m)', InMemory(k)')
    BY <1>4, <1>5 DEF Apart
  <2> QED
    BY <2>1, <2>2, <2>3, <2>4, <2>5 DEF BlocksApart
<1> QED
  BY <1>2, <1>3, <1>6

\* Without care nothing is claimed but types.
LEMMA Careless ==
  ASSUME ~care'
  PROVE  NamesApart' /\ BlocksApart'
BY DEF NamesApart, BlocksApart

\* The memory of a name that a step leaves alone.
LEMMA MemoryStays ==
  ASSUME NEW m \in Name, node'[m] = node[m], entry'[m] = entry[m]
  PROVE  InMemory(m)' = InMemory(m)
BY DEF InMemory, Cached, Stale

-----------------------------------------------------------------------------
(* Files in use.                                                           *)

\* The first write to a file, ext2_vnode_write, keeps the invariant.
LEMMA WriteStep ==
  ASSUME IInv, NEW h \in Handle, vfs_write(h)
  PROVE  IInv' /\ (care' => \E n \in Name : Others(n))
<1> USE DEF IInv
<1>0. PICK n \in Name : n = open[h] /\ Cached(n)
  BY DEF vfs_write, TypeOK, Users
<1>1. n \in Name /\ Cached(n)
  BY <1>0
<1>2. PICK b \in Block \ bmap, w \in 0 .. Len(WriteOrder) :
         LET d == Done(WriteOrder, w)
         IN /\ bmap' = IF "block" \in d THEN bmap \cup {b} ELSE bmap
            /\ \E ptr \in (IF d = {} THEN {} ELSE {b})
                         \cup (IF "pointer" \in d THEN {} ELSE {node[n].ip.ptr}) :
                 node' = [node EXCEPT ![n].ip = Inode("REG", 1, ptr)]
            /\ itab' = IF "pointer" \in d
                       THEN [itab EXCEPT ![node[n].ino] = node'[n].ip] ELSE itab
  BY <1>0 DEF vfs_write
<1> DEFINE d == Done(WriteOrder, w)
<1>a. PICK old, o : old = node[n].ip.ptr /\ o = node[n].ino
  OBVIOUS
<1>3. PICK ptr \in (IF d = {} THEN {} ELSE {b}) \cup (IF "pointer" \in d THEN {} ELSE {old}) :
         node' = [node EXCEPT ![n].ip = Inode("REG", 1, ptr)]
  BY <1>2, <1>a
<1> DEFINE new == Inode("REG", 1, ptr)
<1>4. /\ n \in Name /\ o \in Ino /\ node[n] \in Node /\ node[n].ino = o
      /\ old \in Block \cup {0} \cup {t.no : t \in Text}
      /\ ~Stale(n) => entry[n] = o /\ InMemory(n) = old
      /\ entry[n] \in {0, o}
  BY <1>1, <1>a, NodeIs DEF Content
<1>5. /\ bmap \subseteq bmap' /\ bmap' \in SUBSET Block /\ b \notin bmap
      /\ ptr \in {old, b}
      /\ ptr = b => b \in bmap' \/ b = old
      /\ "pointer" \in d => ptr = b /\ b \in bmap'
  BY <1>2, <1>3, WriteWrites DEF TypeOK
<1>6. new \in Content /\ new.type = "REG" /\ BlockOf(new) = ptr
  BY <1>4, <1>5, InodeIs, OpsAssumption DEF Content, Type, Inode
<1> HIDE DEF new
<1>7. /\ node' \in [Name -> Node \cup {None}]
      /\ node'[n] = [ino |-> o, ip |-> new] /\ node'[n] # None
      /\ \A m \in Name \ {n} : node'[m] = node[m]
  <2>1. node'[n] = [node[n] EXCEPT !.ip = new] /\ \A m \in Name \ {n} : node'[m] = node[m]
    BY <1>1, <1>3 DEF TypeOK, new
  <2>2. [node[n] EXCEPT !.ip = new] = [ino |-> o, ip |-> new]
    BY <1>4 DEF Node
  <2>3. [ino |-> o, ip |-> new] \in Node
    BY <1>4, <1>6, <1>a DEF Node
  <2> QED
    BY <1>3, <2>1, <2>2, <2>3, NodeAssumption DEF TypeOK
<1>8. /\ itab' \in [Ino -> Content] /\ \A j \in Ino \ {o} : itab'[j] = itab[j]
      /\ itab'[o] = itab[o] \/ ("pointer" \in d /\ itab'[o] = new)
  BY <1>2, <1>4, <1>6, <1>7, <1>a DEF TypeOK
<1> HIDE DEF d
<1>9. UNCHANGED <<imap, entry, open, halt>> /\ care' = (care /\ ~Stale(n))
  BY <1>0 DEF vfs_write
<1>10. TypeOK'
  <2>1. \A m \in Name : Cached(m)' <=> Cached(m)
    BY <1>1, <1>7 DEF Cached
  <2>2. \A m \in Name : Users(m)' = Users(m)
    BY <1>9 DEF Users
  <2> QED
    BY <1>5, <1>7, <1>8, <1>9, <2>1, <2>2 DEF TypeOK
<1>11. NodeOfEntry'
  BY <1>4, <1>6, <1>7, <1>9 DEF NodeOfEntry, Cached
<1>12. ASSUME care'
       PROVE  NamesApart' /\ BlocksApart' /\ Others(n)
  <2>1. care /\ care' = care /\ ~Stale(n) /\ entry[n] = o /\ InMemory(n) = old
    BY <1>4, <1>9, <1>12
  <2>2. InMemory(n)' = ptr
    BY <1>4, <1>6, <1>7, <1>9, <2>1, OpsAssumption DEF InMemory, Cached, Stale
  <2>3. \A m \in Name \ {n} : InMemory(m)' = InMemory(m)
    BY <1>7, <1>9, MemoryStays
  <2>4. InMemory(n) \in bmap \cup {0} /\ BlockOf(itab[o]) \in bmap \cup {0}
        /\ entry[n] \in imap
    BY <1>4, <2>1, OpsAssumption DEF BlocksApart, NamesApart
  <2>5. \A x \in {BlockOf(itab'[o]), InMemory(n)'} :
           x \in {0, InMemory(n), BlockOf(itab[o]), b} /\ x \in bmap' \cup {0}
    BY <1>5, <1>6, <1>8, <2>1, <2>2, <2>4
  <2>6. /\ bmap \subseteq bmap' \cup {0} /\ imap \subseteq imap' \cup {o}
        /\ entry'[n] = o /\ o \in imap' /\ 0 \in {0, InMemory(n), BlockOf(itab[o])}
        /\ \A m \in Name \ {n} : entry'[m] = entry[m] /\ InMemory(m)' = InMemory(m)
    BY <1>5, <1>9, <2>1, <2>3, <2>4
  <2>7. \A j \in Ino \ {o} : itab'[j] = itab[j]
    BY <1>8
  <2> QED
    BY <1>4, <1>5, <2>1, <2>5, <2>6, <2>7, OneNameStep
<1> QED
  BY <1>4, <1>10, <1>11, <1>12, Careless

\* Writing the inode back, ext2_vnode_chmod, keeps the invariant.
LEMMA ChmodStep ==
  ASSUME IInv, NEW n \in Name, vfs_chmod(n)
  PROVE  IInv' /\ (care' => Others(n))
<1> USE DEF IInv
<1>a. PICK o, new : o = node[n].ino /\ new = node[n].ip
  OBVIOUS
<1>1. /\ o \in Ino /\ new \in Content /\ BlockOf(new) = new.ptr
      /\ ~Stale(n) => entry[n] = o /\ InMemory(n) = new.ptr
  BY <1>a, NodeIs DEF vfs_chmod
<1>2. /\ itab' \in [Ino -> Content] /\ itab'[o] = new
      /\ \A j \in Ino \ {o} : itab'[j] = itab[j]
  BY <1>1, <1>a DEF vfs_chmod, TypeOK
<1>3. UNCHANGED <<imap, bmap, entry, node, open, halt>> /\ care' = (care /\ ~Stale(n))
  BY DEF vfs_chmod
<1>4. TypeOK' /\ NodeOfEntry'
  BY <1>2, <1>3 DEF TypeOK, NodeOfEntry, Cached, Users
<1>5. ASSUME care'
      PROVE  NamesApart' /\ BlocksApart' /\ Others(n)
  <2>1. care /\ care' = care /\ ~Stale(n) /\ entry[n] = o /\ InMemory(n) = new.ptr
    BY <1>1, <1>3, <1>5
  <2>2. \A m \in Name : InMemory(m)' = InMemory(m)
    BY <1>3, MemoryStays
  <2>3. InMemory(n) \in bmap \cup {0} /\ entry[n] \in imap
    BY <1>1, <2>1, OpsAssumption DEF BlocksApart, NamesApart
  <2>4. PICK b : b \notin bmap
    BY OpsAssumption DEF TypeOK
  <2>5. \A x \in {BlockOf(itab'[o]), InMemory(n)'} :
           x \in {0, InMemory(n), BlockOf(itab[o]), b} /\ x \in bmap' \cup {0}
    BY <1>1, <1>2, <1>3, <2>1, <2>2, <2>3
  <2>6. /\ bmap \subseteq bmap' \cup {0} /\ imap \subseteq imap' \cup {o}
        /\ entry'[n] = o /\ o \in imap' /\ 0 \in {0, InMemory(n), BlockOf(itab[o])}
        /\ \A m \in Name \ {n} : entry'[m] = entry[m] /\ InMemory(m)' = InMemory(m)
    BY <1>3, <2>1, <2>2, <2>3
  <2>7. \A j \in Ino \ {o} : itab'[j] = itab[j]
    BY <1>2
  <2> QED
    BY <1>1, <2>1, <2>4, <2>5, <2>6, <2>7, OneNameStep
<1> QED
  BY <1>4, <1>5, Careless

\* vfs_open keeps the invariant: what it caches is what the entry leads to.
LEMMA OpenStep ==
  ASSUME IInv, NEW h \in Handle, NEW n \in Name, vfs_open(h, n)
  PROVE  IInv' /\ (care' => Others(n))
<1> USE DEF IInv
<1>a. PICK new : new = vfs_find(n)
  OBVIOUS
<1>1. /\ new \in Node /\ new # None /\ new.ip.type = "REG"
      /\ ~Stale(n) => entry[n] = new.ino
      /\ ~Cached(n) => new.ip = itab[entry[n]] /\ entry[n] \in Ino
      /\ Cached(n) => new = node[n]
  BY <1>a, NodeAssumption, FindIs DEF vfs_open, Typed
<1>2. /\ node' \in [Name -> Node \cup {None}] /\ node'[n] = new
      /\ \A m \in Name \ {n} : node'[m] = node[m]
      /\ open' \in [Handle -> Name \cup {None}] /\ open'[h] = n
      /\ \A k \in Handle \ {h} : open'[k] = open[k]
      /\ open[h] = None
  BY <1>1, <1>a DEF vfs_open, TypeOK
<1>3. UNCHANGED <<imap, bmap, entry, itab, care, halt>>
  BY DEF vfs_open
<1>4. TypeOK'
  <2>1. ASSUME NEW m \in Name
        PROVE  Cached(m)' <=> Users(m)' # {}
    <3>1. CASE m = n
      BY <1>1, <1>2, <3>1 DEF Cached, Users
    <3>2. CASE m # n
      <4>1. Users(m)' = Users(m)
        BY <1>2, <3>2, OpsAssumption DEF Users
      <4> QED
        BY <1>2, <3>2, <4>1 DEF TypeOK, Cached
    <3> QED
      BY <3>1, <3>2
  <2> QED
    BY <1>2, <1>3, <2>1 DEF TypeOK
<1>5. NodeOfEntry'
  <2> SUFFICES ASSUME NEW m \in Name, Cached(m)'
               PROVE  node'[m].ip.type = "REG" /\ entry'[m] \in {0, node'[m].ino}
    BY DEF NodeOfEntry
  <2>1. CASE m = n
    BY <1>1, <1>2, <1>3, <2>1 DEF Stale
  <2>2. CASE m # n
    BY <1>2, <1>3, <2>2 DEF Cached, NodeOfEntry
  <2> QED
    BY <2>1, <2>2
<1>6. ASSUME care'
      PROVE  NamesApart' /\ BlocksApart' /\ Others(n)
  <2>1. care /\ care' = care
    BY <1>3, <1>6
  <2>2. \A m \in Name \ {n} : InMemory(m)' = InMemory(m)
    BY <1>2, <1>3, MemoryStays
  <2>3. CASE entry[n] = 0
    <3>1. Cached(n)
      BY <1>1, <2>3, OpsAssumption
    <3>2. \A m \in Name : InMemory(m)' = InMemory(m)
      BY <1>1, <1>2, <1>3, <2>2, <3>1, MemoryStays
    <3> QED
      BY <1>3, <2>1, <3>2 DEF NamesApart, BlocksApart, Others
  <2>4. CASE entry[n] # 0
    <3>1. PICK o \in Ino : entry[n] = o
      BY <2>4 DEF TypeOK
    <3>2. PICK b : b \notin bmap
      BY OpsAssumption DEF TypeOK
    <3>3. InMemory(n)' \in {InMemory(n), BlockOf(itab[o])}
      <4>1. InMemory(n)' = BlockOf(new.ip)
        BY <1>1, <1>2, <1>3, <2>4 DEF InMemory, Cached, Stale
      <4>2. CASE Cached(n)
        BY <1>1, <2>4, <4>1, <4>2 DEF InMemory, Stale
      <4>3. CASE ~Cached(n)
        BY <1>1, <3>1, <4>1, <4>3
      <4> QED
        BY <4>2, <4>3
    <3>4. /\ InMemory(n) \in bmap \cup {0} /\ BlockOf(itab[o]) \in bmap \cup {0}
          /\ entry[n] \in imap
      BY <2>1, <2>4 DEF BlocksApart, NamesApart
    <3>5. \A x \in {BlockOf(itab'[o]), InMemory(n)'} :
             x \in {0, InMemory(n), BlockOf(itab[o]), b} /\ x \in bmap' \cup {0}
      BY <1>3, <3>3, <3>4
    <3>6. /\ bmap \subseteq bmap' \cup {0} /\ imap \subseteq imap' \cup {o}
          /\ entry'[n] = o /\ o \in imap' /\ 0 \in {0, InMemory(n), BlockOf(itab[o])}
          /\ \A m \in Name \ {n} : entry'[m] = entry[m] /\ InMemory(m)' = InMemory(m)
      BY <1>3, <2>2, <3>1, <3>4
    <3>7. \A j \in Ino \ {o} : itab'[j] = itab[j]
      BY <1>3
    <3> QED
      BY <2>1, <3>1, <3>2, <3>5, <3>6, <3>7, OneNameStep
  <2> QED
    BY <2>3, <2>4
<1> QED
  BY <1>4, <1>5, <1>6, Careless

\* What a step leaves on the device it may drop from memory.
LEMMA DropStep ==
  ASSUME IInv, TypeOK', UNCHANGED <<imap, bmap, entry, itab, care>>,
         \A m \in Name : node'[m] \in {None, node[m]}
  PROVE  IInv' /\ \E n \in Name : Others(n)
<1> USE DEF IInv
<1>1. NodeOfEntry'
  BY DEF NodeOfEntry, Cached
<1>2. \A m \in Name : InMemory(m)' \in {0, InMemory(m)}
  BY DEF InMemory, Cached, Stale
<1>3. NamesApart'
  BY DEF NamesApart
<1>4. BlocksApart'
  BY <1>2 DEF BlocksApart, Apart
<1>5. \E n \in Name : Others(n)
  BY OpsAssumption DEF Others
<1> QED
  BY <1>1, <1>3, <1>4, <1>5

\* vfs_close keeps the invariant: an inode leaves memory with its last handle.
LEMMA CloseStep ==
  ASSUME IInv, NEW h \in Handle, vfs_close(h)
  PROVE  IInv' /\ \E n \in Name : Others(n)
<1> USE DEF IInv
<1>1. PICK n \in Name : n = open[h]
  BY DEF vfs_close, TypeOK
<1>2. /\ open' = [open EXCEPT ![h] = None]
      /\ node' = IF Users(n) = {h} THEN [node EXCEPT ![n] = None] ELSE node
      /\ UNCHANGED <<imap, bmap, entry, itab, care, halt>>
  BY <1>1 DEF vfs_close
<1>3. \A m \in Name : node'[m] = IF m = n /\ Users(n) = {h} THEN None ELSE node[m]
  BY <1>2 DEF TypeOK
<1>4. \A m \in Name : Users(m)' = Users(m) \ {h}
  BY <1>2, OpsAssumption DEF Users, TypeOK
<1>5. ASSUME NEW m \in Name
      PROVE  Cached(m)' <=> Users(m)' # {}
  <2>1. h \in Users(m) <=> m = n
    BY <1>1 DEF Users
  <2>2. Cached(m) <=> Users(m) # {}
    BY DEF TypeOK
  <2>3. Cached(m)' <=> Cached(m) /\ ~(m = n /\ Users(n) = {h})
    BY <1>3 DEF Cached
  <2> QED
    BY <1>4, <2>1, <2>2, <2>3
<1>6. /\ open' \in [Handle -> Name \cup {None}]
      /\ node' \in [Name -> Node \cup {None}]
  BY <1>2 DEF TypeOK
<1>7. TypeOK'
  BY <1>2, <1>5, <1>6 DEF TypeOK
<1> QED
  BY <1>2, <1>3, <1>7, DropStep

\* A restart keeps the invariant: what is on the device is apart by itself.
LEMMA MountStep ==
  ASSUME IInv, ext2_fs_mount
  PROVE  IInv' /\ \E n \in Name : Others(n)
<1>1. TypeOK'
  BY OpsAssumption DEF ext2_fs_mount, IInv, TypeOK, Cached, Users
<1> QED
  BY <1>1, DropStep DEF ext2_fs_mount

-----------------------------------------------------------------------------
(* Removing.                                                               *)

\* What is left in memory is a file of the same type.
LEMMA LeftIs ==
  ASSUME NEW ip \in Content, NEW d, NEW left \in Left(ip, d)
  PROVE  /\ left \in Content /\ left.type = ip.type
         /\ left.ptr = ip.ptr \/ ("block" \in d /\ left.ptr = 0)
         /\ "pointer" \in d /\ nblocks(ip) # 0 => left.ptr = 0
BY OpsAssumption DEF Left, Content, Inode

\* What a removal, whole or cut short, does to the name and its inode.
LEMMA UnlinkIs ==
  ASSUME TypeOK, NodeOfEntry, NEW n \in Name, NEW ino \in Ino, NEW ip \in Content,
         NEW w \in 0 .. Len(UnlinkOrder(ip)), Unlink(n, ino, ip, w),
         Cached(n) => node[n].ip = ip
  PROVE  LET d == Done(UnlinkOrder(ip), w)
         IN /\ imap' \in SUBSET Ino /\ imap \subseteq imap' \cup {ino}
            /\ "inode" \notin d => imap' = imap
            /\ bmap' \in SUBSET Block
            /\ bmap' = IF "block" \in d THEN bmap \ {ip.ptr} ELSE bmap
            /\ entry' \in [Name -> Ino \cup {0}]
            /\ \A m \in Name \ {n} : entry'[m] = entry[m]
            /\ entry'[n] = IF "entry" \in d THEN 0 ELSE entry[n]
            /\ itab' \in [Ino -> Content]
            /\ \A j \in Ino \ {ino} : itab'[j] = itab[j]
            /\ itab'[ino] = IF "pointer" \in d THEN Inode(ip.type, 0, 0) ELSE itab[ino]
            /\ node' \in [Name -> Node \cup {None}]
            /\ \A m \in Name \ {n} : node'[m] = node[m]
            /\ Cached(n) => /\ node'[n] # None /\ node'[n].ino = node[n].ino
                            /\ node'[n].ip \in Left(ip, d)
                            /\ node'[n].ip.type = "REG"
            /\ ~Cached(n) => node'[n] = None
            /\ care' = (care /\ Careful(n, ip, d))
            /\ halt' \in {"assert", "run"}
<1> DEFINE d == Done(UnlinkOrder(ip), w)
           gone == Inode(ip.type, 0, 0)
<1>1. gone \in Content
  BY OpsAssumption DEF Content, Inode
<1> HIDE DEF gone
<1>2. /\ imap' = IF "inode" \in d THEN imap \ {ino} ELSE imap
      /\ bmap' = IF "block" \in d THEN bmap \ {ip.ptr} ELSE bmap
      /\ entry' = IF "entry" \in d THEN [entry EXCEPT ![n] = 0] ELSE entry
      /\ itab' = IF "pointer" \in d THEN [itab EXCEPT ![ino] = gone] ELSE itab
      /\ care' = (care /\ Careful(n, ip, d))
      /\ halt' \in {"assert", "run"}
      /\ IF Users(n) = {} THEN UNCHANGED node
         ELSE \E left \in Left(ip, d) : node' = [node EXCEPT ![n].ip = left]
  BY DEF Unlink, gone
<1> HIDE DEF d
<1>3. /\ imap' \in SUBSET Ino /\ imap \subseteq imap' \cup {ino}
      /\ "inode" \notin d => imap' = imap
      /\ bmap' \in SUBSET Block
  BY <1>2 DEF TypeOK
<1>4. /\ entry' \in [Name -> Ino \cup {0}]
      /\ \A m \in Name \ {n} : entry'[m] = entry[m]
      /\ entry'[n] = IF "entry" \in d THEN 0 ELSE entry[n]
  BY <1>2 DEF TypeOK
<1>5. /\ itab' \in [Ino -> Content]
      /\ \A j \in Ino \ {ino} : itab'[j] = itab[j]
      /\ itab'[ino] = IF "pointer" \in d THEN gone ELSE itab[ino]
  BY <1>1, <1>2 DEF TypeOK
<1>6. /\ node' \in [Name -> Node \cup {None}]
      /\ \A m \in Name \ {n} : node'[m] = node[m]
      /\ Cached(n) => /\ node'[n] # None /\ node'[n].ino = node[n].ino
                      /\ node'[n].ip \in Left(ip, d)
                      /\ node'[n].ip.type = "REG"
      /\ ~Cached(n) => node'[n] = None
  <2>1. CASE ~Cached(n)
    BY <1>2, <2>1 DEF TypeOK, Cached
  <2>2. CASE Cached(n)
    <3>1. Users(n) # {}
      BY <2>2 DEF TypeOK
    <3>2. PICK left \in Left(ip, d) : node' = [node EXCEPT ![n].ip = left]
      BY <1>2, <3>1
    <3>3. left \in Content /\ left.type = "REG"
      BY <2>2, LeftIs, NodeIs
    <3>4. node[n] \in Node /\ node[n].ino \in Ino
      BY <2>2, NodeIs
    <3>5. node'[n] = [node[n] EXCEPT !.ip = left] /\ \A m \in Name \ {n} : node'[m] = node[m]
      BY <3>2 DEF TypeOK
    <3>6. node'[n] \in Node /\ node'[n].ip = left /\ node'[n].ino = node[n].ino
      BY <3>3, <3>4, <3>5 DEF Node
    <3> QED
      BY <2>2, <3>2, <3>3, <3>5, <3>6, NodeAssumption DEF TypeOK
  <2> QED
    BY <2>1, <2>2
<1> QED
  BY <1>2, <1>3, <1>4, <1>5, <1>6 DEF d, gone

\* A block is released by the name that has it; outside the windows nothing
\* points to it afterwards.
LEMMA UnlinkStep ==
  ASSUME IInv, NEW n \in Name, vfs_unlink(n)
  PROVE  IInv' /\ (care' => \E m \in Name : Others(m))
<1> USE DEF IInv
<1>a. PICK v : v = vfs_find(n)
  OBVIOUS
<1>b. PICK ino, ip : ino = v.ino /\ ip = v.ip
  OBVIOUS
<1>1. /\ ino \in Ino /\ ip \in Content
      /\ ~Stale(n) => entry[n] = ino
      /\ Cached(n) => ip = node[n].ip /\ ino = node[n].ino
      /\ ~Cached(n) => ip = itab[entry[n]]
  BY <1>a, <1>b, FindIs DEF vfs_unlink, Typed
<1>2. CASE UNCHANGED <<imap, bmap, entry, itab, node, care, open>>
           /\ halt' \in {"assert", "stray"}
  <2>1. TypeOK'
    BY <1>2 DEF TypeOK, Cached, Users
  <2> QED
    BY <1>2, <2>1, DropStep
<1>3. CASE /\ ~Misses(ip) /\ UNCHANGED open
           /\ \E w \in 0 .. Len(UnlinkOrder(ip)) : Unlink(n, ino, ip, w)
  <2> PICK w \in 0 .. Len(UnlinkOrder(ip)) : Unlink(n, ino, ip, w)
    BY <1>3
  <2>a. PICK d : d = Done(UnlinkOrder(ip), w)
    OBVIOUS
  <2>1. /\ imap' \in SUBSET Ino /\ imap \subseteq imap' \cup {ino}
        /\ "inode" \notin d => imap' = imap
        /\ bmap' \in SUBSET Block
        /\ bmap' = IF "block" \in d THEN bmap \ {ip.ptr} ELSE bmap
        /\ entry' \in [Name -> Ino \cup {0}]
        /\ \A m \in Name \ {n} : entry'[m] = entry[m]
        /\ entry'[n] = IF "entry" \in d THEN 0 ELSE entry[n]
        /\ itab' \in [Ino -> Content]
        /\ \A j \in Ino \ {ino} : itab'[j] = itab[j]
        /\ itab'[ino] = IF "pointer" \in d THEN Inode(ip.type, 0, 0) ELSE itab[ino]
        /\ node' \in [Name -> Node \cup {None}]
        /\ \A m \in Name \ {n} : node'[m] = node[m]
        /\ Cached(n) => /\ node'[n] # None /\ node'[n].ino = node[n].ino
                        /\ node'[n].ip \in Left(ip, d)
                        /\ node'[n].ip.type = "REG"
        /\ ~Cached(n) => node'[n] = None
        /\ care' = (care /\ Careful(n, ip, d))
        /\ halt' \in {"assert", "run"}
    BY <1>1, <2>a, UnlinkIs
  <2>2. ("block" \in d => nblocks(ip) # 0) /\ ("pointer" \in d => "block" \in d)
    BY <2>a, UnlinkWrites
  <2>3. TypeOK'
    <3>1. \A m \in Name : (Cached(m)' <=> Cached(m)) /\ Users(m)' = Users(m)
      BY <1>3, <2>1 DEF Cached, Users
    <3>2. care' \in BOOLEAN
      BY <2>1 DEF TypeOK, Careful, InWindow
    <3> QED
      BY <1>3, <2>1, <3>1, <3>2 DEF TypeOK
  <2>4. NodeOfEntry'
    <3> SUFFICES ASSUME NEW m \in Name, Cached(m)'
                 PROVE  node'[m].ip.type = "REG" /\ entry'[m] \in {0, node'[m].ino}
      BY DEF NodeOfEntry
    <3>1. Cached(m) /\ node[m].ip.type = "REG" /\ entry[m] \in {0, node[m].ino}
      BY <2>1 DEF NodeOfEntry, Cached
    <3> QED
      BY <2>1, <3>1
  <2>5. ASSUME care'
        PROVE  NamesApart' /\ BlocksApart' /\ Others(n)
    <3>1. /\ care /\ care' = care /\ ~Stale(n) /\ ~InWindow(d)
          /\ ~("block" \in d /\ Short(ip)) /\ entry[n] = ino
      BY <1>1, <2>1, <2>5 DEF Careful
    <3>2. \A m \in Name \ {n} : InMemory(m)' = InMemory(m)
      BY <2>1, MemoryStays
    <3>3. ino \in imap /\ InMemory(n) \in bmap \cup {0} /\ BlockOf(itab[ino]) \in bmap \cup {0}
      BY <1>1, <3>1, OpsAssumption DEF NamesApart, BlocksApart
    <3>4. BlockOf(ip) \in {InMemory(n), BlockOf(itab[ino])}
      BY <1>1, <3>1 DEF InMemory
    <3>5. PICK b : b \notin bmap
      BY OpsAssumption DEF TypeOK
    <3>6. "inode" \in d => "entry" \in d
      BY <3>1 DEF InWindow
    <3>7. "block" \in d => "pointer" \in d /\ BlockOf(ip) = ip.ptr
      BY <3>1 DEF InWindow, BlockOf
    <3>8. Cached(n) => /\ BlockOf(node'[n].ip) = node'[n].ip.ptr
                       /\ InMemory(n)' \in {0, BlockOf(node'[n].ip)}
                       /\ InMemory(n) = ip.ptr
      <4>1. Cached(n) => ip.type = "REG"
        BY <1>1, NodeIs
      <4> QED
        BY <1>1, <2>1, <3>1, <4>1 DEF InMemory, BlockOf, Short, Cached, Stale
    <3>9. ~Cached(n) => InMemory(n)' = 0
      BY <2>1 DEF InMemory, Cached
    <3>10. InMemory(n)' \in {0, InMemory(n)} /\ ("block" \in d => InMemory(n)' = 0)
      <4>1. CASE ~Cached(n)
        BY <3>9, <4>1
      <4>2. CASE Cached(n)
        <5>1. /\ node'[n].ip.ptr \in {0, ip.ptr}
              /\ "pointer" \in d => node'[n].ip.ptr = 0
          BY <1>1, <2>1, <2>2, <4>2, LeftIs
        <5> QED
          BY <3>7, <3>8, <4>2, <5>1
      <4> QED
        BY <4>1, <4>2
    <3>11. BlockOf(itab'[ino]) = IF "pointer" \in d THEN 0 ELSE BlockOf(itab[ino])
      BY <2>1, InodeIs
    <3>12. \/ entry'[n] = 0 /\ InMemory(n)' = 0
           \/ entry'[n] = ino /\ ino \in imap'
      <4>1. CASE "entry" \in d
        <5>1. entry'[n] = 0
          BY <2>1, <4>1
        <5>2. InMemory(n)' = 0
          BY <5>1 DEF InMemory, Stale
        <5> QED
          BY <5>1, <5>2
      <4>2. CASE "entry" \notin d
        BY <2>1, <3>1, <3>3, <3>6, <4>2
      <4> QED
        BY <4>1, <4>2
    <3>13. PICK p : p = IF "block" \in d THEN ip.ptr ELSE 0
      OBVIOUS
    <3>14. /\ p \in {0, InMemory(n), BlockOf(itab[ino])}
           /\ bmap \subseteq bmap' \cup {p}
      BY <2>1, <3>4, <3>7, <3>13
    <3>15. \A x \in {BlockOf(itab'[ino]), InMemory(n)'} :
              x \in {0, InMemory(n), BlockOf(itab[ino]), b} /\ x \in bmap' \cup {0}
      <4>1. CASE "block" \in d
        BY <3>7, <3>10, <3>11, <4>1
      <4>2. CASE "block" \notin d
        BY <2>1, <2>2, <3>3, <3>10, <3>11, <4>2
      <4> QED
        BY <4>1, <4>2
    <3>16. \A m \in Name \ {n} : entry'[m] = entry[m] /\ InMemory(m)' = InMemory(m)
      BY <2>1, <3>2
    <3>17. \A j \in Ino \ {ino} : itab'[j] = itab[j]
      BY <2>1
    <3>18. imap \subseteq imap' \cup {ino}
      BY <2>1
    <3> QED
      BY <1>1, <3>1, <3>5, <3>12, <3>14, <3>15, <3>16, <3>17, <3>18, OneNameStep
  <2> QED
    BY <2>3, <2>4, <2>5, Careless
<1> QED
  <2>1. \/ /\ Misses(ip) /\ UNCHANGED open
           /\ halt' \in {"assert", "stray"}
           /\ UNCHANGED <<imap, bmap, entry, itab, node, care>>
        \/ /\ ~Misses(ip) /\ UNCHANGED open
           /\ \E w \in 0 .. Len(UnlinkOrder(ip)) : Unlink(n, ino, ip, w)
    BY <1>a, <1>b DEF vfs_unlink
  <2> QED
    BY <1>2, <1>3, <2>1

-----------------------------------------------------------------------------
(* Everything together.                                                    *)

\* An empty device is safe.
LEMMA InitInv == Init => IInv
<1> SUFFICES ASSUME Init
             PROVE  IInv
  OBVIOUS
<1>1. Unused \in Content /\ BlockOf(Unused) = 0
  BY InodeIs, OpsAssumption DEF Unused, Content, Type, Inode
<1>2. TypeOK
  <2>1. \A n \in Name : ~Cached(n) /\ Users(n) = {}
    BY OpsAssumption DEF Init, Cached, Users
  <2> QED
    BY <1>1, <2>1 DEF Init, TypeOK
<1>3. \A n \in Name : InMemory(n) = 0
  BY DEF Init, InMemory, Cached
<1> QED
  BY <1>1, <1>2, <1>3 DEF Init, IInv, NodeOfEntry, Cached, NamesApart, BlocksApart, Apart

\* Every call, however far it comes, keeps the invariant and changes one name.
LEMMA NextInv ==
  ASSUME IInv, Next
  PROVE  IInv' /\ (care' => \E n \in Name : Others(n))
<1>1. CASE \E n \in Name : ext2_inode_type(n)
  <2>1. UNCHANGED <<imap, bmap, entry, itab, node, open, care>> /\ halt' = "abort"
    BY <1>1 DEF ext2_inode_type
  <2>2. TypeOK'
    BY <2>1 DEF IInv, TypeOK, Cached, Users
  <2> QED
    BY <2>1, <2>2, DropStep
<1>2. CASE \E n \in Name : ext2_vnode_mkdir(n)
  BY <1>2, MkdirCreates, CreatesStep DEF IInv
<1>3. CASE \E n \in Name : vfs_chmod(n)
  BY <1>3, ChmodStep
<1>4. CASE \E n \in Name : vfs_unlink(n)
  BY <1>4, UnlinkStep
<1>5. CASE \E n \in Name : \E t \in Text : ext2_vnode_symlink(n, t)
  BY <1>5, LinkCreates, CreatesStep DEF IInv
<1>6. CASE \E n \in Name : \E h \in Handle : ext2_vnode_creat(h, n)
  BY <1>6, CreatCreates, CreatesStep DEF IInv
<1>7. CASE \E n \in Name : \E h \in Handle : vfs_open(h, n)
  BY <1>7, OpenStep
<1>8. CASE \E h \in Handle : vfs_close(h)
  BY <1>8, CloseStep
<1>9. CASE \E h \in Handle : vfs_write(h)
  BY <1>9, WriteStep
<1>10. CASE ext2_fs_mount
  BY <1>10, MountStep
<1> QED
  BY <1>1, <1>2, <1>3, <1>4, <1>5, <1>6, <1>7, <1>8, <1>9, <1>10 DEF Next

\* The invariant holds however the calls follow one another and are cut short.
THEOREM OpsInvariant == Spec => []IInv
<1>1. IInv /\ UNCHANGED vars => IInv'
  BY DEF vars, IInv, TypeOK, NodeOfEntry, NamesApart, BlocksApart, Cached, Users,
         InMemory, Stale, Apart
<1> QED
  BY <1>1, InitInv, NextInv, PTL DEF Spec

\* What is kept in memory belongs to the open files, whatever happens.
THEOREM OpsTypeOK == Spec => []TypeOK
<1>1. IInv => TypeOK
  BY DEF IInv
<1> QED
  BY <1>1, OpsInvariant, PTL

\* Outside the windows of unlink names never share an inode, and have marked ones.
THEOREM OpsNamesApart == Spec => []NamesApart
<1>1. IInv => NamesApart
  BY DEF IInv
<1> QED
  BY <1>1, OpsInvariant, PTL

\* Nor do inodes share a block, on the device or in memory, and theirs are marked.
THEOREM OpsBlocksApart == Spec => []BlocksApart
<1>1. IInv => BlocksApart
  BY DEF IInv
<1> QED
  BY <1>1, OpsInvariant, PTL

\* And a call changes what one name shows.
THEOREM OpsOneNameChanges == Spec => OneNameChanges
<1>1. IInv /\ [Next]_vars =>
        [care' =>
           \E n \in Name : \A m \in Name \ {n} :
             /\ entry'[m] = entry[m]
             /\ entry[m] # 0 => itab'[entry[m]] = itab[entry[m]]]_vars
  BY NextInv DEF Others
<1> QED
  BY <1>1, OpsInvariant, PTL DEF Spec, OneNameChanges
=============================================================================
