------------------------------ MODULE Ext2File ------------------------------
(***************************************************************************)
(* One regular file of ext2: its inode in memory and on the device, its    *)
(* blocks, and the positions of those who have it open (read, write and    *)
(* truncate in src/ext2/ext2vnop.c, the block pointers in                  *)
(* src/ext2/ext2alloc.c and src/ext2/ext2blk.c, vfs_read and vfs_open_node *)
(* in src/vfs.c).                                                          *)
(*                                                                         *)
(* Which block the allocator gives is left open, and a call may fail at    *)
(* each access to the device.  Ext2Alloc has the allocator.                *)
(***************************************************************************)
EXTENDS Integers, Sequences

CONSTANTS
  Block,      \* numbers of the blocks that may be allocated
  BlockSize,  \* block_size
  NDirect,    \* 12, the direct block pointers of an inode
  Word,       \* 2^32: size_lower is unsigned
  Byte,       \* what is written
  Junk,       \* what a block holds that nobody wrote
  Payload,    \* the sequences of bytes a call writes
  Count,      \* how much a call asks to read
  Length,     \* the lengths a file is truncated to
  Handle,     \* open files
  MaxSize     \* bound: files grow no further, and no read goes further

ASSUME FileAssumption ==
  /\ 0 \notin Block /\ BlockSize \in Nat \ {0} /\ NDirect \in Nat \ {0}
  /\ Payload \subseteq Seq(Byte) /\ Count \subseteq Nat /\ Length \subseteq Nat
  /\ MaxSize \in Nat /\ Word \in Nat \ {0} /\ MaxSize < Word

Index == 0 .. NDirect - 1
Offset == 0 .. BlockSize - 1

VARIABLES
  inode,   \* size_lower and direct_blocks, in memory
  stored,  \* the same on the device
  data,    \* the content of the blocks, as long as sound
  free,    \* the blocks that are not marked
  pos,     \* per open file, its position
  torn,    \* history: the blocks of which a release failed half way
  sound,   \* history: every call was one the code supports, and none of its
           \* accesses failed, but for the one whose failure write ignores
  halt     \* "run"; "abort" and "assert" end the program

vars == <<inode, stored, data, free, pos, torn, sound, halt>>

MIN(x, y) == IF x > y THEN y ELSE x
MAX(x, y) == IF x > y THEN x ELSE y

\* The blocks that a size counts.
Blocks(n) == (n + BlockSize - 1) \div BlockSize

\* Where a position is.
block_number(p) == p \div BlockSize
pos_in_block(p) == p % BlockSize

\* Behind the direct pointers of these files is no indirect block.
BlockAt(i) == IF i \in Index THEN inode.ptr[i] ELSE 0

\* Mutant: the pointers are written, not the size.
ext2_write_inode_Ptr == stored' = [inode' EXCEPT !.size = stored.size]

\* The inode goes to the device.
ext2_write_inode == stored' = inode'

-----------------------------------------------------------------------------
(* Reading.                                                                *)

\* How much a read returns: behind the end the difference wraps around, and
\* leaves count.
nread(p, count) == IF p > inode.size THEN count ELSE MIN(inode.size - p, count)

\* The blocks are counted from the number of bytes, not from where they are.
Touched(p, n) == block_number(p) .. block_number(p) + Blocks(n) - 1

Fails(p, n) == \E i \in Touched(p, n) : BlockAt(i) = 0

\* Mutant: every block is copied from its beginning.
ext2_vnode_read_Start(p, n) ==
  [k \in 1 .. n |-> data[BlockAt(block_number(p) + block_number(k - 1))][pos_in_block(k - 1)]]

\* What the buffer of the caller holds afterwards: the first block is copied
\* from the position to its end, each other one to a multiple of the block
\* size in the buffer.
ext2_vnode_read(p, n) ==
  LET first == MIN(BlockSize - pos_in_block(p), n)
      From(i) == data[BlockAt(block_number(p) + i)]
  IN [k \in 1 .. n |->
        LET i == block_number(k - 1)
        IN IF k <= first THEN From(0)[pos_in_block(p) + k - 1]
           ELSE IF i = 0 THEN Junk
           ELSE From(i)[pos_in_block(k - 1)]]

\* The position goes on by what was read.
vfs_read(h, count) ==
  LET n == nread(pos[h], count)
  IN /\ halt = "run"
     /\ n > 0 /\ ~Fails(pos[h], n)
     /\ pos[h] + n <= MaxSize
     /\ pos' = [pos EXCEPT ![h] = @ + n]
     /\ UNCHANGED <<inode, stored, data, free, torn, sound, halt>>

-----------------------------------------------------------------------------
(* Writing.                                                                *)

\* can_write: what is left in the last block.
Spare == Blocks(inode.size) * BlockSize - inode.size

\* The writes that the code gets right: at the end of the file, or, where the
\* last block has something left, in it or within another one.
Supported(p, c) ==
  \/ p = inode.size
  \/ /\ Spare > 0
     /\ pos_in_block(p) + c <= BlockSize \/ block_number(p) = block_number(inode.size)

Patch(block, o, s) ==
  [k \in Offset |-> IF k \in o .. o + Len(s) - 1 THEN s[k - o + 1] ELSE block[k]]

Sized(ip, n) == [ip EXCEPT !.size = n]

\* The content of the blocks has no influence on what a call does: it is
\* followed only as long as the file is sound, in the blocks that are in use.
Blank == [k \in Offset |-> Junk]
Followed(content) ==
  data' = [b \in Block |-> IF sound' /\ b \notin free' THEN content[b] ELSE Blank]

\* Mutant: a size that stays where the first part ended.
Grown_Not(ip, n) == ip

\* The size is raised before the block is allocated.
Grown(ip, n) == Sized(ip, ip.size + n)

\* Mutant: the pointer is stored without marking the block.
ext2_inode_alloc_block_Unmarked(ip, i, b) ==
  /\ inode' = [ip EXCEPT !.ptr[i] = b]
  /\ free' = free

\* The pointer is set whatever it was.
ext2_inode_alloc_block(ip, i, b) ==
  /\ inode' = [ip EXCEPT !.ptr[i] = b]
  /\ free' = free \ {b}

\* A write ends short.
Break(h, at, content) ==
  /\ pos' = [pos EXCEPT ![h] = at]
  /\ sound' = FALSE
  /\ Followed(content)

\* The second part: what is left goes to a block of its own, the i-th; a block
\* that would be filled ends the program, and so does one too many.
\* at, ip and content: position, inode and blocks after the first part.
WriteNew(h, s, i, at, ip, content, good) ==
  LET grown == Grown(ip, MIN(Len(s), BlockSize))
  IN /\ grown.size <= MaxSize
     /\ torn' = torn
     /\ \/ /\ i >= NDirect
           /\ inode' = grown /\ halt' = "abort" /\ Break(h, at, content)
           /\ UNCHANGED <<stored, free>>
        \/ /\ i < NDirect   \* no block, or it was marked and is lost
           /\ inode' = grown /\ Break(h, at, content)
           /\ free' \in {free} \cup {free \ {b} : b \in free}
           /\ UNCHANGED <<stored, halt>>
        \/ /\ i < NDirect
           /\ \E b \in free :
                /\ ext2_inode_alloc_block(grown, i, b)
                /\ \/ /\ stored' = stored /\ Break(h, at, content)  \* no inode written
                      /\ UNCHANGED halt
                   \/ /\ ext2_write_inode /\ Break(h, at, content)  \* or no block
                      /\ halt' = IF Len(s) >= BlockSize THEN "abort" ELSE "run"
                   \/ /\ ext2_write_inode /\ Len(s) < BlockSize
                      /\ pos' = [pos EXCEPT ![h] = at + Len(s)]
                      /\ sound' = (sound /\ good)
                      /\ Followed([content EXCEPT ![b] = Patch(Blank, 0, s)])
                      /\ UNCHANGED halt

\* The first part goes to the block of the position if the last block has
\* something left; when that block cannot be read or written, everything goes
\* to the block after it.  The call returns the whole count in that case too,
\* and also when it has no second part and the inode could not be written.
vfs_write(h, s) ==
  LET p == pos[h]
      i == block_number(p)
      n == IF Spare = 0 THEN 0 ELSE MIN(Len(s), BlockSize - pos_in_block(p))
  IN /\ halt = "run" /\ p <= inode.size
     /\ \/ /\ n = BlockSize
           /\ halt' = "abort" /\ sound' = FALSE
           /\ UNCHANGED <<inode, stored, free, pos, torn>>
           /\ Followed(data)
        \/ /\ n # BlockSize
           /\ \E done \in IF BlockAt(i) = 0 THEN {0} ELSE {0, n} :
                LET ip == Sized(inode, MAX(p + done, inode.size))
                    content == IF done = 0 THEN data
                               ELSE [data EXCEPT ![BlockAt(i)] = Patch(@, pos_in_block(p), SubSeq(s, 1, n))]
                    rest == SubSeq(s, done + 1, Len(s))
                    good == done = n /\ Supported(p, Len(s))
                IN \/ /\ done = Len(s) /\ ip.size <= MaxSize
                      /\ inode' = ip /\ (ext2_write_inode \/ stored' = stored)
                      /\ pos' = [pos EXCEPT ![h] = p + done]
                      /\ sound' = (sound /\ good)
                      /\ UNCHANGED <<free, torn, halt>>
                      /\ Followed(content)
                   \/ /\ done < Len(s)
                      /\ WriteNew(h, rest, IF Spare = 0 THEN i ELSE i + 1, p + done, ip, content, good)

-----------------------------------------------------------------------------
(* Truncating.                                                             *)

\* Mutant: the whole difference is taken off at once.
Without_All(m, k) ==
  [size |-> (inode.size - (Blocks(inode.size) - m) * BlockSize) % Word,
   ptr |-> [i \in Index |-> IF i \in m .. k - 1 THEN 0 ELSE inode.ptr[i]]]

\* Mutant: the pointers stay.
Without_KeepPtr(m, k) ==
  [size |-> (inode.size - (k - m) * BlockSize) % Word, ptr |-> inode.ptr]

\* The inode when the blocks from index m up to before index k are gone; the
\* size is that of the loop, less by whole blocks.
Without(m, k) ==
  [size |-> (inode.size - (k - m) * BlockSize) % Word,
   ptr |-> [i \in Index |-> IF i \in m .. k - 1 THEN 0 ELSE inode.ptr[i]]]

Gone(m, k) == {inode.ptr[i] : i \in m .. k - 1}

\* The block at index i can be released when those from m on are: the index is
\* one of the inode, and the pointer is of a marked block.
Present(m, i) == BlockAt(i) \notin {0} \cup free \cup Gone(m, i)

\* All blocks from index m up to before k go.  The inode is written with each
\* of them, and once more unless that left the size at length already.
FreesAll(m, k, length, ok) ==
  LET left == Without(m, k)
  IN /\ inode' = Sized(left, length)
     /\ free' = free \cup Gone(m, k)
     /\ \/ ok /\ ext2_write_inode /\ UNCHANGED sound
        \/ ~ok /\ left # inode' /\ stored' = left /\ sound' = FALSE
     /\ UNCHANGED <<torn, halt>>

\* An access fails at index k: before the bitmap is written, after that (the
\* block is unmarked and the inode keeps its pointer), or when the inode is to
\* be written (the pointer is gone from the memory only).
FailsAt(m, k) ==
  LET left == Without(m, k)
  IN /\ BlockAt(k) # 0
     /\ \/ inode' = left /\ free' = free \cup Gone(m, k) /\ UNCHANGED torn
        \/ /\ Present(m, k)
           /\ inode' = left /\ free' = free \cup Gone(m, k + 1)
           /\ torn' = torn \cup {inode.ptr[k]}
        \/ /\ Present(m, k)
           /\ inode' = [left EXCEPT !.ptr[k] = 0] /\ free' = free \cup Gone(m, k + 1)
           /\ UNCHANGED torn
     /\ stored' = IF k = m THEN stored ELSE left
     /\ sound' = FALSE
     /\ UNCHANGED halt

\* There is nothing to release at index k.
Missing(m, k) ==
  LET left == Without(m, k)
  IN /\ ~Present(m, k)
     /\ inode' = left /\ free' = free \cup Gone(m, k)
     /\ halt' = IF k \in Index THEN "assert" ELSE "abort"
     /\ stored' = IF k = m THEN stored ELSE left
     /\ sound' = FALSE
     /\ UNCHANGED torn

\* Frees the blocks from the first that is not needed on; refuses to keep or to
\* raise their number, except for the size there is.
Truncate(length, ok) ==
  LET now == Blocks(length)
      was == Blocks(inode.size)
  IN \/ /\ length = inode.size \/ now >= was
        /\ ok = (length = inode.size)
        /\ UNCHANGED <<inode, stored, data, free, torn, sound, halt>>
     \/ /\ now < was
        /\ \E k \in now .. was :
             /\ \A i \in now .. k - 1 : Present(now, i)
             /\ \/ k = was /\ FreesAll(now, was, length, ok)
                \/ k < was /\ ~ok /\ (FailsAt(now, k) \/ Missing(now, k))
        /\ Followed(data)

vfs_truncate(h, length) ==
  /\ halt = "run"
  /\ \E ok \in BOOLEAN : Truncate(length, ok)
  /\ UNCHANGED pos

\* Opening, with or without O_TRUNC.
vfs_open_node(h, trunc) ==
  /\ halt = "run"
  /\ \/ /\ ~trunc
        /\ pos' = [pos EXCEPT ![h] = 0]
        /\ UNCHANGED <<inode, stored, data, free, torn, sound, halt>>
     \/ /\ trunc
        /\ \E ok \in BOOLEAN :
             /\ Truncate(0, ok)
             /\ pos' = IF ok THEN [pos EXCEPT ![h] = 0] ELSE pos

-----------------------------------------------------------------------------

\* A new file.
Init ==
  /\ inode = [size |-> 0, ptr |-> [i \in Index |-> 0]]
  /\ stored = inode
  /\ data = [b \in Block |-> [k \in Offset |-> Junk]]
  /\ free = Block
  /\ pos = [h \in Handle |-> 0]
  /\ torn = {}
  /\ sound = TRUE
  /\ halt = "run"

Next ==
  \E h \in Handle :
    \/ \E count \in Count : vfs_read(h, count)
    \/ \E s \in Payload : vfs_write(h, s)
    \/ \E length \in Length : vfs_truncate(h, length)
    \/ \E trunc \in BOOLEAN : vfs_open_node(h, trunc)

Spec == Init /\ [][Next]_vars

-----------------------------------------------------------------------------
(* Properties.                                                             *)

Inode == [size : 0 .. MaxSize, ptr : [Index -> Block \cup {0}]]
OnDevice == [size : 0 .. Word - 1, ptr : [Index -> Block \cup {0}]]

\* Every variable has its type.  The size in memory never wraps around although
\* truncate takes whole blocks off a size that need not be a multiple of them;
\* the one on the device may have.
TypeOK ==
  /\ inode \in Inode
  /\ stored \in OnDevice
  /\ data \in [Block -> [Offset -> Byte \cup {Junk}]]
  /\ free \in SUBSET Block
  /\ pos \in [Handle -> Nat]
  /\ torn \in SUBSET Block
  /\ sound \in BOOLEAN
  /\ halt \in {"run", "abort", "assert"}

\* The file never has a block twice, nor one that is not marked as used, but for
\* the blocks of which a release once failed between the bitmap and the inode
\* (ext2alloc.c:113-133): those alone, whatever else was called and failed.
NoShare ==
  /\ \A i, j \in Index :
       inode.ptr[i] = inode.ptr[j] /\ inode.ptr[i] \notin {0} \cup torn => i = j
  /\ \A i \in Index : inode.ptr[i] \in free => inode.ptr[i] \in torn

\* The blocks that the size counts are there, and no others: neither a block
\* that is missing nor one that is lost ("the blocks already allocated",
\* ext2vnop.c:331).
Backed ==
  /\ \A i \in Index : inode.ptr[i] # 0 <=> i < Blocks(inode.size)
  /\ Blocks(inode.size) <= NDirect
  /\ Block \ free = {inode.ptr[i] : i \in Index} \ {0}

SoundBacked == sound => Backed

\* A restart finds every block of the file, and none that was given back: the
\* inode on the device has the same pointers and counts as many blocks.  This
\* holds although write does not look at whether its write of the inode
\* succeeded (ext2vnop.c:411): the size may be behind by the end of the last
\* block, never by a block.
RestartBacked ==
  sound => /\ stored.ptr = inode.ptr
           /\ stored.size <= inode.size
           /\ Blocks(stored.size) = Blocks(inode.size)

\* What the file holds.
Content ==
  [k \in 1 .. inode.size |-> data[inode.ptr[block_number(k - 1)]][pos_in_block(k - 1)]]

\* The file implements a sequence of bytes for callers that keep to what write
\* supports: no write or truncate changes a byte that is not its own.
Bytes == INSTANCE FileBytes WITH
  bytes <- IF sound THEN Content ELSE << >>, promise <- sound

BytesSpec == Bytes!Spec

\* A read that starts at a block, or stays within one, returns what the file
\* holds there (the shell's cat reads halves of blocks).
ReadsExact ==
  sound =>
    \A p \in 0 .. inode.size - 1, count \in Count :
      LET n == nread(p, count)
      IN pos_in_block(p) = 0 \/ pos_in_block(p) + n <= BlockSize =>
           /\ ~Fails(p, n)
           /\ ext2_vnode_read(p, n) = SubSeq(Content, p + 1, p + n)

\* A block that is released has a number (the assertion of ext2_free_block,
\* ext2alloc.c:94).
ReleasesPresent == halt # "assert"

\* A release that failed was not a success.
SoundWhole == sound => torn = {}

\* The inductive invariant behind the proofs.
IInv == TypeOK /\ NoShare /\ SoundWhole /\ SoundBacked /\ RestartBacked
=============================================================================
