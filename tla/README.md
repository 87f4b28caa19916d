# A TLA+ model of fs-playground

fs-playground is a small virtual file system layer (VFS) with an ext2 driver,
a block device on a memory-mapped file, and a shell, `ext2sh`, to try them.
This directory holds TLA+ modules for its parts, TLC configurations that check
them on small instances, and proofs checked by TLAPS. Paths such as `vfs.c:228`
are relative to `src/src/` (the ext2 driver to `src/src/ext2/`) of the
repository.

Run a check with `tlc -config <X>.cfg <MCModule>.tla`, a proof with
`tlapm <X>Proofs.tla`. `PROJECT.json` lists the runs, the line range every
definition stands for, and for every checked property a mutation of the code
under which it fails.

## The system

| component | state | operations | modules |
| --- | --- | --- | --- |
| block and inode allocator (`ext2alloc.c`, mount in `ext2.c`) | usage bitmaps on the device; group counters and totals on the device and, copied at mount, in memory | allocate, release (two kinds), mount | `Ext2Alloc`, proved |
| path tree and path calls (`vfs.c`, `node.c`) | tree of cached nodes with counted vnodes; open files; working directories | lookup, open, creat, close, chdir, stat, access, chmod, unlink, mkdir, symlink | `VfsTree` (one file system), proved |
| directories (`ext2dir.c`, find and readdir in `ext2vnop.c`) | entries of varying length in blocks; a cursor per open directory | find, add, remove, readdir, the emptiness test of unlink | `Ext2Dir` refines `DirMap`, proved |
| files (`ext2vnop.c` 285-465) | size and twelve direct blocks of an inode, in memory and on the device; a position per handle | read, write, truncate, open | `Ext2File` refines `FileBytes`, proved |
| inode operations (`ext2vnop.c`) | inode, block, entry, the inode kept of an open file | creat, mkdir, symlink, first write, chmod, unlink, with a stop after any write | `Ext2Ops`, proved |
| mount points, class table (`vfs.c` 420-548, `node.c`, `fs_class.c`) | mounted roots, covered vnodes, slots | mount, umount, and the calls on directories above and below | `VfsMount`, proved |
| permission checks (`vfs.c` 53-133) | none | access mask, access test | a choice in the models |
| block access (`ext2blk.c`, `blk.c`, `testblk.c`) | the image file | read, write | its failures are choices of the models |
| hash table (`hash.c`) | buckets of chained entries | put, get, del | not modelled: nothing calls it |
| shell (`ext2sh.c`) | one `vfs_ioctx` | commands of one or two calls each | not modelled: the client |

The shell calls the VFS with paths. The VFS walks its tree, asks the driver
(`op->find`) for what is not cached, and calls the operations of the vnodes it
reached. The driver calls the allocator for new blocks and inodes, and the block
layer for every read and write. There is one thread and no callback into the
VFS, so one call is one step; what makes the code hard is what survives a call:
counts, cached nodes whose entry is gone, the memory copy of the counters, and
a device that may be left after any write.

What makes each component correct:

* allocator: no unit has two users; what is in use is marked; a group's counter
  never pretends fewer free units than there are (a hidden unit is lost for ever)
  nor more than unused ones (a counter would wrap); the asserts hold. A failed
  write breaks none of this, except one in the middle of a release, which breaks
  it for the unit that was being released (known defects);
* path tree: every count is returned exactly once on every path through every
  call, nobody stands on a released node, the tree stays rooted, what is cached
  agrees with the device, what an open file refers to does not change under it;
* mounts: the mount tree stays nested, a file system stays where it is mounted
  until it is unmounted, a covered directory keeps its users and their counts;
* directories: blocks of entries behave as a map from names to inodes, a listing
  yields every entry once and ends; a name that has got an entry nobody added
  disturbs no other name;
* files: a file behaves as a sequence of bytes, within twelve blocks, and a
  restart finds the blocks it had;
* inode operations: a stop between two writes loses units but shares none, a call
  concerns one name.

## Modules

### Ext2Alloc

One algorithm, written twice in the code, so the state is indexed by the kind of
unit ("block", "inode"). `bitmap`, `dfree`, `dtotal` are on the device, `free`
and `total` are the memory copies of `struct ext2_extsb`, `refs` counts what
uses a unit (direct block pointers, directory entries), `halted` is a failed
assert.

* `FirstGroup` and `FirstBit` are the scan: the first group with a counter above 0
  and an acceptable bit, the first such bit. `Mask` is the bit `(1 << k)` names:
  the constant is a 32-bit int, so `k` counts modulo 32 and bit 31 extends its
  sign through the upper half of the 64-bit word.
* `Commit` is the write sequence shared by the four operations: bitmap, every
  block of the descriptor table, superblock; of those the first `w` succeed.
  `w < AllWrites` is an error return, or a stop of the machine followed by
  `ext2_fs_mount`, which is enabled in every state.
* `Alloc` also covers `ext2_inode_alloc_block` and the inode's creation: the
  caller records the number, or fails (`recorded = FALSE`) and loses it.
* `Release` is `ext2_free_block` with the caller that takes the number out of its
  inode or entry. It too does the first `w` writes only, and the caller may fail
  to drop its reference after all of them (`dropped = FALSE`). Such a release
  ends early: the unit is marked free while its user goes on with it, the next
  allocation may give it to another, and a second release of it meets the
  assert; a stop before the table is written leaves the group's counter behind
  its bitmap. `Drop` records it in the history variables `torn` (the units) and
  `cut` (how many, per group).

The properties are stated with these two: what goes wrong goes wrong for the
units in `torn`, and a group's counter is off by at most `cut`. With `torn` and
`cut` empty they say what one would say of an allocator.

The image is a parameter (`Marked`, `Held`, `FreeTotal`). `LowImage` describes
the images for which the code is right: every file that may be removed uses bits
0..31 of a bitmap word, and if it uses bit 31, nothing that stays is above it
in that word. The violation runs are about images outside it.

### VfsTree

A node is named by its path. `vfs` is one record: `tree` the attached nodes,
`vn` the entry each was built from (type and link target), `ref` the counts,
`disk` the entry of every path on the device, `halt` the assert or abort that
ended the program. `fd` and `cwd` are the users of nodes; `leak` is a history
variable that counts references the code takes and forgets.

* `Attach`, `Ref`, `Unref` are `vfs_node_create` with its insertion, `vnode_ref`
  and `vnode_unref`. `Unused` is what the mutual recursion of `vnode_free` and
  `vfs_node_remove` gives back: the node and the ancestors that lost their last
  child and have no count. `Unref` also aborts where `vfs_vnode_path`, called
  for a message, runs out of its ten entries.
* `vfs_find_tree` is the recursion of the lookup, a function on walks (`Walk`: a
  node, the rest of the path, the nodes attached so far, the links that may still
  be followed); `WalkOn` is one call of it. A failed lookup leaves its nodes
  attached, as in the code; one that reached a node that is not attached would
  stop the model.
* Every call is one action, composed of these in the order of the code; a result
  `[ok, node, s]` is passed from step to step, `Finish` stores it.
  Permission checks and device errors are free choices (`ok`, `allowed`).
* After `unlink` an entry is gone from `disk` while its node may live on in
  `tree`: a "stale" node, which lookups still find.
* `NothingOrphaned` is about entries that are reachable, none of whose ancestors
  was removed: whoever stands in a removed directory can still create something
  in it, which goes when the directory's node does. `VnodeStable` is about the
  vnode under a handle or working directory that stays: a call that uses a link
  from two directories may release a stale node and build another in its place.
  (At depth 3 and 4 TLC finds these cases when the properties leave them out.)

Left out: names with trailing slashes or dots at the end where the code takes
the last element as a name (`Plain`), "." behind ".." (`Canonical`), `vfs_creat`
without a handle, O_APPEND, O_TRUNC (a failure choice of `vfs_open_node`),
inode numbers (`found` in `Removal` is the choice whether the number of a
removed file is in use again; what the second release then does to the other
file is in Ext2Ops, see `care`), entries of multi-block directories
(`ext2_vnode_unlink` refuses them even when empty).

### Ext2Dir and DirMap

The content of one directory. `dir` has, per block index, a function from the
offsets at which the walk of a block finds entries to entries (name, inode
number, length); the empty function is a block of zeros. Offsets and lengths are
in words of four bytes, to which the code aligns them; `Need` is what an entry
takes, as a function of its name. `fd` is a cursor per open directory with what
it has listed (history).

`doubt` is a history variable: the names that may have an entry nobody added.
There are two sources of those. Another driver that removes the first entry of
a block sets its inode to 0 and leaves the name (`Ghosts` of the image): find
skips the entry, remove does not. And a new block whose first write fails is in
the directory with what it held in its former use: `ext2_alloc_block` and
`ext2_free_block_index` clear nothing, and the scan returns the block that was
freed last if it is the first free one. `Left` is what such a block may hold: zeros,
or a tiled block of entries; the data of a file is not followed (`garbage`). The
properties about names except those in `doubt`, and `CallsMapped` and `MapSpec` say
that nothing else puts a name there.

* `ext2_dir_add_inode` splits the first entry (`FirstOf`, the order of the walk)
  that has room, else appends a block, else ends the program: `abort` at the
  thirteenth block, `spin` where the walk meets a block of zeros.
  `ext2_dir_add_inode_fails` is the failing last write, which appends an old block.
* `ext2_dir_remove_inode` gives an entry's length to its neighbour: `Pull` moves the
  next one over it, `Join` extends the one before, `ext2_free_block_index` drops
  the block and shifts the later ones. Its guard in `Next`, `Meant`, is that the
  caller has looked the name up, possibly before another removed it. It ends the
  program where the first entry of the name has another inode (`assert`), which
  `SanityHolds` allows for names in doubt only.
* `ext2_vnode_readdir` is one call of readdir. After a removal the cursor may
  stand inside an entry; what it reads there is not followed (`astray`).

`DirMap` is the promise: pairs of name and inode number, of which one comes or
goes at a time, and no promise about names in doubt (`Spoil`). `MapSpec` is the
refinement with `bound`, what `find` can tell of the other names.

### Ext2File and FileBytes

One regular file: `inode` in memory, `stored` on the device, the content of its
blocks, a position per handle. A call may fail at each access to the device and
in the allocator. `sound` is a history variable: every call so far was one that
write supports (it appends, or rewrites within a partly filled last block; a
full block aborts) and none of its accesses failed, except the write of the inode
at `ext2vnop.c:411`, whose result the code does not look at. When `sound` has
become FALSE contents are not followed any more, sizes and pointers are. `torn`,
also history, has the blocks of which a release failed half way.

* `vfs_write` is both parts of `ext2_vnode_write`: the partly filled block, then
  `WriteNew`, where the size is raised before the block is allocated.
* `Truncate` is the loop of `ext2_vnode_truncate`, from the front, with a failure at
  any index (`FailsAt`: before the bitmap is written, with the block unmarked and
  the pointer kept, or with the pointer gone from the memory only) or a missing
  block (`Missing`: number 0, or a block that is not marked any more);
  `size_lower` is unsigned, so the intermediate size on the device may wrap (`% Word`).
* `NoShare` is about the running system, `RestartBacked` about the next one: the
  inode on the device has the pointers of the one in memory, and a size of as
  many blocks. Both sizes need not be equal, because of line 411.
* `vfs_read` advances the position; `ext2_vnode_read` is what it returns.

`FileBytes` is the promise: a sequence of bytes with one position per handle,
for as long as `sound` holds. `BytesSpec` is the refinement.

### Ext2Ops

What Ext2Alloc, Ext2Dir and Ext2File leave out: the order in which the
operations of `ext2vnop.c` write inode bitmap, block bitmap, directory entry and
inode, over one directory. `CreatOrder`, `MkdirOrder`, `LinkOrder`, `WriteOrder`
and `UnlinkOrder` are these orders; a call does the first `w` writes. If those
are not all, the call returned an error or the machine stopped, and
`ext2_fs_mount` is enabled in every state. Which inode or block is given is left
open (that it is unused is `NoSharing` of Ext2Alloc), and a file has at most one
block.

`node` is the inode the VFS keeps of a file that is open, under the name by
which it was opened; an unlink leaves it there (`Stale`). A link that fits in
the inode has no block, but the array of block numbers holds its text: `ptr` of
such an inode is what the first characters make up as a number. What unlink
does when that is the number of no block is not followed further (`Misses`).

`care` is a history variable. It becomes FALSE when unlink is cut short between
the release of a block or an inode and the write that takes it from its inode
or directory, when a removed file is written to or chmod'ed through a handle,
and when the text of a short link is released as a block. After each of these
the sharing rules can break; the properties say that nothing else breaks them.

### VfsMount

Mount points over the cached nodes of directories. A node is named by its path,
a vnode by path and file system, so a mount point has two: `at` names the file
system a node shows, `below` the one it covers. `ref` has the counts of all
vnodes, `cwd` and `fd` their users.

* `Attach` is the lookup of a path: new nodes are of the file system that the
  node above shows. `Unref` and `Gone` are `vnode_unref`, `vnode_free` and
  `vfs_node_remove`, where a mount point, and what is above it, stays.
* `vfs_mount` takes a slot of `mounts[]`, which nothing gives back, and only then
  refuses (`mount_fails`: the class's mount or the busy check), ends the program
  (a second mount on the same path, a root that cannot be read), or covers the
  directory. `ext2_fs_get_root` leaves the count of the new root to malloc, so it
  is a member of `Junk`.
* `vfs_umount` frees the root of what is unmounted whoever uses it, after it has
  taken care of the caller's working directory, and asserts in `vfs_node_free`
  that the directory that was covered has no users. A handle on the freed root
  ends the model when it is closed (`close_stray`).

Links and files do not matter to it and are in VfsTree, which has one file
system. Unlinking a mount point is left out.

### Proof modules

`Ext2AllocProofs`, `VfsTreeProofs`, `Ext2DirProofs`, `Ext2FileProofs`,
`Ext2OpsProofs` and `VfsMountProofs` hold the theorems about the modules they are
named after, `Ext2BytesProofs` those about the content of files, and
`Ext2ListingProofs` those about listings and empty directories; see Proofs below.

## Runs

Passing runs, with 2 workers each well below five minutes:

| run | instance | shows |
| --- | --- | --- |
| `alloc` | 2 groups of one 6-bit word (halves of 3), 6 blocks and 2 inodes per group, 2 table blocks, one removable file, one that stays in an upper half | types, `UsedMarked`, `NoSharing`, the asserts, no false ENOSPC, group counters that neither wrap nor lag, under allocations and releases that end after any write, and remounts; one release of a block per group ends early |
| `tree` | names a, b, depth 2, at most 3 entries, links to a, to b and to themselves, used in the middle and at the end of paths, 1 handle, 1 context, 5 paths | counts balance, also where a count passes from a link to its target; nobody stands on a released node, coherence, lookups return attached nodes, stability of vnodes, removal orphans nothing |
| `tree_leak` | at most 2 entries, no links, 5 paths, one lost reference | the count is the number of users plus the lost references, after any later calls; the invariant of the proofs; the caller's working directory keeps its entry |
| `dir` | blocks of 10 words, at most 3 of them, two names of 3 words and one of 7, two inode numbers, an image as mkdir makes it, one with an unused block, one with a name left to an entry without an inode; new blocks may keep zeros, an entry alone in its block, or dots; one listing | tiling, lengths, find, the emptiness test and the assert of remove; a listing is exact and ends; the directory refines a map, all this for names not in doubt |
| `file` | blocks of 3 bytes, 2 pointers, 2 blocks, 2 handles, writes of 2 and 4 bytes, lengths 0, 1 and 4, files up to 7 | no block is shared, or used and free, but a torn one; size and pointers agree, a restart finds the blocks, reads return the content; the file refines a sequence of bytes |
| `ops` | 2 names, 2 inodes, 2 blocks, 2 handles, links with and without a block, a stop after any write | names share no inode, inodes no block, a call changes one name |
| `mount` | directories /, /a, /a/b, /c, 3 slots, 2 handles, a working directory, a count that malloc may leave at its largest value | nesting, counts of plain and covered directories, mounts stay until unmounted, users keep their vnodes |

A word of 6 bits has everything that matters of one of 64: bits below the sign
bit, the sign bit, and an upper half that the shift cannot name. Two groups
show the order of the scan and that a table write takes both groups along; two
table blocks put their descriptors apart. Depth 2 has a directory that is
cached only for its child, the cascade of `vnode_free` through it, a link in the
middle of a path, and a removed directory with somebody in it; two names give
siblings. A block of 10 words holds up to three entries, so that an entry can
be first, in the middle and last, and a long name needs a block of its own;
three blocks have one before and one behind the one that is freed, and room for
an old block to come back. Three names are what the second source of doubt
takes: one whose entry is left in a freed block, and which is added again
elsewhere, and another whose call brings the block back. A file of two blocks
shows an append that crosses a block, a truncation within and between blocks,
and the block too many; a block that is lost or torn leaves it one, which is
enough to be given twice. Two names, inodes and blocks are what sharing takes.
Three slots have the root, a mount below it, and a mount on or below that one.

Violation runs check one statement of the source each, and TLC finds it broken:

| run | statement | what happens |
| --- | --- | --- |
| `alloc_upper_half` | assert, `ext2alloc.c:110` | a file of the image with a block in the upper half of a word cannot be released |
| `tree_double_free` | assert, `ext2alloc.c:201` | unlinking an open file twice frees its inode twice |
| `dir_readdir_align` | comment, `ext2vnop.c:488` | the cursor is not aligned up, it goes back to the first bytes |
| `file_release_absent` | assert, `ext2alloc.c:94` | after a write that found no block, truncate releases block 0 |
| `ops_link_blocks` | comment, `ext2vnop.c:602` | unlinking a short link releases a block of another file |

Deadlock is checked for the allocator. The other programs stop for good when an
assert fails (VfsTree, Ext2Dir, Ext2File, VfsMount), or a client may have
nothing left to do (Ext2Ops always has a restart), so deadlock checking is off.

Bounds: `MaxDepth`, `MaxEntries` (the inodes of the device), `MaxLinks` (links
inside one another until the C stack ends), `MaxLeak` (lost references),
`MaxCut` (releases of a kind that end early, per group), `MaxSize` (of a file,
and of the positions reads end at), `NDirect` (12 in the code), `Slots` (10), and the word
sizes, which stand for the C types.

### Known defects

Besides the five above, modelling met the following. The models stop at them,
or exclude them by a guard or a history variable named here:

* with blocks larger than 1K, block n is bit n of its group, and the addition of
  `ext2alloc.c:43` hands out the neighbour of the free block (`UnitNo` has the
  numbering of 1K blocks);
* a release that ends after its bitmap write leaves a unit in use and marked free
  (`torn` of Ext2Alloc and Ext2File): it is given to a second user, a release of
  it by the first one takes it from the second or, before that, ends in the
  asserts of `ext2alloc.c:110` and 201; and if the table was not written, the
  group's counter stays one behind, so that the unit can be hidden for good (`cut`);
* a new directory block that could not be written is in the directory with what it
  held before: entries that were removed or moved come back, a name may have two
  entries, of which find tells the first, or block 0 of another directory brings
  its dots (`doubt`); with the data of a file there, walks read it as entries
  (`garbage`);
* an entry without an inode that keeps its name, as Linux leaves it at the start
  of a block, is skipped by find and matched by remove, which ends in the assert
  of `ext2dir.c:147` when the name is also elsewhere (`doubt`);
* write returns the whole count although the inode could not be written
  (`ext2vnop.c:411`), and although the block it begins with could not be read or
  written, in which case the bytes are in the next block (`sound`);
* a refused chmod and the unlink of the working directory keep a count for
  nobody (`leak`);
* a lookup descends into a cached link, or one that another link leads to, and
  ends in the assert of `vfs.c:229`; links that lead to one another recurse
  without end (`link_loop`);
* `vfs_creat` opens a link, where `ext2vnop.c:122` asserts a regular file
  (`open_link`);
* behind a link, mkdir checks a name in one directory and adds it to another
  (`dup`);
* a path of ten elements aborts when its count is returned (`vfs.c:401`, `Unref`);
* truncating a file leaves the positions of its handles behind its end, which
  the comment at `ext2vnop.c:327` takes to be impossible; a read there wraps
  around (`nread`);
* a block of zeros in a directory makes add and remove loop for ever (`spin`);
* the test for an empty directory stops at the first entry without an inode
  (`DotsAssumption` excludes images where others come after one);
* mkdir, creat and symlink that stop after the entry and before the inode leave
  a name at which every lookup aborts (`ext2_inode_type` of Ext2Ops), if the
  table slot was never used;
* unlink that stops in one of its two windows, and writes to removed files, let
  files share inodes and blocks (`care`);
* lookups that fail leave unused nodes attached, so that umount, also the one at
  the end of the shell, returns busy; mount keeps a slot when it refuses;
* umount frees the root of what it unmounts under the handles that have it open
  (`stray`), and asserts when the directory it uncovers is in use.

## Fairness

`FairSpec` of Ext2Dir has weak fairness of readdir for every handle: a client
that has begun a listing goes on calling until it is told the end, as the loop
of the shell's `ls` does (`ext2sh.c`). Nothing else is assumed: adding and removing
may go on for ever or stop. `ListingEnds` follows because the cursor moves
forward and the blocks are bounded.

The other specifications state no fairness: the calls are made by a client that
may stop at any time, and the properties are invariants and action properties.

## Proofs

`Ext2AllocProofs` proves for every word size, number of groups and words,
group sizes and image:

    LowImage => (Spec => [](TypeOK /\ UsedMarked /\ NoSharing /\ AssertHolds))
    LowImage => (Spec => [](NoFalseENOSPC /\ CounterHonest))

with releases and allocations that end after any of their writes.

The assumptions are `SizeAssumption` (a word is two ints wide, the group counter
can hold the bits of a bitmap and `MaxCut` more) and `ImageAssumption` (the image
has the type it claims). `UsedMarked` is not inductive: a release could clear,
with the sign bit's mask, units in the upper half that something else uses.
`UsedLow` adds that every unit in use lies in a lower half, where a bit's mask is
the bit itself or, for the sign bit, the rest of the word, in which nothing used
or pinned lies. `UsesCut` takes the place that "one user per unit" has where
releases do not end early: every use of a unit but the last comes from a release
that did, and every use of a unit marked free does.
The argument goes through `MaskLow` and `MaskUpper` (what a mask contains),
`UnitRound` and `UnitInjective` (a number names one group and bit),
`CommitType` (the write sequence keeps the types), `FindsLow` (the scan yields a
bit of a lower half), `AllocEffect` and `ReleaseEffect` (what a call does to bitmap
and uses, however far it gets), and `AllocStep`, `ReleaseStep`, `MountStep`, one for
each kind of step.

The second line is about what the group counters say of the bitmaps. `BitCount`
tells how many more bits of a bitmap are marked after one bit is set or one mask
cleared, `UsesPairs` and `UsesChange` how many uses a group has more or less, and
`CommitWrites` which of bitmap and table a write sequence leaves new after it
stopped at any point. By `AllocCounters` and `ReleaseCounters` a counter then lies
between the clear bits and the unused units, give or take one for each release
of the group that ended early (`cut`); `CountersStep` has what the two share. Both
properties are inductive together, given `IInv` (an allocated bit was free, a
released mask has one used bit in it). The totals of the superblock are in no
property but the types: nothing in the driver decides by them.

`VfsTreeProofs` proves for every set of names, links, paths, handles and
contexts, every image, and every value of the bounds and of `BackStack`:

    Spec => [](TypeOK /\ NodesRooted /\ RefBalance /\ HoldersLive /\ NoUnderflow)
    Spec => [](CacheCoherent /\ EntriesHoused /\ LookupAttaches)
    Spec => NothingOrphaned /\ VnodeStable
    (\A c, d \in Ctx : c = d) => (Spec => CwdKept)

from `PathAssumption`, `ImageAssumption` and `UserAssumption` (finitely many
handles and contexts; `NoNode` is not a node). `RefBalance` is inductive only
together with `CountedCached`: a lost reference is no user, so `HoldersLive`
says nothing of its node, and the next call that takes that node would count it
from 0 had it been released.

Within a call the counts differ from the users'. `Balanced(s, owed, w)` is the
invariant of a state `s` inside a call, where `owed` is what every node's count
has to be: the users outside, the lost references, and what the call holds; and
`w` the entries and vnodes that the call may not touch (`Watched`, `Kept`).
`RefBalanced` and `UnrefBalanced` say that vnode_ref and vnode_unref add and
take one from `owed`; the latter is the core, as the release of a node takes
unused ancestors along. `UnusedClosed` shows of those that none is counted and
none has a child that stays. `AttachBalanced`, `FindLocated`, `ResolveHolding`
and `FindParentHolding` do the same for lookups, links and parent directories;
each call then has a lemma of its own, which shows that it ends owing what its
users make up (`CallEnds`).

`CacheCoherent` is part of the same induction, with `EntriesHoused`: an entry of
the device that no removed directory is above has a directory as its parent, so
that a node whose entry is gone is in use or above one that is (`FreeCoherent`,
`UnlinkKeeps`: what unlink leaves on the device below a stale node goes with the
node). The action properties compare the two ends of a call, between which
several nodes come and go; they follow by watching, from the beginning of the
call, the entries and vnodes in question, and showing that no step but unlink's
touches one (`CallKeeps`, `WatchAll`). `CwdKept` has the hypothesis that there is
one context, as in the program: with two, one can remove the directory the other
stands in.

`LookupAttaches` is about what the recursion of the lookup computes. Every call
of `vfs_find_tree` makes calls for shorter walks only: fewer links, or as many
and a shorter path (`WalkEnds`, `RestShorter`), and a set of walks has a shortest
one (`ShortestWalk`, from the well-foundedness of strict inclusion). So a call
depends on the answers to shorter ones alone (`WalkLocal`), every walk has
exactly one answer (`SolvesOnce`, `AllSolved`), and the recursive definition has
the value its text says (`FindRecursion`): no induction theorem is needed, only
counterexamples that cannot be shortest. In the same way `RecursionStanding` shows
that what was seen on the way hangs on the tree (`Standing`), through links that
lead elsewhere and `..` that leads back; `Attach` then attaches all of it, with
the node the lookup ends on (`FindAttaches`). A call looks up from the root, from
a node that is counted, or from the directory of one (`Base`, `BaseCached`).

`Ext2DirProofs` proves for every block size, set of names, number of pointers
and well-formed image (`SizeAssumption`, `ImageAssumption`):

    Spec => [](TypeOK /\ Tiled /\ EntriesFit /\ NameOnce /\ FindsBound)
    Spec => SanityHolds
    Spec => MapSpec          (the refinement of DirMap)
    Spec => CallsMapped

and for any content of a block that is appended unwritten, if it was a
directory's (`LeftAssumption`). The parts of `WellFormed` need one another: a split
is right only in a block whose lengths lead from entry to entry and are at least
what the names need, and the assert of remove holds only for names that have one
entry, and that with an inode, which is what not being in `doubt` comes to
(`Once`, `Named`). `SplitGood`, `PullGood` and `JoinGood` are about one block: each
shows that the new lengths tile it again. `SplitDir`, `AppendDir`, `OldDir` (the
block appended unwritten), `PullDir`, `JoinDir` and `FreeDir` lift them to the
directory and say which bindings come or go, so that every step maps to
`Insert`, `Delete`, `Spoil` or a stutter. Only in `OldDir` does `doubt` grow, by
the names of the old block.

`Ext2ListingProofs` proves of the clients that read a directory entry by entry:

    Spec => [](ListingExact /\ VacantExact)

for the images of `DotsAssumption`: the first block begins with a dot and has
entries with an inode only, the dots are nowhere else (unless they are in doubt),
and a block of zeros is the last one. mkdir makes directories like that, the calls
keep them so (`GrownShape`, `RemoveShape`), and other drivers leave an entry
without an inode only at the start of a block, where the first one has ".".
Where it is otherwise, the emptiness test stops at the first entry without an
inode and does not see what comes after it. `ListingExact` is inductive with
`Tracks`: the cursor is at an entry, a block of zeros or the end; a name already
returned is behind it, and one that was there at the start and is not yet
returned is not. That a name comes once is said of names that are not in doubt,
that none is missed of all. `NextWhere` does the arithmetic of blocks and offsets,
`StepMoves` says that one entry is passed at a time, `GrownTracks` that names which
are added, before or behind the cursor, alone or with an old block, disturb
neither.

`Ext2FileProofs` proves for every block size, number of pointers and payload:

    Spec => [](TypeOK /\ NoShare /\ SoundBacked /\ RestartBacked)

`TypeOK` and `NoShare` hold whatever fails, the latter for all blocks but those
whose release failed half way (`torn`). That the size in memory never wraps
although truncate subtracts whole blocks follows from `WithoutIs`, which relates
the loop's size to the blocks that are left; `GoneIs` and `GoneShare` say which
blocks a loop has given back, and that those left are others. `SoundBacked` and
`RestartBacked` are about sound files, which have no torn block (`SoundWhole`).
The arithmetic rests on `BlocksUnique` (the number of blocks is the one number
with n <= b * BlockSize < n + BlockSize).

`Ext2BytesProofs` builds on that invariant and proves what a file holds:

    Spec => BytesSpec        (the refinement of FileBytes)
    Spec => []ReadsExact

No further invariant is needed: that a block of a sound file is in it once, and
not among the free ones, is what keeps a write from changing bytes elsewhere. `Placed`
says that a piece which fits into a block is the same piece of the file,
`PatchAt` what the blocks hold after the first part of a write, `WriteInside`
and `WriteBeyond` what the file holds after a write in one block and over two;
`Written` turns that, position by position, into the concatenation of FileBytes.
`TouchedIs` is about the blocks a read counts: from the beginning of a block, or
within one, they are blocks of the file.

`Ext2OpsProofs` proves for every set of names, inodes, blocks and texts:

    Spec => [](TypeOK /\ NamesApart /\ BlocksApart)
    Spec => OneNameChanges

`NamesApart` and `BlocksApart` are inductive with `NodeOfEntry`, which ties the
inode in memory to the entry: without it a write through a handle could store a
block in another name's inode. `CreatesIs` has what the three creating calls
have in common after any number of writes; `OneNameStep` is the general step: if
a call writes one inode, which no other name has, and its new block was that
inode's or nobody's, all stays apart. `UnlinkStep` splits on the writes that are
done and uses `care` exactly in the two windows.

`VfsMountProofs` proves for every set of paths closed under prefixes, every
number of slots, finite set of handles, width of the counts and content of the
memory that malloc returns (`MountAssumption`):

    Spec => [](TypeOK /\ Nested /\ Counted)
    Spec => MountsStay
    Spec => UsersKept

None of these is inductive. `Closed` and `Home` complete the tree: what is above
a node is there, and a file system is found only at and below its mount point,
so that one without nodes below its root is gone from the tree when the root is
given back. `Blank` says that a vnode which is not attached but may be attached
by a lookup, being of a file system that is mounted or still will be, has no
count and no users: `Counted` alone says nothing of it. The paths appear in the
first lemmas only; then a chain of directories is a line ordered by length, in
which a set has a longest element (`Longest`, from the well-foundedness of
strict inclusion). `AttachTree` and `AttachCounts` are about lookups, `GoneTree`
and `GoneCounts` about nodes that go with their last user, `RefCounts` and
`UnrefKeeps` about users that come and go, `CoverKeeps` and `UncoverKeeps` about
mounting and unmounting; each call then has a lemma of its own. Like the other
invariants, `IInv` was checked with TLC first.

Only model-checked: `ListingEnds` of Ext2Dir (liveness under fairness). ENABLED is
out of the prover's reach too, and used nowhere.

## Not modelled

* The permission checks: functions of a mode and two pairs of ids. A property of
  them would repeat their text; the models let any check pass or fail.
* The hash table: the program does not call it.
* Block devices, and the address arithmetic of `ext2blk.c` (inode table, indirect
  blocks on the read path): no state of their own. Their failures are in the
  models; short reads and writes, which `testblk.c` reports as success, are not.
* Device errors during a lookup. `vfs_open` takes such an error for a missing file
  and creates it a second time; Ext2Dir lets a name be added only if it is absent.
* Unlinking a mount point, mount options, statvfs, chown (as chmod), and the calls
  that change nothing (access, stat, readlink, beyond their references).
* The shell, and the structure of its sessions.
