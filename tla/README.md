# ext4fuse: a TLA+ verification project

ext4fuse mounts an ext4 image through FUSE. This directory holds TLA+ models of
its core, the TLC configurations that check them, and TLAPS proofs. Paths such
as `buffer.c:680` are relative to `src/`.

## 1. The system

FUSE runs a pool of worker threads (one with `-s`). Each request resolves a
path, reads the inode, maps file blocks to device blocks and moves data through
the buffer cache. One more thread writes dirty buffers back, and the C library
runs the completion callbacks of asynchronous transfers on threads of its own.
`main` takes everything down after `fuse_main` has returned.

| Component | State | Operations | Used by |
|---|---|---|---|
| Buffer cache (`buffer.c`, `bufops.c`) | tree of buffers by block number, free list, dirty list, per buffer: `b_count`, `b_state`, `b_lock`, `b_event`; wake-up pipe | `fs_bread`, `fs_bwrite`, `fs_mark_buffer_dirty`, `fs_brelse`, writeback thread, end-of-transfer callbacks, `bdev_free` | all that touches the device |
| Directory cache and path lookup (`dcache.c`, `inode.c`) | tree of entries, siblings in a ring | `dcache_lookup`, `dcache_insert`, `inode_get_idx_by_path` | every operation with a path |
| Block allocator (`alloc.c`, `bitmap.c`) | block bitmaps (in the buffer cache) | `ext4_new_meta_blocks`, `ext4_ext_free_blocks` | extent tree |
| Superblock, group descriptors (`super.c`) | superblock and descriptor table in memory, dirty flags | counters, lazy bitmap initialisation, read at mount, written at unmount | allocator, inodes |
| Extent tree (`extents/extents.c`) | nodes in the inode and in device blocks | search, insert with splits, remove | `inode_get_data_pblock`, truncate |
| Inodes (`inode.c`, `inode_in-memory.c`) | private copy of the raw inode per request | get, put, indirect block map | file operations |
| File operations (`op_read.c`, `op_write.c`, `op_truncate.c`, `disk.c`) | none | loops over blocks, buffered transfers | FUSE |
| Metadata operations (`op_getattr.c`, `op_open.c`, `op_readdir.c`, `op_readlink.c`) | none (`op_readdir`: a buffered directory block per call) | lookup, then copy fields; a listing over several calls | FUSE |
| Red-black tree (`rbtree.c`) | nodes with parent, children and colour; leftmost and rightmost node | `rb_insert`, `rb_erase`, walks | buffer cache |
| Lists, checksums, logging | | | |

There is no operation that creates, renames or removes a name, so the name
space is constant while the file system is mounted. Contents, sizes and block
maps of files do change (`write`, `truncate`).

### What is hard

* **Buffer cache.** Five kinds of thread meet on a buffer; `b_state` is changed
  with plain read-modify-write; tests of list membership are made before the
  list's lock is taken; the lookup takes its reference after it has dropped
  the tree's lock; `fs_bwrite` does not wait for a transfer in flight; unmount
  must wait for transfers. Correct means: a read sees the last write, what was
  written reaches the device, no freed buffer is used, references balance, the
  lock and the semaphore exclude, and every operation and the unmount end.
* **Directory cache.** No lock at all: "atomic updates" that are several stores.
  Correct means: a lookup gives what the directories on the disk give, never
  follows a NULL pointer and ends.
* **Allocator.** No lock at all; bits, two counters and a lazily initialised
  bitmap must agree. Correct means: no block has two owners, ENOSPC only when
  full, counters exact, nothing lost over an unmount.
* **Extent tree.** Splits that cascade, growth in the middle of an insertion,
  keys that must be corrected in the levels above, space that runs out half way,
  removal of parts of leaves. Correct means: a block is found where it was put,
  the tree stays a search tree, no block is lost or used twice, every change is
  written back, and the removal ends.
* **File operations.** Unaligned ends, holes, ENOSPC in the middle of a write, a
  private copy of the inode that must be written back. Correct means: bytes stay
  where they were written and are read back, a write changes blocks of its own file
  only, and the inode table has what the operation did.
* **Directories.** A listing is cut by the kernel anywhere and goes on from an
  offset; blocks are found through up to three levels of index blocks. Correct
  means: every entry once, and a search finds exactly what is there.
* **Red-black tree.** Many cases, each reached by few sequences of calls, and a
  mistake shows much later. Correct means: the nodes that were put in, in order,
  each key once, and balanced.
* **Crashes.** There is no journal support and counters are written only at
  unmount, so the code promises nothing after a crash.

`PROJECT.json` lists every hazard at its line with the properties aimed at it.

## 2. Modules

| Module | What it is |
|---|---|
| `BufferCache` | the buffer cache, one step per critical section, atomic builtin or unprotected access |
| `CachedDisk` | its abstract specification: a current and a device version of every block |
| `MCBufferCache` | instances for TLC, all values in the cfg files |
| `BufferCacheProofs` | type correctness, exclusion by `b_lock`, the dirty list and its counter, and `b_count`, proved |
| `BufferCacheEvents` | extends it: the token of `b_event`, proved |
| `BufferCacheData` | extends that: what one client is promised of its data, up to the refinement of `CachedDisk`, proved |
| `BufferCacheFree` | extends that: the free list and what is dropped from it, with one client that reads, proved |
| `DCache` | path lookup through the directory cache, one step per shared access |
| `PathWalk` | its abstract specification: a walk through the directories |
| `MCDCache` | a small name space |
| `DCacheProofs` | type correctness, no NULL entry, the refinement of `PathWalk` and, with one worker, the ring of siblings, proved |
| `BlockAlloc` | the allocator with bitmaps, counters, lazy initialisation, unmount and mount |
| `BlockPool` | its abstract specification: files take and give back blocks of a pool |
| `BlockAllocProofs` | the allocator: unmount, bitmaps, counters and the refinement of `BlockPool`, proved |
| `MCBlockAlloc` | three disk layouts: with sparse superblocks, `meta_bg`, `flex_bg` |
| `ExtentTree` | the extent tree of one file, one step per helper call or round of a loop |
| `MCExtentTree` | a device, empty or partly used by other files |
| `FileOps` | reads, writes and truncates of one file; extends `ExtentTree`, whose steps it composes with the loops of the operations and the transfers of `disk.c` |
| `MCFileOps` | requests of one and two blocks, aligned and not |
| `Directory` | listing and searching a directory, with the ext2 block map |
| `MCDirectory` | directories of one, three and nine blocks |
| `DirectoryProofs` | the block map, listings and searches, for directories of any size, proved |
| `RbTree` | insertion, erasure and walks of the red-black tree, one step per round of a rebalancing loop |
| `BlockIndex` | its abstract specification: a sorted sequence of buffers |
| `RbTreeProofs` | the inductive invariant of both rebalancing loops, balance, walks and the refinement of `BlockIndex`, proved |
| `MCRbTree` | nine nodes, two with the same key |

Operators whose name ends in `_word` (`PutBh_none`, `Link_missing`, ...) are
seeded faults: plausible mistakes in one definition of the code. With the fault
in place of the definition, TLC must refute the property listed for it in
`PROJECT.json`. They are used nowhere else.

### BufferCache and the code

Every client runs `Start` and then one of three sequences: *read* (`fs_bread`,
look, `fs_brelse`), *update* (`fs_bread`, change the data,
`fs_mark_buffer_dirty`, `fs_brelse`), *overwrite* (the same after `fs_bwrite`).
These are the ways in which the rest of ext4fuse uses the cache. `pc` names the
place in the code: `search`..`get` is `__getblk`, `lock`..`submit_read` is
`bh_submit_read`, `wait` and `post` are `wait_on_buffer`, `put`..`attach_locked`
is `brelse` with `reclaim_buffer` and `remove_first_bh_from_freelist`. The
writeback thread is `epoll`..`submit_write`. `io[x]` is the transfer of buffer x
and then the place in its callback. `phase` is `bdev_free`.

* The tree is a map from block numbers to buffers, which is what `RbTree` is shown
  to implement (`BlockIndex`): `buffer_search` is a read of it; `rb_insert` of a key
  that is there does nothing; `rb_erase` of a node that was never linked overwrites
  the root, because the node has no parent.
* The free list is modelled by its pointers, because the code tests membership
  by a pointer and unlocked double insertion damages the ring. The dirty list
  is a sequence: all its tests are made under its lock.
* Contents are version numbers, `Garbage` is what malloc left. `latest` is a
  history variable: what callers last gave each block.
* A failed transfer (`FaultyDevice`) moves nothing; `iocb_dispatch` calls the
  end function as for a good one, as the code does (`aio_error() < 0`).
* Buffers are numbered and never used again, so a stale pointer is recognised.
  What the program does *after* it has used a freed buffer is undefined; the
  properties that speak of such executions say only what holds up to there,
  except for `BufferLock`, `EventToken` and `RefCount`, which hold in the model
  even then.
* b_state is not modelled as a word: `FlagUpdatesExclusive` says instead that
  two updates never overlap, which is what the non-atomic updates need.
* Left out: the io_thread variant (compiled out by `USE_AIO`), `fs_bforget` (no
  caller), failure of malloc and of `aio_read`/`aio_write` itself.

### DCache and the code

`Lookup`, `Hit`, `Advance`, `Again` are `get_cached_inode_num` with
`dcache_lookup`; `Walk` is one round of the loop of `inode_get_idx_by_path`, with
the scan of a directory's blocks abstracted to the constant `Dir` (`Directory` has
the scan, and `SearchExact` says that it is such a map); `Refuse` to
`Front` are `dcache_insert`. NULL and the root entry are the same number because
the code takes a NULL entry for the root. Comparisons are of whole names: the
`strncmp` with the length of the component, and the test that the cached name
ends there, are one test of equality. A name longer than an entry can hold is in
`LongNames`. The kernel asks for a path only below directories it has been told
of, so the `S_ISDIR` test always holds and is left out.

### BlockAlloc and the code

`StartAlloc` to `Enospc` are `ext4_new_meta_blocks` with
`ext4_try_to_init_block_bitmap` and `ext4_init_block_bitmap`; `StartFree` and
`TestInited` are `ext4_ext_free_blocks`; `LoadWord` to `End` are the tail that both
share. Every access to a bitmap or counter is a step of its own. A bitmap is the
set of its one bits; all its bits are in one word for `set_bit` (with groups of at most
twelve blocks they are). Counters keep their width (`GroupRange`; `TotalRange`
stands for 2^64, which matters only when the counter goes below 0). `iblocks`
counts file system blocks: the shift by sectors of `ext4_set_inode_blocks` and of
`ext4_inode_blocks` undo each other. `BlockInGroup` is what
`ext4_get_group_no_and_offset` computes, not what its comment says. `BitMax`,
`BgNumGdb` and `GroupSparse` are the functions of `super.c` that say how many blocks
the superblock and descriptor copies take in a group; where the image really has
them is the constant `AtFront`, and `BitsAgree` compares the two.
`Unmount` is `super_group_uninit` and `super_uninit`, `Mount` is `super_fill` and
`super_group_fill`. Whether a bitmap's buffer reaches the device is BufferCache's
question; here a bitmap is its current contents. The kernel holds the inode's lock
while it sends a write or truncate, so one worker at a time works on a file
(`Unlocked`, external).

### ExtentTree and the code

A node is a header (`eh_depth`, `eh_max`) and a sequence of entries; an index entry
is an entry with `len` 0. Node 0 is `i_data` of the inode. `StartWrite` is
`ext4_ext_get_blocks` up to `ext4_ext_insert_extent`, whose rounds are the actions
that follow: `AppendExtent`, `PrependExtent`, `PutExtent`, `SplitLeaf` are
`ext4_ext_insert_leaf`; `PutIndex` and `SplitIndex` are `ext4_ext_insert_index`;
`Grow` is `ext4_ext_grow_indepth` with the new search; `NoBlock` is its error path.
`i` counts the levels done, as in the code, and `spt` has the siblings not yet
linked. `StartTruncate`, `RemoveLeaf`, `Descend`, `Ascend`, `EndTruncate` are the
rounds of `ext4_ext_remove_space`, with `i` the level. `dirty` are the nodes that
`__ext4_ext_dirty` and `fs_mark_buffer_dirty` have marked.

* `map` is a history variable: what callers were told. `intact` is another: it
  becomes FALSE when the code does one of four things that damage the tree
  (section 4). Properties of the tree are stated for intact trees, and what
  happens to a damaged one is not followed.
* The allocator appears as `Candidates`: some free block, the first of its group,
  since `ext4_new_meta_blocks` finds a run of one. Which group follows from the
  goal, whose computation is left out.
* Only one operation works on a file at a time (the kernel's inode lock), so
  nothing interleaves. The steps are separate because space can run out at each.
* Left out: reads of nodes that fail, references to buffers, unwritten extents and
  `ext4_ext_split_extent_at`, which have no caller.

### FileOps and the code

`Read` to `ReadEnd` are `op_read` with `first_read`; `Write` to `WriteEnd` are
`op_write` with `first_write`; `Truncate`, `TruncateTree` and `TruncateEnd` are
`op_truncate` and `op_ftruncate`. A round of a loop is a step. When a write needs a
block, `WriteAllocate` is the step `StartWrite` of `ExtentTree`, the steps of the tree
follow, and `WriteAllocated` goes on when they are done; truncate does the same.
`PRead`, `PWrite` are `pread_buffered`, `pwrite_buffered` with their three sections:
the middle one copies all whole blocks through the buffer of the first, so all but
the first block are `Junk` when read and do not arrive when written.

* A byte is the number of the write that it comes from, or what was in the block
  before. `file` is a history variable: the file as POSIX has it.
* `Begin` and `PutInode` are the copy of the raw inode: an operation takes size and
  extent root from the inode table and puts them back when `i_data_dirty` says so.
* `harm` and `met` are history variables that name what the code does wrong
  (section 4); each property says which of these it excludes.
* The kernel truncates nothing while a write is under way and a file has one name,
  so operations on it do not overlap.
* Left out: `i_blocks` in sectors, times, files without extents (read only).

### Directory and the code

`Readdir` is a call of `op_readdir`, `Fill` to `ReaddirEnd` are rounds of its loop;
`Search` to `SearchEnd` are the loop over the entries in `inode_get_idx_by_path`.
Both use `inode_dentry_get`, whose block buffer is `ctx` and whose retry after
`dir_ctx_update` is `Refill`. `GetDataPblock` is the block map of an inode without
extents. The directory never changes; the kernel calls again with the offset of
the last entry it took (external). Every index block is there.

`Leaves` is the layout of an ext2 file without arithmetic on block numbers: the
blocks below the index blocks, one index block after the other. `DirFormat` is what
the code takes for granted of a directory on the disk: it ends within the map, and
in each block the records lead from the first to the end of the block.

### RbTree and the code

`Insert` is the descent and `rb_link_node`; `RecolorUncle`, `RotateGrandparent`,
`EndInsert` are `rb_insert_color`; `Erase` is `rb_erase` with the correction of the
ends, `Unlink` and `Supplant` the two halves of `__rb_erase`; `SiblingRed`,
`SiblingBlack`, `SiblingFixes`, `EndErase` are `__rb_erase_color`. A side is a
parameter where the code has the same lines twice. `rb_replace_node` and
`rb_augment_*` have no caller.

## 3. What TLC checks

All bounds are constants of the cfg files. *V* marks a run that refutes what a
test of the repository says; section 4 has the finding.

| Run | Instance | Shows |
|---|---|---|
| `cache_single` | 1 client, 2 blocks, 3 read/update operations, below the free-list limit | `ReadsLatest`, `Unflushed`, `FlagUpdatesExclusive`, implements `CachedDisk`, `WritesReachDevice` |
| `cache_concurrent` | 2 clients, 1 block, 2 operations of any kind, drop at every release, transfers may fail | `TypeOK`, `RefCount`, `BufferLock`, `EventToken` (with: a submission never blocks), `DirtyCounted`, `OpsReturn`, `UnmountEnds` |
| `cache_drop` | 1 reader, 3 blocks, 5 operations, free-list limit 1 | `FreelistSound` (with: nothing left after unmount), `NoUseAfterFree` |
| `dcache_concurrent` | 2 workers, 3 lookups of 8 paths, one long name | `TypeOK`, `NoNullEntry`, implements `PathWalk` |
| `dcache_single` | 1 worker, 4 lookups | `RingSound` (with: a name is cached once), `LookupReturns` |
| `alloc_single` | 1 worker, 2 files, 4 groups (one full, two uninitialised, the last short), sparse superblocks, 7 calls, 1 remount | `BitsAgree`, `CountsAgree`, `SavedAtUnmount`, implements `BlockPool` |
| `alloc_concurrent` | 2 workers, 3 calls, 4 groups with `meta_bg`, two uninitialised | `BitsAgree`, `CallsReturn` |
| `extent` | 6 blocks, 6 operations, 2 entries in the inode and 3 in a node, 12, 9 or 5 free blocks | `LookupAgrees` (with: the next allocated block), `TreeShape`, `BlocksAccounted`, `ChangesMarked`, `OpsReturn` |
| `rbtree` | 9 nodes, 8 keys, any number of calls | `Balanced`, `WalksAgree`, implements `BlockIndex` |
| `file` | 3 blocks of 2 bytes, 3 writes and truncates and any number of reads, 5 or 2 free blocks | `WrittenStays`, `ReadsWritten`, `InodeSaved`, `OthersUntouched`, `FileOpsReturn` |
| `directory` | 1, 3 and 9 blocks of up to 2 entries, a buffer that takes 1 or 2 | `ListsOnce`, `SearchExact` |
| `file_large` V | one write of 2 whole blocks | a read does not return the second block |

**Why the bounds are enough.** Two clients and one block already let every pair of
threads meet on one buffer; two operations are those of two clients at once, or a
second one of the same client on what the first left in the tree, on a list or in
flight. (Without the two liveness properties the invariants of `cache_concurrent` can
be checked with `MaxOps = 3`, in which a third operation meets what two concurrent
ones left: they hold in all 4.4 million states.) Data properties need a second block so that a
release drops or flushes *another* buffer. Dropping with limit 1 and three blocks
fills the list, passes the limit and empties it. In `DCache` three lookups are two
insertions that race and one that meets the result. The name space has the same
names in different directories, so a wrong parent shows. In `BlockAlloc` seven calls
fill the free blocks, are refused, free and allocate again; the last group is short,
and uninitialised groups have either junk content; the third group of the `meta_bg`
layout has descriptors without a superblock. In `ExtentTree`
six extents that do not join make three leaves, a second index level and a split of
an index; with 9 blocks space runs out after a split, with 5 before one. The requests of
`FileOps` have heads, whole blocks and rests, alone and together, within three blocks,
and two free blocks run out in the head, in the loop and in the tree. Nine nodes
make a red-black tree of four levels, in which every case of both loops occurs on
both sides and the loops take several rounds. With one direct block and two
addresses in an index block, nine directory blocks reach the third indirection.

**Where one client stands for a restriction.** `ReadsLatest`, `Unflushed`
and `Implements` of the cache hold with one client (the `-s`
mount), below the free-list limit and without `fs_bwrite` on a buffer in flight.
`BitsAgree`, `CountsAgree` and `Implements` of the allocator hold as
long as no two calls overlap; the history variable `serial` says so, and the
properties are conditional on it. In the same way the properties of the extent
tree are conditional on `intact`, those of files also on `harm` and `met`. The *V* run
and section 4 say what breaks each
of them otherwise.

**Fairness.** `FairSpec` has weak fairness of each thread's own steps: threads of
the process are scheduled, mutexes and semaphores are taken by somebody when free,
and the C library completes transfers; an operation on the extent tree or on a file
goes on once it has begun (`FileSpec`). `Directory` also has the kernel continue a
listing that it has begun; `ScanEnds` (every listing and search ends) holds under it
and can be added to `Directory.cfg` as a PROPERTY. Nothing forces a client to start an
operation or the user to unmount. Weak fairness suffices because a lock or token is
never free only intermittently in the checked instances: a waiter that could be
overtaken for ever would show as a violation.

## 4. Findings

`PROJECT.json` has that of the *V* run with its quotation: a transfer of several whole
blocks goes through the buffer of one (`disk.c:67` and `:123`).

`intact` becomes FALSE in four ways. A truncate that begins in a hole removes
nothing (`extents.c:1315`); one that begins inside an extent, or at an extent that is
not the first below an entry of the root, removes too much (`:1243`: `new_len` is
always 0; and `:1347`: a node that keeps entries is entered again from its start); an
extent put in front of another one keeps the physical start of the latter (`:802`);
an insertion that fails after a split frees the sibling together with the entries
moved to it (`:1141`).

`harm` and `met` name what file operations do wrong besides: an unaligned head that
gets no block is written to block 0 (`block0`, `op_write.c:36`); a head is counted
twice in the new size (`size`, `op_write.c:102`); a head of a read in a hole is read
from block 0, and a hole is stepped over in whole blocks without moving `lblock`
(`hole`, `op_read.c:110`), so that the assertion at the end can fail. A write that
runs out of space aborts by its assertion (`op_write.c:108`). New blocks, and what a
truncate leaves of the last one, are not cleared, so bytes that nobody wrote are not
0: `WrittenStays` and `ReadsWritten` are about written bytes.

The same models show more limits of the code. Each is reproduced by the cfg of the
run named, with the constants changed as given and the property as the only one:

| Property | Start from | Change | What happens |
|---|---|---|---|
| `CleanMeansFlushed` | `CacheSingle` | `Blocks = {1}`, `Ops = {"overwrite"}`, `MaxOps = 2` | a completed write clears `BH_Dirty` of newer data (`buffer.c:680`) |
| `Unflushed` | `CacheSingle` | `MaxOps = 5`, `FreeThreshold = 0` | after_buffer_sync puts a used buffer on the free list (`buffer.c:681`); its new contents are dropped |
| `FlagUpdatesExclusive` | `CacheSingle` | `Blocks = {1}`, `Ops = {"overwrite"}`, `MaxOps = 2` | two updates of `b_state` overlap, and `set_bit` is not atomic (`bitmap.h:88`) |
| `NoneLeft` | `CacheSingle` | `Blocks = {1}`, `MaxOps = 2` | list membership is tested outside the lock (`buffer.c:444`); a buffer is added and counted twice |
| `UptodateValid` | `CacheSingle` | `Blocks = {1}`, `Ops = {"read"}`, `MaxOps = 1`, `FaultyDevice = TRUE` | a failed read counts as a good one (`buffer.c:585`) |
| `LookupReturns` | `DCacheConcurrent` | `FairSpec`, `LongNames = {}`, `Paths <- MCFlatPaths` | two first insertions trap a third lookup on a lost ring (`dcache.c:118`) |
| `Implements` | `DCacheConcurrent` | `Threads = {t1}`, `LongNames = {"a"}`, `MaxLookups = 2` | the children of a directory whose name does not fit an entry become children of the root (`inode.c:265`) |
| `Exclusive` | `AllocConcurrent` | `UninitGroups = {}` | two workers find the same clear bit (`alloc.c:56`) |
| `NoOtherUsers` | `AllocConcurrent` | | two workers fill one bitmap (`super.c:421`, against the comment at `:389`) |
| `MetaMarked` | `AllocSingle` | `FlexBg = TRUE` | group number and offset are confused (`super.c:272`), and a group's own metadata stays unmarked |
| `FreedUnused` | `CacheDrop` | `Threads = {t1, t2}`, `Blocks = {1, 2}`, `MaxOps = 3`, `FreeThreshold = 0` | a reference is taken after the tree's lock was dropped (`buffer.c:737`), and `remove_first_bh_from_freelist` only warns of `b_count` (`:434`) |
| `CountsAgree` | `AllocSingle` | the *flex* layout | an extent over a group boundary is freed in the bitmap and counter of its first group only (`alloc.c:134`) |
| `InsideBitmap` | `AllocSingle` | the *flex* layout | the end of a full bitmap is taken for a free block (`bitmap.c:135`) |
| `LookupExact` | `Extent` | `LBlocks = {0, 1, 2}`, `Held <- Alone`, `MaxOps = 3` | the tree is not intact: a truncate in a hole removes nothing (`extents.c:1315`) |
| `ReadsExact` | `File` | | the cases of `harm` and `met`, and bytes that were never cleared |

The *flex* layout is `AtFront <- FlexAtFront`, `BitmapBlk <- FlexBitmapBlk`,
`InodeBitmapBlk <- FlexInodeBitmapBlk`, `InodeTable <- FlexInodeTable`,
`Used <- FlexUsed`, `Goals <- FlexGoals`, `FirstBlock = 0`, `PerGroup = 12`,
`BlocksCount = 36`, `BitmapBits = 16`, `ReservedGdt = 0`, `FlexBg = TRUE`,
`UninitGroups = {}`, `MaxMounts = 0`.

## 5. What is proved

For every value of the constants that satisfies the named assumptions
(`CacheConstants`, `DCacheConstants`, `AllocConstants`, `DirConstants`, `DirFormat`,
`NodesAssumption`, which TLC evaluates in each run). Each inductive invariant below was first checked by TLC as an invariant of the
runs' instances.

**The cache, any number of clients, any operation, failing transfers.**

* `BufferCacheProofs!TypeCorrect`: `Spec => []TypeOK`. `TypeOK` is not inductive:
  a step that dereferences `bh[a]` needs it to be a buffer and not NULL. The
  inductive invariant `TypeInv` adds `PointersOK`, which says at which labels a
  thread has a buffer, which victim it has, and which buffers the lists hold.
* `BufferCacheProofs!LockExclusion`: `Spec => []BufferLock`. `LockInv` restates
  `BufferLock` per thread and is inductive together with `TypeInv`: a thread that
  takes `b_lock` found it free, so nobody else and no transfer has it; `submit_bh`
  hands it to the transfer; the callback gives it back before it ends.
* `BufferCacheProofs!DirtyListCounted` and `CountsReferences`: the dirty list has
  no buffer twice and its counter is its length; `b_count` is the number of users
  and of transfers. Both properties are inductive themselves, the first with
  `TypeInv`, the second with `LockInv` as well. `CountsReferences` counts threads by
  `Cardinality`: each step adds one user, removes one, or hands a reference from a
  thread to its transfer.
* `BufferCacheEvents!TokenInOnePlace`: `Spec => []EventToken`. The hard part is that
  `submit_bh` finds the token there. `SemInv` adds why: a buffer that anybody waits
  for, writes or queues is `BH_Uptodate` (`UptodateInv`), so a read is prepared only
  when nobody does (`ReadInv`); a write is prepared only when `b_count` was 0, so no
  client is past the lookup with it (`WriteInv`); whoever submits waits (`WaitInv`).

**The cache, one client that reads and updates (`Alone`).**

* `BufferCacheData!FlagsExclusive`: `Spec => []FlagUpdatesExclusive`, also with
  drops and failing transfers. `TransferInv`: while a buffer is written the client is
  not past `lock_buffer` with it, while it is read the client waits for it.
* `ReadsSeeWrites`, `NothingForgotten`, `CacheRefined`: `ReadsLatest`, `Unflushed` and
  `Implements`, as long as the free list is within its limit (`[]WithinLimit`, so that
  nothing is dropped) and transfers do not fail. `TreeInv`: a block has one buffer, the
  one the tree finds; `QueueInv`: a dirty buffer is queued, being written or in
  somebody's hands; `ContentInv`: where the newest contents are; `ExitInv`: the
  writeback thread ends only when told to and with an empty list. In the refinement
  a flush is the end of a transfer, and `ContentInv` says that what it brings is the
  newest version.

**The cache, one client that only reads (`Reader`).**

* `BufferCacheFree!FreelistKept` and `NothingFreedUsed`: `Spec => []FreelistSound` and
  `Spec => []NoUseAfterFree`, for any limit of the free list, with drops and failing
  transfers. `CleanInv`: there is nothing to write back. `RingInv`: the links are
  inverse to each other and no set of listed buffers is closed under them, so that
  there is no second ring beside the one through the head; with it a list whose head
  is alone is empty, and the counter 0. `PlaceInv`: a listed buffer is the one the tree
  finds for its block. `ClientInv`: the client's buffer is in the tree, and listed
  only until `detach_bh_from_freelist`; the victim of a drop is another one, first off
  the list and then out of the tree. This is why a drop never takes the buffer at hand.

Without `Alone`, `Reader`, `WithinLimit` or the good device the table of section 4 has
counterexamples: they are limits of the code, not of the proofs.

**The directory cache.**

* `DCacheProofs!TypeCorrect` and `NeverNull`: `Shape` adds to the types that
  `childs` and `siblings` of an entry lead only to linked entries of the same
  directory (`Pointers`) and what each worker's locals are at each label
  (`ThreadShape`). It survives every race, since every store writes a pointer to a
  linked sibling; the ring itself does not survive, and is not needed.
* `DCacheProofs!WalkRefined`: under `LongNamesLast` (nothing is looked up below a
  directory whose name does not fit an entry), `Spec => Implements`. `Sound` says
  that cached entries agree with the disk and that the entry a worker is at is the
  one of the directory it reads. The assumption is needed: section 4 has the
  counterexample without it.
* `DCacheProofs!RingKept`: with one worker and under `LongNamesLast`,
  `Spec => []RingSound`. `RingSound` follows the ring with a recursive function; the
  inductive invariant `RingShape` says instead that the linked children are one
  `Cycle`: closed under `siblings`, and no smaller set of them is. That is easily kept
  by an insertion after the first child (`CycleInsert`). It also has what a search
  in progress has seen (`Passed`), so that a miss means that no child has the name.
  `RoundTrip` shows that going round a cycle of k entries meets them all and ends
  where it began.

**The allocator.**

* `BlockAllocProofs!UnmountSaves`: `Spec => []SavedAtUnmount`, with any number of
  workers on any image. `SaveInv`: what is not marked dirty is the same on the device.
* `BitmapsRight`, `CountersRight`, `PoolRefined`: `BitsAgree`, `CountsAgree` and
  `Implements`, on a `PlainImage`: no `flex_bg`; superblock copy and descriptors of an
  uninitialised group where the code expects them; groups that begin with metadata, so
  that no extent crosses into the next; counters wide enough for the device. Both
  instances of the runs are plain images, the *flex* layout of section 4 is the
  counterexample. The properties speak of the time between calls; in the middle of a
  call the bitmap, the group's counter, the superblock's and `i_blocks` are changed one
  after the other. `SerialInv` therefore keeps books that are off by exactly what the
  call has still to do (`Books`, with `AllocBooks` and `FreeBooks` giving the
  difference per label), together with what the scan over the groups has found full
  (`Scanned`), so that ENOSPC means that every group is.

**Directories**, of any format that `DirFormat` allows, with any `BS`, `NDir` and
`Addrs`.

* `DirectoryProofs!BlocksFound`: `GetDataPblock(l)` is `Leaves[l + 1]` for every l
  below `MaxTind`, which is also the length of the layout. `JoinedFlat` is the fact
  behind it: element j of sequences of length L, joined, is element j % L of
  number j / L. It is used for the second level and, with the result, for the third.
* `ListingComplete` and `SearchCorrect`: `Spec => []ListsOnce` and
  `Spec => []SearchExact`. The properties speak of a whole directory, the loops of
  one offset. `At(d, off, n)` connects them: an entry, or the end, is at `off`, and what
  `From` has from there on is what is left of the entries after n. `Advance` is the
  step from an entry to the next, over the end of a block too. The inductive
  invariant `ScanInv` says that `cookie` and `offset` are such places for the n names
  listed so far (`ListedInv`), that none of the entries a search has passed has the name
  (`PassedInv`), and that the block buffered is the one whose number is kept with it
  (`BufferedInv`); the latter is where `BlocksFound` is needed.

`Joined` and `From` are recursive functions. What they compute is shown by taking the
smallest argument for which it would be something else (`Smallest`); that the
functions exist at all is shown in the same way (`UptoExists`, `PartlyExists`).

**The red-black tree**, of any finite set of nodes with any keys.

* `RbTreeProofs!InvariantHolds`: `Spec => []IInv`. `IInv` says that there are two
  functions the code does not keep: D, the nodes below each node (itself included),
  and h, the black height of each. With them nothing has to be said by recursion over
  pointers, and a rotation changes D at two nodes only. `Shape` says with D that links
  up and down agree and that the left side of a node is before it, the right side
  after it; `EndsOf` that `rb_leftmost` and `rb_rightmost` are the ends; `Colours`
  what the colours are at each place of the code. Between two rounds of
  `rb_insert_color` the only fault is that `node` and its parent are both red; between
  two rounds of `__rb_erase_color`, that one black is missing below `node` on its side of
  `parent`. Each case of a round moves that fault up or removes it. TLC
  checked `IInv`, with D and h computed, on all states of the run before the proof.
* `BalancedBetweenCalls` and `WalksAgreeAlways`: `Spec => []Balanced`,
  `Spec => []WalksAgree`. The properties recurse over the tree; what
  their functions compute is shown from the bottom up: a node with the smallest D for
  which it would be something else has sides for which it is right.
* `ImplementsIndex`: `Spec => Implements`. The sequence of the tree in order is the one
  sorted list of its nodes (`ListUnique`), so a round of rebalancing, which keeps
  the nodes, is a stutter, and what a call adds or removes is at its place in it.

**Model-checked only.** Liveness (`OpsReturn`, `UnmountEnds`, `WritesReachDevice`,
`LookupReturns`, `CallsReturn`, `FileOpsReturn`, `ScanEnds`) is out of the prover's reach.
`LookupAgrees`, `TreeShape` and `BlocksAccounted` of `ExtentTree` recurse over a tree of
blocks that a step changes in the middle: their proof needs a description of the whole
tree that each split keeps, as `IInv` is one of `RbTree`, which is not there yet. `ChangesMarked` rests on the shape of the extent tree (a split needs a path no
longer than the tree is deep), and so do the properties of `FileOps`, whose loops move
by the length of the run that the tree finds.

## 6. Not modelled

* Unwritten extents, `ext4_ext_split_extent_at`, `fs_bforget`, `rb_replace_node` and
  `rb_augment_*` have no caller.
* `op_getattr`, `op_open` and `op_readlink` are a path lookup and a copy of fields.
* Checksums and logging are arithmetic and output; `list.h` is modelled where the
  cache uses it, and most of it is not used.
* Failing reads of metadata, `malloc` and `aio_read`: the code asserts or ignores
  them.
* A file with two names: the kernel has two inodes for it here, so two operations on
  it could overlap and one would overwrite the other's inode (`op_write.c:65`).
* A crash, since the code does not handle one.

## 7. Plan

Done: `BufferCache`, `DCache`, `BlockAlloc` with the geometry of `super.c`,
`Directory` and `RbTree`, with proofs; `ExtentTree`, `FileOps`. Left:

1. `ExtentTree`: an inductive form of `TreeShape`, as `IInv` is one of
   `Balanced`, and with it `ChangesMarked` and `LookupAgrees`.
2. `InodeSaved` and `OthersUntouched` of `FileOps`, which need from the tree only that
   a search never meets an empty node, so that runs have a length.
3. An abstract map from logical to physical blocks for `ExtentTree` to implement.
