# lwext4 in TLA+

A verification project for lwext4, an ext2/3/4 file system library for small
systems. The modules model its core from the source, TLC checks them on small
instances, TLAPS proves for every instance what the cache, the journal, the
allocators and the extended attributes promise (section 4).

## 1. The system

| Component | Source | State | Operations | Talks to |
|---|---|---|---|---|
| Block cache | `ext4_bcache.c` | buffers by LBA, LRU tree, dirty list, flags, reference counts | find/alloc, free, drop, invalidate, cleanup | called by the device front end; calls back `end_write` of the journal |
| Device front end | `ext4_blockdev.c` | `cache_write_back` nesting | get, get_noread, set, flush, shake, direct read/write, bytes | cache below, every layer above |
| Transactions | `ext4_trans.c` | none of its own | set_block_dirty, block_get, try_revoke_block | journal when one is started, cache otherwise |
| Journal | `ext4_journal.c` | the ring of log blocks, journal superblock, running transaction, checkpoint queue, block records, revoke lists | start, stop, new/abort/commit transaction, purge, end_write, recover | cache buffers, `end_write` callbacks |
| Block allocator | `ext4_balloc.c`, `ext4_bitmap.c` | block bitmaps, free counts of groups and superblock, `i_blocks` | alloc_block, try_alloc_block, free_block, free_blocks | group references, transactions |
| Inode allocator | `ext4_ialloc.c` | inode bitmaps, free, directory and unused counts, `last_inode_bg_id` | alloc_inode, free_inode | group references |
| Core | `ext4_fs.c` | group references with lazy initialisation, inode references, indirect maps | alloc/free inode, truncate, get/append block | allocators, extents |
| Extents | `ext4_extent.c` | extent tree of an inode | find, insert, split, grow, remove, convert | block allocator |
| Directories | `ext4_dir.c`, `ext4_dir_idx.c`, `ext4_hash.c` | directory blocks, hash tree | find, add, remove entries, split | core |
| Attributes | `ext4_xattr.c` | in-inode and block attributes | get, set, list, remove | allocator |
| Public API | `ext4.c` | mount points, device table, `curr_trans`, file handles | mount, files, directories, links, journal control | everything, under the mount point lock |
| mkfs, superblock, groups | `ext4_mkfs.c`, `ext4_super.c`, `ext4_block_group.c` | the volume's geometry | format, geometry arithmetic, accessors | |

All API calls of a mount point run under one lock (`EXT4_MP_LOCK`), so calls do
not interleave. What is hard is different: the write-back of the cache runs
inside other calls and calls into the journal; the device performs one write
after the other and the power can fail between any two; a transfer or a memory
allocation can fail in the middle of a call; the log is a ring; counts are kept
in four places. `PROJECT.json` lists these hazards line by line.

What makes each component correct:

* **Cache**: a reader sees the last write or what the device holds; the device
  only receives latest contents; eviction loses nothing; every dirty buffer can
  be found by a flush, and a flush ends.
* **Journal**: after a crash at any device write, a transaction took effect as
  a whole or not at all, and one whose call returned took effect; log space is
  reused only when nothing needs it; every call returns.
* **Allocators**: nothing is handed out twice, nothing is lost, the counts agree
  with the bitmaps, ENOSPC only when there is no space.
* **Maps of an inode** (extents, block maps): the tree is sorted and covers each
  logical block once; no block is lost or used twice; a write changes the map at
  one block and a cut removes a tail.
* **Directories**: a name is found exactly when it was added, in an indexed
  directory as in a linear one; a reader gets every entry that stays once.
* **Attributes**: what is read is what was set last, wherever it is kept; another
  inode that shares the block does not notice.
* **API**: link counts and dots match the entries, an inode in use has a name,
  a call does all it says or nothing.

## 2. Modules

| Module | Models | Kind |
|---|---|---|
| `BlockStore` | what a cache promises: blocks with a current and a stable value | abstract specification |
| `BlockCache` | `ext4_bcache.c` and the cached access of `ext4_blockdev.c` | component, refines `BlockStore` |
| `BlockCacheProofs` | types, the dirty list, the refinement, the order of eviction and what it saves, of `BlockCache` | proofs |
| `JournalLog` | log blocks, the ring, the three recovery passes | operators |
| `Journal` | `ext4_journal.c`, `ext4_trans.c`, the transaction calls of `ext4.c` | component with crashes |
| `DataTheorems` | facts about sequences, sets of numbers and sums over finite sets | proofs |
| `JournalRecords` | lemmas about what one operator of `Journal` does to records, queue and log | proofs |
| `JournalProofs` | the invariant of `Journal` and the theorems | proofs |
| `Bitmap` | `ext4_bitmap.c` | operators |
| `Layout` | geometry (`ext4_super.c`), addresses, what mkfs writes, lazily initialised bitmaps | operators |
| `Balloc` | `ext4_balloc.c` | component over `Layout` |
| `Ialloc` | `ext4_ialloc.c`, `ext4_fs_alloc_inode` | component over `Layout` |
| `LayoutTheorems` | facts about the arithmetic of `Bitmap` and `Layout` | proofs |
| `BallocProofs`, `IallocProofs` | theorems about `Balloc` and `Ialloc` | proofs |
| `BlockPool` | the block allocator as the maps see it: goals, running out | operators |
| `ExtentTree` | `ext4_extent.c` | operators over `BlockPool` |
| `IndirectMap` | block maps with three levels (`ext4_fs.c`) | operators over `BlockPool` |
| `FileMap` | what both kinds of map promise | abstract specification |
| `InodeMap` | writing, cutting, freeing and reusing an inode (`ext4_fs.c`, the block loop of `ext4_fwrite`) | component, refines `FileMap` |
| `DirBlock`, `DirIndex` | records in a directory block; the hash tree (`ext4_dir.c`, `ext4_dir_idx.c`) | operators |
| `NameSet` | what a directory promises | abstract specification |
| `Directory` | adding, removing and reading entries | component, refines `NameSet` |
| `XattrArea` | an area of attributes: entries from the front, values from the end | operators |
| `AttrMap` | what attributes promise | abstract specification |
| `Xattr` | `ext4_xattr.c`, the attribute calls of `ext4.c` | component, refines `AttrMap` |
| `XattrProofs` | theorems about `Xattr` | proofs |
| `NameTree` | paths, entries and link counts (`ext4_link`, `ext4_unlink`, `ext4_generic_open2`, hard links) | operators |
| `NamedTree` | what the calls promise of the tree of names | abstract specification |
| `Namespace` | the calls of `ext4.c` that change the tree, with their transactions | component, refines `NamedTree` |
| `MC...` | the instances the runs use | constants |

Definitions keep the names of the functions they model; `PROJECT.json` maps each
to its lines. Definitions whose comment starts with "Mutant" are variants of the
next definition with a plausible mistake: each property is shown to be violated
when one of them takes its place.

### BlockCache

One action per operation, since each runs under the lock. A buffer is named by
its LBA. `lru_id` is only compared, so its order is the relation `older`; the
dirty list is the set of its members and `ext4_block_cache_flush` empties it in
any order. `Shaken` is the set of buffers an eviction drops, an LRU prefix of
the unreferenced ones. With `Faults` a transfer or an allocation may fail, and
the buffers written before it stay written. Membership in the lru tree follows
from the reference count, so a removal that the code forgets there is not seen.
The flag `dont_shake` is left out: it keeps `ext4_block_cache_shake` from being
called from inside itself or a flush, which only the `end_write` callback of the
journal does; these buffers have none, and `Journal` writes back on its own terms.
`read_refctr` is never incremented in the source and is left out.
`ext4_block_readbytes`/`writebytes` are not modelled.

### Journal

The file system is one process; `dq` holds the device writes a step issued, and
the device performs them in order before the next step. `Crash` is possible
between any two, and at once leads to a volume that has to be recovered.
`Recoverable` does not wait for the crash: it evaluates the recovery passes of
`JournalLog` on the device as it is in every state, with any part of `dq`
performed. A commit is split where another part of the program runs in the
middle of it: where a log block is allocated (which may purge the checkpoint
queue and write home blocks back), where blocks are written, where transactions
are completed. A transaction is named by its number, which is also what it
writes, so contents tell which transaction a block is from. `want` and `now`
are ghosts: what a crash must leave behind, and what the running transaction
makes of it.

Assumed of the workload and the device: no checksum features; a block is written
as a whole; writes are performed in order; a block freed in a transaction is not
dirtied again in the same one, and no call both frees a block and writes file
data to it in one transaction; during a purge the cache has room for the log
block that is read back; the revoke list of a transaction fits in one block;
recovery itself meets no device error. A transaction too large for the log runs
into the code's assertion (`op.at = "panic"`).

The constants `Overlap`, `Frees`, `Aborts`, `Stops` choose the workload. The
passing runs leave out the combinations in which the code deviates (see
section 3).

### Bitmap, Layout, Balloc, Ialloc

A bitmap is the set of its 1 bits. `ext4_bmap_bit_find_clr` keeps the code's
deviation of reporting the start of the search for a bit before the first byte
boundary. `Layout` computes what mkfs computes from the length of the device:
groups, headers, where bitmaps and inode tables lie, and the free counts, and
the bitmap a group gets when it is referenced for the first time. Products of
groups and blocks are kept in 32 bits (`Word`).

`Balloc` and `Ialloc` start from a volume as mkfs leaves it, all groups
uninitialised. Each operation has its error paths: breaking off before any
change, after the bitmap is changed, and after the counts are changed; one
operation of a behaviour does so. `ext4_balloc_free_blocks` loses an error in
giving back a group: revoking the blocks overwrites it, and the call returns EOK
or, if groups are left, runs into its assertion (`ret = "ASSERT"`), which never
returns. `ext4_fs_alloc_inode` whose inode cannot be read leaves it in `unread`;
the next step is then `ext4_ialloc_free_inode` on it, which may fail, too.
`failed` remembers it: from then on the counts
may be off (that is what the code does), but blocks are still never shared.
`own` is a ghost: what the callers hold. The bitmaps do not know owners, so one
inode in `balloc.cfg` suffices: a block handed out twice shows as an allocation
that adds nothing to what the inode holds (`NearestFirst`) and in `CountsMatch`.
A goal behind the end of a partial group makes the search run past the bitmap;
what it finds there is any bit of the next byte, or nothing.

### BlockPool, ExtentTree, IndirectMap, InodeMap

A map is a record: the root in the inode, the nodes or tables by their block, the
free blocks, and the faults the call will meet (`quota` allocations succeed, the
blocks of `bad` cannot be read). An operation is an operator from one map to the
next, whose intermediate maps are those the code leaves if it breaks off there.
A path is the sequence of positions from the root to a leaf, as in the code.
Recursion over levels is written with recursive functions.

`InodeMap` makes these operators into calls: one block of a write, at, in front
of or behind the end of the file; a cut; the release of the inode and its reuse
for another. Its inodes are kept in blocks, not bytes. `view` is what a reader
finds in the map, and refines `FileMap`, in which a write that succeeds gives its
block a physical one nobody had and a cut keeps exactly what is in front of it.
The state of an extent that is allocated but not written is part of the tree; a
reader sees such a block as absent. Differences of blocks that the code keeps
without sign and adds to a physical block lead out of the volume when they go
below zero: `Beyond`, 2^30, stands for 2^32 there, since it need only be more than
any block of the instance. Not modelled: errors in the walk of
`ext4_fs_free_inode` over tables, and requests for several blocks in one
`ext4_extent_get_blocks`, which no caller makes.

### DirBlock, DirIndex, Directory

A block is a row of records whose lengths are counted in cells; an entry that is
removed leaves its space to the record in front of it, or a record without inode
at the start of a block. Names have a length and a hash, both set by the
configuration, and several names have one hash, the case for which the code
marks a continued leaf with the lowest bit. `reader` is the byte offset of an
`ext4_dir` between two calls of `ext4_dir_entry_next`; `listed` and `stay` are
ghosts: what it returned, and what was there all the time. When the index cannot
be split for want of space, the way out of `ext4_dir_dx_add_entry` releases a
block reference that was never set (`"UNSET"`); the call then returns its error
or the program stops (`Outcomes`). What such a release may do to other memory is
not modelled.

### XattrArea, Xattr

An area has words, so that moving values is moving words: an entry has an
offset and a length, and what is read is whatever words are there. The area
behind the inode and the block have different capacities and headers. A second
inode (`other`) may share the block; its reference count is in the block.
`result` holds the value of a call, so `AttrMap` compares what is read with it.
`Written` describes an area as the program writes it, `Packed` how its values lie;
a run starts with areas that are `Readable`, not with any words. A write to a
shared block makes the copy, goes on with the reference to the original that it has
just given back, which has no data any more, and so stops (`"STOPPED"`).

### NameTree, Namespace

`tree` is what is committed: for each inode kind, entries, dots, link count,
size. A call runs alone (it holds the lock), but truncation and `ext4_dir_rm`
consist of many transactions: `at` is the place of the call between two of them,
and `Crash` is possible there. In a journaled system an error or a stop undoes
the running transaction (`Journal` and `BlockCache` are about that), otherwise
it stays as it was left. Errors (`fault`) strike after each change that
`ext4_link` and `ext4_unlink` make. `NamedTree` says what each call may do to
what the paths lead to (`view`): all, nothing, or, for `ext4_dir_rm` and
truncations, a part. `LinkMax` stands for `EXT4_LINK_MAX`: a directory with an
index whose count reaches it has the count 1 from then on
(`ext4_fs_inode_links_count_inc`), and `LinksMatch` says of it only that; its dots
and its entry must match all the same.

## 3. Runs

All runs finish within five minutes with two workers.

| Run | Result | Question |
|---|---|---|
| `cache_order` | pass | Three blocks, two buffers, no errors: trees consistent, nothing lost by eviction, refinement of `BlockStore` |
| `cache_faults` | pass | Two blocks and buffers, nested references, failing transfers: refinement and flushability survive errors |
| `journal_crash` | pass | Two home blocks, three transactions in a log that wraps, blocks freed and reused, two crashes: atomic, durable, space reclaimed |
| `journal_overlap` | pass | Transactions over blocks of unfinished ones, aborted or failing to commit, two crashes |
| `journal_stop` | pass | Overlap, aborts, a log that fills, stop and restart: every call returns, stop brings every block home |
| `balloc` | pass | Three groups, eight free blocks, every order of allocation, release of single blocks and of ranges across groups, one failure |
| `ialloc` | pass | Three groups of two inodes, files and directories, inodes taken back that cannot be read, one failure, also of taking back |
| `inodemap` | pass | Four calls on full extent trees of up to three levels, full roots, unwritten extents of two and three blocks in the root and in leaves, empty files and block maps of three levels, each with any shortage of blocks or unreadable node: no leak, sound trees, refinement of `FileMap` |
| `directory` | pass | Four calls on linear and indexed directories, with colliding names, full leaves and a full root, and a reader: searches, listings and results agree, refinement of `NameSet` |
| `xattr` | pass | Four calls on areas that fill up, with a block of the inode's own or a shared one: references, areas, refinement of `AttrMap`, the other inode |
| `namespace` | pass | All calls in any order, on four systems (indexed or not, journaled or not, three inodes or four), with directories that reach the limit of the link count, errors and stops: links, orphans, refinement of `NamedTree` |
| `journal_missing_revoke` | violation | Overlap with frees: no revoke record for a copy whose buffer was already written back |

Bounds. Two buffers for three blocks force evictions in every order; a third
data value adds nothing since contents are only compared. Two home blocks and
three transactions are the least for a block whose older and newer copies and
another block's copies are in the log together, and with `JSize` 7 two of them
fit into the log and the third commit wraps and purges. Two crashes make
recovery run on what a recovered session left. Three groups give the allocators
a group that is neither the goal's nor next to it; the geometry (`InodesPerGroup
= 10` of 16 blocks) is the smallest in which a run of free blocks crosses a
group boundary. `CHECK_DEADLOCK FALSE` in the journal runs: with `MaxTrans`
transactions used up the system stops; in `inodemap`, `directory` and `xattr`
with `MaxCalls` calls, and the latter two where the program does; in `balloc` at the
assertion.

`RootMax = 2`, `BlkMax = 3` and `PerBlock = 2` make nodes that are full with a
handful of entries; the images start from such nodes, so that four calls are
enough for splits that go up to the root, a tree of three levels, and the
collapse after a cut. Eight logical blocks reach the triple indirect table. In
`directory` a block has four cells and the root two entries: six names fill both
levels. In `xattr` the lengths make two attributes fit behind the inode and a
third one not. `namespace` has two names and paths of at most three, the least
for a directory that is moved between two others; two blocks make a file that is
truncated in two transactions (`CONFIG_MAX_TRUNCATE_SIZE` is one block). `LinkMax`
is 4, so a directory with an index gives up counting at its second subdirectory. A call
whose first path leads nowhere where it must lead somewhere returns ENOENT at
once and is not made (`Finds`).

`Avoid`. Each of these four components has inputs for which the code deviates
from its promise. They are members of the constant `Avoid`, named in the module
that declares it; the passing runs leave those out, and each member that is taken
out of the set shows the deviation listed below. The price is that the passing
runs, and the theorems that name a member of `Avoid`, say nothing of these inputs:
where a hazard of `PROJECT.json` bites on one of them, its note says which case the
properties do not cover.

Fairness. `FairSpec` has weak fairness of `Progress`, the steps of a call that
was made and the device writes it waits for: the code is synchronous and holds
the lock, so nothing but a crash keeps it from its next step. Starting
transactions, freeing, aborting, stopping and crashing are not fair.

### Deviations seen and not kept as runs

Each is seen by changing the constants as said.

Cache and journal:

* `DirtyTracked` fails with `Faults = TRUE` in `cache_order`: a buffer whose
  write failed is dirty and on no list, so a later flush reports success.
* `ext4_bcache_invalidate_lba` stops at once if the first block of a range is not
  cached, whatever is cached of the rest; `Balloc` frees ranges with it.
* `Recoverable` fails in `journal_crash` with `Faults = TRUE` (a failed home
  write is counted as checkpointed) and with `JSize = 5` (a transaction with
  revoke records only moves the start of the log in memory only).
* `Recoverable` fails in `journal_crash` with `MaxTrans = 4`, `MaxCrash = 0`,
  `Overlap = TRUE`, `Frees = FALSE`: `jbd_trans_end_write` reads whether its
  transaction heads the queue before it finishes older copies of the block; a
  transaction that becomes the head meanwhile never leaves, and log space that
  is still needed is reused.
* `Recoverable` fails with `JSize = 6`, `MaxTrans = 2`, `MaxCrash = 0`, `Frees =
  FALSE`, `Stops = TRUE`: stopping stores sequence 0, so records of the previous
  session are valid again in the next.
* `ReadsLatest` fails with `JSize = 6`, `MaxTrans = 2`, `MaxCrash = 0`, `Aborts
  = TRUE`: freeing a block drops its buffer, which an abort does not restore.
* `CallsReturn` fails with `Aborts` and `Frees` together: a clean buffer still
  linked to the queue is never counted, and the purge loop repeats.

Allocators and mkfs:

* `ext4_balloc_free_blocks` reports success for a group it could not give back, or
  stops at its assertion (`ext4_balloc.c:331`); this is in the `balloc` run, no
  property is violated by it.
* `ext4_balloc_free_blocks` takes the bits of a bitmap block, not
  `blocks_per_group`, as the end of a group (`ext4_balloc.c:288`): with smaller
  groups a range across groups clears bits behind the end of the first. The run has
  the groups mkfs makes by default.
* `ext4_ext_find_goal` subtracts the distance to a later extent from its block
  without looking for zero (`ext4_extent.c:625`): the goal wraps to a group that does
  not exist, and a write fails although there is space. `MapSpec` lets a write fail.
* `CountsMatch` fails at once with `DeviceLen = 46` in `balloc.cfg`: mkfs counts a
  partial last group as a full one. With `Goals = {2, 47}` and `Faults = FALSE`
  as well `NoSharing` fails: the length of the search underflows for a goal
  behind the end of that group.

Maps of an inode (`InodeMap!Avoid`):

* `"prepend"`: `ext4_ext_insert_leaf` puts a block in front of an extent without
  moving the extent's physical start, and does not correct the keys above.
* `"hole_cut"`: `ext4_extent_remove_space` returns EOK without removing anything
  if the first block to go lies in a hole; the blocks behind it leak.
* `"restore"`: a failed split of an unwritten extent restores its length without
  its mark, and reports the success of that. Every failed split does so, so all of
  them are left out.
* `"half"`: `ext4_ext_split_node` that fails at its second or a later block loses
  the entries it had moved. Failing at the first, also after the tree has grown, is
  in the run.
* `"three"`: a write into the middle of an unwritten extent is to split it in three,
  in two steps. `ext4_ext_insert_extent` leaves the path on the right part it
  inserted, and the second step (`ext4_extent.c:1927`) cuts that one, in front of
  its start: `split - ee_block` is negative, its low 16 bits become a length, and
  the new part overlaps the others, against the comment at line 1922 ("split 1 extent
  to 3 and initialize the 2nd"). Both `TreeShaped` and `MapSpec` are violated, in the
  root and in a leaf.
* Read in the code, outside the modelled inputs: joining extents ignores
  whether they are written; a write into a hole of a block map looks the block
  up, gets 0 and writes block 0 of the device (`ext4_fwrite`); a table that
  cannot be read back after it was linked is freed and stays linked.

Directories (`Directory!Avoid`):

* `"sparse"`: a leaf that is full although its names fit in half a block is
  split at 0, in front of its first entry.
* `"lost"`: the result of the insertion into a half is not looked at.
* `"moved"`: a reader's offset is not adjusted when entries move, so a split
  makes it miss or repeat names.

Attributes (`Xattr!Avoid`):

* `"zero"`: moving values shifts the offset of entries without a value, which is 0.
* `"exact"`: the check of the area behind the inode counts from its header; an
  area that is exactly full counts as invalid and the next set erases it.
* `"ibody"`: removing an attribute behind the inode uses the search of the
  block, which was not made.
* `"grown"`, `"full"`: the move between the two areas when a value no longer
  fits loses the old value, or keeps both.
* `"shared"`: a write to a shared block stops after copying it (see `Xattr` above),
  and freeing an inode frees the block whoever else refers to it.

API (`Namespace!Avoid`):

* `"hardlink"`: `ext4_dir_rm` frees the inode of every file in the tree,
  whatever other names it has.
* `"cycle"`: `ext4_frename` moves a directory below itself.
* `"orphan"`: the last step of `ext4_dir_rm` commits the removal of the name
  before the inode is freed in another transaction.
* `"halfway"`: without a journal an error after a change leaves it behind
  (an entry whose directory has no dots, an inode without its name).
* `"many"`: `ext4_dir_rm` frees the directory only if its count is 2; one that gave
  up counting has 1 (`ext4_fs.c:1723`), loses its name, and the call returns EOK: its
  inode and blocks stay in use, and `NoOrphans` is violated. Creating, moving and
  removing below such a directory is in `namespace`.
* Read in the code: `ext4_fremove` of a directory returns success without
  removing it; several error paths leave the write-back mode on or the lock
  taken (`ext4_fremove`, `ext4_fsymlink_set`, `ext4_removexattr`);
  `ext4_frename` does not check that both paths are on one mount point;
  a link count of a file is not checked against 16 bits.

## 4. Proofs

Every theorem holds for every value of the constants that the named assumptions
of its module and the hypotheses below allow: any number of blocks, groups,
inodes, names and calls, any order of operations and any place where one fails.

### The cache

`CacheAssumption` is all that is assumed.

| Theorem | Property | Hypothesis |
|---|---|---|
| `CacheSafe`, `CacheTypes`, `FlushListSound` | `TypeOK`, `CleanMatchesDisk`, `FlushListFlushable` | |
| `CacheImplementsStore` | `StoreSpec` | |
| `LruOrder` | `LruTotal` | |
| `CacheSizeBound` | `CacheBound` | |
| `EvictionLossless` | `EvictionSaves` | |
| `DirtyListComplete` | `DirtyTracked` | `~Faults` |
| `WriteThroughDurable` | `DurableWhenPut` | `~Faults` |

The inductive invariant `CacheInv` adds to the first three that a dirty buffer is
up to date (`DirtyUpToDate`) and that an LBA without a buffer has the empty record
(`UncachedEmpty`): without the first a flush could write contents nobody wrote,
without the second an LBA that leaves and re-enters the cache could bring back
old flags. The proof has lemmas for the building blocks (`ShakeInv`, `AllocInv`,
`RefreshInv`) and one, `LocalInv`, for actions that change a single buffer. The
refinement follows the same lines: the lemmas say what each building block does
to what a reader sees, and `StoreStep` puts each action on a step of `BlockStore`
or a stutter.

`DirtyTracked` and `DurableWhenPut` rest on each other: a buffer leaves the dirty
list only when it is clean, and outside the delayed mode the list is empty. Their
common strengthening is `Tracked`. With `Faults` both are false (section 3).

### The journal

| Theorem | Property |
|---|---|
| `JournalSound` | the inductive invariant |
| `RecordsAgree` | `RecordsLinked` |
| `QueueMatchesLog` | `QueueFillsLog` |

Nothing is assumed but `LogAssumption` and `JournalAssumption`: any log, any
number of blocks, transactions and crashes, all of the workloads (`Overlap`,
`Frees`, `Aborts`, `Stops`) and failing device writes, the combinations with
deviations included. So the deviations of section 3 do not come from records or
a queue that are out of step: they come from what the code does with them.

The two properties are shown together. A block record must have a live owner for
the queue to be rebuilt by a commit that fails; the ring must be free of holes
for a commit that takes over a block to find the older copy. `IInv` is

* `Sound`: the transactions and the records have their types (`Shaped`); owner,
  record and the `jbd_buf`s of a transaction name each other (`Linked`); `data_cnt`
  is the number of `jbd_buf`s that still have to be written (`Tally`); the
  log blocks of the queue follow each other around the ring (`Ring`) and so do
  the ids (`Tids`);
* `UpInv`: what a call that is under way holds in local variables is still there
  when it goes on. A commit is interrupted by a purge, and the purge by the
  write-back of home blocks, each of which may complete other transactions:
  `CommitInv`, `PrepareInv`, `PurgeInv` and `RoomInv` say what these may not
  touch.

TLC checks `IInv` on the instance of `Home = {1, 2}`, `JSize = 6`, `MaxTrans = 3`,
one crash and all workloads together (4.4 million states). `JournalRecords` shows
of each operator that it keeps `Sound`; `DataTheorems` has what
the steps need of sequences (what removing a member keeps) and of the arithmetic
of the ring.

### The inode allocator

| Theorem | Property |
|---|---|
| `InodeTypes` | `TypeOK` |
| `InodeMarked` | `OwnedIsMarked` |
| `InodeCounts` | `CountsMatch` |
| `InodeSearchEnds` | `SearchEnds` |
| `InodeSpace` | `NoSpaceMeansFull` |

No hypothesis beyond `LayoutAssumption` and `IallocAssumption`: the volume has a
group, the inodes fit in 32 bits, and mkfs and the driver count the same groups
(`OneGroupCount`: `create_fs_aux_info` leaves block 0 out of the division when
the first data block is 1, `ext4_block_group_cnt` does not, so with one block
left over they differ).

The invariant `IInv` relates what each group counts to its bitmap, in two
strengths. Whatever failed before, a group counts no more free inodes than its
bitmap has clear bits; that is what ends the search. Until an operation breaks
off half way the count is exact and the clear bits are those of inodes nobody
holds, which gives `CountsMatch`, also between an allocation whose inode cannot be
read and the release that takes it back; `NoSpaceMeansFull` also needs that the search
visits every group. The border of the unused part of the table never moves
behind an inode in use (`BorderMoves`). Cardinalities are followed inode by
inode (`OwnedAdded`, `OwnedRemoved`).

### The block allocator

| Theorem | Property | Hypothesis |
|---|---|---|
| `BlocksNotShared` | `NoSharing` | `OneGroupCount`, `GoalsInside` |
| `BlocksNotLost` | `NoLeak` | `OneGroupCount`, `GoalsInside` |
| `NoSpaceIsFull` | `NoSpaceMeansFull` | `WholeGroups` |
| `NearestIsTaken` | `NearestFirst` | `WholeGroups` |
| `CountsAgree` | `CountsMatch` | `WholeGroups` |

The hypotheses leave out the deviations of section 3 and nothing else.
`GoalsInside`: a goal behind the end of the last group sends the search past the
bitmap. `WholeGroups`: mkfs counts a partial last group as a full one, so the
volume is a multiple of the group, and the blocks of the file system itself fit
in a group. It implies the other two (`WholeVolume`). The constants of
`balloc.cfg` satisfy all of them. `BallocAssumption` takes the group as large as
a bitmap block has bits, which is what `compute_blocks_per_group` computes.

`NoSharing` alone is not inductive. The search of a group stops inside the
volume, and a release clears no bit that it should not, because the bitmap of a
group, as the driver finds it, always holds the file system's own blocks and the
bits behind the end of the volume (`HeaderMarked`): also before its first use,
when `ext4_fs_init_block_bitmap` is still to write it. `IInv` adds that, and, for
`NoLeak`, that until something breaks off half way each marked bit has an owner
(`Tight`). `NearestFirst` and `NoSpaceMeansFull` also need the counts (`CountInv`):
a group whose count is 0 is skipped, which is right only if it is full.

`ext4_balloc_free_blocks` works chunk by chunk. Its recursive function `Chunks` is
shown to equal a closed form (`ChunksOf`): the least number of blocks for which
they differed would have a smaller one. So no induction theorem is needed.

`CountsMatch` adds up the counts of all groups. `MapThenSumSet` is a fold over a
set, in the order that `CHOOSE` gives; `DataTheorems` shows by the same argument
on a least set (`PickInduction`) that one function has these sums (`SumsExist`),
that a changed summand changes the sum by as much (`TotalChanged`), and that the
chunks of `ext4_balloc_free_blocks` hold together as many blocks as it was given
(`ManyCount`). `SumInv` adds the sums to `CountInv`; that no count leaves its 32
bits follows from the block of the superblock, which is never free (`FreeSmall`,
`HeldSmall`).

### Extended attributes

| Theorem | Property | Hypothesis |
|---|---|---|
| `ReferencesCounted` | `RefsMatch` | `"shared" \in Avoid` |
| `OtherInodeKept` | `OthersUntouched` | `"shared" \in Avoid` |
| `AttributesKept` | `AttrSpec` | `Exclusions \subseteq Avoid` |
| `AreasReadable` | `AreasSound` | `Exclusions \subseteq Avoid` |

`XattrAssumption` and `XattrVolume` are assumed: there are finitely many names,
each entry has a length, only the empty value has length 0, a block is larger
than its header, and what a run starts with is what the program could have
written. Lengths and capacities are otherwise arbitrary, and so is the number of
names, values, blocks and calls.

*References.* Nothing is needed of what `ext4_xattr_set_entry` does, and
none of the other inputs in `Avoid` is left out. The invariant `IInv` states the
references as an equation for `blk`; `Sound` is what each part of a call
(`CopyKeeps`, `BlockSetKeeps`, `BlockRemoveKeeps`, `GivenBack`) leaves to the next.
Removing an attribute from a shared block is covered: it is copied first.

*Contents.* `Exclusions` are the six inputs of section 3 for which the code
deviates; with any one of them allowed `AttrSpec` is false in the run. `AreasSound`
is not inductive: it says that values lie apart, but not that they lie behind the
entries or that each is whole, so an entry that is added could overwrite one.
`CInv` adds to `IInv` that the areas are `Readable` (each is `Written`, and no name
is in both) and that `attrs` is what is read of them (`Reads`). The argument goes
from words to calls:

* a value that is taken out leaves a packed area, and those in front of it
  move with all their words (`DropLoose`); one that is written in front of the
  others leaves theirs alone (`PackedIn`, `FilledKeeps`);
* so `ext4_xattr_set_entry` either changes nothing for want of space, or sets one
  name and keeps the others (`SetPut`), or removes one (`SetGone`). That the space
  it computes is enough uses that the lengths of the entries add up
  (`LengthsOf`, from the sums of `DataTheorems`);
* `ext4_xattr_set` and `ext4_xattr_remove` put these together for the two areas
  (`Outcome`, `ContentStep`). The uninitialised search of
  `ext4_xattr_block_remove` is covered with both outcomes.

### Only model-checked

* Liveness (`CallsReturn`): not in the prover's reach.
* The searches of the extent tree and of the directory index, the recovery
  passes and the refinements that rest on them (`MapSpec`, `DirSpec`,
  `Recoverable`): recursive functions and folds over
  sequences, whose results for every input need induction over data.
* `Recoverable`, `ReadsLatest` and `SettledWithoutJournal`: what recovery finds on the
  device is the result of three passes over the log, each a recursive function, and
  an invariant would have to say what they compute at every place of the log where
  the power may fail. They hold only for the workloads of the runs (section 3).
* `SpaceReclaimed`: a transaction that is larger than the log runs into the assertion,
  so it is about how much each transaction takes; and with aborts and frees together
  it is false (section 3).
* `BlocksAccounted`, `TreeShaped`, `EntriesMatchSearch`, `ReadsEachOnce`: statements
  about all nodes of a tree or all records of a block, which the operators reach by
  recursive functions.
* The tree of names (`LinksMatch`, `NoOrphans`): paths of any length lead through it.

## 5. Plan

1. *(done)* cache, journal, allocators; maps of an inode, directories,
   attributes, the tree of names, each against its abstract specification.
2. *(done)* Proofs about the cache, the records and the queue of the journal, both
   allocators with their counts, the references of attribute blocks and the
   contents of attributes.
3. Proofs, next: `LinksMatch` of `Namespace`; `BlocksAccounted` of `InodeMap` as far
   as `BlockPool` carries it.
4. Open: allocators composed with transactions (abort restores bitmaps, not the
   counts in memory); an abstract transactional store that `Journal` refines;
   the mount table and file handles.

## 6. Not modelled

* Checksums, hash functions and CRC (bit mixing without state); MBR; the RT-Thread
  port, host device drivers and test programs; logging.
* Unaligned byte access of the device and byte positions of files: no state
  beyond the blocks that are modelled.
* The mount and device tables, file handles (a handle holds an inode number and
  nothing keeps the inode alive), calls over two mount points, the setters of
  modes, owners and times.
* Which buffers are written back during a call of `Namespace`, `Directory`,
  `InodeMap` and `Xattr`: that is `BlockCache`'s and `Journal`'s.
* That every call of `Namespace` returns: its next-state relation enumerates all
  trees of names, and TLC is too slow on the liveness of it. The loop of
  `ext4_dir_rm` is covered for safety only.
