# TLA+ models of the xv6 file system with hashed directories and extents

These modules model `src/src/kernel/fs.c`, `fs.h` and the layout that `src/src/mkfs/mkfs.c` produces. The models are for the TLC model checker. Each definition is translated from the C source, and `PROJECT.json` "map" names the lines it stands for.

## The system

`spec.md` divides the file system into nine parts, listed leaves first:

| Part | Code | What it does |
|---|---|---|
| A Superblock | `readsb`, `updatesb`, `sb.freeblocks`, `sb.freeinodes` | Layout and free counters |
| B Block bitmap | `balloc`, `bfree` | Data-block allocation; `balloc` zeroes the block and panics when the disk is full |
| C Inode bitmap | `searchibmap`, `ifree`, `ialloc` | Inode-number allocation |
| D Inode table | `iget`, `idup`, `ilock`, `iunlock`, `iput` | In-memory inodes under `itable.lock` and a sleep lock per inode |
| E Block map | `bmap` | Logical to disk block. Standard files use 12 direct, single, double and triple indirect blocks. `T_EXTENT` files use `(start*256 \| len, first block)` pairs |
| F Inode I/O | `readi`, `writei`, `itrunc`, `iupdate` | Byte ranges, truncation |
| G Directory | `BKDRHash`, `tree_search`, `tree_expand`, `dirlookup`, `dirlink`, `build_dir_tree` | Hashed buckets of 16 dirents from bucket 16 on, plus an overflow area in blocks 113..114 |
| H Path resolver | `skipelem`, `namex`, `divesymlink` | Walks a path; follows symbolic links for up to 10 hops |
| I mkfs | `mkfs.c` | Formats the image and seeds the root |

The parts interact as follows. Directories and files are inodes whose content goes through `bmap`. `bmap` and `itrunc` allocate and free blocks through the bitmap. Every system call runs inside a log transaction (`begin_op`/`end_op`), which is outside `src/`. The caller of a directory operation holds the directory's sleep lock, and the caller of `writei`/`itrunc` holds the inode's sleep lock. Two operations therefore meet only through shared state: the bitmaps, the superblock counters and the inode table.

mkfs writes the image the kernel mounts. `BlockMap`, `InodeTable` and `Directory` each start from the part of that image they model: the blocks and the block bitmap, the inodes and the inode bitmap, and the root directory's entries.

## Modules

### `BlockMap` and `FileSpec` (parts B, E, F, and A's block counter)

**State** (variables):
- `bitmap`: the set of blocks whose bit is set.
- `freeblocks`: `sb.freeblocks`.
- `ptrs[b]`: the content of block `b` read as a `uint[NINDIRECT]`.
- `addrs[f]`, `size[f]` (in blocks): inode `f`'s fields.
- `panicked`: the message of a kernel panic, if one happened.
- `written` (ghost): records, for each block number `bn`, the disk block the copy of `bn` landed in.

**Actions:**
- `Write(f, bn, copied)`: one iteration of `writei`'s loop. It calls `bmap`, which may allocate in several levels. If the copy from user space fails (`copied = FALSE`) the loop breaks. It then does the `size` update. The whole step is one action, because the inode's sleep lock is held.
- `Read(f, bn)`: one iteration of `readi`'s loop over a block below the size. `readi` goes through `bmap`, which would allocate a hole. With the size updates `writei` makes, no hole lies below the size, so in the runs a read never changes the disk.
- `Truncate(f)`: a whole `itrunc`, for the standard and the extent layout.

Steps of different files interleave. `bmap` is split into helpers:
- `Path` / `Descend` / `StdBmap` follow the indirect levels and allocate zeroed blocks on demand.
- `ExtentFind` / `ExtentBmap` give the extent layout, with the code's stride-1 walk and `p*256 | (len+1)` growth.

`itrunc` is modelled as:
- `TruncFreed`: the sequence of `bfree` calls, in the code's order.
- `TruncAddrs`: what it leaves in `addrs[]`.
- `ExtentRuns` for extent files.

`Bfree` panics on a block whose bit is clear, as `bfree` does.

**Initial state: the image mkfs writes.** `Init` is the disk as `mkfs/mkfs.c` leaves it:
- `freeblock` hands out blocks in order from `NMETA`. The image starts zeroed, so a new indirect block reads as all zeros.
- `Iappend` is `iappend`, one `IappendBlock` per block: the direct slot, or the single-indirect block and its entry.
- The root (`Root`) gets `.` and `..` in block 0. For each file in `Installed`, `IappendInitDirBlocks` grows the root to the block of the file's dirent. This is the allocation `dir_block_allocation_continuation` and `overflow_block_allocation_continuation` do. Then `Iappend` writes the file's content.
- `MkfsBitmap` and `MkfsFreeblocks` are `balloc(freeblock)` and `updatesb`.

The block a dirent lands in depends on the name's hash. That placement is `Directory`'s concern, so here the block is chosen from `RootBlocks`. The blocks mkfs allocated are recorded in `written`. `ReadYourWrites` therefore checks, from the first state on, that the kernel's `bmap` finds every block where mkfs put it. `BitmapMatchesInodes` checks that mkfs's bitmap and free count match the blocks its inodes reach.

**Properties:**
- `BitmapMatchesInodes`: the bitmap is exactly the metadata blocks plus the blocks reachable from some inode, and `freeblocks` counts the rest.
- `BlocksExclusive`: no block is reachable from two places.
- `ReadYourWrites`: `bmap` of every written block returns, without allocating, the block the write used.
- `NoPanic`: no `bfree` of a free block, and no other panic.
- `FileContents`: `BlockMap` implements `FileSpec` (below).

`FileSpec` is what the block layer promises a file, whatever its layout. A file's content is a list of data blocks, one per block of the file, and no block serves two files or two positions. A step either changes no list (`Keep`), appends to one file a block that no list holds (`Grow`), or empties one file (`Empty`). The refinement mapping `Contents` gives each file's blocks below `size`, as `bmap` finds them without allocating (`Mapped`); a hole maps to 0, which is no data block. So the property says:
- blocks never move;
- no block is shared;
- a file grows only by one block at its end;
- a file shrinks only to nothing.

This catches a `writei` that sets `ip->size = off` without the `off > ip->size` test. That mutant shrinks a file when it rewrites an early block, and no other property sees it, because every block stays where it was.

`MCBlockMap` instantiates the module. Its `LiveView` leaves out the stale pointer tables of free blocks. This is sound because a block is zeroed (`bzero` in `balloc`) before anything reads it again. Two states that differ only in free blocks' old content therefore have the same futures, given `BitmapMatchesInodes`, which the same run checks.

### `Directory` and `DirSpec` (parts G, and H's `skipelem` truncation)

`DirSpec` is what a directory promises, whatever its on-disk format: a map from names to inode numbers. It holds `.` and `..`. Link fails with -1 on an existing name, unlink fails with -1 on an absent one, and lookup returns the inode number or 0.

`Directory` is the hashed format, in dirent-sized slots:
- `slot[o]` is the dirent at offset `o`, and `size` is `dp->size`.
- `ret` is what the last call returned.
- `Lookup` is `dirlookup`.
- `Link` is `dirlink`: a lookup, then `tree_search` in insert mode, then `writei` of the dirent. Insert mode grows the directory to the loop's end (`tree_expand`) when it passes `size`, and leaves `off = 0` when nothing is free.
- `Unlink` is `sys_unlink`'s effect on the directory: a lookup, then a zeroed dirent. `sys_unlink` is not in this repository, so it is modelled from `spec.md`.
- `BKDRHash` is the real 32-bit hash. It is computed on two 16-bit halves so that TLC's integers suffice, and the wraparound is exact.
- A name of `DIRSIZ` bytes, as `skipelem` copies it without a NUL, is hashed over the bytes that follow the buffer. That read is undefined behaviour, so the model chooses over `Garbage`.

The whole of each operation is one step, because the caller holds the directory's sleep lock.

The directory starts in one of two states (`Init`):
- `BuildDirTree`: as `build_dir_tree` leaves a new directory, with `.` and `..` only.
- `MkfsRoot`: the root that `mkfs` writes. `mkfs` appends `.` and `..`, then calls `iappend_init_dir` for each file named on its command line, in order. `IappendInitDir` hashes with `BKDRHash_mkfs`, takes the first empty slot of the bucket and then of the overflow area, and grows the size as `dir_block_allocation_continuation` and `overflow_block_allocation_continuation` do: whole blocks of `BLOCKSLOTS` dirents. When no slot is free, it returns without writing, as the code does. `RootArgs` is the set of command lines.

`spec.md` §4.I says mkfs places each file "using the same hash+overflow placement rule as the runtime directory engine, so the runtime can find them". `EveryEntryFound` and `AbsSpec` check this from the first state on. A root mkfs wrote may have a size past the last entry, since the continuation helpers grow it by whole blocks.

The block allocation inside `tree_expand` is left out. Growth keeps the fact the code establishes: slots at or beyond `size` are empty, because new blocks come from `balloc` zeroed and the tail of the last block is `memset` to 0.

**Properties:**
- `EveryEntryFound`: every dirent held is the one `dirlookup` returns for its name. So no name is unreachable, and none is shadowed by a duplicate.
- `AbsSpec`: `Directory` implements `DirSpec`. The mapping `Contents` maps the names in the slots to their inode numbers, and `ret` is kept as is.

`MCDirectory` scales the layout:
- Buckets of 2 slots, `HASHBASE` 1 and `HASHRANGE` 3, so one-byte names `c` land in bucket `c % 3 + 1`.
- An overflow area of 4 slots that starts at bucket 3.
- Blocks of 2 slots (`BLOCKSLOTS`), so bucket `h` is block `h`.
- The mkfs roots of the std run are seeded with `<<a>>` and with `<<a, d, g>>`. All three names hash to bucket 2, so `g` goes to the overflow area. With `a` alone, only `dir_block_allocation_continuation` grows the size. A lookup stops at the size, so a size that does not cover `a` fails `EveryEntryFound`.

In the code, buckets 452..458 lie inside overflow blocks 113..114. In the model, bucket 3 lies inside the overflow area in the same way.

### `InodeTable` (parts C and D, and A's inode counter)

**State:**
- `ibitmap` and `freeinodes`: the inode bitmap and `sb.freeinodes`.
- `dinode[i]`: the on-disk type and nlink.
- `itab[s]`: a table slot `[inum, ref, valid, type, nlink]`.
- `holder[s]`: the holder of the slot's sleep lock.
- Per process: `pc`, `hand` (the slot it holds), `tmp` (the inum `ialloc` found) and `dups` (the extra references it took on `hand` with `idup`).

`Init` is the inode side of the image mkfs writes. `MkfsIalloc` is mkfs's `ialloc`: `freeinode++` from 1 gives the root (`T_DIR`) and then each installed file (`T_FILE`), all with `nlink` 1 and named in the root. `setibmap(freeinode)` and `updatesb` give the bitmap and `freeinodes`. `MkfsFiles` is the set of file counts mkfs may have installed.

**Actions.** Each one is what runs under one lock:
- `ialloc` is three steps: `IallocSearch` (`searchibmap`), `IallocInit` (the dinode `memset` and type) and `IallocGet` (its `iget`).
- `IgetNamed` is `dirlookup`'s `iget` of a named inode.
- `Ilock` reloads from disk when the slot is not valid, and panics on type 0.
- `Iunlock` releases the sleep lock.
- `Idup` is `idup`: `ref++` under `itable.lock`, on a slot the process already holds. It is bounded by `MAXDUP`.
- `iput` is four steps:
  1. `IputBegin`, under `itable.lock`: either `ref--`, or the free path taking the sleep lock. Only the free path needs the sleep lock to be free. A plain `ref--` of a reference `idup` added may happen while the process holds the lock.
  2. `IputTrunc`: `itrunc`'s `iupdate`.
  3. `IputFree`: `ifree`, `valid = 0`, `releasesleep`.
  4. `IputDrop`: `ref--` under `itable.lock` again.

The callers are the system calls, which are not in this repository. They are modelled from `spec.md`: a process holds one reference at a time. An inode it creates is locked first. It may add or remove one directory entry for the inode (`LinkName`, `UnlinkName`: `nlink` ± 1 with `iupdate`), and it always unlocks before it puts.

**Properties:**
- `UniqueCache`: no inum is cached in two referenced slots.
- `RefsCounted`: `ref` equals the number of references the processes hold on the slot, one each plus those from `idup`. This is what iput's comment "ref == 1 means no other process can have ip locked" relies on.
- `LockedCacheCoherent`: under the sleep lock, a valid slot equals its dinode.
- `NoUseAfterFree`: named and used inodes have their bit set, and `freeinodes` counts the clear bits.
- `NoPanic`: no consistency panic.
- `NoDeadlock`: some process can always move until a panic.
- `NoInodeLeak`: every allocated inode is named, used or being freed.

The std run uses `CHECK_DEADLOCK FALSE` because `ialloc`'s "out of free inodes" panic halts the kernel. Deadlock among running processes is checked by `NoDeadlock`.

### `PathResolve` (part H, over parts D and G)

**State.** Per process: `pc`, the namex call running (`stage`: namei, nameiparent, or the namei inside divesymlink), the current inode `ip`, the unconsumed path `rest`, the element `name`, the hop counter `deep` and the result `res`. Shared: `refs[p][i]`, the references each process holds, and `holder[i]`, each inode's sleep lock.

The tree is constant: `Type`, `Dir` (each directory's name -> inum map, the `DirSpec` view that `Directory` is shown to implement) and `Target` (each link's path). A path is a sequence of tokens, `"/"` or a whole element.

**Actions.** Each one runs between two sleep-lock operations:
- `Request` is `namei` or `nameiparent`. It does `iget(ROOTINO)` or `idup(cwd)`.
- `Walk` is the loop head: `skipelem`, then `ilock(ip)`, waiting while another process holds the lock. When no element is left, namex returns.
- `Body` is the loop body: the `T_DIR` check, nameiparent's early stop, `dirlookup`'s `iget`, and `iunlockput(ip)`.
- `LockResult` is the `ilock` of what namei returned, with the `T_SYMLINK` test.
- `Dive` is one turn of `divesymlink`: `iunlockput` of the link, `++deep > 10`, and `namei` of the target.
- `Release` is the caller's `iunlockput`/`iput` of the result. The callers (`sys_open`, `create`) are not in this repository, so it is modelled from `spec.md`.

**Properties:**
- `ResolvesAsReference`: every call returns what `Expected` gives. `Expected` is a recursive resolution (`WalkRef`, `ParentRef`, `FollowRef`) that follows at most 10 links.
- `HoldsOnlyCurrent`: a process holds exactly one reference across namex's loop and at most one sleep lock. After a call it holds only the result.
- `CallsReturn` (liveness): every call returns.
- `TypeOK`, which includes `deep <= 11`.

`MCPathResolve` builds the tree:
- Root 1, directory `a` (2) and file `a/f` (3).
- Link `s` holds the relative target `../a/f`.
- Links `c` and `d` point at each other.
- Links `l1`..`l11` form a chain, so `/l2` follows exactly 10 links and `/l1` 11: the two sides of the cap.

Both processes start in `a`. The requests include doubled and trailing slashes, `..`, a non-directory inside a path and a missing name.

### `DirGrow` (part G's `tree_expand` and `contiguous_block_allocation`, over parts B and F)

**State.** One directory inode: the in-memory `addrs`, `isize` in dirent units and the cached indirect block `ind`. `bits` is the block bitmap. `logged` is the set of blocks the running transaction has written. `dinode` is the committed copy of the inode. `disk` is the committed state (bitmap, dinode and indirect block) that a crash leaves. `pc`, `target` and `bid` are the allocation loop's position.

**Actions.** Each follows the C statement by statement:
- `Start`: `tree_expand`'s `first_block`, rounded up when the last block is partly used.
- `Direct`: one turn of the direct loop, `balloc` and then `check_log_full`.
- `IndAlloc`: the allocation of the indirect block, followed by `check_log_full`.
- `Indirect`: one turn of the indirect loop, `balloc` and then `check_free`.
- `Zero`: the `memset` of the new slots in the last old block and its `log_write`, then the `isize` update and `iupdate`.
- `Final`: the system call's `end_op`.

The log (`log_write`, `is_log_full`, `end_op`'s commit) lives in `log.c`, which is not in this repository. It is modelled from `spec.md` as a transaction of at most `LOGCAP` blocks that counts as full when fewer than `LOGSLACK` slots are left. `PreWrites` are the sets of blocks the system call may have logged before `dirlink`; `MCDirGrow` gives none, the inode bitmap, or the inode bitmap and the new inode's block.

**Properties:**
- `GrowthCommitted`: when the system call ends, the committed directory is whole. It has `isize` slots, distinct blocks, and exactly its blocks set in the bitmap.
- `CrashConsistent` (checked only by the crash run): every committed bitmap bit belongs to a block the committed inode reaches.
- `TypeOK`.

## Runs

| Run | Config | Expect | Shows |
|---|---|---|---|
| blockmap_std | `MCBlockMap_std.cfg` | pass | See below |
| blockmap_extent_fragment | `MCBlockMap_extfrag.cfg` | violation | See below |
| blockmap_extent_runlength | `MCBlockMap_extrun.cfg` | violation | See below |
| blockmap_triple_truncate | `MCBlockMap_triple.cfg` | violation | See below |
| directory_std | `MCDirectory_std.cfg` | pass | See below |
| directory_full | `MCDirectory_full.cfg` | violation | See below |
| directory_long_name | `MCDirectory_long.cfg` | violation | See below |
| inodetable_std | `MCInodeTable_std.cfg` | pass | See below |
| inodetable_leak | `MCInodeTable_leak.cfg` | violation | See below |
| pathresolve_std | `MCPathResolve_std.cfg` | pass | See below |
| dirgrow_std | `MCDirGrow_std.cfg` | pass | See below |
| dirgrow_crash | `MCDirGrow_crash.cfg` | violation | See below |

**blockmap_std.** The root directory (`f1`) and one installed file (`f2`) start as mkfs wrote them. Then they are written, read and truncated, interleaved. The allocator and block trees stay consistent. The bounds:
- `NDIRECT`=1, `NINDIRECT`=2, 4 blocks per file: every region up to double indirect is used.
- mkfs installs `f2` with 0 to 3 blocks, and its dirent lands in root block 1 or 2: 8 images, which use the direct and the single-indirect range of both `iappend` and the continuations.
- A 16-block disk: two files of 4 blocks with their indirect blocks fill it exactly, so it never runs out.
- No symmetry, since the root and the installed file start differently. About 173,000 states, in under two minutes with the refinement check.

**blockmap_extent_fragment.** In an extent file, a second extent that is not contiguous overwrites the first extent's start. `bmap` of block 0 then returns disk block 0.

**blockmap_extent_runlength.** With the length field scaled to 2 bits (`RADIX` 4), growing a run past 3 blocks wraps its length to 0. With the real 8-bit field the same happens at 256 blocks.

**blockmap_triple_truncate.** With `NDIRECT`=`NINDIRECT`=1, block 3 is in the triple-indirect tree. `itrunc` frees `addrs[NDIRECT+1]` (0) instead of the triple root, and leaks the root.

**directory_std.** Four names and two inode numbers, with link, unlink and lookup in any order. Two names fill a bucket, one spills into the overflow area, and one hashes to the bucket inside the overflow area. Each directory starts new or as either mkfs root. All of `DirSpec` holds: about 13,500 states.

**directory_full.** With an overflow area of 2 slots, the fifth name finds its bucket and the overflow area full. `dirlink` writes it over `.` and returns 0.

**directory_long_name.** `DIRSIZ`=2 with the name "ab": the hash depends on the byte after the buffer, so lookup may scan another bucket.

**inodetable_std.** Two processes, inodes 0..4 (0 reserved, 1 the root), two table slots, both dinode types, and up to three named inodes. mkfs installed no file or one. Every interleaving of create, lookup, idup (at most one per process), lock, link, unlink and put is explored: about 1.96M states. Almost every state reached from the image with one installed file is also reached from the empty one, where a process creates and links inode 2.

**inodetable_leak.** This violation is not a modelling artefact. The sequence:
1. Process 1's `iput` has done `ifree(2)` and `releasesleep`, but not yet its final `ref--`.
2. Process 2's `ialloc` gets inode 2 again, and its `iget` shares the dying slot, so `ref` becomes 2.
3. Process 2 locks the inode, then unlocks and puts it. This is the create-failure path. Its `iput` sees `ref == 2` and only decrements.
4. Process 1's `ref--` empties the slot.

Inode 2 stays allocated with no name and no reference. Nothing frees it again until the file system is rebuilt.

**pathresolve_std.** Two processes each make one call from twelve, in every interleaving: 54k states. Walks contend for the locks of the root and of `a` in both directions, because `..` leads up and `a/f` leads down. Because each process makes a bounded number of calls, weak fairness is enough for `CallsReturn`. `Done` is the stuttering step after the last call.

**dirgrow_std.** Three growths of one directory, with `NDIRECT`=2, `NINDIRECT`=3 and 2 dirents per block. Together they pass through the direct blocks, the indirect block's allocation and the indirect loop. The log holds 6 blocks and counts as full with 3 left. Each growth starts with none, one or two blocks already logged, so each `balloc` (bitmap, superblock, block) can make the log full, and a growth can also start with the log already full. The run reaches every mid-growth commit: 1297 states.

With two blocks logged on entry, `check_log_full` commits only when `if_log_full()` returns 0, the inverse of `check_free` and of `spec.md` §4.G, so the direct loop never commits and the indirect block's `balloc` overflows the transaction (`Start` with {4,5}, `Direct`, `Direct`, `IndAlloc`, `Indirect`). The run reaches this state, and `DirGrow` keeps an `overflow` flag for it, but no property states that the log must not overflow: whether the kernel does depends on `if_log_full()`'s return convention, and `log.c` is not in this repository. It is recorded as a hazard at `fs.c:976`.

**dirgrow_crash.** The code has a crash-consistency bug. `contiguous_block_allocation` stores each new block only in the in-memory `ip->addrs`, and `iupdate` runs only at the end of `tree_expand`. `check_log_full`'s `end_op` in between commits the bitmap bits of those blocks. A crash after that commit leaves set bits that no inode reaches. `spec.md` §7 rules this out. TLC finds it within 19 states.

Each property of a passing run has a mutant in `PROJECT.json`, a plausible slip in the modelled code that the property catches:

| Property | Mutant |
|---|---|
| `TypeOK` (BlockMap) | `balloc` without `freeblocks--` |
| `BitmapMatchesInodes` | the single-indirect tree not freed |
| `ReadYourWrites` | an allocated indirect entry not stored |
| `BlocksExclusive` | `itrunc` keeping the single-indirect root |
| `NoPanic` | `itrunc` keeping the direct slots |
| `FileContents` | `writei` setting the size without the `off > ip->size` test |
| `TypeOK` (Directory) | `tree_expand` one slot too far |
| `EveryEntryFound` | a lookup that stops at the first empty slot |
| `AbsSpec` | a lookup that skips the overflow area |
| `TypeOK` (InodeTable) | `ifree` without `freeinodes++` |
| `UniqueCache` | `iget` without the search for a cached slot |
| `RefsCounted` | `iget` of a cached slot without `ref++` |
| `LockedCacheCoherent` | `iput` not clearing `valid` |
| `NoUseAfterFree` | `iput` freeing without the `nlink == 0` test |
| `NoPanic` (InodeTable) | `iget` recycling a slot without clearing `valid` |
| `NoDeadlock` | `iunlock` without `releasesleep` |
| `TypeOK` (PathResolve) | the hop cap tested as `++deep > 11` |
| `ResolvesAsReference` | the hop cap tested as `++deep >= 10` |
| `HoldsOnlyCurrent` | `iunlockput` that unlocks without `iput` |
| `CallsReturn` | `divesymlink` never advancing `deep` |
| `TypeOK` (DirGrow) | `tree_expand` setting the size two slots past the target |
| `GrowthCommitted` | `first_block` without the round-up for a partly used block |

The `EveryEntryFound` mutant is what `spec.md` describes: "a slot with `inum == 0` in non-add mode returns miss". The code scans on, which `unlink`'s holes require.

## Fairness

Only `PathResolve` assumes fairness: weak fairness for each process (`WF_vars(Proc(p))`). This rests on two facts: xv6's scheduler eventually runs every runnable process, and `releasesleep` wakes the processes sleeping on a sleep lock.

Each process makes a bounded number of calls, so a lock, once free, stays free once its holder is done. Weak fairness therefore suffices, and no strong fairness on lock acquisition is assumed; the code does not guarantee it, because a woken sleeper can lose the lock again.

The other modules check safety only.

## Not modelled

What follows stays outside the models, with the reason:
- **`begin_op` inside `tree_expand`.** `check_log_full` calls `begin_op` while the caller holds the directory's sleep lock. Whether that can wait forever depends on `log.c`'s admission rule, and `log.c` is not in this repository.
- **Two corners of mkfs.** `iappend` indexes `indirect[fbn - NDIRECT]` for every `fbn < MAXFILE`, past the array once a file leaves the single-indirect range (`mkfs.c:294`). `iappend_init_dir` returns without `winode` when a name's bucket and the overflow area are full (`mkfs.c:509`), which leaves the blocks the continuations took set in the bitmap and in no inode. The models seed files small enough, and few enough, to stay clear of both, as the installed programs do. The inode numbers, `setibmap` and the byte I/O of `rsect`/`wsect` are not modelled.
- **`balloc` out of blocks.** `balloc` panics when the bitmap is full (`fs.c:103`). `spec.md` §7 lists out-of-space as a recoverable failure returned to the caller. Only the disk size decides whether the panic is reached, and the std run's disk is sized never to fill.
- **The user programs.** They reach the file system only through system calls, and `sysfile.c`, `file.c` and `log.c` are not in this repository. What they exercise is modelled at the `fs.c` level. The write-then-read loops of `big.c` and `extenttest2.c` are `ReadYourWrites` and `FileContents`. The creates and unlinks of `ibmaptest.c` and `search_test.c` are `Directory`'s `Link` and `Unlink`. `ibmaptest` creates up to 17,576 names in one directory, far more than the 443 buckets and the overflow area hold, which is the `directory_full` case.
- **The listing of `recyclelist.c` and `refresh.c`.** Both read a directory 16 dirents at a time, which is one bucket, and stop a group at its first empty slot (`recyclelist.c:72`, `refresh.c:76`). `dirlink` fills a bucket from its first empty slot, so a bucket has no gap until an unlink makes one. From mkfs's root with "a", "d" and "g", unlinking "a" hides "d" from the listing, while `dirlookup` still finds it. Folding the listing over `Directory`'s slots shows this in one step. Checking it needs a violation run of its own, and all twelve runs are already given to findings about `fs.c` itself. It is recorded as a hazard.
- **Dead code.** `dirlookup_old`, `tree_add` and the commented-out `dirlink` have no callers.

The NUL termination of the path `divesymlink` reads depends on how `sys_symlink` stores it, and `sys_symlink` is not in this repository. `PathResolve` therefore takes targets as whole paths.

`readsb`, `updatesb`, `fsinit` and `stati` only copy fields through the buffer cache (`iupdate` is part of `InodeTable`). The buffer cache, the log and the system calls are outside `src/`.
