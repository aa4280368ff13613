------------------------------ MODULE BlockMap ------------------------------
(***************************************************************************)
(* The block layer of kernel/fs.c: the data-block bitmap allocator        *)
(* (balloc, bfree) with the superblock's free-block counter, the block    *)
(* map of an inode (bmap) in its standard direct / single / double /      *)
(* triple indirect layout and in its extent layout (T_EXTENT), the        *)
(* truncation of an inode (itrunc), and the block loop of writei / readi. *)
(*                                                                         *)
(* Each file is an inode held under its sleep lock by the caller, so one  *)
(* block step of writei or readi, or a whole itrunc, is one action; steps *)
(* of different files interleave through the shared bitmap.  File data   *)
(* is abstracted away: a data block is known only by its number.  The    *)
(* pointer tables of indirect blocks are kept, as `ptrs`.                 *)
(***************************************************************************)
EXTENDS Naturals, Sequences, FiniteSets, SequencesExt, Bitwise, TLC

CONSTANTS
    Files,      \* the inodes whose content is modelled
    Kind,       \* Kind[f] \in {"file", "extent"}: T_FILE or T_EXTENT
    NDIRECT,    \* direct slots of addrs[] (12 in fs.h)
    NINDIRECT,  \* pointers per indirect block (BSIZE / sizeof(uint) = 256)
    NBLOCKS,    \* sb.size: blocks covered by the bitmap
    NMETA,      \* boot, superblock, log, bitmaps, inode table: allocated by mkfs
    RADIX,      \* 256: an extent word is start * 256 | length (low 8 bits)
    MaxBlocks,  \* bound on a file's size, in blocks
    Root,       \* ROOTINO, when it is one of Files
    Installed,  \* the files mkfs installs, in argv order
    RootBlocks, \* the root's blocks an installed file's dirent may land in
    MkfsMax     \* bound on an installed file's size, in blocks

ASSUME /\ NDIRECT >= 1 /\ NINDIRECT >= 1 /\ NMETA >= 1 /\ NBLOCKS > NMETA
       /\ Kind \in [Files -> {"file", "extent"}]
       /\ \E k \in 1..8 : RADIX = 2^k
       \* mkfs's iappend and block continuations handle the direct and the
       \* single-indirect range only (indirect[fbn - NDIRECT] past it is the
       \* overrun at mkfs.c:294)
       /\ \A k \in 1..Len(Installed) : Installed[k] \in Files \ {Root}
       /\ RootBlocks \subseteq 1..NDIRECT + NINDIRECT - 1
       /\ MkfsMax <= NDIRECT + NINDIRECT

NADDRS  == NDIRECT + 3
MAXFILE == NDIRECT + NINDIRECT + NINDIRECT^2 + NINDIRECT^3
Blocks  == 0..NBLOCKS-1
Meta    == 0..NMETA-1
Slots   == 0..NADDRS-1
NoPtrs  == [k \in 0..NINDIRECT-1 |-> 0]   \* a zeroed block read as uint[]
NoAddrs == [k \in Slots |-> 0]
Ok      == "none"

VARIABLES
    bitmap,     \* blocks whose bit is set in the data bitmap
    freeblocks, \* sb.freeblocks
    ptrs,       \* ptrs[b]: block b's content read as a pointer table
    addrs,      \* addrs[f]: ip->addrs[] (always written back by iupdate)
    size,       \* size[f]: ip->size, in whole blocks
    panicked,   \* the message of the kernel panic, or Ok
    written     \* ghost: written[f][bn] is the block writei stored bn in

vars == <<bitmap, freeblocks, ptrs, addrs, size, panicked, written>>

Disk == [bm |-> bitmap, free |-> freeblocks, ptrs |-> ptrs, panic |-> panicked]

Panic(d, msg) == IF d.panic = Ok THEN [d EXCEPT !.panic = msg] ELSE d

-----------------------------------------------------------------------------
(* Allocator *)

\* Fault variant of balloc: the sb.freeblocks-- is missing.
BallocNoCount(d) ==
    LET clear == Blocks \ d.bm IN
    IF clear = {} \/ d.panic # Ok
    THEN [d |-> Panic(d, "balloc: out of blocks"), addr |-> 0]
    ELSE LET b == Min(clear)
         IN  [d |-> [d EXCEPT !.bm = @ \cup {b}, !.ptrs[b] = NoPtrs], addr |-> b]

\* balloc: the lowest clear bit is set, sb.freeblocks is decremented, the
\* superblock is written back and the block is zeroed (bzero).
Balloc(d) ==
    LET clear == Blocks \ d.bm IN
    IF clear = {} \/ d.panic # Ok
    THEN [d |-> Panic(d, "balloc: out of blocks"), addr |-> 0]
    ELSE LET b == Min(clear)
         IN  [d |-> [d EXCEPT !.bm = @ \cup {b}, !.free = @ - 1,
                              !.ptrs[b] = NoPtrs],
              addr |-> b]

\* bfree: panics if the bit is already clear, else clears it and
\* increments sb.freeblocks.
Bfree(d, b) ==
    IF d.panic # Ok THEN d
    ELSE IF b \notin d.bm THEN Panic(d, "freeing free block")
    ELSE [d EXCEPT !.bm = @ \ {b}, !.free = @ + 1]

BfreeAll(d, seq) == FoldLeft(LAMBDA dd, b : Bfree(dd, b), d, seq)

-----------------------------------------------------------------------------
(* Standard block map *)

\* The addrs[] slot and the index path through indirect blocks of bn.
Path(bn) ==
    LET s == bn - NDIRECT
        t == s - NINDIRECT
        u == t - NINDIRECT^2
    IN  IF bn < NDIRECT THEN [slot |-> bn, idx |-> <<>>]
        ELSE IF s < NINDIRECT THEN [slot |-> NDIRECT, idx |-> <<s>>]
        ELSE IF t < NINDIRECT^2
             THEN [slot |-> NDIRECT + 1,
                   idx |-> <<t \div NINDIRECT, t % NINDIRECT>>]
        ELSE [slot |-> NDIRECT + 2,
              idx |-> <<u \div NINDIRECT^2, (u % NINDIRECT^2) \div NINDIRECT,
                        (u % NINDIRECT^2) % NINDIRECT>>]

\* Fault variant of the walk: the new block's number is not stored in the
\* pointer block (a[i] = balloc() without the store reaching the buffer).
RECURSIVE DescendNoStore(_, _, _)
DescendNoStore(d, blk, idx) ==
    IF idx = <<>> \/ d.panic # Ok THEN [d |-> d, addr |-> blk]
    ELSE LET e == d.ptrs[blk][Head(idx)] IN
         IF e # 0 THEN DescendNoStore(d, e, Tail(idx))
         ELSE LET r == Balloc(d) IN DescendNoStore(r.d, r.addr, Tail(idx))

\* From pointer block blk down the index path, allocating a block for
\* every zero entry on the way (a[i] = balloc(); log_write(bp)).
RECURSIVE Descend(_, _, _)
Descend(d, blk, idx) ==
    IF idx = <<>> \/ d.panic # Ok THEN [d |-> d, addr |-> blk]
    ELSE LET e == d.ptrs[blk][Head(idx)] IN
         IF e # 0 THEN Descend(d, e, Tail(idx))
         ELSE LET r == Balloc(d)
              IN  Descend([r.d EXCEPT !.ptrs[blk][Head(idx)] = r.addr],
                          r.addr, Tail(idx))

StdBmap(d, a, bn) ==
    LET p    == Path(bn)
        root == IF a[p.slot] # 0 THEN [d |-> d, addr |-> a[p.slot]]
                ELSE Balloc(d)
        r    == Descend(root.d, root.addr, p.idx)
    IN  [d |-> r.d, a |-> [a EXCEPT ![p.slot] = root.addr], addr |-> r.addr]

-----------------------------------------------------------------------------
(* Extent block map *)

\* bmap's search of addrs[] for an extent covering bn.  The code reads
\* the pair (addrs[i], addrs[i+1]) and then steps i by ONE.  A read
\* past addrs[NADDRS-1] is out of bounds.
RECURSIVE ExtentFind(_, _, _)
ExtentFind(a, bn, i) ==
    IF i >= NADDRS THEN [found |-> FALSE, addr |-> 0, i |-> i, oob |-> TRUE]
    ELSE IF a[i] = 0 THEN [found |-> FALSE, addr |-> 0, i |-> i, oob |-> FALSE]
    ELSE IF i + 1 >= NADDRS
         THEN [found |-> FALSE, addr |-> 0, i |-> i, oob |-> TRUE]
    ELSE LET len   == a[i] & (RADIX - 1)
             start == a[i + 1]
         IN  IF start <= bn /\ bn < start + len
             THEN [found |-> TRUE, addr |-> a[i] \div RADIX + bn - start,
                   i |-> i, oob |-> FALSE]
             ELSE ExtentFind(a, bn, i + 1)

\* On a miss: balloc; grow the extent before slot i when the new block
\* follows it on disk, else append (addr * RADIX | 1, bn) at slot i.
ExtentBmap(d, a, bn) ==
    LET s == ExtentFind(a, bn, 0)
        r == Balloc(d)
        i == s.i
    IN  IF s.oob THEN [d |-> Panic(d, "addrs[] out of bounds"), a |-> a, addr |-> 0]
        ELSE IF s.found THEN [d |-> d, a |-> a, addr |-> s.addr]
        ELSE IF i > 0 /\ r.addr = a[i-1] \div RADIX + (a[i-1] & (RADIX - 1))
        THEN [d |-> r.d,
              a |-> [a EXCEPT ![i-1] = ((a[i-1] \div RADIX) * RADIX)
                                        | ((a[i-1] & (RADIX - 1)) + 1)],
              addr |-> r.addr]
        ELSE IF i + 1 >= NADDRS
        THEN [d |-> Panic(r.d, "addrs[] out of bounds"), a |-> a, addr |-> 0]
        ELSE [d |-> r.d, a |-> [a EXCEPT ![i] = r.addr * RADIX + 1, ![i+1] = bn],
              addr |-> r.addr]

Bmap(d, a, f, bn) ==
    IF Kind[f] = "extent" THEN ExtentBmap(d, a, bn) ELSE StdBmap(d, a, bn)

-----------------------------------------------------------------------------
(* Truncation *)

\* The blocks itrunc frees below pointer block blk, `depth` levels above
\* the data blocks: each non-zero entry's subtree in index order, then blk.
RECURSIVE Subtree(_, _, _)
Subtree(pt, blk, depth) ==
    IF depth = 0 THEN <<blk>>
    ELSE FoldLeft(LAMBDA acc, j :
                     IF pt[blk][j] # 0 THEN acc \o Subtree(pt, pt[blk][j], depth - 1)
                     ELSE acc,
                  <<>>, [k \in 1..NINDIRECT |-> k - 1])
         \o <<blk>>

\* Standard itrunc's address array afterwards: the direct slots, the
\* single and the double indirect slot are zeroed; the triple-indirect
\* step zeroes addrs[NDIRECT+1] again and leaves addrs[NDIRECT+2] as it was.
\* Fault variants: a zeroing is missing.
TruncAddrsKeepDirect(a) == [k \in Slots |-> IF k \in NDIRECT..NDIRECT+1 THEN 0 ELSE a[k]]
TruncAddrsKeepSingle(a) == [k \in Slots |-> IF k # NDIRECT /\ k <= NDIRECT + 1 THEN 0 ELSE a[k]]
TruncAddrs(a) == [k \in Slots |-> IF k <= NDIRECT + 1 THEN 0 ELSE a[k]]

\* Fault variant of the bfree sequence: the single-indirect block itself
\* is not freed, only the blocks it points to.
TruncFreedLeakSingle(pt, a) ==
    LET direct == SelectSeq([k \in 1..NDIRECT |-> a[k-1]], LAMBDA b : b # 0)
        single == IF a[NDIRECT] # 0 THEN Front(Subtree(pt, a[NDIRECT], 1)) ELSE <<>>
        double == IF a[NDIRECT+1] # 0 THEN Subtree(pt, a[NDIRECT+1], 2) ELSE <<>>
        triple == IF a[NDIRECT+2] # 0
                  THEN Front(Subtree(pt, a[NDIRECT+2], 3)) \o <<TruncAddrs(a)[NDIRECT+1]>>
                  ELSE <<>>
    IN  direct \o single \o double \o triple

\* Standard itrunc's bfree calls in order: the direct slots, the single and
\* the double indirect trees, then the triple tree, whose root is released
\* as bfree(addrs[NDIRECT+1]) -- the slot the double step has just zeroed.
TruncFreed(pt, a) ==
    LET direct == SelectSeq([k \in 1..NDIRECT |-> a[k-1]], LAMBDA b : b # 0)
        single == IF a[NDIRECT] # 0 THEN Subtree(pt, a[NDIRECT], 1) ELSE <<>>
        double == IF a[NDIRECT+1] # 0 THEN Subtree(pt, a[NDIRECT+1], 2) ELSE <<>>
        triple == IF a[NDIRECT+2] # 0
                  THEN Front(Subtree(pt, a[NDIRECT+2], 3)) \o <<TruncAddrs(a)[NDIRECT+1]>>
                  ELSE <<>>
    IN  direct \o single \o double \o triple

StdTrunc(d, a) == [d |-> BfreeAll(d, TruncFreed(d.ptrs, a)), a |-> TruncAddrs(a)]

\* Extent itrunc: for i = 0, 1, 2, ... while addrs[i] # 0 (at most up to
\* NDIRECT+2), free the run of addrs[i] as the pair (addrs[i], addrs[i+1])
\* describes it, and zero addrs[i].
RECURSIVE ExtentRuns(_, _)
ExtentRuns(a, i) ==
    IF i > NDIRECT + 2 \/ a[i] = 0 THEN [blocks |-> <<>>, a |-> a, oob |-> FALSE]
    ELSE IF i + 1 >= NADDRS THEN [blocks |-> <<>>, a |-> a, oob |-> TRUE]
    ELSE LET run  == [k \in 1..(a[i] % RADIX) |-> a[i] \div RADIX + k - 1]
             rest == ExtentRuns([a EXCEPT ![i] = 0], i + 1)
         IN  [blocks |-> run \o rest.blocks, a |-> rest.a, oob |-> rest.oob]

ExtentTrunc(d, a) ==
    LET r == ExtentRuns(a, 0) IN
    IF r.oob THEN [d |-> Panic(d, "addrs[] out of bounds"), a |-> a]
    ELSE [d |-> BfreeAll(d, r.blocks), a |-> r.a]

Itrunc(d, a, f) ==
    IF Kind[f] = "extent" THEN ExtentTrunc(d, a) ELSE StdTrunc(d, a)

-----------------------------------------------------------------------------
(* Operations *)

SetDisk(d) ==
    /\ bitmap' = d.bm
    /\ freeblocks' = d.free
    /\ ptrs' = d.ptrs
    /\ panicked' = d.panic

-----------------------------------------------------------------------------
(* mkfs/mkfs.c: the image the kernel mounts.  freeblock hands out blocks   *)
(* in order from NMETA, and the image starts zeroed, so a new indirect     *)
(* block reads as NoPtrs.  An image is [next (freeblock), ptrs, addrs,     *)
(* size, written].                                                         *)

Zeroed == [next |-> NMETA, ptrs |-> [b \in Blocks |-> NoPtrs],
           addrs |-> [f \in Files |-> NoAddrs], size |-> [f \in Files |-> 0],
           written |-> [f \in Files |-> <<>>]]

\* a pointer of the image, or freeblock++ in its place when it is 0
FreeblockOr(img, a) == IF a = 0 THEN img.next ELSE a
FreeblockAfter(img, a) == IF a = 0 THEN img.next + 1 ELSE img.next

\* The body of iappend's loop for block fbn of inode f: the direct slot,
\* or the single-indirect block (allocated first) and its entry.
IappendBlock(img, f, fbn) ==
    IF fbn < NDIRECT
    THEN LET a == img.addrs[f][fbn] IN
         [img EXCEPT !.addrs[f][fbn] = FreeblockOr(img, a),
                     !.next = FreeblockAfter(img, a),
                     !.written[f] = (fbn :> FreeblockOr(img, a)) @@ @]
    ELSE LET i0  == img.addrs[f][NDIRECT]
             ind == FreeblockOr(img, i0)
             s   == [img EXCEPT !.next = FreeblockAfter(img, i0)]
             x   == s.ptrs[ind][fbn - NDIRECT]
         IN  [s EXCEPT !.addrs[f][NDIRECT] = ind,
                       !.ptrs[ind][fbn - NDIRECT] = FreeblockOr(s, x),
                       !.next = FreeblockAfter(s, x),
                       !.written[f] = (fbn :> FreeblockOr(s, x)) @@ @]

RECURSIVE AppendFrom(_, _, _, _)
AppendFrom(img, f, fbn, last) ==
    IF fbn > last THEN img
    ELSE AppendFrom(IappendBlock(img, f, fbn), f, fbn + 1, last)

\* iappend(f, data of k blocks): from din.size on, then din.size = off
Iappend(img, f, k) ==
    LET s == AppendFrom(img, f, img.size[f], img.size[f] + k - 1)
    IN  [s EXCEPT !.size[f] = @ + k]

\* dir_block_allocation_continuation / overflow_block_allocation_
\* continuation of the root up to block blk, as iappend_init_dir calls
\* them for the slot it writes: blocks 0 .. blk in order, and
\* dp->size = max(dp->size, (blk + 1) * BSIZE); winode then saves it.
IappendInitDirBlocks(img, blk) ==
    LET s == AppendFrom(img, Root, 0, blk)
    IN  [s EXCEPT !.size[Root] = IF blk + 1 > @ THEN blk + 1 ELSE @]

\* mkfs's file loop: for each file, iappend_init_dir of its dirent into
\* the root (the slot's block depends on the name's hash), then iappend
\* of its content.
RECURSIVE Install(_, _)
Install(img, fs) ==
    IF fs = <<>> THEN {img}
    ELSE UNION {Install(Iappend(IappendInitDirBlocks(img, blk), Head(fs), k),
                        Tail(fs)) : blk \in RootBlocks, k \in 0..MkfsMax}

\* the root's iappend of "." and ".." (both in block 0), then the files;
\* without the root among Files, an image with no file blocks
MkfsImages ==
    IF Root \in Files THEN Install(Iappend(Zeroed, Root, 1), Installed)
    ELSE {Zeroed}

\* mkfs's balloc(used): the bits of blocks 0 .. used-1 set
MkfsBitmap(used) == 0 .. used - 1

\* updatesb: sb.freeblocks = FSSIZE - freeblock
MkfsFreeblocks(used) == NBLOCKS - used

\* The mounted image, after balloc(freeblock) and updatesb().
Init ==
    /\ \E img \in MkfsImages :
          /\ bitmap = MkfsBitmap(img.next)
          /\ freeblocks = MkfsFreeblocks(img.next)
          /\ ptrs = img.ptrs
          /\ addrs = img.addrs
          /\ size = img.size
          /\ written = img.written
    /\ panicked = Ok

\* Fault variant of Write: ip->size = off without the off > ip->size test.
WriteAnySize(f, bn, copied) ==
    /\ panicked = Ok
    /\ bn <= size[f] /\ bn < MAXFILE /\ bn < MaxBlocks
    /\ LET r   == Bmap(Disk, addrs[f], f, bn)
           off == IF copied THEN bn + 1 ELSE bn
       IN  /\ SetDisk(r.d)
           /\ addrs' = [addrs EXCEPT ![f] = r.a]
           /\ size' = [size EXCEPT ![f] = off]
           /\ written' = IF copied
                         THEN [written EXCEPT ![f] = (bn :> r.addr) @@ @]
                         ELSE written

\* One iteration of writei's loop: a whole block at off = bn * BSIZE with
\* off <= ip->size and off + n <= MAXFILE * BSIZE.  bmap runs first; if
\* either_copyin then fails (copied = FALSE) the loop breaks with off not
\* advanced.  Then ip->size = off if off > ip->size, and iupdate.
Write(f, bn, copied) ==
    /\ panicked = Ok
    /\ bn <= size[f] /\ bn < MAXFILE /\ bn < MaxBlocks
    /\ LET r   == Bmap(Disk, addrs[f], f, bn)
           off == IF copied THEN bn + 1 ELSE bn
       IN  /\ SetDisk(r.d)
           /\ addrs' = [addrs EXCEPT ![f] = r.a]
           /\ size' = [size EXCEPT ![f] = IF off > @ THEN off ELSE @]
           /\ written' = IF copied
                         THEN [written EXCEPT ![f] = (bn :> r.addr) @@ @]
                         ELSE written

\* One iteration of readi's loop: a block bn below ip->size (readi clips
\* n to the size and returns 0 past it); bmap of an address that is not
\* there allocates it, as for a write.
Read(f, bn) ==
    /\ panicked = Ok
    /\ bn < size[f]
    /\ LET r == Bmap(Disk, addrs[f], f, bn)
       IN  /\ SetDisk(r.d)
           /\ addrs' = [addrs EXCEPT ![f] = r.a]
           /\ UNCHANGED <<size, written>>

\* itrunc, called by iput on the last reference to an unlinked inode
\* and by open(O_TRUNC): free the blocks, size = 0, iupdate.
Truncate(f) ==
    /\ panicked = Ok
    /\ LET r == Itrunc(Disk, addrs[f], f) IN
       /\ SetDisk(r.d)
       /\ addrs' = [addrs EXCEPT ![f] = r.a]
       /\ size' = [size EXCEPT ![f] = 0]
       /\ written' = [written EXCEPT ![f] = <<>>]

Next ==
    \E f \in Files :
        \/ \E bn \in 0..MaxBlocks-1, copied \in BOOLEAN : Write(f, bn, copied)
        \/ \E bn \in 0..MaxBlocks-1 : Read(f, bn)
        \/ Truncate(f)

Spec == Init /\ [][Next]_vars

-----------------------------------------------------------------------------
(* Properties *)

TypeOK ==
    /\ bitmap \subseteq Blocks
    /\ freeblocks \in 0..NBLOCKS - NMETA
    /\ ptrs \in [Blocks -> [0..NINDIRECT-1 -> Blocks]]
    /\ addrs \in [Files -> [Slots -> Nat]]
    /\ size \in [Files -> 0..MaxBlocks]
    /\ \A f \in Files : DOMAIN written[f] \subseteq 0..MaxBlocks-1

\* The blocks an inode's address array reaches: the standard trees, or
\* the extents as the (start * RADIX | length, first block) pairs at even
\* slots that the extent format describes.
Reachable(f) ==
    LET a == addrs[f] IN
    IF Kind[f] = "extent"
    THEN UNION {{a[2*k] \div RADIX + j : j \in 0..(a[2*k] % RADIX) - 1} :
                   k \in 0..(NADDRS \div 2 - 1)}
    ELSE {a[k] : k \in {k \in 0..NDIRECT-1 : a[k] # 0}}
         \cup UNION {ToSet(Subtree(ptrs, a[NDIRECT + l], l + 1)) :
                        l \in {l \in 0..2 : a[NDIRECT + l] # 0}}

\* bmap / itrunc / balloc / bfree: a bit of the data bitmap is set exactly
\* for the metadata blocks and the blocks some inode's address array
\* reaches, and sb.freeblocks counts the clear bits.  Broken by a leak, a
\* free of a block still referenced, or a counter update that is missed.
BitmapMatchesInodes ==
    /\ bitmap = Meta \cup UNION {Reachable(f) : f \in Files}
    /\ freeblocks = NBLOCKS - Cardinality(bitmap)

\* writei then readi: readi's bmap finds every block written without
\* allocating, at the block it was written to (spec: write; read == data).
ReadYourWrites ==
    panicked = Ok =>
      \A f \in Files : \A bn \in DOMAIN written[f] :
        LET r == Bmap(Disk, addrs[f], f, bn) IN
        r.d = Disk /\ r.addr = written[f][bn]

\* balloc never hands out a block twice: the blocks holding written data
\* are allocated, are not metadata, and no two (file, block) share one.
BlocksExclusive ==
    \A f, g \in Files : \A m \in DOMAIN written[f], n \in DOMAIN written[g] :
        /\ written[f][m] \in bitmap \ Meta
        /\ (written[f][m] = written[g][n]) => (f = g /\ m = n)

\* The kernel's own consistency checks (bfree of a free block, bmap out
\* of range, addrs[] bounds) never fire.
NoPanic == panicked = Ok


\* The block bmap returns for file block bn of f when it has nothing to
\* allocate; 0 where the walk meets a zero pointer (a hole).
RECURSIVE Walk(_, _)
Walk(blk, idx) ==
    IF blk = 0 \/ idx = <<>> THEN blk ELSE Walk(ptrs[blk][Head(idx)], Tail(idx))

Mapped(f, bn) ==
    IF Kind[f] = "extent"
    THEN LET s == ExtentFind(addrs[f], bn, 0) IN IF s.found THEN s.addr ELSE 0
    ELSE LET p == Path(bn) IN Walk(addrs[f][p.slot], p.idx)

\* the refinement mapping: each file's blocks below ip->size
Contents == [f \in Files |-> [k \in 1 .. size[f] |-> Mapped(f, k - 1)]]

Abs == INSTANCE FileSpec WITH content <- Contents, DataBlocks <- Blocks \ Meta

\* BlockMap implements FileSpec: writei, readi and itrunc, interleaved
\* over the shared bitmap, never move a block of a file, never give one
\* block to two files or two positions, and change a file's size only by
\* one block at its end (writei's "if(off > ip->size) ip->size = off")
\* or to nothing (itrunc); mkfs's image already has that shape.
FileContents == Abs!Spec

=============================================================================
