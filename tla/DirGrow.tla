------------------------------ MODULE DirGrow ------------------------------
(***************************************************************************)
(* A directory growing through tree_expand and                            *)
(* contiguous_block_allocation (kernel/fs.c), inside the transaction of   *)
(* the system call that links a name, with the journal's commit points:  *)
(* check_log_full and check_free end the transaction and begin another   *)
(* in the middle of the growth.  Offsets and sizes are in dirents and    *)
(* BSIZE is dirents per block: every division and remainder of the code  *)
(* gives the same block numbers in these units, as sizes are multiples   *)
(* of sizeof(struct dirent).                                              *)
(*                                                                         *)
(* The journal is outside src/ and is modelled from spec.md: log_write    *)
(* adds a block to the transaction, commit (end_op; begin_op) writes the *)
(* cached content of every logged block to the disk at once, and a crash *)
(* leaves the disk as the last commit wrote it.  `disk` is therefore the *)
(* state a crash at this point leaves after recovery.  The caller holds  *)
(* the directory's sleep lock, so one process grows it.                   *)
(***************************************************************************)
EXTENDS Integers, FiniteSets, FiniteSetsExt

CONSTANTS
    NDIRECT,     \* direct addresses (NDIRECT)
    NINDIRECT,   \* entries of the single indirect block (NINDIRECT)
    BSIZE,       \* dirents per block
    SBBLOCK,     \* the superblock's block
    BMAPBLOCK,   \* the block bitmap's block
    IBLOCK,      \* the block holding the directory's dinode
    Data,        \* data block numbers balloc hands out
    LOGCAP,      \* blocks a transaction may hold (LOGSIZE)
    LOGSLACK,    \* free log blocks below which is_log_full() is true
    PreWrites,   \* the sets of blocks the system call may have logged before dirlink
    MAXOPS       \* number of growths

MAXSIZE == (NDIRECT + NINDIRECT) * BSIZE

VARIABLES
    pc,        \* where the growth is
    target,    \* tree_expand's `size` argument: the last offset to cover
    bid,       \* block_id
    first,     \* first_block
    addrs,     \* ip->addrs[0 .. NDIRECT] in memory
    isize,     \* ip->size in memory
    ind,       \* the cached indirect block: p_data[0 .. NINDIRECT-1]
    bits,      \* the cached block bitmap
    dinode,    \* the cached on-disk inode: what iupdate last copied
    logged,    \* the blocks log_write added to the open transaction
    disk,      \* the committed bitmap, inode and indirect block
    overflow,  \* log_write found the transaction beyond the log
    ops        \* growths still to run

vars == <<pc, target, bid, first, addrs, isize, ind, bits, dinode, logged, disk,
          overflow, ops>>

Blk == Data \cup {0}
NoInd == [k \in 0 .. NINDIRECT - 1 |-> 0]

\* is_log_full(): fewer than LOGSLACK free blocks in the log
IsLogFull(l) == Cardinality(l) > LOGCAP - LOGSLACK

\* log_write of the blocks l: the transaction must fit in the log
LogWrite(l) == overflow' = (overflow \/ Cardinality(l) > LOGCAP)

\* end_op(); begin_op(): the logged blocks reach the disk together, with
\* the cache's bitmap bm, inode, and content ic of indirect block ib.
Commit(l, bm, ib, ic) ==
    [bits   |-> IF BMAPBLOCK \in l THEN bm ELSE disk.bits,
     dinode |-> IF IBLOCK \in l THEN dinode ELSE disk.dinode,
     ind    |-> IF ib \in l THEN ic ELSE disk.ind]

\* balloc: the lowest clear bit; it logs the bitmap block, the
\* superblock and the zeroed block.
Balloc == Min(Data \ bits)
BallocLogs(b) == {BMAPBLOCK, SBBLOCK, b}

\* check_log_full: ends the transaction when if_log_full() == 0
CheckLogFull(l, bm, ib, ic) ==
    /\ LogWrite(l)
    /\ IF ~IsLogFull(l) THEN logged' = {} /\ disk' = Commit(l, bm, ib, ic)
       ELSE logged' = l /\ UNCHANGED disk

\* The system call begins: its transaction holds what it logged before
\* dirlink, then tree_expand(dp, t) calls contiguous_block_allocation,
\* which computes first_block (a partly used last block counts as
\* allocated) and block_end_id.
StartFrom(t, pre, fb) ==
    /\ pc = "idle" /\ ops > 0
    /\ target' = t
    /\ first' = fb
    /\ bid' = fb
    /\ logged' = pre
    /\ pc' = IF fb > t \div BSIZE THEN "zero" ELSE "direct"
    /\ ops' = ops - 1
    /\ UNCHANGED <<addrs, isize, ind, bits, dinode, disk, overflow>>

\* first_block without the round-up for a partly used last block.
StartNoCeil(t, pre) == StartFrom(t, pre, isize \div BSIZE)

Start(t, pre) ==
    StartFrom(t, pre, isize \div BSIZE + (IF isize % BSIZE # 0 THEN 1 ELSE 0))

\* One turn of the direct loop: balloc into addrs[block_id], then
\* check_log_full.  At the loop's end, a growth within the direct
\* blocks is done; otherwise the indirect block is needed.
Direct ==
    /\ pc = "direct"
    /\ IF bid <= target \div BSIZE /\ bid <= NDIRECT - 1
       THEN LET b == Balloc IN
            /\ addrs' = [addrs EXCEPT ![bid] = b]
            /\ bits' = bits \cup {b}
            /\ CheckLogFull(logged \cup BallocLogs(b), bits \cup {b},
                            addrs[NDIRECT], ind)
            /\ bid' = bid + 1
            /\ UNCHANGED <<pc, ind>>
       ELSE /\ pc' = IF target \div BSIZE < NDIRECT THEN "zero" ELSE "indalloc"
            /\ UNCHANGED <<bid, addrs, bits, logged, disk, ind, overflow>>
    /\ UNCHANGED <<target, first, isize, dinode, ops>>

\* addrs[NDIRECT] allocated when it is 0, then check_log_full.
IndAlloc ==
    /\ pc = "indalloc"
    /\ pc' = "indirect"
    /\ IF addrs[NDIRECT] = 0
       THEN LET b == Balloc IN
            /\ addrs' = [addrs EXCEPT ![NDIRECT] = b]
            /\ bits' = bits \cup {b}
            /\ ind' = NoInd
            /\ CheckLogFull(logged \cup BallocLogs(b), bits \cup {b}, b, NoInd)
       ELSE UNCHANGED <<addrs, bits, ind, logged, disk, overflow>>
    /\ UNCHANGED <<target, bid, first, isize, dinode, ops>>

\* check_free: ends the transaction when if_log_full() == 1, after
\* log_write of the indirect block.
CheckFree(l, bm, ib, ic) ==
    IF IsLogFull(l)
    THEN /\ LogWrite(l \cup {ib})
         /\ logged' = {} /\ disk' = Commit(l \cup {ib}, bm, ib, ic)
    ELSE LogWrite(l) /\ logged' = l /\ UNCHANGED disk

\* One turn of the indirect loop: balloc into p_data[block_id - NDIRECT],
\* then check_free.  At the loop's end, log_write of the indirect block.
Indirect ==
    /\ pc = "indirect"
    /\ IF bid <= target \div BSIZE
       THEN LET b == Balloc
                ic == [ind EXCEPT ![bid - NDIRECT] = b]
            IN  /\ ind' = ic
                /\ bits' = bits \cup {b}
                /\ CheckFree(logged \cup BallocLogs(b), bits', addrs[NDIRECT], ic)
                /\ bid' = bid + 1
                /\ UNCHANGED pc
       ELSE /\ logged' = logged \cup {addrs[NDIRECT]}
            /\ LogWrite(logged')
            /\ pc' = "zero"
            /\ UNCHANGED <<bid, bits, ind, disk>>
    /\ UNCHANGED <<target, first, addrs, isize, dinode, ops>>

\* The block holding logical block k, as bmap finds it.
BlockOf(a, ic, k) == IF k < NDIRECT THEN a[k] ELSE ic[k - NDIRECT]

\* The rest of tree_expand: a partly used last block has its tail
\* zeroed (log_write of that block), then ip->size = size + 1 and
\* iupdate; back in dirlink, writei of the dirent into the block of
\* offset size.  Expand takes the
\* increment of ip->size = size + 1 as a parameter.
Expand(inc) ==
    /\ pc = "zero"
    /\ LET tail == IF isize % BSIZE # 0
                   THEN {BlockOf(addrs, ind, (isize - 1) \div BSIZE)} ELSE {}
       IN  logged' = logged \cup tail \cup {IBLOCK, BlockOf(addrs, ind, target \div BSIZE)}
    /\ LogWrite(logged')
    /\ isize' = target + inc
    /\ dinode' = [addrs |-> addrs, size |-> target + inc]
    /\ pc' = "final"
    /\ UNCHANGED <<target, bid, first, addrs, ind, bits, disk, overflow, ops>>

\* ip->size = size + 2.
ZeroSizeTwo == Expand(2)

Zero == Expand(1)

\* The system call's end_op.
Final ==
    /\ pc = "final"
    /\ logged' = {}
    /\ disk' = Commit(logged, bits, addrs[NDIRECT], ind)
    /\ pc' = "idle"
    /\ UNCHANGED <<target, bid, first, addrs, isize, ind, bits, dinode, overflow, ops>>

\* build_dir_tree's directory, committed: two dirents in block 0.
Init ==
    /\ pc = "idle"
    /\ target = 0 /\ bid = 0 /\ first = 0
    /\ addrs = [k \in 0 .. NDIRECT |-> IF k = 0 THEN Min(Data) ELSE 0]
    /\ isize = 2
    /\ ind = NoInd
    /\ bits = {Min(Data)}
    /\ dinode = [addrs |-> addrs, size |-> 2]
    /\ logged = {}
    /\ disk = [bits |-> bits, dinode |-> dinode, ind |-> NoInd]
    /\ overflow = FALSE
    /\ ops = MAXOPS

\* Every growth has run, or the directory has every block it can have:
\* the scenario is over.
Done == pc = "idle" /\ (ops = 0 \/ isize = MAXSIZE) /\ UNCHANGED vars

\* The growth is called with the end of a bucket or of the overflow
\* area: any offset past the size that the blocks can hold.
Next ==
    \/ \E t \in isize .. MAXSIZE - 1, pre \in PreWrites : Start(t, pre)
    \/ Direct \/ IndAlloc \/ Indirect \/ Zero \/ Final \/ Done

Spec == Init /\ [][Next]_vars

-----------------------------------------------------------------------------
(* Properties *)

\* The blocks an inode record and its indirect block reach.
Reach(d) ==
    ({d.dinode.addrs[k] : k \in 0 .. NDIRECT}
       \cup (IF d.dinode.addrs[NDIRECT] # 0
             THEN {d.ind[k] : k \in 0 .. NINDIRECT - 1} ELSE {})) \ {0}

TypeOK ==
    /\ pc \in {"idle", "direct", "indalloc", "indirect", "zero", "final"}
    /\ isize \in 2 .. MAXSIZE
    /\ addrs \in [0 .. NDIRECT -> Blk]
    /\ ind \in [0 .. NINDIRECT - 1 -> Blk]
    /\ bits \subseteq Data
    /\ overflow \in BOOLEAN

\* Once the system call has ended, the committed directory is whole:
\* its size is the new one, every block below it is mapped to its own
\* block, and the bitmap holds exactly the blocks it reaches.
GrowthCommitted ==
    pc = "idle" =>
        LET d == disk
            used == 0 .. (d.dinode.size - 1) \div BSIZE
        IN  /\ d.dinode.size = isize
            /\ \A k \in used : BlockOf(d.dinode.addrs, d.ind, k) # 0
            /\ \A j, k \in used :
                  j # k => BlockOf(d.dinode.addrs, d.ind, j)
                           # BlockOf(d.dinode.addrs, d.ind, k)
            /\ d.bits = Reach(d)

\* What a crash at any point leaves (the last commit) is consistent:
\* every block whose bit is set is reachable from the directory's
\* committed inode, and every block it reaches has its bit set
\* (spec.md, section 7, crash recovery).
CrashConsistent == disk.bits = Reach(disk)

=============================================================================
