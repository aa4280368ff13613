----------------------------- MODULE InodeTable -----------------------------
(***************************************************************************)
(* The inode bitmap allocator and the in-memory inode table of            *)
(* kernel/fs.c: searchibmap / ifree / ialloc, iget, ilock, iunlock and    *)
(* iput, used by several processes.  itable.lock makes iget and each      *)
(* itable-locked part of iput one step; the inode bitmap and the dinode   *)
(* are read and written under their buffer's lock, so searchibmap, the    *)
(* dinode initialisation of ialloc, iupdate and ifree are one step each.  *)
(* iput's free path releases itable.lock and runs itrunc and ifree under  *)
(* the inode's sleep lock only, then takes itable.lock again for ref--.   *)
(*                                                                         *)
(* The callers (the system calls, not in this repository) are modelled    *)
(* as each process holding at most one inode reference: it obtains one    *)
(* with ialloc (create) or with the iget of dirlookup (a name lookup),     *)
(* locks it, may link or unlink one name of it (nlink +/- 1 with iupdate), *)
(* unlocks it and puts it.  `named` is the set of inodes a directory      *)
(* entry names.                                                            *)
(***************************************************************************)
EXTENDS Integers, FiniteSets, TLC

CONSTANTS
    Procs,     \* processes (CPUs) calling into the inode layer
    NINODES,   \* sb.ninodes: inode numbers 0 .. NINODES-1
    NINODE,    \* slots of itable
    ROOTINO,   \* the root directory's inode number (1)
    Types,     \* dinode types ialloc is called with (T_DIR, T_FILE)
    MaxNamed,  \* bound on the inodes that directory entries name
    MAXDUP,    \* bound on the idup references a process adds to its own
    DirType,   \* T_DIR
    FileType,  \* T_FILE
    MkfsFiles, \* the numbers of files mkfs may have installed
    None       \* no process

ASSUME /\ NINODES > ROOTINO /\ ROOTINO = 1 /\ NINODE >= 1
       /\ 0 \notin Types /\ None \notin Procs
       /\ {DirType, FileType} \subseteq Types
       /\ \A n \in MkfsFiles : n + 2 <= NINODES

Inums == 0 .. NINODES - 1
Slots == 1 .. NINODE
Ok    == "none"

VARIABLES
    ibitmap,    \* inode numbers whose bit is set in the inode bitmap
    freeinodes, \* sb.freeinodes
    dinode,     \* dinode[i]: the on-disk [type, nlink] of inode i
    itab,       \* itab[s]: the slot's [inum, ref, valid, type, nlink]
    holder,     \* holder[s]: the process holding the slot's sleep lock
    named,      \* inodes some directory entry names
    pc,         \* pc[p]: where process p is
    hand,       \* hand[p]: the slot p holds a reference to, or 0
    tmp,        \* tmp[p]: the inode number ialloc found, or 0
    dups,       \* dups[p]: references p added to hand[p] with idup
    panicked    \* the message of a kernel panic, or Ok

vars == <<ibitmap, freeinodes, dinode, itab, holder, named, pc, hand, tmp,
          dups, panicked>>

Free == [inum |-> 0, ref |-> 0, valid |-> 0, type |-> 0, nlink |-> 0]

\* mkfs: inode 0 reserved and the root allocated (setibmap(freeinode),
\* freeinodes = NINODES - freeinode); iinit: an all-zero itable.
\* mkfs's ialloc: freeinode++ from 1, so the root and then the n files
\* it installs get the inode numbers ROOTINO .. ROOTINO + n
MkfsIalloc(n) == ROOTINO .. ROOTINO + n

\* The image mkfs leaves: the root (T_DIR) and each installed file
\* (T_FILE) with nlink 1 and a dirent in the root; setibmap(freeinode)
\* sets the bits of 0 .. freeinode-1 and updatesb stores
\* NINODES - freeinode.
Init ==
    /\ \E n \in MkfsFiles :
          /\ ibitmap = {0} \cup MkfsIalloc(n)
          /\ freeinodes = NINODES - (n + 2)
          /\ dinode = [i \in Inums |->
                         CASE i = ROOTINO -> [type |-> DirType, nlink |-> 1]
                           [] i \in MkfsIalloc(n) -> [type |-> FileType, nlink |-> 1]
                           [] OTHER -> [type |-> 0, nlink |-> 0]]
          /\ named = MkfsIalloc(n)
    /\ itab = [s \in Slots |-> Free]
    /\ holder = [s \in Slots |-> None]
    /\ pc = [p \in Procs |-> "idle"]
    /\ hand = [p \in Procs |-> 0]
    /\ tmp = [p \in Procs |-> 0]
    /\ dups = [p \in Procs |-> 0]
    /\ panicked = Ok

-----------------------------------------------------------------------------
(* iget: the slot caching inum, with ref + 1, or the first slot with ref  *)
(* 0 recycled for it (valid = 0); a panic when every slot is referenced.  *)
(* The result: the new table and the slot, 0 after a panic.               *)

\* Fault variant of iget: no search for a slot already caching inum.
IgetNoSearch(tab, inum) ==
    LET empty == {s \in Slots : tab[s].ref = 0}
    IN  IF empty = {} THEN [tab |-> tab, slot |-> 0]
        ELSE LET s == CHOOSE s \in empty : \A t \in empty : s <= t
             IN  [tab |-> [tab EXCEPT ![s].inum = inum, ![s].ref = 1,
                                      ![s].valid = 0],
                  slot |-> s]

\* Fault variant of iget: a cached slot is returned without ref++.
IgetNoIncrement(tab, inum) ==
    LET cached == {s \in Slots : tab[s].ref > 0 /\ tab[s].inum = inum}
        empty  == {s \in Slots : tab[s].ref = 0}
        first(S) == CHOOSE s \in S : \A t \in S : s <= t
    IN  IF cached # {} THEN [tab |-> tab, slot |-> first(cached)]
        ELSE IF empty = {} THEN [tab |-> tab, slot |-> 0]
        ELSE [tab |-> [tab EXCEPT ![first(empty)].inum = inum,
                                  ![first(empty)].ref = 1,
                                  ![first(empty)].valid = 0],
              slot |-> first(empty)]

\* Fault variant of iget: a recycled slot keeps its valid flag.
IgetKeepValid(tab, inum) ==
    LET cached == {s \in Slots : tab[s].ref > 0 /\ tab[s].inum = inum}
        empty  == {s \in Slots : tab[s].ref = 0}
        first(S) == CHOOSE s \in S : \A t \in S : s <= t
    IN  IF cached # {}
        THEN [tab |-> [tab EXCEPT ![first(cached)].ref = @ + 1],
              slot |-> first(cached)]
        ELSE IF empty = {} THEN [tab |-> tab, slot |-> 0]
        ELSE [tab |-> [tab EXCEPT ![first(empty)].inum = inum,
                                  ![first(empty)].ref = 1],
              slot |-> first(empty)]

Iget(tab, inum) ==
    LET cached == {s \in Slots : tab[s].ref > 0 /\ tab[s].inum = inum}
        empty  == {s \in Slots : tab[s].ref = 0}
        first(S) == CHOOSE s \in S : \A t \in S : s <= t
    IN  IF cached # {}
        THEN LET s == first(cached)
             IN  [tab |-> [tab EXCEPT ![s].ref = @ + 1], slot |-> s]
        ELSE IF empty = {} THEN [tab |-> tab, slot |-> 0]
        ELSE LET s == first(empty)
             IN  [tab |-> [tab EXCEPT ![s].inum = inum, ![s].ref = 1,
                                      ![s].valid = 0],
                  slot |-> s]

\* p's iget of inum: the reference, or the panic "iget: no inodes"
GetRef(p, inum, next) ==
    LET r == Iget(itab, inum)
    IN  /\ itab' = r.tab
        /\ hand' = [hand EXCEPT ![p] = r.slot]
        /\ pc' = [pc EXCEPT ![p] = next]
        /\ panicked' = IF r.slot = 0 THEN "iget: no inodes" ELSE panicked

-----------------------------------------------------------------------------
(* Operations of process p *)

\* ialloc, first part: searchibmap takes the lowest clear bit of the
\* inode bitmap, sets it and decrements sb.freeinodes.
IallocSearch(p) ==
    /\ panicked = Ok /\ pc[p] = "idle"
    /\ IF ibitmap = Inums
       THEN /\ panicked' = "ialloc: out of free inodes"
            /\ UNCHANGED <<ibitmap, freeinodes, pc, tmp>>
       ELSE LET i == CHOOSE i \in Inums \ ibitmap :
                         \A j \in Inums \ ibitmap : i <= j
            IN  /\ ibitmap' = ibitmap \cup {i}
                /\ freeinodes' = freeinodes - 1
                /\ tmp' = [tmp EXCEPT ![p] = i]
                /\ pc' = [pc EXCEPT ![p] = "ialloc_init"]
                /\ UNCHANGED panicked
    /\ UNCHANGED <<dinode, itab, holder, dups, named, hand>>

\* ialloc, second part: the dinode is zeroed and given its type
IallocInit(p, t) ==
    /\ panicked = Ok /\ pc[p] = "ialloc_init"
    /\ dinode' = [dinode EXCEPT ![tmp[p]] = [type |-> t, nlink |-> 0]]
    /\ pc' = [pc EXCEPT ![p] = "ialloc_get"]
    /\ UNCHANGED <<ibitmap, freeinodes, itab, holder, dups, named, hand, tmp,
                   panicked>>

\* ialloc, last part: return iget(dev, inum); the caller locks it next
IallocGet(p) ==
    /\ panicked = Ok /\ pc[p] = "ialloc_get"
    /\ GetRef(p, tmp[p], "new")
    /\ tmp' = [tmp EXCEPT ![p] = 0]
    /\ UNCHANGED <<ibitmap, freeinodes, dinode, holder, dups, named>>

\* dirlookup's iget of the inode a directory entry names (the caller
\* holds the directory's lock, so the entry is there)
IgetNamed(p, i) ==
    /\ panicked = Ok /\ pc[p] = "idle" /\ i \in named
    /\ GetRef(p, i, "held")
    /\ UNCHANGED <<ibitmap, freeinodes, dinode, holder, dups, named, tmp>>

\* ilock: take the sleep lock; read the dinode when the slot is not
\* valid, and panic "ilock: no type" if it has type 0.
Ilock(p) ==
    LET s == hand[p]
        d == dinode[itab[s].inum]
    IN  /\ panicked = Ok /\ pc[p] \in {"held", "new"}
        /\ holder[s] = None
        /\ holder' = [holder EXCEPT ![s] = p]
        /\ IF itab[s].valid = 0
           THEN /\ itab' = [itab EXCEPT ![s] = [@ EXCEPT !.valid = 1,
                                 !.type = d.type, !.nlink = d.nlink]]
                /\ panicked' = IF d.type = 0 THEN "ilock: no type"
                               ELSE panicked
           ELSE UNCHANGED <<itab, panicked>>
        /\ pc' = [pc EXCEPT ![p] = "locked"]
        /\ UNCHANGED <<dups, ibitmap, freeinodes, dinode, named, hand, tmp>>

\* idup: ref++ under itable.lock, on an inode the caller holds (namex's
\* idup(cwd), fork's idup of the cwd), locked or not
Idup(p) ==
    /\ panicked = Ok /\ pc[p] \in {"held", "locked"} /\ dups[p] < MAXDUP
    /\ itab' = [itab EXCEPT ![hand[p]].ref = @ + 1]
    /\ dups' = [dups EXCEPT ![p] = @ + 1]
    /\ UNCHANGED <<ibitmap, freeinodes, dinode, holder, named, pc, hand, tmp,
                   panicked>>

\* iupdate of slot s's cached fields to its dinode
Iupdate(tab, s) ==
    [dinode EXCEPT ![tab[s].inum] = [type |-> tab[s].type,
                                     nlink |-> tab[s].nlink]]

\* create / link: a directory entry for the locked inode, nlink + 1
LinkName(p) ==
    LET s == hand[p]
        t == [itab EXCEPT ![s].nlink = @ + 1]
    IN  /\ panicked = Ok /\ pc[p] = "locked"
        /\ itab[s].inum \notin named /\ Cardinality(named) < MaxNamed
        /\ itab' = t
        /\ dinode' = Iupdate(t, s)
        /\ named' = named \cup {itab[s].inum}
        /\ UNCHANGED <<ibitmap, freeinodes, holder, dups, pc, hand, tmp, panicked>>

\* unlink: the directory entry removed, nlink - 1
UnlinkName(p) ==
    LET s == hand[p]
        t == [itab EXCEPT ![s].nlink = @ - 1]
    IN  /\ panicked = Ok /\ pc[p] = "locked"
        /\ itab[s].inum \in named \ {ROOTINO}
        /\ itab' = t
        /\ dinode' = Iupdate(t, s)
        /\ named' = named \ {itab[s].inum}
        /\ UNCHANGED <<ibitmap, freeinodes, holder, dups, pc, hand, tmp, panicked>>

\* Fault variant of iunlock: releasesleep is missing.
IunlockKeepLock(p) ==
    /\ panicked = Ok /\ pc[p] = "locked"
    /\ pc' = [pc EXCEPT ![p] = "held"]
    /\ UNCHANGED <<ibitmap, freeinodes, dinode, itab, holder, dups, named, hand,
                   tmp, panicked>>

\* iunlock
Iunlock(p) ==
    /\ panicked = Ok /\ pc[p] = "locked"
    /\ holder' = [holder EXCEPT ![hand[p]] = None]
    /\ pc' = [pc EXCEPT ![p] = "held"]
    /\ UNCHANGED <<dups, ibitmap, freeinodes, dinode, itab, named, hand, tmp,
                   panicked>>

\* the condition under which iput truncates and frees the inode
\* Fault variant: the nlink == 0 test is missing.
FreesNoNlink(e) == e.ref = 1 /\ e.valid = 1
FreesInode(e) == e.ref = 1 /\ e.valid = 1 /\ e.nlink = 0

\* iput under itable.lock: the last reference to an unlinked, valid
\* inode waits for the sleep lock and goes on to truncate and free it;
\* any other drops the reference, and p keeps the slot while it still
\* holds references it added with idup.
IputBegin(p) ==
    LET s == hand[p]
    IN  /\ panicked = Ok /\ pc[p] = "held"
        /\ IF FreesInode(itab[s])
           THEN /\ holder[s] = None
                /\ holder' = [holder EXCEPT ![s] = p]
                /\ pc' = [pc EXCEPT ![p] = "iput_trunc"]
                /\ UNCHANGED <<itab, hand, dups>>
           ELSE /\ itab' = [itab EXCEPT ![s].ref = @ - 1]
                /\ IF dups[p] > 0
                   THEN /\ dups' = [dups EXCEPT ![p] = @ - 1]
                        /\ UNCHANGED <<hand, pc>>
                   ELSE /\ hand' = [hand EXCEPT ![p] = 0]
                        /\ pc' = [pc EXCEPT ![p] = "idle"]
                        /\ UNCHANGED dups
                /\ UNCHANGED holder
        /\ UNCHANGED <<ibitmap, freeinodes, dinode, named, tmp, panicked>>

\* itrunc (its data side is BlockMap's) ends with iupdate
IputTrunc(p) ==
    /\ panicked = Ok /\ pc[p] = "iput_trunc"
    /\ dinode' = Iupdate(itab, hand[p])
    /\ pc' = [pc EXCEPT ![p] = "iput_free"]
    /\ UNCHANGED <<ibitmap, freeinodes, itab, holder, dups, named, hand, tmp,
                   panicked>>

\* Fault variant of ifree: sb.freeinodes++ is missing.
IfreeNoCount(i) ==
    [bm |-> ibitmap \ {i}, free |-> freeinodes,
     panic |-> IF i \notin ibitmap THEN "freeing free inode" ELSE Ok]

\* ifree: panic on a clear bit, clear it, sb.freeinodes++
Ifree(i) ==
    [bm |-> ibitmap \ {i}, free |-> freeinodes + 1,
     panic |-> IF i \notin ibitmap THEN "freeing free inode" ELSE Ok]

\* Fault variant of iput's free path: ip->valid = 0 is missing.
IputFreeKeepValid(p) ==
    LET s == hand[p]
        r == Ifree(itab[s].inum)
    IN  /\ panicked = Ok /\ pc[p] = "iput_free"
        /\ ibitmap' = r.bm
        /\ freeinodes' = r.free
        /\ panicked' = IF r.panic = Ok THEN panicked ELSE r.panic
        /\ holder' = [holder EXCEPT ![s] = None]
        /\ pc' = [pc EXCEPT ![p] = "iput_drop"]
        /\ UNCHANGED <<dups, itab, dinode, named, hand, tmp>>

\* ifree(inum); ip->valid = 0; releasesleep.  valid is read by others
\* only under the sleep lock, so the three are one step.
IputFree(p) ==
    LET s == hand[p]
        r == Ifree(itab[s].inum)
    IN  /\ panicked = Ok /\ pc[p] = "iput_free"
        /\ ibitmap' = r.bm
        /\ freeinodes' = r.free
        /\ panicked' = IF r.panic = Ok THEN panicked ELSE r.panic
        /\ itab' = [itab EXCEPT ![s].valid = 0]
        /\ holder' = [holder EXCEPT ![s] = None]
        /\ pc' = [pc EXCEPT ![p] = "iput_drop"]
        /\ UNCHANGED <<dups, dinode, named, hand, tmp>>

\* iput again under itable.lock: ref--
IputDrop(p) ==
    /\ panicked = Ok /\ pc[p] = "iput_drop"
    /\ itab' = [itab EXCEPT ![hand[p]].ref = @ - 1]
    /\ hand' = [hand EXCEPT ![p] = 0]
    /\ pc' = [pc EXCEPT ![p] = "idle"]
    /\ UNCHANGED <<ibitmap, freeinodes, dinode, holder, dups, named, tmp, panicked>>

Next ==
    \E p \in Procs :
        \/ IallocSearch(p)
        \/ \E t \in Types : IallocInit(p, t)
        \/ IallocGet(p)
        \/ \E i \in Inums : IgetNamed(p, i)
        \/ Ilock(p)
        \/ Idup(p)
        \/ LinkName(p)
        \/ UnlinkName(p)
        \/ Iunlock(p)
        \/ IputBegin(p)
        \/ IputTrunc(p)
        \/ IputFree(p)
        \/ IputDrop(p)

Spec == Init /\ [][Next]_vars

-----------------------------------------------------------------------------
(* Properties *)

Entry == [inum : Inums, ref : 0 .. Cardinality(Procs) * (1 + MAXDUP),
          valid : {0, 1},
          type : {0} \cup Types, nlink : 0 .. MaxNamed]

TypeOK ==
    /\ ibitmap \subseteq Inums
    /\ freeinodes \in 0 .. NINODES - 2
    /\ itab \in [Slots -> Entry]
    /\ holder \in [Slots -> Procs \cup {None}]
    /\ named \subseteq Inums
    /\ hand \in [Procs -> {0} \cup Slots]
    /\ tmp \in [Procs -> Inums]
    /\ dups \in [Procs -> 0 .. MAXDUP]

\* iget never caches one inode number in two referenced slots, though
\* ialloc can hand out an inum whose dying slot iput has not yet let go.
UniqueCache ==
    \A s, t \in Slots :
        s # t /\ itab[s].ref > 0 /\ itab[t].ref > 0
            => itab[s].inum # itab[t].inum

\* the references the processes ps hold: one each, plus their idups
RECURSIVE Held(_)
Held(ps) ==
    IF ps = {} THEN 0
    ELSE LET p == CHOOSE q \in ps : TRUE IN 1 + dups[p] + Held(ps \ {p})

\* A slot's ref is the number of references processes hold to it, one
\* from iget plus those idup added, through iput's free path too: so
\* "ip->ref == 1 means no other process can have ip locked" (iput's
\* comment) holds whenever iput relies on it.
RefsCounted ==
    \A s \in Slots : itab[s].ref = Held({p \in Procs : hand[p] = s})

\* Whoever holds an inode's sleep lock with the slot valid sees the
\* dinode: no ialloc or iupdate changed it behind the cached copy.
LockedCacheCoherent ==
    \A s \in Slots :
        holder[s] # None /\ itab[s].valid = 1 =>
            /\ itab[s].type = dinode[itab[s].inum].type
            /\ itab[s].nlink = dinode[itab[s].inum].nlink

\* The inode numbers a process has in hand: found by ialloc, or held
\* through a slot and not yet freed by its own iput.
InUse ==
    {tmp[p] : p \in {q \in Procs : tmp[q] # 0}}
    \cup {itab[hand[p]].inum :
            p \in {q \in Procs : pc[q] \notin {"idle", "ialloc_init",
                                               "ialloc_get", "iput_drop"}}}

\* Every inode a directory entry names or a process uses has its bit
\* set, and sb.freeinodes counts the clear bits: iput frees an inode
\* only once no name and no process refers to it.
NoUseAfterFree ==
    /\ {0} \cup named \cup InUse \subseteq ibitmap
    /\ freeinodes = NINODES - Cardinality(ibitmap)

\* Every inode whose bit is set is inode 0, named, in use, or being
\* freed by an iput: an allocated inode that nothing refers to any
\* longer has been freed (no inode leaks).
Dying == {itab[hand[p]].inum : p \in {q \in Procs : pc[q] \in
                                        {"iput_trunc", "iput_free"}}}
NoInodeLeak == ibitmap \subseteq {0} \cup named \cup InUse \cup Dying

\* No consistency panic: no iget with a full table, no ilock of a
\* typeless inode, no ifree of a free inode.  (ialloc's panic when every
\* inode is allocated is the code's answer to a full inode table.)
NoPanic == panicked \in {Ok, "ialloc: out of free inodes"}

\* Until a panic stops the kernel, some process can always take a step:
\* no process waits forever on a sleep lock that is never released.
NoDeadlock == panicked = Ok => ENABLED Next

=============================================================================
