----------------------------- MODULE Directory -----------------------------
(***************************************************************************)
(* The hashed directory of kernel/fs.c: BKDRHash, tree_search in its      *)
(* lookup and insert modes, tree_expand, dirlookup, dirlink and the       *)
(* initial "." / ".." of build_dir_tree.  A directory is an array of     *)
(* dirent slots (one slot = sizeof(struct dirent) = 16 bytes); offsets   *)
(* and sizes below are in slots.  Bucket h occupies the BUCKETSLOTS       *)
(* slots from h * BUCKETSLOTS; the overflow area is OVFIRST..OVEND-1.      *)
(* Every operation runs under the directory's sleep lock (held by the     *)
(* caller of dirlink / dirlookup), so each is one atomic step.  Blocks    *)
(* are left out: tree_expand zero-fills what it grows, which the model    *)
(* keeps as "every slot at or beyond size is empty".                      *)
(***************************************************************************)
EXTENDS Integers, Sequences, SequencesExt, FiniteSets, TLC

CONSTANTS
    Names,        \* path elements that are linked, as sequences of bytes
    Inums,        \* inode numbers given to dirlink
    Self, Parent, \* the directory's own inode number and its parent's
    Dot, DotDot,  \* the byte sequences "." and ".."
    BUCKETSLOTS,  \* slots per bucket (16)
    HASHBASE,     \* added to the hash (16): bucket 0 .. HASHBASE-1 unused
    HASHRANGE,    \* HASHRANGE (443)
    OVFIRST,      \* first overflow slot (113 * BSIZE / 16)
    OVEND,        \* end of the overflow area (115 * BSIZE / 16)
    DIRSIZ,       \* DIRSIZ (14)
    Garbage,      \* byte sequences that may follow an unterminated name
    BLOCKSLOTS,   \* dirents per block (BSIZE / 16 = 64)
    RootArgs      \* file lists mkfs is run with, each in argv order

ASSUME /\ BUCKETSLOTS >= 1 /\ HASHBASE >= 1 /\ HASHRANGE >= 1
       /\ (HASHBASE + HASHRANGE) * BUCKETSLOTS <= OVEND
       /\ 2 <= OVFIRST /\ OVFIRST < OVEND
       /\ \A n \in Names : 1 <= Len(n) /\ Len(n) <= DIRSIZ
       /\ BLOCKSLOTS >= 1 /\ OVFIRST % BLOCKSLOTS = 0
       /\ \A a \in RootArgs : \A k \in 1 .. Len(a) : a[k] \in Names

VARIABLES
    slot,  \* slot[o]: the dirent at offset o: [inum, name]
    size,  \* dp->size
    ret    \* what the last dirlink / dirlookup / unlink returned

vars == <<slot, size, ret>>

Slots == 0 .. OVEND - 1
Empty == [inum |-> 0, name |-> <<>>]

\* strncpy(de.name, name, DIRSIZ): the name as a dirent stores it
Stored(n) == SubSeq(n, 1, IF Len(n) < DIRSIZ THEN Len(n) ELSE DIRSIZ)

\* namecmp(s, t) == 0: strncmp over DIRSIZ bytes
NamesMatch(s, t) == Stored(s) = Stored(t)

\* BKDRHash: hash = hash * 131 + c in unsigned 32-bit arithmetic.  The
\* 32-bit hash is kept as two 16-bit halves [hi, lo] so that no
\* intermediate value leaves TLC's integers; the wrap is exact.
Half == 65536
BKDRStep(h, c) ==
    LET lo == h.lo * 131 + c
    IN  [hi |-> (h.hi * 131 + (lo \div Half)) % Half, lo |-> lo % Half]
BKDR(s) == FoldLeft(BKDRStep, [hi |-> 0, lo |-> 0], s)
BKDRHash(s) ==
    LET h == BKDR(s)
    IN  ((((h.hi * (Half % HASHRANGE)) % HASHRANGE) + h.lo) % HASHRANGE) + HASHBASE

\* The bytes BKDRHash reads: up to the NUL.  A name of DIRSIZ bytes or
\* more was copied by skipelem without one, so the hash goes on over
\* whatever follows the buffer: a choice over Garbage.
HashInput(n) ==
    IF Len(n) < DIRSIZ THEN {n} ELSE {Stored(n) \o g : g \in Garbage}
Hashes(n) == {BKDRHash(s) : s \in HashInput(n)}

\* the slot offsets tree_search's two loops visit, in order
Bucket(h) == [k \in 1 .. BUCKETSLOTS |-> h * BUCKETSLOTS + k - 1]
Overflow == [k \in 1 .. OVEND - OVFIRST |-> OVFIRST + k - 1]

\* A lookup that returns a miss at the first empty slot, as a bucket
\* scan that ends at the first hole would.
FindLoopStopAtEmpty(n, offs) ==
    LET k == SelectInSeq(offs, LAMBDA o : o >= size \/ slot[o].inum = 0
                                          \/ NamesMatch(slot[o].name, n))
    IN  IF k = 0 THEN [done |-> FALSE, at |-> -1]
        ELSE [done |-> TRUE,
              at |-> IF offs[k] >= size \/ slot[offs[k]].inum = 0
                     THEN -1 ELSE offs[k]]

\* One loop of tree_search in lookup mode: it returns at the first slot
\* whose name matches, or with a miss at the first offset past size.
FindLoop(n, offs) ==
    LET k == SelectInSeq(offs, LAMBDA o : o >= size
                                          \/ NamesMatch(slot[o].name, n))
    IN  IF k = 0 THEN [done |-> FALSE, at |-> -1]
        ELSE [done |-> TRUE, at |-> IF offs[k] >= size THEN -1 ELSE offs[k]]

\* A lookup that never visits the overflow area.
TreeFindNoOverflow(n, h) == FindLoop(n, Bucket(h)).at

\* tree_search(dp, name, poff, de, 0): bucket, then overflow.
TreeFind(n, h) ==
    LET b == FindLoop(n, Bucket(h))
    IN  IF b.done THEN b.at ELSE FindLoop(n, Overflow).at

\* tree_expand(dp, end - 1) called with an end one slot too far.
TreeExpandPastEnd(offs) == offs[Len(offs)] + 2

\* tree_expand(dp, tree_next_node_off - 1): size becomes the loop's end
TreeExpand(offs) == offs[Len(offs)] + 1

\* One loop of tree_search in insert mode: the first slot with inum 0;
\* an offset past size grows the directory to the loop's end first.
FreeLoop(offs) ==
    LET k == SelectInSeq(offs, LAMBDA o : o >= size \/ slot[o].inum = 0)
    IN  IF k = 0 THEN [done |-> FALSE, at |-> 0, size |-> size]
        ELSE [done |-> TRUE, at |-> offs[k],
              size |-> IF offs[k] >= size THEN TreeExpand(offs) ELSE size]

\* tree_search(dp, name, &off, &de, 1): bucket, then overflow; when both
\* are full, off keeps dirlink's initial 0.
TreeInsert(h) ==
    LET b == FreeLoop(Bucket(h))
        o == FreeLoop(Overflow)
    IN  IF b.done THEN b ELSE IF o.done THEN o ELSE [at |-> 0, size |-> size]

\* dirlookup: "." and ".." scan slots 0 and 1, skipping empty ones;
\* other names go through tree_search.  The offset found, or -1.
DirLookup(n, h) ==
    IF n \notin {Dot, DotDot}
    THEN TreeFind(n, h)
    ELSE LET k == SelectInSeq(<<0, 1>>, LAMBDA o : slot[o].inum # 0
                                          /\ NamesMatch(n, slot[o].name))
         IN  IF k = 0 THEN -1 ELSE k - 1

\* the inode number dirlookup returns for an offset (0 for none)
InumAt(o) == IF o = -1 THEN 0 ELSE slot[o].inum

\* A directory whose "." and ".." point at d and p, two dirents long.
DotsTo(d, p) ==
    [slot |-> [o \in Slots |->
                 CASE o = 0 -> [inum |-> d, name |-> Dot]
                   [] o = 1 -> [inum |-> p, name |-> DotDot]
                   [] OTHER -> Empty],
     size |-> 2]

\* build_dir_tree: size two dirents, "." -> Self and ".." -> Parent
BuildDirTree == DotsTo(Self, Parent)

-----------------------------------------------------------------------------
(* mkfs: the root directory as mkfs/mkfs.c writes it.  The image starts     *)
(* zeroed, so a slot mkfs has not written has inum 0 whatever the size.     *)

\* BKDRHash_mkfs over de->name: the kernel's loop, and like it reading
\* past a name of DIRSIZ bytes
MkfsHashes(n) == Hashes(n)

Larger(a, b) == IF a > b THEN a ELSE b

\* dir_block_allocation_continuation(dp, block): blocks 0 .. block are
\* allocated and the size covers them
DirBlockContinuation(sz, blk) == Larger(sz, (blk + 1) * BLOCKSLOTS)

\* overflow_block_allocation_continuation(dp, off): the same up to the
\* block of off
OverflowBlockContinuation(sz, o) ==
    Larger(sz, (o \div BLOCKSLOTS + 1) * BLOCKSLOTS)

\* A scan of offs that visited offs[1 .. k]: each offset in the overflow
\* area went through overflow_block_allocation_continuation.
Visited(sz, offs, k) ==
    IF k > 0 /\ offs[k] >= OVFIRST
    THEN OverflowBlockContinuation(sz, offs[k]) ELSE sz

\* iappend_init_dir(rootino, de) with hash h: the first slot with inum 0
\* in the bucket (whose block the size covers first), else in the
\* overflow area; winode of the grown inode only when a slot was found,
\* so a name with no free slot leaves the directory as it was.
IappendInitDir(img, n, i, h) ==
    LET b  == Bucket(h)
        sz == DirBlockContinuation(img.size, (h * BUCKETSLOTS) \div BLOCKSLOTS)
        kb == SelectInSeq(b, LAMBDA o : img.slot[o].inum = 0)
        ko == SelectInSeq(Overflow, LAMBDA o : img.slot[o].inum = 0)
        at == IF kb # 0 THEN b[kb] ELSE Overflow[ko]
    IN  IF kb = 0 /\ ko = 0 THEN img
        ELSE [slot |-> [img.slot EXCEPT ![at] = [inum |-> i, name |-> Stored(n)]],
              size |-> IF kb # 0 THEN Visited(sz, b, kb)
                       ELSE Visited(Visited(sz, b, Len(b)), Overflow, ko)]

\* mkfs's main: ialloc(T_DIR) gives ROOTINO (Self), iappend of "." and
\* ".." (both Self), then for each file in turn ialloc(T_FILE), the next
\* inode number, and iappend_init_dir into the root.
RECURSIVE SeedFiles(_, _, _)
SeedFiles(img, files, inum) ==
    IF files = <<>> THEN {img}
    ELSE UNION {SeedFiles(IappendInitDir(img, Head(files), inum, h),
                          Tail(files), inum + 1) : h \in MkfsHashes(Head(files))}

MkfsRoot == UNION {SeedFiles(DotsTo(Self, Self), a, Self + 1) : a \in RootArgs}

\* A directory dirlink and dirlookup work on starts as build_dir_tree
\* leaves a new one, or as the root mkfs wrote.
Init ==
    /\ \E img \in {BuildDirTree} \cup MkfsRoot :
          slot = img.slot /\ size = img.size
    /\ ret = 0

\* dirlookup(dp, name, 0)
Lookup(n) ==
    \E h \in Hashes(n) :
        /\ ret' = InumAt(DirLookup(n, h))
        /\ UNCHANGED <<slot, size>>

\* dirlink(dp, name, inum): -1 if dirlookup finds the name; otherwise
\* the insert-mode search, then writei of (name, inum) at off.
Link(n, i) ==
    \E h \in Hashes(n) :
        IF InumAt(DirLookup(n, h)) # 0
        THEN ret' = -1 /\ UNCHANGED <<slot, size>>
        ELSE LET t == TreeInsert(h)
             IN  /\ slot' = [slot EXCEPT ![t.at] =
                               [inum |-> i, name |-> Stored(n)]]
                 /\ size' = t.size
                 /\ ret' = 0

\* unlink(dir, name): dirlookup for the offset, then a zeroed dirent
\* written over it; -1 when the name is absent.
Unlink(n) ==
    \E h \in Hashes(n) :
        LET o == DirLookup(n, h)
        IN  IF InumAt(o) = 0
            THEN ret' = -1 /\ UNCHANGED <<slot, size>>
            ELSE /\ slot' = [slot EXCEPT ![o] = Empty]
                 /\ ret' = 0
                 /\ UNCHANGED size

Next ==
    \/ \E n \in Names, i \in Inums : Link(n, i)
    \/ \E n \in Names : Unlink(n)
    \/ \E n \in Names \cup {Dot, DotDot} : Lookup(n)

Spec == Init /\ [][Next]_vars

-----------------------------------------------------------------------------
(* Properties *)

Entry == [inum : {0, Self, Parent} \cup Inums,
          name : {<<>>, Dot, DotDot} \cup {Stored(n) : n \in Names}]

\* The directory's slots hold dirents and its size stays within the
\* overflow area's end, as tree_expand's growth to a loop's end must.
TypeOK ==
    /\ slot \in [Slots -> Entry]
    /\ size \in 2 .. OVEND
    /\ ret \in {-1, 0, Self, Parent} \cup Inums

\* Every dirent the directory holds is the one dirlookup returns for its
\* name: tree_search's bucket scan (which gives up at size) and overflow
\* scan, together with dirlink's insert-mode placement and unlink's
\* holes, never leave a name unreachable or shadowed by a duplicate.
EveryEntryFound ==
    \A o \in Slots :
        slot[o].inum # 0 =>
            \A h \in Hashes(slot[o].name) : DirLookup(slot[o].name, h) = o

\* The names the directory holds, mapped to their inode numbers.
Contents ==
    LET held == {o \in Slots : slot[o].inum # 0}
    IN  [n \in {slot[o].name : o \in held} |->
            slot[CHOOSE o \in held : slot[o].name = n].inum]

Abs == INSTANCE DirSpec WITH entries <- Contents

\* dirlink, unlink and dirlookup on the hashed format behave as the
\* name -> inum map of DirSpec: same results, same contents.
AbsSpec == Abs!Spec

=============================================================================
