---------------------------- MODULE PathResolve ----------------------------
(***************************************************************************)
(* Path resolution of kernel/fs.c: skipelem, namex (namei and             *)
(* nameiparent) and divesymlink, run by several processes at once over a  *)
(* fixed directory tree.  The inode table is reduced to what namex and    *)
(* divesymlink do with it: the references a process holds (iget, idup,   *)
(* iput) and the per-inode sleep locks (ilock, iunlock).  A directory is  *)
(* its name -> inum map, the DirSpec view that Directory implements.      *)
(* Each action is what a process does between two sleep-lock operations; *)
(* iget and iput run under itable.lock, so they are atomic within it.    *)
(***************************************************************************)
EXTENDS Integers, Sequences, SequencesExt, FiniteSets

CONSTANTS
    Procs,      \* processes resolving paths
    Inodes,     \* inode numbers of the tree
    ROOTINO,    \* the root directory
    Cwd,        \* the processes' current directory (myproc()->cwd)
    Type,       \* Type[i]: the inode's type
    Dir,        \* Dir[d]: the entries of directory d, name -> inum
    Target,     \* Target[s]: the path a symbolic link holds
    Slash,      \* the byte '/'
    Requests,   \* [path, kind]: the calls a process may make
    MAXREQ,     \* number of calls each process makes
    None        \* no process

T_DIR == 1
T_FILE == 2
T_SYMLINK == 4

\* divesymlink's cap on the links it follows: ++deep > 10
HOPS == 10

ASSUME /\ ROOTINO \in Inodes /\ Cwd \in Inodes
       /\ Type \in [Inodes -> {T_DIR, T_FILE, T_SYMLINK}]
       /\ \A r \in Requests : r.kind \in {"open", "parent"}

VARIABLES
    pc,      \* pc[p]: where process p is
    stage,   \* stage[p]: the namex call running: "namei", "parent" or "dive"
    ip,      \* ip[p]: namex's current inode, or the inode being opened
    rest,    \* rest[p]: the path after the element in name[p]
    name,    \* name[p]: the element skipelem copied
    deep,    \* deep[p]: divesymlink's hop counter
    res,     \* res[p]: what the call returned (0 for none)
    req,     \* req[p]: the call in progress
    left,    \* left[p]: calls still to make
    refs,    \* refs[p][i]: references to inode i that p holds
    holder   \* holder[i]: the process holding i's sleep lock, or None

vars == <<pc, stage, ip, rest, name, deep, res, req, left, refs, holder>>

Lookup(d, n) == IF n \in DOMAIN Dir[d] THEN Dir[d][n] ELSE 0

\* The path with its leading slashes removed.
DropSlashes(s) ==
    LET k == SelectInSeq(s, LAMBDA x : x # Slash)
    IN  IF k = 0 THEN <<>> ELSE SubSeq(s, k, Len(s))

\* skipelem(path, name): strip leading slashes; no element left gives 0,
\* otherwise the element and the rest with its leading slashes stripped.
NoElem == [none |-> TRUE]
SkipElem(s) ==
    LET t == DropSlashes(s)
    IN  IF t = <<>> THEN NoElem
        ELSE [none |-> FALSE, name |-> Head(t), rest |-> DropSlashes(Tail(t))]

\* iget / idup and iput on the references p holds
AddRef(r, p, i) == [r EXCEPT ![p][i] = @ + 1]
DropRef(r, p, i) == [r EXCEPT ![p][i] = @ - 1]

\* iunlock without the iput.
IunlockNoPut(p, i) ==
    /\ holder' = [holder EXCEPT ![i] = None]
    /\ UNCHANGED refs

\* iunlockput(ip)
IunlockPut(p, i) ==
    /\ holder' = [holder EXCEPT ![i] = None]
    /\ refs' = DropRef(refs, p, i)

\* namex's start: iget(ROOTINO) if *path == '/', else idup(cwd).
StartOf(path) == IF path # <<>> /\ Head(path) = Slash THEN ROOTINO ELSE Cwd
StartWalk(r, p, path) ==
    /\ ip' = [ip EXCEPT ![p] = StartOf(path)]
    /\ refs' = AddRef(r, p, StartOf(path))
    /\ rest' = [rest EXCEPT ![p] = path]
    /\ pc' = [pc EXCEPT ![p] = "walk"]

\* namex returns r to its caller.  nameiparent's caller keeps the
\* unlocked parent; a namei that found an inode is followed by ilock of
\* it, in sys_open and in divesymlink's loop alike.
Return(p, r) ==
    IF r = 0 \/ stage[p] = "parent"
    THEN /\ pc' = [pc EXCEPT ![p] = "final"]
         /\ res' = [res EXCEPT ![p] = r]
         /\ UNCHANGED ip
    ELSE /\ pc' = [pc EXCEPT ![p] = "lockres"]
         /\ ip' = [ip EXCEPT ![p] = r]
         /\ UNCHANGED res

\* A call of namei (followed by divesymlink, as sys_open does for a
\* symbolic link) or of nameiparent.
Request(p, r) ==
    /\ pc[p] = "idle" /\ left[p] > 0
    /\ StartWalk(refs, p, r.path)
    /\ stage' = [stage EXCEPT ![p] = IF r.kind = "parent" THEN "parent" ELSE "namei"]
    /\ req' = [req EXCEPT ![p] = r]
    /\ left' = [left EXCEPT ![p] = @ - 1]
    /\ deep' = [deep EXCEPT ![p] = 0]
    /\ res' = [res EXCEPT ![p] = 0]
    /\ UNCHANGED <<name, holder>>

\* The head of namex's loop: skipelem, then ilock(ip).  When no element
\* is left the loop ends: nameiparent puts ip and returns 0, namei
\* returns ip.
Walk(p) ==
    /\ pc[p] = "walk"
    /\ LET s == SkipElem(rest[p]) IN
       IF s.none
       THEN IF stage[p] = "parent"
            THEN /\ refs' = DropRef(refs, p, ip[p])
                 /\ Return(p, 0)
                 /\ UNCHANGED <<rest, name, holder>>
            ELSE /\ Return(p, ip[p])
                 /\ UNCHANGED <<rest, name, refs, holder>>
       ELSE /\ holder[ip[p]] = None
            /\ holder' = [holder EXCEPT ![ip[p]] = p]
            /\ name' = [name EXCEPT ![p] = s.name]
            /\ rest' = [rest EXCEPT ![p] = s.rest]
            /\ pc' = [pc EXCEPT ![p] = "body"]
            /\ UNCHANGED <<ip, res, refs>>
    /\ UNCHANGED <<stage, deep, req, left>>

\* The body of namex's loop with ip locked: a non-directory fails, the
\* last element of a nameiparent stops one level early, otherwise
\* dirlookup's iget of the element and iunlockput(ip).
Body(p) ==
    /\ pc[p] = "body"
    /\ LET i == ip[p]
           nx == Lookup(i, name[p])
           unlock == [holder EXCEPT ![i] = None]
       IN  IF Type[i] # T_DIR
           THEN IunlockPut(p, i) /\ Return(p, 0)
           ELSE IF stage[p] = "parent" /\ rest[p] = <<>>
           THEN /\ holder' = unlock /\ Return(p, i) /\ UNCHANGED refs
           ELSE IF nx = 0
           THEN IunlockPut(p, i) /\ Return(p, 0)
           ELSE /\ holder' = unlock
                /\ refs' = DropRef(AddRef(refs, p, nx), p, i)
                /\ ip' = [ip EXCEPT ![p] = nx]
                /\ pc' = [pc EXCEPT ![p] = "walk"]
                /\ UNCHANGED res
    /\ UNCHANGED <<stage, rest, name, deep, req, left>>

\* ilock of the inode namei returned; a symbolic link goes to
\* divesymlink, anything else is the opened inode, still locked.
LockResult(p) ==
    /\ pc[p] = "lockres"
    /\ holder[ip[p]] = None
    /\ holder' = [holder EXCEPT ![ip[p]] = p]
    /\ IF Type[ip[p]] = T_SYMLINK
       THEN pc' = [pc EXCEPT ![p] = "dive"] /\ UNCHANGED res
       ELSE /\ pc' = [pc EXCEPT ![p] = "final"]
            /\ res' = [res EXCEPT ![p] = ip[p]]
    /\ UNCHANGED <<stage, ip, rest, name, deep, req, left, refs>>

\* One turn of divesymlink's loop: readi of the target, iunlockput of
\* the link, ++deep > 10 gives up, otherwise namei of the target.
\* DiveStep takes the cap and the increment as parameters.
DiveStep(p, cap, inc) ==
    /\ pc[p] = "dive"
    /\ LET i == ip[p] IN
       /\ deep' = [deep EXCEPT ![p] = @ + inc]
       /\ IF deep[p] + inc > cap
          THEN /\ IunlockPut(p, i)
               /\ pc' = [pc EXCEPT ![p] = "final"]
               /\ res' = [res EXCEPT ![p] = 0]
               /\ UNCHANGED <<ip, rest, stage>>
          ELSE /\ holder' = [holder EXCEPT ![i] = None]
               /\ StartWalk(DropRef(refs, p, i), p, Target[i])
               /\ stage' = [stage EXCEPT ![p] = "dive"]
               /\ UNCHANGED res
    /\ UNCHANGED <<name, req, left>>

\* The cap tested as ++deep >= 10.
DiveCapEarly(p) == DiveStep(p, HOPS - 1, 1)

\* The cap tested as ++deep > 11.
DiveCapLate(p) == DiveStep(p, HOPS + 1, 1)

\* The hop counter never incremented.
DiveNoCount(p) == DiveStep(p, HOPS, 0)

Dive(p) == DiveStep(p, HOPS, 1)

\* The caller's release of what the call returned: iunlockput of an
\* opened inode, iput of a parent (after its own use of it).
Release(p) ==
    /\ pc[p] = "final"
    /\ LET r == res[p] IN
       /\ holder' = IF r # 0 /\ stage[p] # "parent"
                     THEN [holder EXCEPT ![r] = None] ELSE holder
       /\ refs' = IF r # 0 THEN DropRef(refs, p, r) ELSE refs
    /\ pc' = [pc EXCEPT ![p] = "idle"]
    /\ UNCHANGED <<stage, ip, rest, name, deep, res, req, left>>

Init ==
    /\ pc = [p \in Procs |-> "idle"]
    /\ stage = [p \in Procs |-> "namei"]
    /\ ip = [p \in Procs |-> 0]
    /\ rest = [p \in Procs |-> <<>>]
    /\ name = [p \in Procs |-> Slash]
    /\ deep = [p \in Procs |-> 0]
    /\ res = [p \in Procs |-> 0]
    /\ req = [p \in Procs |-> CHOOSE r \in Requests : TRUE]
    /\ left = [p \in Procs |-> MAXREQ]
    /\ refs = [p \in Procs |-> [i \in Inodes |-> 0]]
    /\ holder = [i \in Inodes |-> None]

\* Every process has made its calls: the scenario is over.
Done ==
    /\ \A p \in Procs : pc[p] = "idle" /\ left[p] = 0
    /\ UNCHANGED vars

Proc(p) ==
    \/ \E r \in Requests : Request(p, r)
    \/ Walk(p) \/ Body(p) \/ LockResult(p) \/ Dive(p) \/ Release(p)

Next == (\E p \in Procs : Proc(p)) \/ Done

\* A runnable process is eventually scheduled, and a process sleeping on
\* a sleep lock is woken by the holder's releasesleep.
Fairness == \A p \in Procs : WF_vars(Proc(p))

Spec == Init /\ [][Next]_vars /\ Fairness

-----------------------------------------------------------------------------
(* Reference resolution: what a path names in the tree, as a recursive   *)
(* walk over its elements, and links followed up to HOPS times.          *)

Elems(path) == SelectSeq(path, LAMBDA x : x # Slash)

RECURSIVE WalkRef(_, _)
WalkRef(i, es) ==
    IF es = <<>> THEN i
    ELSE IF Type[i] # T_DIR \/ Lookup(i, Head(es)) = 0 THEN 0
    ELSE WalkRef(Lookup(i, Head(es)), Tail(es))

NameiRef(path) == WalkRef(StartOf(path), Elems(path))

\* the directory holding the last element, or 0
ParentRef(path) ==
    LET es == Elems(path)
        d == IF es = <<>> THEN 0 ELSE WalkRef(StartOf(path), Front(es))
    IN  IF d # 0 /\ Type[d] = T_DIR THEN d ELSE 0

RECURSIVE FollowRef(_, _)
FollowRef(i, hops) ==
    IF i = 0 \/ Type[i] # T_SYMLINK THEN i
    ELSE IF hops = HOPS THEN 0
    ELSE FollowRef(NameiRef(Target[i]), hops + 1)

Expected(r) ==
    IF r.kind = "parent" THEN ParentRef(r.path) ELSE FollowRef(NameiRef(r.path), 0)

-----------------------------------------------------------------------------
(* Properties *)

TypeOK ==
    /\ pc \in [Procs -> {"idle", "walk", "body", "lockres", "dive", "final"}]
    /\ stage \in [Procs -> {"namei", "parent", "dive"}]
    /\ ip \in [Procs -> Inodes \cup {0}]
    /\ deep \in [Procs -> 0 .. HOPS + 1]
    /\ res \in [Procs -> Inodes \cup {0}]
    /\ left \in [Procs -> 0 .. MAXREQ]
    /\ refs \in [Procs -> [Inodes -> Nat]]
    /\ holder \in [Inodes -> Procs \cup {None}]

\* Every call returns what the path names: namei's walk through
\* skipelem and dirlookup, nameiparent's early stop (after its T_DIR
\* check), and divesymlink's loop of namei calls, which succeeds for a
\* chain of up to 10 links and fails with 0 on a longer chain or a cycle.
ResolvesAsReference ==
    \A p \in Procs : pc[p] = "final" => res[p] = Expected(req[p])

\* The inodes p must hold while at its control point: namex keeps one
\* reference, to its current inode, across the loop; a caller holds the
\* returned inode.
Holding(p) ==
    CASE pc[p] \in {"walk", "body", "lockres", "dive"} -> {ip[p]}
      [] pc[p] = "final" /\ res[p] # 0 -> {res[p]}
      [] OTHER -> {}
Locking(p) ==
    CASE pc[p] \in {"body", "dive"} -> {ip[p]}
      [] pc[p] = "final" /\ res[p] # 0 /\ stage[p] # "parent" -> {res[p]}
      [] OTHER -> {}

\* namex and divesymlink hold exactly one reference and at most one
\* sleep lock at each point: every early return (non-directory, missing
\* name, nameiparent's end of path, the hop cap) puts and unlocks what
\* it must, and the reference to the next inode is taken before the
\* current one is put.
HoldsOnlyCurrent ==
    \A p \in Procs :
        /\ \A i \in Inodes : refs[p][i] = IF i \in Holding(p) THEN 1 ELSE 0
        /\ \A i \in Inodes : holder[i] = p <=> i \in Locking(p)

\* Every call returns: namex walks a finite path, divesymlink's hop cap
\* ends a cycle of links, and no sleep lock is left held by a process
\* that has moved on.
CallsReturn == \A p \in Procs : pc[p] # "idle" ~> pc[p] = "idle"

=============================================================================
