------------------------------ MODULE DirSpec ------------------------------
(***************************************************************************)
(* What a directory promises, whatever its on-disk format: a finite map   *)
(* from names to inode numbers holding "." and "..", where a link of a    *)
(* name already present fails with -1, an unlink of a name absent fails   *)
(* with -1, and a lookup returns the inode number linked under the name,  *)
(* or 0.  `ret` is the value the last operation returned.                 *)
(***************************************************************************)
EXTENDS Integers, Sequences, TLC

CONSTANTS Names, Inums, Self, Parent, Dot, DotDot, RootArgs

VARIABLES entries, ret

\* A new directory holds "." and ".."; the root mkfs writes holds "."
\* and ".." (both itself) and each file mkfs named, with the inode
\* numbers it gave them in turn.
NewDir == (Dot :> Self) @@ (DotDot :> Parent)
RootDir(a) == [n \in {a[k] : k \in 1 .. Len(a)} |->
                  Self + CHOOSE k \in 1 .. Len(a) : a[k] = n]
              @@ (Dot :> Self) @@ (DotDot :> Self)

Init ==
    /\ entries \in {NewDir} \cup {RootDir(a) : a \in RootArgs}
    /\ ret = 0

Link(n, i) ==
    IF n \in DOMAIN entries
    THEN ret' = -1 /\ UNCHANGED entries
    ELSE entries' = (n :> i) @@ entries /\ ret' = 0

Unlink(n) ==
    IF n \in DOMAIN entries
    THEN /\ entries' = [m \in DOMAIN entries \ {n} |-> entries[m]]
         /\ ret' = 0
    ELSE ret' = -1 /\ UNCHANGED entries

Lookup(n) ==
    /\ ret' = IF n \in DOMAIN entries THEN entries[n] ELSE 0
    /\ UNCHANGED entries

Next ==
    \/ \E n \in Names, i \in Inums : Link(n, i)
    \/ \E n \in Names : Unlink(n) \/ Lookup(n)
    \/ \E n \in {Dot, DotDot} : Lookup(n)

Spec == Init /\ [][Next]_<<entries, ret>>

=============================================================================
