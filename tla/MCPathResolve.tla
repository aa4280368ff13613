--------------------------- MODULE MCPathResolve ---------------------------
(***************************************************************************)
(* A tree for PathResolve.  Root (1) holds directory a (2) with file f    *)
(* (3); s (4) links to "../a/f", relative to the processes' cwd a; c (5)  *)
(* and d (6) link to each other; l1 .. l11 (7 .. 17) form a chain of     *)
(* eleven links ending at /a/f, so /l2 follows ten links and /l1 eleven. *)
(***************************************************************************)
EXTENDS PathResolve, TLC

CONSTANTS p1, p2

MCProcs == {p1, p2}
MCInodes == 1 .. 17

L(k) == "l" \o ToString(k)
MCType ==
    [i \in MCInodes |-> IF i \in {1, 2} THEN T_DIR ELSE IF i = 3 THEN T_FILE
                        ELSE T_SYMLINK]
MCDir ==
    (1 :> ([n \in {".", "..", "a", "s", "c", "d"} \cup {L(k) : k \in 1 .. 11} |->
              CASE n \in {".", ".."} -> 1 [] n = "a" -> 2 [] n = "s" -> 4
                [] n = "c" -> 5 [] n = "d" -> 6 [] OTHER ->
                   CHOOSE k \in 7 .. 17 : L(k - 6) = n]))
    @@ (2 :> [n \in {".", "..", "f"} |-> CASE n = "." -> 2 [] n = ".." -> 1
                                          [] OTHER -> 3])
MCTarget ==
    [i \in 4 .. 17 |->
        CASE i = 4 -> <<"..", "/", "a", "/", "f">>
          [] i = 5 -> <<"/", "d">>
          [] i = 6 -> <<"/", "c">>
          [] i = 17 -> <<"/", "a", "/", "f">>
          [] OTHER -> <<"/", L(i - 5)>>]

Open(path) == [path |-> path, kind |-> "open"]
Parent(path) == [path |-> path, kind |-> "parent"]

\* slashes doubled and trailing, relative paths, "..", the link chain at
\* both sides of the cap, a cycle, a non-directory and a missing name
StdRequests ==
    { Open(<<"/", "a", "/", "/", "f", "/">>), Open(<<"..", "/", "s">>),
      Open(<<"/", "l1">>), Open(<<"/", "l2">>), Open(<<"/", "c">>),
      Open(<<"/", "a", "/", "f", "/", "x">>), Open(<<"f">>),
      Parent(<<"/", "a", "/", "g">>), Parent(<<"/", "a", "/", "f", "/", "x">>),
      Parent(<<"/", "/">>), Parent(<<"s", "/", "x">>), Parent(<<"a">>) }
=============================================================================
