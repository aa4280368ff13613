--------------------------- MODULE MCInodeTable ---------------------------
(***************************************************************************)
(* Instances of InodeTable for TLC: two processes, inode numbers 0..4     *)
(* (0 reserved, 1 the root), two table slots, two dinode types.  mkfs has *)
(* installed no file or one (inode 2); with one, two more creations can   *)
(* use up the numbers, and ialloc's panic ends that behaviour.            *)
(***************************************************************************)
EXTENDS InodeTable

CONSTANTS p1, p2

TwoProcs == {p1, p2}

T_DIR  == 1
T_FILE == 2
TwoTypes == {T_DIR, T_FILE}

ProcSymmetry == Permutations(TwoProcs)

=============================================================================
