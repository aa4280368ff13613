----------------------------- MODULE MCDirGrow -----------------------------
(* DirGrow with two direct blocks, an indirect block of three entries and *)
(* two dirents per block: growths reach the direct loop, the allocation  *)
(* of the indirect block and the indirect loop, from a last block that   *)
(* is full or partly used.  Blocks 1 .. 3 are the superblock, the block *)
(* bitmap and the directory's inode block; 4 and 5 are blocks the system *)
(* call may have logged before dirlink (the inode bitmap and the new     *)
(* inode's block): none, one, or both.                                   *)
EXTENDS DirGrow

MCData == 6 .. 11
\* what the system call logged before dirlink: nothing, the inode bitmap,
\* or the inode bitmap and the new inode's block
EntryLogs == {{}, {4}, {4, 5}}
=============================================================================
