----------------------------- MODULE MCBlockMap -----------------------------
(* Model values and scaled-down layout constants for BlockMap. *)
EXTENDS BlockMap

CONSTANTS f1, f2, r0

\* two T_FILE inodes
StdFiles == {f1, f2}
StdKind  == [f \in StdFiles |-> "file"]

\* one T_EXTENT inode
ExtFiles == {f1}
ExtKind  == [f \in ExtFiles |-> "extent"]

\* one T_FILE inode
TripleKind == [f \in ExtFiles |-> "file"]

\* a T_EXTENT inode next to a T_FILE inode
MixFiles == {f1, f2}
MixKind  == (f1 :> "extent") @@ (f2 :> "file")

\* mkfs installs f2, with f1 as the root directory; the dirent of f2
\* lands in root block 1 or 2 (single-indirect, as NDIRECT = 1)
StdInstalled  == <<f2>>
StdRootBlocks == {1, 2}

\* no root among Files: the inodes are created at run time
NoInstalled == <<>>

\* States that differ only in the stale content of free blocks.  bfree
\* does not clear a block and balloc zeroes it, so while every block an
\* address array reaches is allocated (BitmapMatchesInodes) the content
\* of a free block is never read and the view loses no behaviour.
LiveView == <<bitmap, freeblocks, [b \in bitmap |-> ptrs[b]], addrs, size,
              panicked, written>>
=============================================================================
