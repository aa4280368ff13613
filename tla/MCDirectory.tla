---------------------------- MODULE MCDirectory ----------------------------
(***************************************************************************)
(* Instances of Directory for TLC.  Names are byte sequences; with        *)
(* HASHRANGE 3 and HASHBASE 1 the bucket of a one-byte name c is          *)
(* c % 3 + 1, so "a" (97), "d" (100), "g" (103), "j" (106) share bucket 2  *)
(* and "b" (98), "e" (101) fall in bucket 3, which lies inside the        *)
(* overflow area as buckets 452..458 do in the real layout.  A block holds *)
(* two slots, so bucket h is block h and the overflow area blocks 3 .. 4.  *)
(***************************************************************************)
EXTENDS Directory

NameA == <<97>>
NameB == <<98>>
NameD == <<100>>
NameE == <<101>>
NameG == <<103>>

\* two names filling bucket 2, one spilling into overflow, one in bucket 3
StdNames == {NameA, NameD, NameG, NameB}

\* one name more than bucket 2 and a two-slot overflow area can hold
FullNames == {NameA, NameD, NameG, NameB, NameE}

\* "ab" is DIRSIZ bytes long: skipelem copies it without a NUL
LongNames == {<<97, 98>>}

\* NUL right after the buffer, or one byte 1 and then a NUL
StackBytes == {<<>>, <<1>>}

\* mkfs run with "a" alone, which stays in bucket 2, or with three files
\* of bucket 2, where "g" finds the bucket full and goes to the overflow
\* area
StdRoot == {<<NameA>>, <<NameA, NameD, NameG>>}

\* mkfs run with no file: the root holds "." and ".." only
NoRoot == {<<>>}

DotName == <<46>>
DotDotName == <<46, 46>>

=============================================================================
