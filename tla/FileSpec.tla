------------------------------ MODULE FileSpec ------------------------------
(***************************************************************************)
(* What the block layer promises each file, whatever its layout: the      *)
(* file's content lives in a list of data blocks, one per block of the    *)
(* file, and no block serves two files or two positions.  A step either   *)
(* leaves every list alone (a rewrite in place, a read), appends to one   *)
(* file a block that no list holds (writei one block past the end), or    *)
(* empties one file (itrunc).  Blocks never move and a file never shrinks *)
(* except to nothing.                                                      *)
(***************************************************************************)
EXTENDS Naturals, Sequences, SequencesExt

CONSTANTS Files, DataBlocks

VARIABLE content   \* content[f]: the data blocks of f, in file order

\* the blocks the lists c hold
Held(c) == UNION {ToSet(c[f]) : f \in Files}

\* every position of every file has its own data block
Distinct(c) ==
    \A f, g \in Files :
        \A i \in 1 .. Len(c[f]), j \in 1 .. Len(c[g]) :
            c[f][i] = c[g][j] => f = g /\ i = j

Init ==
    /\ \A f \in Files : ToSet(content[f]) \subseteq DataBlocks
    /\ Distinct(content)

\* The steps from lists c to lists d: none changes (a rewrite in place,
\* a read, a write whose copy failed), one file grows by a block no list
\* holds, or one file is emptied.
Keep(c, d) == d = c

Grow(c, d, f) ==
    /\ d[f] # <<>>
    /\ Last(d[f]) \in DataBlocks \ Held(c)
    /\ d = [c EXCEPT ![f] = Append(@, Last(d[f]))]

Empty(c, d, f) == d = [c EXCEPT ![f] = <<>>]

Next ==
    LET c == content
        d == content'
    IN  Keep(c, d) \/ \E f \in Files : Grow(c, d, f) \/ Empty(c, d, f)

Spec == Init /\ [][Next]_content

=============================================================================
