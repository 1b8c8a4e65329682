------------------------------ MODULE FIGBlocks ------------------------------
(***************************************************************************)
(* What the two schedulers of the fast information channel see of a FIG:   *)
(* it cycles through blocks (a header with its entries, a label), and one  *)
(* fill writes consecutive blocks while they fit into the space offered.   *)
(* A FIG without content completes its cycle without writing.              *)
(***************************************************************************)
EXTENDS Integers, Sequences, SequencesExt

VARIABLES
    content,  \* the sizes of the blocks of each FIG
    pos       \* blocks of the current cycle already written

SumTo(f, n) == FoldLeft(+, 0, SubSeq(content[f], pos[f] + 1, pos[f] + n))
Left(f) == Len(content[f]) - pos[f]
Fits(f, space) == {n \in 0..Left(f) : SumTo(f, n) <= space}

Greedy(f, space) == CHOOSE n \in Fits(f, space) : \A m \in Fits(f, space) : m <= n
=============================================================================
