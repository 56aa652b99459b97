---------------------------------- MODULE Loops --------------------------------
(* The loops of the code that collect elements of a sequence, as folds. *)
EXTENDS Sequences, SequencesExt

\* A loop that appends what it does not skip: the elements of S, in their order.
Kept(seq, S) ==
    FoldLeft(LAMBDA kept, x : IF x \in S THEN Append(kept, x) ELSE kept, <<>>, seq)
=============================================================================
