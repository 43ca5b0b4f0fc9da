------------------------------ MODULE MCTailRead ------------------------------
(* Small instances of TailRead for TLC. *)
EXTENDS TailRead, SequencesExt

CONSTANT MaxLines  \* bound on the length of the files

MCFiles == BoundedSeq(Items, MaxLines)
=============================================================================
