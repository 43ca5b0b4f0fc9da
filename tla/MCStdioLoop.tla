----------------------------- MODULE MCStdioLoop -----------------------------
(* Small instances of StdioLoop for TLC. *)
EXTENDS StdioLoop, SequencesExt

CONSTANT MaxInput  \* bound on the length of the client's text

MCInputs == BoundedSeq(Bytes, MaxInput)
=============================================================================
