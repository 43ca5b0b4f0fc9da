-------------------------- MODULE MCToolCallsAtomic --------------------------
(* Small instances of ToolCallsAtomic for TLC. *)
EXTENDS ToolCallsAtomic

MCSeedText == <<Seed, Seed>>
=============================================================================
