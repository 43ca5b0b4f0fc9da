----------------------------- MODULE MCToolCalls -----------------------------
(* Small instances of ToolCalls for TLC. *)
EXTENDS ToolCalls

MCSeedText == <<Seed, Seed>>
=============================================================================
