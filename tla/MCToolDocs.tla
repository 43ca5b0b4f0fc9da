------------------------------ MODULE MCToolDocs ------------------------------
(* Small instances of ToolDocs for TLC. *)
EXTENDS ToolDocs, TLC

MCSeedText == <<Seed, Seed>>
=============================================================================
