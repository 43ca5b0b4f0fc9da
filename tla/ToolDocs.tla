------------------------------- MODULE ToolDocs -------------------------------
(***************************************************************************)
(* Sentences of the tool descriptions in src/tools.json, as properties of  *)
(* ToolCalls.                                                              *)
(***************************************************************************)
EXTENDS ToolCalls

Starts(c, s) == At(c, s, "queued") /\ task'[c] = "opened"
Renames(c)   == At(c, "rename", "queued") /\ dirent' # dirent

(* copy_file: "Fails if the destination already exists to prevent          *)
(* accidental overwrites." (tools.json:117)                                *)
CopyNeverOverwrites ==
  [][\A c \in Calls : Starts(c, "copy") => ~Exists(op[c].dst)]_vars

(* move_file: "Fails with an error if the destination already exists to    *)
(* prevent accidental overwrites." (tools.json:105)                        *)
MoveNeverOverwrites ==
  [][\A c \in Calls : Renames(c) => ~Exists(op[c].dst)]_vars
=============================================================================
