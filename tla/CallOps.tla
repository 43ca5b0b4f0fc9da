------------------------------- MODULE CallOps -------------------------------
(***************************************************************************)
(* What the file tools are called with and what they do to a text: the     *)
(* part ToolCalls and its abstract specification FileStore share.          *)
(***************************************************************************)
EXTENDS Naturals, Sequences

CONSTANTS
  Calls,     \* tools/call requests; each is made once
  Paths,     \* file names in an allowed directory
  Tools,     \* the tools the run exercises, a subset of AllTools
  Seed,      \* a token of the text the files start with
  SeedText,  \* that text
  NoOp       \* a call that has not been made

AllTools == {"read_text_file", "write_file", "edit_file", "edit_dry_run",
             "move_file", "copy_file", "delete_file", "csv_create",
             "csv_add_row"}
TwoPathTools == {"move_file", "copy_file"}

ASSUME OpsAssumption ==
  /\ Tools \subseteq AllTools
  /\ Seed \notin Calls
  /\ SeedText \in Seq({Seed})

(* File contents are sequences of tokens.  A token is Seed or the call     *)
(* that wrote it, which is all the properties tell apart.                  *)
Token == Calls \cup {Seed}
Text  == Seq(Token)

Ops == {o \in [tool : Tools, path : Paths, dst : Paths] :
           o.tool \notin TwoPathTools => o.dst = o.path}

Touches(o) == {o.path, o.dst}
Writes(o)  == CASE o.tool = "move_file" -> {o.path, o.dst}
                [] o.tool \in {"read_text_file", "edit_dry_run"} -> {}
                [] OTHER -> {o.dst}

(* write_all at offset 0 over whatever the file holds by then. *)
Overlay(new, old) ==
  IF Len(new) >= Len(old) THEN new
                          ELSE new \o SubSeq(old, Len(new) + 1, Len(old))

(* edit_file replaces the first occurrence of oldText; an edit whose       *)
(* pattern is missing is reported and leaves the text as it is.            *)
Edited(t, c) ==
  LET found == {i \in DOMAIN t : t[i] = Seed}
      first == CHOOSE i \in found : \A j \in found : i <= j
  IN  IF found = {} THEN t ELSE [t EXCEPT ![first] = c]

(* What a read-modify-write tool makes of the text it read. *)
Rewritten(tool, t, c) == IF tool = "edit_file" THEN Edited(t, c)
                                               ELSE Append(t, c)

(* The call has left its mark on the text, or it was an edit whose pattern *)
(* is missing.                                                             *)
Marked(tool, t, c) ==
  \/ \E i \in DOMAIN t : t[i] = c
  \/ tool = "edit_file" /\ \A i \in DOMAIN t : t[i] # Seed
=============================================================================
