------------------------------ MODULE FileStore ------------------------------
(***************************************************************************)
(* What the file tools promise a client that makes one call at a time: a   *)
(* call takes effect on the whole directory in one step, then it is        *)
(* answered.  A call that fails after taking effect, or whose server dies, *)
(* may leave a prefix of the text it was writing.                          *)
(*                                                                         *)
(* ToolCallsAtomic shows that ToolCalls implements this behind run_stdio,  *)
(* as long as no call times out.                                           *)
(***************************************************************************)
EXTENDS CallOps

CONSTANT Absent  \* the file is not there

VARIABLES
  files,    \* path -> text, or Absent
  request,  \* the call's arguments
  phase,    \* how far the call is
  told      \* the text a successful read_text_file returns

storeVars == <<files, request, phase, told>>

Init ==
  /\ files \in [Paths -> {SeedText, Absent}]
  /\ request = [c \in Calls |-> NoOp]
  /\ phase = [c \in Calls |-> "idle"]
  /\ told = [c \in Calls |-> <<>>]

(* The tools that may create or replace their target ask nothing of it. *)
Applicable(o) ==
  CASE o.tool = "write_file" -> TRUE
    [] o.tool = "csv_create" -> files[o.dst] = Absent
    [] o.tool = "move_file"  -> files[o.path] # Absent /\ files[o.dst] = Absent
    [] OTHER                 -> files[o.path] # Absent

Effect(o, c) ==
  CASE o.tool \in {"write_file", "csv_create"} ->
         [files EXCEPT ![o.dst] = <<c>>]
    [] o.tool \in {"edit_file", "csv_add_row"} ->
         [files EXCEPT ![o.dst] = Rewritten(o.tool, @, c)]
    [] o.tool = "move_file" ->
         [files EXCEPT ![o.path] = Absent, ![o.dst] = files[o.path]]
    [] o.tool = "copy_file" ->
         \* a copy onto itself truncates the file before reading it
         [files EXCEPT ![o.dst] = IF o.path = o.dst THEN <<>> ELSE files[o.path]]
    [] o.tool = "delete_file" -> [files EXCEPT ![o.path] = Absent]
    [] OTHER -> files

Submit(c, o) ==
  /\ phase[c] = "idle"
  /\ request' = [request EXCEPT ![c] = o]
  /\ phase' = [phase EXCEPT ![c] = "pending"]
  /\ UNCHANGED <<files, told>>

(* A call that is refused at once really could not have been applied. *)
Reject(c, o) ==
  /\ phase[c] = "idle"
  /\ ~Applicable(o)
  /\ request' = [request EXCEPT ![c] = o]
  /\ phase' = [phase EXCEPT ![c] = "error"]
  /\ UNCHANGED <<files, told>>

Apply(c) ==
  /\ phase[c] = "pending"
  /\ Applicable(request[c])
  /\ files' = Effect(request[c], c)
  /\ phase' = [phase EXCEPT ![c] = "applied"]
  /\ told' = [told EXCEPT ![c] = IF request[c].tool = "read_text_file"
                                   THEN files[request[c].path] ELSE <<>>]
  /\ UNCHANGED request

(* Only the target of a tool that writes a text can be cut short. *)
CutShort(c) ==
  /\ request[c].tool \in {"write_file", "csv_create", "edit_file",
                          "csv_add_row", "copy_file"}
  /\ \E k \in 0..Len(files[request[c].dst]) :
       files' = [files EXCEPT ![request[c].dst] = SubSeq(@, 1, k)]

Fail(c) ==
  /\ \/ phase[c] = "pending" /\ UNCHANGED files
     \/ phase[c] = "applied" /\ CutShort(c)
  /\ phase' = [phase EXCEPT ![c] = "failed"]
  /\ UNCHANGED <<request, told>>

Lose(c) ==
  /\ \/ phase[c] \in {"pending", "applied", "failed"} /\ UNCHANGED files
     \/ phase[c] = "applied" /\ CutShort(c)
  /\ phase' = [phase EXCEPT ![c] = "lost"]
  /\ told' = [told EXCEPT ![c] = <<>>]
  /\ UNCHANGED request

Answer(c) ==
  /\ phase[c] \in {"applied", "failed"}
  /\ phase' = [phase EXCEPT ![c] = IF @ = "applied" THEN "ok" ELSE "error"]
  /\ UNCHANGED <<files, request, told>>

Next ==
  \E c \in Calls :
    \/ \E o \in Ops : Submit(c, o) \/ Reject(c, o)
    \/ Apply(c) \/ Fail(c) \/ Lose(c) \/ Answer(c)

Spec == Init /\ [][Next]_storeVars
=============================================================================
