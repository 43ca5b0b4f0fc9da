--------------------------- MODULE ToolCallsAtomic ---------------------------
(***************************************************************************)
(* ToolCalls implements FileStore when calls are sequential and none times *)
(* out.  A write takes effect when its file is opened: from the truncation *)
(* on, the text that will be in the file is known.                         *)
(***************************************************************************)
EXTENDS ToolCalls

Absent == NoInode

(* A file that is not there is not a text. *)
ASSUME AbsentAssumption == NoInode \notin Text

Writers(p) == {c \in Calls : handle[c] # NoInode /\ handle[c] = dirent[p]}

files == [p \in Paths |->
            IF ~Exists(p) THEN Absent
            ELSE IF Writers(p) # {} THEN Pending(CHOOSE c \in Writers(p) : TRUE)
            ELSE data[dirent[p]]]

Effective(c) == \/ task[c] = "opened"
                \/ task[c] = "ok" /\ NextStage(c) = "idle"

phase == [c \in Calls |->
            CASE op[c] = NoOp       -> "idle"
              [] reply[c] # "none"  -> reply[c]
              [] task[c] = "failed" -> "failed"
              [] Effective(c)       -> "applied"
              [] OTHER              -> "pending"]

told == [c \in Calls |->
           IF op[c] # NoOp /\ phase[c] \in {"applied", "ok"}
             THEN IF op[c].tool = "read_text_file" THEN buf[c] ELSE <<>>
             ELSE <<>>]

FS == INSTANCE FileStore WITH request <- op

(* One call at a time and no timeouts: the truncate-then-write and         *)
(* stat-read-write sequences of files.rs, csv.rs and validation.rs look    *)
(* atomic to the client.                                                   *)
ImplementsFileStore == FS!Spec
=============================================================================
