------------------------------ MODULE ToolCalls ------------------------------
(***************************************************************************)
(* The file tools of mcp-filesystem as concurrent calls over one shared    *)
(* directory.                                                              *)
(*                                                                         *)
(* A call is an async handler (src/src/actions/files.rs, csv.rs) that runs *)
(* from one `.await` to the next.  Each `.await` hands one closure to the  *)
(* tokio blocking pool (util.rs `blocking`, validation.rs `Resolved`) and  *)
(* resumes with its result.  server.rs wraps the handler in                *)
(* tokio::time::timeout: when the timer fires the handler is dropped and   *)
(* the client is answered, but the closure it was waiting for is detached  *)
(* and still runs.  Nothing in the server locks a path, so calls meet in   *)
(* the directory.                                                          *)
(*                                                                         *)
(* The stdio loop serves one call at a time (Sequential); over HTTP the    *)
(* handlers interleave at every step below.                                *)
(***************************************************************************)
EXTENDS CallOps

CONSTANTS
  MaxSize,     \* Config::max_file_size, in tokens
  NoInode,     \* a name that is not in the directory
  Sequential,  \* TRUE: run_stdio, FALSE: the HTTP server
  Timeouts     \* whether --request-timeout may expire during a call

ASSUME ConstantsAssumption ==
  /\ Calls \cap Paths = {}
  /\ NoInode \notin Calls \cup Paths
  /\ NoOp \notin Ops
  /\ MaxSize \in Nat
  /\ Sequential \in BOOLEAN
  /\ Timeouts \in BOOLEAN

(* The inode a call creates is named after the call, the ones there from   *)
(* the start after their paths.                                            *)
Inode == Calls \cup Paths

VARIABLES
  dirent,  \* the directory: path -> inode
  data,    \* inode -> text
  op,      \* the arguments of the call
  stage,   \* the `.await` the handler is at
  task,    \* the closure that await handed to the blocking pool
  seen,    \* the inode that closure, or the one before it, looked up
  handle,  \* the inode the closure has open for writing
  buf,     \* the text the handler read, or is about to write
  reply,   \* what the client was told
  alone    \* history: no conflicting call was in flight at the same time

vars == <<dirent, data, op, stage, task, seen, handle, buf, reply, alone>>

Stages  == {"idle", "stat", "read", "write", "rename", "copy", "unlink"}
TaskSts == {"none", "queued", "opened", "ok", "failed"}
Replies == {"none", "ok", "error", "timeout", "lost"}

(* The call's handler or its detached closure is still alive. *)
InFlight(c) == task[c] # "none"

Exists(p) == dirent[p] # NoInode

Conflict(o1, o2) == \/ Writes(o1) \cap Touches(o2) # {}
                    \/ Touches(o1) \cap Writes(o2) # {}

-----------------------------------------------------------------------------
(* The text a writing closure puts into its open file. *)
Pending(c) == IF stage[c] = "copy" THEN data[seen[c]] ELSE buf[c]

-----------------------------------------------------------------------------
Init ==
  /\ dirent \in {d \in [Paths -> Paths \cup {NoInode}] :
                    \A p \in Paths : d[p] \in {p, NoInode}}
  /\ data   = [i \in Inode |-> IF i \in Paths THEN SeedText ELSE <<>>]
  /\ op     = [c \in Calls |-> NoOp]
  /\ stage  = [c \in Calls |-> "idle"]
  /\ task   = [c \in Calls |-> "none"]
  /\ seen   = [c \in Calls |-> NoInode]
  /\ handle = [c \in Calls |-> NoInode]
  /\ buf    = [c \in Calls |-> <<>>]
  /\ reply  = [c \in Calls |-> "none"]
  /\ alone  = [c \in Calls |-> TRUE]

(***************************************************************************)
(* The arrival of a call: sandbox resolution, which every path of the run  *)
(* passes, and the synchronous checks before the first `.await`.           *)
(***************************************************************************)

(* run_stdio reads the next line only when the last one is answered. *)
MayArrive(c) ==
  /\ op[c] = NoOp
  /\ Sequential => \A d \in Calls : op[d] = NoOp \/ reply[d] # "none"

(* Mutant: rename without its look at the destination.                     *)
RefusedUnlessTaken(o) ==
  \/ o.tool = "csv_create" /\ Exists(o.dst)
  \/ o.tool = "read_text_file" /\ ~Exists(o.path)

Refused(o) ==
  \/ o.tool = "move_file" /\ Exists(o.dst)
  \/ o.tool = "csv_create" /\ Exists(o.dst)
  \/ o.tool = "read_text_file" /\ ~Exists(o.path)

FirstStage(o) ==
  CASE o.tool \in {"write_file", "csv_create"} -> "write"
    [] o.tool = "move_file"                    -> "rename"
    [] o.tool = "copy_file"                    -> "copy"
    [] o.tool = "csv_add_row"                  -> "read"
    [] OTHER                                   -> "stat"

Refuse(c, o) ==
  /\ MayArrive(c)
  /\ Refused(o)
  /\ op' = [op EXCEPT ![c] = o]
  /\ reply' = [reply EXCEPT ![c] = "error"]
  /\ UNCHANGED <<dirent, data, stage, task, seen, handle, buf, alone>>

(* A detached writer may hold a file that has been renamed since: it       *)
(* conflicts with a call that finds the file under its new name.           *)
MeetsWriter(o) ==
  \E d \in Calls, p \in Touches(o) : handle[d] # NoInode /\ handle[d] = dirent[p]

Submit(c, o) ==
  /\ MayArrive(c)
  /\ ~Refused(o)
  /\ op' = [op EXCEPT ![c] = o]
  /\ stage' = [stage EXCEPT ![c] = FirstStage(o)]
  /\ task' = [task EXCEPT ![c] = "queued"]
  /\ buf' = [buf EXCEPT ![c] = IF FirstStage(o) = "write" THEN <<c>> ELSE <<>>]
  /\ alone' = [d \in Calls |->
                 IF d = c
                   THEN /\ ~MeetsWriter(o)
                        /\ \A e \in Calls : InFlight(e) => ~Conflict(op[e], o)
                   ELSE alone[d] /\ (InFlight(d) => ~Conflict(op[d], o))]
  /\ UNCHANGED <<dirent, data, seen, handle, reply>>

-----------------------------------------------------------------------------
(***************************************************************************)
(* The closures on the blocking pool.  Each action is one system call; a   *)
(* write and a copy are two, the open that creates or truncates the file   *)
(* and the write of the text.                                              *)
(***************************************************************************)

(* Mutant: a closure whose handler is gone waits for someone to take its   *)
(* result.                                                                 *)
FinishBlocks(c, result) ==
  task' = [task EXCEPT ![c] = IF reply[c] = "timeout" THEN @ ELSE result]

(* The result waits for the handler, unless the timer has dropped it. *)
Finish(c, result) ==
  task' = [task EXCEPT ![c] = IF reply[c] = "timeout" THEN "none" ELSE result]

At(c, s, t) == stage[c] = s /\ task[c] = t

Lookup(c, p) == seen' = [seen EXCEPT ![c] = dirent[p]]

TooLarge(p) == Len(data[dirent[p]]) > MaxSize

(* Resolved::metadata, with the size check the caller makes on its result; *)
(* delete_file makes none.                                                 *)
StatTask(c) ==
  LET p == op[c].path IN
  /\ At(c, "stat", "queued")
  /\ Lookup(c, p)
  /\ Finish(c, IF /\ Exists(p)
                  /\ op[c].tool # "delete_file" => ~TooLarge(p)
               THEN "ok" ELSE "failed")
  /\ UNCHANGED <<dirent, data, op, stage, handle, buf, reply, alone>>

(* Resolved::read, the read of read_text_file, and read_csv_file, which    *)
(* checks the size of the file it has opened.                              *)
ReadTask(c) ==
  LET p == op[c].path
      found == Exists(p) /\ (op[c].tool = "csv_add_row" => ~TooLarge(p))
  IN
  /\ At(c, "read", "queued")
  /\ Lookup(c, p)
  /\ buf' = [buf EXCEPT ![c] = IF found THEN data[dirent[p]] ELSE <<>>]
  /\ Finish(c, IF found THEN "ok" ELSE "failed")
  /\ UNCHANGED <<dirent, data, op, stage, handle, reply, alone>>

(* Mutant: open(O_CREAT) without O_TRUNC. *)
OpenTargetInPlace(c) ==
  LET p == op[c].dst
      i == IF Exists(p) THEN dirent[p] ELSE c
  IN
  /\ dirent' = [dirent EXCEPT ![p] = i]
  /\ handle' = [handle EXCEPT ![c] = i]
  /\ task' = [task EXCEPT ![c] = "opened"]
  /\ UNCHANGED data

(* open(O_CREAT | O_TRUNC): dir.create, File::create, fs::copy's target. *)
OpenTarget(c) ==
  LET p == op[c].dst
      i == IF Exists(p) THEN dirent[p] ELSE c
  IN
  /\ dirent' = [dirent EXCEPT ![p] = i]
  /\ data' = [data EXCEPT ![i] = <<>>]
  /\ handle' = [handle EXCEPT ![c] = i]
  /\ task' = [task EXCEPT ![c] = "opened"]

WriteOpen(c) ==
  /\ At(c, "write", "queued")
  /\ OpenTarget(c)
  /\ UNCHANGED <<op, stage, seen, buf, reply, alone>>

(* std::fs::copy opens the source, then creates or truncates the target,   *)
(* whether or not the target is there, or is the source itself.            *)
CopyOpen(c) ==
  /\ At(c, "copy", "queued")
  /\ Exists(op[c].path)
  /\ Lookup(c, op[c].path)
  /\ OpenTarget(c)
  /\ UNCHANGED <<op, stage, buf, reply, alone>>

(* Mutant: the file stays open after the write. *)
BodyLeaks(c) ==
  /\ task[c] = "opened"
  /\ data' = [data EXCEPT ![handle[c]] = Overlay(Pending(c), @)]
  /\ Finish(c, "ok")
  /\ UNCHANGED <<dirent, op, stage, seen, handle, buf, reply, alone>>

(* The text reaches the open file, wherever its name is by now. *)
Body(c) ==
  /\ task[c] = "opened"
  /\ data' = [data EXCEPT ![handle[c]] = Overlay(Pending(c), @)]
  /\ handle' = [handle EXCEPT ![c] = NoInode]
  /\ Finish(c, "ok")
  /\ UNCHANGED <<dirent, op, stage, seen, buf, reply, alone>>

(* rename(2), which replaces a target that exists. *)
RenameTask(c) ==
  LET o == op[c] IN
  /\ At(c, "rename", "queued")
  /\ Exists(o.path)
  /\ dirent' = [dirent EXCEPT ![o.path] = NoInode, ![o.dst] = dirent[o.path]]
  /\ Finish(c, "ok")
  /\ UNCHANGED <<data, op, stage, seen, handle, buf, reply, alone>>

UnlinkTask(c) ==
  /\ At(c, "unlink", "queued")
  /\ Exists(op[c].path)
  /\ dirent' = [dirent EXCEPT ![op[c].path] = NoInode]
  /\ Finish(c, "ok")
  /\ UNCHANGED <<data, op, stage, seen, handle, buf, reply, alone>>

(* The name is gone, or the system call fails for a reason of its own. *)
TaskFails(c) ==
  /\ task[c] = "queued"
  /\ Finish(c, "failed")
  /\ UNCHANGED <<dirent, data, op, stage, seen, handle, buf, reply, alone>>

(* write_all or the copy fails part-way, e.g. on a full disk: a prefix of  *)
(* the text stays in the truncated file.                                   *)
WriteFails(c) ==
  /\ task[c] = "opened"
  /\ \E k \in 0..Len(Pending(c)) :
       data' = [data EXCEPT ![handle[c]] = Overlay(SubSeq(Pending(c), 1, k), @)]
  /\ handle' = [handle EXCEPT ![c] = NoInode]
  /\ Finish(c, "failed")
  /\ UNCHANGED <<dirent, op, stage, seen, buf, reply, alone>>

-----------------------------------------------------------------------------
(***************************************************************************)
(* The handler.                                                            *)
(***************************************************************************)

(* Mutant: edit_file reports its edits without saving them. *)
NextStageUnsaved(c) ==
  LET t == op[c].tool IN
  CASE stage[c] = "stat" /\ t = "delete_file"  -> "unlink"
    [] stage[c] = "stat" /\ t # "delete_file"  -> "read"
    [] stage[c] = "read" /\ t = "csv_add_row"  -> "write"
    [] OTHER                                   -> "idle"

(* Mutant: edit_file edits the text of an earlier read. *)
NextStageUnread(c) ==
  LET t == op[c].tool IN
  CASE stage[c] = "stat" /\ t = "delete_file"                   -> "unlink"
    [] stage[c] = "stat" /\ t = "edit_file"                     -> "write"
    [] stage[c] = "stat" /\ t \notin {"delete_file", "edit_file"} -> "read"
    [] stage[c] = "read" /\ t = "csv_add_row"                   -> "write"
    [] OTHER                                                    -> "idle"

(* What the handler awaits after a closure that succeeded; "idle" when it  *)
(* has nothing left to do.                                                 *)
NextStage(c) ==
  LET t == op[c].tool IN
  CASE stage[c] = "stat" /\ t = "delete_file"                   -> "unlink"
    [] stage[c] = "stat" /\ t # "delete_file"                   -> "read"
    [] stage[c] = "read" /\ t \in {"edit_file", "csv_add_row"} -> "write"
    [] OTHER                                                    -> "idle"

(* The handler ends and its locals are dropped; a read's text is in the    *)
(* reply.                                                                  *)
Leave(c, r) ==
  /\ reply' = [reply EXCEPT ![c] = r]
  /\ stage' = [stage EXCEPT ![c] = "idle"]
  /\ task' = [task EXCEPT ![c] = "none"]
  /\ seen' = [seen EXCEPT ![c] = NoInode]
  /\ buf' = [buf EXCEPT ![c] = IF r = "ok" /\ op[c].tool = "read_text_file"
                                 THEN @ ELSE <<>>]
  /\ UNCHANGED <<dirent, data, op, handle, alone>>

(* Resume after a success and await the next closure. *)
Continue(c) ==
  /\ task[c] = "ok"
  /\ NextStage(c) # "idle"
  /\ stage' = [stage EXCEPT ![c] = NextStage(c)]
  /\ task' = [task EXCEPT ![c] = "queued"]
  /\ buf' = [buf EXCEPT ![c] = IF NextStage(c) = "write"
                                 THEN Rewritten(op[c].tool, @, c) ELSE @]
  /\ UNCHANGED <<dirent, data, op, seen, handle, reply, alone>>

(* Mutant: the handler spawns the write and does not await it. *)
SucceedEarly(c) ==
  \/ task[c] = "ok" /\ NextStage(c) = "idle" /\ Leave(c, "ok")
  \/ /\ At(c, "write", "queued")
     /\ reply[c] = "none"
     /\ reply' = [reply EXCEPT ![c] = "ok"]
     /\ UNCHANGED <<dirent, data, op, stage, task, seen, handle, buf, alone>>

Succeed(c) == task[c] = "ok" /\ NextStage(c) = "idle" /\ Leave(c, "ok")

(* `?` on the closure's result: an isError result for the client. *)
GiveUp(c) == task[c] = "failed" /\ Leave(c, "error")

(* Mutant: the closure runs on the thread of its handler, so the timer     *)
(* cannot fire while it runs.                                              *)
TimeOutQueued(c) ==
  /\ Timeouts
  /\ InFlight(c) /\ task[c] # "opened"
  /\ reply[c] = "none"
  /\ reply' = [reply EXCEPT ![c] = "timeout"]
  /\ task' = [task EXCEPT ![c] = IF @ = "queued" THEN @ ELSE "none"]
  /\ UNCHANGED <<dirent, data, op, stage, seen, handle, buf, alone>>

(* tokio::time::timeout drops the handler.  A closure still queued or      *)
(* running is detached and keeps what it has captured.                     *)
TimeOut(c) ==
  /\ Timeouts
  /\ InFlight(c)
  /\ reply[c] = "none"
  /\ reply' = [reply EXCEPT ![c] = "timeout"]
  /\ task' = [task EXCEPT ![c] = IF @ \in {"queued", "opened"} THEN @ ELSE "none"]
  /\ UNCHANGED <<dirent, data, op, stage, seen, handle, buf, alone>>

(* The process is killed: handlers and closures are gone, files stay as    *)
(* they are, and a restarted server takes the remaining calls.             *)
Kill ==
  /\ \E c \in Calls : InFlight(c)
  /\ reply' = [c \in Calls |-> IF InFlight(c) /\ reply[c] = "none"
                                  THEN "lost" ELSE reply[c]]
  /\ task' = [c \in Calls |-> "none"]
  /\ handle' = [c \in Calls |-> NoInode]
  /\ UNCHANGED <<dirent, data, op, stage, seen, buf, alone>>

(* Every call of the bounded set is answered and nothing is running. *)
Quiescent == \A c \in Calls : op[c] # NoOp /\ ~InFlight(c)
Rest      == Quiescent /\ UNCHANGED vars

PoolStep(c) == \/ StatTask(c) \/ ReadTask(c) \/ WriteOpen(c) \/ CopyOpen(c)
               \/ Body(c) \/ RenameTask(c) \/ UnlinkTask(c)
               \/ TaskFails(c) \/ WriteFails(c)
HandlerStep(c) == Continue(c) \/ Succeed(c) \/ GiveUp(c)

Next ==
  \/ \E c \in Calls :
       \/ \E o \in Ops : Refuse(c, o) \/ Submit(c, o)
       \/ PoolStep(c)
       \/ HandlerStep(c)
       \/ TimeOut(c)
  \/ Kill
  \/ Rest

Spec == Init /\ [][Next]_vars

(* The runtime polls handlers that are ready and the timer fires; the pool *)
(* gets no fairness: a system call may hang.                               *)
TimerFairness == \A c \in Calls : WF_vars(HandlerStep(c)) /\ WF_vars(TimeOut(c))

(* The operating system completes what it has started. *)
PoolFairness == \A c \in Calls : WF_vars(PoolStep(c))

TimerSpec == Spec /\ TimerFairness

-----------------------------------------------------------------------------
(***************************************************************************)
(* Properties.                                                             *)
(***************************************************************************)

(* Each variable keeps its type, and a closure holds a file open exactly   *)
(* from the open to the write that ends it (Resolved::write, fs::copy).    *)
TypeOK ==
  /\ dirent \in [Paths -> Inode \cup {NoInode}]
  /\ data \in [Inode -> Text]
  /\ op \in [Calls -> Ops \cup {NoOp}]
  /\ stage \in [Calls -> Stages]
  /\ task \in [Calls -> TaskSts]
  /\ seen \in [Calls -> Inode \cup {NoInode}]
  /\ handle \in [Calls -> Inode \cup {NoInode}]
  /\ buf \in [Calls -> Text]
  /\ reply \in [Calls -> Replies]
  /\ alone \in [Calls -> BOOLEAN]
  /\ \A c \in Calls : task[c] = "opened" <=> handle[c] # NoInode

(* Only a timeout leaves work behind: a call whose client was told success *)
(* or failure has nothing queued or running that could still touch the     *)
(* directory (every closure of files.rs and csv.rs is awaited).            *)
AnsweredIsQuiet ==
  \A c \in Calls : reply[c] \in {"ok", "error", "lost"} => ~InFlight(c)

(* What the handler checked or read before an `.await` is still so when    *)
(* the closure submitted after it runs, and a closure that has truncated   *)
(* its file finds it empty when it writes.                                 *)
ChecksHold(c) ==
  LET o == op[c] IN
  /\ task[c] = "queued" =>
       /\ o.tool \in {"move_file", "csv_create"} => ~Exists(o.dst)
       /\ stage[c] = "unlink" => Exists(o.path) /\ dirent[o.path] = seen[c]
       /\ stage[c] = "write" /\ o.tool \in {"edit_file", "csv_add_row"} =>
            /\ Exists(o.path) /\ dirent[o.path] = seen[c]
            /\ buf[c] = Rewritten(o.tool, data[seen[c]], c)
  /\ task[c] = "opened" =>
       /\ dirent[o.dst] = handle[c] /\ data[handle[c]] = <<>>
       /\ stage[c] = "copy" => dirent[o.path] = seen[c]

(* The server takes no locks, so every check-then-act and                  *)
(* read-modify-write tool relies on being alone with its paths: as long as *)
(* no conflicting call, nor a timed-out one's detached closure, was in     *)
(* flight at the same time, no check goes stale.                           *)
AloneChecksHold == \A c \in Calls : alone[c] => ChecksHold(c)

(* The directory holds what the call's tool promises. *)
Applied(c) ==
  LET o == op[c] IN
  CASE o.tool \in {"write_file", "csv_create"} ->
         Exists(o.dst) /\ data[dirent[o.dst]] = <<c>>
    [] o.tool \in {"edit_file", "csv_add_row"} ->
         /\ Exists(o.dst) /\ data[dirent[o.dst]] = buf[c]
         /\ Marked(o.tool, buf[c], c)
    [] o.tool = "move_file" -> ~Exists(o.path) /\ Exists(o.dst)
    [] o.tool = "copy_file" ->
         /\ Exists(o.path) /\ Exists(o.dst)
         /\ data[dirent[o.dst]] = data[dirent[o.path]]
    [] o.tool = "delete_file" -> ~Exists(o.path)
    [] OTHER -> Exists(o.path) /\ buf[c] = data[dirent[o.path]]

(* When the handler of an undisturbed call is about to report success, the *)
(* directory holds exactly the effect it reports.                          *)
AloneIsApplied ==
  \A c \in Calls :
    alone[c] /\ task[c] = "ok" /\ NextStage(c) = "idle" => Applied(c)

(* Every request is answered although system calls may hang: the timer     *)
(* does not wait for the closure (server.rs process_one_line and           *)
(* process_request_http).                                                  *)
Answered == \A c \in Calls : op[c] # NoOp ~> reply[c] # "none"

(* As long as system calls return, a detached closure runs to its end and  *)
(* leaves nothing behind, with nobody waiting for it (util.rs blocking).   *)
Drains == PoolFairness => \A c \in Calls : reply[c] = "timeout" ~> ~InFlight(c)
=============================================================================
