--------------------------- MODULE ToolCallsProofs ---------------------------
(***************************************************************************)
(* Theorems about ToolCalls and its refinement of FileStore, for every set *)
(* of calls, paths and tools.                                              *)
(***************************************************************************)
EXTENDS ToolCallsAtomic, SequenceTheorems, FiniteSetTheorems, TLAPS

(* The stages each tool's handler goes through. *)
StagesOf(t) ==
  CASE t = "read_text_file" -> {"stat", "read"}
    [] t = "edit_dry_run"   -> {"stat", "read"}
    [] t = "edit_file"      -> {"stat", "read", "write"}
    [] t = "csv_add_row"    -> {"read", "write"}
    [] t = "write_file"     -> {"write"}
    [] t = "csv_create"     -> {"write"}
    [] t = "move_file"      -> {"rename"}
    [] t = "copy_file"      -> {"copy"}
    [] OTHER                -> {"stat", "unlink"}

(* How the parts of one call fit together. *)
CallShape(c) ==
  /\ op[c] = NoOp => task[c] = "none" /\ reply[c] = "none"
  /\ InFlight(c) => stage[c] \in StagesOf(op[c].tool)
  /\ task[c] = "opened" => stage[c] \in {"write", "copy"}
  /\ task[c] = "opened" /\ stage[c] = "copy" => seen[c] # NoInode
  /\ reply[c] \in {"ok", "error", "lost"} => task[c] = "none"
  /\ reply[c] = "timeout" => task[c] \in {"none", "queued", "opened"}

Shape == \A c \in Calls : CallShape(c)

LEMMA OverlayIsText ==
  ASSUME NEW s \in Text, NEW t \in Text
  PROVE  Overlay(s, t) \in Text
<1>1. CASE Len(s) >= Len(t)
  BY <1>1 DEF Overlay
<1>2. CASE ~(Len(s) >= Len(t))
  <2>1. \A i \in Len(s) + 1 .. Len(t) : t[i] \in Token
    BY LenProperties, ElementOfSeq DEF Text
  <2>2. SubSeq(t, Len(s) + 1, Len(t)) \in Seq(Token)
    BY <2>1, LenProperties, SubSeqProperties DEF Text
  <2> QED
    BY <1>2, <2>2, ConcatProperties DEF Overlay, Text
<1> QED
  BY <1>1, <1>2

LEMMA PrefixIsText ==
  ASSUME NEW t \in Text, NEW k \in 0..Len(t)
  PROVE  SubSeq(t, 1, k) \in Text
<1>1. \A i \in 1 .. k : t[i] \in Token
  BY LenProperties, ElementOfSeq DEF Text
<1> QED
  BY <1>1, LenProperties, SubSeqProperties DEF Text

LEMMA RewrittenIsText ==
  ASSUME NEW tool, NEW t \in Text, NEW c \in Calls
  PROVE  Rewritten(tool, t, c) \in Text
<1>1. c \in Token
  BY DEF Token
<1>2. ASSUME NEW i PROVE [t EXCEPT ![i] = c] \in Text
  <2>1. Len(t) \in Nat /\ t \in [1..Len(t) -> Token]
    BY LenProperties DEF Text
  <2>2. [t EXCEPT ![i] = c] \in [1..Len(t) -> Token]
    BY <1>1, <2>1
  <2>3. \A n \in Nat : [1..n -> Token] \subseteq Seq(Token)
    OBVIOUS
  <2> QED
    BY <2>1, <2>2, <2>3 DEF Text
<1>3. Edited(t, c) \in Text
  BY <1>2 DEF Edited
<1>4. Append(t, c) \in Text
  BY <1>1 DEF Text
<1> QED
  BY <1>3, <1>4 DEF Rewritten

LEMMA FirstOf ==
  ASSUME NEW S \in SUBSET Nat, S # {}
  PROVE  \E m \in S : \A n \in S : m <= n
<1> DEFINE T == {0..m : m \in S}
<1>1. T # {} /\ T \subseteq FiniteSubsetsOf(Nat)
  <2>1. \A m \in S : IsFiniteSet(0..m) /\ 0..m \in SUBSET Nat
    BY FS_Interval
  <2> QED
    BY <2>1 DEF FiniteSubsetsOf
<1>2. PICK x \in T : \A y \in T : <<y, x>> \notin StrictSubsetOrdering(Nat)
  BY <1>1, WFMin, FS_StrictSubsetOrderingWellFounded
<1>3. PICK m \in S : x = 0..m
  OBVIOUS
<1>4. ASSUME NEW n \in S, ~(m <= n) PROVE FALSE
  <2>1. (0..n) \subseteq x /\ 0..n # x /\ 0..n \in T
    BY <1>3, <1>4
  <2> QED
    BY <1>1, <1>2, <2>1 DEF StrictSubsetOrdering, FiniteSubsetsOf
<1> QED
  BY <1>4

LEMMA RewrittenIsMarked ==
  ASSUME NEW tool \in {"edit_file", "csv_add_row"}, NEW t \in Text, NEW c \in Calls
  PROVE  Marked(tool, Rewritten(tool, t, c), c)
<1>1. CASE tool = "csv_add_row"
  <2>1. Len(t) + 1 \in DOMAIN Append(t, c) /\ Append(t, c)[Len(t) + 1] = c
    BY AppendProperties, LenProperties DEF Text, Token
  <2> QED
    BY <1>1, <2>1 DEF Marked, Rewritten
<1>2. CASE tool = "edit_file"
  <2> DEFINE found == {i \in DOMAIN t : t[i] = Seed}
             first == CHOOSE i \in found : \A j \in found : i <= j
  <2>1. CASE found = {}
    BY <1>2, <2>1 DEF Marked, Rewritten, Edited
  <2>2. CASE found # {}
    <3>1. found \in SUBSET Nat
      BY LenProperties DEF Text
    <3>2. first \in found
      BY <2>2, <3>1, FirstOf
    <3>3. Edited(t, c) = [t EXCEPT ![first] = c]
      BY <2>2 DEF Edited
    <3>4. first \in DOMAIN Edited(t, c) /\ Edited(t, c)[first] = c
      BY <3>2, <3>3
    <3> QED
      BY <1>2, <3>4 DEF Marked, Rewritten
  <2> QED
    BY <2>1, <2>2
<1> QED
  BY <1>1, <1>2

-----------------------------------------------------------------------------
(* Types and shape are preserved together: the text a copy writes is typed *)
(* only because an open copy has looked its source up.                     *)
Formed == TypeOK /\ Shape

LEMMA InitFormed == Init => Formed
<1>1. SeedText \in Text /\ <<>> \in Text
  BY OpsAssumption, SeqMonotonic DEF Text, Token
<1> QED
  BY <1>1, ConstantsAssumption
  DEF Init, Formed, TypeOK, Shape, CallShape, InFlight, Inode, Stages, TaskSts, Replies

LEMMA PendingIsText ==
  ASSUME Formed, NEW c \in Calls, task[c] = "opened"
  PROVE  Pending(c) \in Text /\ handle[c] \in Inode
BY DEF Formed, TypeOK, Shape, CallShape, Pending

LEMMA StepFormed == Formed /\ [Next]_vars => Formed'
<1> SUFFICES ASSUME Formed, [Next]_vars PROVE Formed'
  OBVIOUS
<1> USE DEF Formed, Shape, CallShape, InFlight
<1>1. ASSUME NEW c \in Calls, NEW o \in Ops, Refuse(c, o) PROVE Formed'
  BY <1>1, ConstantsAssumption DEF Refuse, MayArrive, TypeOK, Replies
<1>2. ASSUME NEW c \in Calls, NEW o \in Ops, Submit(c, o) PROVE Formed'
  <2>1. FirstStage(o) \in StagesOf(o.tool) /\ FirstStage(o) \in Stages
    BY OpsAssumption DEF FirstStage, StagesOf, Stages, Ops, AllTools
  <2>2. <<c>> \in Text /\ <<>> \in Text
    BY DEF Text, Token
  <2>3. alone' \in [Calls -> BOOLEAN]
    BY <1>2 DEF Submit, TypeOK
  <2>4. buf' \in [Calls -> Text]
    BY <1>2, <2>2 DEF Submit, TypeOK
  <2> QED
    BY <1>2, <2>1, <2>3, <2>4, ConstantsAssumption DEF Submit, MayArrive, TypeOK, TaskSts
<1>3. ASSUME NEW c \in Calls, StatTask(c) PROVE Formed'
  BY <1>3 DEF StatTask, At, Lookup, Finish, TypeOK, TaskSts, Ops
<1>4. ASSUME NEW c \in Calls, ReadTask(c) PROVE Formed'
  <2>1. op[c] \in Ops /\ <<>> \in Text
    BY <1>4, ConstantsAssumption DEF ReadTask, At, TypeOK, Text, StagesOf
  <2>2. buf' \in [Calls -> Text]
    BY <1>4, <2>1 DEF ReadTask, Exists, TypeOK, Ops
  <2> QED
    BY <1>4, <2>1, <2>2 DEF ReadTask, At, Lookup, Finish, TypeOK, TaskSts, Ops
<1>5. ASSUME NEW c \in Calls, WriteOpen(c) PROVE Formed'
  <2>1. op[c] \in Ops /\ <<>> \in Text
    BY <1>5 DEF WriteOpen, At, TypeOK, Text
  <2> QED
    BY <1>5, <2>1, ConstantsAssumption
    DEF WriteOpen, At, OpenTarget, Exists, TypeOK, TaskSts, Ops, Inode
<1>6. ASSUME NEW c \in Calls, CopyOpen(c) PROVE Formed'
  <2>1. op[c] \in Ops /\ <<>> \in Text
    BY <1>6 DEF CopyOpen, At, TypeOK, Text
  <2> QED
    BY <1>6, <2>1, ConstantsAssumption
    DEF CopyOpen, At, Lookup, OpenTarget, Exists, TypeOK, TaskSts, Ops, Inode
<1>7. ASSUME NEW c \in Calls, Body(c) PROVE Formed'
  <2>1. data' \in [Inode -> Text]
    BY <1>7, PendingIsText, OverlayIsText DEF Body, TypeOK
  <2> QED
    BY <1>7, <2>1 DEF Body, Finish, TypeOK, TaskSts
<1>8. ASSUME NEW c \in Calls, RenameTask(c) PROVE Formed'
  BY <1>8 DEF RenameTask, At, Finish, Exists, TypeOK, TaskSts, Ops
<1>9. ASSUME NEW c \in Calls, UnlinkTask(c) PROVE Formed'
  BY <1>9 DEF UnlinkTask, At, Finish, Exists, TypeOK, TaskSts, Ops
<1>10. ASSUME NEW c \in Calls, TaskFails(c) PROVE Formed'
  BY <1>10 DEF TaskFails, Finish, TypeOK, TaskSts
<1>11. ASSUME NEW c \in Calls, WriteFails(c) PROVE Formed'
  <2>1. data' \in [Inode -> Text]
    BY <1>11, PendingIsText, PrefixIsText, OverlayIsText DEF WriteFails, TypeOK
  <2> QED
    BY <1>11, <2>1 DEF WriteFails, Finish, TypeOK, TaskSts
<1>12. ASSUME NEW c \in Calls, Continue(c) PROVE Formed'
  <2>1. op[c] \in Ops /\ reply[c] = "none"
    BY <1>12 DEF Continue, TypeOK, Replies
  <2>2. NextStage(c) \in StagesOf(op[c].tool) /\ NextStage(c) \in Stages
    BY <1>12, <2>1, OpsAssumption DEF Continue, NextStage, StagesOf, Stages, Ops, AllTools
  <2>3. buf' \in [Calls -> Text]
    BY <1>12, RewrittenIsText DEF Continue, TypeOK
  <2> QED
    BY <1>12, <2>1, <2>2, <2>3 DEF Continue, TypeOK, TaskSts
<1>13. ASSUME NEW c \in Calls, Succeed(c) \/ GiveUp(c) PROVE Formed'
  <2>1. <<>> \in Text
    BY DEF Text
  <2>2. buf' \in [Calls -> Text]
    BY <1>13, <2>1 DEF Succeed, GiveUp, Leave, TypeOK
  <2> QED
    BY <1>13, <2>2, ConstantsAssumption
    DEF Succeed, GiveUp, Leave, TypeOK, TaskSts, Replies, Stages
<1>14. ASSUME NEW c \in Calls, TimeOut(c) PROVE Formed'
  BY <1>14 DEF TimeOut, TypeOK, TaskSts, Replies
<1>15. ASSUME Kill PROVE Formed'
  BY <1>15 DEF Kill, TypeOK, TaskSts, Replies
<1>16. CASE UNCHANGED vars
  BY <1>16 DEF vars, TypeOK
<1> QED
  BY <1>1, <1>2, <1>3, <1>4, <1>5, <1>6, <1>7, <1>8, <1>9, <1>10, <1>11, <1>12,
     <1>13, <1>14, <1>15, <1>16
  DEF Next, PoolStep, HandlerStep, Rest

(* A step keeps every variable typed, and a closure holds its file open    *)
(* exactly from the open to the write: the closures of Resolved::write,    *)
(* fs::copy and csv::Writer, for any number of calls and paths.            *)
THEOREM TypeCorrect == Spec => []TypeOK
<1>1. Formed => TypeOK
  BY DEF Formed
<1> QED
  BY InitFormed, StepFormed, <1>1, PTL DEF Spec

(* A client that was told the outcome of its call is never surprised by a  *)
(* later effect of it: only an expired timer detaches a closure.           *)
THEOREM AnsweredCallsAreQuiet == Spec => []AnsweredIsQuiet
<1>1. Formed => AnsweredIsQuiet
  BY DEF Formed, Shape, CallShape, AnsweredIsQuiet, InFlight
<1> QED
  BY InitFormed, StepFormed, <1>1, PTL DEF Spec

-----------------------------------------------------------------------------
(***************************************************************************)
(* Isolation.  AloneChecksHold and AloneIsApplied are not inductive: they  *)
(* rest on names of distinct files, on new inodes being new, and on no     *)
(* other call working on, or holding open, a file of an undisturbed call.  *)
(***************************************************************************)

DistinctNames ==
  \A p, q \in Paths : p # q /\ Exists(p) => dirent[p] # dirent[q]

(* A call that may still open its target has not created its inode. *)
MayOpen(c) ==
  \/ op[c] = NoOp
  \/ task[c] = "queued"
  \/ task[c] = "ok" /\ stage[c] \in {"stat", "read"}

FreshInodes ==
  \A c \in Calls : MayOpen(c) =>
    /\ \A p \in Paths : dirent[p] # c
    /\ \A d \in Calls : handle[d] # c

AloneApart ==
  \A c, d \in Calls : c # d /\ alone[c] /\ InFlight(c) =>
    /\ InFlight(d) => ~Conflict(op[c], op[d])
    /\ \A p \in Touches(op[c]) : handle[d] = NoInode \/ handle[d] # dirent[p]

(* The state of a call that no other call has disturbed. *)
Undisturbed(c) ==
  /\ ChecksHold(c)
  /\ InFlight(c) /\ op[c].tool \in {"write_file", "csv_create"} => buf[c] = <<c>>
  /\ InFlight(c) /\ stage[c] = "write" /\ op[c].tool \in {"edit_file", "csv_add_row"}
       => Marked(op[c].tool, buf[c], c)
  /\ task[c] = "opened" /\ stage[c] = "copy" => Exists(op[c].path)
  /\ task[c] = "ok" /\ stage[c] \in {"stat", "read"} =>
       /\ Exists(op[c].path) /\ dirent[op[c].path] = seen[c]
       /\ stage[c] = "read" => buf[c] = data[seen[c]]
  /\ task[c] = "ok" /\ NextStage(c) = "idle" => Applied(c)

AloneUndisturbed == \A c \in Calls : alone[c] => Undisturbed(c)

IInv == Formed /\ DistinctNames /\ FreshInodes /\ AloneApart /\ AloneUndisturbed

LEMMA InitIInv == Init => IInv
<1> SUFFICES ASSUME Init PROVE IInv
  OBVIOUS
<1>1. DistinctNames
  BY ConstantsAssumption DEF Init, DistinctNames, Exists
<1>2. FreshInodes
  BY ConstantsAssumption DEF Init, FreshInodes
<1>3. AloneApart
  BY DEF Init, AloneApart, InFlight
<1>4. AloneUndisturbed
  BY DEF Init, AloneUndisturbed, Undisturbed, ChecksHold, InFlight
<1> QED
  BY <1>1, <1>2, <1>3, <1>4, InitFormed DEF IInv

(* The two ways to open a target have the same effect on the directory.    *)
LEMMA OpenShape ==
  ASSUME Formed, NEW c \in Calls, WriteOpen(c) \/ CopyOpen(c)
  PROVE  /\ op[c] \in Ops /\ task[c] = "queued" /\ Writes(op[c]) = {op[c].dst}
         /\ op' = op /\ stage' = stage /\ alone' = alone
         /\ task' = [task EXCEPT ![c] = "opened"]
         /\ \E i \in Inode :
              /\ i = IF Exists(op[c].dst) THEN dirent[op[c].dst] ELSE c
              /\ dirent' = [dirent EXCEPT ![op[c].dst] = i]
              /\ data' = [data EXCEPT ![i] = <<>>]
              /\ handle' = [handle EXCEPT ![c] = i]
<1>1. op[c] \in Ops /\ task[c] = "queued" /\ stage[c] \in StagesOf(op[c].tool)
  BY DEF Formed, TypeOK, Shape, CallShape, InFlight, WriteOpen, CopyOpen, At
<1>2. Writes(op[c]) = {op[c].dst}
  BY <1>1 DEF WriteOpen, CopyOpen, At, StagesOf, Writes
<1>3. dirent[op[c].dst] \in Inode \cup {NoInode}
  BY <1>1 DEF Formed, TypeOK, Ops
<1> QED
  BY <1>1, <1>2, <1>3 DEF WriteOpen, CopyOpen, OpenTarget, Exists, Inode

LEMMA RenameShape ==
  ASSUME Formed, NEW c \in Calls, RenameTask(c)
  PROVE  /\ op[c] \in Ops /\ task[c] = "queued"
         /\ op[c].tool = "move_file" /\ Writes(op[c]) = {op[c].path, op[c].dst}
BY DEF Formed, TypeOK, Shape, CallShape, InFlight, RenameTask, At, StagesOf, Writes

LEMMA UnlinkShape ==
  ASSUME Formed, NEW c \in Calls, UnlinkTask(c)
  PROVE  /\ op[c] \in Ops /\ task[c] = "queued" /\ op[c].dst = op[c].path
         /\ op[c].tool = "delete_file" /\ Writes(op[c]) = {op[c].path}
<1>1. op[c] \in Ops /\ task[c] = "queued" /\ stage[c] = "unlink"
  BY DEF Formed, TypeOK, Shape, CallShape, InFlight, UnlinkTask, At
<1>2. op[c].tool = "delete_file"
  BY <1>1, OpsAssumption
  DEF Formed, Shape, CallShape, InFlight, StagesOf, Ops, AllTools
<1> QED
  BY <1>1, <1>2 DEF Ops, TwoPathTools, Writes

(* Everything else leaves the directory alone. *)
LEMMA DirentSteps ==
  [Next]_vars =>
    \/ dirent' = dirent
    \/ \E c \in Calls : WriteOpen(c) \/ CopyOpen(c) \/ RenameTask(c) \/ UnlinkTask(c)
BY DEF Next, vars, PoolStep, HandlerStep, Rest, Refuse, Submit, StatTask, ReadTask,
       Body, TaskFails, WriteFails, Continue, Succeed, GiveUp, Leave, TimeOut, Kill

LEMMA StepDistinct == IInv /\ [Next]_vars => DistinctNames'
<1> SUFFICES ASSUME IInv, [Next]_vars PROVE DistinctNames'
  OBVIOUS
<1> USE DEF DistinctNames, Exists
<1>1. CASE dirent' = dirent
  BY <1>1 DEF IInv
<1>2. ASSUME NEW c \in Calls, WriteOpen(c) \/ CopyOpen(c) PROVE DistinctNames'
  <2>1. \A p \in Paths : dirent[p] # c
    BY <1>2, OpenShape DEF IInv, FreshInodes, MayOpen
  <2> QED
    BY <1>2, <2>1, OpenShape DEF IInv, Formed, TypeOK
<1>3. ASSUME NEW c \in Calls, RenameTask(c) PROVE DistinctNames'
  BY <1>3, RenameShape DEF IInv, Formed, TypeOK, RenameTask, Ops
<1>4. ASSUME NEW c \in Calls, UnlinkTask(c) PROVE DistinctNames'
  BY <1>4, UnlinkShape DEF IInv, Formed, TypeOK, UnlinkTask, Ops
<1> QED
  BY <1>1, <1>2, <1>3, <1>4, DirentSteps

(* Once it has opened its target, a call never opens another. *)
LEMMA MayOpenSteps ==
  ASSUME Formed, [Next]_vars, NEW c \in Calls, MayOpen(c)'
  PROVE  MayOpen(c)
<1> USE DEF MayOpen
<1> SUFFICES ASSUME op[c] # NoOp PROVE MayOpen(c)
  OBVIOUS
<1>1. CASE UNCHANGED <<op, stage, task>>
  BY <1>1
<1>2. ASSUME NEW d \in Calls, NEW o \in Ops, Refuse(d, o) \/ Submit(d, o)
      PROVE  MayOpen(c)
  BY <1>2 DEF Refuse, Submit, MayArrive, Formed, TypeOK
<1>3. ASSUME NEW d \in Calls, PoolStep(d) PROVE MayOpen(c)
  <2>1. task[d] = "opened" => stage[d] \in {"write", "copy"}
    BY DEF Formed, Shape, CallShape
  <2> QED
    BY <1>3, <2>1
    DEF PoolStep, StatTask, ReadTask, WriteOpen, CopyOpen, OpenTarget, Body,
        RenameTask, UnlinkTask, TaskFails, WriteFails, At, Finish, Formed, TypeOK
<1>4. ASSUME NEW d \in Calls, HandlerStep(d) PROVE MayOpen(c)
  BY <1>4 DEF HandlerStep, Continue, Succeed, GiveUp, Leave, NextStage, Formed, TypeOK
<1>5. ASSUME NEW d \in Calls, TimeOut(d) PROVE MayOpen(c)
  BY <1>5 DEF TimeOut, Formed, TypeOK
<1>6. CASE Kill
  BY <1>6 DEF Kill
<1> QED
  BY <1>1, <1>2, <1>3, <1>4, <1>5, <1>6 DEF Next, Rest, vars

(* Handles are taken by opens and given up by the step that ends them. *)
LEMMA HandleSteps ==
  ASSUME Formed, [Next]_vars
  PROVE  \/ \A d \in Calls : handle'[d] \in {handle[d], NoInode}
         \/ \E c \in Calls : WriteOpen(c) \/ CopyOpen(c)
BY DEF Next, vars, PoolStep, HandlerStep, Rest, Refuse, Submit, StatTask, ReadTask,
       Body, TaskFails, WriteFails, RenameTask, UnlinkTask, Continue, Succeed,
       GiveUp, Leave, TimeOut, Kill, Formed, TypeOK

LEMMA StepFresh == IInv /\ [Next]_vars => FreshInodes'
<1> SUFFICES ASSUME IInv, [Next]_vars, NEW c \in Calls, MayOpen(c)'
             PROVE  /\ \A p \in Paths : dirent'[p] # c
                    /\ \A d \in Calls : handle'[d] # c
  BY DEF FreshInodes
<1>1. MayOpen(c)
  BY MayOpenSteps DEF IInv
<1>2. /\ \A p \in Paths : dirent[p] # c
      /\ \A d \in Calls : handle[d] # c
  BY <1>1 DEF IInv, FreshInodes
<1>3. c # NoInode
  BY ConstantsAssumption
<1>4. ASSUME NEW d \in Calls, WriteOpen(d) \/ CopyOpen(d)
      PROVE  /\ \A p \in Paths : dirent'[p] # c
             /\ \A e \in Calls : handle'[e] # c
  <2>1. op[d] \in Ops /\ op' = op /\ op[d].dst \in Paths
    BY <1>4, OpenShape DEF IInv, Ops
  <2>2. c # d
    BY <1>4, OpenShape, ConstantsAssumption, <2>1 DEF IInv, Formed, TypeOK, MayOpen
  <2>3. PICK i \in Inode :
          /\ i = IF Exists(op[d].dst) THEN dirent[op[d].dst] ELSE d
          /\ dirent' = [dirent EXCEPT ![op[d].dst] = i]
          /\ handle' = [handle EXCEPT ![d] = i]
    BY <1>4, OpenShape DEF IInv
  <2>4. i # c
    BY <1>2, <2>1, <2>2, <2>3
  <2> QED
    BY <1>2, <2>1, <2>3, <2>4 DEF IInv, Formed, TypeOK
<1>5. CASE \A d \in Calls : handle'[d] \in {handle[d], NoInode}
  <2>1. CASE dirent' = dirent
    BY <1>2, <1>3, <1>5, <2>1
  <2>2. ASSUME NEW d \in Calls, RenameTask(d)
        PROVE  \A p \in Paths : dirent'[p] # c
    BY <1>2, <1>3, <2>2, RenameShape DEF RenameTask, Ops, IInv, Formed, TypeOK
  <2>3. ASSUME NEW d \in Calls, UnlinkTask(d)
        PROVE  \A p \in Paths : dirent'[p] # c
    BY <1>2, <1>3, <2>3, UnlinkShape DEF UnlinkTask, Ops, IInv, Formed, TypeOK
  <2> QED
    BY <1>2, <1>3, <1>4, <1>5, <2>1, <2>2, <2>3, DirentSteps
<1> QED
  BY <1>4, <1>5, HandleSteps DEF IInv

LEMMA ConflictSymmetric ==
  ASSUME NEW o1, NEW o2, Conflict(o1, o2) PROVE Conflict(o2, o1)
BY DEF Conflict

(* A call comes into flight, and becomes undisturbed, only when submitted. *)
LEMMA InFlightSteps ==
  ASSUME Formed, [Next]_vars, NEW c \in Calls, InFlight(c)'
  PROVE  \/ /\ InFlight(c) /\ op[c] \in Ops /\ op'[c] = op[c]
            /\ alone'[c] => alone[c]
         \/ \E o \in Ops : Submit(c, o)
<1> DEFINE Goes == /\ InFlight(c) /\ op'[c] = op[c]
                   /\ alone'[c] => alone[c]
<1> USE DEF InFlight
<1>1. InFlight(c) => op[c] \in Ops
  BY DEF Formed, TypeOK, Shape, CallShape
<1>2. ASSUME NEW d \in Calls, NEW o \in Ops, Refuse(d, o) PROVE Goes
  BY <1>2 DEF Refuse, MayArrive, Formed, TypeOK, Shape, CallShape
<1>3. ASSUME NEW d \in Calls, d # c, NEW o \in Ops, Submit(d, o) PROVE Goes
  BY <1>3 DEF Submit, Formed, TypeOK
<1>4. ASSUME NEW d \in Calls, PoolStep(d) PROVE Goes
  BY <1>4
  DEF PoolStep, StatTask, ReadTask, WriteOpen, CopyOpen, OpenTarget, Body,
      RenameTask, UnlinkTask, TaskFails, WriteFails, At, Finish, Formed, TypeOK
<1>5. ASSUME NEW d \in Calls, HandlerStep(d) \/ TimeOut(d) PROVE Goes
  BY <1>5 DEF HandlerStep, Continue, Succeed, GiveUp, Leave, TimeOut, Formed, TypeOK
<1>6. ~Kill
  BY DEF Kill
<1>7. UNCHANGED vars => Goes
  BY DEF vars
<1> QED
  BY <1>1, <1>2, <1>3, <1>4, <1>5, <1>6, <1>7 DEF Next, Rest

(* No other call's closure reaches the files of an undisturbed call.       *)
LEMMA Untouched ==
  ASSUME IInv, NEW c \in Calls, alone[c], InFlight(c), op[c] \in Ops,
         NEW d \in Calls, d # c, PoolStep(d),
         NEW p \in Touches(op[c])
  PROVE  /\ dirent'[p] = dirent[p]
         /\ Exists(p) => data'[dirent[p]] = data[dirent[p]]
<1>1. p \in Paths
  BY DEF Touches, Ops
<1>2. /\ InFlight(d) => p \notin Writes(op[d])
      /\ handle[d] = NoInode \/ handle[d] # dirent[p]
  <2>1. /\ InFlight(d) => ~Conflict(op[c], op[d])
        /\ handle[d] = NoInode \/ handle[d] # dirent[p]
    BY DEF IInv, AloneApart
  <2> QED BY <2>1 DEF Conflict
<1>3. CASE WriteOpen(d) \/ CopyOpen(d)
  <2>1. op[d] \in Ops /\ op[d].dst \in Paths /\ p # op[d].dst
    BY <1>2, <1>3, OpenShape DEF IInv, InFlight, Ops
  <2>2. PICK i \in Inode :
          /\ i = IF Exists(op[d].dst) THEN dirent[op[d].dst] ELSE d
          /\ dirent' = [dirent EXCEPT ![op[d].dst] = i]
          /\ data' = [data EXCEPT ![i] = <<>>]
    BY <1>3, OpenShape DEF IInv
  <2>3. MayOpen(d)
    BY <1>3, OpenShape DEF IInv, MayOpen
  <2>4. Exists(p) => dirent[p] # i
    BY <1>1, <2>1, <2>2, <2>3 DEF IInv, DistinctNames, FreshInodes
  <2> QED
    BY <1>1, <2>1, <2>2, <2>4 DEF IInv, Formed, TypeOK
<1>4. CASE RenameTask(d)
  BY <1>1, <1>2, <1>4, RenameShape DEF RenameTask, Ops, InFlight, IInv, Formed, TypeOK
<1>5. CASE UnlinkTask(d)
  <2>1. p # op[d].path
    BY <1>2, <1>5, UnlinkShape DEF InFlight, IInv
  <2> QED
    BY <1>1, <1>5, <2>1 DEF UnlinkTask, IInv, Formed, TypeOK
<1>6. CASE Body(d) \/ WriteFails(d)
  <2>1. dirent' = dirent /\ handle[d] # dirent[p]
    BY <1>2, <1>6 DEF Body, WriteFails, IInv, Formed, TypeOK
  <2>2. \E t : data' = [data EXCEPT ![handle[d]] = t]
    BY <1>6 DEF Body, WriteFails
  <2>3. data \in [Inode -> Text] /\ (Exists(p) => dirent[p] \in Inode)
    BY <1>1 DEF IInv, Formed, TypeOK, Exists
  <2> QED
    BY <2>1, <2>2, <2>3
<1>7. CASE StatTask(d) \/ ReadTask(d) \/ TaskFails(d)
  BY <1>7 DEF StatTask, ReadTask, TaskFails
<1> QED
  BY <1>3, <1>4, <1>5, <1>6, <1>7 DEF PoolStep

LEMMA StepApart == IInv /\ [Next]_vars => AloneApart'
<1> SUFFICES ASSUME IInv, [Next]_vars,
                    NEW c \in Calls, NEW d \in Calls, c # d, alone'[c], InFlight(c)'
             PROVE  /\ InFlight(d)' => ~Conflict(op'[c], op'[d])
                    /\ \A p \in Touches(op'[c]) :
                         handle'[d] = NoInode \/ handle'[d] # dirent'[p]
  BY DEF AloneApart
<1>1. ASSUME NEW o \in Ops, Submit(c, o)
      PROVE  /\ InFlight(d)' => ~Conflict(op'[c], op'[d])
             /\ \A p \in Touches(op'[c]) :
                  handle'[d] = NoInode \/ handle'[d] # dirent'[p]
  <2>1. /\ op'[c] = o /\ op'[d] = op[d] /\ task'[d] = task[d]
        /\ dirent' = dirent /\ handle' = handle
        /\ ~MeetsWriter(o) /\ (InFlight(d) => ~Conflict(op[d], o))
    BY <1>1 DEF Submit, IInv, Formed, TypeOK
  <2> QED
    BY <2>1, ConflictSymmetric DEF MeetsWriter, InFlight
<1>2. ASSUME alone[c], InFlight(c), op[c] \in Ops, op'[c] = op[c]
      PROVE  InFlight(d)' => ~Conflict(op'[c], op'[d])
  <2>1. CASE InFlight(d) /\ op'[d] = op[d]
    BY <1>2, <2>1 DEF IInv, AloneApart
  <2>2. ASSUME NEW o \in Ops, Submit(d, o) PROVE ~Conflict(op'[c], op'[d])
    BY <1>2, <2>2 DEF Submit, IInv, Formed, TypeOK
  <2> QED
    BY <2>1, <2>2, InFlightSteps DEF IInv
<1>3. ASSUME alone[c], InFlight(c), op[c] \in Ops, NEW p \in Touches(op[c])
      PROVE  handle'[d] = NoInode \/ handle'[d] # dirent'[p]
  <2>1. p \in Paths /\ (handle[d] = NoInode \/ handle[d] # dirent[p])
    BY <1>3 DEF Touches, Ops, IInv, AloneApart
  <2>2. CASE WriteOpen(c) \/ CopyOpen(c)
    <3>1. PICK i \in Inode :
            /\ i = IF Exists(op[c].dst) THEN dirent[op[c].dst] ELSE c
            /\ dirent' = [dirent EXCEPT ![op[c].dst] = i]
            /\ handle' = [handle EXCEPT ![c] = i]
      BY <2>2, OpenShape DEF IInv
    <3>2. handle'[d] = handle[d] /\ handle[d] # c
      BY <2>2, <3>1, OpenShape DEF IInv, FreshInodes, MayOpen, Formed, TypeOK
    <3>3. handle[d] = NoInode \/ handle[d] # dirent[op[c].dst]
      BY <1>3 DEF Touches, IInv, AloneApart
    <3> QED
      BY <2>1, <3>1, <3>2, <3>3 DEF IInv, Formed, TypeOK
  <2>3. CASE WriteOpen(d) \/ CopyOpen(d)
    <3>1. op[d].dst \in Paths /\ MayOpen(d) /\ p # op[d].dst
      <4>1. /\ op[d] \in Ops /\ task[d] = "queued"
            /\ Writes(op[d]) = {op[d].dst}
        BY <2>3, OpenShape DEF IInv
      <4>2. ~Conflict(op[c], op[d])
        BY <1>3, <4>1 DEF IInv, AloneApart, InFlight
      <4> QED
        BY <1>3, <4>1, <4>2 DEF Conflict, MayOpen, Ops
    <3>2. dirent'[p] = dirent[p]
      BY <1>3, <2>3, Untouched DEF PoolStep
    <3>3. handle'[d] = IF Exists(op[d].dst) THEN dirent[op[d].dst] ELSE d
      BY <2>3, OpenShape DEF IInv, Formed, TypeOK
    <3>4. CASE Exists(op[d].dst)
      BY <2>1, <3>1, <3>2, <3>3, <3>4 DEF IInv, DistinctNames
    <3>5. CASE ~Exists(op[d].dst)
      BY <2>1, <3>1, <3>2, <3>3, <3>5 DEF IInv, FreshInodes
    <3> QED
      BY <3>4, <3>5
  <2>4. ASSUME NEW e \in Calls, e \notin {c, d}, WriteOpen(e) \/ CopyOpen(e)
        PROVE  handle'[d] = handle[d] /\ dirent'[p] = dirent[p]
    <3>1. dirent'[p] = dirent[p]
      BY <1>3, <2>4, Untouched DEF PoolStep
    <3> QED
      BY <2>4, <3>1, OpenShape DEF IInv, Formed, TypeOK
  <2>5. ASSUME NEW e \in Calls, e # c, RenameTask(e) \/ UnlinkTask(e)
        PROVE  handle' = handle /\ dirent'[p] = dirent[p]
    BY <1>3, <2>5, Untouched DEF PoolStep, RenameTask, UnlinkTask
  <2>6. CASE RenameTask(c)
    <3>1. /\ handle' = handle /\ op[c].path \in Touches(op[c])
          /\ dirent'[p] \in {dirent[p], dirent[op[c].path], NoInode}
      BY <1>3, <2>1, <2>6 DEF RenameTask, Touches, IInv, Formed, TypeOK
    <3> QED
      BY <1>3, <2>1, <3>1 DEF IInv, AloneApart
  <2>7. CASE UnlinkTask(c)
    BY <2>1, <2>7 DEF UnlinkTask, IInv, Formed, TypeOK
  <2>8. CASE dirent' = dirent /\ handle'[d] \in {handle[d], NoInode}
    BY <2>1, <2>8
  <2> QED
    BY <2>1, <2>2, <2>3, <2>4, <2>5, <2>6, <2>7, <2>8, DirentSteps, HandleSteps DEF IInv
<1> QED
  BY <1>1, <1>2, <1>3, InFlightSteps DEF IInv

(* What is said of an undisturbed call depends on its own state and on the *)
(* files it touches.                                                       *)
LEMMA UndisturbedFrame ==
  ASSUME Formed, NEW c \in Calls, op[c] \in Ops, Undisturbed(c),
         op'[c] = op[c], stage'[c] = stage[c], task'[c] = task[c],
         seen'[c] = seen[c], handle'[c] = handle[c], buf'[c] = buf[c],
         \A p \in Touches(op[c]) :
           /\ dirent'[p] = dirent[p]
           /\ Exists(p) => data'[dirent[p]] = data[dirent[p]]
  PROVE  Undisturbed(c)'
<1>1. op[c].path \in Touches(op[c]) /\ op[c].dst \in Touches(op[c])
  BY DEF Touches
<1>2. task[c] = "opened" => handle[c] # NoInode
  BY DEF Formed, TypeOK
<1>3. NextStage(c)' = NextStage(c)
  BY DEF NextStage
<1>4. ChecksHold(c)'
  BY <1>1, <1>2 DEF Undisturbed, ChecksHold, Exists
<1>5. Applied(c) => Applied(c)'
  BY <1>1 DEF Applied, Exists
<1> QED
  BY <1>1, <1>3, <1>4, <1>5 DEF Undisturbed, InFlight, Exists

(* A closure that fails and a timer change nothing an undisturbed call     *)
(* relies on; the other steps of the call itself establish what comes      *)
(* next.                                                                   *)
LEMMA OwnStep ==
  ASSUME IInv, NEW c \in Calls, alone[c], InFlight(c), op[c] \in Ops,
         PoolStep(c) \/ HandlerStep(c) \/ TimeOut(c)
  PROVE  Undisturbed(c)'
<1> DEFINE o == op[c]
<1> USE DEF InFlight
<1>1. Undisturbed(c) /\ Formed
  BY DEF IInv, AloneUndisturbed
<1>2. o.path \in Paths /\ o.dst \in Paths /\ stage[c] \in StagesOf(o.tool)
  BY <1>1 DEF Ops, Formed, Shape, CallShape
<1>3. CASE StatTask(c)
  <2>1. /\ op' = op /\ stage' = stage /\ stage[c] = "stat" /\ dirent' = dirent
        /\ task'[c] \in {"none", "ok", "failed"}
        /\ task'[c] = "ok" => Exists(o.path) /\ seen'[c] = dirent[o.path]
    BY <1>1, <1>3 DEF StatTask, At, Lookup, Finish, Formed, TypeOK
  <2>2. o.tool \notin {"write_file", "csv_create"}
    BY <1>2, <2>1 DEF StagesOf
  <2>3. NextStage(c)' # "idle"
    BY <2>1 DEF NextStage
  <2> QED
    BY <2>1, <2>2, <2>3 DEF Undisturbed, ChecksHold, Exists
<1>4. CASE ReadTask(c)
  <2>1. /\ op' = op /\ stage' = stage /\ stage[c] = "read"
        /\ dirent' = dirent /\ data' = data
        /\ task'[c] \in {"none", "ok", "failed"}
        /\ task'[c] = "ok" => /\ Exists(o.path) /\ seen'[c] = dirent[o.path]
                              /\ buf'[c] = data[dirent[o.path]]
    BY <1>1, <1>4 DEF ReadTask, At, Lookup, Finish, Formed, TypeOK
  <2>2. o.tool \in {"read_text_file", "edit_dry_run", "edit_file", "csv_add_row"}
    BY <1>2, <2>1, OpsAssumption DEF StagesOf, Ops, AllTools
  <2>3. task'[c] = "ok" /\ NextStage(c)' = "idle" => Applied(c)'
    BY <2>1, <2>2 DEF NextStage, Applied, Exists
  <2> QED
    BY <2>1, <2>2, <2>3 DEF Undisturbed, ChecksHold, Exists
<1>5. CASE WriteOpen(c) \/ CopyOpen(c)
  <2>1. PICK i \in Inode :
          /\ i = IF Exists(o.dst) THEN dirent[o.dst] ELSE c
          /\ dirent' = [dirent EXCEPT ![o.dst] = i]
          /\ data' = [data EXCEPT ![i] = <<>>]
          /\ handle' = [handle EXCEPT ![c] = i]
    BY <1>1, <1>5, OpenShape
  <2>2. /\ op' = op /\ stage' = stage /\ buf' = buf /\ task'[c] = "opened"
        /\ dirent'[o.dst] = i /\ handle'[c] = i /\ data'[i] = <<>>
    BY <1>1, <1>2, <1>5, <2>1, OpenShape DEF Formed, TypeOK, WriteOpen, CopyOpen
  <2>3. stage[c] = "copy" => Exists(o.path)' /\ dirent'[o.path] = seen'[c]
    <3>1. stage[c] = "copy" => CopyOpen(c)
      BY <1>5 DEF WriteOpen, At
    <3> QED
      BY <1>1, <1>2, <2>1, <3>1 DEF CopyOpen, Lookup, Exists, Formed, TypeOK
  <2> QED
    BY <1>1, <2>2, <2>3 DEF Undisturbed, ChecksHold
<1>6. CASE Body(c)
  <2>1. /\ task[c] = "opened" /\ task'[c] \in {"ok", "none"}
        /\ op' = op /\ stage' = stage /\ buf' = buf /\ dirent' = dirent
        /\ data' = [data EXCEPT ![handle[c]] = Overlay(Pending(c), @)]
    BY <1>1, <1>6 DEF Body, Finish, Formed, TypeOK
  <2>2. /\ dirent[o.dst] = handle[c] /\ data[handle[c]] = <<>>
        /\ stage[c] = "copy" => Exists(o.path) /\ dirent[o.path] = seen[c]
    BY <1>1, <2>1 DEF Undisturbed, ChecksHold
  <2>3. Pending(c) \in Text /\ handle[c] \in Inode /\ Exists(o.dst)
    BY <1>1, <2>1, <2>2, PendingIsText DEF Formed, TypeOK, Exists
  <2>4. Overlay(Pending(c), <<>>) = Pending(c)
    BY <2>3, LenProperties DEF Overlay, Text
  <2>5. data'[dirent[o.dst]] = Pending(c)
    BY <1>1, <2>1, <2>2, <2>3, <2>4 DEF Formed, TypeOK
  <2>6. stage[c] = "copy" => data'[dirent[o.path]] = Pending(c)
    BY <1>1, <1>2, <2>1, <2>2, <2>5 DEF Pending, Formed, TypeOK, Exists
  <2>7. Applied(c)'
    <3>1. CASE stage[c] = "copy"
      <4>1. o.tool = "copy_file"
        BY <1>2, <3>1, OpsAssumption DEF StagesOf, Ops, AllTools
      <4> QED
        BY <2>1, <2>2, <2>3, <2>5, <2>6, <3>1, <4>1 DEF Applied, Exists
    <3>2. CASE stage[c] = "write"
      <4>1. /\ o.tool \in {"write_file", "csv_create", "edit_file", "csv_add_row"}
            /\ Pending(c) = buf[c]
            /\ o.tool \in {"write_file", "csv_create"} => buf[c] = <<c>>
            /\ o.tool \in {"edit_file", "csv_add_row"} => Marked(o.tool, buf[c], c)
        BY <1>1, <1>2, <2>1, <3>2, OpsAssumption
        DEF StagesOf, Ops, AllTools, Pending, Undisturbed
      <4> QED
        BY <2>1, <2>3, <2>5, <4>1 DEF Applied, Exists
    <3> QED
      BY <1>1, <2>1, <3>1, <3>2 DEF Formed, Shape, CallShape
  <2>8. stage[c] \in {"write", "copy"}
    BY <1>1, <2>1 DEF Formed, Shape, CallShape
  <2> QED
    BY <1>1, <2>1, <2>7, <2>8 DEF Undisturbed, ChecksHold
<1>7. CASE RenameTask(c)
  <2>1. o.tool = "move_file" /\ task[c] = "queued"
    BY <1>1, <1>7, RenameShape
  <2>2. ~Exists(o.dst) /\ Exists(o.path)
    BY <1>1, <1>7, <2>1 DEF Undisturbed, ChecksHold, RenameTask
  <2>3. ~Exists(o.path)' /\ Exists(o.dst)'
    BY <1>1, <1>2, <1>7, <2>2 DEF RenameTask, Exists, Formed, TypeOK
  <2>4. /\ op' = op /\ stage' = stage /\ stage[c] = "rename"
        /\ task'[c] \in {"ok", "none"}
    BY <1>1, <1>7 DEF RenameTask, At, Finish, Formed, TypeOK
  <2>5. Applied(c)'
    BY <2>1, <2>3, <2>4 DEF Applied, Exists
  <2> QED
    BY <2>1, <2>4, <2>5 DEF Undisturbed, ChecksHold
<1>8. CASE UnlinkTask(c)
  <2>1. o.tool = "delete_file"
    BY <1>1, <1>8, UnlinkShape
  <2>2. /\ op' = op /\ stage' = stage /\ stage[c] = "unlink"
        /\ task'[c] \in {"ok", "none"} /\ ~Exists(o.path)'
    BY <1>1, <1>2, <1>8 DEF UnlinkTask, At, Finish, Exists, Formed, TypeOK
  <2>3. Applied(c)'
    BY <2>1, <2>2 DEF Applied, Exists
  <2> QED
    BY <2>1, <2>2, <2>3 DEF Undisturbed, ChecksHold
<1>9. CASE TaskFails(c) \/ WriteFails(c)
  <2>1. /\ op' = op /\ stage' = stage /\ buf' = buf
        /\ task'[c] \in {"failed", "none"}
        /\ o.tool \in {"write_file", "csv_create"} => buf[c] = <<c>>
    BY <1>1, <1>9 DEF TaskFails, WriteFails, Finish, Formed, TypeOK, Undisturbed
  <2>2. stage[c] = "write" /\ o.tool \in {"edit_file", "csv_add_row"}
          => Marked(o.tool, buf[c], c)
    BY <1>1 DEF Undisturbed
  <2> QED
    BY <2>1, <2>2 DEF Undisturbed, ChecksHold
<1>10. CASE Continue(c)
  <2>1. /\ op' = op /\ dirent' = dirent /\ data' = data /\ seen' = seen
        /\ task[c] = "ok" /\ task'[c] = "queued"
        /\ stage'[c] = NextStage(c) /\ NextStage(c) # "idle"
        /\ NextStage(c) = "write" => buf'[c] = Rewritten(o.tool, buf[c], c)
    BY <1>1, <1>10 DEF Continue, Formed, TypeOK
  <2>2. /\ stage[c] \in {"stat", "read"}
        /\ NextStage(c) = "write" => stage[c] = "read"
    BY <2>1 DEF NextStage
  <2>3. o.tool \notin {"write_file", "csv_create", "move_file"}
    BY <1>2, <2>2 DEF StagesOf
  <2>4. /\ Exists(o.path) /\ dirent[o.path] = seen[c]
        /\ stage[c] = "read" => buf[c] = data[seen[c]]
    BY <1>1, <2>1, <2>2 DEF Undisturbed
  <2>5. NextStage(c) = "write" /\ o.tool \in {"edit_file", "csv_add_row"}
          => Marked(o.tool, buf'[c], c)
    BY <1>1, <2>1, RewrittenIsMarked DEF Formed, TypeOK
  <2> QED
    BY <2>1, <2>2, <2>3, <2>4, <2>5 DEF Undisturbed, ChecksHold, Exists
<1>11. CASE Succeed(c) \/ GiveUp(c)
  <2>1. task'[c] = "none"
    BY <1>1, <1>11 DEF Succeed, GiveUp, Leave, Formed, TypeOK
  <2> QED
    BY <2>1 DEF Undisturbed, ChecksHold
<1>12. CASE TimeOut(c)
  <2>1. CASE task'[c] = task[c]
    BY <1>1, <1>12, <2>1, UndisturbedFrame DEF TimeOut
  <2>2. CASE task'[c] = "none"
    BY <2>2 DEF Undisturbed, ChecksHold
  <2> QED
    BY <1>1, <1>12, <2>1, <2>2 DEF TimeOut, Formed, TypeOK
<1> QED
  BY <1>3, <1>4, <1>5, <1>6, <1>7, <1>8, <1>9, <1>10, <1>11, <1>12
  DEF PoolStep, HandlerStep

LEMMA StepUndisturbed == IInv /\ [Next]_vars => AloneUndisturbed'
<1> SUFFICES ASSUME IInv, [Next]_vars, NEW c \in Calls, alone'[c], InFlight(c)'
             PROVE  Undisturbed(c)'
  BY DEF AloneUndisturbed, Undisturbed, ChecksHold, InFlight
<1>1. ASSUME NEW o \in Ops, Submit(c, o) PROVE Undisturbed(c)'
  <2>1. /\ op'[c] = o /\ dirent' = dirent /\ ~Refused(o)
        /\ stage'[c] = FirstStage(o) /\ task'[c] = "queued"
        /\ FirstStage(o) = "write" => buf'[c] = <<c>>
    BY <1>1 DEF Submit, IInv, Formed, TypeOK
  <2>2. /\ FirstStage(o) # "unlink"
        /\ FirstStage(o) = "write" <=> o.tool \in {"write_file", "csv_create"}
    BY DEF FirstStage
  <2> QED
    BY <2>1, <2>2 DEF Undisturbed, ChecksHold, Refused, Exists
<1>2. CASE alone[c] /\ InFlight(c) /\ op[c] \in Ops /\ op'[c] = op[c]
  <2> DEFINE Kept ==
        /\ stage'[c] = stage[c] /\ task'[c] = task[c] /\ seen'[c] = seen[c]
        /\ handle'[c] = handle[c] /\ buf'[c] = buf[c]
      Same == \A p \in Touches(op[c]) :
                /\ dirent'[p] = dirent[p]
                /\ Exists(p) => data'[dirent[p]] = data[dirent[p]]
  <2>1. Kept /\ Same => Undisturbed(c)'
    BY <1>2, UndisturbedFrame DEF IInv, AloneUndisturbed
  <2>2. ASSUME NEW d \in Calls, d # c, NEW o \in Ops, Refuse(d, o) \/ Submit(d, o)
        PROVE  Undisturbed(c)'
    BY <2>1, <2>2 DEF Refuse, Submit, IInv, Formed, TypeOK
  <2>3. ASSUME NEW o \in Ops PROVE ~Refuse(c, o) /\ ~Submit(c, o)
    BY <1>2, ConstantsAssumption DEF Refuse, Submit, MayArrive
  <2>4. ASSUME NEW d \in Calls, d # c, PoolStep(d) PROVE Undisturbed(c)'
    <3>1. Same
      BY <1>2, <2>4, Untouched
    <3>2. Kept
      BY <2>4
      DEF PoolStep, StatTask, ReadTask, WriteOpen, CopyOpen, OpenTarget, Body,
          RenameTask, UnlinkTask, TaskFails, WriteFails, At, Lookup, Finish,
          IInv, Formed, TypeOK
    <3> QED
      BY <2>1, <3>1, <3>2
  <2>5. ASSUME NEW d \in Calls, d # c, HandlerStep(d) \/ TimeOut(d)
        PROVE  Undisturbed(c)'
    BY <2>1, <2>5
    DEF HandlerStep, Continue, Succeed, GiveUp, Leave, TimeOut, IInv, Formed, TypeOK
  <2>6. CASE PoolStep(c) \/ HandlerStep(c) \/ TimeOut(c)
    BY <1>2, <2>6, OwnStep
  <2>7. ~Kill
    BY DEF Kill, InFlight
  <2>8. CASE UNCHANGED vars
    BY <2>1, <2>8 DEF vars
  <2> QED
    BY <2>2, <2>3, <2>4, <2>5, <2>6, <2>7, <2>8 DEF Next, Rest
<1> QED
  BY <1>1, <1>2, InFlightSteps DEF IInv

LEMMA StepIInv == IInv /\ [Next]_vars => IInv'
BY StepFormed, StepDistinct, StepFresh, StepApart, StepUndisturbed DEF IInv

(* Isolation: for any number of calls on any paths, no check and no read   *)
(* of a call goes stale while no conflicting call or detached closure is   *)
(* in flight beside it.                                                    *)
THEOREM IsolatedChecks == Spec => []AloneChecksHold
<1>1. IInv => AloneChecksHold
  BY DEF IInv, AloneUndisturbed, Undisturbed, AloneChecksHold
<1> QED
  BY InitIInv, StepIInv, <1>1, PTL DEF Spec

(* Isolation: the directory holds what an undisturbed call reports when it *)
(* is about to report success.                                             *)
THEOREM IsolatedEffects == Spec => []AloneIsApplied
<1>1. IInv => AloneIsApplied
  BY DEF IInv, AloneUndisturbed, Undisturbed, AloneIsApplied
<1> QED
  BY InitIInv, StepIInv, <1>1, PTL DEF Spec
-----------------------------------------------------------------------------
(***************************************************************************)
(* Refinement.  Behind run_stdio, and as long as no call times out, every  *)
(* call is alone, so what holds of undisturbed calls holds of all, and     *)
(* each step of ToolCalls is a step of FileStore or one it does not see.   *)
(***************************************************************************)

(* What run_stdio adds: one call at a time, none timed out, so every call  *)
(* is undisturbed.                                                         *)
OneAtATime ==
  /\ \A c \in Calls : alone[c] /\ reply[c] # "timeout"
  /\ \A c \in Calls : op[c] # NoOp /\ reply[c] = "none" => InFlight(c)
  /\ \A c, d \in Calls : InFlight(c) /\ InFlight(d) => c = d

SeqInv == IInv /\ OneAtATime

LEMMA InitSeqInv == Init => SeqInv
<1>1. Init => OneAtATime
  BY DEF Init, OneAtATime, InFlight
<1> QED
  BY <1>1, InitIInv DEF SeqInv

(* A call arrives when nothing runs. *)
LEMMA ArrivesAlone ==
  ASSUME Sequential, SeqInv, NEW c \in Calls, MayArrive(c)
  PROVE  /\ op[c] = NoOp /\ \A d \in Calls : ~InFlight(d) /\ handle[d] = NoInode
<1>1. ASSUME NEW d \in Calls, InFlight(d) PROVE FALSE
  <2>1. op[d] # NoOp /\ reply[d] \notin {"ok", "error", "lost", "timeout"}
    BY <1>1 DEF SeqInv, IInv, Formed, Shape, CallShape, InFlight, OneAtATime
  <2> QED
    BY <2>1 DEF MayArrive, SeqInv, IInv, Formed, TypeOK, Replies
<1> QED
  BY <1>1 DEF MayArrive, InFlight, SeqInv, IInv, Formed, TypeOK

LEMMA StepOneAtATime ==
  ASSUME Sequential, ~Timeouts, SeqInv, [Next]_vars PROVE OneAtATime'
<1> USE DEF OneAtATime, InFlight
<1>1. ASSUME NEW c \in Calls, NEW o \in Ops, Refuse(c, o) PROVE OneAtATime'
  BY <1>1 DEF Refuse, SeqInv, IInv, Formed, TypeOK
<1>2. ASSUME NEW c \in Calls, NEW o \in Ops, Submit(c, o) PROVE OneAtATime'
  <2>1. \A d \in Calls : ~InFlight(d) /\ handle[d] = NoInode
    BY <1>2, ArrivesAlone DEF Submit
  <2>2. ~MeetsWriter(o)
    BY <2>1 DEF MeetsWriter
  <2> QED
    BY <1>2, <2>1, <2>2 DEF Submit, SeqInv, IInv, Formed, TypeOK
<1>3. ASSUME NEW c \in Calls, PoolStep(c) PROVE OneAtATime'
  <2>1. op' = op /\ reply' = reply /\ alone' = alone
    BY <1>3
    DEF PoolStep, StatTask, ReadTask, WriteOpen, CopyOpen, Body, RenameTask,
        UnlinkTask, TaskFails, WriteFails
  <2>2. task[c] \in {"queued", "opened"}
    BY <1>3
    DEF PoolStep, StatTask, ReadTask, WriteOpen, CopyOpen, Body, RenameTask,
        UnlinkTask, TaskFails, WriteFails, At
  <2>3. \E t \in {"ok", "failed", "opened"} : task' = [task EXCEPT ![c] = t]
    BY <1>3
    DEF PoolStep, StatTask, ReadTask, WriteOpen, CopyOpen, OpenTarget, Body,
        RenameTask, UnlinkTask, TaskFails, WriteFails, Finish, SeqInv
  <2> QED
    BY <2>1, <2>2, <2>3 DEF SeqInv, IInv, Formed, TypeOK
<1>4. ASSUME NEW c \in Calls, HandlerStep(c) PROVE OneAtATime'
  BY <1>4 DEF HandlerStep, Continue, Succeed, GiveUp, Leave, SeqInv, IInv, Formed, TypeOK
<1>5. ASSUME NEW c \in Calls, TimeOut(c) PROVE OneAtATime'
  BY <1>5 DEF TimeOut
<1>6. CASE Kill
  BY <1>6 DEF Kill, SeqInv
<1>7. CASE UNCHANGED vars
  BY <1>7 DEF vars, SeqInv
<1> QED
  BY <1>1, <1>2, <1>3, <1>4, <1>5, <1>6, <1>7 DEF Next, Rest

LEMMA StepSeqInv ==
  ASSUME Sequential, ~Timeouts PROVE SeqInv /\ [Next]_vars => SeqInv'
BY StepIInv, StepOneAtATime DEF SeqInv
-----------------------------------------------------------------------------
(***************************************************************************)
(* The mapping of ToolCallsAtomic, and the simulation step by step.        *)
(***************************************************************************)

LEMMA SameOperators ==
  /\ FS!Ops = Ops
  /\ \A t, x, c : FS!Rewritten(t, x, c) = Rewritten(t, x, c)
BY Zenon DEF FS!Ops, Ops, FS!TwoPathTools, TwoPathTools, FS!Rewritten, Rewritten,
       FS!Edited, Edited

(* With no file open, the store is what the directory holds. *)
LEMMA FilesAtRest ==
  ASSUME TypeOK, \A c \in Calls : handle[c] = NoInode
  PROVE  files = [p \in Paths |-> IF ~Exists(p) THEN Absent ELSE data[dirent[p]]]
<1>1. \A p \in Paths : Writers(p) = {}
  BY DEF Writers
<1> QED
  BY <1>1 DEF files

(* With one file open, that file already is what it will be. *)
LEMMA FilesWhileOpen ==
  ASSUME TypeOK, DistinctNames, NEW c \in Calls, NEW q \in Paths,
         handle[c] # NoInode, handle[c] = dirent[q],
         \A d \in Calls : d # c => handle[d] = NoInode
  PROVE  files = [p \in Paths |->
                    IF p = q THEN Pending(c)
                    ELSE IF ~Exists(p) THEN Absent ELSE data[dirent[p]]]
<1>1. Exists(q) /\ Writers(q) = {c}
  BY DEF Writers, Exists
<1>2. \A p \in Paths : p # q => Writers(p) = {}
  BY DEF Writers, DistinctNames, Exists
<1>3. (CHOOSE d \in {c} : TRUE) = c
  OBVIOUS
<1>4. \A p \in Paths :
        (IF ~Exists(p) THEN Absent
         ELSE IF Writers(p) # {} THEN Pending(CHOOSE d \in Writers(p) : TRUE)
         ELSE data[dirent[p]])
        = IF p = q THEN Pending(c)
          ELSE IF ~Exists(p) THEN Absent ELSE data[dirent[p]]
  BY <1>1, <1>2, <1>3
<1> QED
  BY <1>4, Zenon DEF files

(* No text is taken for a missing file. *)
LEMMA AbsentMeansMissing ==
  ASSUME TypeOK, \A c \in Calls : handle[c] = NoInode, NEW p \in Paths
  PROVE  files[p] = Absent <=> ~Exists(p)
<1>1. Exists(p) => data[dirent[p]] \in Text
  BY DEF TypeOK, Exists
<1> QED
  BY <1>1, FilesAtRest, AbsentAssumption DEF Absent

(* What the store knows of the other calls. *)
LEMMA PhaseFrame ==
  ASSUME NEW c \in Calls,
         \A d \in Calls : d # c =>
            /\ op'[d] = op[d] /\ reply'[d] = reply[d] /\ task'[d] = task[d]
            /\ stage'[d] = stage[d] /\ buf'[d] = buf[d]
  PROVE  \A d \in Calls : d # c => phase'[d] = phase[d] /\ told'[d] = told[d]
<1>1. \A d \in Calls : d # c => Effective(d)' = Effective(d)
  BY DEF Effective, NextStage
<1>2. \A d \in Calls : d # c => phase'[d] = phase[d]
  BY <1>1 DEF phase
<1> QED
  BY <1>2 DEF told

LEMMA PhaseUpdate ==
  ASSUME NEW c \in Calls, NEW x, NEW y, phase'[c] = x, told'[c] = y,
         \A d \in Calls : d # c => phase'[d] = phase[d] /\ told'[d] = told[d]
  PROVE  phase' = [phase EXCEPT ![c] = x] /\ told' = [told EXCEPT ![c] = y]
<1>1. /\ phase = [d \in Calls |-> phase[d]] /\ phase' = [d \in Calls |-> phase'[d]]
      /\ told = [d \in Calls |-> told[d]] /\ told' = [d \in Calls |-> told'[d]]
  BY DEF phase, told
<1> QED
  BY <1>1

(* The phase of one call. *)
LEMMA PhaseOf ==
  ASSUME SeqInv, NEW c \in Calls
  PROVE  /\ op[c] = NoOp => phase[c] = "idle"
         /\ op[c] # NoOp /\ reply[c] # "none" => phase[c] = reply[c]
         /\ InFlight(c) /\ task[c] = "failed" => phase[c] = "failed"
         /\ InFlight(c) /\ task[c] # "failed" /\ Effective(c) => phase[c] = "applied"
         /\ InFlight(c) /\ task[c] # "failed" /\ ~Effective(c) => phase[c] = "pending"
         /\ InFlight(c) => op[c] \in Ops /\ reply[c] = "none"
<1>1. phase[c] = CASE op[c] = NoOp       -> "idle"
                   [] reply[c] # "none"  -> reply[c]
                   [] task[c] = "failed" -> "failed"
                   [] Effective(c)       -> "applied"
                   [] OTHER              -> "pending"
  BY DEF phase
<1>2. InFlight(c) => op[c] \in Ops /\ reply[c] = "none"
  BY DEF SeqInv, IInv, Formed, TypeOK, Replies, Shape, CallShape, InFlight, OneAtATime
<1>3. op[c] = NoOp => reply[c] = "none" /\ task[c] = "none"
  BY DEF SeqInv, IInv, Formed, Shape, CallShape, InFlight
<1>4. reply[c] # "none" => task[c] = "none"
  BY DEF SeqInv, IInv, Formed, TypeOK, Replies, Shape, CallShape, OneAtATime
<1>5. Effective(c) => task[c] \in {"opened", "ok"}
  BY DEF Effective
<1>6. InFlight(c) => op[c] # NoOp
  BY <1>2, ConstantsAssumption
<1>7. op[c] = NoOp => phase[c] = "idle"
  BY <1>1, <1>3, <1>5
<1>8. op[c] # NoOp /\ reply[c] # "none" => phase[c] = reply[c]
  BY <1>1, <1>4, <1>5
<1>9. InFlight(c) /\ task[c] = "failed" => phase[c] = "failed"
  BY <1>1, <1>2, <1>5, <1>6
<1>10. InFlight(c) /\ task[c] # "failed" /\ Effective(c) => phase[c] = "applied"
  BY <1>1, <1>2, <1>6
<1>11. InFlight(c) /\ task[c] # "failed" /\ ~Effective(c) => phase[c] = "pending"
  BY <1>1, <1>2, <1>6
<1> QED
  BY <1>2, <1>7, <1>8, <1>9, <1>10, <1>11

(* The mapping in the states that are reached: what the phase of a call    *)
(* and the files are.                                                      *)
PhaseIs(c) ==
  /\ op[c] = NoOp => phase[c] = "idle"
  /\ op[c] # NoOp /\ reply[c] # "none" => phase[c] = reply[c]
  /\ InFlight(c) /\ task[c] = "failed" => phase[c] = "failed"
  /\ InFlight(c) /\ task[c] # "failed" /\ Effective(c) => phase[c] = "applied"
  /\ InFlight(c) /\ task[c] # "failed" /\ ~Effective(c) => phase[c] = "pending"
  /\ InFlight(c) => op[c] \in Ops /\ reply[c] = "none"

AtRest == \A c \in Calls : handle[c] = NoInode

Named == [p \in Paths |-> IF ~Exists(p) THEN Absent ELSE data[dirent[p]]]

OnlyOpen(c, q) ==
  /\ handle[c] # NoInode /\ handle[c] = dirent[q]
  /\ \A d \in Calls : d # c => handle[d] = NoInode

Mapping ==
  /\ \A c \in Calls : PhaseIs(c)
  /\ AtRest => files = Named
  /\ \A c \in Calls, q \in Paths :
       OnlyOpen(c, q) => files = [Named EXCEPT ![q] = Pending(c)]

LEMMA MappingHolds == SeqInv => Mapping
<1> SUFFICES ASSUME SeqInv PROVE Mapping
  OBVIOUS
<1>1. TypeOK /\ DistinctNames
  BY DEF SeqInv, IInv, Formed
<1>2. \A c \in Calls : PhaseIs(c)
  BY PhaseOf DEF PhaseIs
<1>3. AtRest => files = Named
  BY <1>1, FilesAtRest DEF AtRest, Named
<1>4. ASSUME NEW c \in Calls, NEW q \in Paths, OnlyOpen(c, q)
      PROVE  files = [Named EXCEPT ![q] = Pending(c)]
  <2>1. files = [p \in Paths |->
                   IF p = q THEN Pending(c)
                   ELSE IF ~Exists(p) THEN Absent ELSE data[dirent[p]]]
    BY <1>1, <1>4, FilesWhileOpen DEF OnlyOpen
  <2> QED
    BY <2>1, Zenon DEF Named
<1> QED
  BY <1>2, <1>3, <1>4 DEF Mapping

LEMMA MappingSteps == SeqInv' => Mapping'
BY MappingHolds, PTL

(* The one call in flight. *)
LEMMA TheCall ==
  ASSUME SeqInv, NEW c \in Calls, InFlight(c)
  PROVE  /\ op[c] \in Ops /\ op[c].path \in Paths /\ op[c].dst \in Paths
         /\ op[c] # NoOp /\ reply[c] = "none" /\ stage[c] \in StagesOf(op[c].tool)
         /\ Undisturbed(c) /\ ChecksHold(c)
         /\ \A d \in Calls : d # c => handle[d] = NoInode
         /\ task[c] # "opened" => AtRest
         /\ task[c] = "opened" => OnlyOpen(c, op[c].dst)
<1>1. op[c] \in Ops /\ reply[c] = "none" /\ stage[c] \in StagesOf(op[c].tool)
  BY DEF SeqInv, IInv, Formed, TypeOK, Replies, Shape, CallShape, InFlight, OneAtATime
<1>2. Undisturbed(c) /\ ChecksHold(c)
  BY DEF SeqInv, IInv, AloneUndisturbed, Undisturbed, OneAtATime
<1>3. \A d \in Calls : handle[d] # NoInode <=> task[d] = "opened"
  BY DEF SeqInv, IInv, Formed, TypeOK
<1>4. \A d \in Calls : d # c => handle[d] = NoInode
  BY <1>3 DEF SeqInv, OneAtATime, InFlight
<1>5. task[c] # "opened" => AtRest
  BY <1>3, <1>4 DEF AtRest
<1>6. task[c] = "opened" => OnlyOpen(c, op[c].dst)
  BY <1>2, <1>3, <1>4 DEF OnlyOpen, ChecksHold
<1> QED
  BY <1>1, <1>2, <1>4, <1>5, <1>6, ConstantsAssumption DEF Ops

Sim == SeqInv /\ SeqInv' /\ Mapping /\ Mapping'

LEMMA SimRefuse ==
  ASSUME Sequential, Sim, NEW c \in Calls, NEW o \in Ops, Refuse(c, o)
  PROVE  FS!Reject(c, o)
<1>1. op[c] = NoOp /\ AtRest
  BY ArrivesAlone DEF Sim, Refuse, AtRest
<1>2. files' = files
  BY <1>1 DEF Sim, Mapping, Refuse, AtRest, Named, Exists
<1>3. phase[c] = "idle" /\ phase'[c] = "error"
  BY <1>1, ConstantsAssumption DEF Sim, Mapping, PhaseIs, Refuse, SeqInv, IInv, Formed, TypeOK
<1>4. told[c] = <<>> /\ told'[c] = <<>>
  BY <1>3 DEF told
<1>5. \A d \in Calls : d # c => phase'[d] = phase[d] /\ told'[d] = told[d]
  BY PhaseFrame DEF Refuse, Sim, SeqInv, IInv, Formed, TypeOK
<1>6. phase' = [phase EXCEPT ![c] = "error"] /\ told' = [told EXCEPT ![c] = <<>>]
  BY <1>3, <1>4, <1>5, PhaseUpdate
<1>7. ~FS!Applicable(o)
  <2>1. o.path \in Paths /\ o.dst \in Paths
    BY DEF Ops
  <2>2. \A p \in Paths : files[p] = Absent <=> ~Exists(p)
    BY <1>1, AbsentMeansMissing DEF AtRest, Sim, SeqInv, IInv, Formed
  <2> QED
    BY <2>1, <2>2 DEF Refuse, Refused, FS!Applicable
<1>8. told' = told
  BY <1>4, <1>6 DEF told
<1> QED
  BY <1>2, <1>3, <1>6, <1>7, <1>8 DEF FS!Reject, Refuse

LEMMA SimSubmit ==
  ASSUME Sequential, Sim, NEW c \in Calls, NEW o \in Ops, Submit(c, o)
  PROVE  FS!Submit(c, o)
<1>1. op[c] = NoOp /\ AtRest /\ ~InFlight(c)
  BY ArrivesAlone DEF Sim, Submit, AtRest
<1>2. files' = files
  BY <1>1 DEF Sim, Mapping, Submit, AtRest, Named, Exists
<1>3. task'[c] = "queued" /\ op'[c] = o
  BY DEF Submit, Sim, SeqInv, IInv, Formed, TypeOK
<1>4. phase[c] = "idle" /\ phase'[c] = "pending"
  BY <1>1, <1>3 DEF Sim, Mapping, PhaseIs, InFlight, Effective
<1>5. told[c] = <<>> /\ told'[c] = <<>>
  BY <1>4 DEF told
<1>6. \A d \in Calls : d # c => phase'[d] = phase[d] /\ told'[d] = told[d]
  BY PhaseFrame DEF Submit, Sim, SeqInv, IInv, Formed, TypeOK
<1>7. phase' = [phase EXCEPT ![c] = "pending"] /\ told' = [told EXCEPT ![c] = <<>>]
  BY <1>4, <1>5, <1>6, PhaseUpdate
<1>8. told' = told
  BY <1>5, <1>7 DEF told
<1> QED
  BY <1>2, <1>4, <1>7, <1>8 DEF FS!Submit, Submit

(* A step of the one call in flight: its frame. *)
LEMMA OwnFrame ==
  ASSUME Sim, NEW c \in Calls, PoolStep(c) \/ HandlerStep(c)
  PROVE  /\ op' = op /\ InFlight(c)
         /\ \A d \in Calls : d # c => phase'[d] = phase[d] /\ told'[d] = told[d]
<1>1. op' = op /\ InFlight(c)
  BY DEF PoolStep, HandlerStep, StatTask, ReadTask, WriteOpen, CopyOpen, Body,
         RenameTask, UnlinkTask, TaskFails, WriteFails, Continue, Succeed, GiveUp,
         Leave, At, InFlight
<1>2. \A d \in Calls : d # c =>
        /\ reply'[d] = reply[d] /\ task'[d] = task[d]
        /\ stage'[d] = stage[d] /\ buf'[d] = buf[d]
  BY DEF PoolStep, HandlerStep, StatTask, ReadTask, WriteOpen, CopyOpen, OpenTarget, Body,
         RenameTask, UnlinkTask, TaskFails, WriteFails, Continue, Succeed, GiveUp,
         Leave, Finish, Sim, SeqInv, IInv, Formed, TypeOK
<1> QED
  BY <1>1, <1>2, PhaseFrame

(* A step the store does not see. *)
LEMMA Unseen ==
  ASSUME NEW c \in Calls, phase'[c] = phase[c], told'[c] = told[c], op' = op,
         files' = files,
         \A d \in Calls : d # c => phase'[d] = phase[d] /\ told'[d] = told[d]
  PROVE  UNCHANGED FS!storeVars
<1>1. phase' = phase /\ told' = told
  BY DEF phase, told
<1> QED
  BY <1>1 DEF FS!storeVars

(* A closure that fails before its system call has had an effect. *)
LEMMA SimFails ==
  ASSUME Sim, NEW c \in Calls, PoolStep(c), task'[c] = "failed",
         task[c] = "queued", UNCHANGED <<dirent, data, handle>>
  PROVE  FS!Fail(c)
<1>1. /\ op' = op /\ InFlight(c)
      /\ \A d \in Calls : d # c => phase'[d] = phase[d] /\ told'[d] = told[d]
  BY OwnFrame
<1>2. AtRest /\ AtRest' /\ files' = files
  <2>1. AtRest
    BY <1>1, TheCall DEF Sim
  <2> QED
    BY <2>1 DEF Sim, Mapping, AtRest, Named, Exists
<1>3. phase[c] = "pending" /\ phase'[c] = "failed"
  BY <1>1 DEF Sim, Mapping, PhaseIs, InFlight, Effective
<1>4. told[c] = <<>> /\ told'[c] = <<>>
  BY <1>3 DEF told
<1>5. phase' = [phase EXCEPT ![c] = "failed"] /\ told' = [told EXCEPT ![c] = <<>>]
  BY <1>1, <1>3, <1>4, PhaseUpdate
<1>6. told' = told
  BY <1>4, <1>5 DEF told
<1> QED
  BY <1>1, <1>2, <1>3, <1>5, <1>6 DEF FS!Fail

LEMMA SimStat ==
  ASSUME Sim, NEW c \in Calls, StatTask(c)
  PROVE  FS!Fail(c) \/ UNCHANGED FS!storeVars
<1>1. /\ op' = op /\ InFlight(c)
      /\ \A d \in Calls : d # c => phase'[d] = phase[d] /\ told'[d] = told[d]
  BY OwnFrame DEF PoolStep
<1>2. /\ task[c] = "queued" /\ task'[c] \in {"ok", "failed"} /\ stage[c] = "stat"
      /\ stage' = stage /\ UNCHANGED <<dirent, data, handle>>
  BY <1>1, TheCall DEF StatTask, At, Finish, Sim, SeqInv, IInv, Formed, TypeOK
<1>3. CASE task'[c] = "failed"
  BY <1>2, <1>3, SimFails DEF PoolStep
<1>4. CASE task'[c] = "ok"
  <2>1. AtRest /\ files' = files
    <3>1. AtRest
      BY <1>1, <1>2, TheCall DEF Sim
    <3> QED
      BY <1>2, <3>1 DEF Sim, Mapping, AtRest, Named, Exists
  <2>2. ~Effective(c) /\ ~Effective(c)'
    BY <1>2, <1>4 DEF Effective, NextStage
  <2>3. phase[c] = "pending" /\ phase'[c] = "pending"
    BY <1>1, <1>2, <1>4, <2>2 DEF Sim, Mapping, PhaseIs, InFlight
  <2>4. told[c] = <<>> /\ told'[c] = <<>>
    BY <2>3 DEF told
  <2> QED
    BY <1>1, <2>1, <2>3, <2>4, Unseen
<1> QED
  BY <1>2, <1>3, <1>4

LEMMA QuietFiles ==
  ASSUME Sim, NEW c \in Calls, InFlight(c), task[c] # "opened"
  PROVE  /\ AtRest /\ files = Named
         /\ \A p \in Paths : files[p] = Absent <=> ~Exists(p)
<1>1. AtRest
  BY TheCall DEF Sim
<1>2. \A p \in Paths : files[p] = Absent <=> ~Exists(p)
  BY <1>1, AbsentMeansMissing DEF AtRest, Sim, SeqInv, IInv, Formed
<1> QED
  BY <1>1, <1>2 DEF Sim, Mapping

(* The step that takes effect. *)
LEMMA SimApplies ==
  ASSUME Sim, NEW c \in Calls, PoolStep(c), task[c] = "queued",
         task'[c] = "opened" \/ (task'[c] = "ok" /\ NextStage(c)' = "idle"),
         FS!Applicable(op[c]), files' = FS!Effect(op[c], c),
         op[c].tool = "read_text_file" => buf'[c] = files[op[c].path]
  PROVE  FS!Apply(c)
<1>1. /\ op' = op /\ InFlight(c) /\ op[c] # NoOp
      /\ \A d \in Calls : d # c => phase'[d] = phase[d] /\ told'[d] = told[d]
  BY OwnFrame, TheCall DEF Sim
<1>2. phase[c] = "pending" /\ phase'[c] = "applied"
  BY <1>1 DEF Sim, Mapping, PhaseIs, InFlight, Effective
<1>3. told'[c] = IF op[c].tool = "read_text_file" THEN files[op[c].path] ELSE <<>>
  BY <1>1, <1>2 DEF told
<1>4. /\ phase' = [phase EXCEPT ![c] = "applied"]
      /\ told' = [told EXCEPT ![c] = IF op[c].tool = "read_text_file"
                                       THEN files[op[c].path] ELSE <<>>]
  BY <1>1, <1>2, <1>3, PhaseUpdate
<1> QED
  BY <1>1, <1>2, <1>4 DEF FS!Apply

LEMMA SimRead ==
  ASSUME Sim, NEW c \in Calls, ReadTask(c)
  PROVE  FS!Apply(c) \/ FS!Fail(c) \/ UNCHANGED FS!storeVars
<1>1. /\ op' = op /\ InFlight(c) /\ stage[c] \in StagesOf(op[c].tool)
      /\ op[c] \in Ops /\ op[c].path \in Paths
      /\ \A d \in Calls : d # c => phase'[d] = phase[d] /\ told'[d] = told[d]
  BY OwnFrame, TheCall DEF PoolStep, Sim
<1>2. /\ task[c] = "queued" /\ task'[c] \in {"ok", "failed"} /\ stage[c] = "read"
      /\ stage' = stage /\ UNCHANGED <<dirent, data, handle>>
      /\ task'[c] = "ok" => /\ Exists(op[c].path)
                            /\ buf'[c] = data[dirent[op[c].path]]
  BY <1>1, TheCall DEF ReadTask, At, Finish, Sim, SeqInv, IInv, Formed, TypeOK
<1>3. /\ AtRest /\ files = Named /\ files' = files
      /\ \A p \in Paths : files[p] = Absent <=> ~Exists(p)
  <2>1. AtRest /\ files = Named /\ \A p \in Paths : files[p] = Absent <=> ~Exists(p)
    BY <1>1, <1>2, QuietFiles
  <2> QED
    BY <1>2, <2>1 DEF Sim, Mapping, AtRest, Named, Exists
<1>4. CASE task'[c] = "failed"
  BY <1>2, <1>4, SimFails DEF PoolStep
<1>5. op[c].tool \in {"read_text_file", "edit_dry_run", "edit_file", "csv_add_row"}
  BY <1>1, <1>2, OpsAssumption DEF StagesOf, Ops, AllTools
<1>6. CASE task'[c] = "ok" /\ op[c].tool \in {"read_text_file", "edit_dry_run"}
  <2>1. NextStage(c)' = "idle"
    BY <1>1, <1>2, <1>6 DEF NextStage
  <2>2. FS!Applicable(op[c]) /\ files' = FS!Effect(op[c], c)
    BY <1>1, <1>2, <1>3, <1>6 DEF FS!Applicable, FS!Effect
  <2>3. buf'[c] = files[op[c].path]
    BY <1>1, <1>2, <1>3, <1>6 DEF Named
  <2> QED
    BY <1>2, <1>6, <2>1, <2>2, <2>3, SimApplies DEF PoolStep
<1>7. CASE task'[c] = "ok" /\ op[c].tool \in {"edit_file", "csv_add_row"}
  <2>1. ~Effective(c) /\ ~Effective(c)'
    BY <1>1, <1>2, <1>7 DEF Effective, NextStage
  <2>2. phase[c] = "pending" /\ phase'[c] = "pending"
    BY <1>1, <1>2, <1>7, <2>1 DEF Sim, Mapping, PhaseIs, InFlight
  <2>3. told[c] = <<>> /\ told'[c] = <<>>
    BY <2>2 DEF told
  <2> QED
    BY <1>1, <1>3, <2>2, <2>3, Unseen
<1> QED
  BY <1>2, <1>4, <1>5, <1>6, <1>7

(* An open that truncates: the store already has the text to come. *)
LEMMA OpenedFiles ==
  ASSUME Sim, NEW c \in Calls, WriteOpen(c) \/ CopyOpen(c)
  PROVE  files' = [files EXCEPT ![op[c].dst] = Pending(c)']
<1>1. /\ op' = op /\ InFlight(c) /\ op[c].dst \in Paths /\ task[c] = "queued"
      /\ task'[c] = "opened" /\ files = Named
      /\ \A p \in Paths : files[p] = Absent <=> ~Exists(p)
  <2>1. op' = op /\ InFlight(c) /\ task[c] = "queued" /\ task'[c] = "opened"
    BY OwnFrame, OpenShape DEF Sim, SeqInv, IInv, Formed, TypeOK, PoolStep
  <2> QED
    BY <2>1, TheCall, QuietFiles DEF Sim
<1>2. PICK i \in Inode :
        /\ i = IF Exists(op[c].dst) THEN dirent[op[c].dst] ELSE c
        /\ dirent' = [dirent EXCEPT ![op[c].dst] = i]
        /\ data' = [data EXCEPT ![i] = <<>>]
        /\ handle' = [handle EXCEPT ![c] = i]
  BY OpenShape DEF Sim, SeqInv, IInv
<1>3. OnlyOpen(c, op[c].dst)'
  <2>1. AtRest
    BY <1>1, QuietFiles
  <2>2. i # NoInode
    BY ConstantsAssumption DEF Inode
  <2> QED
    BY <1>1, <1>2, <2>1, <2>2 DEF OnlyOpen, AtRest, Sim, SeqInv, IInv, Formed, TypeOK
<1>4. files' = [Named' EXCEPT ![op[c].dst] = Pending(c)']
  BY <1>1, <1>3 DEF Sim, Mapping
<1>5. ASSUME NEW p \in Paths, p # op[c].dst
      PROVE  dirent'[p] = dirent[p] /\ (Exists(p) => data'[dirent[p]] = data[dirent[p]])
  <2>1. dirent'[p] = dirent[p]
    BY <1>1, <1>2, <1>5 DEF Sim, SeqInv, IInv, Formed, TypeOK
  <2>2. Exists(p) => dirent[p] # i
    <3>1. dirent'[op[c].dst] = i
      BY <1>1, <1>2 DEF Sim, SeqInv, IInv, Formed, TypeOK
    <3> QED
      BY <1>1, <1>5, <2>1, <3>1 DEF Sim, SeqInv, IInv, DistinctNames, Exists
  <2> QED
    BY <1>2, <2>1, <2>2 DEF Sim, SeqInv, IInv, Formed, TypeOK, Exists
<1>6. ASSUME NEW p \in Paths, p # op[c].dst PROVE Named'[p] = files[p]
  BY <1>1, <1>5, <1>6 DEF Named, Exists
<1> QED
  BY <1>1, <1>4, <1>6 DEF Named

LEMMA SimWriteOpen ==
  ASSUME Sim, NEW c \in Calls, WriteOpen(c)
  PROVE  FS!Apply(c)
<1>1. /\ op' = op /\ InFlight(c) /\ stage[c] \in StagesOf(op[c].tool)
      /\ op[c] \in Ops /\ op[c].path \in Paths /\ op[c].dst \in Paths
      /\ Undisturbed(c) /\ ChecksHold(c)
  BY OwnFrame, TheCall DEF PoolStep, Sim
<1>2. /\ task[c] = "queued" /\ task'[c] = "opened" /\ stage[c] = "write"
      /\ stage' = stage /\ buf' = buf
  BY OpenShape DEF WriteOpen, At, Sim, SeqInv, IInv, Formed, TypeOK
<1>3. /\ files = Named /\ \A p \in Paths : files[p] = Absent <=> ~Exists(p)
  BY <1>1, <1>2, QuietFiles
<1>4. files' = [files EXCEPT ![op[c].dst] = buf[c]]
  BY <1>2, OpenedFiles DEF Pending
<1>5. op[c].tool \in {"write_file", "csv_create", "edit_file", "csv_add_row"}
  BY <1>1, <1>2, OpsAssumption DEF StagesOf, Ops, AllTools
<1>6. CASE op[c].tool \in {"write_file", "csv_create"}
  <2>1. buf[c] = <<c>> /\ (op[c].tool = "csv_create" => ~Exists(op[c].dst))
    BY <1>1, <1>2, <1>6 DEF Undisturbed, ChecksHold
  <2>2. FS!Applicable(op[c])
    BY <1>1, <1>3, <1>6, <2>1 DEF FS!Applicable
  <2>3. files' = FS!Effect(op[c], c)
    BY <1>4, <1>6, <2>1 DEF FS!Effect
  <2> QED
    BY <1>2, <1>6, <2>2, <2>3, SimApplies DEF PoolStep
<1>7. CASE op[c].tool \in {"edit_file", "csv_add_row"}
  <2>1. /\ Exists(op[c].path) /\ dirent[op[c].path] = seen[c]
        /\ buf[c] = Rewritten(op[c].tool, data[seen[c]], c)
        /\ op[c].dst = op[c].path
    BY <1>1, <1>2, <1>7 DEF ChecksHold, Ops, TwoPathTools
  <2>2. FS!Applicable(op[c])
    BY <1>1, <1>3, <1>7, <2>1 DEF FS!Applicable
  <2>3. files[op[c].dst] = data[seen[c]]
    BY <1>1, <1>3, <2>1 DEF Named
  <2>4. files' = [files EXCEPT ![op[c].dst] = FS!Rewritten(op[c].tool, @, c)]
    BY <1>4, <2>1, <2>3, SameOperators
  <2>5. files' = FS!Effect(op[c], c)
    BY <1>7, <2>4 DEF FS!Effect
  <2> QED
    BY <1>2, <1>7, <2>2, <2>5, SimApplies DEF PoolStep
<1> QED
  BY <1>5, <1>6, <1>7

LEMMA SimCopyOpen ==
  ASSUME Sim, NEW c \in Calls, CopyOpen(c)
  PROVE  FS!Apply(c)
<1>1. /\ op' = op /\ InFlight(c) /\ stage[c] \in StagesOf(op[c].tool)
      /\ op[c] \in Ops /\ op[c].path \in Paths /\ op[c].dst \in Paths
  BY OwnFrame, TheCall DEF PoolStep, Sim
<1>2. /\ task[c] = "queued" /\ task'[c] = "opened" /\ stage[c] = "copy"
      /\ stage' = stage /\ Exists(op[c].path) /\ seen'[c] = dirent[op[c].path]
      /\ dirent[op[c].path] \in Inode
  <2>1. task' = [task EXCEPT ![c] = "opened"]
    BY OpenShape DEF Sim, SeqInv, IInv
  <2> QED
    BY <1>1, <2>1 DEF CopyOpen, At, Lookup, Exists, Sim, SeqInv, IInv, Formed, TypeOK
<1>3. /\ files = Named /\ \A p \in Paths : files[p] = Absent <=> ~Exists(p)
  BY <1>1, <1>2, QuietFiles
<1>4. files' = [files EXCEPT ![op[c].dst] = data'[dirent[op[c].path]]]
  BY <1>2, OpenedFiles DEF Pending
<1>5. op[c].tool = "copy_file"
  BY <1>1, <1>2, OpsAssumption DEF StagesOf, Ops, AllTools
<1>6. data'[dirent[op[c].path]]
        = IF op[c].path = op[c].dst THEN <<>> ELSE files[op[c].path]
  <2>1. PICK i \in Inode :
          /\ i = IF Exists(op[c].dst) THEN dirent[op[c].dst] ELSE c
          /\ data' = [data EXCEPT ![i] = <<>>]
    BY OpenShape DEF Sim, SeqInv, IInv
  <2>2. CASE op[c].path = op[c].dst
    BY <1>1, <1>2, <2>1, <2>2 DEF Sim, SeqInv, IInv, Formed, TypeOK
  <2>3. CASE op[c].path # op[c].dst
    <3>1. dirent[op[c].path] # i
      BY <1>1, <1>2, <2>1, <2>3
      DEF Sim, SeqInv, IInv, DistinctNames, FreshInodes, MayOpen, Exists
    <3> QED
      BY <1>1, <1>2, <1>3, <2>1, <2>3, <3>1 DEF Named, Sim, SeqInv, IInv, Formed, TypeOK
  <2> QED
    BY <2>2, <2>3
<1>7. FS!Applicable(op[c])
  BY <1>1, <1>2, <1>3, <1>5 DEF FS!Applicable
<1>8. files' = FS!Effect(op[c], c)
  BY <1>4, <1>5, <1>6 DEF FS!Effect
<1> QED
  BY <1>2, <1>5, <1>7, <1>8, SimApplies DEF PoolStep

LEMMA SimRename ==
  ASSUME Sim, NEW c \in Calls, RenameTask(c)
  PROVE  FS!Apply(c)
<1>1. /\ op' = op /\ InFlight(c) /\ op[c].path \in Paths /\ op[c].dst \in Paths
      /\ op[c].tool = "move_file" /\ ChecksHold(c)
  BY OwnFrame, TheCall, RenameShape DEF PoolStep, Sim, SeqInv, IInv
<1>2. /\ task[c] = "queued" /\ task'[c] = "ok" /\ stage[c] = "rename"
      /\ stage' = stage /\ data' = data /\ handle' = handle
      /\ Exists(op[c].path) /\ ~Exists(op[c].dst)
      /\ dirent' = [dirent EXCEPT ![op[c].path] = NoInode,
                                  ![op[c].dst] = dirent[op[c].path]]
  BY <1>1, TheCall DEF RenameTask, At, Finish, ChecksHold, Sim, SeqInv, IInv, Formed, TypeOK
<1>3. /\ AtRest /\ files = Named /\ \A p \in Paths : files[p] = Absent <=> ~Exists(p)
  BY <1>1, <1>2, QuietFiles
<1>4. files' = Named'
  BY <1>2, <1>3 DEF Sim, Mapping, AtRest
<1>5. Named' = [Named EXCEPT ![op[c].path] = Absent, ![op[c].dst] = Named[op[c].path]]
  BY <1>1, <1>2 DEF Named, Exists, Absent, Sim, SeqInv, IInv, Formed, TypeOK
<1>6. FS!Applicable(op[c])
  BY <1>1, <1>2, <1>3 DEF FS!Applicable
<1>7. files' = FS!Effect(op[c], c)
  BY <1>1, <1>3, <1>4, <1>5 DEF FS!Effect
<1>8. NextStage(c)' = "idle"
  BY <1>2 DEF NextStage
<1> QED
  BY <1>1, <1>2, <1>6, <1>7, <1>8, SimApplies DEF PoolStep

LEMMA SimUnlink ==
  ASSUME Sim, NEW c \in Calls, UnlinkTask(c)
  PROVE  FS!Apply(c)
<1>1. /\ op' = op /\ InFlight(c) /\ op[c].path \in Paths
      /\ op[c].tool = "delete_file"
  BY OwnFrame, TheCall, UnlinkShape DEF PoolStep, Sim, SeqInv, IInv
<1>2. /\ task[c] = "queued" /\ task'[c] = "ok" /\ stage[c] = "unlink"
      /\ stage' = stage /\ data' = data /\ handle' = handle /\ Exists(op[c].path)
      /\ dirent' = [dirent EXCEPT ![op[c].path] = NoInode]
  BY <1>1, TheCall DEF UnlinkTask, At, Finish, Sim, SeqInv, IInv, Formed, TypeOK
<1>3. /\ AtRest /\ files = Named /\ \A p \in Paths : files[p] = Absent <=> ~Exists(p)
  BY <1>1, <1>2, QuietFiles
<1>4. files' = Named'
  BY <1>2, <1>3 DEF Sim, Mapping, AtRest
<1>5. Named' = [Named EXCEPT ![op[c].path] = Absent]
  BY <1>1, <1>2 DEF Named, Exists, Absent, Sim, SeqInv, IInv, Formed, TypeOK
<1>6. FS!Applicable(op[c])
  BY <1>1, <1>2, <1>3 DEF FS!Applicable
<1>7. files' = FS!Effect(op[c], c)
  BY <1>1, <1>3, <1>4, <1>5 DEF FS!Effect
<1>8. NextStage(c)' = "idle"
  BY <1>2 DEF NextStage
<1> QED
  BY <1>1, <1>2, <1>6, <1>7, <1>8, SimApplies DEF PoolStep

(* The write of an open file, whole or cut short. *)
LEMMA WrittenFiles ==
  ASSUME Sim, NEW c \in Calls, task[c] = "opened", InFlight(c), NEW t \in Text,
         data' = [data EXCEPT ![handle[c]] = Overlay(t, @)],
         handle' = [handle EXCEPT ![c] = NoInode], dirent' = dirent
  PROVE  files' = [files EXCEPT ![op[c].dst] = t]
<1>1. /\ OnlyOpen(c, op[c].dst) /\ op[c].dst \in Paths /\ data[handle[c]] = <<>>
      /\ handle[c] \in Inode
  BY TheCall, PendingIsText DEF Sim, ChecksHold, SeqInv, IInv
<1>2. Overlay(t, <<>>) = t
  BY LenProperties DEF Overlay, Text
<1>3. data' = [data EXCEPT ![handle[c]] = t]
  BY <1>1, <1>2
<1>4. AtRest' /\ files' = Named'
  <2>1. AtRest'
    BY <1>1 DEF OnlyOpen, AtRest, Sim, SeqInv, IInv, Formed, TypeOK
  <2> QED
    BY <2>1 DEF Sim, Mapping
<1>5. files = [Named EXCEPT ![op[c].dst] = Pending(c)]
  BY <1>1 DEF Sim, Mapping
<1>6. \A p \in Paths : p # op[c].dst /\ Exists(p) => dirent[p] # handle[c]
  BY <1>1 DEF OnlyOpen, Sim, SeqInv, IInv, DistinctNames
<1>7. Named' = [Named EXCEPT ![op[c].dst] = t]
  <2>1. ASSUME NEW p \in Paths, p # op[c].dst PROVE Named'[p] = Named[p]
    BY <1>3, <1>6, <2>1 DEF Named, Exists, Sim, SeqInv, IInv, Formed, TypeOK
  <2>2. Named'[op[c].dst] = t
    BY <1>1, <1>3 DEF OnlyOpen, Named, Exists, Sim, SeqInv, IInv, Formed, TypeOK
  <2> QED
    BY <2>1, <2>2 DEF Named
<1> QED
  BY <1>4, <1>5, <1>7

(* A write or a copy that has opened its target. *)
LEMMA OpenCall ==
  ASSUME Sim, NEW c \in Calls, task[c] = "opened"
  PROVE  /\ InFlight(c) /\ stage[c] \in {"write", "copy"} /\ phase[c] = "applied"
         /\ op[c].tool \in {"write_file", "csv_create", "edit_file",
                            "csv_add_row", "copy_file"}
         /\ Pending(c) \in Text /\ files[op[c].dst] = Pending(c)
<1>1. /\ InFlight(c) /\ OnlyOpen(c, op[c].dst) /\ op[c].dst \in Paths
      /\ op[c] \in Ops /\ stage[c] \in StagesOf(op[c].tool)
  BY TheCall DEF Sim, InFlight
<1>2. stage[c] \in {"write", "copy"} /\ Pending(c) \in Text
  BY PendingIsText DEF Sim, SeqInv, IInv, Formed, Shape, CallShape
<1>3. phase[c] = "applied"
  BY <1>1 DEF Sim, Mapping, PhaseIs, Effective
<1>4. op[c].tool \in {"write_file", "csv_create", "edit_file", "csv_add_row", "copy_file"}
  BY <1>1, <1>2, OpsAssumption DEF StagesOf, Ops, AllTools
<1>5. files[op[c].dst] = Pending(c)
  BY <1>1 DEF Sim, Mapping, Named
<1> QED
  BY <1>1, <1>2, <1>3, <1>4, <1>5

LEMMA SimBody ==
  ASSUME Sim, NEW c \in Calls, Body(c)
  PROVE  UNCHANGED FS!storeVars
<1>1. /\ op' = op /\ InFlight(c)
      /\ \A d \in Calls : d # c => phase'[d] = phase[d] /\ told'[d] = told[d]
  BY OwnFrame DEF PoolStep
<1>2. /\ task[c] = "opened" /\ task'[c] = "ok" /\ stage' = stage /\ dirent' = dirent
      /\ data' = [data EXCEPT ![handle[c]] = Overlay(Pending(c), @)]
      /\ handle' = [handle EXCEPT ![c] = NoInode]
  BY <1>1, TheCall DEF Body, Finish, Sim, SeqInv, IInv, Formed, TypeOK
<1>3. /\ stage[c] \in {"write", "copy"} /\ phase[c] = "applied"
      /\ op[c].tool # "read_text_file"
      /\ Pending(c) \in Text /\ files[op[c].dst] = Pending(c)
  BY <1>2, OpenCall
<1>4. files' = files
  <2>1. files' = [files EXCEPT ![op[c].dst] = Pending(c)]
    BY <1>1, <1>2, <1>3, WrittenFiles
  <2> QED
    BY <1>3, <2>1 DEF files
<1>5. NextStage(c)' = "idle"
  BY <1>2, <1>3 DEF NextStage
<1>6. phase'[c] = "applied"
  BY <1>1, <1>2, <1>5 DEF Sim, Mapping, PhaseIs, InFlight, Effective
<1>7. told'[c] = told[c]
  BY <1>1, <1>3, <1>6 DEF told
<1> QED
  BY <1>1, <1>3, <1>4, <1>6, <1>7, Unseen

LEMMA SimWriteFails ==
  ASSUME Sim, NEW c \in Calls, WriteFails(c)
  PROVE  FS!Fail(c)
<1>1. /\ op' = op /\ InFlight(c)
      /\ \A d \in Calls : d # c => phase'[d] = phase[d] /\ told'[d] = told[d]
  BY OwnFrame DEF PoolStep
<1>2. /\ task[c] = "opened" /\ task'[c] = "failed" /\ dirent' = dirent
      /\ handle' = [handle EXCEPT ![c] = NoInode]
  BY <1>1, TheCall DEF WriteFails, Finish, Sim, SeqInv, IInv, Formed, TypeOK
<1>3. PICK k \in 0..Len(Pending(c)) :
        data' = [data EXCEPT ![handle[c]] = Overlay(SubSeq(Pending(c), 1, k), @)]
  BY DEF WriteFails
<1>4. /\ phase[c] = "applied"
      /\ op[c].tool \in {"write_file", "csv_create", "edit_file",
                         "csv_add_row", "copy_file"}
      /\ Pending(c) \in Text /\ files[op[c].dst] = Pending(c)
  BY <1>2, OpenCall
<1>5. files' = [files EXCEPT ![op[c].dst] = SubSeq(Pending(c), 1, k)]
  BY <1>1, <1>2, <1>3, <1>4, WrittenFiles, PrefixIsText
<1>6. FS!CutShort(c)
  BY <1>4, <1>5 DEF FS!CutShort
<1>7. phase'[c] = "failed"
  BY <1>1, <1>2 DEF Sim, Mapping, PhaseIs, InFlight
<1>8. told[c] = <<>> /\ told'[c] = <<>>
  BY <1>1, <1>4, <1>7 DEF told
<1>9. phase' = [phase EXCEPT ![c] = "failed"] /\ told' = [told EXCEPT ![c] = <<>>]
  BY <1>1, <1>7, <1>8, PhaseUpdate
<1>10. told' = told
  BY <1>8, <1>9 DEF told
<1> QED
  BY <1>1, <1>4, <1>6, <1>9, <1>10 DEF FS!Fail

LEMMA SimTaskFails ==
  ASSUME Sim, NEW c \in Calls, TaskFails(c)
  PROVE  FS!Fail(c)
<1>1. InFlight(c)
  BY DEF TaskFails, InFlight
<1>2. task[c] = "queued" /\ task'[c] = "failed" /\ UNCHANGED <<dirent, data, handle>>
  BY <1>1, TheCall DEF TaskFails, Finish, Sim, SeqInv, IInv, Formed, TypeOK
<1> QED
  BY <1>2, SimFails DEF PoolStep

LEMMA SimContinue ==
  ASSUME Sim, NEW c \in Calls, Continue(c)
  PROVE  UNCHANGED FS!storeVars
<1>1. /\ op' = op /\ InFlight(c)
      /\ \A d \in Calls : d # c => phase'[d] = phase[d] /\ told'[d] = told[d]
  BY OwnFrame DEF HandlerStep
<1>2. /\ task[c] = "ok" /\ NextStage(c) # "idle" /\ task'[c] = "queued"
      /\ UNCHANGED <<dirent, data, handle>>
  BY DEF Continue, Sim, SeqInv, IInv, Formed, TypeOK
<1>3. files' = files
  <2>1. AtRest /\ files = Named
    BY <1>1, <1>2, QuietFiles
  <2> QED
    BY <1>2, <2>1 DEF Sim, Mapping, AtRest, Named, Exists
<1>4. phase[c] = "pending" /\ phase'[c] = "pending"
  BY <1>1, <1>2 DEF Sim, Mapping, PhaseIs, InFlight, Effective
<1>5. told[c] = <<>> /\ told'[c] = <<>>
  BY <1>4 DEF told
<1> QED
  BY <1>1, <1>3, <1>4, <1>5, Unseen

LEMMA SimAnswer ==
  ASSUME Sim, NEW c \in Calls, Succeed(c) \/ GiveUp(c)
  PROVE  FS!Answer(c)
<1>1. /\ op' = op /\ InFlight(c) /\ op[c] # NoOp
      /\ \A d \in Calls : d # c => phase'[d] = phase[d] /\ told'[d] = told[d]
  BY OwnFrame, TheCall DEF HandlerStep, Sim
<1>2. /\ task[c] \in {"ok", "failed"} /\ UNCHANGED <<dirent, data, handle>>
      /\ task[c] = "ok" => /\ NextStage(c) = "idle" /\ reply'[c] = "ok"
                           /\ buf'[c] = IF op[c].tool = "read_text_file"
                                          THEN buf[c] ELSE <<>>
      /\ task[c] = "failed" => reply'[c] = "error"
  BY DEF Succeed, GiveUp, Leave, Sim, SeqInv, IInv, Formed, TypeOK
<1>3. files' = files
  <2>1. AtRest /\ files = Named
    BY <1>1, <1>2, QuietFiles
  <2> QED
    BY <1>2, <2>1 DEF Sim, Mapping, AtRest, Named, Exists
<1>4. CASE task[c] = "ok"
  <2>1. phase[c] = "applied" /\ phase'[c] = "ok"
    BY <1>1, <1>2, <1>4 DEF Sim, Mapping, PhaseIs, Effective
  <2>2. told'[c] = told[c]
    BY <1>1, <1>2, <1>4, <2>1 DEF told
  <2>3. /\ phase' = [phase EXCEPT ![c] = "ok"]
        /\ told' = [told EXCEPT ![c] = told[c]]
    BY <1>1, <2>1, <2>2, PhaseUpdate
  <2>4. told' = told
    BY <2>3 DEF told
  <2> QED
    BY <1>1, <1>3, <2>1, <2>3, <2>4 DEF FS!Answer
<1>5. CASE task[c] = "failed"
  <2>1. phase[c] = "failed" /\ phase'[c] = "error"
    BY <1>1, <1>2, <1>5 DEF Sim, Mapping, PhaseIs
  <2>2. told[c] = <<>> /\ told'[c] = <<>>
    BY <2>1 DEF told
  <2>3. /\ phase' = [phase EXCEPT ![c] = "error"]
        /\ told' = [told EXCEPT ![c] = <<>>]
    BY <1>1, <2>1, <2>2, PhaseUpdate
  <2>4. told' = told
    BY <2>2, <2>3 DEF told
  <2> QED
    BY <1>1, <1>3, <2>1, <2>3, <2>4 DEF FS!Answer
<1> QED
  BY <1>2, <1>4, <1>5

(* A killed server loses its call, and what an open file was to hold. *)
LEMMA SimKill ==
  ASSUME Sim, Kill
  PROVE  \E c \in Calls : FS!Lose(c)
<1>1. PICK c \in Calls : InFlight(c)
  BY DEF Kill
<1>2. /\ op[c] # NoOp /\ reply[c] = "none" /\ op[c].dst \in Paths
      /\ \A d \in Calls : d # c => ~InFlight(d)
  BY <1>1, TheCall DEF Sim, SeqInv, OneAtATime
<1>3. \A d \in Calls : d # c =>
        /\ op'[d] = op[d] /\ reply'[d] = reply[d] /\ task'[d] = task[d]
        /\ stage'[d] = stage[d] /\ buf'[d] = buf[d]
  BY <1>2 DEF Kill, InFlight, Sim, SeqInv, IInv, Formed, TypeOK
<1>4. \A d \in Calls : d # c => phase'[d] = phase[d] /\ told'[d] = told[d]
  BY <1>3, PhaseFrame
<1>5. reply'[c] = "lost" /\ op' = op /\ UNCHANGED <<dirent, data>> /\ AtRest'
  BY <1>1, <1>2 DEF Kill, AtRest
<1>6. phase[c] \in {"pending", "applied", "failed"} /\ phase'[c] = "lost"
  <2>1. phase[c] \in {"pending", "applied", "failed"}
    BY <1>1 DEF Sim, Mapping, PhaseIs
  <2>2. phase'[c] = "lost"
    BY <1>2, <1>5 DEF Sim, Mapping, PhaseIs
  <2> QED
    BY <2>1, <2>2
<1>7. told'[c] = <<>>
  BY <1>6 DEF told
<1>8. phase' = [phase EXCEPT ![c] = "lost"] /\ told' = [told EXCEPT ![c] = <<>>]
  BY <1>4, <1>6, <1>7, PhaseUpdate
<1>9. files' = Named
  <2>1. files' = Named'
    BY <1>5 DEF Sim, Mapping
  <2> QED
    BY <1>5, <2>1 DEF Named, Exists
<1>10. CASE task[c] # "opened"
  <2>1. files' = files
    BY <1>1, <1>9, <1>10, QuietFiles
  <2> QED
    BY <1>5, <1>6, <1>8, <2>1 DEF FS!Lose
<1>11. CASE task[c] = "opened"
  <2>1. /\ phase[c] = "applied" /\ Pending(c) \in Text /\ files[op[c].dst] = Pending(c)
        /\ op[c].tool \in {"write_file", "csv_create", "edit_file",
                           "csv_add_row", "copy_file"}
    BY <1>11, OpenCall
  <2>2. files = [Named EXCEPT ![op[c].dst] = Pending(c)]
    BY <1>1, <1>2, <1>11, TheCall DEF Sim, Mapping
  <2>3. Named[op[c].dst] = <<>>
    <3>1. /\ dirent[op[c].dst] = handle[c] /\ handle[c] # NoInode
          /\ data[handle[c]] = <<>>
      BY <1>1, <1>11, TheCall DEF ChecksHold, OnlyOpen, Sim
    <3> QED
      BY <1>2, <3>1 DEF Named, Exists
  <2>4. Named = [files EXCEPT ![op[c].dst] = <<>>]
    BY <2>2, <2>3 DEF Named
  <2>5. SubSeq(Pending(c), 1, 0) = <<>> /\ 0 \in 0..Len(Pending(c))
    BY <2>1, LenProperties, SubSeqProperties DEF Text
  <2>6. FS!CutShort(c)
    <3>1. files' = [files EXCEPT ![op[c].dst] = SubSeq(@, 1, 0)]
      BY <1>9, <2>1, <2>4, <2>5
    <3> QED
      BY <2>1, <2>5, <3>1 DEF FS!CutShort
  <2> QED
    BY <1>5, <1>8, <2>1, <2>6 DEF FS!Lose
<1> QED
  BY <1>10, <1>11

LEMMA SimInit == Init => FS!Init
<1> SUFFICES ASSUME Init PROVE FS!Init
  OBVIOUS
<1>1. SeqInv /\ Mapping
  BY InitSeqInv, MappingHolds
<1>2. files \in [Paths -> {SeedText, Absent}]
  <2>1. files = Named
    BY <1>1 DEF Init, Mapping, AtRest
  <2>2. \A p \in Paths : Exists(p) => data[dirent[p]] = SeedText
    BY DEF Init, Exists, Inode
  <2> QED
    BY <2>1, <2>2 DEF Named
<1>3. \A c \in Calls : phase[c] = "idle"
  BY <1>1 DEF Init, Mapping, PhaseIs
<1>4. phase = [c \in Calls |-> "idle"] /\ told = [c \in Calls |-> <<>>]
  BY <1>3 DEF phase, told, Init
<1> QED
  BY <1>2, <1>4 DEF FS!Init, Init

LEMMA SimNext ==
  ASSUME Sequential, ~Timeouts, Sim, [Next]_vars
  PROVE  [FS!Next]_FS!storeVars
<1>1. ASSUME NEW c \in Calls, NEW o \in Ops, Refuse(c, o) \/ Submit(c, o)
      PROVE  FS!Next
  BY <1>1, SimRefuse, SimSubmit, SameOperators DEF FS!Next
<1>2. ASSUME NEW c \in Calls, PoolStep(c) PROVE [FS!Next]_FS!storeVars
  BY <1>2, SimStat, SimRead, SimWriteOpen, SimCopyOpen, SimBody, SimRename,
     SimUnlink, SimTaskFails, SimWriteFails DEF FS!Next, PoolStep
<1>3. ASSUME NEW c \in Calls, HandlerStep(c) PROVE [FS!Next]_FS!storeVars
  BY <1>3, SimContinue, SimAnswer DEF FS!Next, HandlerStep
<1>4. ASSUME NEW c \in Calls, TimeOut(c) PROVE FALSE
  BY <1>4 DEF TimeOut
<1>5. CASE Kill
  BY <1>5, SimKill DEF FS!Next
<1>6. CASE UNCHANGED vars
  <2>1. files' = files /\ phase' = phase /\ told' = told
    BY <1>6
    DEF vars, files, phase, told, Writers, Pending, Exists, Effective, NextStage
  <2> QED
    BY <1>6, <2>1 DEF vars, FS!storeVars
<1> QED
  BY <1>1, <1>2, <1>3, <1>4, <1>5, <1>6 DEF Next, Rest

(* A client of the stdio loop that gets an answer to every call cannot     *)
(* tell the truncate-then-write and stat-read-write sequences of files.rs, *)
(* csv.rs and validation.rs from a store that applies each call in one     *)
(* step: for any calls, paths and texts, system calls may fail part-way    *)
(* and the server may be killed.                                           *)
THEOREM AtomicFileStore ==
  ASSUME Sequential, ~Timeouts
  PROVE  Spec => ImplementsFileStore
<1>1. SeqInv /\ [Next]_vars => SeqInv'
  BY StepSeqInv
<1>2. SeqInv /\ SeqInv' /\ [Next]_vars => [FS!Next]_FS!storeVars
  BY MappingHolds, MappingSteps, SimNext DEF Sim
<1> QED
  BY SimInit, InitSeqInv, <1>1, <1>2, PTL DEF Spec, FS!Spec, ImplementsFileStore
=============================================================================
