------------------------------- MODULE TailRead -------------------------------
(***************************************************************************)
(* read_text_file with `tail` (src/src/actions/files.rs): the closure that *)
(* streams a file through a RingBuffer of `tail` lines and answers with    *)
(* what is left in it.                                                     *)
(***************************************************************************)
EXTENDS LineRing

CONSTANT Files  \* the files, as sequences of lines

ASSUME FilesAssumption == Files \subseteq Seq(Items)

VARIABLES
  file,   \* the lines BufReader::lines yields
  total,  \* total_lines
  lines,  \* the lines of the answer
  stage   \* what the closure is doing, or how it has ended

vars == <<ringVars, file, total, lines, stage>>

Stages == {"reading", "draining", "done", "failed", "aborted"}

Init ==
  /\ RingInit
  /\ file \in Files
  /\ total = 0 /\ lines = <<>>
  /\ stage = "reading"

(* Mutant: the first line is skipped. *)
ReadLineSkips ==
  /\ stage = "reading" /\ total < Len(file)
  /\ IF total = 0 THEN capacity > 0 /\ UNCHANGED ringVars ELSE Push(file[total + 1])
  /\ total' = total + 1
  /\ UNCHANGED <<file, lines, stage>>

ReadLine ==
  /\ stage = "reading" /\ total < Len(file)
  /\ Push(file[total + 1])
  /\ total' = total + 1
  /\ UNCHANGED <<file, lines, stage>>

(* `?` on the line. *)
ReadFails ==
  /\ stage = "reading" /\ total < Len(file)
  /\ total' = total + 1
  /\ stage' = "failed"
  /\ UNCHANGED <<ringVars, file, lines>>

(* A push on a ring without slots panics, which ends the process: the      *)
(* release profile of Cargo.toml has panic = "abort".                      *)
Abort ==
  /\ stage = "reading" /\ total < Len(file) /\ capacity = 0
  /\ total' = total + 1
  /\ stage' = "aborted"
  /\ UNCHANGED <<ringVars, file, lines>>

EndOfFile ==
  /\ stage = "reading" /\ total = Len(file)
  /\ stage' = "draining"
  /\ UNCHANGED <<ringVars, file, total, lines>>

(* into_vec *)
Drain ==
  /\ stage = "draining"
  /\ \/ Pop /\ lines' = Append(lines, taken') /\ UNCHANGED stage
     \/ PopNothing /\ stage' = "done" /\ UNCHANGED lines
  /\ UNCHANGED <<file, total>>

Rest == stage \in {"done", "failed", "aborted"} /\ UNCHANGED vars

Next == ReadLine \/ ReadFails \/ Abort \/ EndOfFile \/ Drain \/ Rest

Spec == Init /\ [][Next]_vars

-----------------------------------------------------------------------------
(***************************************************************************)
(* Properties.                                                             *)
(***************************************************************************)

(* The last n elements of a sequence, or all of them. *)
LastOf(s, n) == SubSeq(s, IF Len(s) > n THEN Len(s) - n + 1 ELSE 1, Len(s))

(* The closure answers with the last `tail` lines of the file, in order,   *)
(* and the number of all its lines.                                        *)
AnswersTail ==
  stage = "done" => lines = LastOf(file, capacity) /\ total = Len(file)

(* "Read only the last N lines from the end of the file."                  *)
(* (tools.json:10): whatever N is, the read ends with an answer or an      *)
(* error.                                                                  *)
TailIsServed == stage # "aborted"
=============================================================================
