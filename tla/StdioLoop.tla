------------------------------ MODULE StdioLoop ------------------------------
(***************************************************************************)
(* The stdio transport of src/src/server.rs: run_stdio takes a line at a   *)
(* time from standard input (read_line_capped), has it processed and       *)
(* writes one response line, or none for a notification.                   *)
(*                                                                         *)
(* The client writes when it likes and bytes reach the server in pieces    *)
(* that have nothing to do with lines: BufReader hands out what one read   *)
(* of the pipe brought.                                                    *)
(***************************************************************************)
EXTENDS Naturals, Sequences, FiniteSetsExt, Functions

CONSTANTS
  Inputs,    \* what a client may write before it closes the pipe
  MaxLine,   \* ServerConfig::max_request_bytes
  Capacity   \* of the BufReader

(* Bytes: the newline, and the bytes of requests and of notifications. *)
NL    == "nl"
Bytes == {NL, "r", "n"}

ASSUME StdioAssumption ==
  /\ Inputs \subseteq Seq(Bytes)
  /\ MaxLine \in Nat \ {0}
  /\ Capacity \in Nat \ {0}

VARIABLES
  input,     \* what the client writes
  written,   \* how much of it is in the pipe, or was
  closed,    \* the client has closed the pipe
  filled,    \* how much of it has been read into the BufReader
  consumed,  \* how much of that read_line_capped has consumed
  buffer,    \* read_buffer: the line so far
  stage,     \* what run_stdio is doing
  lines,     \* lines taken so far
  output     \* the responses written

vars == <<input, written, closed, filled, consumed, buffer, stage, lines, output>>

Stages == {"reading", "line", "too_long", "eof", "refused", "broken"}
Ended  == {"eof", "refused", "broken"}

(* How a line is answered: parse_request, then process_request, which      *)
(* always returns (ToolCalls).  A response has the id of its line.         *)
Verdict(line) ==
  LET text == {line[i] : i \in DOMAIN line} \ {NL} IN
  CASE text = {"r"} -> "response"
    [] text = {"n"} -> "none"
    [] OTHER        -> "parse_error"

Init ==
  /\ input \in Inputs
  /\ written = 0 /\ closed = FALSE
  /\ filled = 0 /\ consumed = 0
  /\ buffer = <<>>
  /\ stage = "reading"
  /\ lines = 0
  /\ output = <<>>

-----------------------------------------------------------------------------
(* The client. *)
ClientWrites ==
  /\ written < Len(input)
  /\ written' = written + 1
  /\ UNCHANGED <<input, closed, filled, consumed, buffer, stage, lines, output>>

ClientCloses ==
  /\ ~closed /\ written = Len(input)
  /\ closed' = TRUE
  /\ UNCHANGED <<input, written, filled, consumed, buffer, stage, lines, output>>

-----------------------------------------------------------------------------
(* read_line_capped: one turn of its loop per step.                        *)

(* fill_buf reads the pipe when the BufReader is empty. *)
Fill ==
  /\ stage = "reading" /\ consumed = filled /\ filled < written
  /\ \E n \in 1..Capacity : filled + n <= written /\ filled' = filled + n
  /\ UNCHANGED <<input, written, closed, consumed, buffer, stage, lines, output>>

Available == SubSeq(input, consumed + 1, filled)
Newlines  == {i \in DOMAIN Available : Available[i] = NL}

(* Mutant: the cap is checked before the piece is added. *)
TakeUncapped(n, next) ==
  /\ consumed' = consumed + n
  /\ IF Len(buffer) > MaxLine
       THEN stage' = "too_long" /\ UNCHANGED buffer
       ELSE stage' = next /\ buffer' = buffer \o SubSeq(Available, 1, n)
  /\ UNCHANGED <<input, written, closed, filled, lines, output>>

(* Take the first n available bytes and go on to the next stage, unless    *)
(* the line gets too long.                                                 *)
Take(n, next) ==
  /\ consumed' = consumed + n
  /\ IF Len(buffer) + n > MaxLine
       THEN stage' = "too_long" /\ UNCHANGED buffer
       ELSE stage' = next /\ buffer' = buffer \o SubSeq(Available, 1, n)
  /\ UNCHANGED <<input, written, closed, filled, lines, output>>

(* Mutant: the whole piece is consumed with its first line. *)
TakeLineAndRest ==
  /\ stage = "reading" /\ Newlines # {}
  /\ consumed' = filled
  /\ IF Len(buffer) + Min(Newlines) > MaxLine
       THEN stage' = "too_long" /\ UNCHANGED buffer
       ELSE /\ stage' = "line"
            /\ buffer' = buffer \o SubSeq(Available, 1, Min(Newlines))
  /\ UNCHANGED <<input, written, closed, filled, lines, output>>

(* Mutant: a line is taken when the next one has begun. *)
TakeLineLate ==
  /\ stage = "reading"
  /\ Newlines # {} /\ (Min(Newlines) < Len(Available) \/ closed)
  /\ Take(Min(Newlines), "line")

TakeLine ==
  /\ stage = "reading" /\ Newlines # {}
  /\ Take(Min(Newlines), "line")

TakePart ==
  /\ stage = "reading" /\ consumed < filled /\ Newlines = {}
  /\ Take(Len(Available), "reading")

(* Mutant: the end of file drops what is left. *)
TakeEndOnly ==
  /\ stage = "reading" /\ closed /\ consumed = written
  /\ stage' = "eof"
  /\ UNCHANGED <<input, written, closed, filled, consumed, buffer, lines, output>>

(* Mutant: an empty read is tried again. *)
TakeEndRetries ==
  /\ stage = "reading" /\ closed /\ consumed = written
  /\ buffer # <<>>
  /\ stage' = "line"
  /\ UNCHANGED <<input, written, closed, filled, consumed, buffer, lines, output>>

(* End of file: what is left is a line, too. *)
TakeEnd ==
  /\ stage = "reading" /\ closed /\ consumed = written
  /\ stage' = IF buffer = <<>> THEN "eof" ELSE "line"
  /\ UNCHANGED <<input, written, closed, filled, consumed, buffer, lines, output>>

(* The read fails: run_stdio logs it and ends. *)
ReadFails ==
  /\ stage = "reading" /\ consumed = filled
  /\ stage' = "broken"
  /\ UNCHANGED <<input, written, closed, filled, consumed, buffer, lines, output>>

-----------------------------------------------------------------------------
Reply(what) == output' = Append(output, [line |-> lines + 1, what |-> what])

(* process_one_line; the next read_line_capped clears the buffer. *)
Answer ==
  /\ stage = "line"
  /\ IF Verdict(buffer) = "none" THEN UNCHANGED output ELSE Reply(Verdict(buffer))
  /\ lines' = lines + 1
  /\ buffer' = <<>>
  /\ stage' = "reading"
  /\ UNCHANGED <<input, written, closed, filled, consumed>>

(* write_oversize_error, after which run_stdio ends. *)
Refuse ==
  /\ stage = "too_long"
  /\ Reply("too_long")
  /\ lines' = lines + 1
  /\ stage' = "refused"
  /\ UNCHANGED <<input, written, closed, filled, consumed, buffer>>

(* The response cannot be written: run_stdio returns the error. *)
WriteFails ==
  /\ \/ stage = "line" /\ Verdict(buffer) # "none"
     \/ stage = "too_long"
  /\ stage' = "broken"
  /\ UNCHANGED <<input, written, closed, filled, consumed, buffer, lines, output>>

Rest == stage \in Ended /\ closed /\ UNCHANGED vars

ServerStep == Fill \/ TakeLine \/ TakePart \/ TakeEnd \/ Answer \/ Refuse

Next == ClientWrites \/ ClientCloses \/ ServerStep \/ ReadFails \/ WriteFails \/ Rest

Spec == Init /\ [][Next]_vars

(* The runtime resumes run_stdio when the pipe has data or is closed. *)
FairSpec == Spec /\ WF_vars(ServerStep)

-----------------------------------------------------------------------------
(***************************************************************************)
(* What the client expects, from the text alone.                           *)
(***************************************************************************)

(* Where lines end: at newlines, and at the end of the text. *)
Ends(text) == {i \in 1..Len(text) : text[i] = NL \/ i = Len(text)}

EndsBefore(text, end) == {i \in Ends(text) : i < end}

(* The line that ends there, and which one of the text it is. *)
LineTo(text, end) == SubSeq(text, Max({0} \cup EndsBefore(text, end)) + 1, end)
Number(text, end) == Cardinality(EndsBefore(text, end)) + 1

TooLong(text, end) == Len(LineTo(text, end)) > MaxLine

Response(text, end) ==
  [line |-> Number(text, end),
   what |-> IF TooLong(text, end) THEN "too_long" ELSE Verdict(LineTo(text, end))]

(* The responses to the lines that end there: to those of a notification   *)
(* there is none, nor to those behind a line that is too long.             *)
Responses(text, ends) ==
  {Response(text, end) : end \in
     {e \in ends : /\ Response(text, e).what # "none"
                   /\ \A before \in EndsBefore(text, e) : ~TooLong(text, before)}}

-----------------------------------------------------------------------------
(***************************************************************************)
(* Properties.                                                             *)
(***************************************************************************)

(* Each variable keeps its type, and the line being collected never grows  *)
(* past max_request_bytes, however the bytes arrive.                       *)
TypeOK ==
  /\ input \in Inputs
  /\ written \in 0..Len(input) /\ filled \in 0..written /\ consumed \in 0..filled
  /\ closed \in BOOLEAN
  /\ stage \in Stages
  /\ lines \in Nat
  /\ buffer \in Seq(Bytes) /\ Len(buffer) <= MaxLine

(* Responses come in the order of the requests, none left out, and depend *)
(* on the text alone, never on how the pipe cut it into pieces (pipelined  *)
(* lines in one piece, a line in several).                                 *)
InOrder ==
  /\ \A i, j \in 1..Len(output) : i < j => output[i].line < output[j].line
  /\ Range(output) \subseteq Responses(input, Ends(input))
  /\ \A due \in Responses(input, Ends(input)) \ Range(output), sent \in Range(output) :
       sent.line < due.line

(* When the loop ends by itself every line has had its response, the last  *)
(* one also when it has no newline.                                        *)
AllAnswered ==
  stage \in {"eof", "refused"} => Range(output) = Responses(input, Ends(input))

(* A client that waits for a response before it writes on is not kept      *)
(* waiting: when the server has nothing left to do, the lines written so   *)
(* far are answered.                                                       *)
NotHeldBack ==
  LET sent == SubSeq(input, 1, written)
  IN  stage \notin Ended /\ ~closed /\ ~ENABLED ServerStep =>
        Range(output) = Responses(sent, {i \in 1..written : sent[i] = NL})

(* The server stops after its client has closed the pipe. *)
Stops == closed ~> stage \in Ended
=============================================================================
