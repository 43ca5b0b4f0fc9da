----------------------------- MODULE HttpSessions -----------------------------
(***************************************************************************)
(* The HTTP endpoints of src/src/http.rs and the session set they share.   *)
(*                                                                         *)
(* A handler runs from one `.await` to the next: the checks of the request *)
(* head and body, the session lock, process_request_http (which ToolCalls  *)
(* models in detail and which always returns: server.rs wraps it in a      *)
(* timeout), the response.  hyper drops the handler of a client that goes  *)
(* away.  Sessions live in memory and nothing expires them.                *)
(***************************************************************************)
EXTENDS Naturals, Sequences

CONSTANTS
  Requests,   \* HTTP requests; each is sent once
  Sessions,   \* the UUIDs the server may draw
  NoSession,  \* no MCP-Session-Id header, no session
  Shapes      \* the kinds of request the run sends

Endpoints == {"post", "get", "delete", "rpc"}
Faults    == {"media", "origin", "token", "version", "accept", "body"}

AllShapes ==
  {s \in [endpoint : Endpoints, initialize : BOOLEAN, notification : BOOLEAN,
          faults : SUBSET Faults] :
     s.endpoint # "post" => ~s.initialize /\ ~s.notification}

ASSUME SessionsAssumption ==
  /\ NoSession \notin Sessions
  /\ Shapes \subseteq AllShapes

VARIABLES
  sessions,  \* HttpState::sessions
  issued,    \* history: the UUIDs drawn so far, in any run of the server
  ended,     \* history: sessions that were deleted or died with the process
  shape,     \* what the request asks for
  sent,      \* its MCP-Session-Id header
  stage,     \* the `.await` its handler is at
  sid,       \* the session the handler acts for, and names in its response
  status,    \* the status of the response
  late       \* history: the request named a session that had ended before

vars == <<sessions, issued, ended, shape, sent, stage, sid, status, late>>

NoShape  == [endpoint |-> "none", initialize |-> FALSE, notification |-> FALSE,
             faults |-> {}]
Stages   == {"unsent", "lock", "serving", "stream", "done"}
Statuses == {0, 200, 202, 204, 400, 401, 403, 404, 406, 415}

-----------------------------------------------------------------------------
(***************************************************************************)
(* The checks before the first `.await`, in the order of the handlers.     *)
(***************************************************************************)
Checks(endpoint) ==
  CASE endpoint = "post"   -> <<"media", "origin", "token", "version", "accept", "body">>
    [] endpoint = "get"    -> <<"origin", "token", "version", "accept">>
    [] endpoint = "delete" -> <<"origin", "token">>
    [] endpoint = "rpc"    -> <<"media", "origin", "token", "body">>

Failing(s) == {i \in DOMAIN Checks(s.endpoint) : Checks(s.endpoint)[i] \in s.faults}

Accepted(s) == Failing(s) = {}

NeedsSession(s) == s.endpoint # "rpc" /\ ~s.initialize

(* The handler goes on to its first `.await`. *)
Admitted(s, header) == Accepted(s) /\ (NeedsSession(s) => header # NoSession)

(* A body that does not parse is answered by a JSON-RPC error. *)
StatusOf(fault) ==
  CASE fault = "media"   -> 415
    [] fault = "origin"  -> 403
    [] fault = "token"   -> 401
    [] fault = "version" -> 400
    [] fault = "accept"  -> 406
    [] OTHER             -> 200

(* The response to a request that is not admitted: the first check that    *)
(* fails decides.                                                          *)
Rejection(s) ==
  IF Accepted(s) THEN 400
  ELSE StatusOf(Checks(s.endpoint)[CHOOSE i \in Failing(s) :
                                     \A j \in Failing(s) : i <= j])

-----------------------------------------------------------------------------
Init ==
  /\ sessions = {} /\ issued = {} /\ ended = {}
  /\ shape = [r \in Requests |-> NoShape]
  /\ sent = [r \in Requests |-> NoSession]
  /\ stage = [r \in Requests |-> "unsent"]
  /\ sid = [r \in Requests |-> NoSession]
  /\ status = [r \in Requests |-> 0]
  /\ late = [r \in Requests |-> FALSE]

(* Clients know the sessions that responses have named. *)
Known == {sid[r] : r \in {q \in Requests : status[q] \in {200, 202}}} \ {NoSession}

Arrive(r, s, header) ==
  /\ stage[r] = "unsent"
  /\ shape' = [shape EXCEPT ![r] = s]
  /\ sent' = [sent EXCEPT ![r] = header]
  /\ status' = [status EXCEPT ![r] = IF Admitted(s, header) THEN 0 ELSE Rejection(s)]
  /\ stage' = [stage EXCEPT ![r] = IF ~Admitted(s, header) THEN "done"
                                   ELSE IF s.endpoint = "rpc" THEN "serving"
                                   ELSE "lock"]
  /\ late' = [late EXCEPT ![r] = NeedsSession(s) /\ header \in ended]
  /\ UNCHANGED <<sessions, issued, ended, sid>>

(* Mutant: initialize resumes the session the client names. *)
InsertResumes(r) ==
  /\ stage[r] = "lock" /\ shape[r].initialize
  /\ \E s \in IF sent[r] # NoSession THEN {sent[r]} ELSE Sessions \ issued :
       /\ sessions' = sessions \cup {s}
       /\ issued' = issued \cup {s}
       /\ sid' = [sid EXCEPT ![r] = s]
  /\ stage' = [stage EXCEPT ![r] = "serving"]
  /\ UNCHANGED <<ended, shape, sent, status, late>>

(* initialize draws a session; the header is not looked at. *)
Insert(r) ==
  /\ stage[r] = "lock" /\ shape[r].initialize
  /\ \E s \in Sessions \ issued :
       /\ sessions' = sessions \cup {s}
       /\ issued' = issued \cup {s}
       /\ sid' = [sid EXCEPT ![r] = s]
  /\ stage' = [stage EXCEPT ![r] = "serving"]
  /\ UNCHANGED <<ended, shape, sent, status, late>>

(* Mutant: validate_session answers with an empty session. *)
EnterUnnamed(r) ==
  /\ stage[r] = "lock" /\ ~shape[r].initialize /\ shape[r].endpoint # "delete"
  /\ sent[r] \in sessions
  /\ stage' = [stage EXCEPT ![r] = IF shape[r].endpoint = "get" THEN "stream"
                                                                ELSE "serving"]
  /\ status' = [status EXCEPT ![r] = IF shape[r].endpoint = "get" THEN 200 ELSE 0]
  /\ UNCHANGED <<sessions, issued, ended, shape, sent, sid, late>>

(* Mutant: validate_session accepts every id the server has drawn. *)
EnterEver(r) ==
  /\ stage[r] = "lock" /\ ~shape[r].initialize /\ shape[r].endpoint # "delete"
  /\ sent[r] \in issued
  /\ sid' = [sid EXCEPT ![r] = sent[r]]
  /\ stage' = [stage EXCEPT ![r] = IF shape[r].endpoint = "get" THEN "stream"
                                                                ELSE "serving"]
  /\ status' = [status EXCEPT ![r] = IF shape[r].endpoint = "get" THEN 200 ELSE 0]
  /\ UNCHANGED <<sessions, issued, ended, shape, sent, late>>

(* validate_session lets the request in; a GET is answered by a stream     *)
(* that stays open.                                                        *)
Enter(r) ==
  /\ stage[r] = "lock" /\ ~shape[r].initialize /\ shape[r].endpoint # "delete"
  /\ sent[r] \in sessions
  /\ sid' = [sid EXCEPT ![r] = sent[r]]
  /\ IF shape[r].endpoint = "get"
       THEN /\ stage' = [stage EXCEPT ![r] = "stream"]
            /\ status' = [status EXCEPT ![r] = 200]
       ELSE /\ stage' = [stage EXCEPT ![r] = "serving"]
            /\ UNCHANGED status
  /\ UNCHANGED <<sessions, issued, ended, shape, sent, late>>

(* Mutant: a GET waits for its session to appear. *)
UnknownWaits(r) ==
  /\ stage[r] = "lock" /\ ~shape[r].initialize /\ shape[r].endpoint # "get"
  /\ sent[r] \notin sessions
  /\ stage' = [stage EXCEPT ![r] = "done"]
  /\ status' = [status EXCEPT ![r] = 404]
  /\ UNCHANGED <<sessions, issued, ended, shape, sent, sid, late>>

(* validate_session, or the DELETE, does not find the session. *)
Unknown(r) ==
  /\ stage[r] = "lock" /\ ~shape[r].initialize
  /\ sent[r] \notin sessions
  /\ stage' = [stage EXCEPT ![r] = "done"]
  /\ status' = [status EXCEPT ![r] = 404]
  /\ UNCHANGED <<sessions, issued, ended, shape, sent, sid, late>>

(* Mutant: the DELETE looks the session up before it takes the write lock. *)
RemoveUnchecked(r) ==
  /\ stage[r] = "lock" /\ shape[r].endpoint = "delete"
  /\ sent[r] \in issued
  /\ sessions' = sessions \ {sent[r]}
  /\ ended' = ended \cup {sent[r]}
  /\ stage' = [stage EXCEPT ![r] = "done"]
  /\ status' = [status EXCEPT ![r] = 204]
  /\ UNCHANGED <<issued, shape, sent, sid, late>>

Remove(r) ==
  /\ stage[r] = "lock" /\ shape[r].endpoint = "delete"
  /\ sent[r] \in sessions
  /\ sessions' = sessions \ {sent[r]}
  /\ ended' = ended \cup {sent[r]}
  /\ stage' = [stage EXCEPT ![r] = "done"]
  /\ status' = [status EXCEPT ![r] = 204]
  /\ UNCHANGED <<issued, shape, sent, sid, late>>

(* Mutant: every answer renews the session of its request. *)
RespondRenews(r) ==
  /\ stage[r] = "serving"
  /\ sessions' = sessions \cup ({sid[r]} \ {NoSession})
  /\ stage' = [stage EXCEPT ![r] = "done"]
  /\ status' = [status EXCEPT ![r] = IF shape[r].notification THEN 202 ELSE 200]
  /\ UNCHANGED <<issued, ended, shape, sent, sid, late>>

(* process_request_http has returned: its result, its error or its timeout *)
(* goes out with the session header.                                       *)
Respond(r) ==
  /\ stage[r] = "serving"
  /\ stage' = [stage EXCEPT ![r] = "done"]
  /\ status' = [status EXCEPT ![r] = IF shape[r].notification THEN 202 ELSE 200]
  /\ UNCHANGED <<sessions, issued, ended, shape, sent, sid, late>>

Running(r) == stage[r] \in {"lock", "serving", "stream"}

(* The client closes the connection: the handler or the stream is dropped. *)
Disconnect(r) ==
  /\ Running(r)
  /\ stage' = [stage EXCEPT ![r] = "done"]
  /\ UNCHANGED <<sessions, issued, ended, shape, sent, sid, status, late>>

(* The server stops and a new one takes its place. *)
Restart ==
  /\ sessions # {} \/ \E r \in Requests : Running(r)
  /\ sessions' = {}
  /\ ended' = ended \cup sessions
  /\ stage' = [r \in Requests |-> IF Running(r) THEN "done" ELSE stage[r]]
  /\ UNCHANGED <<issued, shape, sent, sid, status, late>>

Rest == (\A r \in Requests : stage[r] \in {"stream", "done"}) /\ UNCHANGED vars

HandlerStep(r) == Insert(r) \/ Enter(r) \/ Unknown(r) \/ Remove(r) \/ Respond(r)

Next ==
  \/ \E r \in Requests :
       \/ \E s \in Shapes, header \in Known \cup {NoSession} : Arrive(r, s, header)
       \/ HandlerStep(r)
       \/ Disconnect(r)
  \/ Restart
  \/ Rest

Spec == Init /\ [][Next]_vars

(* tokio polls a handler that is ready, its RwLock is fair and held by no  *)
(* handler across an `.await`, and process_request_http returns.           *)
FairSpec == Spec /\ \A r \in Requests : WF_vars(HandlerStep(r))

-----------------------------------------------------------------------------
(***************************************************************************)
(* Properties.                                                             *)
(***************************************************************************)

(* Each variable keeps its type, and a handler past validate_session has   *)
(* the session it names in its response.                                   *)
TypeOK ==
  /\ sessions \subseteq Sessions
  /\ issued \subseteq Sessions
  /\ ended \subseteq Sessions
  /\ shape \in [Requests -> Shapes \cup {NoShape}]
  /\ sent \in [Requests -> Sessions \cup {NoSession}]
  /\ stage \in [Requests -> Stages]
  /\ sid \in [Requests -> Sessions \cup {NoSession}]
  /\ status \in [Requests -> Statuses]
  /\ late \in [Requests -> BOOLEAN]
  /\ \A r \in Requests :
       stage[r] \in {"serving", "stream"} /\ shape[r].endpoint # "rpc"
         => sid[r] # NoSession

(* The set holds exactly the sessions that were drawn and not ended: a     *)
(* handler that validated a session before a DELETE, and answers after it, *)
(* does not bring it back, and a dropped handler takes none with it.       *)
EndedStayEnded == sessions = issued \ ended

(* Two clients never share a session: each belongs to the one initialize   *)
(* request that drew it, and that request had passed every check.          *)
OneOwner ==
  /\ \A s \in issued :
       \E r \in Requests : shape[r].initialize /\ sid[r] = s /\ Accepted(shape[r])
  /\ \A q, r \in Requests :
       shape[q].initialize /\ shape[r].initialize /\ sid[q] = sid[r]
         => q = r \/ sid[q] = NoSession

(* Of the DELETEs that race for a session one is told 204, the others 404. *)
DeletedOnce ==
  \A q, r \in Requests :
    status[q] = 204 /\ status[r] = 204 /\ sent[q] = sent[r] => q = r

(* Once a client has seen a session end, no request that names it is       *)
(* served, whatever handlers of that session are still at work.            *)
LateIsRefused ==
  \A r \in Requests : late[r] => sid[r] = NoSession /\ status[r] \notin {202, 204}

(* Every request is answered, or its connection is gone; a GET is answered *)
(* by its stream.                                                          *)
Answered ==
  \A r \in Requests : stage[r] # "unsent" ~> stage[r] \in {"stream", "done"}
=============================================================================
