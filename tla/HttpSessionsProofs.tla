-------------------------- MODULE HttpSessionsProofs --------------------------
(***************************************************************************)
(* Theorems about HttpSessions, for every set of requests and sessions.    *)
(***************************************************************************)
EXTENDS HttpSessions, TLAPS

(* How the parts of one request fit together. *)
RequestShape(r) ==
  /\ stage[r] = "unsent" =>
       sid[r] = NoSession /\ status[r] = 0 /\ ~late[r] /\ shape[r] = NoShape
  /\ stage[r] = "lock" =>
       /\ sid[r] = NoSession /\ status[r] = 0 /\ shape[r].endpoint # "rpc"
       /\ Admitted(shape[r], sent[r])
  /\ shape[r].initialize => shape[r].endpoint = "post"
  /\ late[r] => NeedsSession(shape[r]) /\ sent[r] \in ended
  /\ status[r] = 204 => sent[r] \in ended
  /\ shape[r].initialize /\ sid[r] # NoSession =>
       sid[r] \in issued /\ Accepted(shape[r])

IInv ==
  /\ TypeOK
  /\ \A r \in Requests : RequestShape(r)
  /\ ended \subseteq issued
  /\ EndedStayEnded
  /\ OneOwner
  /\ DeletedOnce
  /\ LateIsRefused

LEMMA InitIInv == Init => IInv
BY SessionsAssumption
DEF Init, IInv, TypeOK, RequestShape, NoShape, Stages, Statuses, EndedStayEnded,
    OneOwner, DeletedOnce, LateIsRefused, NeedsSession

LEMMA RejectionIsStatus ==
  ASSUME NEW s PROVE Rejection(s) \in {200, 400, 401, 403, 406, 415}
BY DEF Rejection, StatusOf

LEMMA StepIInv == IInv /\ [Next]_vars => IInv'
<1> SUFFICES ASSUME IInv, [Next]_vars PROVE IInv'
  OBVIOUS
<1> USE DEF IInv
<1>1. ASSUME NEW r \in Requests, NEW s \in Shapes,
             NEW header \in Known \cup {NoSession}, Arrive(r, s, header)
      PROVE  IInv'
  <2>7. header \in Sessions \cup {NoSession}
    BY DEF Known, TypeOK
  <2>8. s \in AllShapes
    BY SessionsAssumption
  <2>1. TypeOK'
    BY <1>1, <2>7, <2>8, RejectionIsStatus DEF Arrive, TypeOK, Stages, Statuses
  <2>2. (\A q \in Requests : RequestShape(q))'
    <3>1. ASSUME NEW q \in Requests, q # r PROVE RequestShape(q)'
      BY <1>1, <3>1 DEF Arrive, TypeOK, RequestShape
    <3>2. /\ sid'[r] = NoSession /\ shape'[r] = s /\ sent'[r] = header
          /\ stage'[r] # "unsent" /\ status'[r] # 204 /\ ended' = ended
          /\ late'[r] = (NeedsSession(s) /\ header \in ended)
          /\ stage'[r] = "lock" =>
               status'[r] = 0 /\ s.endpoint # "rpc" /\ Admitted(s, header)
      BY <1>1, RejectionIsStatus DEF Arrive, TypeOK, RequestShape
    <3>3. s.initialize => s.endpoint = "post"
      BY <2>8 DEF AllShapes
    <3>4. RequestShape(r)'
      BY <3>2, <3>3 DEF RequestShape
    <3> QED
      BY <3>1, <3>4
  <2>3. (ended \subseteq issued)' /\ EndedStayEnded'
    BY <1>1 DEF Arrive, EndedStayEnded
  <2>4. OneOwner'
    <3>1. sid' = sid /\ issued' = issued /\ sid[r] = NoSession
      BY <1>1 DEF Arrive, RequestShape
    <3>2. \A q \in Requests : q # r => shape'[q] = shape[q]
      BY <1>1 DEF Arrive, TypeOK
    <3> QED
      BY <3>1, <3>2, SessionsAssumption DEF OneOwner, TypeOK
  <2>5. DeletedOnce'
    BY <1>1, RejectionIsStatus DEF Arrive, TypeOK, DeletedOnce
  <2>6. LateIsRefused'
    BY <1>1, RejectionIsStatus DEF Arrive, TypeOK, RequestShape, LateIsRefused
  <2> QED
    BY <2>1, <2>2, <2>3, <2>4, <2>5, <2>6
<1>2. ASSUME NEW r \in Requests, Insert(r) PROVE IInv'
  <2>1. TypeOK'
    BY <1>2, SessionsAssumption DEF Insert, TypeOK, Stages, Statuses
  <2>2. (\A q \in Requests : RequestShape(q))'
    BY <1>2, SessionsAssumption DEF Insert, TypeOK, RequestShape, Admitted
  <2>3. (ended \subseteq issued)' /\ EndedStayEnded'
    BY <1>2 DEF Insert, EndedStayEnded
  <2>4. OneOwner'
    <3>1. PICK s \in Sessions \ issued :
            issued' = issued \cup {s} /\ sid' = [sid EXCEPT ![r] = s]
      BY <1>2 DEF Insert
    <3>2. /\ shape' = shape /\ shape[r].initialize /\ Accepted(shape[r])
          /\ sid[r] = NoSession
      BY <1>2 DEF Insert, RequestShape, Admitted
    <3>3. \A q \in Requests : shape[q].initialize => sid[q] # s
      BY <3>1, SessionsAssumption DEF RequestShape
    <3>4. s # NoSession /\ sid'[r] = s /\ \A q \in Requests : q # r => sid'[q] = sid[q]
      BY <3>1, SessionsAssumption DEF TypeOK
    <3>5. \A t \in issued' :
            \E q \in Requests : shape'[q].initialize /\ sid'[q] = t /\ Accepted(shape'[q])
      <4>1. ASSUME NEW t \in issued
            PROVE  \E q \in Requests : shape[q].initialize /\ sid'[q] = t /\ Accepted(shape[q])
        <5>1. PICK q \in Requests : shape[q].initialize /\ sid[q] = t /\ Accepted(shape[q])
          BY DEF OneOwner
        <5>2. q # r
          BY <3>2, <5>1, SessionsAssumption DEF TypeOK
        <5> QED
          BY <3>4, <5>1, <5>2
      <4> QED
        BY <3>1, <3>2, <3>4, <4>1
    <3> QED
      BY <3>2, <3>3, <3>4, <3>5 DEF OneOwner
  <2>5. DeletedOnce'
    BY <1>2 DEF Insert, TypeOK, DeletedOnce
  <2>6. LateIsRefused'
    BY <1>2 DEF Insert, TypeOK, RequestShape, LateIsRefused, NeedsSession
  <2> QED
    BY <2>1, <2>2, <2>3, <2>4, <2>5, <2>6
<1>3. ASSUME NEW r \in Requests, Enter(r) PROVE IInv'
  <2>1. TypeOK'
    BY <1>3, SessionsAssumption DEF Enter, TypeOK, Stages, Statuses
  <2>2. (\A q \in Requests : RequestShape(q))'
    BY <1>3 DEF Enter, TypeOK, RequestShape
  <2>3. (ended \subseteq issued)' /\ EndedStayEnded'
    BY <1>3 DEF Enter, EndedStayEnded
  <2>4. OneOwner'
    BY <1>3 DEF Enter, TypeOK, OneOwner
  <2>5. DeletedOnce'
    BY <1>3 DEF Enter, TypeOK, DeletedOnce
  <2>6. LateIsRefused'
    BY <1>3 DEF Enter, TypeOK, RequestShape, LateIsRefused, EndedStayEnded
  <2> QED
    BY <2>1, <2>2, <2>3, <2>4, <2>5, <2>6
<1>4. ASSUME NEW r \in Requests, Unknown(r) PROVE IInv'
  <2>1. TypeOK'
    BY <1>4 DEF Unknown, TypeOK, Stages, Statuses
  <2>2. (\A q \in Requests : RequestShape(q))'
    BY <1>4 DEF Unknown, TypeOK, RequestShape
  <2>3. (ended \subseteq issued)' /\ EndedStayEnded'
    BY <1>4 DEF Unknown, EndedStayEnded
  <2>4. OneOwner'
    BY <1>4 DEF Unknown, TypeOK, OneOwner
  <2>5. DeletedOnce'
    BY <1>4 DEF Unknown, TypeOK, DeletedOnce
  <2>6. LateIsRefused'
    BY <1>4 DEF Unknown, TypeOK, RequestShape, LateIsRefused, EndedStayEnded
  <2> QED
    BY <2>1, <2>2, <2>3, <2>4, <2>5, <2>6
<1>5. ASSUME NEW r \in Requests, Remove(r) PROVE IInv'
  <2>1. TypeOK'
    BY <1>5 DEF Remove, TypeOK, Stages, Statuses
  <2>2. (\A q \in Requests : RequestShape(q))'
    BY <1>5 DEF Remove, TypeOK, RequestShape
  <2>3. (ended \subseteq issued)' /\ EndedStayEnded'
    BY <1>5 DEF Remove, TypeOK, EndedStayEnded
  <2>4. OneOwner'
    BY <1>5 DEF Remove, TypeOK, OneOwner
  <2>5. DeletedOnce'
    BY <1>5 DEF Remove, TypeOK, RequestShape, DeletedOnce, EndedStayEnded
  <2>6. LateIsRefused'
    BY <1>5 DEF Remove, TypeOK, RequestShape, LateIsRefused, EndedStayEnded
  <2> QED
    BY <2>1, <2>2, <2>3, <2>4, <2>5, <2>6
<1>6. ASSUME NEW r \in Requests, Respond(r) PROVE IInv'
  <2>1. TypeOK'
    BY <1>6 DEF Respond, TypeOK, Stages, Statuses
  <2>2. (\A q \in Requests : RequestShape(q))'
    BY <1>6 DEF Respond, TypeOK, RequestShape
  <2>3. (ended \subseteq issued)' /\ EndedStayEnded'
    BY <1>6 DEF Respond, EndedStayEnded
  <2>4. OneOwner'
    BY <1>6 DEF Respond, TypeOK, OneOwner
  <2>5. DeletedOnce'
    BY <1>6 DEF Respond, TypeOK, DeletedOnce
  <2>6. LateIsRefused'
    BY <1>6 DEF Respond, TypeOK, RequestShape, LateIsRefused, NeedsSession
  <2> QED
    BY <2>1, <2>2, <2>3, <2>4, <2>5, <2>6
<1>7. ASSUME NEW r \in Requests, Disconnect(r) PROVE IInv'
  <2>1. TypeOK'
    BY <1>7 DEF Disconnect, Running, TypeOK, Stages, Statuses
  <2>2. (\A q \in Requests : RequestShape(q))'
    BY <1>7 DEF Disconnect, Running, TypeOK, RequestShape
  <2>3. (ended \subseteq issued)' /\ EndedStayEnded'
    BY <1>7 DEF Disconnect, Running, EndedStayEnded
  <2>4. OneOwner'
    BY <1>7 DEF Disconnect, Running, TypeOK, OneOwner
  <2>5. DeletedOnce'
    BY <1>7 DEF Disconnect, Running, TypeOK, DeletedOnce
  <2>6. LateIsRefused'
    BY <1>7 DEF Disconnect, Running, TypeOK, RequestShape, LateIsRefused, EndedStayEnded
  <2> QED
    BY <2>1, <2>2, <2>3, <2>4, <2>5, <2>6
<1>8. CASE Restart
  <2>1. TypeOK'
    BY <1>8 DEF Restart, Running, TypeOK, Stages, Statuses
  <2>2. (\A q \in Requests : RequestShape(q))'
    BY <1>8 DEF Restart, Running, TypeOK, RequestShape
  <2>3. (ended \subseteq issued)' /\ EndedStayEnded'
    BY <1>8 DEF Restart, Running, TypeOK, EndedStayEnded
  <2>4. OneOwner'
    BY <1>8 DEF Restart, Running, TypeOK, OneOwner
  <2>5. DeletedOnce'
    BY <1>8 DEF Restart, Running, TypeOK, RequestShape, DeletedOnce, EndedStayEnded
  <2>6. LateIsRefused'
    BY <1>8 DEF Restart, Running, TypeOK, RequestShape, LateIsRefused, EndedStayEnded
  <2> QED
    BY <2>1, <2>2, <2>3, <2>4, <2>5, <2>6
<1>9. CASE UNCHANGED vars
  BY <1>9 DEF vars, TypeOK, RequestShape, EndedStayEnded, OneOwner, DeletedOnce,
              LateIsRefused
<1> QED
  BY <1>1, <1>2, <1>3, <1>4, <1>5, <1>6, <1>7, <1>8, <1>9 DEF Next, HandlerStep, Rest

(* Every variable keeps its type; a handler past validate_session has the  *)
(* session it answers for.                                                 *)
THEOREM SessionsTyped == Spec => []TypeOK
<1>1. IInv => TypeOK
  BY DEF IInv
<1> QED
  BY InitIInv, StepIInv, <1>1, PTL DEF Spec

(* The session set is exactly what was drawn and has not ended, whatever   *)
(* handlers are dropped, restarted, or answer late.                        *)
THEOREM EndedSessionsStayEnded == Spec => []EndedStayEnded
<1>1. IInv => EndedStayEnded
  BY DEF IInv
<1> QED
  BY InitIInv, StepIInv, <1>1, PTL DEF Spec

(* Every session belongs to the one initialize request that drew it.       *)
THEOREM SessionsHaveOneOwner == Spec => []OneOwner
<1>1. IInv => OneOwner
  BY DEF IInv
<1> QED
  BY InitIInv, StepIInv, <1>1, PTL DEF Spec

(* Of the DELETEs of a session at most one is answered 204, across restarts.  *)
THEOREM SessionsDeletedOnce == Spec => []DeletedOnce
<1>1. IInv => DeletedOnce
  BY DEF IInv
<1> QED
  BY InitIInv, StepIInv, <1>1, PTL DEF Spec

(* A request that names a session that had ended when it arrived is never  *)
(* served.                                                                 *)
THEOREM EndedSessionsAreRefused == Spec => []LateIsRefused
<1>1. IInv => LateIsRefused
  BY DEF IInv
<1> QED
  BY InitIInv, StepIInv, <1>1, PTL DEF Spec
=============================================================================
