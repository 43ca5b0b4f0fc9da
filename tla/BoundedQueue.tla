----------------------------- MODULE BoundedQueue -----------------------------
(***************************************************************************)
(* A queue that keeps the last `room` of the items put into it: what       *)
(* RingBuffer (src/src/structures.rs) promises.                            *)
(***************************************************************************)
EXTENDS Naturals, Sequences

CONSTANTS
  Items,  \* what the queue holds
  Rooms,  \* how many it may have room for
  NoItem  \* nothing

VARIABLES
  room,   \* how many it has room for
  queue,  \* the items, oldest first
  taken   \* what the last Pop returned

queueVars == <<room, queue, taken>>

Init == room \in Rooms /\ queue = <<>> /\ taken = NoItem

(* A queue without room takes nothing. *)
Push(x) ==
  /\ room > 0
  /\ queue' = Append(IF Len(queue) = room THEN Tail(queue) ELSE queue, x)
  /\ UNCHANGED <<room, taken>>

Pop ==
  /\ queue # <<>>
  /\ queue' = Tail(queue) /\ taken' = Head(queue)
  /\ UNCHANGED room

PopNothing ==
  /\ queue = <<>>
  /\ taken' = NoItem
  /\ UNCHANGED <<room, queue>>

Next == (\E x \in Items : Push(x)) \/ Pop \/ PopNothing

Spec == Init /\ [][Next]_queueVars
=============================================================================
