------------------------------- MODULE LineRing -------------------------------
(***************************************************************************)
(* RingBuffer of src/src/structures.rs: a circular buffer of `capacity`    *)
(* slots in which a push on a full buffer overwrites the oldest item.      *)
(***************************************************************************)
EXTENDS Naturals, Sequences

CONSTANTS
  Items,       \* what the buffer holds
  Capacities,  \* the capacities RingBuffer::new is called with
  NoItem       \* None

ASSUME RingAssumption == Capacities \subseteq Nat /\ NoItem \notin Items

VARIABLES
  capacity, buffer, head, size,  \* the fields of RingBuffer
  taken                          \* what the last pop returned

ringVars == <<capacity, buffer, head, size, taken>>

(* RingBuffer::new *)
RingInit ==
  /\ capacity \in Capacities
  /\ buffer = [i \in 0..(capacity - 1) |-> NoItem]
  /\ head = 0 /\ size = 0
  /\ taken = NoItem

(* The slot of the i-th item, oldest first, counted from 0. *)
Slot(i) == (head + i) % capacity

(* Mutant: a full buffer overwrites the newest item. *)
PushKeepsHead(x) ==
  /\ capacity > 0
  /\ IF size = capacity
       THEN buffer' = [buffer EXCEPT ![head] = x] /\ UNCHANGED <<head, size>>
       ELSE /\ buffer' = [buffer EXCEPT ![Slot(size)] = x]
            /\ size' = size + 1
            /\ UNCHANGED head
  /\ UNCHANGED <<capacity, taken>>

(* Without a slot, the index is out of bounds and the push panics. *)
Push(x) ==
  /\ capacity > 0
  /\ IF size = capacity
       THEN /\ buffer' = [buffer EXCEPT ![head] = x]
            /\ head' = (head + 1) % capacity
            /\ UNCHANGED size
       ELSE /\ buffer' = [buffer EXCEPT ![Slot(size)] = x]
            /\ size' = size + 1
            /\ UNCHANGED head
  /\ UNCHANGED <<capacity, taken>>

(* Mutant: the slot is read, not taken. *)
PopCopies ==
  /\ size > 0
  /\ taken' = buffer[head]
  /\ head' = (head + 1) % capacity
  /\ size' = size - 1
  /\ UNCHANGED <<capacity, buffer>>

Pop ==
  /\ size > 0
  /\ taken' = buffer[head]
  /\ buffer' = [buffer EXCEPT ![head] = NoItem]
  /\ head' = (head + 1) % capacity
  /\ size' = size - 1
  /\ UNCHANGED capacity

PopNothing ==
  /\ size = 0
  /\ taken' = NoItem
  /\ UNCHANGED <<capacity, buffer, head, size>>

(* to_vec, into_vec and the iterator. *)
Held == [i \in 1..size |-> buffer[Slot(i - 1)]]

RingNext == (\E x \in Items : Push(x)) \/ Pop \/ PopNothing

RingSpec == RingInit /\ [][RingNext]_ringVars

-----------------------------------------------------------------------------
(***************************************************************************)
(* Properties.                                                             *)
(***************************************************************************)

(* The slots with an item are exactly the `size` ones from `head` on,      *)
(* around the end of the buffer: to_vec, which skips an empty slot, never  *)
(* does, and pop empties what it takes.                                    *)
RingOK ==
  /\ capacity \in Capacities
  /\ buffer \in [0..(capacity - 1) -> Items \cup {NoItem}]
  /\ size \in 0..capacity
  /\ head \in 0..(IF capacity = 0 THEN 0 ELSE capacity - 1)
  /\ taken \in Items \cup {NoItem}
  /\ \A i \in 0..(capacity - 1) : buffer[Slot(i)] \in Items <=> i < size

Queue == INSTANCE BoundedQueue WITH room <- capacity, queue <- Held,
                                    Rooms <- Capacities

(* Push and pop, in any order and around the end of the buffer any number  *)
(* of times, keep the last `capacity` items in the order they came.        *)
ImplementsQueue == Queue!Spec
=============================================================================
