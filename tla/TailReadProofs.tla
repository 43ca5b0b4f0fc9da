---------------------------- MODULE TailReadProofs ----------------------------
(***************************************************************************)
(* Proofs about LineRing, for every set of items and every capacity, and   *)
(* about TailRead, for every file and every `tail`.                        *)
(***************************************************************************)
EXTENDS TailRead, SequenceTheorems, TLAPS


-----------------------------------------------------------------------------
(* How far slot j is from the head. *)
Offset(j) == IF j >= head THEN j - head ELSE j - head + capacity

(* RingOK with the slots numbered from 0 instead of from the head. *)
RingInv ==
  /\ capacity \in Capacities
  /\ buffer \in [0..(capacity - 1) -> Items \cup {NoItem}]
  /\ size \in 0..capacity
  /\ head \in Nat /\ (capacity > 0 => head < capacity) /\ (capacity = 0 => head = 0)
  /\ taken \in Items \cup {NoItem}
  /\ \A j \in 0..(capacity - 1) : buffer[j] \in Items <=> Offset(j) < size

LEMMA Capacity == capacity \in Capacities => capacity \in Nat
BY RingAssumption

(* Where the i-th item is: Slot without the remainder. *)
SlotEasy == \A i \in 0..capacity :
              Slot(i) = IF head + i < capacity THEN head + i ELSE head + i - capacity

InRange == capacity \in Nat \ {0} /\ head \in 0..(capacity - 1)

LEMMA SlotsAreEasy == InRange => SlotEasy
<1> SUFFICES ASSUME InRange, NEW i \in 0..capacity
             PROVE  Slot(i) = IF head + i < capacity THEN head + i
                                                     ELSE head + i - capacity
  BY DEF SlotEasy
<1>1. CASE head + i < capacity
  BY <1>1 DEF Slot, InRange
<1>2. CASE head + i >= capacity
  <2>1. (head + i - capacity) % capacity = head + i - capacity
    BY <1>2 DEF InRange
  <2>2. (head + i) % capacity = (head + i - capacity) % capacity
    BY <1>2 DEF InRange
  <2> QED BY <1>2, <2>1, <2>2 DEF Slot, InRange
<1> QED BY <1>1, <1>2 DEF InRange

LEMMA SlotIs ==
  ASSUME capacity \in Nat \ {0}, head \in 0..(capacity - 1),
         NEW i \in 0..capacity
  PROVE  Slot(i) = IF head + i < capacity THEN head + i ELSE head + i - capacity
BY SlotsAreEasy DEF SlotEasy, InRange

(* The head moves to the next slot around the end. *)
LEMMA NextHead ==
  ASSUME capacity \in Nat \ {0}, head \in 0..(capacity - 1)
  PROVE  (head + 1) % capacity = IF head + 1 < capacity THEN head + 1 ELSE 0
<1>1. Slot(1) = IF head + 1 < capacity THEN head + 1 ELSE head + 1 - capacity
  BY SlotIs
<1> QED BY <1>1 DEF Slot

LEMMA SlotsNext == InRange' => SlotEasy'
BY SlotsAreEasy, PTL

LEMMA RingInvIsRingOK == RingInv => RingOK
<1> SUFFICES ASSUME RingInv PROVE RingOK
  OBVIOUS
<1>1. capacity \in Nat
  BY Capacity DEF RingInv
<1>2. head \in 0..(IF capacity = 0 THEN 0 ELSE capacity - 1)
  BY <1>1 DEF RingInv
<1>3. ASSUME NEW i \in 0..(capacity - 1)
      PROVE  buffer[Slot(i)] \in Items <=> i < size
  <2>1. capacity \in Nat \ {0} /\ head \in 0..(capacity - 1) /\ i \in 0..capacity
    BY <1>1, <1>3 DEF RingInv
  <2>2. Slot(i) = IF head + i < capacity THEN head + i ELSE head + i - capacity
    BY <2>1, SlotIs
  <2>3. Slot(i) \in 0..(capacity - 1) /\ Offset(Slot(i)) = i
    BY <2>1, <2>2 DEF Offset
  <2> QED BY <2>3 DEF RingInv
<1> QED BY <1>2, <1>3 DEF RingInv, RingOK

-----------------------------------------------------------------------------
(* A new ring is well formed. *)
LEMMA RingStarts == RingInit => RingInv
<1> SUFFICES ASSUME RingInit PROVE RingInv
  OBVIOUS
<1>1. capacity \in Nat
  BY Capacity DEF RingInit
<1>2. \A j \in 0..(capacity - 1) : buffer[j] = NoItem /\ Offset(j) \in Nat
  BY <1>1 DEF RingInit, Offset
<1>3. \A j \in 0..(capacity - 1) : buffer[j] \in Items <=> Offset(j) < size
  BY <1>2, RingAssumption DEF RingInit
<1> QED BY <1>1, <1>3 DEF RingInit, RingInv

LEMMA PushKeeps ==
  ASSUME RingInv, NEW x \in Items, Push(x)
  PROVE  RingInv'
<1>1. capacity \in Nat \ {0} /\ head \in 0..(capacity - 1) /\ capacity' = capacity
  BY Capacity DEF RingInv, Push
<1>2. CASE size = capacity
  <2>1. /\ buffer' = [buffer EXCEPT ![head] = x] /\ size' = size
        /\ head' = IF head + 1 < capacity THEN head + 1 ELSE 0
    BY <1>1, <1>2, NextHead DEF Push
  <2>2. \A j \in 0..(capacity - 1) : Offset(j) < size /\ Offset(j)' < size'
    BY <1>1, <1>2, <2>1 DEF Offset
  <2>3. \A j \in 0..(capacity - 1) : buffer'[j] \in Items
    BY <2>1, <2>2 DEF RingInv
  <2> QED BY <1>1, <1>2, <2>1, <2>2, <2>3 DEF RingInv, Push
<1>3. CASE size # capacity
  <2>1. size \in 0..(capacity - 1)
    BY <1>1, <1>3 DEF RingInv
  <2>2. /\ buffer' = [buffer EXCEPT ![Slot(size)] = x] /\ size' = size + 1
        /\ head' = head
    BY <1>3 DEF Push
  <2>3. Slot(size) = IF head + size < capacity THEN head + size
                                               ELSE head + size - capacity
    BY <1>1, <2>1, SlotIs
  <2>4. Slot(size) \in 0..(capacity - 1)
    BY <1>1, <2>1, <2>3
  <2>5. ASSUME NEW j \in 0..(capacity - 1)
        PROVE  buffer'[j] \in Items <=> Offset(j)' < size'
    <3>1. Offset(j)' = Offset(j) /\ (j = Slot(size) <=> Offset(j) = size)
      BY <1>1, <2>1, <2>2, <2>3 DEF Offset
    <3>2. Offset(j) \in Nat
      BY <1>1 DEF Offset
    <3>3. CASE j = Slot(size)
      BY <2>1, <2>2, <2>4, <3>1, <3>2, <3>3 DEF RingInv
    <3>4. CASE j # Slot(size)
      <4>1. buffer'[j] = buffer[j] /\ Offset(j) # size
        BY <2>2, <3>1, <3>4 DEF RingInv
      <4> QED BY <2>1, <2>2, <3>1, <3>2, <4>1 DEF RingInv
    <3> QED BY <3>3, <3>4
  <2> QED BY <1>1, <2>1, <2>2, <2>4, <2>5 DEF RingInv, Push
<1> QED BY <1>2, <1>3

LEMMA PopKeeps ==
  ASSUME RingInv, Pop
  PROVE  RingInv'
<1>1. /\ capacity \in Nat \ {0} /\ head \in 0..(capacity - 1) /\ capacity' = capacity
      /\ size \in 1..capacity
  BY Capacity DEF RingInv, Pop
<1>2. /\ buffer' = [buffer EXCEPT ![head] = NoItem] /\ size' = size - 1
      /\ head' = IF head + 1 < capacity THEN head + 1 ELSE 0
      /\ taken' = buffer[head]
  BY <1>1, NextHead DEF Pop
<1>3. ASSUME NEW j \in 0..(capacity - 1)
      PROVE  buffer'[j] \in Items <=> Offset(j)' < size'
  <2>1. Offset(j) \in 0..(capacity - 1)
    BY <1>1 DEF Offset
  <2>2. Offset(j)' = IF j = head THEN capacity - 1 ELSE Offset(j) - 1
    BY <1>1, <1>2 DEF Offset
  <2>3. CASE j = head
    BY <1>1, <1>2, <2>2, <2>3, RingAssumption DEF RingInv
  <2>4. CASE j # head
    <3>1. buffer'[j] = buffer[j]
      BY <1>2, <2>4 DEF RingInv
    <3>2. Offset(j)' < size' <=> Offset(j) < size
      BY <1>1, <1>2, <2>1, <2>2, <2>4
    <3> QED BY <3>1, <3>2 DEF RingInv
  <2> QED BY <2>3, <2>4
<1>4. taken' \in Items \cup {NoItem}
  BY <1>1, <1>2 DEF RingInv
<1> QED BY <1>1, <1>2, <1>3, <1>4 DEF RingInv

LEMMA PopNothingKeeps ==
  ASSUME RingInv, PopNothing \/ UNCHANGED ringVars
  PROVE  RingInv'
BY DEF RingInv, PopNothing, ringVars, Offset

LEMMA RingStep == RingInv /\ [RingNext]_ringVars => RingInv'
BY PushKeeps, PopKeeps, PopNothingKeeps DEF RingNext

(* RingBuffer keeps its items in the `size` slots from `head` on, whatever *)
(* its capacity and however often it wraps (structures.rs push, pop).      *)
THEOREM RingWellFormed == RingSpec => []RingOK
<1>1. RingSpec => []RingInv
  BY RingStarts, RingStep, PTL DEF RingSpec
<1> QED BY <1>1, RingInvIsRingOK, PTL

-----------------------------------------------------------------------------
(* The items held, oldest first, as a sequence. *)
HeldSeq == /\ Held \in Seq(Items) /\ Len(Held) = size
           /\ \A i \in 1..size : Held[i] = buffer[Slot(i - 1)]

LEMMA HeldIsSeq == RingInv => HeldSeq
<1> SUFFICES ASSUME RingInv PROVE HeldSeq
  OBVIOUS
<1>1. capacity \in Nat /\ size \in Nat
  BY Capacity DEF RingInv
<1>2. \A i \in 1..size : buffer[Slot(i - 1)] \in Items
  BY <1>1, RingInvIsRingOK DEF RingInv, RingOK
<1>3. Held \in [1..size -> Items]
  BY <1>2 DEF Held
<1> QED BY <1>1, <1>3 DEF Held, HeldSeq

(* A push appends to what is held, without the oldest item if it is full. *)
LEMMA PushHeld ==
  ASSUME RingInv, NEW x \in Items, Push(x)
  PROVE  Held' = Append(IF Len(Held) = capacity THEN Tail(Held) ELSE Held, x)
<1>1. capacity \in Nat \ {0} /\ head \in 0..(capacity - 1) /\ capacity' = capacity
  BY Capacity DEF RingInv, Push
<1>2. RingInv'
  BY PushKeeps
<1>3. /\ Held \in Seq(Items) /\ Len(Held) = size
      /\ \A i \in 1..size : Held[i] = buffer[Slot(i - 1)]
  BY HeldIsSeq DEF HeldSeq
<1>4. /\ Held' \in Seq(Items) /\ Len(Held') = size'
      /\ \A i \in 1..size' : Held'[i] = buffer'[Slot(i - 1)']
  <2>1. RingInv' => HeldSeq'
    BY HeldIsSeq, PTL
  <2> QED BY <1>2, <2>1 DEF HeldSeq
<1>5. CASE size = capacity
  <2>1. /\ buffer' = [buffer EXCEPT ![head] = x] /\ size' = size
        /\ head' = IF head + 1 < capacity THEN head + 1 ELSE 0
    BY <1>1, <1>5, NextHead DEF Push
  <2> DEFINE t == Append(Tail(Held), x)
  <2>2. t \in Seq(Items) /\ Len(t) = size
    BY <1>1, <1>3, <1>5
  <2>3. ASSUME NEW i \in 1..size
        PROVE  Held'[i] = t[i]
    <3>1. Slot(i - 1)' = IF i = capacity THEN head ELSE Slot(i)
      <4>1. head' \in 0..(capacity' - 1) /\ i - 1 \in 0..capacity'
        BY <1>1, <1>5, <2>1
      <4>2. Slot(i - 1)' = IF head' + (i - 1) < capacity' THEN head' + (i - 1)
                                             ELSE head' + (i - 1) - capacity'
        BY <1>1, <4>1, SlotsNext DEF SlotEasy, InRange
      <4>3. Slot(i) = IF head + i < capacity THEN head + i ELSE head + i - capacity
        BY <1>1, <1>5, SlotIs
      <4> QED BY <1>1, <1>5, <2>1, <4>2, <4>3
    <3>2. CASE i = capacity
      BY <1>1, <1>3, <1>4, <1>5, <2>1, <3>1, <3>2 DEF RingInv
    <3>3. CASE i # capacity
      <4>1. i \in 1..(size - 1) /\ i + 1 \in 1..size
        BY <1>1, <1>5, <3>3
      <4>2. Slot(i) # head /\ Slot(i) \in 0..(capacity - 1)
        BY <1>1, <1>5, <4>1, SlotIs
      <4>3. Held'[i] = buffer[Slot(i)]
        BY <1>4, <2>1, <3>1, <3>3, <4>2 DEF RingInv
      <4>4. t[i] = Held[i + 1]
        BY <1>3, <4>1
      <4>5. Held[i + 1] = buffer[Slot(i)]
        BY <1>3, <4>1
      <4> QED BY <4>3, <4>4, <4>5
    <3> QED BY <3>2, <3>3
  <2> QED BY <1>3, <1>4, <1>5, <2>1, <2>2, <2>3
<1>6. CASE size # capacity
  <2>1. size \in 0..(capacity - 1)
    BY <1>1, <1>6 DEF RingInv
  <2>2. /\ buffer' = [buffer EXCEPT ![Slot(size)] = x] /\ size' = size + 1
        /\ head' = head
    BY <1>6 DEF Push
  <2> DEFINE t == Append(Held, x)
  <2>3. t \in Seq(Items) /\ Len(t) = size + 1
    BY <1>3, <2>1
  <2>4. ASSUME NEW i \in 1..(size + 1)
        PROVE  Held'[i] = t[i]
    <3>1. Slot(i - 1)' = Slot(i - 1)
      BY <1>1, <2>2 DEF Slot
    <3>2. Slot(size) = IF head + size < capacity THEN head + size
                                                 ELSE head + size - capacity
      BY <1>1, <2>1, SlotIs
    <3>3. i - 1 \in 0..capacity
      BY <1>1, <2>1
    <3>4. Slot(i - 1) = IF head + (i - 1) < capacity THEN head + (i - 1)
                                              ELSE head + (i - 1) - capacity
      BY <1>1, <3>3, SlotIs
    <3>5. Slot(size) \in 0..(capacity - 1) /\ Slot(i - 1) \in 0..(capacity - 1)
      BY <1>1, <2>1, <3>2, <3>4
    <3>6. CASE i = size + 1
      <4>1. i - 1 = size
        BY <2>1, <3>6
      <4>2. buffer'[Slot(size)] = x
        BY <2>2, <3>5 DEF RingInv
      <4> QED BY <1>3, <1>4, <2>1, <2>2, <3>1, <3>6, <4>1, <4>2
    <3>7. CASE i # size + 1
      <4>1. Slot(i - 1) # Slot(size)
        BY <1>1, <2>1, <3>2, <3>4, <3>7
      <4>2. buffer'[Slot(i - 1)] = buffer[Slot(i - 1)]
        BY <2>2, <3>5, <4>1 DEF RingInv
      <4> QED BY <1>3, <1>4, <2>1, <2>2, <3>1, <3>7, <4>2
    <3> QED BY <3>6, <3>7
  <2> QED BY <1>3, <1>4, <1>6, <2>1, <2>2, <2>3, <2>4
<1> QED BY <1>5, <1>6

(* A pop returns the oldest item and keeps the others. *)
LEMMA PopHeld ==
  ASSUME RingInv, Pop
  PROVE  Held # <<>> /\ taken' = Head(Held) /\ Held' = Tail(Held)
<1>1. /\ capacity \in Nat \ {0} /\ head \in 0..(capacity - 1) /\ capacity' = capacity
      /\ size \in 1..capacity
  BY Capacity DEF RingInv, Pop
<1>2. /\ buffer' = [buffer EXCEPT ![head] = NoItem] /\ size' = size - 1
      /\ head' = IF head + 1 < capacity THEN head + 1 ELSE 0
      /\ taken' = buffer[head]
  BY <1>1, NextHead DEF Pop
<1>3. /\ Held \in Seq(Items) /\ Len(Held) = size
      /\ \A i \in 1..size : Held[i] = buffer[Slot(i - 1)]
  BY HeldIsSeq DEF HeldSeq
<1>4. /\ Held' \in Seq(Items) /\ Len(Held') = size'
      /\ \A i \in 1..size' : Held'[i] = buffer'[Slot(i - 1)']
  <2>1. RingInv' => HeldSeq'
    BY HeldIsSeq, PTL
  <2> QED BY PopKeeps, <2>1 DEF HeldSeq
<1>5. Slot(0) = head
  BY <1>1, SlotIs
<1>6. Held # <<>> /\ taken' = Head(Held)
  BY <1>1, <1>2, <1>3, <1>5
<1>7. Tail(Held) \in Seq(Items) /\ Len(Tail(Held)) = size - 1
  BY <1>1, <1>3
<1>8. ASSUME NEW i \in 1..(size - 1)
      PROVE  Held'[i] = Tail(Held)[i]
  <2>1. head' \in 0..(capacity' - 1) /\ i - 1 \in 0..capacity'
    BY <1>1, <1>2
  <2>2. Slot(i - 1)' = IF head' + (i - 1) < capacity' THEN head' + (i - 1)
                                         ELSE head' + (i - 1) - capacity'
    BY <1>1, <2>1, SlotsNext DEF SlotEasy, InRange
  <2>3. Slot(i) = IF head + i < capacity THEN head + i ELSE head + i - capacity
    BY <1>1, SlotIs
  <2>4. Slot(i - 1)' = Slot(i) /\ Slot(i) # head /\ Slot(i) \in 0..(capacity - 1)
    BY <1>1, <1>2, <2>2, <2>3
  <2>5. Held'[i] = buffer[Slot(i)]
    BY <1>1, <1>2, <1>4, <2>4 DEF RingInv
  <2>6. Tail(Held)[i] = Held[i + 1] /\ Held[i + 1] = buffer[Slot(i)]
    BY <1>1, <1>3
  <2> QED BY <2>5, <2>6
<1> QED BY <1>1, <1>2, <1>4, <1>6, <1>7, <1>8

-----------------------------------------------------------------------------
LEMMA RingStartsEmpty == RingInit => Queue!Init
<1> SUFFICES ASSUME RingInit PROVE Queue!Init
  OBVIOUS
<1>1. Len(Held) = 0 /\ Held \in Seq(Items)
  BY RingStarts, HeldIsSeq DEF HeldSeq, RingInit
<1> QED BY <1>1 DEF RingInit, Queue!Init

LEMMA RingStepIsQueueStep ==
  RingInv /\ [RingNext]_ringVars => [Queue!Next]_Queue!queueVars
<1> SUFFICES ASSUME RingInv, [RingNext]_ringVars
             PROVE  [Queue!Next]_Queue!queueVars
  OBVIOUS
<1>1. CASE \E x \in Items : Push(x)
  <2>1. PICK x \in Items : Push(x)
    BY <1>1
  <2>2. Queue!Push(x)
    BY <2>1, PushHeld DEF Queue!Push, Push
  <2> QED BY <2>2 DEF Queue!Next
<1>2. CASE Pop
  <2>1. Queue!Pop
    BY <1>2, PopHeld DEF Queue!Pop, Pop
  <2> QED BY <2>1 DEF Queue!Next
<1>3. CASE PopNothing
  <2>1. Held = <<>>
    BY <1>3, HeldIsSeq DEF HeldSeq, PopNothing
  <2>2. Held' = Held
    BY <1>3 DEF PopNothing, Held, Slot
  <2>3. Queue!PopNothing
    BY <1>3, <2>1, <2>2 DEF Queue!PopNothing, PopNothing
  <2> QED BY <2>3 DEF Queue!Next
<1>4. CASE UNCHANGED ringVars
  BY <1>4 DEF ringVars, Queue!queueVars, Held, Slot
<1> QED BY <1>1, <1>2, <1>3, <1>4 DEF RingNext

(* RingBuffer implements the queue that keeps the last `capacity` items,   *)
(* for every capacity and every sequence of pushes and pops.               *)
THEOREM RingIsQueue == RingSpec => ImplementsQueue
<1>1. RingSpec => []RingInv
  BY RingStarts, RingStep, PTL DEF RingSpec
<1> QED BY <1>1, RingStartsEmpty, RingStepIsQueueStep, PTL
        DEF RingSpec, ImplementsQueue, Queue!Spec

-----------------------------------------------------------------------------
(* What the ring and the answer hold, line by line: the ring the last      *)
(* `size` lines read, the answer the ones before them.                     *)
Least(m, n) == IF m < n THEN m ELSE n

TailInv ==
  /\ RingInv
  /\ file \in Files
  /\ total \in 0..Len(file)
  /\ lines \in Seq(Items)
  /\ stage = "reading" => lines = <<>> /\ size = Least(total, capacity)
  /\ stage \in {"draining", "done"} => total = Len(file)
  /\ stage \in {"reading", "draining", "done"} =>
       /\ Len(lines) + size = Least(total, capacity)
       /\ \A i \in 1..size : Held[i] = file[total - size + i]
       /\ \A i \in 1..Len(lines) : lines[i] = file[total - Least(total, capacity) + i]
  /\ stage = "done" => size = 0

LEMMA TailStarts == Init => TailInv
<1> SUFFICES ASSUME Init PROVE TailInv
  OBVIOUS
<1>1. RingInv /\ capacity \in Nat /\ size = 0
  BY RingStarts, Capacity DEF Init, RingInit
<1>2. file \in Seq(Items)
  BY FilesAssumption DEF Init
<1> QED BY <1>1, <1>2 DEF Init, TailInv, Least

LEMMA ReadLineKeeps ==
  ASSUME TailInv, ReadLine
  PROVE  TailInv'
<1> DEFINE x == file[total + 1]
<1>1. /\ stage = "reading" /\ total \in Nat /\ total < Len(file)
      /\ file \in Seq(Items) /\ x \in Items
  BY FilesAssumption DEF TailInv, ReadLine
<1>2. RingInv /\ Push(x)
  BY DEF TailInv, ReadLine
<1>3. RingInv' /\ capacity' = capacity /\ capacity \in Nat \ {0}
  BY <1>1, <1>2, PushKeeps, Capacity DEF Push, RingInv
<1>4. Held' = Append(IF Len(Held) = capacity THEN Tail(Held) ELSE Held, x)
  BY <1>1, <1>2, PushHeld
<1>5. Held \in Seq(Items) /\ Len(Held) = size /\ size \in 0..capacity
  BY <1>2, HeldIsSeq DEF HeldSeq, RingInv
<1>6. size' = IF size = capacity THEN size ELSE size + 1
  BY <1>2 DEF Push
<1>7. /\ total' = total + 1 /\ file' = file /\ lines' = lines /\ stage' = stage
      /\ lines = <<>> /\ size = Least(total, capacity)
  BY <1>1 DEF ReadLine, TailInv
<1>8. size' = Least(total', capacity')
  BY <1>1, <1>3, <1>5, <1>6, <1>7 DEF Least
<1>9. ASSUME NEW i \in 1..size'
      PROVE  Held'[i] = file'[total' - size' + i]
  <2>1. \A j \in 1..size : Held[j] = file[total - size + j]
    BY <1>1 DEF TailInv
  <2>2. CASE size = capacity
    <3>1. Held' = Append(Tail(Held), x) /\ Len(Tail(Held)) = size - 1
          /\ Tail(Held) \in Seq(Items)
      BY <1>3, <1>4, <1>5, <2>2
    <3>2. CASE i = size
      BY <1>1, <1>5, <1>6, <1>7, <2>2, <3>1, <3>2
    <3>3. CASE i # size
      <4>1. i \in 1..(size - 1) /\ i + 1 \in 1..size
        BY <1>5, <1>6, <1>9, <2>2, <3>3
      <4>2. Held'[i] = Held[i + 1]
        BY <1>5, <3>1, <4>1
      <4>3. Held[i + 1] = file[total - size + (i + 1)]
        BY <2>1, <4>1
      <4> QED BY <1>1, <1>5, <1>6, <1>7, <2>2, <4>1, <4>2, <4>3
    <3> QED BY <3>2, <3>3
  <2>3. CASE size # capacity
    <3>1. Held' = Append(Held, x) /\ size' = size + 1
      BY <1>4, <1>5, <1>6, <2>3
    <3>2. CASE i = size + 1
      <4>1. Held'[size + 1] = x
        BY <1>1, <1>5, <3>1
      <4>2. total' - size' + i = total + 1
        BY <1>1, <1>5, <1>7, <3>1, <3>2
      <4> QED BY <1>7, <3>2, <4>1, <4>2
    <3>3. CASE i # size + 1
      <4>1. i \in 1..size
        BY <1>5, <1>9, <3>1, <3>3
      <4>2. Held'[i] = Held[i]
        BY <1>5, <3>1, <4>1
      <4>3. Held[i] = file[total - size + i]
        BY <2>1, <4>1
      <4>4. total' - size' + i = total - size + i
        BY <1>1, <1>5, <1>7, <3>1, <4>1
      <4> QED BY <1>7, <4>2, <4>3, <4>4, Zenon
    <3> QED BY <3>2, <3>3
  <2> QED BY <2>2, <2>3
<1>10. TailInv!3' /\ TailInv!4'
  BY <1>1, <1>7 DEF TailInv
<1>11. Len(lines') + size' = Least(total', capacity')
  BY <1>3, <1>5, <1>6, <1>7, <1>8
<1> QED BY <1>1, <1>3, <1>7, <1>8, <1>9, <1>10, <1>11 DEF TailInv

LEMMA DrainKeeps ==
  ASSUME TailInv, Drain
  PROVE  TailInv'
<1>1. /\ stage = "draining" /\ total = Len(file) /\ total \in Nat
      /\ file \in Seq(Items) /\ RingInv /\ capacity \in Nat
      /\ file' = file /\ total' = total
  BY FilesAssumption, Capacity DEF TailInv, Drain, RingInv
<1>2. Held \in Seq(Items) /\ Len(Held) = size /\ size \in 0..capacity
  BY <1>1, HeldIsSeq DEF HeldSeq, RingInv
<1>3. /\ lines \in Seq(Items) /\ Len(lines) + size = Least(total, capacity)
      /\ \A i \in 1..size : Held[i] = file[total - size + i]
      /\ \A i \in 1..Len(lines) : lines[i] = file[total - Least(total, capacity) + i]
  BY <1>1 DEF TailInv
<1>4. CASE Pop /\ lines' = Append(lines, taken') /\ UNCHANGED stage
  <2>1. Held # <<>> /\ taken' = Head(Held) /\ Held' = Tail(Held) /\ RingInv'
    BY <1>1, <1>4, PopHeld, PopKeeps
  <2>2. size \in 1..capacity /\ size' = size - 1 /\ capacity' = capacity
    BY <1>2, <1>4 DEF Pop
  <2>3. taken' \in Items /\ taken' = file[total - size + 1]
    BY <1>2, <1>3, <2>1, <2>2
  <2>4. lines' \in Seq(Items) /\ Len(lines') = Len(lines) + 1
    BY <1>3, <1>4, <2>3
  <2>5. Least(total', capacity') = Least(total, capacity)
    BY <1>1, <2>2 DEF Least
  <2>6. ASSUME NEW i \in 1..size'
        PROVE  Held'[i] = file'[total' - size' + i]
    <3>1. i + 1 \in 1..size /\ Held'[i] = Held[i + 1]
      BY <1>2, <2>1, <2>2
    <3>2. Held[i + 1] = file[total - size + (i + 1)]
      BY <1>3, <3>1
    <3>3. total - size + (i + 1) = total' - size' + i
      BY <1>1, <2>2
    <3> QED BY <1>1, <3>1, <3>2, <3>3
  <2>7. ASSUME NEW i \in 1..Len(lines')
        PROVE  lines'[i] = file'[total' - Least(total', capacity') + i]
    <3>1. CASE i = Len(lines) + 1
      <4>1. lines'[i] = taken'
        BY <1>3, <1>4, <2>3, <3>1
      <4>2. total' - Least(total', capacity') + i = total - size + 1
        BY <1>1, <1>3, <2>2, <2>5, <3>1
      <4> QED BY <1>1, <2>3, <4>1, <4>2
    <3>2. CASE i # Len(lines) + 1
      <4>1. i \in 1..Len(lines) /\ lines'[i] = lines[i]
        BY <1>3, <1>4, <2>3, <2>4, <3>2
      <4> QED BY <1>1, <1>3, <2>5, <4>1
    <3> QED BY <3>1, <3>2
  <2>8. Len(lines') + size' = Least(total', capacity')
    BY <1>3, <2>2, <2>4, <2>5
  <2> QED BY <1>1, <1>4, <2>1, <2>4, <2>6, <2>7, <2>8 DEF TailInv
<1>5. CASE PopNothing /\ stage' = "done" /\ UNCHANGED lines
  <2>1. RingInv' /\ size = 0 /\ size' = 0 /\ capacity' = capacity
    BY <1>1, <1>5, PopNothingKeeps DEF PopNothing
  <2>2. Least(total', capacity') = Least(total, capacity)
    BY <1>1, <2>1 DEF Least
  <2> QED BY <1>1, <1>3, <1>5, <2>1, <2>2 DEF TailInv
<1> QED BY <1>4, <1>5 DEF Drain

LEMMA OthersKeep ==
  ASSUME TailInv, ReadFails \/ Abort \/ EndOfFile \/ UNCHANGED vars
  PROVE  TailInv'
<1>1. UNCHANGED ringVars /\ file' = file /\ lines' = lines
  BY DEF ReadFails, Abort, EndOfFile, vars
<1>2. /\ RingInv' /\ Held' = Held /\ size' = size /\ capacity' = capacity
  BY <1>1, PopNothingKeeps DEF TailInv, Held, Slot, ringVars
<1>3. file \in Seq(Items) /\ total \in 0..Len(file)
  BY FilesAssumption DEF TailInv
<1>4. CASE ReadFails \/ Abort
  BY <1>1, <1>2, <1>3, <1>4 DEF TailInv, ReadFails, Abort
<1>5. CASE EndOfFile \/ UNCHANGED vars
  <2>1. total' = total /\ Least(total', capacity') = Least(total, capacity)
    BY <1>2, <1>5 DEF EndOfFile, vars, Least
  <2>2. stage' = stage \/ (stage = "reading" /\ stage' = "draining" /\ total = Len(file))
    BY <1>5 DEF EndOfFile, vars
  <2> QED BY <1>1, <1>2, <2>1, <2>2 DEF TailInv
<1> QED BY <1>4, <1>5

LEMMA TailStep == TailInv /\ [Next]_vars => TailInv'
BY ReadLineKeeps, DrainKeeps, OthersKeep DEF Next, Rest

LEMMA TailInvIsAnswer == TailInv => AnswersTail
<1> SUFFICES ASSUME TailInv, stage = "done"
             PROVE  lines = LastOf(file, capacity) /\ total = Len(file)
  BY DEF AnswersTail
<1>1. /\ total = Len(file) /\ total \in Nat /\ capacity \in Nat /\ size = 0
      /\ file \in Seq(Items) /\ lines \in Seq(Items) /\ Len(lines) = Least(total, capacity)
      /\ \A i \in 1..Len(lines) : lines[i] = file[total - Least(total, capacity) + i]
  BY FilesAssumption, Capacity DEF TailInv, RingInv
<1>2. PICK m \in Nat : m = IF Len(file) > capacity THEN Len(file) - capacity + 1
                                                   ELSE 1
  <2>1. Len(file) \in Nat /\ capacity \in Nat
    BY <1>1
  <2>2. CASE Len(file) > capacity
    <3>1. Len(file) - capacity + 1 \in Nat
      BY <2>1, <2>2
    <3> QED BY <2>2, <3>1
  <2>3. CASE ~(Len(file) > capacity)
    BY <2>3
  <2> QED BY <2>2, <2>3
<1>3. LastOf(file, capacity) = SubSeq(file, m, Len(file))
  BY <1>2 DEF LastOf
<1>4. m \in 1..(Len(file) + 1) /\ Len(file) - m + 1 = Least(total, capacity)
  <2>1. Len(file) \in Nat /\ capacity \in Nat /\ m \in Nat
    BY <1>1
  <2>2. Least(total, capacity) = IF Len(file) < capacity THEN Len(file) ELSE capacity
    BY <1>1 DEF Least
  <2>3. CASE Len(file) > capacity
    <3>1. m = Len(file) - capacity + 1 /\ Least(total, capacity) = capacity
      BY <1>2, <2>1, <2>2, <2>3
    <3>2. m \in 1..(Len(file) + 1)
      BY <2>1, <2>3, <3>1
    <3>3. Len(file) - m + 1 = capacity
      BY <2>1, <3>1
    <3> QED BY <3>1, <3>2, <3>3
  <2>4. CASE ~(Len(file) > capacity)
    BY <1>2, <2>1, <2>2, <2>4
  <2> QED BY <2>3, <2>4
<1>5. /\ SubSeq(file, m, Len(file)) \in Seq(Items)
      /\ Len(SubSeq(file, m, Len(file))) = Least(total, capacity)
      /\ \A i \in 1..Least(total, capacity) :
           SubSeq(file, m, Len(file))[i] = file[m + i - 1]
  <2>1. \A i \in m..Len(file) : file[i] \in Items
    BY <1>1, <1>4
  <2>2. m \in Int /\ Len(file) \in Int
    BY <1>1
  <2>3. /\ SubSeq(file, m, Len(file)) \in Seq(Items)
        /\ Len(SubSeq(file, m, Len(file)))
             = IF m <= Len(file) THEN Len(file) - m + 1 ELSE 0
        /\ \A i \in 1..(Len(file) - m + 1) :
             SubSeq(file, m, Len(file))[i] = file[m + i - 1]
    BY <2>1, <2>2, SubSeqProperties
  <2> QED BY <1>1, <1>4, <2>3
<1>6. ASSUME NEW i \in 1..Least(total, capacity)
      PROVE  lines[i] = SubSeq(file, m, Len(file))[i]
  <2>1. lines[i] = file[total - Least(total, capacity) + i]
    BY <1>1
  <2>2. total - Least(total, capacity) + i = m + i - 1
    BY <1>1, <1>4
  <2> QED BY <1>5, <2>1, <2>2
<1>7. lines = SubSeq(file, m, Len(file))
  BY <1>1, <1>5, <1>6, SeqEqual
<1> QED BY <1>1, <1>3, <1>7

(* A tail read that ends well answers with the last `tail` lines of the    *)
(* file and its line count, for every file and every `tail`                *)
(* (files.rs read_text_file).                                              *)
THEOREM TailIsAnswered == Spec => []AnswersTail
<1>1. Spec => []TailInv
  BY TailStarts, TailStep, PTL DEF Spec
<1> QED BY <1>1, TailInvIsAnswer, PTL
=============================================================================
