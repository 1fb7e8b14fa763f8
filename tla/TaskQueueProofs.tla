--------------------------- MODULE TaskQueueProofs ---------------------------
(***************************************************************************)
(* The ring of queue.c is a first-in first-out queue, for every capacity:  *)
(* on a well-formed ring that is not full, enqueue appends; on one that is *)
(* not empty, front returns the head and dequeue removes it.               *)
(***************************************************************************)
EXTENDS TaskQueue, SequenceTheorems, TLAPS

(* The queue init_queue returns is well formed and stands for no element.  *)
LEMMA InitQueueEmpty ==
  WellFormed(init_queue) /\ Contents(init_queue) = << >>
<1> DEFINE q == init_queue
<1>1. q \in Queue /\ q.size = 0 /\ q.front = 0 /\ q.rear = -1
  BY QueueAssumption DEF init_queue, Queue, Index, MIN_QUEUE_SIZE
<1>2. next(q.rear) = Slot(q, q.size + 1)
  BY <1>1, QueueAssumption DEF next, Slot, MIN_QUEUE_SIZE
<1>3. Contents(q) = << >>
  BY <1>1 DEF Contents
<1> QED
  BY <1>1, <1>2, <1>3 DEF WellFormed

(* Slots of a ring are indices of its array, and the slots of two          *)
(* different elements of a ring are different.                             *)
LEMMA SlotFacts ==
  ASSUME NEW q \in Queue
  PROVE  /\ \A i \in 1 .. QueueCapacity : Slot(q, i) \in Index
         /\ \A i, j \in 1 .. QueueCapacity : Slot(q, i) = Slot(q, j) => i = j
         /\ Slot(q, 1) = q.front
         /\ \A i \in 1 .. QueueCapacity : next(Slot(q, i)) = Slot(q, i + 1)
<1>1. QueueCapacity \in Nat /\ q.front \in 0 .. QueueCapacity - 1
  BY QueueAssumption DEF Queue, Index
<1>2. ASSUME NEW i \in 1 .. QueueCapacity
      PROVE  /\ Slot(q, i) \in Index
             /\ next(Slot(q, i)) = Slot(q, i + 1)
  BY <1>1 DEF Slot, Index, next
<1>3. ASSUME NEW i \in 1 .. QueueCapacity, NEW j \in 1 .. QueueCapacity,
             Slot(q, i) = Slot(q, j)
      PROVE  i = j
  BY <1>1, <1>3 DEF Slot
<1>4. Slot(q, 1) = q.front
  BY <1>1 DEF Slot
<1> QED
  BY <1>2, <1>3, <1>4

(* A well-formed ring stands for a sequence of connections of its size.    *)
LEMMA ContentsType ==
  ASSUME NEW q, WellFormed(q)
  PROVE  /\ Contents(q) \in Seq(Conn)
         /\ Len(Contents(q)) = q.size
         /\ q.size \in 0 .. QueueCapacity
         /\ Contents(q) = << >> <=> is_empty(q)
<1>1. q.size \in 0 .. QueueCapacity /\ q.size \in Nat
  BY QueueAssumption DEF WellFormed, Queue
<1>2. \A i \in 1 .. q.size : q.array[Slot(q, i)] \in Conn
  BY DEF WellFormed
<1>3. Contents(q) \in Seq(Conn) /\ Len(Contents(q)) = q.size
  BY <1>1, <1>2, IsASeq DEF Contents
<1> QED
  BY <1>1, <1>3, EmptySeq DEF is_empty

(* enqueue on a ring that is not full appends the element.                 *)
THEOREM EnqueueAppends ==
  ASSUME NEW q, WellFormed(q), ~is_full(q), NEW e \in Conn
  PROVE  /\ WellFormed(enqueue(q, e))
         /\ Contents(enqueue(q, e)) = Append(Contents(q), e)
<1> DEFINE r == enqueue(q, e)
           new == next(q.rear)
<1>1. q \in Queue /\ new = Slot(q, q.size + 1)
  BY DEF WellFormed
<1>2. q.size \in 0 .. QueueCapacity - 1 /\ q.size + 1 \in 1 .. QueueCapacity
  BY <1>1, QueueAssumption DEF Queue, is_full
<1>3. new \in Index
  BY <1>1, <1>2, SlotFacts
<1>4. /\ r \in Queue
      /\ r.size = q.size + 1 /\ r.front = q.front /\ r.rear = new
      /\ r.array = [q.array EXCEPT ![new] = e]
  <2>1. r = [array |-> [q.array EXCEPT ![new] = e], size |-> q.size + 1,
             front |-> q.front, rear |-> new]
    BY DEF enqueue
  <2>2. [q.array EXCEPT ![new] = e] \in [Index -> Conn \cup {NoConn}]
    BY <1>1, <1>3 DEF Queue
  <2>3. q.size + 1 \in 0 .. QueueCapacity
    BY <1>2
  <2> QED
    BY <1>1, <1>3, <2>1, <2>2, <2>3 DEF Queue
<1>5. \A i \in Nat : Slot(r, i) = Slot(q, i)
  BY <1>4 DEF Slot
<1>6. r.array[Slot(r, q.size + 1)] = e
  BY <1>1, <1>2, <1>3, <1>4, <1>5 DEF Queue
<1>7. \A i \in 1 .. q.size : r.array[Slot(r, i)] = q.array[Slot(q, i)]
  <2> SUFFICES ASSUME NEW i \in 1 .. q.size
               PROVE  r.array[Slot(r, i)] = q.array[Slot(q, i)]
    OBVIOUS
  <2>1. i \in 1 .. QueueCapacity /\ i # q.size + 1 /\ i \in Nat
    BY <1>2, QueueAssumption
  <2>2. Slot(q, i) \in Index /\ Slot(q, i) # new
    BY <1>1, <1>2, <2>1, SlotFacts
  <2> QED
    BY <1>1, <1>4, <1>5, <2>1, <2>2 DEF Queue
<1>8. WellFormed(r)
  <2>1. next(r.rear) = Slot(r, r.size + 1)
    BY <1>1, <1>2, <1>4, <1>5, SlotFacts
  <2>2. \A i \in 1 .. r.size : r.array[Slot(r, i)] \in Conn
    BY <1>2, <1>4, <1>6, <1>7 DEF WellFormed
  <2> QED
    BY <1>4, <2>1, <2>2 DEF WellFormed
<1>9. Contents(r) = Append(Contents(q), e)
  <2>1. /\ Contents(q) \in Seq(Conn) /\ Len(Contents(q)) = q.size
        /\ Contents(r) \in Seq(Conn) /\ Len(Contents(r)) = q.size + 1
    BY <1>4, <1>8, ContentsType
  <2>2. /\ Append(Contents(q), e) \in Seq(Conn)
        /\ Len(Append(Contents(q), e)) = q.size + 1
        /\ \A i \in 1 .. q.size : Append(Contents(q), e)[i] = Contents(q)[i]
        /\ Append(Contents(q), e)[q.size + 1] = e
    BY <2>1, AppendProperties
  <2>3. \A i \in 1 .. q.size + 1 : Contents(r)[i] = r.array[Slot(r, i)]
    BY <1>4 DEF Contents
  <2>4. \A i \in 1 .. q.size : Contents(q)[i] = q.array[Slot(q, i)]
    BY DEF Contents
  <2>5. \A i \in 1 .. q.size + 1 : Contents(r)[i] = Append(Contents(q), e)[i]
    BY <1>2, <1>6, <1>7, <2>2, <2>3, <2>4
  <2> QED
    BY <2>1, <2>2, <2>5, SeqEqual
<1> QED
  BY <1>8, <1>9

(* front returns the oldest element of a ring that is not empty, and       *)
(* dequeue removes it.                                                     *)
THEOREM DequeueRemovesHead ==
  ASSUME NEW q, WellFormed(q), ~is_empty(q)
  PROVE  /\ WellFormed(dequeue(q))
         /\ front(q) = Head(Contents(q))
         /\ front(q) \in Conn
         /\ Contents(dequeue(q)) = Tail(Contents(q))
<1> DEFINE r == dequeue(q)
<1>1. q \in Queue
  BY DEF WellFormed
<1>2. q.size \in 1 .. QueueCapacity /\ q.size - 1 \in 0 .. QueueCapacity
  BY <1>1, QueueAssumption DEF Queue, is_empty
<1>3. next(q.front) \in Index
  BY <1>1, QueueAssumption DEF Queue, next, Index, MIN_QUEUE_SIZE
<1>4. /\ r \in Queue
      /\ r.size = q.size - 1 /\ r.front = next(q.front)
      /\ r.rear = q.rear /\ r.array = q.array
  BY <1>1, <1>2, <1>3 DEF dequeue, Queue
<1>5. \A i \in 1 .. QueueCapacity : Slot(r, i) = Slot(q, i + 1)
  BY <1>1, <1>4, QueueAssumption DEF Slot, next, Queue, Index, MIN_QUEUE_SIZE
<1>6. WellFormed(r)
  <2>1. next(r.rear) = Slot(q, q.size + 1)
    BY <1>4 DEF WellFormed
  <2>2. Slot(r, r.size + 1) = Slot(q, q.size + 1)
    BY <1>2, <1>4, <1>5
  <2>3. ASSUME NEW i \in 1 .. r.size
        PROVE  r.array[Slot(r, i)] \in Conn
    <3>1. i \in 1 .. QueueCapacity /\ i + 1 \in 1 .. q.size
      BY <1>2, <1>4, QueueAssumption
    <3> QED
      BY <1>4, <1>5, <3>1 DEF WellFormed
  <2> QED
    BY <1>4, <2>1, <2>2, <2>3 DEF WellFormed
<1>7. Contents(q) \in Seq(Conn) /\ Len(Contents(q)) = q.size
      /\ Contents(q) # << >>
  BY ContentsType
<1>8. Head(Contents(q)) = front(q) /\ front(q) \in Conn
  <2>1. Contents(q)[1] = q.array[Slot(q, 1)] /\ q.array[Slot(q, 1)] \in Conn
    BY <1>2 DEF Contents, WellFormed
  <2>2. Slot(q, 1) = q.front
    BY <1>1, SlotFacts
  <2> QED
    BY <1>7, <2>1, <2>2 DEF front
<1>9. Contents(r) = Tail(Contents(q))
  <2>1. Contents(r) \in Seq(Conn) /\ Len(Contents(r)) = q.size - 1
    BY <1>4, <1>6, ContentsType
  <2>2. /\ Tail(Contents(q)) \in Seq(Conn)
        /\ Len(Tail(Contents(q))) = q.size - 1
        /\ \A i \in 1 .. q.size - 1 : Tail(Contents(q))[i] = Contents(q)[i + 1]
    BY <1>7, HeadTailProperties
  <2>3. \A i \in 1 .. q.size - 1 : Contents(r)[i] = Tail(Contents(q))[i]
    <3> SUFFICES ASSUME NEW i \in 1 .. q.size - 1
                 PROVE  Contents(r)[i] = Tail(Contents(q))[i]
      OBVIOUS
    <3>1. Contents(r)[i] = q.array[Slot(r, i)]
      BY <1>4 DEF Contents
    <3>2. i \in 1 .. QueueCapacity /\ i + 1 \in 1 .. q.size
      BY <1>2, QueueAssumption
    <3>3. Contents(q)[i + 1] = q.array[Slot(q, i + 1)]
      BY <3>2 DEF Contents
    <3> QED
      BY <1>5, <2>2, <3>1, <3>2, <3>3
  <2> QED
    BY <2>1, <2>2, <2>3, SeqEqual
<1> QED
  BY <1>6, <1>8, <1>9
=============================================================================
