-------------------------- MODULE ThreadPoolWakeups --------------------------
(***************************************************************************)
(* Proofs about the condition variable and the size of the queue: no       *)
(* wakeup is lost, and a burst no larger than the queue never fills it.    *)
(***************************************************************************)
EXTENDS ThreadPoolProofs

(* The signal main still owes for a task it has already queued.            *)
Owed == IF mpc \in {"unlock", "signal"} THEN 1 ELSE 0

(* The set of workers on their way to a dequeue is finite.                 *)
LEMMA OnTheWayCounts ==
  /\ Cardinality(OnTheWay) \in Nat
  /\ Cardinality(OnTheWay') \in Nat
<1>1. IsFiniteSet(OnTheWay) /\ IsFiniteSet(OnTheWay')
  BY PoolAssumption, FS_Subset DEF OnTheWay
<1> QED
  BY <1>1, FS_CardinalityType

(* It grows by one when a worker joins it ...                              *)
LEMMA OnTheWayJoin ==
  ASSUME NEW w, w \notin OnTheWay, OnTheWay' = OnTheWay \cup {w}
  PROVE  Cardinality(OnTheWay') = Cardinality(OnTheWay) + 1
<1>1. IsFiniteSet(OnTheWay)
  BY PoolAssumption, FS_Subset DEF OnTheWay
<1> QED
  BY <1>1, FS_AddElement

(* ... and shrinks by one when a worker leaves it.                         *)
LEMMA OnTheWayLeave ==
  ASSUME NEW w, w \in OnTheWay, OnTheWay' = OnTheWay \ {w}
  PROVE  Cardinality(OnTheWay') = Cardinality(OnTheWay) - 1
<1>1. IsFiniteSet(OnTheWay)
  BY PoolAssumption, FS_Subset DEF OnTheWay
<1> QED
  BY <1>1, FS_RemoveElement

(* The steps of main keep every queued task provided for: enqueue comes    *)
(* with the debt of a signal, and the signal pays it if anyone waits.      *)
LEMMA WakeupMain ==
  ASSUME ControlInv, NoLostWakeup, MainThread
  PROVE  NoLostWakeup'
<1>1. que.size \in Nat /\ que'.size \in Nat
  BY ControlMain, QueueAssumption DEF ControlInv, TypeOK, Queue
<1>2. CASE MainEnqueue
  <2>1. que'.size = que.size + 1 /\ UNCHANGED wpc
        /\ mpc = "enqueue" /\ mpc' = "unlock"
    BY <1>2 DEF MainEnqueue, MainStep, enqueue
  <2>2. UNCHANGED <<Waiting, OnTheWay>> /\ Owed = 0 /\ Owed' = 1
    BY <2>1 DEF Waiting, OnTheWay, Owed
  <2> QED
    BY <1>1, <2>1, <2>2, OnTheWayCounts DEF NoLostWakeup, Owed
<1>3. CASE MainSignal
  <2>1. UNCHANGED que /\ mpc = "signal" /\ mpc' = "accept"
    BY <1>3 DEF MainSignal, MainStep
  <2>2. CASE Waiting = {} /\ UNCHANGED wpc
    BY <2>2 DEF NoLostWakeup, Waiting
  <2>3. ASSUME NEW w \in Waiting, wpc' = [wpc EXCEPT ![w] = "relock"]
        PROVE  NoLostWakeup'
    <3>1. w \notin OnTheWay /\ OnTheWay' = OnTheWay \cup {w} /\ w \in Worker
      BY <2>3 DEF Waiting, OnTheWay, ControlInv, TypeOK
    <3>2. Cardinality(OnTheWay') = Cardinality(OnTheWay) + 1
      BY <3>1, OnTheWayJoin
    <3> QED
      BY <1>1, <2>1, <2>3, <3>2, OnTheWayCounts DEF NoLostWakeup
  <2> QED
    BY <1>3, <2>2, <2>3 DEF MainSignal
<1>4. CASE MainAccept \/ MainLock \/ MainEnqueueFull \/ MainUnlock
  <2>1. UNCHANGED <<que, wpc>> /\ Owed' = Owed
    BY <1>4 DEF MainAccept, MainLock, MainEnqueueFull, MainUnlock, MainStep, Owed
  <2> QED
    BY <2>1 DEF NoLostWakeup, Waiting, OnTheWay, Owed
<1> QED
  BY <1>2, <1>3, <1>4 DEF MainThread

(* The steps of a worker keep every queued task provided for: a worker     *)
(* starts to wait only on an empty queue, and one that leaves the way to   *)
(* the dequeue takes a task with it.                                       *)
LEMMA WakeupWorker ==
  ASSUME ControlInv, NoLostWakeup, NEW w \in Worker,
         WorkerThread(w) \/ SpuriousWakeup(w) \/ SessionExits(w)
  PROVE  NoLostWakeup'
<1> USE DEF ControlInv, TypeOK, WorkerStep
<1>1. que.size \in Nat /\ que'.size \in Nat
  BY ControlWorker, QueueAssumption DEF Queue
<1>2. CASE WorkerFindsTask(w) \/ SpuriousWakeup(w)
  <2>1. w \notin OnTheWay /\ OnTheWay' = OnTheWay \cup {w}
    BY <1>2 DEF WorkerFindsTask, SpuriousWakeup, OnTheWay
  <2>2. Waiting' \subseteq Waiting /\ UNCHANGED <<que, mpc>>
    BY <1>2 DEF WorkerFindsTask, SpuriousWakeup, Waiting
  <2>3. Cardinality(OnTheWay') = Cardinality(OnTheWay) + 1
    BY <2>1, OnTheWayJoin
  <2> QED
    BY <1>1, <2>2, <2>3, OnTheWayCounts DEF NoLostWakeup
<1>3. CASE WorkerWaits(w)
  <2>1. que'.size = 0
    BY <1>3 DEF WorkerWaits, is_empty
  <2> QED
    BY <2>1, OnTheWayCounts DEF NoLostWakeup
<1>4. CASE WorkerDequeue(w)
  <2>1. w \in OnTheWay /\ OnTheWay' = OnTheWay \ {w}
        /\ que'.size = que.size - 1 /\ Waiting' = Waiting /\ UNCHANGED mpc
    BY <1>4 DEF WorkerDequeue, dequeue, OnTheWay, Waiting, Queue
  <2>2. Cardinality(OnTheWay') = Cardinality(OnTheWay) - 1
    BY <2>1, OnTheWayLeave
  <2> QED
    BY <1>1, <2>1, <2>2, OnTheWayCounts DEF NoLostWakeup
<1>5. CASE \/ WorkerLock(w) \/ WorkerRelock(w) \/ WorkerDequeueEmpty(w)
           \/ WorkerUnlock(w) \/ SessionEnds(w) \/ SessionExits(w)
  <2>1. UNCHANGED <<Waiting, OnTheWay, que, mpc>>
    BY <1>5 DEF WorkerLock, WorkerRelock, WorkerDequeueEmpty, WorkerUnlock,
                SessionEnds, SessionExits, Waiting, OnTheWay
  <2> QED
    BY <2>1 DEF NoLostWakeup
<1> QED
  BY <1>2, <1>3, <1>4, <1>5 DEF WorkerThread

(* While a worker waits on the condition variable (factory.c:1132), every  *)
(* queued task has a worker on its way to dequeue it or the signal of      *)
(* main.c:30 still to come: a wakeup is never lost, although main signals  *)
(* after it has unlocked the mutex.                                        *)
THEOREM WakeupsKept == SafeSpec => []NoLostWakeup
<1>1. Init => NoLostWakeup
  BY DEF Init, NoLostWakeup, Waiting
<1>2. ControlInv /\ NoLostWakeup /\ [Next]_vars => NoLostWakeup'
  <2> SUFFICES ASSUME ControlInv, NoLostWakeup, [Next]_vars
               PROVE  NoLostWakeup'
    OBVIOUS
  <2>1. CASE UNCHANGED <<mpc, wpc, que>>
    BY <2>1 DEF NoLostWakeup, Waiting, OnTheWay
  <2>2. ASSUME NEW c \in Conn, Connect(c) PROVE NoLostWakeup'
    BY <2>1, <2>2 DEF Connect
  <2> QED
    BY <2>1, <2>2, WakeupMain, WakeupWorker DEF Next, Ended, vars
<1> QED
  BY <1>1, <1>2, Control, PTL DEF SafeSpec

-----------------------------------------------------------------------------
(* "Full queue!" (queue.c:70) never ends a server that has at most as many *)
(* open connections as queue_capacity: the ring would have to hold them    *)
(* all while main holds one more.                                          *)
THEOREM SmallBurstNeverFull == SafeSpec => []SmallBurstFits
<1>1. ControlInv /\ OnePlace => SmallBurstFits
  <2> SUFFICES ASSUME ControlInv, OnePlace, IsFiniteSet(Conn),
                      Cardinality(Conn) <= QueueCapacity, halted = "full"
               PROVE  FALSE
    BY DEF SmallBurstFits
  <2> DEFINE s == Contents(que)
             Rest == Conn \ {newElem}
  <2>1. que.size = QueueCapacity /\ newElem \in Conn /\ WellFormed(que)
    BY DEF ControlInv, FullMeansFull, HoldsWhenDue, is_full
  <2>2. s \in Seq(Conn) /\ Len(s) = QueueCapacity /\ DOMAIN s = 1 .. QueueCapacity
    BY <2>1, ContentsType, LenProperties
  <2>3. newElem \notin Range(s) /\ IsInjective(s)
    BY <2>1, QueueAssumption DEF OnePlace, NoneTwice, InHand, Queued
  <2>4. s \in [1 .. QueueCapacity -> Rest]
    <3>1. \A i \in 1 .. QueueCapacity : s[i] \in Conn /\ s[i] \in Range(s)
      BY <2>2 DEF Range
    <3>2. \A i \in 1 .. QueueCapacity : s[i] \in Rest
      BY <3>1, <2>3
    <3>3. s = [i \in 1 .. QueueCapacity |-> s[i]]
      BY <2>2
    <3> QED
      BY <3>2, <3>3
  <2>5. IsFiniteSet(Rest) /\ Cardinality(Rest) = Cardinality(Conn) - 1
    BY <2>1, FS_RemoveElement
  <2>6. /\ IsFiniteSet(1 .. QueueCapacity)
        /\ Cardinality(1 .. QueueCapacity) = QueueCapacity
    BY FS_Interval, QueueAssumption DEF MIN_QUEUE_SIZE
  <2>7. Cardinality(Conn) \in Nat
    BY FS_CardinalityType
  <2>8. Cardinality(Rest) < Cardinality(1 .. QueueCapacity)
    BY <2>5, <2>6, <2>7, QueueAssumption
  <2>9. \E i, j \in 1 .. QueueCapacity : i # j /\ s[i] = s[j]
    BY <2>4, <2>5, <2>6, <2>8, FS_PigeonHole
  <2> QED
    BY <2>2, <2>3, <2>9 DEF IsInjective
<1> QED
  BY <1>1, Control, OnePlaceAlways, PTL
=============================================================================
