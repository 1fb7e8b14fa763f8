--------------------------- MODULE ThreadPoolProofs ---------------------------
(***************************************************************************)
(* Proofs about the thread pool, for any numbers of workers, connections   *)
(* and queue slots, with and without spurious wakeups.                     *)
(***************************************************************************)
EXTENDS ThreadPool, TaskQueueProofs, FiniteSetTheorems

(* The initial states satisfy the control invariant.                       *)
LEMMA ControlInit == Init => ControlInv
<1> SUFFICES ASSUME Init PROVE ControlInv
  OBVIOUS
<1> USE PoolAssumption, QueueAssumption
<1>1. WellFormed(que) /\ is_empty(que)
  BY InitQueueEmpty DEF Init, init_queue, is_empty
<1>2. TypeOK
  BY <1>1, EmptySeq DEF Init, TypeOK, WellFormed, MainLabel, WorkerLabel
<1>3. LockDiscipline /\ HoldsWhenDue
  BY DEF Init, LockDiscipline, HoldsWhenDue
<1>4. CheckedStaysNonEmpty /\ FullMeansFull
  BY DEF Init, CheckedStaysNonEmpty, FullMeansFull
<1> QED
  BY <1>1, <1>2, <1>3, <1>4 DEF ControlInv

(* The steps of clients and of main keep the control invariant.            *)
LEMMA ControlMain ==
  ASSUME ControlInv, (\E c \in Conn : Connect(c)) \/ MainThread
  PROVE  ControlInv'
<1> USE PoolAssumption, QueueAssumption
    DEF ControlInv, TypeOK, LockDiscipline, HoldsWhenDue, CheckedStaysNonEmpty,
        FullMeansFull, MainStep, MainLabel, WorkerLabel
<1>1. ASSUME NEW c \in Conn, Connect(c) PROVE ControlInv'
  BY <1>1, AppendProperties DEF Connect
<1>2. CASE MainAccept
  BY <1>2, HeadTailProperties DEF MainAccept
<1>3. CASE MainLock
  BY <1>3 DEF MainLock
<1>4. CASE MainEnqueue
  <2>1. newElem \in Conn /\ ~is_full(que) /\ que' = enqueue(que, newElem)
    BY <1>4 DEF MainEnqueue
  <2>2. WellFormed(que')
    BY <2>1, EnqueueAppends
  <2>3. que' \in Queue
    BY <2>2 DEF WellFormed
  <2>4. halted # "full" /\ halted' = halted
    BY <1>4 DEF MainEnqueue
  <2>5. \A w \in Worker : wpc[w] # "dequeue"
    BY <1>4 DEF MainEnqueue
  <2> QED
    BY <1>4, <2>1, <2>2, <2>3, <2>4, <2>5 DEF MainEnqueue
<1>5. CASE MainEnqueueFull
  BY <1>5 DEF MainEnqueueFull
<1>6. CASE MainUnlock
  BY <1>6 DEF MainUnlock
<1>7. CASE MainSignal
  <2>1. CASE UNCHANGED wpc
    BY <1>7, <2>1 DEF MainSignal
  <2>2. ASSUME NEW w \in Waiting, wpc' = [wpc EXCEPT ![w] = "relock"]
        PROVE  ControlInv'
    BY <1>7, <2>2 DEF MainSignal, Waiting
  <2> QED
    BY <1>7, <2>1, <2>2 DEF MainSignal
<1> QED
  BY <1>1, <1>2, <1>3, <1>4, <1>5, <1>6, <1>7 DEF MainThread

(* The steps of a worker keep the control invariant.                       *)
LEMMA ControlWorker ==
  ASSUME ControlInv, NEW w \in Worker,
         WorkerThread(w) \/ SpuriousWakeup(w) \/ SessionExits(w)
  PROVE  ControlInv'
<1> USE PoolAssumption, QueueAssumption
    DEF ControlInv, TypeOK, LockDiscipline, HoldsWhenDue, CheckedStaysNonEmpty,
        FullMeansFull, WorkerStep, MainLabel, WorkerLabel
<1>1. CASE WorkerLock(w)
  BY <1>1 DEF WorkerLock
<1>2. CASE WorkerFindsTask(w)
  BY <1>2 DEF WorkerFindsTask
<1>3. CASE WorkerWaits(w)
  BY <1>3 DEF WorkerWaits
<1>4. CASE SpuriousWakeup(w)
  BY <1>4 DEF SpuriousWakeup
<1>5. CASE WorkerRelock(w)
  BY <1>5 DEF WorkerRelock
<1>6. CASE WorkerDequeue(w)
  <2>1. ~is_empty(que) /\ que' = dequeue(que)
        /\ newTask' = [newTask EXCEPT ![w] = front(que)]
    BY <1>6 DEF WorkerDequeue
  <2>2. WellFormed(que') /\ front(que) \in Conn
    BY <2>1, DequeueRemovesHead
  <2>3. que' \in Queue
    BY <2>2 DEF WellFormed
  <2>4. halted # "full" /\ halted' = halted
    BY <1>6 DEF WorkerDequeue
  <2>5. wpc[w] \in {"dequeue", "resume"} /\ wpc' = [wpc EXCEPT ![w] = "unlock"]
    BY <1>6 DEF WorkerDequeue
  <2>6. mutex = w /\ \A v \in Worker : wpc[v] = "dequeue" => v = w
    BY <2>5
  <2> QED
    BY <1>6, <2>1, <2>2, <2>3, <2>4, <2>5, <2>6 DEF WorkerDequeue
<1>7. CASE WorkerDequeueEmpty(w)
  BY <1>7 DEF WorkerDequeueEmpty
<1>8. CASE WorkerUnlock(w)
  BY <1>8 DEF WorkerUnlock
<1>9. CASE SessionEnds(w)
  BY <1>9 DEF SessionEnds
<1>10. CASE SessionExits(w)
  BY <1>10 DEF SessionExits
<1> QED
  BY <1>1, <1>2, <1>3, <1>4, <1>5, <1>6, <1>7, <1>8, <1>9, <1>10
     DEF WorkerThread

(* A step that changes nothing keeps it.                                   *)
LEMMA ControlStutter ==
  ASSUME ControlInv, UNCHANGED vars
  PROVE  ControlInv'
BY DEF vars, ControlInv, TypeOK, LockDiscipline, HoldsWhenDue,
       CheckedStaysNonEmpty, FullMeansFull

(* The threads' control invariant: types, the ring's representation, the   *)
(* mutex held exactly between lock and unlock, and a worker that found the *)
(* queue non-empty (factory.c:1130) still finds it so at its dequeue.      *)
THEOREM Control == SafeSpec => []ControlInv
<1>1. ControlInv /\ [Next]_vars => ControlInv'
  BY ControlMain, ControlWorker, ControlStutter DEF Next, Ended
<1> QED
  BY ControlInit, <1>1, PTL DEF SafeSpec

(* The types of the pool's state, for any constants.                       *)
THEOREM TypeCorrect == SafeSpec => []TypeOK
BY Control, PTL DEF ControlInv

(* A worker whose emptiness test (factory.c:1130) found a task dequeues a  *)
(* queue that still has one, whatever main and the other workers do.       *)
THEOREM CheckedTaskStays == SafeSpec => []CheckedStaysNonEmpty
BY Control, PTL DEF ControlInv

-----------------------------------------------------------------------------
(* Appending an element to a sequence that has it nowhere adds it to the   *)
(* range and keeps the elements distinct.                                  *)
LEMMA AppendDistinct ==
  ASSUME NEW S, NEW s \in Seq(S), NEW e \in S
  PROVE  /\ Range(Append(s, e)) = Range(s) \cup {e}
         /\ IsInjective(s) /\ e \notin Range(s) => IsInjective(Append(s, e))
<1> DEFINE t == Append(s, e)
<1>1. /\ Len(s) \in Nat /\ DOMAIN s = 1 .. Len(s)
      /\ t \in Seq(S) /\ Len(t) = Len(s) + 1 /\ DOMAIN t = 1 .. Len(t)
      /\ \A i \in 1 .. Len(s) : t[i] = s[i]
      /\ t[Len(s) + 1] = e
  BY AppendProperties, LenProperties
<1>2. \A i \in DOMAIN t : i \in DOMAIN s \/ i = Len(s) + 1
  BY <1>1
<1>3. DOMAIN s \subseteq DOMAIN t /\ Len(s) + 1 \in DOMAIN t
  BY <1>1
<1> QED
  BY <1>1, <1>2, <1>3 DEF Range, IsInjective

(* Removing the head of a sequence of distinct elements removes it from    *)
(* the range and keeps the rest distinct.                                  *)
LEMMA TailDistinct ==
  ASSUME NEW S, NEW s \in Seq(S), s # << >>, IsInjective(s)
  PROVE  /\ Head(s) \in Range(s)
         /\ Range(Tail(s)) = Range(s) \ {Head(s)}
         /\ IsInjective(Tail(s))
<1> DEFINE t == Tail(s)
<1>1. /\ Len(s) \in Nat \ {0} /\ DOMAIN s = 1 .. Len(s)
      /\ t \in Seq(S) /\ Len(t) = Len(s) - 1 /\ DOMAIN t = 1 .. Len(t)
      /\ \A i \in 1 .. Len(t) : t[i] = s[i + 1]
      /\ Head(s) = s[1]
  BY HeadTailProperties, LenProperties, EmptySeq
<1>2. 1 \in DOMAIN s /\ \A i \in DOMAIN t : i + 1 \in DOMAIN s /\ i + 1 # 1
  BY <1>1
<1>3. \A j \in DOMAIN s : j # 1 => j - 1 \in DOMAIN t /\ t[j - 1] = s[j]
  BY <1>1
<1>4. Range(t) = Range(s) \ {s[1]}
  <2>1. ASSUME NEW i \in DOMAIN t
        PROVE  t[i] \in Range(s) /\ t[i] # s[1]
    BY <1>1, <1>2 DEF Range, IsInjective
  <2>2. ASSUME NEW j \in DOMAIN s, s[j] # s[1]
        PROVE  s[j] \in Range(t)
    <3>1. j - 1 \in DOMAIN t /\ t[j - 1] = s[j]
      BY <1>3, <2>2
    <3> QED
      BY <3>1 DEF Range
  <2> QED
    BY <2>1, <2>2 DEF Range
<1>5. IsInjective(t)
  <2> SUFFICES ASSUME NEW i \in DOMAIN t, NEW j \in DOMAIN t, t[i] = t[j]
               PROVE  i = j
    BY DEF IsInjective
  <2>1. s[i + 1] = s[j + 1] /\ i + 1 \in DOMAIN s /\ j + 1 \in DOMAIN s
    BY <1>1, <1>2
  <2>2. i + 1 = j + 1
    BY <2>1 DEF IsInjective
  <2> QED
    BY <1>1, <2>2
<1> QED
  BY <1>1, <1>2, <1>4, <1>5 DEF Range

-----------------------------------------------------------------------------
(* At first every connection is outside.                                   *)
LEMMA OnePlaceInit == Init => OnePlace
<1> SUFFICES ASSUME Init PROVE OnePlace
  OBVIOUS
<1>1. Contents(que) = << >> /\ backlog = << >>
  BY InitQueueEmpty DEF Init
<1>2. Queued = {} /\ Arrived = {} /\ IsInjective(backlog)
      /\ IsInjective(Contents(que))
  BY <1>1 DEF Queued, Arrived, Range, IsInjective
<1>3. InHand = {} /\ Held = {}
  BY DEF Init, InHand, Held, Range
<1> QED
  BY <1>2, <1>3 DEF Init, OnePlace, NoneLost, NoneTwice

(* A step that leaves the connections where they are.                      *)
LEMMA OnePlaceKept ==
  ASSUME OnePlace, UNCHANGED <<outside, backlog, newElem, que, newTask>>
  PROVE  OnePlace'
BY DEF OnePlace, NoneLost, NoneTwice, Arrived, InHand, Queued, Held

(* A client's connection moves from outside to the backlog.                *)
LEMMA OnePlaceConnect ==
  ASSUME ControlInv, OnePlace, NEW c \in Conn, Connect(c)
  PROVE  OnePlace'
<1>1. backlog \in Seq(Conn) /\ backlog' = Append(backlog, c)
      /\ outside' = outside \ {c} /\ c \in outside
  BY DEF ControlInv, TypeOK, Connect
<1>2. c \notin Arrived /\ IsInjective(backlog)
  BY <1>1 DEF OnePlace, NoneTwice
<1>3. Arrived' = Arrived \cup {c} /\ IsInjective(backlog')
  BY <1>1, <1>2, AppendDistinct DEF Arrived
<1>4. UNCHANGED <<InHand, Queued, Held>> /\ UNCHANGED <<newTask, que>>
  BY DEF Connect, InHand, Queued, Held
<1> QED
  BY <1>1, <1>3, <1>4 DEF OnePlace, NoneLost, NoneTwice

(* accept moves the oldest connection of the backlog into main's hand.     *)
LEMMA OnePlaceAccept ==
  ASSUME ControlInv, OnePlace, MainAccept
  PROVE  OnePlace'
<1>1. backlog \in Seq(Conn) /\ backlog # << >> /\ backlog' = Tail(backlog)
      /\ newElem' = Head(backlog) /\ mpc = "accept"
      /\ newElem \in Conn \cup {NoConn}
  BY DEF ControlInv, TypeOK, MainAccept, MainStep
<1>2. newElem = NoConn /\ InHand = {}
  BY <1>1 DEF ControlInv, HoldsWhenDue, InHand
<1>3. /\ Head(backlog) \in Arrived
      /\ Arrived' = Arrived \ {Head(backlog)} /\ IsInjective(backlog')
  BY <1>1, TailDistinct DEF OnePlace, NoneTwice, Arrived
<1>4. Head(backlog) \in Conn /\ InHand' = {Head(backlog)}
  BY <1>1, HeadTailProperties, QueueAssumption DEF InHand
<1>5. UNCHANGED <<Queued, Held, outside, newTask, que>>
  BY DEF MainAccept, Queued, Held
<1> QED
  BY <1>2, <1>3, <1>4, <1>5 DEF OnePlace, NoneLost, NoneTwice

(* enqueue moves main's connection to the end of the queue.                *)
LEMMA OnePlaceEnqueue ==
  ASSUME ControlInv, OnePlace, MainEnqueue
  PROVE  OnePlace'
<1>1. newElem \in Conn /\ ~is_full(que) /\ que' = enqueue(que, newElem)
      /\ newElem' = NoConn /\ WellFormed(que)
  BY DEF ControlInv, HoldsWhenDue, MainEnqueue, MainStep
<1>2. Contents(que') = Append(Contents(que), newElem)
      /\ Contents(que) \in Seq(Conn)
  BY <1>1, EnqueueAppends, ContentsType
<1>3. InHand = {newElem} /\ InHand' = {}
  BY <1>1, QueueAssumption DEF InHand
<1>4. newElem \notin Queued /\ IsInjective(Contents(que))
  BY <1>3 DEF OnePlace, NoneTwice
<1>5. Queued' = Queued \cup {newElem} /\ IsInjective(Contents(que'))
  BY <1>1, <1>2, <1>4, AppendDistinct DEF Queued
<1>6. UNCHANGED <<Arrived, Held, outside, newTask, backlog>>
  BY DEF MainEnqueue, Arrived, Held
<1> QED
  BY <1>3, <1>4, <1>5, <1>6 DEF OnePlace, NoneLost, NoneTwice

(* dequeue moves the oldest queued connection to a worker.                 *)
LEMMA OnePlaceDequeue ==
  ASSUME ControlInv, OnePlace, NEW w \in Worker, WorkerDequeue(w)
  PROVE  OnePlace'
<1> DEFINE h == front(que)
<1>1. ~is_empty(que) /\ que' = dequeue(que) /\ WellFormed(que)
      /\ newTask' = [newTask EXCEPT ![w] = h]
      /\ newTask \in [Worker -> Conn \cup {NoConn}]
      /\ wpc[w] \in {"dequeue", "resume"}
  BY DEF ControlInv, TypeOK, WorkerDequeue, WorkerStep
<1>2. newTask[w] = NoConn
  BY <1>1 DEF ControlInv, HoldsWhenDue
<1>3. h \in Conn /\ h = Head(Contents(que))
      /\ Contents(que') = Tail(Contents(que))
      /\ Contents(que) \in Seq(Conn) /\ Contents(que) # << >>
  BY <1>1, DequeueRemovesHead, ContentsType
<1>4. h \in Queued /\ Queued' = Queued \ {h} /\ IsInjective(Contents(que'))
  BY <1>3, TailDistinct DEF OnePlace, NoneTwice, Queued
<1>5. Held' = Held \cup {h}
  BY <1>1, <1>2, <1>3, QueueAssumption DEF Held, Range
<1>6. h \notin Held
  BY <1>4 DEF OnePlace, NoneTwice
<1>7. \A v \in Worker : newTask[v] # h
  BY <1>1, <1>3, <1>6, QueueAssumption DEF Held, Range
<1>8. ASSUME NEW v \in Worker, NEW u \in Worker,
             newTask'[v] = newTask'[u], newTask'[v] # NoConn
      PROVE  v = u
  BY <1>1, <1>7, <1>8 DEF OnePlace, NoneTwice
<1>9. UNCHANGED <<Arrived, InHand, outside, backlog>>
  BY DEF WorkerDequeue, Arrived, InHand
<1> QED
  BY <1>4, <1>5, <1>6, <1>8, <1>9 DEF OnePlace, NoneLost, NoneTwice

(* close puts a worker's connection outside again.                         *)
LEMMA OnePlaceClose ==
  ASSUME ControlInv, OnePlace, NEW w \in Worker, SessionEnds(w)
  PROVE  OnePlace'
<1> DEFINE c == newTask[w]
<1>1. newTask' = [newTask EXCEPT ![w] = NoConn] /\ outside' = outside \cup {c}
      /\ newTask \in [Worker -> Conn \cup {NoConn}] /\ c \in Conn
  BY DEF ControlInv, TypeOK, HoldsWhenDue, SessionEnds, WorkerStep
<1>2. \A v \in Worker : newTask[v] = c => v = w
  BY <1>1, QueueAssumption DEF OnePlace, NoneTwice
<1>3. c \in Held /\ Held' = Held \ {c}
  BY <1>1, <1>2, QueueAssumption DEF Held, Range
<1>4. ASSUME NEW v \in Worker, NEW u \in Worker,
             newTask'[v] = newTask'[u], newTask'[v] # NoConn
      PROVE  v = u
  BY <1>1, <1>4 DEF OnePlace, NoneTwice
<1>5. UNCHANGED <<Arrived, InHand, Queued, backlog, que>>
  BY DEF SessionEnds, Arrived, InHand, Queued
<1> QED
  BY <1>1, <1>3, <1>4, <1>5 DEF OnePlace, NoneLost, NoneTwice

(* Every connection is in exactly one place: outside, in the kernel's      *)
(* backlog, in main's hand, at one position of the queue or with one       *)
(* worker.  So accept, enqueue, dequeue and close lose none and hand none  *)
(* out twice, whatever the interleaving of the threads.                    *)
THEOREM OnePlaceAlways == SafeSpec => []OnePlace
<1>1. ControlInv /\ OnePlace /\ [Next]_vars => OnePlace'
  <2> SUFFICES ASSUME ControlInv, OnePlace, [Next]_vars
               PROVE  OnePlace'
    OBVIOUS
  <2>1. ASSUME NEW c \in Conn, Connect(c) PROVE OnePlace'
    BY <2>1, OnePlaceConnect
  <2>2. CASE MainThread
    <3>1. CASE MainAccept
      BY <3>1, OnePlaceAccept
    <3>2. CASE MainEnqueue
      BY <3>2, OnePlaceEnqueue
    <3>3. CASE MainLock \/ MainEnqueueFull \/ MainUnlock \/ MainSignal
      BY <3>3, OnePlaceKept
         DEF MainLock, MainEnqueueFull, MainUnlock, MainSignal
    <3> QED
      BY <2>2, <3>1, <3>2, <3>3 DEF MainThread
  <2>3. ASSUME NEW w \in Worker,
               WorkerThread(w) \/ SpuriousWakeup(w) \/ SessionExits(w)
        PROVE  OnePlace'
    <3>1. CASE WorkerDequeue(w)
      BY <3>1, OnePlaceDequeue
    <3>2. CASE SessionEnds(w)
      BY <3>2, OnePlaceClose
    <3>3. CASE \/ WorkerLock(w) \/ WorkerFindsTask(w) \/ WorkerWaits(w)
               \/ SpuriousWakeup(w) \/ WorkerRelock(w) \/ WorkerDequeueEmpty(w)
               \/ WorkerUnlock(w) \/ SessionExits(w)
      BY <3>3, OnePlaceKept
         DEF WorkerLock, WorkerFindsTask, WorkerWaits, SpuriousWakeup,
             WorkerRelock, WorkerDequeueEmpty, WorkerUnlock, SessionExits
    <3> QED
      BY <2>3, <3>1, <3>2, <3>3 DEF WorkerThread
  <2>4. CASE UNCHANGED vars
    BY <2>4, OnePlaceKept DEF vars
  <2> QED
    BY <2>1, <2>2, <2>3, <2>4 DEF Next, Ended
<1> QED
  BY OnePlaceInit, <1>1, Control, PTL DEF SafeSpec

-----------------------------------------------------------------------------
(* The thread pool implements ConnectionDispatch: with the ring read as    *)
(* the line of waiting connections, every step of main and of a worker is  *)
(* one arrival, one hand-over, one departure, the end of the process, or   *)
(* no step at all.                                                         *)

(* The empty ring is the empty line, and no worker serves anybody yet.     *)
LEMMA RefineInit == Init => Dispatch!Init
<1> SUFFICES ASSUME Init PROVE Dispatch!Init
  OBVIOUS
<1>1. Contents(que) = << >>
  BY InitQueueEmpty DEF Init
<1> QED
  BY <1>1 DEF Init, Dispatch!Init

(* enqueue is an arrival: its connection is neither queued nor served.     *)
LEMMA RefineArrive ==
  ASSUME ControlInv, OnePlace, MainEnqueue
  PROVE  Dispatch!Arrive(newElem) /\ newElem \in Conn
<1>1. newElem \in Conn /\ ~is_full(que) /\ que' = enqueue(que, newElem)
      /\ WellFormed(que) /\ halted = "no" /\ UNCHANGED <<newTask, halted>>
  BY DEF ControlInv, HoldsWhenDue, MainEnqueue, MainStep
<1>2. Contents(que') = Append(Contents(que), newElem)
  BY <1>1, EnqueueAppends
<1>3. newElem \in InHand
  BY <1>1, QueueAssumption DEF InHand
<1>4. newElem \notin Queued /\ newElem \notin Held
  BY <1>3 DEF OnePlace, NoneTwice
<1>5. \A i \in DOMAIN Contents(que) : Contents(que)[i] # newElem
  BY <1>4 DEF Queued, Range
<1>6. newTask \in [Worker -> Conn \cup {NoConn}]
  BY DEF ControlInv, TypeOK
<1>7. \A w \in Worker : newTask[w] # newElem
  BY <1>1, <1>4, <1>6, QueueAssumption DEF Held, Range
<1> QED
  BY <1>1, <1>2, <1>5, <1>7 DEF Dispatch!Arrive

(* dequeue hands the head of the line to a worker that serves nobody.      *)
LEMMA RefineTake ==
  ASSUME ControlInv, NEW w \in Worker, WorkerDequeue(w)
  PROVE  Dispatch!Take(w)
<1>1. ~is_empty(que) /\ que' = dequeue(que) /\ WellFormed(que)
      /\ newTask' = [newTask EXCEPT ![w] = front(que)]
      /\ halted = "no" /\ UNCHANGED halted /\ wpc[w] \in {"dequeue", "resume"}
  BY DEF ControlInv, WorkerDequeue, WorkerStep
<1>2. newTask[w] = NoConn
  BY <1>1 DEF ControlInv, TypeOK, HoldsWhenDue
<1>3. front(que) = Head(Contents(que)) /\ Contents(que) # << >>
      /\ Contents(que') = Tail(Contents(que))
  BY <1>1, DequeueRemovesHead, ContentsType
<1> QED
  BY <1>1, <1>2, <1>3 DEF Dispatch!Take

(* close is a departure.                                                   *)
LEMMA RefineFinish ==
  ASSUME ControlInv, NEW w \in Worker, SessionEnds(w)
  PROVE  Dispatch!Finish(w)
<1>1. newTask[w] \in Conn /\ newTask' = [newTask EXCEPT ![w] = NoConn]
      /\ halted = "no" /\ UNCHANGED <<que, halted>>
  BY DEF ControlInv, HoldsWhenDue, SessionEnds, WorkerStep
<1> QED
  BY <1>1, QueueAssumption DEF Dispatch!Finish

(* A call of exit() ends the process; nothing else changes.                *)
LEMMA RefineGoDown ==
  ASSUME halted = "no", halted' # "no", UNCHANGED <<que, newTask>>
  PROVE  Dispatch!GoDown
BY DEF Dispatch!GoDown

(* Every other step is none of the abstract system's.                      *)
LEMMA RefineStutter ==
  ASSUME UNCHANGED <<que, newTask, halted>>
  PROVE  UNCHANGED Dispatch!vars
BY DEF Dispatch!vars

(* The pool implements ConnectionDispatch: connections are handed to       *)
(* workers in the order main accepted them, each to one idle worker, none  *)
(* twice and none after the process ended.                                 *)
THEOREM PoolImplementsDispatch == SafeSpec => Dispatch!SafeSpec
<1>1. ControlInv /\ OnePlace /\ [Next]_vars => [Dispatch!Next]_(Dispatch!vars)
  <2> SUFFICES ASSUME ControlInv, OnePlace, [Next]_vars
               PROVE  Dispatch!Next \/ UNCHANGED Dispatch!vars
    OBVIOUS
  <2>1. CASE MainEnqueue
    BY <2>1, RefineArrive DEF Dispatch!Next
  <2>2. CASE MainEnqueueFull
    BY <2>2, RefineGoDown DEF MainEnqueueFull, Dispatch!Next
  <2>3. ASSUME NEW w \in Worker, WorkerDequeue(w)
        PROVE  Dispatch!Next
    BY <2>3, RefineTake DEF Dispatch!Next
  <2>4. ASSUME NEW w \in Worker, SessionEnds(w)
        PROVE  Dispatch!Next
    BY <2>4, RefineFinish DEF Dispatch!Next
  <2>5. ASSUME NEW w \in Worker, WorkerDequeueEmpty(w) \/ SessionExits(w)
        PROVE  Dispatch!Next
    <3>1. halted = "no" /\ halted' # "no" /\ UNCHANGED <<que, newTask>>
      BY <2>5 DEF WorkerDequeueEmpty, SessionExits
    <3> QED
      BY <3>1, RefineGoDown DEF Dispatch!Next
  <2>6. CASE \/ \E c \in Conn : Connect(c)
             \/ MainAccept \/ MainLock \/ MainUnlock \/ MainSignal
             \/ Ended \/ UNCHANGED vars
    BY <2>6, RefineStutter
       DEF Connect, MainAccept, MainLock, MainUnlock, MainSignal, Ended, vars
  <2>7. ASSUME NEW w \in Worker,
               \/ WorkerLock(w) \/ WorkerFindsTask(w) \/ WorkerWaits(w)
               \/ SpuriousWakeup(w) \/ WorkerRelock(w) \/ WorkerUnlock(w)
        PROVE  UNCHANGED Dispatch!vars
    BY <2>7, RefineStutter
       DEF WorkerLock, WorkerFindsTask, WorkerWaits, SpuriousWakeup,
           WorkerRelock, WorkerUnlock
  <2> QED
    BY <2>1, <2>2, <2>3, <2>4, <2>5, <2>6, <2>7
       DEF Next, MainThread, WorkerThread
<1> QED
  BY RefineInit, <1>1, Control, OnePlaceAlways, PTL
     DEF SafeSpec, Dispatch!SafeSpec
=============================================================================
