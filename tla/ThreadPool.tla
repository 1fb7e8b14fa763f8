------------------------------ MODULE ThreadPool ------------------------------
(***************************************************************************)
(* The server's threads: the accept loop of src/src/main.c, which puts     *)
(* every accepted connection into the task queue and signals the pool's    *)
(* condition variable, and the worker loop handle_client_command of        *)
(* src/src/factory.c, which waits for a task, takes it and serves it.      *)
(*                                                                         *)
(* Every access to the queue is between a lock and an unlock of its mutex, *)
(* so a queue operation is one step; the lock, the emptiness test, the     *)
(* wait, the return from the wait, the dequeue, the unlock and the signal  *)
(* are steps of their own.  The session (ftp_server) is one state of the   *)
(* worker here: it ends, or it ends the process.                           *)
(***************************************************************************)
EXTENDS TaskQueue, FiniteSets, SequencesExt

CONSTANTS
  Worker,           (* the threads start_factory creates (thread_num)      *)
  Main,             (* the thread that runs main                           *)
  Nobody,           (* the owner of a mutex that is free                   *)
  SpuriousWakeups   (* may pthread_cond_wait return without a signal?      *)

ASSUME PoolAssumption ==
  /\ IsFiniteSet(Worker)
  /\ Main \notin Worker
  /\ Nobody \notin Worker \cup {Main}
  /\ SpuriousWakeups \in BOOLEAN

VARIABLES
  outside,   (* connections no client has opened (or that were closed)     *)
  backlog,   (* opened connections the kernel holds until they are accepted *)
  mpc,       (* what main does next                                        *)
  newElem,   (* main's new_elem, until its connection is in the queue      *)
  que,       (* fac.task_queue                                             *)
  mutex,     (* the owner of task_queue->mutex                             *)
  wpc,       (* what each worker does next                                 *)
  newTask,   (* each worker's new_task, until its connection is closed     *)
  halted     (* "no", or why the process ended                             *)

vars == <<outside, backlog, mpc, newElem, que, mutex, wpc, newTask, halted>>

MainLabel == {"accept", "lock", "enqueue", "unlock", "signal"}

(* "wait" is blocked in pthread_cond_wait, "relock" was woken and needs    *)
(* the mutex to return, "resume" has returned; "dequeue" found the queue   *)
(* non-empty and never waited.                                             *)
WorkerLabel == {"lock", "check", "wait", "relock", "resume", "dequeue",
                "unlock", "serve"}

TypeOK ==
  /\ outside \subseteq Conn
  /\ backlog \in Seq(Conn)
  /\ mpc \in MainLabel
  /\ newElem \in Conn \cup {NoConn}
  /\ que \in Queue
  /\ mutex \in Worker \cup {Main, Nobody}
  /\ wpc \in [Worker -> WorkerLabel]
  /\ newTask \in [Worker -> Conn \cup {NoConn}]
  /\ halted \in {"no", "full", "empty", "session"}

(* init_factory and start_factory have run and main has opened its         *)
(* listening socket.                                                       *)
Init ==
  /\ outside = Conn
  /\ backlog = <<>>
  /\ mpc = "accept"
  /\ newElem = NoConn
  /\ que = init_queue
  /\ mutex = Nobody
  /\ wpc = [w \in Worker |-> "lock"]
  /\ newTask = [w \in Worker |-> NoConn]
  /\ halted = "no"

-----------------------------------------------------------------------------
(* A client opens a connection; the kernel queues it for accept.           *)
Connect(c) ==
  /\ halted = "no"
  /\ c \in outside
  /\ outside' = outside \ {c}
  /\ backlog' = Append(backlog, c)
  /\ UNCHANGED <<mpc, newElem, que, mutex, wpc, newTask, halted>>

-----------------------------------------------------------------------------
(* The accept loop of main.                                                *)

MainStep(from, to) ==
  /\ halted = "no"
  /\ mpc = from
  /\ mpc' = to

MainAccept ==
  /\ MainStep("accept", "lock")
  /\ backlog # <<>>
  /\ newElem' = Head(backlog)
  /\ backlog' = Tail(backlog)
  /\ UNCHANGED <<outside, que, mutex, wpc, newTask, halted>>

(* Faulty variant: main does not wait for the mutex.                       *)
MainLockBarges ==
  /\ MainStep("lock", "enqueue")
  /\ mutex' = Main
  /\ UNCHANGED <<outside, backlog, newElem, que, wpc, newTask, halted>>

MainLock ==
  /\ MainStep("lock", "enqueue")
  /\ mutex = Nobody
  /\ mutex' = Main
  /\ UNCHANGED <<outside, backlog, newElem, que, wpc, newTask, halted>>

MainEnqueue ==
  /\ MainStep("enqueue", "unlock")
  /\ ~is_full(que)
  /\ que' = enqueue(que, newElem)
  /\ newElem' = NoConn
  /\ UNCHANGED <<outside, backlog, mutex, wpc, newTask, halted>>

(* enqueue calls Error("Full queue!"), which ends the process.             *)
MainEnqueueFull ==
  /\ halted = "no"
  /\ mpc = "enqueue"
  /\ is_full(que)
  /\ halted' = "full"
  /\ UNCHANGED <<outside, backlog, mpc, newElem, que, mutex, wpc, newTask>>

MainUnlock ==
  /\ MainStep("unlock", "signal")
  /\ mutex' = Nobody
  /\ UNCHANGED <<outside, backlog, newElem, que, wpc, newTask, halted>>

(* pthread_cond_signal wakes one waiting worker, if there is one.          *)
Waiting == {w \in Worker : wpc[w] = "wait"}

(* Faulty variants: main signals only when the queue had been empty; the   *)
(* signal wakes nobody.                                                    *)
MainSignalFirstOnly ==
  /\ MainStep("signal", "accept")
  /\ IF que.size = 1 /\ Waiting # {}
     THEN \E w \in Waiting : wpc' = [wpc EXCEPT ![w] = "relock"]
     ELSE UNCHANGED wpc
  /\ UNCHANGED <<outside, backlog, newElem, que, mutex, newTask, halted>>

MainSignalMissing ==
  /\ MainStep("signal", "accept")
  /\ UNCHANGED <<outside, backlog, newElem, que, mutex, wpc, newTask, halted>>

MainSignal ==
  /\ MainStep("signal", "accept")
  /\ \/ \E w \in Waiting : wpc' = [wpc EXCEPT ![w] = "relock"]
     \/ Waiting = {} /\ UNCHANGED wpc
  /\ UNCHANGED <<outside, backlog, newElem, que, mutex, newTask, halted>>

-----------------------------------------------------------------------------
(* The worker loop handle_client_command.                                  *)

WorkerStep(w, from, to) ==
  /\ halted = "no"
  /\ wpc[w] = from
  /\ wpc' = [wpc EXCEPT ![w] = to]

(* Faulty variant: the worker tests the queue without taking the mutex.    *)
WorkerLockSkipped(w) ==
  /\ WorkerStep(w, "lock", "check")
  /\ UNCHANGED <<outside, backlog, mpc, newElem, que, mutex, newTask, halted>>

WorkerLock(w) ==
  /\ WorkerStep(w, "lock", "check")
  /\ mutex = Nobody
  /\ mutex' = w
  /\ UNCHANGED <<outside, backlog, mpc, newElem, que, newTask, halted>>

WorkerFindsTask(w) ==
  /\ WorkerStep(w, "check", "dequeue")
  /\ ~is_empty(que)
  /\ UNCHANGED <<outside, backlog, mpc, newElem, que, mutex, newTask, halted>>

(* pthread_cond_wait releases the mutex and blocks in one step.            *)
WorkerWaits(w) ==
  /\ WorkerStep(w, "check", "wait")
  /\ is_empty(que)
  /\ mutex' = Nobody
  /\ UNCHANGED <<outside, backlog, mpc, newElem, que, newTask, halted>>

SpuriousWakeup(w) ==
  /\ SpuriousWakeups
  /\ WorkerStep(w, "wait", "relock")
  /\ UNCHANGED <<outside, backlog, mpc, newElem, que, mutex, newTask, halted>>

(* The wait returns with the mutex; an `if`, not a loop, encloses it, so   *)
(* the queue is not looked at again.                                       *)
WorkerRelock(w) ==
  /\ WorkerStep(w, "relock", "resume")
  /\ mutex = Nobody
  /\ mutex' = w
  /\ UNCHANGED <<outside, backlog, mpc, newElem, que, newTask, halted>>

WorkerDequeue(w) ==
  /\ \E from \in {"dequeue", "resume"} : WorkerStep(w, from, "unlock")
  /\ ~is_empty(que)
  /\ newTask' = [newTask EXCEPT ![w] = front(que)]
  /\ que' = dequeue(que)
  /\ UNCHANGED <<outside, backlog, mpc, newElem, mutex, halted>>

(* front calls Error("Empty queue!"), which ends the process.              *)
WorkerDequeueEmpty(w) ==
  /\ halted = "no"
  /\ wpc[w] \in {"dequeue", "resume"}
  /\ is_empty(que)
  /\ halted' = "empty"
  /\ UNCHANGED <<outside, backlog, mpc, newElem, que, mutex, wpc, newTask>>

WorkerUnlock(w) ==
  /\ WorkerStep(w, "unlock", "serve")
  /\ mutex' = Nobody
  /\ UNCHANGED <<outside, backlog, mpc, newElem, que, newTask, halted>>

(* ftp_server returns and the worker closes the connection.                *)
SessionEnds(w) ==
  /\ WorkerStep(w, "serve", "lock")
  /\ outside' = outside \cup {newTask[w]}
  /\ newTask' = [newTask EXCEPT ![w] = NoConn]
  /\ UNCHANGED <<backlog, mpc, newElem, que, mutex, halted>>

(* An ERROR_CHECK inside ftp_server (recv, send, bind, ...) calls exit.    *)
SessionExits(w) ==
  /\ halted = "no"
  /\ wpc[w] = "serve"
  /\ halted' = "session"
  /\ UNCHANGED <<outside, backlog, mpc, newElem, que, mutex, wpc, newTask>>

-----------------------------------------------------------------------------
MainThread == \/ MainAccept \/ MainLock \/ MainEnqueue \/ MainEnqueueFull
              \/ MainUnlock \/ MainSignal

WorkerThread(w) == \/ WorkerLock(w) \/ WorkerFindsTask(w) \/ WorkerWaits(w)
                   \/ WorkerRelock(w) \/ WorkerDequeue(w)
                   \/ WorkerDequeueEmpty(w) \/ WorkerUnlock(w)
                   \/ SessionEnds(w)

(* The ended process takes no step: a state without successors that is     *)
(* not of this kind is a deadlock of the threads.                          *)
Ended == halted # "no" /\ UNCHANGED vars

Next == \/ \E c \in Conn : Connect(c)
        \/ MainThread
        \/ \E w \in Worker : WorkerThread(w) \/ SpuriousWakeup(w)
                             \/ SessionExits(w)
        \/ Ended

(* The scheduler runs every thread that can run; glibc's mutex promises no *)
(* more than that, so fairness is weak.  That a session ends is the        *)
(* client's doing and is assumed.  No client need connect, no wakeup need  *)
(* be spurious and no session need exit.                                   *)
Fairness == /\ WF_vars(MainThread)
            /\ \A w \in Worker : WF_vars(WorkerThread(w))

SafeSpec == Init /\ [][Next]_vars

Spec == SafeSpec /\ Fairness

-----------------------------------------------------------------------------
(* Where a connection can be, between its opening and its closing.         *)

Arrived == Range(backlog)

InHand == {newElem} \ {NoConn}

Queued == Range(Contents(que))

Held == Range(newTask) \ {NoConn}

(* No connection is lost and none is handed out twice: each is in exactly  *)
(* one of the places above, at one position of a queue, with one worker.   *)
NoneLost == outside \cup Arrived \cup InHand \cup Queued \cup Held = Conn

NoneTwice ==
  /\ outside \cap (Arrived \cup InHand \cup Queued \cup Held) = {}
  /\ Arrived \cap (InHand \cup Queued \cup Held) = {}
  /\ InHand \cap (Queued \cup Held) = {}
  /\ Queued \cap Held = {}
  /\ IsInjective(backlog)
  /\ IsInjective(Contents(que))
  /\ \A v, w \in Worker :
       newTask[v] = newTask[w] /\ newTask[v] # NoConn => v = w

OnePlace == NoneLost /\ NoneTwice

(* A wakeup is never lost: as long as a worker still waits, every queued   *)
(* task has a worker on its way to the dequeue or a signal still to come.  *)
OnTheWay == {w \in Worker : wpc[w] \in {"relock", "resume", "dequeue"}}

NoLostWakeup ==
  Waiting # {} =>
    que.size <= Cardinality(OnTheWay)
                + (IF mpc \in {"unlock", "signal"} THEN 1 ELSE 0)

(* A worker that found the queue non-empty still finds it so when it       *)
(* dequeues: "Empty queue!" can only end the process after a wait.         *)
CheckedStaysNonEmpty ==
  \A w \in Worker : wpc[w] = "dequeue" => ~is_empty(que)

(* The mutex is held exactly by the thread that is between its lock and    *)
(* its unlock, so the queue has one user at a time.                        *)
LockDiscipline ==
  /\ mpc \in {"enqueue", "unlock"} <=> mutex = Main
  /\ \A w \in Worker :
       wpc[w] \in {"check", "resume", "dequeue", "unlock"} <=> mutex = w

(* main holds a connection from accept to enqueue, a worker from dequeue   *)
(* to close.                                                               *)
HoldsWhenDue ==
  /\ mpc \in {"lock", "enqueue"} <=> newElem \in Conn
  /\ \A w \in Worker : wpc[w] \in {"unlock", "serve"} <=> newTask[w] \in Conn

(* "Full queue!" ends the process only in main's enqueue.                  *)
FullMeansFull == halted = "full" => is_full(que) /\ mpc = "enqueue"

(* The inductive invariant of the threads' control.                        *)
ControlInv ==
  /\ TypeOK
  /\ WellFormed(que)
  /\ LockDiscipline
  /\ HoldsWhenDue
  /\ CheckedStaysNonEmpty
  /\ FullMeansFull

(* The log line of factory.c:1135 ("the queue is not empty, I will work"), *)
(* which every worker reaches before it dequeues.                          *)
AwakeMeansTask ==
  \A w \in Worker : wpc[w] \in {"dequeue", "resume"} => ~is_empty(que)

(* As many connections as the queue has slots never overflow it, however   *)
(* slow the workers are.                                                   *)
SmallBurstFits ==
  IsFiniteSet(Conn) /\ Cardinality(Conn) <= QueueCapacity => halted # "full"

(* A connection a client opened is served in the end, unless the process   *)
(* ended.                                                                  *)
EveryConnectionServed ==
  \A c \in Conn : c \in Arrived ~> (c \in Held \/ halted # "no")

(* The pool keeps the promise of ConnectionDispatch.                       *)
Dispatch == INSTANCE ConnectionDispatch WITH
  line    <- Contents(que),
  serving <- newTask,
  down    <- (halted # "no")

DispatchSpec == Dispatch!Spec
=============================================================================
