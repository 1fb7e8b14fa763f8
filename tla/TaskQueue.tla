------------------------------ MODULE TaskQueue ------------------------------
(***************************************************************************)
(* The task queue of src/src/queue.c: a ring of QueueCapacity slots with   *)
(* the index of the oldest element (front), the index of the newest one    *)
(* (rear, -1 before the first enqueue) and the number of elements (size).  *)
(* An element (elem_t) is one accepted connection.                         *)
(*                                                                         *)
(* The operators are the functions of queue.c without their calls to       *)
(* exit(): the module that uses them tests is_full before enqueue and      *)
(* is_empty before dequeue, as the functions do, and models the exit.      *)
(* The operators named is_full_one_early, next_no_wrap, front_newest and   *)
(* dequeue_keep_front are faulty variants that the properties must reject. *)
(***************************************************************************)
EXTENDS Integers, Sequences

CONSTANTS
  Conn,           (* the connections a queue element can stand for         *)
  NoConn,         (* the contents of a slot that was never written         *)
  QueueCapacity   (* queue_capacity of conf/server.conf                    *)

MIN_QUEUE_SIZE == 3

(* init_queue exits when the configured capacity is below MIN_QUEUE_SIZE.  *)
ASSUME QueueAssumption ==
  /\ QueueCapacity \in Nat
  /\ QueueCapacity >= MIN_QUEUE_SIZE
  /\ NoConn \notin Conn

Index == 0 .. QueueCapacity - 1

Queue == [array : [Index -> Conn \cup {NoConn}],
          size  : 0 .. QueueCapacity,
          front : Index,
          rear  : Index \cup {-1}]

-----------------------------------------------------------------------------
init_queue == [array |-> [i \in Index |-> NoConn],
               size |-> 0, front |-> 0, rear |-> -1]

is_empty(que) == que.size = 0

is_full_one_early(que) == que.size >= QueueCapacity - 1

is_full(que) == que.size = QueueCapacity

next_no_wrap(index) == index + 1

next(index) == IF index + 1 = QueueCapacity THEN 0 ELSE index + 1

enqueue(que, elem) ==
  [array |-> [que.array EXCEPT ![next(que.rear)] = elem],
   size  |-> que.size + 1,
   front |-> que.front,
   rear  |-> next(que.rear)]

front_newest(que) == que.array[que.rear]

front(que) == que.array[que.front]

dequeue_keep_front(que) == [que EXCEPT !.size = @ - 1]

dequeue(que) == [que EXCEPT !.size = @ - 1, !.front = next(@)]

-----------------------------------------------------------------------------
(***************************************************************************)
(* What the ring stands for: the sequence of the elements between front    *)
(* and rear, oldest first.  Slot(que, i) is the array index of the i-th.   *)
(***************************************************************************)
Slot(que, i) == LET k == que.front + i - 1
                IN  IF k >= QueueCapacity THEN k - QueueCapacity ELSE k

Contents(que) == [i \in 1 .. que.size |-> que.array[Slot(que, i)]]

(* The queue's representation invariant: rear is the slot before the one   *)
(* that follows the newest element, and every slot in use was written.     *)
WellFormed(que) ==
  /\ que \in Queue
  /\ next(que.rear) = Slot(que, que.size + 1)
  /\ \A i \in 1 .. que.size : que.array[Slot(que, i)] \in Conn
=============================================================================
