------------------------ MODULE ConnectionDispatch ------------------------
(***************************************************************************)
(* What the thread pool promises to the connections it accepts, with no    *)
(* ring, mutex or condition variable: a connection that arrived waits in   *)
(* line, is taken by one idle worker in the order of arrival, is served    *)
(* once and leaves.  The process may end at any moment (exit() in any      *)
(* thread ends them all); while it runs, a line that is not empty and a    *)
(* worker that is idle never stay so for ever.                             *)
(***************************************************************************)
EXTENDS Sequences, SequencesExt

CONSTANTS Conn, Worker, NoConn

VARIABLES
  line,      (* the connections that wait, in the order they arrived       *)
  serving,   (* the connection each worker serves, or NoConn               *)
  down       (* the process has ended                                      *)

vars == <<line, serving, down>>

Init == /\ line = <<>>
        /\ serving = [w \in Worker |-> NoConn]
        /\ down = FALSE

(* Only a connection that is neither waiting nor being served arrives.     *)
Arrive(c) == /\ ~down
             /\ \A i \in DOMAIN line : line[i] # c
             /\ \A w \in Worker : serving[w] # c
             /\ line' = Append(line, c)
             /\ UNCHANGED <<serving, down>>

Take(w) == /\ ~down
           /\ serving[w] = NoConn
           /\ line # <<>>
           /\ serving' = [serving EXCEPT ![w] = Head(line)]
           /\ line' = Tail(line)
           /\ UNCHANGED down

Finish(w) == /\ ~down
             /\ serving[w] # NoConn
             /\ serving' = [serving EXCEPT ![w] = NoConn]
             /\ UNCHANGED <<line, down>>

GoDown == /\ ~down
          /\ down' = TRUE
          /\ UNCHANGED <<line, serving>>

Next == \/ \E c \in Conn : Arrive(c)
        \/ \E w \in Worker : Take(w) \/ Finish(w)
        \/ GoDown

SafeSpec == Init /\ [][Next]_vars

Spec == SafeSpec /\ WF_vars(\E w \in Worker : Take(w))
=============================================================================
