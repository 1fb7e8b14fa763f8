-------------------------------- MODULE DataPort --------------------------------
(***************************************************************************)
(* What the sessions share when they enter passive mode: one port, held by *)
(* one session at a time.  A session that has it gives it back at the end  *)
(* of its transfer; one that ends without a transfer takes the port with   *)
(* it, and no session gets it again while the process runs.                *)
(***************************************************************************)
CONSTANTS Session, Nobody, Lost

VARIABLES
  holder,    (* the session that listens on the port, Nobody or Lost       *)
  down       (* the process has ended                                      *)

vars == <<holder, down>>

Init == holder = Nobody /\ down = FALSE

Move(from, to) == /\ ~down
                  /\ holder = from
                  /\ holder' = to
                  /\ UNCHANGED down

Acquire(s) == Move(Nobody, s)

Release(s) == Move(s, Nobody)

Abandon(s) == Move(s, Lost)

GoDown == /\ ~down
          /\ down' = TRUE
          /\ UNCHANGED holder

Next == \/ \E s \in Session : Acquire(s) \/ Release(s) \/ Abandon(s)
        \/ GoDown

SafeSpec == Init /\ [][Next]_vars
=============================================================================
