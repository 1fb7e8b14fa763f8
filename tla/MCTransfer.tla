------------------------------ MODULE MCTransfer ------------------------------
EXTENDS Transfer

CONSTANTS x, y, d1, d2, f, g

(* Uploads around the size of a block, and a stored file that is longer    *)
(* than what the client and the kernel take together.                      *)
Uploads == {<<x>>, <<x, y, x>>, <<y, x, x, y>>}

OneStored == {[path |-> [dir |-> d1, name |-> f], bytes |-> <<y, y, x, x, y>>]}

(* A size that was never written: below every size, among them, above all. *)
AnySize == {-2, 1, 9}
=============================================================================
