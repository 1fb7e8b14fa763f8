----------------------------- MODULE MCCatalogue -----------------------------
EXTENDS Catalogue

CONSTANTS a, b, u1, u2, s1, s2

(* One regular file, the user's own, in the root.                          *)
OneFile == {[precode |-> 0, code |-> 1, filename |-> a, st_mode |-> "reg",
             owner |-> u1]}

AnyCode == Code \cup {0}

Symmetry == Permutations(Session)
=============================================================================
