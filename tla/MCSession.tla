------------------------------ MODULE MCSession ------------------------------
EXTENDS Session, TLC

Symmetry == Permutations(Session)
=============================================================================
