---------------------------- MODULE MCThreadPool ----------------------------
EXTENDS ThreadPool, TLC

Symmetry == Permutations(Conn) \cup Permutations(Worker)
=============================================================================
