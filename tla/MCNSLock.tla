------------------------------ MODULE MCNSLock ------------------------------
(* Three goroutines and two resources; path lists in both orders, one path  *)
(* listed twice, and an empty list.                                         *)
EXTENDS NSLock, TLC

MCPathArgs == {<< >>, <<1>>, <<2, 1>>, <<1, 2>>, <<1, 1>>}
MCResources == 1 .. 2
MCSymmetry == Permutations(Procs) \cup Permutations(LockIds)

=============================================================================
