---------------------------- MODULE MCTupleLock ----------------------------
(* Model checking of TupleLock: runs and pids are interchangeable model    *)
(* values, so safety runs may reduce by symmetry.                          *)
EXTENDS TupleLock, TLC

Symmetry == Permutations(Run) \union Permutations(Pid)
=============================================================================
