-------------------------- MODULE MCOrphanRecovery --------------------------
(* Model checking of OrphanRecovery: runs are numbers, in order of their   *)
(* start, and pids are interchangeable model values.                       *)
EXTENDS OrphanRecovery, TLC

Symmetry == Permutations(Pid)
=============================================================================
