------------------------- MODULE MCSessionLifecycle -------------------------
(* Model checking of SessionLifecycle: start calls are interchangeable     *)
(* model values, and so are stop calls.                                    *)
EXTENDS SessionLifecycle, TLC

AllFaults == Faultable
NoFaults  == {}

Symmetry == Permutations(Run) \union Permutations(Stopper)
=============================================================================
