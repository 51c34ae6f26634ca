-------------------------------- MODULE Listing --------------------------------
(***************************************************************************)
(* How the server's sorts, filters and sums read: a set listed in an       *)
(* order, what of a sequence is in a set, and what its numbers add up to.  *)
(***************************************************************************)
EXTENDS Integers, Sequences, FiniteSets, SequencesExt

(* A set as a sequence: each element at the place that its predecessors    *)
(* leave it.                                                               *)
Sorted(set, order) ==
    [i \in 1 .. Cardinality(set) |->
       CHOOSE x \in set : Cardinality({y \in set : <<y, x>> \in order}) = i - 1]

(* The elements of a sequence that are in a set, in their order.           *)
Only(s, set) ==
    FoldLeft(LAMBDA t, x : IF x \in set THEN Append(t, x) ELSE t, <<>>, s)

Total(s) == FoldLeft(LAMBDA n, m : n + m, 0, s)
================================================================================
