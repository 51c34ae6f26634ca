--------------------------- MODULE MCEvidencePull ---------------------------
EXTENDS EvidencePull, TLC

(* Searches are alike, and so are milliseconds.                            *)
Alike == Permutations(Call \ Seal) \union Permutations(Stamp)
=============================================================================
