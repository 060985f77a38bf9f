------------------------- MODULE MC_ResearchLedger -------------------------
(* ResearchLedger on small instances; the sets are in the .cfg files.      *)
EXTENDS ResearchLedger, TLC

Symmetry ==
    Permutations(EvidenceIds) \cup Permutations(Hypotheses) \cup Permutations(Conclusions)
=============================================================================
