--------------------------- MODULE MC_ToolDispatch ---------------------------
(* ToolDispatch on small instances; the sets are in the .cfg files.        *)
EXTENDS ToolDispatch, TLC

Symmetry == Permutations(CallIds)
=============================================================================
