-------------------------- MODULE MC_RunLifecycle --------------------------
(* RunLifecycle on small instances; the sets are in the .cfg files.        *)
EXTENDS RunLifecycle, TLC

(* Owners are not interchangeable: one of them may be an administrator.    *)
Symmetry == Permutations(Runs) \cup Permutations(Channels)
=============================================================================
