---------------------------- MODULE MC_AgentLoop ----------------------------
(* AgentLoop on small instances; the sets are in the .cfg files.           *)
EXTENDS AgentLoop

CONSTANTS ask, again, other

(* Two messages with the same author and text, and a different one. *)
SaysOf == [m \in {ask, again, other} |-> IF m = again THEN ask ELSE m]
=============================================================================
