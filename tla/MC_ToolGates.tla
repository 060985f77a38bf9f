---------------------------- MODULE MC_ToolGates ----------------------------
(* ToolGates with one file, which is the playbook and the findings at      *)
(* once: one call of every kind, a forced command and a forced read.       *)
EXTENDS ToolGates

MCMenu == {c \in Calls : ~c.part /\ (c.tool = "bash" => c.force)}
=============================================================================
