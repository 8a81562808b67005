---------------------------- MODULE MCAgentBarrier ----------------------------
(* Instances of AgentBarrier for TLC: agents are interchangeable in safety runs. *)
EXTENDS AgentBarrier, TLC

Symmetry == Permutations(Agents)
===============================================================================
