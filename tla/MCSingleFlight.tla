---------------------------- MODULE MCSingleFlight ----------------------------
(* Instances of SingleFlight for TLC: tasks and keys are interchangeable. *)
EXTENDS SingleFlight, TLC

Symmetry == Permutations(Callers) \cup Permutations(Keys)
===============================================================================
