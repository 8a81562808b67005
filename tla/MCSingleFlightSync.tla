-------------------------- MODULE MCSingleFlightSync --------------------------
(* Instances of SingleFlightSync for TLC: threads and keys are              *)
(* interchangeable.                                                         *)
EXTENDS SingleFlightSync, TLC

Symmetry == Permutations(Callers) \cup Permutations(Keys)
===============================================================================
