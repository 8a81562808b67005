------------------------------- MODULE MCHotSwap -------------------------------
(* Instances of HotSwap for TLC: adapters and requests are interchangeable. *)
EXTENDS HotSwap, TLC

Symmetry == Permutations(Adapters) \cup Permutations(Requests)
===============================================================================
