---------------------------- MODULE MCAdapterStore ----------------------------
(* Instances of AdapterStore for TLC: requests and cells are interchangeable. *)
EXTENDS AdapterStore, TLC

Symmetry == Permutations(Requests) \cup Permutations(Cells)
===============================================================================
