------------------------------ MODULE MCEngine ------------------------------
(* Instances of Engine for TLC: the symmetry of the worker threads. *)
EXTENDS Engine, TLC

Symmetry == Permutations(Workers)
=============================================================================
