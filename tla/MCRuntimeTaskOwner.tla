---- MODULE MCRuntimeTaskOwner ----
(* Instances of RuntimeTaskOwner for TLC. *)
EXTENDS RuntimeTaskOwner, TLC

\* Callers and configs are interchangeable in every invariant and action property.
Symmetry == Permutations(Callers) \cup Permutations(Configs)
====
