---- MODULE MCConfigImport ----
(* The instances of ConfigImport for TLC. *)
EXTENDS ConfigImport, TLC

\* Stores and names are interchangeable in every invariant and action property.
Interchangeable == Permutations(Stores) \cup Permutations(Names)
====
