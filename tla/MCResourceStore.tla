---- MODULE MCResourceStore ----
(* The instance of ResourceStore for TLC. No symmetry is declared: its runs check liveness, *)
(* for which symmetry reduction is unsound.                                       *)
EXTENDS ResourceStore
====
