---- MODULE MCBoundedExecutor ----
(* The instance of BoundedExecutor for TLC. No symmetry is declared: its runs check liveness, *)
(* for which symmetry reduction is unsound.                                       *)
EXTENDS BoundedExecutor
====
