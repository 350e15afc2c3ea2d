---- MODULE MCTriggerChannel ----
(* The instance of TriggerChannel for TLC. No symmetry is declared: its runs check liveness, *)
(* for which symmetry reduction is unsound.                                       *)
EXTENDS TriggerChannel
====
