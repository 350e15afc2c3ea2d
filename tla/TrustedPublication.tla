---- MODULE TrustedPublication ----
(***************************************************************************)
(* What publishing signed plans promises: the generation in force and the  *)
(* plan accepted for it change together, in one step, and only as the plan *)
(* authorises. Abstract; implemented by TrustedPlanUpdateOwner.            *)
(***************************************************************************)
EXTENDS Integers

CONSTANTS Generations, NoGeneration, Plans, NoPlan

VARIABLES generation, plan

\* A first plan must allow bootstrap and may not move an existing installation;
\* a later one has a higher sequence and keeps the generation or names it as a
\* predecessor.
Authorised(p) ==
    IF plan = NoPlan
    THEN p.bootstrap /\ generation \in {NoGeneration, p.target}
    ELSE /\ p.sequence > plan.sequence
         /\ plan.target = p.target \/ plan.target \in p.predecessors

Init ==
    /\ generation \in Generations \cup {NoGeneration}
    /\ plan = NoPlan

\* A publication begun before the store had an owner is completed by it.
Inherit ==
    /\ plan = NoPlan
    /\ generation' \in Generations
    /\ UNCHANGED plan

Accept(p) ==
    /\ Authorised(p)
    /\ generation' = p.target
    /\ plan' = p

Next == Inherit \/ \E p \in Plans : Accept(p)

Spec == Init /\ [][Next]_<<generation, plan>>
====
