---- MODULE MCTrustedPlanUpdateOwner ----
EXTENDS TrustedPlanUpdateOwner, TLC

CONSTANTS g1, g2

\* A first plan, a move away, a move back, and a plan that keeps its generation.
SignedPlans ==
    {[target |-> g1, sequence |-> 1, bootstrap |-> TRUE, predecessors |-> {}],
     [target |-> g2, sequence |-> 2, bootstrap |-> FALSE, predecessors |-> {g1}],
     [target |-> g1, sequence |-> 3, bootstrap |-> FALSE, predecessors |-> {g2}],
     [target |-> g1, sequence |-> 2, bootstrap |-> TRUE, predecessors |-> {}]}

Interchangeable == Permutations(Publishers)
====
