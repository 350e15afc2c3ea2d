---- MODULE MCTriggerExecutor ----
EXTENDS TriggerExecutor, TLC

\* Neither the hosts nor the connections are told apart.
Interchangeable == Permutations(Hosts) \cup Permutations(Workers) \cup Permutations(Connections)
====
