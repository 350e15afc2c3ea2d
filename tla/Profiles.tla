---- MODULE Profiles ----
(***************************************************************************)
(* What the profile directory promises: a profile is there whole or it is  *)
(* not, and an import replaces, in one step, the profiles of its name that *)
(* it saw when it began.                                                   *)
(***************************************************************************)
CONSTANTS Stores, Ids, Names, NoName

VARIABLES
    profiles,    \* of each id: the name of its profile, or NoName
    seen         \* of each store: the profiles its import under way will replace

vars == <<profiles, seen>>

Named(n) == {i \in Ids : profiles[i] = n}

Init ==
    /\ profiles \in [Ids -> Names \cup {NoName}]
    /\ seen = [s \in Stores |-> {}]

Add(i, n) ==
    /\ profiles[i] = NoName
    /\ profiles' = [profiles EXCEPT ![i] = n]
    /\ UNCHANGED seen

Remove(i) ==
    /\ profiles' = [profiles EXCEPT ![i] = NoName]
    /\ UNCHANGED seen

BeginImport(s, n) ==
    /\ seen[s] = {}
    /\ seen' = [seen EXCEPT ![s] = Named(n)]
    /\ UNCHANGED profiles

Import(s, i, n) ==
    /\ profiles[i] = NoName
    /\ seen[s] \subseteq Named(n)
    /\ profiles' = [j \in Ids |-> IF j = i THEN n ELSE IF j \in seen[s] THEN NoName ELSE profiles[j]]
    /\ seen' = [seen EXCEPT ![s] = {}]

GiveUp(s) ==
    /\ seen' = [seen EXCEPT ![s] = {}]
    /\ UNCHANGED profiles

Next ==
    \/ \E i \in Ids, n \in Names : Add(i, n)
    \/ \E i \in Ids : Remove(i)
    \/ \E s \in Stores : GiveUp(s) \/ \E n \in Names : BeginImport(s, n) \/ \E i \in Ids : Import(s, i, n)

Spec == Init /\ [][Next]_vars
====
