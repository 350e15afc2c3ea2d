---- MODULE TaskLifecycle ----
(***************************************************************************)
(* What a client of the runtime task owner relies on, said without its     *)
(* locks, gates and threads: every generation of a config goes through     *)
(* one life, at most one generation of a config is admitted at a time, a   *)
(* backend is entered only by a committed start, and the stop token of a   *)
(* generation is never raised while the owner calls it running.            *)
(***************************************************************************)
EXTENDS Naturals

CONSTANTS
    Configs,   \* config ids
    JobIds,    \* job generations
    NoConfig   \* the key of a generation that has not been handed out

VARIABLES
    open,      \* admission is open
    key,       \* the config of each generation
    life,      \* the stage of each generation's life
    entered,   \* generations whose backend was entered
    asked      \* generations whose stop token was raised

vars == <<open, key, life, entered, asked>>

Stages == {"unused", "held", "live", "stopping", "ended", "dropped"}

\* A generation in one of these stages excludes every other one of its config.
Admitted(g) == life[g] \in {"held", "live", "stopping"}

Init ==
    /\ open = TRUE
    /\ key = [g \in JobIds |-> NoConfig]
    /\ life = [g \in JobIds |-> "unused"]
    /\ entered = {}
    /\ asked = {}

Move(g, from, to) ==
    /\ life[g] \in from
    /\ life' = [life EXCEPT ![g] = to]

\* A start is admitted: the generation is held until it is committed or dropped.
Reserve(g, k) ==
    /\ open
    /\ \A h \in JobIds : key[h] = k => ~Admitted(h)
    /\ Move(g, {"unused"}, "held")
    /\ key' = [key EXCEPT ![g] = k]
    /\ UNCHANGED <<open, entered, asked>>

\* A start that is admitted and fails before it could be held.
Fail(g, k) ==
    /\ open
    /\ \A h \in JobIds : key[h] = k => ~Admitted(h)
    /\ Move(g, {"unused"}, "dropped")
    /\ key' = [key EXCEPT ![g] = k]
    /\ UNCHANGED <<open, entered, asked>>

\* A start committed after admission closed is stopping from the beginning.
Commit(g) ==
    /\ Move(g, {"held"}, IF open THEN "live" ELSE "stopping")
    /\ UNCHANGED <<open, key, entered, asked>>

Drop(g) ==
    /\ Move(g, {"held"}, "dropped")
    /\ UNCHANGED <<open, key, entered, asked>>

\* One stop, or one stop-all, linearises every generation of G at once.
Stop(G) ==
    /\ G # {}
    /\ \A g \in G : life[g] = "live"
    /\ life' = [g \in JobIds |-> IF g \in G THEN "stopping" ELSE life[g]]
    /\ UNCHANGED <<open, key, entered, asked>>

Enter(g) ==
    /\ life[g] \in {"live", "stopping"}
    /\ g \notin entered
    /\ entered' = entered \cup {g}
    /\ UNCHANGED <<open, key, life, asked>>

End(g) ==
    /\ g \in entered
    /\ Move(g, {"live", "stopping"}, "ended")
    /\ UNCHANGED <<open, key, entered, asked>>

\* Before admission closes, only a generation that is or was stopping is asked.
Ask(g) ==
    /\ life[g] \in (IF open THEN {"stopping", "ended"}
                    ELSE {"held", "stopping", "ended", "dropped"})
    /\ asked' = asked \cup {g}
    /\ UNCHANGED <<open, key, life, entered>>

Close ==
    /\ open' = FALSE
    /\ UNCHANGED <<key, life, entered, asked>>

Next ==
    \/ \E g \in JobIds, k \in Configs : Reserve(g, k) \/ Fail(g, k)
    \/ \E g \in JobIds : Commit(g) \/ Drop(g) \/ Enter(g) \/ End(g) \/ Ask(g)
    \/ \E G \in SUBSET JobIds : Stop(G)
    \/ Close

Spec == Init /\ [][Next]_vars
====
