---- MODULE TaskPromises ----
(***************************************************************************)
(* What a bounded executor promises to those who submit tasks: a task is   *)
(* refused or accepted; an accepted one has one outcome, which never       *)
(* changes; nothing is cancelled unless its handle or a cancelling         *)
(* shutdown asked for it; and the shutdown that closed the executor returns*)
(* only when every accepted task has its outcome, but for one whose own    *)
(* handle is cancelling it at that moment.                                 *)
(***************************************************************************)
CONSTANT Tasks

VARIABLES
    outcome,     \* of each task
    asked,       \* tasks whose handle asked for cancellation
    mode,        \* how the executor was closed, "open" before that
    returned     \* whether the shutdown that closed it has returned

vars == <<outcome, asked, mode, returned>>

Init ==
    /\ outcome = [t \in Tasks |-> "unsent"]
    /\ asked = {}
    /\ mode = "open"
    /\ returned = FALSE

Becomes(t, from, to) ==
    /\ outcome[t] = from
    /\ outcome' = [outcome EXCEPT ![t] = to]

Accept(t) ==
    /\ mode = "open"
    /\ Becomes(t, "unsent", "accepted")
    /\ UNCHANGED <<asked, mode, returned>>

Refuse(t) == Becomes(t, "unsent", "refused") /\ UNCHANGED <<asked, mode, returned>>

Ask(t) ==
    /\ outcome[t] \notin {"unsent", "refused"}
    /\ asked' = asked \cup {t}
    /\ UNCHANGED <<outcome, mode, returned>>

Run(t) == Becomes(t, "accepted", "ran") /\ UNCHANGED <<asked, mode, returned>>

Cancel(t) ==
    /\ t \in asked \/ mode = "CancelPending"
    /\ Becomes(t, "accepted", "cancelled")
    /\ UNCHANGED <<asked, mode, returned>>

Close(m) ==
    /\ mode = "open"
    /\ mode' = m
    /\ UNCHANGED <<outcome, asked, returned>>

Return ==
    /\ mode # "open"
    /\ \A t \in Tasks : outcome[t] = "accepted" => t \in asked
    /\ returned' = TRUE
    /\ UNCHANGED <<outcome, asked, mode>>

Next ==
    \/ \E t \in Tasks : Accept(t) \/ Refuse(t) \/ Ask(t) \/ Run(t) \/ Cancel(t)
    \/ \E m \in {"Drain", "CancelPending"} : Close(m)
    \/ Return

Spec == Init /\ [][Next]_vars
====
