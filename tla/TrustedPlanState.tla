---- MODULE TrustedPlanState ----
(***************************************************************************)
(* The durable record of the last signed plan a store accepted, with the   *)
(* journal that ties it to a publication and the owner marker              *)
(* (src/service/app/RuntimeRepositoryTrustedPlanState.cpp). A plan stands  *)
(* for the generation, sequence and payload digest the code stores.        *)
(***************************************************************************)
EXTENDS PublisherStep, Integers

CONSTANTS Plans,          \* [target, sequence, bootstrap, predecessors], as signed
          NoPlan, NoIntent

VARIABLES
    trusted_state,     \* .trusted-plan-state.json
    trusted_journal,   \* .trusted-plan-journal.json
    owner_marker,      \* .trusted-plan-owner
    accepted,          \* the state each publisher's store holds in memory
    is_ready

policy == <<trusted_state, trusted_journal, owner_marker>>
store == <<policy, accepted, is_ready>>

\* claim_ownership(); next is where the caller goes on.
ClaimOwnership(p, outcome, next) ==
    /\ at[p] = "own"
    /\ owner_marker' = IF owner_marker = "absent"
                       THEN Written(outcome, "uninitialized", owner_marker)
                       ELSE owner_marker
    /\ Continue(p, outcome, next, "state_failed")
    /\ UNCHANGED <<trusted_state, trusted_journal, accepted, is_ready>>

-----------------------------------------------------------------------------
(* reconcile(actual): settle what an earlier publisher left behind *)

Published(actual) ==
    /\ trusted_journal # NoIntent
    /\ actual = trusted_journal.next_state.target

Conflicting ==
    /\ trusted_state \notin {NoPlan, trusted_journal.next_state}
    /\ trusted_state # trusted_journal.previous_state

Abandoned(actual) ==
    /\ trusted_journal # NoIntent
    /\ ~Published(actual)
    /\ actual = trusted_journal.previous_generation
    /\ trusted_state = trusted_journal.previous_state

\* The checks that follow the journal: the state names the generation, and an
\* initialized store has one.
Consistent(actual) ==
    /\ trusted_state # NoPlan => trusted_state.target = actual
    /\ owner_marker = "initialized" => trusted_state # NoPlan

Irreconcilable(actual) ==
    \/ Published(actual) /\ Conflicting
    \/ trusted_journal # NoIntent /\ ~Published(actual) /\ ~Abandoned(actual)

Unready(p) == is_ready' = [is_ready EXCEPT ![p] = FALSE]

\* Mutant: a published intent is dropped with its state unwritten.
CompleteState_KeepsState(p, actual, outcome) ==
    /\ at[p] = "reconcile"
    /\ Published(actual) /\ ~Conflicting
    /\ Continue(p, outcome, "complete_marker", "state_failed")
    /\ Unready(p)
    /\ UNCHANGED <<trusted_state, trusted_journal, owner_marker, accepted>>

CompleteState(p, actual, outcome) ==
    /\ at[p] = "reconcile"
    /\ Published(actual) /\ ~Conflicting
    /\ trusted_state' = Written(outcome, trusted_journal.next_state, trusted_state)
    /\ Continue(p, outcome, "complete_marker", "state_failed")
    /\ Unready(p)
    /\ UNCHANGED <<trusted_journal, owner_marker, accepted>>

CompleteMarker(p, outcome) ==
    /\ at[p] = "complete_marker"
    /\ owner_marker' = Written(outcome, "initialized", owner_marker)
    /\ Continue(p, outcome, "complete_journal", "state_failed")
    /\ UNCHANGED <<trusted_state, trusted_journal, accepted, is_ready>>

RemoveIntent(p, outcome, next) ==
    /\ trusted_journal' = Written(outcome, NoIntent, trusted_journal)
    /\ Continue(p, outcome, next, "state_failed")
    /\ UNCHANGED <<trusted_state, owner_marker>>

CompleteJournal(p, outcome) ==
    /\ at[p] = "complete_journal"
    /\ RemoveIntent(p, outcome, "adopt")
    /\ UNCHANGED <<accepted, is_ready>>

Discard(p, actual, outcome) ==
    /\ at[p] = "reconcile"
    /\ Abandoned(actual)
    /\ RemoveIntent(p, outcome, "adopt")
    /\ Unready(p)
    /\ UNCHANGED accepted

NothingPending(p) ==
    /\ at[p] = "reconcile"
    /\ trusted_journal = NoIntent
    /\ Goto(p, "adopt")
    /\ Unready(p)
    /\ UNCHANGED <<policy, accepted>>

\* A file that cannot be read is rejected like an intent that contradicts the store.
RejectIntent(p) ==
    /\ at[p] = "reconcile"
    /\ Goto(p, "state_failed")
    /\ Unready(p)
    /\ UNCHANGED <<policy, accepted>>

\* A marker that was uninitialized on entry is rewritten here even when the
\* completed intent has initialized it: a failure of that rewrite is covered by
\* the removal of the intent that precedes it.
Adopt(p, actual, outcome) ==
    /\ at[p] = "adopt"
    /\ Consistent(actual)
    /\ IF trusted_state # NoPlan /\ owner_marker = "uninitialized"
       THEN /\ owner_marker' = Written(outcome, "initialized", owner_marker)
            /\ Continue(p, outcome, "reconciled", "state_failed")
       ELSE outcome = "done" /\ Goto(p, "reconciled") /\ UNCHANGED owner_marker
    /\ IF outcome = "done"
       THEN /\ accepted' = [accepted EXCEPT ![p] = trusted_state]
            /\ is_ready' = [is_ready EXCEPT ![p] = TRUE]
       ELSE UNCHANGED <<accepted, is_ready>>
    /\ UNCHANGED <<trusted_state, trusted_journal>>

RejectState(p, actual) ==
    /\ at[p] = "adopt"
    /\ ~Consistent(actual)
    /\ Goto(p, "state_failed")
    /\ UNCHANGED store

ReconcileStep(p, actual) ==
    \/ NothingPending(p) \/ RejectIntent(p) \/ RejectState(p, actual)
    \/ \E outcome \in Outcomes :
          \/ CompleteState(p, actual, outcome) \/ CompleteMarker(p, outcome)
          \/ CompleteJournal(p, outcome)
          \/ Discard(p, actual, outcome) \/ Adopt(p, actual, outcome)

-----------------------------------------------------------------------------
(* prepare() and commit() *)

Preparable(p, expected, next) ==
    /\ is_ready[p]
    /\ accepted[p] # NoPlan =>
          accepted[p].target = expected /\ next.sequence > accepted[p].sequence
    /\ next.target # expected

\* Whether a failed claim has left the intent on disk makes no difference to it.
Prepare(p, expected, next, outcome) ==
    IF Preparable(p, expected, next)
    THEN trusted_journal' = Written(outcome,
            [previous_generation |-> expected, previous_state |-> accepted[p],
             next_state |-> next], trusted_journal)
    ELSE outcome = "failed" /\ UNCHANGED trusted_journal

Committable(p, next) ==
    /\ is_ready[p]
    /\ accepted[p] # NoPlan =>
          next = accepted[p] \/ next.sequence > accepted[p].sequence
    /\ trusted_journal # NoIntent => trusted_journal.next_state = next

\* The journal may be unreadable, or the state not Committable.
RejectCommit(p) ==
    /\ at[p] = "commit"
    /\ Goto(p, "state_failed")
    /\ UNCHANGED store

\* Mutant: the intent is removed before the state is written.
CommitState_IntentFirst(p, next, outcome) ==
    /\ at[p] = "commit"
    /\ Committable(p, next)
    /\ trusted_journal' = Written(outcome, NoIntent, trusted_journal)
    /\ Continue(p, outcome, "commit_marker", "state_failed")
    /\ UNCHANGED <<trusted_state, owner_marker, accepted, is_ready>>

CommitState(p, next, outcome) ==
    /\ at[p] = "commit"
    /\ Committable(p, next)
    /\ trusted_state' = Written(outcome, next, trusted_state)
    /\ Continue(p, outcome, "commit_marker", "state_failed")
    /\ UNCHANGED <<trusted_journal, owner_marker, accepted, is_ready>>

CommitMarker(p, next, outcome) ==
    /\ at[p] = "commit_marker"
    /\ owner_marker' = Written(outcome, "initialized", owner_marker)
    /\ accepted' = IF outcome = "done" THEN [accepted EXCEPT ![p] = next] ELSE accepted
    /\ Continue(p, outcome, IF trusted_journal = NoIntent THEN "committed" ELSE "commit_journal",
                "state_failed")
    /\ UNCHANGED <<trusted_state, trusted_journal, is_ready>>

CommitJournal(p, outcome) ==
    /\ at[p] = "commit_journal"
    /\ RemoveIntent(p, outcome, "committed")
    /\ UNCHANGED <<accepted, is_ready>>

CommitStep(p, next) ==
    \/ RejectCommit(p)
    \/ \E outcome \in Outcomes :
          \/ CommitState(p, next, outcome) \/ CommitMarker(p, next, outcome)
          \/ CommitJournal(p, outcome)
====
