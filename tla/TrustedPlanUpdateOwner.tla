---- MODULE TrustedPlanUpdateOwner ----
(***************************************************************************)
(* Publisher processes that recover a store and apply signed plans to it   *)
(* (src/service/app/RuntimeRepositoryTrustedPlanUpdateOwner.cpp), joining   *)
(* RepositoryUpdater and TrustedPlanState under one file lock, and the      *)
(* service that starts on what they published                              *)
(* (ServiceRuntimeRepositoryOwner.cpp). A publisher may crash before any    *)
(* durable write, and any write may fail.                                   *)
(***************************************************************************)
EXTENDS RepositoryUpdater, TrustedPlanState

CONSTANTS Nobody, NoReply

\* .trusted-plan-journal.json
Intent == [previous_generation: Pointer, previous_state: Plans \cup {NoPlan}, next_state: Plans]

ASSUME PublicationAssumption ==
    /\ NoGeneration \notin Generations
    /\ NoPlan \notin Plans /\ NoIntent \notin Intent
    /\ \A q \in Plans :
          /\ q.target \in Generations /\ q.sequence \in Nat \ {0}
          /\ q.bootstrap \in BOOLEAN
          /\ q.predecessors \subseteq Generations \ {q.target}
    /\ Nobody \notin Publishers

VARIABLES
    policy_lock,           \* who holds .trusted-plan-writer.lock
    stage,                 \* what the call in progress is recovering for
    is_recovered,
    plan,                  \* the plan being applied
    previous_generation,
    claim,                 \* how far the commit claim of apply() got
    reply,                 \* what the last call returned, until the next begins
    service                \* the generation a service pinned, and whether it is attested

owner == <<policy_lock, stage, is_recovered, plan, previous_generation, claim, reply>>
vars == <<at, updater, store, owner, service>>

Init ==
    /\ current \in Pointer
    /\ previous \in Pointer
    /\ \/ publish_journal = NoJournal
       \/ publish_journal \in Journal /\ publish_journal.old_current = current
    /\ active = [p \in Publishers |-> current]
    /\ transaction = [p \in Publishers |-> NoJournal]
    /\ update = [p \in Publishers |-> NoResult]
    /\ recovery = [p \in Publishers |-> NoResult]
    /\ trusted_state = NoPlan
    /\ trusted_journal = NoIntent
    /\ owner_marker = "absent"
    /\ accepted = [p \in Publishers |-> NoPlan]
    /\ is_ready = [p \in Publishers |-> FALSE]
    /\ policy_lock = Nobody
    /\ stage = [p \in Publishers |-> "none"]
    /\ is_recovered = [p \in Publishers |-> FALSE]
    /\ plan = [p \in Publishers |-> NoPlan]
    /\ previous_generation = [p \in Publishers |-> NoGeneration]
    /\ claim = [p \in Publishers |-> "none"]
    /\ reply = NoReply
    /\ service = [pin |-> NoGeneration, attested |-> FALSE]
    /\ at = [p \in Publishers |-> "idle"]

-----------------------------------------------------------------------------
(* Calls and their return *)

LockPolicy(p) == policy_lock = Nobody /\ policy_lock' = p

Recover(p) ==
    /\ at[p] = "idle"
    /\ LockPolicy(p)
    /\ is_recovered' = [is_recovered EXCEPT ![p] = FALSE]
    /\ stage' = [stage EXCEPT ![p] = "recover"]
    /\ Goto(p, "own")
    /\ reply' = NoReply
    /\ UNCHANGED <<updater, store, plan, previous_generation, claim, service>>

Apply(p, q) ==
    /\ at[p] = "idle"
    /\ is_recovered[p]
    /\ LockPolicy(p)
    /\ stage' = [stage EXCEPT ![p] = "apply"]
    /\ plan' = [plan EXCEPT ![p] = q]
    /\ Goto(p, "own")
    /\ reply' = NoReply
    /\ UNCHANGED <<updater, store, is_recovered, previous_generation, claim, service>>

\* The publisher returns; recovered is its is_recovered from here on.
Return(p, error, result, recovered) ==
    /\ reply' = [by |-> p, call |-> stage[p], error |-> error,
                 disposition |-> result.disposition, pinned |-> result.pinned,
                 plan |-> plan[p], before |-> previous_generation[p], claim |-> claim[p]]
    /\ is_recovered' = [is_recovered EXCEPT ![p] = recovered]
    /\ Goto(p, "idle")
    /\ policy_lock' = Nobody
    /\ stage' = [stage EXCEPT ![p] = "none"]
    /\ plan' = [plan EXCEPT ![p] = NoPlan]
    /\ previous_generation' = [previous_generation EXCEPT ![p] = NoGeneration]
    /\ claim' = [claim EXCEPT ![p] = "none"]
    /\ transaction' = [transaction EXCEPT ![p] = NoJournal]
    /\ update' = [update EXCEPT ![p] = NoResult]
    /\ recovery' = [recovery EXCEPT ![p] = NoResult]
    /\ UNCHANGED <<pointers, active, store, service>>

-----------------------------------------------------------------------------
(* What follows each step of the updater and of the store *)

RecoveryFailed(p) ==
    /\ at[p] = "recovered"
    /\ ~recovery[p].ok
    /\ Return(p, "updater_failure",
              IF stage[p] = "settle" THEN update[p] ELSE recovery[p], FALSE)

RecoverySucceeded(p) ==
    /\ at[p] = "recovered"
    /\ recovery[p].ok
    /\ previous_generation' = IF stage[p] = "apply"
                              THEN [previous_generation EXCEPT ![p] = active[p]]
                              ELSE previous_generation
    /\ Goto(p, "reconcile")
    /\ UNCHANGED <<updater, store, policy_lock, stage, is_recovered, plan, claim, reply, service>>

StateFailed(p) ==
    /\ at[p] = "state_failed"
    /\ Return(p, "state_failure",
              IF stage[p] = "recover" THEN recovery[p] ELSE update[p], FALSE)

RecoverReturns(p) ==
    /\ at[p] = "reconciled"
    /\ stage[p] = "recover"
    /\ Return(p, "none", recovery[p], TRUE)

\* A publication found half done is completed, never mixed with this request.
ApplyRefused(p) ==
    /\ at[p] = "reconciled"
    /\ stage[p] = "apply"
    /\ recovery[p].disposition = "committed"
    /\ Return(p, "not_recovered", recovery[p], FALSE)

\* verify(), its clock and signature checks aside.
Verified(q, state) ==
    IF state = NoPlan THEN q.bootstrap
    ELSE \/ q = state
         \/ q.sequence > state.sequence
            /\ state.target \in q.predecessors \cup {q.target}

\* Mutant: an existing installation may be moved by its first plan.
AdoptsInPlace_Anywhere(p) == TRUE

AdoptsInPlace(p) ==
    accepted[p] = NoPlan => previous_generation[p] \in {NoGeneration, plan[p].target}

Verify(p) ==
    /\ at[p] = "reconciled"
    /\ stage[p] = "apply"
    /\ recovery[p].disposition # "committed"
    /\ IF Verified(plan[p], accepted[p]) /\ AdoptsInPlace(p)
       THEN /\ Goto(p, "update")
            /\ UNCHANGED <<updater, store, owner, service>>
       ELSE Return(p, "invalid_plan", NoResult, is_recovered[p])

Update(p) ==
    /\ \/ UpdateFails(p)
       \/ UpdateSameGeneration(p, plan[p].target, previous_generation[p])
       \/ BeginTransaction(p, plan[p].target, previous_generation[p])
    /\ UNCHANGED <<store, owner, service>>

\* PolicyCommitClaim::claim: the intent is made durable, then the caller's own
\* claim is granted or not. A refusal is handled like a failed write.
Claim(p, outcome, granted) ==
    /\ at[p] = "claim"
    /\ Prepare(p, previous_generation[p], plan[p], outcome)
    /\ IF outcome = "done" /\ granted
       THEN Goto(p, "publish_journal")
       ELSE Goto(p, "restore_previous")
    /\ claim' = [claim EXCEPT ![p] = IF outcome # "done" THEN "attempted"
                                     ELSE IF granted THEN "prepared" ELSE "rejected"]
    /\ UNCHANGED <<updater, trusted_state, owner_marker, accepted, is_ready,
                   policy_lock, stage, is_recovered, plan, previous_generation, reply, service>>

\* The last cancellation check precedes the claim; the pointers are rewritten as
\* they were, as after any failure of the transaction.
TransactionCancelled(p) ==
    /\ at[p] = "claim"
    /\ Goto(p, "restore_previous")
    /\ UNCHANGED <<updater, store, owner, service>>

\* A publication that failed after its intent was prepared is settled at once.
UpdateFailed(p) ==
    /\ at[p] = "updated"
    /\ ~update[p].ok
    /\ IF claim[p] \in {"prepared", "rejected"}
       THEN /\ stage' = [stage EXCEPT ![p] = "settle"]
            /\ Goto(p, "recover")
            /\ UNCHANGED <<updater, store, policy_lock, is_recovered, plan,
                           previous_generation, claim, reply, service>>
       ELSE Return(p, IF claim[p] = "attempted" THEN "state_failure" ELSE "updater_failure",
                   update[p], is_recovered[p])

\* replace_ambiguous_update_pin_after_recovery
Disambiguated(p) ==
    IF update[p].disposition # "not_committed" /\ active[p] # NoGeneration
    THEN [update[p] EXCEPT !.pinned = active[p]]
    ELSE update[p]

Settled(p) ==
    /\ at[p] = "reconciled"
    /\ stage[p] = "settle"
    /\ Return(p, IF claim[p] = "rejected" THEN "cancelled" ELSE "updater_failure",
              Disambiguated(p), is_recovered[p])

\* A plan that keeps the generation never asked for a claim: it is asked here.
UpdateSucceeded(p, granted) ==
    /\ at[p] = "updated"
    /\ update[p].ok
    /\ IF previous_generation[p] = plan[p].target /\ ~granted
       THEN Return(p, "cancelled", update[p], is_recovered[p])
       ELSE Goto(p, "commit") /\ UNCHANGED <<updater, store, owner, service>>

ApplyReturns(p) ==
    /\ at[p] = "committed"
    /\ Return(p, "none", update[p], is_recovered[p])

-----------------------------------------------------------------------------
(* Crashes, and the service *)

\* The process dies and another is started on the same store: its constructor
\* pins current.json before any recovery.
Crash(p) ==
    /\ at[p] # "idle" \/ is_recovered[p]
    /\ Goto(p, "idle")
    /\ active' = [active EXCEPT ![p] = current]
    /\ transaction' = [transaction EXCEPT ![p] = NoJournal]
    /\ update' = [update EXCEPT ![p] = NoResult]
    /\ recovery' = [recovery EXCEPT ![p] = NoResult]
    /\ accepted' = [accepted EXCEPT ![p] = NoPlan]
    /\ is_ready' = [is_ready EXCEPT ![p] = FALSE]
    /\ policy_lock' = IF policy_lock = p THEN Nobody ELSE policy_lock
    /\ stage' = [stage EXCEPT ![p] = "none"]
    /\ is_recovered' = [is_recovered EXCEPT ![p] = FALSE]
    /\ plan' = [plan EXCEPT ![p] = NoPlan]
    /\ previous_generation' = [previous_generation EXCEPT ![p] = NoGeneration]
    /\ claim' = [claim EXCEPT ![p] = "none"]
    /\ UNCHANGED <<pointers, policy, reply, service>>

\* RuntimeRepositorySnapshot::activate, without the lock.
Activate ==
    /\ service.pin = NoGeneration
    /\ current # NoGeneration
    /\ service' = [pin |-> current, attested |-> FALSE]
    /\ UNCHANGED <<at, updater, store, owner>>

\* Mutant: unfinished business is not looked for.
Attestable_JournalsIgnored ==
    /\ policy_lock = Nobody
    /\ owner_marker = "initialized"
    /\ trusted_state # NoPlan

\* attest_exact: nobody is publishing and nothing is left half done.
Attestable ==
    /\ policy_lock = Nobody
    /\ publish_journal = NoJournal /\ trusted_journal = NoIntent
    /\ owner_marker = "initialized"
    /\ trusted_state # NoPlan

Attest ==
    /\ service.pin # NoGeneration /\ ~service.attested
    /\ service' = IF Attestable /\ trusted_state.target = service.pin
                  THEN [service EXCEPT !.attested = TRUE]
                  ELSE [pin |-> NoGeneration, attested |-> FALSE]
    /\ UNCHANGED <<at, updater, store, owner>>

StopService ==
    /\ service.attested
    /\ service' = [pin |-> NoGeneration, attested |-> FALSE]
    /\ UNCHANGED <<at, updater, store, owner>>

-----------------------------------------------------------------------------
StoreStep(p) ==
    /\ \/ \E outcome \in Outcomes : ClaimOwnership(p, outcome, "recover")
       \/ ReconcileStep(p, active[p])
       \/ CommitStep(p, plan[p])
    /\ UNCHANGED <<updater, owner, service>>

UpdaterStep(p) ==
    /\ RecoverStep(p) \/ TransactionStep(p)
    /\ UNCHANGED <<store, owner, service>>

OwnerStep(p) ==
    \/ RecoveryFailed(p) \/ RecoverySucceeded(p) \/ StateFailed(p)
    \/ RecoverReturns(p) \/ ApplyRefused(p) \/ Verify(p) \/ Update(p)
    \/ \E outcome \in Outcomes, granted \in BOOLEAN : Claim(p, outcome, granted)
    \/ TransactionCancelled(p)
    \/ UpdateFailed(p) \/ Settled(p) \/ ApplyReturns(p)
    \/ \E granted \in BOOLEAN : UpdateSucceeded(p, granted)

Next ==
    \/ \E p \in Publishers :
          \/ Recover(p) \/ Crash(p) \/ \E q \in Plans : Apply(p, q)
          \/ StoreStep(p) \/ UpdaterStep(p) \/ OwnerStep(p)
    \/ Activate \/ Attest \/ StopService

Spec == Init /\ [][Next]_vars

-----------------------------------------------------------------------------
Steps == {"idle", "own", "recover", "replay_current", "replay_remove", "recovered",
          "reconcile", "complete_marker", "complete_journal", "adopt", "reconciled",
          "update", "claim", "publish_journal", "publish_previous", "publish_current",
          "publish_remove", "restore_previous", "restore_current", "restore_journal",
          "updated", "commit", "commit_marker", "commit_journal", "committed", "state_failed"}

Reply == [by: Publishers, call: {"recover", "apply", "settle"},
          error: {"none", "not_recovered", "invalid_plan", "cancelled", "state_failure",
                  "updater_failure"},
          disposition: {"not_committed", "committed", "uncertain"}, pinned: Pointer,
          plan: Plans \cup {NoPlan}, before: Pointer,
          claim: {"none", "attempted", "prepared", "rejected"}]

\* Types. In particular a journal never names an absent generation as its
\* target, which recover_pending would have no pointer to write for.
TypeOK ==
    /\ at \in [Publishers -> Steps]
    /\ current \in Pointer /\ previous \in Pointer
    /\ publish_journal \in Journal \cup {NoJournal}
    /\ active \in [Publishers -> Pointer]
    /\ transaction \in [Publishers -> Journal \cup {NoJournal}]
    /\ update \in [Publishers -> Result] /\ recovery \in [Publishers -> Result]
    /\ trusted_state \in Plans \cup {NoPlan}
    /\ trusted_journal \in Intent \cup {NoIntent}
    /\ owner_marker \in {"absent", "uninitialized", "initialized"}
    /\ accepted \in [Publishers -> Plans \cup {NoPlan}]
    /\ is_ready \in [Publishers -> BOOLEAN]
    /\ policy_lock \in Publishers \cup {Nobody}
    /\ stage \in [Publishers -> {"none", "recover", "apply", "settle"}]
    /\ is_recovered \in [Publishers -> BOOLEAN]
    /\ plan \in [Publishers -> Plans \cup {NoPlan}]
    /\ previous_generation \in [Publishers -> Pointer]
    /\ claim \in [Publishers -> {"none", "attempted", "prepared", "rejected"}]
    /\ reply \in Reply \cup {NoReply}
    /\ service \in [pin: Pointer, attested: BOOLEAN]

\* The two journals agree: whatever recovery will publish, the policy journal
\* holds the plan that authorised it (claim() writes it before transaction()
\* writes the publication journal), except for a publication left behind before
\* the store had its first plan.
IntentCovered ==
    publish_journal # NoJournal =>
        \/ /\ trusted_journal # NoIntent
           /\ trusted_journal.next_state.target = publish_journal.new_current
           /\ trusted_journal.previous_generation = publish_journal.old_current
        \/ trusted_journal = NoIntent /\ trusted_state = NoPlan

\* Why recovery is always possible, in the terms an induction needs: who is at work
\* holds the policy lock; the intent on disk is one a plan authorised, and the files
\* are on one side or the other of it; and each place of a call knows what the files
\* are there.
OneWriter == \A p \in Publishers : at[p] # "idle" => policy_lock = p /\ stage[p] # "none"

Allowed(q, state, generation) ==
    IF state = NoPlan
    THEN q.bootstrap /\ generation \in {NoGeneration, q.target}
    ELSE /\ q.sequence > state.sequence
         /\ state.target = q.target \/ state.target \in q.predecessors

IntentSound ==
    trusted_journal # NoIntent =>
        LET i == trusted_journal IN
        /\ i.previous_generation # i.next_state.target
        /\ current \in {i.previous_generation, i.next_state.target}
        /\ trusted_state \in {i.previous_state, i.next_state}
        /\ current = i.previous_generation => trusted_state = i.previous_state
        /\ i.previous_state # NoPlan => i.previous_state.target = i.previous_generation
        /\ Allowed(i.next_state, i.previous_state, i.previous_generation)

StateSound ==
    /\ trusted_journal = NoIntent /\ trusted_state # NoPlan => trusted_state.target = current
    /\ owner_marker = "initialized" => trusted_state # NoPlan

Replaying(p) ==
    /\ at[p] \in {"replay_current", "replay_remove"} => publish_journal # NoJournal
    /\ at[p] = "replay_remove" => current = publish_journal.new_current
    /\ at[p] = "recovered" /\ recovery[p].ok =>
          publish_journal = NoJournal /\ active[p] = current

Reconciling(p) ==
    /\ at[p] \in {"reconcile", "complete_marker", "complete_journal", "adopt",
                  "reconciled", "update", "claim"} =>
          /\ publish_journal = NoJournal /\ active[p] = current
          /\ stage[p] = "apply" => previous_generation[p] = current
    /\ at[p] \in {"complete_marker", "complete_journal"} =>
          /\ trusted_journal # NoIntent
          /\ current = trusted_journal.next_state.target
          /\ trusted_state = trusted_journal.next_state
    /\ at[p] \in {"adopt", "reconciled", "update", "claim"} => trusted_journal = NoIntent
    /\ at[p] \in {"reconciled", "update", "claim"} => accepted[p] = trusted_state

Applying == {"update", "claim", "publish_journal", "publish_previous", "publish_current",
             "publish_remove", "commit"}
Publishing == {"publish_journal", "publish_previous", "publish_current", "publish_remove"}
Restoring == {"restore_previous", "restore_current", "restore_journal"}

Applied(p) ==
    /\ plan[p] \in Plans
    /\ accepted[p] = trusted_state
    /\ plan[p] = trusted_state \/ Allowed(plan[p], trusted_state, previous_generation[p])

OwnIntent(p) == [previous_generation |-> previous_generation[p],
                 previous_state |-> accepted[p], next_state |-> plan[p]]

Transacting(p) ==
    /\ at[p] # "idle" /\ stage[p] = "apply" => plan[p] \in Plans
    /\ at[p] \in Applying => stage[p] = "apply" /\ Applied(p)
    /\ at[p] \in {"claim"} \cup Publishing \cup Restoring =>
          /\ transaction[p] \in Journal
          /\ transaction[p].old_current = previous_generation[p]
    /\ at[p] \in {"claim"} \cup Publishing =>
          /\ transaction[p].new_current = plan[p].target
          /\ previous_generation[p] # plan[p].target
    /\ at[p] \in {"claim", "publish_journal", "publish_previous", "publish_current"} \cup Restoring
          => current = previous_generation[p]
    /\ at[p] \in Publishing => trusted_journal = OwnIntent(p)
    /\ at[p] = "publish_journal" => publish_journal = NoJournal
    /\ at[p] = "publish_remove" => current = plan[p].target

Accepting(p) ==
    /\ at[p] = "updated" /\ update[p].ok => stage[p] = "apply" /\ Applied(p)
    /\ \/ at[p] = "updated" /\ update[p].ok
       \/ at[p] = "commit"
       => /\ publish_journal = NoJournal
          /\ current = plan[p].target
          /\ \/ trusted_journal = OwnIntent(p)
             \/ trusted_journal = NoIntent /\ previous_generation[p] = current
    /\ at[p] \in {"commit_marker", "commit_journal", "committed"} =>
          /\ plan[p] \in Plans /\ plan[p] = trusted_state
          /\ publish_journal = NoJournal
          /\ current = plan[p].target
          /\ trusted_journal # NoIntent => trusted_journal.next_state = plan[p]
    /\ at[p] = "committed" => trusted_journal = NoIntent

FilesSound == IntentCovered /\ IntentSound /\ StateSound

PlaceSound(p) == Replaying(p) /\ Reconciling(p) /\ Transacting(p) /\ Accepting(p)

PublicationInv == OneWriter /\ FilesSound /\ \A p \in Publishers : PlaceSound(p)

\* Why a reply is true: each place of a call knows how far its claim got, what its last
\* results mean, and, from a durable intent until the reply, which of the two generations
\* the files are at. Nobody is at work while a reply stands.
Claimless == {"idle", "own", "recover", "replay_current", "replay_remove", "recovered",
              "reconcile", "complete_marker", "complete_journal", "adopt", "reconciled",
              "update", "claim"}
Committing == {"commit", "commit_marker", "commit_journal", "committed"}

ResultsSound(p) ==
    /\ update[p].ok => update[p].disposition = "committed"
    /\ recovery[p].ok => recovery[p].disposition # "uncertain"
    /\ at[p] \in {"reconcile", "complete_marker", "complete_journal", "adopt", "reconciled"}
          => recovery[p].ok
    /\ at[p] \in Committing => update[p].disposition = "committed"

ClaimSound(p) ==
    /\ at[p] \in Claimless /\ stage[p] # "settle" => claim[p] = "none"
    /\ at[p] = "idle" => stage[p] # "settle"
    /\ stage[p] = "settle" => claim[p] \in {"prepared", "rejected"} /\ ~update[p].ok
    /\ at[p] \in Publishing \cup Restoring \cup {"updated"} \cup Committing
          => stage[p] = "apply"
    /\ at[p] \in Publishing => claim[p] = "prepared"
    /\ at[p] \in Committing \/ (at[p] = "updated" /\ update[p].ok)
          => claim[p] \in {"none", "prepared"}
    /\ at[p] = "state_failed" /\ stage[p] # "settle" /\ claim[p] # "none"
          => stage[p] = "apply" /\ claim[p] = "prepared" /\ update[p].disposition = "committed"

Unsettled(p) ==
    \/ stage[p] = "settle"
    \/ /\ at[p] \in Publishing \cup Restoring \cup {"updated"}
       /\ claim[p] \in {"prepared", "rejected"}

Outstanding(p) ==
    /\ plan[p] \in Plans /\ previous_generation[p] # plan[p].target
    /\ publish_journal # NoJournal => publish_journal.new_current = plan[p].target
    /\ trusted_journal # NoIntent => trusted_journal.next_state = plan[p]
    /\ current \in {previous_generation[p], plan[p].target}
    /\ claim[p] = "rejected" =>
          /\ publish_journal = NoJournal /\ current = previous_generation[p]
          /\ trusted_state # plan[p]
    /\ at[p] \notin Publishing \cup Restoring =>
          /\ current = previous_generation[p] => update[p].pinned = current
          /\ update[p].disposition = "not_committed" =>
                publish_journal = NoJournal /\ current = previous_generation[p]

Answering(p) ==
    /\ ResultsSound(p) /\ ClaimSound(p)
    /\ at[p] \in (Publishing \ {"publish_remove"}) \cup Restoring => active[p] = current
    /\ at[p] = "updated" /\ ~update[p].ok /\ claim[p] \in {"none", "attempted"} =>
          update[p].pinned = current /\ current = previous_generation[p]
    /\ Unsettled(p) => Outstanding(p)

\* No crash and no failed write leaves a store that reconcile() rejects for
\* good: after the updater's recovery the intent is either done or not begun.
ReconcileAccepts == \A p \in Publishers :
    /\ at[p] = "reconcile" => ~Irreconcilable(active[p])
    /\ at[p] = "adopt" => Consistent(active[p])

\* With no journal on disk the accepted plan names the current generation, which
\* is what attest_exact tells a starting service.
StateNamesCurrent ==
    publish_journal = NoJournal /\ trusted_journal = NoIntent /\ trusted_state # NoPlan
        => trusted_state.target = current

\* What a call answers is what it did, crashes and failed writes included: a
\* success is complete, a cancelled or not-committed publication left the
\* generation alone, and an ambiguous one settled by this owner names the
\* generation that is now current.
RepliesAreTrue ==
    reply # NoReply =>
        /\ reply.call = "apply" /\ reply.error = "none" =>
              /\ current = reply.plan.target /\ trusted_state = reply.plan
              /\ publish_journal = NoJournal /\ trusted_journal = NoIntent
        /\ \/ reply.error = "cancelled"
           \/ reply.claim # "none" /\ reply.disposition = "not_committed"
           => current = reply.before
        /\ reply.claim = "rejected" => trusted_state # reply.plan
        /\ is_recovered[reply.by] /\ reply.disposition = "uncertain" => reply.pinned = current

\* Spelled out for an induction: while a reply stands nobody is at work.
AnswerInv ==
    /\ \A p \in Publishers : Answering(p)
    /\ reply # NoReply => policy_lock = Nobody
    /\ RepliesAreTrue

\* A service is attested only for the generation that is current at that moment,
\* although it pinned it earlier and without the lock.
AttestedIsCurrent ==
    [][~service.attested /\ service'.attested
           => service.pin = current /\ trusted_state.target = current]_vars

\* The plan in force: the one being completed once its generation is published.
InForce ==
    IF trusted_journal # NoIntent /\ current = trusted_journal.next_state.target
    THEN trusted_journal.next_state
    ELSE trusted_state

Publication == INSTANCE TrustedPublication WITH generation <- current, plan <- InForce

\* Generation and plan change together and only as authorised, whatever is
\* interrupted: the two journals and their recovery implement one atomic step.
ImplementsPublication == Publication!Spec
====
