---- MODULE PublicationProofs ----
(***************************************************************************)
(* Proofs about TrustedPlanUpdateOwner, for any number of publishers,      *)
(* generations and plans. Types: every step keeps TypeOK, given that each  *)
(* place of a call finds the files and its own variables as PublicationInv *)
(* says. Safety: PublicationInv is inductive; only the holder of the       *)
(* policy lock is at work, so a step has to show that the files stay sound *)
(* and that the place the publisher goes to finds them as PlaceSound says. *)
(* Refinement: of all steps only the replacement of current.json and, for  *)
(* a plan that keeps its generation, the write of the state change the     *)
(* generation and plan in force, both at once, as the plan authorises.     *)
(***************************************************************************)
EXTENDS TrustedPlanUpdateOwner, TLAPS

-----------------------------------------------------------------------------
(* The types of the operators the actions are built from *)

LEMMA WrittenType ==
    ASSUME NEW S, NEW new \in S, NEW old \in S, NEW outcome
    PROVE  Written(outcome, new, old) \in S
  BY DEF Written

LEMMA ResultType ==
    ASSUME NEW generation \in Pointer,
           NEW disposition \in {"not_committed", "committed", "uncertain"}
    PROVE  /\ Succeeds(disposition, generation) \in Result
           /\ Fails(disposition, generation) \in Result
           /\ NoResult \in Result
  BY DEF Succeeds, Fails, NoResult, Result, Pointer

LEMMA GotoType ==
    ASSUME TypeOK, NEW p \in Publishers, NEW where \in Steps, Goto(p, where)
    PROVE  at' \in [Publishers -> Steps]
  BY DEF TypeOK, Goto

LEMMA ContinueType ==
    ASSUME TypeOK, NEW p \in Publishers, NEW outcome,
           NEW next \in Steps, NEW failure \in Steps, Continue(p, outcome, next, failure)
    PROVE  at' \in [Publishers -> Steps]
  BY DEF TypeOK, Goto, Continue

LEMMA PinType ==
    ASSUME TypeOK, NEW p \in Publishers, NEW generation \in Pointer, Pin(p, generation)
    PROVE  active' \in [Publishers -> Pointer]
  BY DEF TypeOK, Pin

LEMMA RecoveredType ==
    ASSUME TypeOK, NEW p \in Publishers, NEW result \in Result, Recovered(p, result)
    PROVE  recovery' \in [Publishers -> Result] /\ at' \in [Publishers -> Steps]
  <1>1. "recovered" \in Steps
    BY DEF Steps
  <1>2. QED
    BY <1>1, GotoType DEF Recovered, TypeOK

LEMMA UpdatedType ==
    ASSUME TypeOK, NEW p \in Publishers, NEW result \in Result, Updated(p, result)
    PROVE  update' \in [Publishers -> Result] /\ at' \in [Publishers -> Steps]
  <1>1. "updated" \in Steps
    BY DEF Steps
  <1>2. QED
    BY <1>1, GotoType DEF Updated, TypeOK

-----------------------------------------------------------------------------
(* The updater *)

\* What the updater's steps leave alone is typed as before.
LEMMA UpdaterFrame ==
    ASSUME TypeOK, UNCHANGED <<store, owner, service>>,
           at' \in [Publishers -> Steps],
           current' \in Pointer, previous' \in Pointer,
           publish_journal' \in Journal \cup {NoJournal},
           active' \in [Publishers -> Pointer],
           transaction' \in [Publishers -> Journal \cup {NoJournal}],
           update' \in [Publishers -> Result], recovery' \in [Publishers -> Result]
    PROVE  TypeOK'
  BY DEF TypeOK, store, policy, owner

LEMMA RecoverStepType ==
    ASSUME TypeOK, PublicationInv, NEW p \in Publishers, RecoverStep(p),
           UNCHANGED <<store, owner, service>>
    PROVE  TypeOK'
  <1>1. /\ \A q \in Publishers : active[q] \in Pointer
        /\ current \in Pointer /\ previous \in Pointer
        /\ publish_journal \in Journal \cup {NoJournal}
        /\ {"replay_current", "replay_remove"} \subseteq Steps
    BY DEF TypeOK, Steps
  <1>2. CASE RecoverClean(p)
    <2>1. /\ active' \in [Publishers -> Pointer]
          /\ recovery' \in [Publishers -> Result] /\ at' \in [Publishers -> Steps]
      BY <1>1, <1>2, PinType, RecoveredType, ResultType DEF RecoverClean, TypeOK
    <2>2. QED
      BY <1>2, <2>1, UpdaterFrame DEF RecoverClean, TypeOK, pointers
  <1>3. ASSUME NEW outcome \in Outcomes, ReplayPrevious(p, outcome)
        PROVE  TypeOK'
    <2>1. publish_journal.new_previous \in Pointer
      BY <1>1, <1>3 DEF ReplayPrevious, Journal
    <2>2. previous' \in Pointer
      BY <1>1, <1>3, <2>1, WrittenType DEF ReplayPrevious
    <2>3. recovery' \in [Publishers -> Result] /\ at' \in [Publishers -> Steps]
      BY <1>1, <1>3, GotoType, RecoveredType, ResultType DEF ReplayPrevious, TypeOK
    <2>4. QED
      BY <1>3, <2>2, <2>3, UpdaterFrame DEF ReplayPrevious, TypeOK
  <1>4. ASSUME NEW outcome \in Outcomes, ReplayCurrent(p, outcome)
        PROVE  TypeOK'
    <2>1. publish_journal.new_current \in Pointer
      BY <1>1, <1>4 DEF ReplayCurrent, PublicationInv, PlaceSound, Replaying, Journal, Pointer
    <2>2. current' \in Pointer
      BY <1>1, <1>4, <2>1, WrittenType DEF ReplayCurrent
    <2>3. /\ active' \in [Publishers -> Pointer]
          /\ recovery' \in [Publishers -> Result] /\ at' \in [Publishers -> Steps]
      <3>1. CASE outcome = "done"
        BY <1>1, <1>4, <3>1, GotoType DEF ReplayCurrent, TypeOK
      <3>2. CASE outcome = "failed"
        BY <1>1, <1>4, <3>2, RecoveredType, ResultType DEF ReplayCurrent, TypeOK
      <3>3. CASE outcome = "unsynced"
        BY <1>1, <1>4, <3>3, PinType, RecoveredType, ResultType DEF ReplayCurrent, Reload
      <3>4. QED
        BY <3>1, <3>2, <3>3 DEF Outcomes
    <2>4. QED
      BY <1>4, <2>2, <2>3, UpdaterFrame DEF ReplayCurrent, TypeOK
  <1>5. ASSUME NEW outcome \in Outcomes, ReplayRemove(p, outcome)
        PROVE  TypeOK'
    <2>1. publish_journal' \in Journal \cup {NoJournal}
      BY <1>1, <1>5, WrittenType DEF ReplayRemove
    <2>2. /\ active' \in [Publishers -> Pointer]
          /\ recovery' \in [Publishers -> Result] /\ at' \in [Publishers -> Steps]
      BY <1>1, <1>5, PinType, RecoveredType, ResultType DEF ReplayRemove, Reload
    <2>3. QED
      BY <1>5, <2>1, <2>2, UpdaterFrame DEF ReplayRemove, TypeOK
  <1>6. QED
    BY <1>2, <1>3, <1>4, <1>5 DEF RecoverStep

\* One write of a transaction and where its outcome leads.
LEMMA UpdateReturnsType ==
    ASSUME TypeOK, NEW p \in Publishers, NEW generation \in Pointer,
           NEW disposition \in {"not_committed", "committed", "uncertain"},
           \/ Updated(p, Succeeds(disposition, generation))
           \/ Updated(p, Fails(disposition, generation))
    PROVE  update' \in [Publishers -> Result] /\ at' \in [Publishers -> Steps]
  BY UpdatedType, ResultType

LEMMA TransactionStepType ==
    ASSUME TypeOK, PublicationInv, NEW p \in Publishers, TransactionStep(p),
           UNCHANGED <<store, owner, service>>
    PROVE  TypeOK'
  <1>1. /\ active[p] \in Pointer /\ current \in Pointer /\ previous \in Pointer
        /\ publish_journal \in Journal \cup {NoJournal}
        /\ Publishing \cup Restoring \subseteq Steps
    BY DEF TypeOK, Steps, Publishing, Restoring
  <1>2. at[p] \in Publishing \cup Restoring =>
          /\ transaction[p] \in Journal
          /\ transaction[p].old_previous \in Pointer /\ transaction[p].old_current \in Pointer
          /\ transaction[p].new_previous \in Pointer /\ transaction[p].new_current \in Pointer
    BY DEF PublicationInv, PlaceSound, Transacting, Journal, Pointer
  <1>3. ASSUME NEW outcome \in Outcomes, PublishJournal(p, outcome)
        PROVE  TypeOK'
    <2>1. publish_journal' \in Journal \cup {NoJournal}
      BY <1>1, <1>2, <1>3, WrittenType DEF PublishJournal, Publishing
    <2>2. at' \in [Publishers -> Steps]
      BY <1>1, <1>3, ContinueType DEF PublishJournal, Publishing, Restoring
    <2>3. QED
      BY <1>3, <2>1, <2>2, UpdaterFrame DEF PublishJournal, TypeOK
  <1>4. ASSUME NEW outcome \in Outcomes, PublishPrevious(p, outcome)
        PROVE  TypeOK'
    <2>1. previous' \in Pointer
      BY <1>1, <1>2, <1>4, WrittenType DEF PublishPrevious, Publishing
    <2>2. at' \in [Publishers -> Steps]
      BY <1>1, <1>4, ContinueType DEF PublishPrevious, Publishing, Restoring
    <2>3. QED
      BY <1>4, <2>1, <2>2, UpdaterFrame DEF PublishPrevious, TypeOK
  <1>5. ASSUME NEW outcome \in Outcomes, PublishCurrent(p, outcome)
        PROVE  TypeOK'
    <2>1. current' \in Pointer
      BY <1>1, <1>2, <1>5, WrittenType DEF PublishCurrent, Publishing
    <2>2. update' \in [Publishers -> Result] /\ at' \in [Publishers -> Steps]
      BY <1>1, <1>5, ContinueType, UpdateReturnsType
         DEF PublishCurrent, Publishing, Restoring, TypeOK
    <2>3. QED
      BY <1>5, <2>1, <2>2, UpdaterFrame DEF PublishCurrent, TypeOK
  <1>6. ASSUME NEW outcome \in Outcomes, PublishRemove(p, outcome)
        PROVE  TypeOK'
    <2>1. publish_journal' \in Journal \cup {NoJournal}
      BY <1>1, <1>6, WrittenType DEF PublishRemove
    <2>2. /\ active' \in [Publishers -> Pointer]
          /\ update' \in [Publishers -> Result] /\ at' \in [Publishers -> Steps]
      BY <1>1, <1>6, PinType, UpdateReturnsType DEF PublishRemove, Reload
    <2>3. QED
      BY <1>6, <2>1, <2>2, UpdaterFrame DEF PublishRemove, TypeOK
  <1>7. ASSUME NEW outcome \in Outcomes, RestorePrevious(p, outcome)
        PROVE  TypeOK'
    <2>1. previous' \in Pointer
      BY <1>1, <1>2, <1>7, WrittenType DEF RestorePrevious, Restoring
    <2>2. update' \in [Publishers -> Result] /\ at' \in [Publishers -> Steps]
      BY <1>1, <1>7, GotoType, UpdateReturnsType
         DEF RestorePrevious, RestoreFailed, Restoring, TypeOK
    <2>3. QED
      BY <1>7, <2>1, <2>2, UpdaterFrame DEF RestorePrevious, TypeOK
  <1>8. ASSUME NEW outcome \in Outcomes, RestoreCurrent(p, outcome)
        PROVE  TypeOK'
    <2>1. current' \in Pointer
      BY <1>1, <1>2, <1>8, WrittenType DEF RestoreCurrent, Restoring
    <2>2. update' \in [Publishers -> Result] /\ at' \in [Publishers -> Steps]
      BY <1>1, <1>8, GotoType, UpdateReturnsType
         DEF RestoreCurrent, RestoreFailed, Restoring, TypeOK
    <2>3. QED
      BY <1>8, <2>1, <2>2, UpdaterFrame DEF RestoreCurrent, TypeOK
  <1>9. ASSUME NEW outcome \in Outcomes, RestoreJournal(p, outcome)
        PROVE  TypeOK'
    <2>1. publish_journal' \in Journal \cup {NoJournal}
      BY <1>1, <1>9, WrittenType DEF RestoreJournal
    <2>2. update' \in [Publishers -> Result] /\ at' \in [Publishers -> Steps]
      BY <1>1, <1>9, UpdateReturnsType DEF RestoreJournal, RestoreFailed
    <2>3. QED
      BY <1>9, <2>1, <2>2, UpdaterFrame DEF RestoreJournal, TypeOK
  <1>10. QED
    BY <1>3, <1>4, <1>5, <1>6, <1>7, <1>8, <1>9 DEF TransactionStep

-----------------------------------------------------------------------------
(* The state store *)

LEMMA StoreFrame ==
    ASSUME TypeOK, UNCHANGED <<updater, owner, service>>,
           at' \in [Publishers -> Steps],
           trusted_state' \in Plans \cup {NoPlan},
           trusted_journal' \in Intent \cup {NoIntent},
           owner_marker' \in {"absent", "uninitialized", "initialized"},
           accepted' \in [Publishers -> Plans \cup {NoPlan}],
           is_ready' \in [Publishers -> BOOLEAN]
    PROVE  TypeOK'
  BY DEF TypeOK, updater, pointers, owner

LEMMA StoreStepType ==
    ASSUME TypeOK, PublicationInv, NEW p \in Publishers, StoreStep(p)
    PROVE  TypeOK'
  <1>1. /\ trusted_state \in Plans \cup {NoPlan} /\ plan[p] \in Plans \cup {NoPlan}
        /\ trusted_journal \in Intent \cup {NoIntent}
        /\ trusted_journal # NoIntent => trusted_journal.next_state \in Plans
        /\ owner_marker \in {"absent", "uninitialized", "initialized"}
        /\ accepted \in [Publishers -> Plans \cup {NoPlan}]
        /\ is_ready \in [Publishers -> BOOLEAN]
        /\ UNCHANGED <<updater, owner, service>>
    BY DEF TypeOK, Intent, StoreStep
  <1>2. {"recover", "complete_marker", "complete_journal", "adopt", "reconciled",
         "commit_marker", "commit_journal", "committed", "state_failed"} \subseteq Steps
    BY DEF Steps
  <1>3. ASSUME NEW outcome \in Outcomes, ClaimOwnership(p, outcome, "recover")
        PROVE  TypeOK'
    BY <1>1, <1>2, <1>3, StoreFrame, ContinueType, WrittenType DEF ClaimOwnership
  <1>4. CASE ReconcileStep(p, active[p])
    <2>1. Unready(p) => is_ready' \in [Publishers -> BOOLEAN]
      BY <1>1 DEF Unready
    <2>2. ASSUME NEW outcome \in Outcomes, CompleteState(p, active[p], outcome)
          PROVE  TypeOK'
      <3>1. trusted_state' \in Plans \cup {NoPlan}
        BY <1>1, <2>2, WrittenType DEF CompleteState, Published
      <3>2. QED
        BY <1>1, <1>2, <2>1, <2>2, <3>1, StoreFrame, ContinueType DEF CompleteState
    <2>3. ASSUME NEW outcome \in Outcomes, CompleteMarker(p, outcome)
          PROVE  TypeOK'
      BY <1>1, <1>2, <2>3, StoreFrame, ContinueType, WrittenType DEF CompleteMarker
    <2>4. ASSUME NEW outcome \in Outcomes, CompleteJournal(p, outcome)
          PROVE  TypeOK'
      BY <1>1, <1>2, <2>4, StoreFrame, ContinueType, WrittenType
         DEF CompleteJournal, RemoveIntent
    <2>5. ASSUME NEW outcome \in Outcomes, Discard(p, active[p], outcome)
          PROVE  TypeOK'
      BY <1>1, <1>2, <2>1, <2>5, StoreFrame, ContinueType, WrittenType
         DEF Discard, RemoveIntent
    <2>6. CASE NothingPending(p) \/ RejectIntent(p) \/ RejectState(p, active[p])
      BY <1>1, <1>2, <2>1, <2>6, StoreFrame, GotoType
         DEF NothingPending, RejectIntent, RejectState, policy, store
    <2>7. ASSUME NEW outcome \in Outcomes, Adopt(p, active[p], outcome)
          PROVE  TypeOK'
      <3>1. at' \in [Publishers -> Steps]
        BY <1>2, <2>7, GotoType, ContinueType DEF Adopt
      <3>2. owner_marker' \in {"absent", "uninitialized", "initialized"}
        BY <1>1, <2>7, WrittenType DEF Adopt
      <3>3. /\ accepted' \in [Publishers -> Plans \cup {NoPlan}]
            /\ is_ready' \in [Publishers -> BOOLEAN]
        BY <1>1, <2>7 DEF Adopt
      <3>4. QED
        BY <1>1, <2>7, <3>1, <3>2, <3>3, StoreFrame DEF Adopt
    <2>8. QED
      BY <1>4, <2>2, <2>3, <2>4, <2>5, <2>6, <2>7 DEF ReconcileStep
  <1>5. CASE CommitStep(p, plan[p])
    <2>1. CASE RejectCommit(p)
      BY <1>1, <1>2, <2>1, StoreFrame, GotoType DEF RejectCommit, policy, store
    <2>2. ASSUME NEW outcome \in Outcomes, CommitState(p, plan[p], outcome)
          PROVE  TypeOK'
      BY <1>1, <1>2, <2>2, StoreFrame, ContinueType, WrittenType DEF CommitState
    <2>3. ASSUME NEW outcome \in Outcomes, CommitMarker(p, plan[p], outcome)
          PROVE  TypeOK'
      <3>1. at' \in [Publishers -> Steps]
        BY <1>2, <2>3, ContinueType DEF CommitMarker
      <3>2. QED
        BY <1>1, <2>3, <3>1, StoreFrame, WrittenType DEF CommitMarker
    <2>4. ASSUME NEW outcome \in Outcomes, CommitJournal(p, outcome)
          PROVE  TypeOK'
      BY <1>1, <1>2, <2>4, StoreFrame, ContinueType, WrittenType
         DEF CommitJournal, RemoveIntent
    <2>5. QED
      BY <1>5, <2>1, <2>2, <2>3, <2>4 DEF CommitStep
  <1>6. QED
    BY <1>3, <1>4, <1>5 DEF StoreStep

-----------------------------------------------------------------------------
(* The owner *)

Errors == {"none", "not_recovered", "invalid_plan", "cancelled", "state_failure",
           "updater_failure"}

\* The stage a call is in, and what it answers with.
LEMMA CallFields ==
    ASSUME TypeOK, NEW p \in Publishers
    PROVE  /\ plan[p] \in Plans \cup {NoPlan}
           /\ previous_generation[p] \in Pointer /\ active[p] \in Pointer
           /\ claim[p] \in {"none", "attempted", "prepared", "rejected"}
           /\ stage[p] \in {"none", "recover", "apply", "settle"}
           /\ update[p] \in Result /\ recovery[p] \in Result
           /\ is_recovered[p] \in BOOLEAN
  BY DEF TypeOK

LEMMA ReturnType ==
    ASSUME TypeOK, PublicationInv, NEW p \in Publishers, at[p] # "idle",
           NEW error \in Errors, NEW result \in Result, NEW recovered \in BOOLEAN,
           Return(p, error, result, recovered)
    PROVE  TypeOK'
  <1>1. stage[p] \in {"recover", "apply", "settle"}
    BY CallFields DEF PublicationInv, OneWriter
  <1>2. reply' \in Reply
    <2>1. /\ result.disposition \in {"not_committed", "committed", "uncertain"}
          /\ result.pinned \in Pointer
      BY DEF Result
    <2>2. QED
      BY <1>1, <2>1, CallFields DEF Return, Reply, Errors
  <1>3. at' \in [Publishers -> Steps]
    BY GotoType DEF Return, Steps
  <1>4. /\ transaction' \in [Publishers -> Journal \cup {NoJournal}]
        /\ update' \in [Publishers -> Result] /\ recovery' \in [Publishers -> Result]
        /\ is_recovered' \in [Publishers -> BOOLEAN]
        /\ policy_lock' \in Publishers \cup {Nobody}
        /\ stage' \in [Publishers -> {"none", "recover", "apply", "settle"}]
        /\ plan' \in [Publishers -> Plans \cup {NoPlan}]
        /\ claim' \in [Publishers -> {"none", "attempted", "prepared", "rejected"}]
        /\ previous_generation' \in [Publishers -> Pointer]
    BY ResultType DEF TypeOK, Return, Pointer
  <1>5. QED
    BY <1>2, <1>3, <1>4 DEF TypeOK, Return, pointers, store, policy

LEMMA DisambiguatedType ==
    ASSUME TypeOK, NEW p \in Publishers
    PROVE  Disambiguated(p) \in Result
  BY CallFields DEF Disambiguated, Result

\* A step of the owner that only goes on elsewhere.
LEMMA GoesOnType ==
    ASSUME TypeOK, NEW p \in Publishers, NEW where \in Steps, Goto(p, where),
           UNCHANGED <<updater, store, owner, service>>
    PROVE  TypeOK'
  BY GotoType DEF TypeOK, updater, pointers, store, policy, owner

LEMMA UpdateType ==
    ASSUME TypeOK, PublicationInv, NEW p \in Publishers, Update(p)
    PROVE  TypeOK'
  <1>1. at[p] = "update" /\ plan[p] \in Plans
    BY DEF Update, UpdateFails, UpdateSameGeneration, BeginTransaction,
           PublicationInv, PlaceSound, Transacting, Applying, Applied
  <1>2. /\ plan[p].target \in Generations /\ active[p] \in Pointer
        /\ current \in Pointer /\ previous \in Pointer
    BY <1>1, PublicationAssumption DEF TypeOK
  <1>3. CASE UpdateFails(p)
    <2>1. update' \in [Publishers -> Result] /\ at' \in [Publishers -> Steps]
      BY <1>2, <1>3, UpdatedType, ResultType DEF UpdateFails
    <2>2. QED
      BY <1>3, <2>1, UpdaterFrame DEF UpdateFails, Update, pointers, TypeOK
  <1>4. CASE UpdateSameGeneration(p, plan[p].target, previous_generation[p])
    <2>1. /\ active' \in [Publishers -> Pointer]
          /\ update' \in [Publishers -> Result] /\ at' \in [Publishers -> Steps]
      BY <1>2, <1>4, UpdatedType, ResultType, PinType DEF UpdateSameGeneration
    <2>2. QED
      BY <1>4, <2>1, UpdaterFrame DEF UpdateSameGeneration, Update, pointers, TypeOK
  <1>5. CASE BeginTransaction(p, plan[p].target, previous_generation[p])
    <2>1. [old_previous |-> previous, old_current |-> current,
           new_previous |-> current, new_current |-> plan[p].target] \in Journal
      BY <1>2 DEF Journal
    <2>2. transaction' \in [Publishers -> Journal \cup {NoJournal}]
      BY <1>5, <2>1 DEF BeginTransaction, TypeOK
    <2>3. active' \in [Publishers -> Pointer] /\ at' \in [Publishers -> Steps]
      BY <1>2, <1>5, PinType, GotoType DEF BeginTransaction, Steps
    <2>4. QED
      BY <1>5, <2>2, <2>3, UpdaterFrame DEF BeginTransaction, Update, pointers, TypeOK
  <1>6. QED
    BY <1>3, <1>4, <1>5 DEF Update

LEMMA ClaimType ==
    ASSUME TypeOK, PublicationInv, NEW p \in Publishers,
           NEW outcome \in Outcomes, NEW granted \in BOOLEAN, Claim(p, outcome, granted)
    PROVE  TypeOK'
  <1>1. at[p] = "claim" /\ plan[p] \in Plans
    BY DEF Claim, PublicationInv, PlaceSound, Transacting, Applying, Applied
  <1>2. trusted_journal' \in Intent \cup {NoIntent}
    <2>1. [previous_generation |-> previous_generation[p], previous_state |-> accepted[p],
           next_state |-> plan[p]] \in Intent
      BY <1>1 DEF TypeOK, Intent
    <2>2. trusted_journal \in Intent \cup {NoIntent}
      BY DEF TypeOK
    <2>3. Prepare(p, previous_generation[p], plan[p], outcome)
      BY DEF Claim
    <2>4. QED
      BY <2>1, <2>2, <2>3 DEF Prepare, Written
  <1>3. /\ at' \in [Publishers -> Steps]
        /\ claim' \in [Publishers -> {"none", "attempted", "prepared", "rejected"}]
    BY GotoType DEF Claim, Steps, TypeOK
  <1>4. QED
    BY <1>2, <1>3 DEF Claim, TypeOK, updater, pointers

LEMMA OwnerStepType ==
    ASSUME TypeOK, PublicationInv, NEW p \in Publishers, OwnerStep(p)
    PROVE  TypeOK'
  <1>1. /\ {"reconcile", "update", "commit", "recover", "restore_previous"} \subseteq Steps
        /\ {"none", "not_recovered", "invalid_plan", "cancelled", "state_failure",
            "updater_failure"} \subseteq Errors
        /\ NoResult \in Result
    BY DEF Steps, Errors, NoResult, Result, Pointer
  <1>2. CASE RecoveryFailed(p)
    BY <1>1, <1>2, CallFields, ReturnType DEF RecoveryFailed
  <1>3. CASE RecoverySucceeded(p)
    <2>1. at' \in [Publishers -> Steps] /\ previous_generation' \in [Publishers -> Pointer]
      BY <1>1, <1>3, GotoType DEF RecoverySucceeded, TypeOK
    <2>2. QED
      BY <1>3, <2>1 DEF RecoverySucceeded, TypeOK, updater, pointers, store, policy
  <1>4. CASE StateFailed(p)
    BY <1>1, <1>4, CallFields, ReturnType DEF StateFailed
  <1>5. CASE RecoverReturns(p)
    BY <1>1, <1>5, CallFields, ReturnType DEF RecoverReturns
  <1>6. CASE ApplyRefused(p)
    BY <1>1, <1>6, CallFields, ReturnType DEF ApplyRefused
  <1>7. CASE Verify(p)
    BY <1>1, <1>7, CallFields, ReturnType, GoesOnType DEF Verify
  <1>8. CASE Update(p)
    BY <1>8, UpdateType
  <1>9. CASE \E outcome \in Outcomes, granted \in BOOLEAN : Claim(p, outcome, granted)
    BY <1>9, ClaimType
  <1>10. CASE TransactionCancelled(p)
    BY <1>1, <1>10, GoesOnType DEF TransactionCancelled
  <1>11. CASE UpdateFailed(p)
    <2>1. CASE claim[p] \in {"prepared", "rejected"}
      <3>1. /\ at' \in [Publishers -> Steps]
            /\ stage' \in [Publishers -> {"none", "recover", "apply", "settle"}]
        BY <1>1, <1>11, <2>1, GotoType DEF UpdateFailed, TypeOK
      <3>2. QED
        BY <1>11, <2>1, <3>1 DEF UpdateFailed, TypeOK, updater, pointers, store, policy
    <2>2. CASE claim[p] \notin {"prepared", "rejected"}
      BY <1>1, <1>11, <2>2, CallFields, ReturnType DEF UpdateFailed
    <2>3. QED
      BY <2>1, <2>2
  <1>12. CASE Settled(p)
    BY <1>1, <1>12, CallFields, DisambiguatedType, ReturnType DEF Settled
  <1>13. CASE ApplyReturns(p)
    BY <1>1, <1>13, CallFields, ReturnType DEF ApplyReturns
  <1>14. ASSUME NEW granted \in BOOLEAN, UpdateSucceeded(p, granted)
         PROVE  TypeOK'
    BY <1>1, <1>14, CallFields, ReturnType, GoesOnType DEF UpdateSucceeded
  <1>15. QED
    BY <1>2, <1>3, <1>4, <1>5, <1>6, <1>7, <1>8, <1>9, <1>10, <1>11, <1>12, <1>13, <1>14
       DEF OwnerStep

-----------------------------------------------------------------------------
(* Calls, crashes and the service *)

LEMMA InitType == Init => TypeOK
  BY ResultType DEF Init, TypeOK, Steps, Pointer

LEMMA CallType ==
    ASSUME TypeOK, NEW p \in Publishers,
           Recover(p) \/ \E q \in Plans : Apply(p, q)
    PROVE  TypeOK'
  <1>1. "own" \in Steps
    BY DEF Steps
  <1>2. CASE Recover(p)
    <2>1. at' \in [Publishers -> Steps]
      BY <1>1, <1>2, GotoType DEF Recover
    <2>2. QED
      BY <1>2, <2>1 DEF Recover, LockPolicy, TypeOK, updater, pointers, store, policy
  <1>3. ASSUME NEW q \in Plans, Apply(p, q)
        PROVE  TypeOK'
    <2>1. at' \in [Publishers -> Steps]
      BY <1>1, <1>3, GotoType DEF Apply
    <2>2. QED
      BY <1>3, <2>1 DEF Apply, LockPolicy, TypeOK, updater, pointers, store, policy
  <1>4. QED
    BY <1>2, <1>3

LEMMA CrashType ==
    ASSUME TypeOK, NEW p \in Publishers, Crash(p)
    PROVE  TypeOK'
  <1>1. at' \in [Publishers -> Steps]
    BY GotoType DEF Crash, Steps
  <1>2. /\ active' \in [Publishers -> Pointer]
        /\ transaction' \in [Publishers -> Journal \cup {NoJournal}]
        /\ update' \in [Publishers -> Result] /\ recovery' \in [Publishers -> Result]
    BY ResultType DEF Crash, TypeOK
  <1>3. QED
    BY <1>1, <1>2 DEF Crash, TypeOK, pointers, policy, Pointer

LEMMA ServiceType ==
    ASSUME TypeOK, Activate \/ Attest \/ StopService
    PROVE  TypeOK'
  <1>1. service' \in [pin: Pointer, attested: BOOLEAN]
    <2>1. current \in Pointer /\ NoGeneration \in Pointer
          /\ service \in [pin: Pointer, attested: BOOLEAN]
      BY DEF TypeOK, Pointer
    <2>2. CASE Activate
      BY <2>1, <2>2 DEF Activate
    <2>3. CASE Attest
      BY <2>1, <2>3 DEF Attest
    <2>4. CASE StopService
      BY <2>1, <2>4 DEF StopService
    <2>5. QED
      BY <2>2, <2>3, <2>4
  <1>2. UNCHANGED <<at, updater, store, owner>>
    BY DEF Activate, Attest, StopService
  <1>3. QED
    BY <1>1, <1>2 DEF TypeOK, updater, pointers, store, policy, owner

LEMMA StepType ==
    ASSUME TypeOK, PublicationInv, [Next]_vars
    PROVE  TypeOK'
  <1>1. ASSUME NEW p \in Publishers, UpdaterStep(p)
        PROVE  TypeOK'
    BY <1>1, RecoverStepType, TransactionStepType DEF UpdaterStep
  <1>2. CASE UNCHANGED vars
    BY <1>2 DEF vars, TypeOK, updater, pointers, store, policy, owner
  <1>3. QED
    BY <1>1, <1>2, CallType, CrashType, StoreStepType, OwnerStepType, ServiceType DEF Next


-----------------------------------------------------------------------------
(* One publisher at a time *)

LEMMA IdleIsSound == \A p \in Publishers : at[p] = "idle" => PlaceSound(p)
  BY DEF PlaceSound, Replaying, Reconciling, Transacting, Accepting, Applying, Publishing,
         Restoring

LEMMA IdleStaysSound == \A p \in Publishers : at'[p] = "idle" => PlaceSound(p)'
  BY DEF PlaceSound, Replaying, Reconciling, Transacting, Accepting, Applying, Publishing,
         Restoring

LEMMA OneAtWork ==
    ASSUME PublicationInv, NEW p \in Publishers, at[p] # "idle"
    PROVE  /\ policy_lock = p /\ stage[p] # "none"
           /\ \A q \in Publishers \ {p} : at[q] = "idle"
  BY DEF PublicationInv, OneWriter

LEMMA GotoMoves ==
    ASSUME TypeOK, NEW p \in Publishers, NEW where, Goto(p, where)
    PROVE  at'[p] = where /\ \A q \in Publishers \ {p} : at'[q] = at[q]
  BY DEF TypeOK, Goto

\* A step of the publisher at work that keeps the lock.
LEMMA WorkerKeeps ==
    ASSUME TypeOK, PublicationInv, NEW p \in Publishers, at[p] # "idle",
           \A q \in Publishers \ {p} : at'[q] = at[q],
           policy_lock' = policy_lock, stage'[p] # "none",
           FilesSound', PlaceSound(p)'
    PROVE  PublicationInv'
  <1>1. policy_lock = p /\ \A q \in Publishers \ {p} : at'[q] = "idle"
    BY OneAtWork
  <1>2. OneWriter'
    BY <1>1 DEF OneWriter
  <1>3. \A q \in Publishers : PlaceSound(q)'
    BY <1>1, IdleStaysSound
  <1>4. QED
    BY <1>2, <1>3 DEF PublicationInv

LEMMA FilesKept ==
    ASSUME FilesSound, UNCHANGED <<pointers, policy>>
    PROVE  FilesSound'
  BY DEF FilesSound, IntentCovered, IntentSound, StateSound, pointers, policy

\* A call that returns leaves everyone idle and the files alone.
LEMMA ReturnKeeps ==
    ASSUME TypeOK, PublicationInv, NEW p \in Publishers, at[p] # "idle",
           NEW error, NEW result, NEW recovered, Return(p, error, result, recovered)
    PROVE  PublicationInv'
  <1>1. \A q \in Publishers : at'[q] = "idle"
    BY GotoMoves, OneAtWork DEF Return
  <1>2. FilesSound'
    BY FilesKept DEF Return, store, PublicationInv
  <1>3. QED
    BY <1>1, <1>2, IdleStaysSound DEF PublicationInv, OneWriter

\* What is known of a place, with everything it rests on in sight.
LEMMA Places ==
    ASSUME TypeOK, PublicationInv, NEW p \in Publishers
    PROVE  /\ FilesSound /\ Replaying(p) /\ Reconciling(p) /\ Transacting(p) /\ Accepting(p)
           /\ at[p] # "idle" => stage[p] # "none"
  BY DEF PublicationInv, PlaceSound, OneWriter

-----------------------------------------------------------------------------
(* The updater's recovery *)

LEMMA FailedAnswer ==
    ASSUME NEW disposition, NEW generation
    PROVE  ~Fails(disposition, generation).ok /\ Succeeds(disposition, generation).ok
  BY DEF Fails, Succeeds

LEMMA RecoveredAt ==
    ASSUME TypeOK, NEW p \in Publishers, NEW result, Recovered(p, result)
    PROVE  /\ at'[p] = "recovered" /\ recovery'[p] = result
           /\ \A q \in Publishers \ {p} : at'[q] = at[q]
  BY GotoMoves DEF Recovered, TypeOK

LEMMA UpdatedAt ==
    ASSUME TypeOK, NEW p \in Publishers, NEW result, Updated(p, result)
    PROVE  /\ at'[p] = "updated" /\ update'[p] = result
           /\ \A q \in Publishers \ {p} : at'[q] = at[q]
  BY GotoMoves DEF Updated, TypeOK

\* Places that promise nothing of the files.
LEMMA FailedPlaces ==
    ASSUME NEW p \in Publishers,
           \/ at'[p] \in {"own", "recover", "state_failed"}
           \/ at'[p] = "recovered" /\ ~recovery'[p].ok
           \/ at'[p] = "updated" /\ ~update'[p].ok,
           stage'[p] = "apply" => plan'[p] \in Plans
    PROVE  PlaceSound(p)'
  BY DEF PlaceSound, Replaying, Reconciling, Transacting, Accepting, Applying, Publishing,
         Restoring

LEMMA RecoverStepKeeps ==
    ASSUME TypeOK, PublicationInv, NEW p \in Publishers, RecoverStep(p),
           UNCHANGED <<store, owner, service>>
    PROVE  PublicationInv'
  <1>1. /\ at[p] \in {"recover", "replay_current", "replay_remove"}
        /\ stage[p] # "none" /\ FilesSound
        /\ stage[p] = "apply" => plan[p] \in Plans
        /\ UNCHANGED <<policy, policy_lock, stage, plan>>
    BY Places DEF RecoverStep, RecoverClean, ReplayPrevious, ReplayCurrent, ReplayRemove,
                  Transacting, owner, store
  <1>2. SUFFICES /\ \A q \in Publishers \ {p} : at'[q] = at[q]
                 /\ FilesSound' /\ PlaceSound(p)'
    BY <1>1, WorkerKeeps
  <1>3. CASE RecoverClean(p)
    <2>1. FilesSound'
      BY <1>1, <1>3, FilesKept DEF RecoverClean
    <2>2. \/ /\ Recovered(p, Succeeds("not_committed", current))
             /\ active'[p] = current /\ publish_journal' = NoJournal /\ UNCHANGED current
          \/ Recovered(p, Fails("not_committed", active[p]))
      BY <1>3 DEF RecoverClean, Pin, pointers, TypeOK
    <2>3. PlaceSound(p)'
      <3>1. CASE Recovered(p, Fails("not_committed", active[p]))
        BY <1>1, <3>1, RecoveredAt, FailedAnswer, FailedPlaces
      <3>2. CASE ~Recovered(p, Fails("not_committed", active[p]))
        BY <1>1, <2>2, <3>2, RecoveredAt
           DEF PlaceSound, Replaying, Reconciling, Transacting, Accepting, Applying,
               Publishing, Restoring
      <3>3. QED
        BY <3>1, <3>2
    <2>4. QED
      BY <2>1, <2>2, <2>3, RecoveredAt
  <1>4. ASSUME NEW outcome \in Outcomes, ReplayPrevious(p, outcome)
        PROVE  /\ \A q \in Publishers \ {p} : at'[q] = at[q]
               /\ FilesSound' /\ PlaceSound(p)'
    <2>1. FilesSound'
      BY <1>1, <1>4 DEF ReplayPrevious, FilesSound, IntentCovered, IntentSound, StateSound,
                        policy
    <2>2. CASE Recovered(p, Fails("not_committed", active[p]))
      BY <1>1, <2>1, <2>2, RecoveredAt, FailedAnswer, FailedPlaces
    <2>3. CASE Goto(p, "replay_current")
      <3>1. PlaceSound(p)'
        BY <1>1, <1>4, <2>3, GotoMoves
           DEF ReplayPrevious, PlaceSound, Replaying, Reconciling, Transacting, Accepting,
               Applying, Publishing, Restoring
      <3>2. QED
        BY <2>1, <2>3, <3>1, GotoMoves
    <2>4. QED
      BY <1>4, <2>2, <2>3 DEF ReplayPrevious
  <1>5. ASSUME NEW outcome \in Outcomes, ReplayCurrent(p, outcome)
        PROVE  /\ \A q \in Publishers \ {p} : at'[q] = at[q]
               /\ FilesSound' /\ PlaceSound(p)'
    <2>1. /\ publish_journal # NoJournal /\ UNCHANGED publish_journal
          /\ outcome = "done" => current' = publish_journal.new_current
          /\ current' \in {current, publish_journal.new_current}
      BY <1>5, Places DEF ReplayCurrent, Replaying, Written
    <2>2. FilesSound'
      BY <1>1, <2>1 DEF FilesSound, IntentCovered, IntentSound, StateSound, policy
    <2>3. CASE outcome = "done"
      <3>1. PlaceSound(p)'
        BY <1>1, <1>5, <2>1, <2>3, GotoMoves
           DEF ReplayCurrent, PlaceSound, Replaying, Reconciling, Transacting, Accepting,
               Applying, Publishing, Restoring
      <3>2. QED
        BY <1>5, <2>2, <2>3, <3>1, GotoMoves DEF ReplayCurrent
    <2>4. CASE outcome # "done"
      <3>1. PICK generation, disposition : Recovered(p, Fails(disposition, generation))
        BY <1>5, <2>4 DEF ReplayCurrent
      <3>2. QED
        BY <1>1, <2>2, <3>1, RecoveredAt, FailedAnswer, FailedPlaces
    <2>5. QED
      BY <2>3, <2>4
  <1>6. ASSUME NEW outcome \in Outcomes, ReplayRemove(p, outcome)
        PROVE  /\ \A q \in Publishers \ {p} : at'[q] = at[q]
               /\ FilesSound' /\ PlaceSound(p)'
    <2>1. /\ UNCHANGED current /\ publish_journal' \in {publish_journal, NoJournal}
          /\ outcome = "done" => publish_journal' = NoJournal
      BY <1>6 DEF ReplayRemove, Written
    <2>2. FilesSound'
      BY <1>1, <2>1 DEF FilesSound, IntentCovered, IntentSound, StateSound, policy
    <2>3. CASE \E generation, disposition : Recovered(p, Fails(disposition, generation))
      BY <1>1, <2>2, <2>3, RecoveredAt, FailedAnswer, FailedPlaces
    <2>4. CASE outcome = "done" /\ Recovered(p, Succeeds("committed", current))
      <3>1. active'[p] = current
        BY <1>6, <2>4 DEF ReplayRemove, Pin, TypeOK
      <3>2. PlaceSound(p)'
        BY <1>1, <2>1, <2>4, <3>1, RecoveredAt
           DEF PlaceSound, Replaying, Reconciling, Transacting, Accepting, Applying,
               Publishing, Restoring
      <3>3. QED
        BY <2>2, <2>4, <3>2, RecoveredAt
    <2>5. QED
      BY <1>6, <2>3, <2>4 DEF ReplayRemove
  <1>7. QED
    BY <1>3, <1>4, <1>5, <1>6 DEF RecoverStep

-----------------------------------------------------------------------------
(* The updater's transaction *)

\* What every place of a transaction knows of it.
LEMMA TransactionFacts ==
    ASSUME TypeOK, PublicationInv, NEW p \in Publishers, at[p] \in Publishing \cup Restoring
    PROVE  /\ transaction[p].old_current = previous_generation[p]
           /\ at[p] \in Publishing =>
                 /\ transaction[p].new_current = plan[p].target
                 /\ previous_generation[p] # plan[p].target
                 /\ plan[p] \in Plans /\ stage[p] = "apply" /\ Applied(p)
                 /\ trusted_journal = OwnIntent(p) /\ OwnIntent(p) \in Intent
                 /\ trusted_journal # NoIntent
           /\ at[p] # "publish_remove" => current = previous_generation[p]
           /\ at[p] = "publish_remove" => current = plan[p].target
  <1>1. Transacting(p)
    BY Places
  <1>2. at[p] \in Publishing => OwnIntent(p) \in Intent
    BY <1>1 DEF Transacting, Applying, Applied, Publishing, OwnIntent, Intent, TypeOK
  <1>3. QED
    BY <1>1, <1>2, PublicationAssumption
       DEF Transacting, Publishing, Restoring, Applying, Applied

LEMMA TransactionStepKeeps ==
    ASSUME TypeOK, PublicationInv, NEW p \in Publishers, TransactionStep(p),
           UNCHANGED <<store, owner, service>>
    PROVE  PublicationInv'
  <1> DEFINE Kept == /\ \A q \in Publishers \ {p} : at'[q] = at[q]
                     /\ FilesSound' /\ PlaceSound(p)'
             i == trusted_journal
  <1>1. /\ at[p] \in Publishing \cup Restoring /\ at[p] # "idle"
        /\ UNCHANGED <<policy, policy_lock, stage, plan, accepted, claim, previous_generation>>
    BY DEF TransactionStep, PublishJournal, PublishPrevious, PublishCurrent, PublishRemove,
           RestorePrevious, RestoreCurrent, RestoreJournal, Publishing, Restoring, owner, store
  <1>2. stage[p] # "none" /\ FilesSound /\ (stage[p] = "apply" => plan[p] \in Plans)
    BY <1>1, Places DEF Transacting
  <1>3. SUFFICES Kept
    BY <1>1, <1>2, WorkerKeeps
  <1>4. ASSUME NEW result, ~result.ok, Updated(p, result), FilesSound'
        PROVE  Kept
    BY <1>1, <1>2, <1>4, UpdatedAt, FailedPlaces
  <1>5. ASSUME NEW where \in Publishing \cup Restoring, Goto(p, where), FilesSound',
               UNCHANGED transaction,
               where \in Publishing => at[p] \in Publishing,
               where # "publish_remove" => current' = previous_generation[p],
               where = "publish_remove" => current' = plan[p].target,
               where # "publish_journal"
        PROVE  Kept
    <2>1. at'[p] = where /\ \A q \in Publishers \ {p} : at'[q] = at[q]
      BY <1>5, GotoMoves
    <2>2. Transacting(p)'
      <3>1. Transacting(p)
        BY Places
      <3>2. QED
        BY <1>1, <1>2, <1>5, <2>1, <3>1
           DEF Transacting, Applying, Publishing, Restoring, Applied, OwnIntent, policy
    <2>3. QED
      BY <1>5, <2>1, <2>2
         DEF PlaceSound, Replaying, Reconciling, Accepting, Publishing, Restoring
  <1>6. ASSUME NEW outcome \in Outcomes, PublishJournal(p, outcome)
        PROVE  Kept
    <2>1. /\ at[p] = "publish_journal" /\ at[p] \in Publishing
          /\ UNCHANGED <<current, transaction>>
          /\ publish_journal' \in {publish_journal, transaction[p]}
      BY <1>6 DEF PublishJournal, Written, Publishing
    <2>2. FilesSound'
      <3>1. /\ transaction[p].new_current = i.next_state.target
            /\ transaction[p].old_current = i.previous_generation
            /\ i # NoIntent
        <4>1. /\ i = OwnIntent(p) /\ i # NoIntent
              /\ transaction[p].new_current = plan[p].target
              /\ transaction[p].old_current = previous_generation[p]
          BY <2>1, TransactionFacts
        <4>2. QED
          BY <4>1 DEF OwnIntent
      <3>2. IntentCovered'
        BY <1>1, <1>2, <2>1, <3>1 DEF FilesSound, IntentCovered, policy
      <3>3. IntentSound' /\ StateSound'
        BY <1>1, <1>2, <2>1 DEF FilesSound, IntentSound, StateSound, policy
      <3>4. QED
        BY <3>2, <3>3 DEF FilesSound
    <2>3. QED
      BY <1>1, <1>5, <1>6, <2>1, <2>2, TransactionFacts
         DEF PublishJournal, Continue, Publishing, Restoring
  <1>7. ASSUME NEW outcome \in Outcomes, PublishPrevious(p, outcome)
        PROVE  Kept
    <2>1. /\ at[p] = "publish_previous" /\ at[p] \in Publishing
          /\ UNCHANGED <<current, publish_journal, transaction>>
      BY <1>7 DEF PublishPrevious, Publishing
    <2>2. FilesSound'
      BY <1>1, <1>2, <2>1
         DEF FilesSound, IntentCovered, IntentSound, StateSound, policy
    <2>3. QED
      BY <1>1, <1>5, <1>7, <2>1, <2>2, TransactionFacts
         DEF PublishPrevious, Continue, Publishing, Restoring
  <1>8. ASSUME NEW outcome \in Outcomes, PublishCurrent(p, outcome)
        PROVE  Kept
    <2>1. /\ at[p] = "publish_current" /\ at[p] \in Publishing
          /\ UNCHANGED <<publish_journal, transaction>>
          /\ current' = IF outcome = "failed" THEN current ELSE plan[p].target
      BY <1>1, <1>8, TransactionFacts DEF PublishCurrent, Publishing, Written
    <2>2. FilesSound'
      <3>1. /\ plan[p].target = i.next_state.target
            /\ trusted_state = i.previous_state
            /\ i # NoIntent
        <4>1. i = OwnIntent(p) /\ i # NoIntent /\ Applied(p)
          BY <2>1, TransactionFacts
        <4>2. QED
          BY <4>1 DEF OwnIntent, Applied
      <3>2. IntentCovered' /\ StateSound'
        BY <1>1, <1>2, <2>1, <3>1 DEF FilesSound, IntentCovered, StateSound, policy
      <3>3. IntentSound'
        BY <1>1, <1>2, <2>1, <3>1 DEF FilesSound, IntentSound, policy
      <3>4. QED
        BY <3>2, <3>3 DEF FilesSound
    <2>3. CASE outcome = "unsynced"
      BY <1>4, <1>8, <2>2, <2>3, FailedAnswer DEF PublishCurrent
    <2>4. CASE outcome # "unsynced"
      BY <1>1, <1>5, <1>8, <2>1, <2>2, <2>4, TransactionFacts
         DEF PublishCurrent, Continue, Publishing, Restoring, Outcomes
    <2>5. QED
      BY <2>3, <2>4
  <1>9. ASSUME NEW outcome \in Outcomes, PublishRemove(p, outcome)
        PROVE  Kept
    <2>1. /\ at[p] = "publish_remove" /\ at[p] \in Publishing
          /\ UNCHANGED <<current, transaction>>
          /\ publish_journal' \in {publish_journal, NoJournal}
          /\ outcome = "done" => publish_journal' = NoJournal
      BY <1>9 DEF PublishRemove, Publishing, Written
    <2>2. FilesSound'
      BY <1>1, <1>2, <2>1
         DEF FilesSound, IntentCovered, IntentSound, StateSound, policy
    <2>3. CASE outcome = "done"
      <3>1. /\ at'[p] = "updated" /\ \A q \in Publishers \ {p} : at'[q] = at[q]
        BY <1>9, <2>3, UpdatedAt DEF PublishRemove
      <3>2. Accepting(p)'
        BY <1>1, <2>1, <2>3, <3>1, TransactionFacts
           DEF Accepting, Applied, OwnIntent, policy
      <3>3. QED
        BY <1>1, <1>2, <2>2, <3>1, <3>2
           DEF PlaceSound, Replaying, Reconciling, Transacting, Applying, Publishing, Restoring
    <2>4. CASE outcome # "done"
      BY <1>4, <1>9, <2>2, <2>4, FailedAnswer DEF PublishRemove
    <2>5. QED
      BY <2>3, <2>4
  <1>10. ASSUME NEW outcome \in Outcomes, RestorePrevious(p, outcome)
         PROVE  Kept
    <2>1. /\ at[p] = "restore_previous"
          /\ UNCHANGED <<current, publish_journal, transaction>>
      BY <1>10 DEF RestorePrevious
    <2>2. FilesSound'
      BY <1>1, <1>2, <2>1
         DEF FilesSound, IntentCovered, IntentSound, StateSound, policy
    <2>3. QED
      BY <1>1, <1>4, <1>5, <1>10, <2>1, <2>2, TransactionFacts, FailedAnswer
         DEF RestorePrevious, RestoreFailed, Publishing, Restoring
  <1>11. ASSUME NEW outcome \in Outcomes, RestoreCurrent(p, outcome)
         PROVE  Kept
    <2>1. /\ at[p] = "restore_current"
          /\ UNCHANGED <<current, publish_journal, transaction>>
      BY <1>1, <1>11, TransactionFacts DEF RestoreCurrent, Written
    <2>2. FilesSound'
      BY <1>1, <1>2, <2>1
         DEF FilesSound, IntentCovered, IntentSound, StateSound, policy
    <2>3. QED
      BY <1>1, <1>4, <1>5, <1>11, <2>1, <2>2, TransactionFacts, FailedAnswer
         DEF RestoreCurrent, RestoreFailed, Publishing, Restoring
  <1>12. ASSUME NEW outcome \in Outcomes, RestoreJournal(p, outcome)
         PROVE  Kept
    <2>1. /\ UNCHANGED current
          /\ publish_journal' \in {publish_journal, NoJournal}
      BY <1>12 DEF RestoreJournal, Written
    <2>2. FilesSound'
      BY <1>1, <1>2, <2>1
         DEF FilesSound, IntentCovered, IntentSound, StateSound, policy
    <2>3. QED
      BY <1>4, <1>12, <2>2, FailedAnswer DEF RestoreJournal, RestoreFailed
  <1>13. QED
    BY <1>6, <1>7, <1>8, <1>9, <1>10, <1>11, <1>12 DEF TransactionStep

-----------------------------------------------------------------------------
(* The state store *)

LEMMA StoreStepKeeps ==
    ASSUME TypeOK, PublicationInv, NEW p \in Publishers, StoreStep(p)
    PROVE  PublicationInv'
  <1> DEFINE Kept == /\ \A q \in Publishers \ {p} : at'[q] = at[q]
                     /\ FilesSound' /\ PlaceSound(p)'
             i == trusted_journal
  <1>1. /\ at[p] # "idle"
        /\ UNCHANGED <<pointers, active, transaction, update, recovery,
                       policy_lock, stage, plan, claim, previous_generation>>
    BY DEF StoreStep, ClaimOwnership, ReconcileStep, CommitStep, NothingPending, RejectIntent,
           RejectState, CompleteState, CompleteMarker, CompleteJournal, Discard, Adopt,
           RejectCommit, CommitState, CommitMarker, CommitJournal, updater, owner
  <1>2. /\ stage[p] # "none" /\ FilesSound /\ (stage[p] = "apply" => plan[p] \in Plans)
        /\ Reconciling(p) /\ Accepting(p) /\ Transacting(p)
    BY <1>1, Places DEF Transacting
  <1>3. SUFFICES Kept
    BY <1>1, <1>2, WorkerKeeps
  <1>4. ASSUME NEW where \in {"own", "recover", "state_failed"}, Goto(p, where), FilesSound'
        PROVE  Kept
    BY <1>1, <1>2, <1>4, GotoMoves, FailedPlaces
  <1>5. i # NoIntent => i.next_state \in Plans /\ i.next_state # NoPlan
    BY PublicationAssumption DEF TypeOK, Intent
  <1>6. ASSUME NEW outcome \in Outcomes, ClaimOwnership(p, outcome, "recover")
        PROVE  Kept
    <2>1. FilesSound'
      BY <1>1, <1>2, <1>6
         DEF ClaimOwnership, Written, FilesSound, IntentCovered, IntentSound, StateSound, pointers
    <2>2. QED
      BY <1>4, <1>6, <2>1 DEF ClaimOwnership, Continue
  <1>7. CASE ReconcileStep(p, active[p])
    \* A place of the reconciliation that finds the files as Reconciling says.
    <2>1. ASSUME NEW where \in {"complete_marker", "complete_journal", "adopt", "reconciled"},
                 Goto(p, where), FilesSound', Reconciling(p)'
          PROVE  Kept
      BY <1>1, <1>2, <2>1, GotoMoves
         DEF PlaceSound, Replaying, Transacting, Accepting, Applying, Publishing, Restoring
    <2>2. at[p] \in {"reconcile", "complete_marker", "complete_journal", "adopt"} =>
             /\ publish_journal' = NoJournal /\ active'[p] = current'
             /\ current' = current /\ active[p] = current
             /\ stage'[p] = "apply" => previous_generation'[p] = current'
      BY <1>1, <1>2 DEF Reconciling, pointers
    <2>3. ASSUME NEW outcome \in Outcomes, CompleteState(p, active[p], outcome)
          PROVE  Kept
      <3>1. /\ i # NoIntent /\ current = i.next_state.target /\ UNCHANGED <<i, owner_marker>>
            /\ trusted_state' = IF outcome = "failed" THEN trusted_state ELSE i.next_state
        BY <2>2, <2>3 DEF CompleteState, Published, Written
      <3>2. IntentSound'
        BY <1>2, <2>2, <2>3, <3>1 DEF FilesSound, IntentSound, CompleteState
      <3>3. FilesSound'
        BY <1>2, <1>5, <2>2, <2>3, <3>1, <3>2
           DEF FilesSound, IntentCovered, StateSound, CompleteState
      <3>4. CASE outcome = "done"
        <4>1. Goto(p, "complete_marker")
          BY <2>3, <3>4 DEF CompleteState, Continue
        <4>2. Reconciling(p)'
          BY <2>2, <2>3, <3>1, <3>4, <4>1, GotoMoves DEF Reconciling, CompleteState
        <4>3. QED
          BY <2>1, <3>3, <4>1, <4>2
      <3>5. CASE outcome # "done"
        BY <1>4, <2>3, <3>3, <3>5 DEF CompleteState, Continue
      <3>6. QED
        BY <3>4, <3>5
    <2>4. ASSUME NEW outcome \in Outcomes, CompleteMarker(p, outcome)
          PROVE  Kept
      <3>1. /\ i # NoIntent /\ current = i.next_state.target /\ trusted_state = i.next_state
            /\ UNCHANGED <<trusted_state, i>>
        BY <1>2, <2>4 DEF CompleteMarker, Reconciling
      <3>2. FilesSound'
        BY <1>2, <1>5, <2>2, <2>4, <3>1
           DEF FilesSound, IntentCovered, IntentSound, StateSound, CompleteMarker
      <3>3. CASE outcome = "done"
        <4>1. Goto(p, "complete_journal")
          BY <2>4, <3>3 DEF CompleteMarker, Continue
        <4>2. Reconciling(p)'
          BY <2>2, <2>4, <3>1, <4>1, GotoMoves DEF Reconciling, CompleteMarker
        <4>3. QED
          BY <2>1, <3>2, <4>1, <4>2
      <3>4. CASE outcome # "done"
        BY <1>4, <2>4, <3>2, <3>4 DEF CompleteMarker, Continue
      <3>5. QED
        BY <3>3, <3>4
    \* Both ways in which an intent is dropped: it is done, or it was not begun.
    <2>5. ASSUME NEW outcome \in Outcomes, RemoveIntent(p, outcome, "adopt"),
                 at[p] \in {"reconcile", "complete_journal"},
                 trusted_state # NoPlan => trusted_state.target = current
          PROVE  Kept
      <3>1. /\ i' \in {i, NoIntent} /\ (outcome = "done" => i' = NoIntent)
            /\ UNCHANGED <<trusted_state, owner_marker>>
        BY <2>5 DEF RemoveIntent, Written
      <3>2. FilesSound'
        BY <1>2, <2>2, <2>5, <3>1
           DEF FilesSound, IntentCovered, IntentSound, StateSound
      <3>3. CASE outcome = "done"
        <4>1. Goto(p, "adopt")
          BY <2>5, <3>3 DEF RemoveIntent, Continue
        <4>2. Reconciling(p)'
          BY <2>2, <2>5, <3>1, <3>3, <4>1, GotoMoves DEF Reconciling
        <4>3. QED
          BY <2>1, <3>2, <4>1, <4>2
      <3>4. CASE outcome # "done"
        BY <1>4, <2>5, <3>2, <3>4 DEF RemoveIntent, Continue
      <3>5. QED
        BY <3>3, <3>4
    <2>6. ASSUME NEW outcome \in Outcomes, CompleteJournal(p, outcome)
          PROVE  Kept
      BY <1>2, <2>5, <2>6 DEF CompleteJournal, Reconciling
    <2>7. ASSUME NEW outcome \in Outcomes, Discard(p, active[p], outcome)
          PROVE  Kept
      BY <1>2, <2>2, <2>5, <2>7 DEF Discard, Abandoned, FilesSound, IntentSound
    <2>8. CASE NothingPending(p)
      <3>1. Goto(p, "adopt") /\ UNCHANGED <<policy, accepted>> /\ i = NoIntent
        BY <2>8 DEF NothingPending
      <3>2. Reconciling(p)'
        BY <2>2, <2>8, <3>1, GotoMoves DEF Reconciling, NothingPending, policy
      <3>3. QED
        BY <1>1, <1>2, <2>1, <3>1, <3>2, FilesKept
    <2>9. CASE RejectIntent(p) \/ RejectState(p, active[p])
      BY <1>1, <1>2, <1>4, <2>9, FilesKept DEF RejectIntent, RejectState, store
    <2>10. ASSUME NEW outcome \in Outcomes, Adopt(p, active[p], outcome)
           PROVE  Kept
      <3>1. at[p] = "adopt" /\ i = NoIntent /\ UNCHANGED <<i, trusted_state>>
        BY <1>2, <2>10 DEF Adopt, Reconciling
      <3>2. owner_marker' # owner_marker => trusted_state # NoPlan
        BY <2>10 DEF Adopt
      <3>3. FilesSound'
        BY <1>2, <2>2, <3>1, <3>2 DEF FilesSound, IntentCovered, IntentSound, StateSound
      <3>4. CASE outcome = "done"
        <4>1. Goto(p, "reconciled") /\ accepted'[p] = trusted_state
          BY <2>10, <3>4 DEF Adopt, Continue, TypeOK
        <4>2. Reconciling(p)'
          BY <2>2, <3>1, <4>1, GotoMoves DEF Reconciling
        <4>3. QED
          BY <2>1, <3>3, <4>1, <4>2
      <3>5. CASE outcome # "done"
        BY <1>4, <2>10, <3>3, <3>5 DEF Adopt, Continue
      <3>6. QED
        BY <3>4, <3>5
    <2>11. QED
      BY <1>7, <2>3, <2>4, <2>6, <2>7, <2>8, <2>9, <2>10 DEF ReconcileStep
  <1>8. CASE CommitStep(p, plan[p])
    <2>1. at[p] \in {"commit", "commit_marker", "commit_journal"} =>
             /\ publish_journal' = NoJournal /\ current' = current
             /\ plan'[p] \in Plans /\ plan'[p] = plan[p] /\ plan[p] # NoPlan
             /\ current = plan[p].target
      BY <1>1, <1>2, PublicationAssumption DEF Accepting, Transacting, Applying, Applied, pointers
    <2>2. ASSUME NEW where \in {"commit_marker", "commit_journal", "committed"},
                 Goto(p, where), FilesSound', Accepting(p)'
          PROVE  Kept
      BY <1>1, <1>2, <2>2, GotoMoves
         DEF PlaceSound, Replaying, Reconciling, Transacting, Applying, Publishing, Restoring
    <2>3. CASE RejectCommit(p)
      BY <1>1, <1>2, <1>4, <2>3, FilesKept DEF RejectCommit, store
    <2>4. ASSUME NEW outcome \in Outcomes, CommitState(p, plan[p], outcome)
          PROVE  Kept
      <3>1. /\ at[p] = "commit" /\ UNCHANGED <<i, owner_marker>>
            /\ trusted_state' = IF outcome = "failed" THEN trusted_state ELSE plan[p]
            /\ i # NoIntent => i.next_state = plan[p]
        BY <2>4 DEF CommitState, Committable, Written
      <3>2. IntentSound'
        BY <1>2, <2>1, <3>1 DEF FilesSound, IntentSound
      <3>3. FilesSound'
        BY <1>2, <2>1, <3>1, <3>2 DEF FilesSound, IntentCovered, StateSound
      <3>4. CASE outcome = "done"
        <4>1. Goto(p, "commit_marker")
          BY <2>4, <3>4 DEF CommitState, Continue
        <4>2. Accepting(p)'
          BY <2>1, <3>1, <3>4, <4>1, GotoMoves DEF Accepting
        <4>3. QED
          BY <2>2, <3>3, <4>1, <4>2
      <3>5. CASE outcome # "done"
        BY <1>4, <2>4, <3>3, <3>5 DEF CommitState, Continue
      <3>6. QED
        BY <3>4, <3>5
    <2>5. ASSUME NEW outcome \in Outcomes, CommitMarker(p, plan[p], outcome)
          PROVE  Kept
      <3>1. /\ at[p] = "commit_marker" /\ UNCHANGED <<i, trusted_state>>
            /\ trusted_state = plan[p] /\ (i # NoIntent => i.next_state = plan[p])
        BY <1>2, <2>5 DEF CommitMarker, Accepting
      <3>2. FilesSound'
        BY <1>2, <2>1, <3>1 DEF FilesSound, IntentCovered, IntentSound, StateSound
      <3>3. CASE outcome = "done"
        <4>1. PICK where \in {"commit_journal", "committed"} :
                 Goto(p, where) /\ (where = "committed" => i = NoIntent)
          BY <2>5, <3>3 DEF CommitMarker, Continue
        <4>2. Accepting(p)'
          BY <2>1, <3>1, <4>1, GotoMoves DEF Accepting
        <4>3. QED
          BY <2>2, <3>2, <4>1, <4>2
      <3>4. CASE outcome # "done"
        BY <1>4, <2>5, <3>2, <3>4 DEF CommitMarker, Continue
      <3>5. QED
        BY <3>3, <3>4
    <2>6. ASSUME NEW outcome \in Outcomes, CommitJournal(p, outcome)
          PROVE  Kept
      <3>1. /\ at[p] = "commit_journal" /\ UNCHANGED <<owner_marker, trusted_state>>
            /\ i' \in {i, NoIntent} /\ (outcome = "done" => i' = NoIntent)
            /\ trusted_state = plan[p]
        BY <1>2, <2>6 DEF CommitJournal, RemoveIntent, Written, Accepting
      <3>2. FilesSound'
        BY <1>2, <2>1, <3>1 DEF FilesSound, IntentCovered, IntentSound, StateSound
      <3>3. CASE outcome = "done"
        <4>1. Goto(p, "committed")
          BY <2>6, <3>3 DEF CommitJournal, RemoveIntent, Continue
        <4>2. Accepting(p)'
          BY <2>1, <3>1, <3>3, <4>1, GotoMoves DEF Accepting
        <4>3. QED
          BY <2>2, <3>2, <4>1, <4>2
      <3>4. CASE outcome # "done"
        BY <1>4, <2>6, <3>2, <3>4 DEF CommitJournal, RemoveIntent, Continue
      <3>5. QED
        BY <3>3, <3>4
    <2>7. QED
      BY <1>8, <2>3, <2>4, <2>5, <2>6 DEF CommitStep
  <1>9. QED
    BY <1>6, <1>7, <1>8 DEF StoreStep

-----------------------------------------------------------------------------
(* The owner *)

\* What verify() lets through may be published.
LEMMA VerifiedApplies ==
    ASSUME TypeOK, NEW p \in Publishers, plan[p] \in Plans, accepted[p] = trusted_state,
           Verified(plan[p], accepted[p]), AdoptsInPlace(p)
    PROVE  Applied(p)
  BY DEF Verified, AdoptsInPlace, Applied, Allowed

LEMMA UpdateKeeps ==
    ASSUME TypeOK, PublicationInv, NEW p \in Publishers, Update(p)
    PROVE  PublicationInv'
  <1>1. /\ at[p] = "update"
        /\ UNCHANGED <<pointers, policy, policy_lock, stage, plan, accepted, claim,
                       previous_generation>>
    BY DEF Update, UpdateFails, UpdateSameGeneration, BeginTransaction, store, owner
  <1>2. /\ stage[p] = "apply" /\ plan[p] \in Plans /\ Applied(p)
        /\ trusted_journal = NoIntent /\ accepted[p] = trusted_state
        /\ publish_journal = NoJournal /\ previous_generation[p] = current
        /\ FilesSound
    BY <1>1, Places DEF Reconciling, Transacting, Applying
  <1>3. FilesSound'
    BY <1>1, <1>2, FilesKept
  <1>4. CASE UpdateFails(p)
    BY <1>1, <1>2, <1>3, <1>4, UpdatedAt, FailedAnswer, FailedPlaces, WorkerKeeps
       DEF UpdateFails
  <1>5. CASE UpdateSameGeneration(p, plan[p].target, previous_generation[p])
    <2>1. /\ at'[p] = "updated" /\ \A q \in Publishers \ {p} : at'[q] = at[q]
          /\ current = plan[p].target
      BY <1>5, UpdatedAt DEF UpdateSameGeneration
    <2>2. PlaceSound(p)'
      BY <1>1, <1>2, <2>1
         DEF PlaceSound, Replaying, Reconciling, Transacting, Accepting, Applied, Applying,
             Publishing, Restoring, pointers, policy
    <2>3. QED
      BY <1>1, <1>2, <1>3, <2>1, <2>2, WorkerKeeps
  <1>6. CASE BeginTransaction(p, plan[p].target, previous_generation[p])
    <2>1. /\ at'[p] = "claim" /\ \A q \in Publishers \ {p} : at'[q] = at[q]
      BY <1>6, GotoMoves DEF BeginTransaction
    <2>2. /\ transaction'[p] \in Journal
          /\ transaction'[p].old_current = current
          /\ transaction'[p].new_current = plan[p].target
          /\ current # plan[p].target /\ active'[p] = current
      <3>1. plan[p].target \in Generations
        BY <1>2, PublicationAssumption
      <3>2. QED
        BY <1>6, <3>1 DEF BeginTransaction, Pin, TypeOK, Journal
    <2>3. PlaceSound(p)'
      BY <1>1, <1>2, <2>1, <2>2
         DEF PlaceSound, Replaying, Reconciling, Transacting, Accepting, Applied, Applying,
             Publishing, Restoring, pointers, policy
    <2>4. QED
      BY <1>1, <1>2, <1>3, <2>1, <2>3, WorkerKeeps
  <1>7. QED
    BY <1>4, <1>5, <1>6 DEF Update

\* From the claim the publication goes on, or is taken back as it was.
LEMMA ClaimPlaces ==
    ASSUME TypeOK, PublicationInv, NEW p \in Publishers, at[p] = "claim",
           NEW where \in {"publish_journal", "restore_previous"}, Goto(p, where),
           where = "publish_journal" => trusted_journal' = OwnIntent(p),
           UNCHANGED <<updater, trusted_state, accepted, policy_lock, stage, plan,
                       previous_generation>>,
           FilesSound'
    PROVE  PublicationInv'
  <1>1. Reconciling(p) /\ Transacting(p) /\ stage[p] # "none"
    BY Places
  <1>2. at'[p] = where /\ \A q \in Publishers \ {p} : at'[q] = at[q]
    BY GotoMoves
  <1>3. PlaceSound(p)'
    BY <1>1, <1>2
       DEF PlaceSound, Replaying, Reconciling, Transacting, Accepting, Applied, OwnIntent,
           Applying, Publishing, Restoring, updater, pointers
  <1>4. QED
    BY <1>1, <1>2, <1>3, WorkerKeeps

LEMMA ClaimKeeps ==
    ASSUME TypeOK, PublicationInv, NEW p \in Publishers,
           NEW outcome \in Outcomes, NEW granted \in BOOLEAN, Claim(p, outcome, granted)
    PROVE  PublicationInv'
  <1>1. at[p] = "claim"
    BY DEF Claim
  <1>2. /\ stage[p] = "apply" /\ plan[p] \in Plans /\ Applied(p) /\ FilesSound
        /\ trusted_journal = NoIntent /\ accepted[p] = trusted_state
        /\ publish_journal = NoJournal /\ previous_generation[p] = current
        /\ previous_generation[p] # plan[p].target
        /\ plan[p] # NoPlan
    BY <1>1, Places, PublicationAssumption DEF Reconciling, Transacting, Applying
  <1>3. \/ trusted_journal' = NoIntent /\ outcome # "done"
        \/ trusted_journal' = OwnIntent(p)
    BY <1>2 DEF Claim, Prepare, Written, OwnIntent
  <1>4. UNCHANGED <<pointers, trusted_state, owner_marker>>
    BY DEF Claim, updater
  <1>5. FilesSound'
    <2>1. CASE trusted_journal' = NoIntent
      BY <1>2, <1>4, <2>1
         DEF FilesSound, IntentCovered, IntentSound, StateSound, pointers
    <2>2. CASE trusted_journal' = OwnIntent(p)
      <3>1. trusted_state # NoPlan => trusted_state.target = current /\ plan[p] # trusted_state
        BY <1>2 DEF FilesSound, StateSound
      <3>2. Allowed(plan[p], trusted_state, current)
        <4>1. CASE trusted_state = NoPlan
          BY <1>2, <4>1 DEF Applied
        <4>2. CASE trusted_state # NoPlan
          BY <1>2, <3>1, <4>2 DEF Applied
        <4>3. QED
          BY <4>1, <4>2
      <3>3. /\ trusted_journal'.previous_generation = current
            /\ trusted_journal'.previous_state = trusted_state
            /\ trusted_journal'.next_state = plan[p]
        BY <1>2, <2>2 DEF OwnIntent
      <3>4. Allowed(plan[p], trusted_state', current')
        BY <1>4, <3>2 DEF pointers
      <3>5. IntentSound'
        BY <1>2, <1>4, <3>1, <3>3, <3>4 DEF IntentSound, Allowed, pointers
      <3>6. IntentCovered' /\ StateSound'
        BY <1>2, <1>4, <3>1 DEF FilesSound, IntentCovered, StateSound, pointers
      <3>7. QED
        BY <3>5, <3>6 DEF FilesSound
    <2>3. QED
      BY <1>3, <2>1, <2>2
  <1>6. PICK where \in {"publish_journal", "restore_previous"} :
           Goto(p, where) /\ (where = "publish_journal" => outcome = "done")
    BY DEF Claim
  <1>7. QED
    BY <1>1, <1>3, <1>5, <1>6, ClaimPlaces DEF Claim

LEMMA OwnerStepKeeps ==
    ASSUME TypeOK, PublicationInv, NEW p \in Publishers, OwnerStep(p)
    PROVE  PublicationInv'
  <1>1. at[p] # "idle" => stage[p] # "none" /\ FilesSound /\ Replaying(p) /\ Reconciling(p)
                          /\ Transacting(p) /\ Accepting(p)
    BY Places
  <1>2. CASE RecoveryFailed(p)
    BY <1>2, ReturnKeeps DEF RecoveryFailed
  <1>3. CASE RecoverySucceeded(p)
    <2>1. /\ at[p] = "recovered" /\ UNCHANGED <<updater, store, policy_lock, stage, plan>>
          /\ publish_journal = NoJournal /\ active[p] = current
          /\ stage[p] = "apply" => previous_generation'[p] = active[p]
          /\ at'[p] = "reconcile" /\ \A q \in Publishers \ {p} : at'[q] = at[q]
      BY <1>1, <1>3, GotoMoves DEF RecoverySucceeded, Replaying, TypeOK
    <2>2. PlaceSound(p)'
      BY <1>1, <2>1
         DEF PlaceSound, Replaying, Reconciling, Transacting, Accepting, Applying,
             Publishing, Restoring, updater, pointers
    <2>3. FilesSound'
      BY <1>1, <2>1, FilesKept DEF updater, store
    <2>4. QED
      BY <1>1, <2>1, <2>2, <2>3, WorkerKeeps
  <1>4. CASE StateFailed(p)
    BY <1>4, ReturnKeeps DEF StateFailed
  <1>5. CASE RecoverReturns(p)
    BY <1>5, ReturnKeeps DEF RecoverReturns
  <1>6. CASE ApplyRefused(p)
    BY <1>6, ReturnKeeps DEF ApplyRefused
  <1>7. CASE Verify(p)
    <2>1. CASE Verified(plan[p], accepted[p]) /\ AdoptsInPlace(p)
      <3>1. /\ at[p] = "reconciled" /\ stage[p] = "apply"
            /\ UNCHANGED <<updater, store, owner>>
            /\ at'[p] = "update" /\ \A q \in Publishers \ {p} : at'[q] = at[q]
        BY <1>7, <2>1, GotoMoves DEF Verify
      <3>2. Applied(p)
        BY <1>1, <2>1, <3>1, VerifiedApplies DEF Reconciling, Transacting
      <3>3. PlaceSound(p)'
        BY <1>1, <3>1, <3>2
           DEF PlaceSound, Replaying, Reconciling, Transacting, Accepting, Applied, Applying,
               Publishing, Restoring, updater, pointers, store, policy, owner
      <3>4. FilesSound'
        BY <1>1, <3>1, FilesKept DEF updater, store
      <3>5. QED
        BY <1>1, <3>1, <3>3, <3>4, WorkerKeeps DEF owner
    <2>2. CASE ~(Verified(plan[p], accepted[p]) /\ AdoptsInPlace(p))
      BY <1>7, <2>2, ReturnKeeps DEF Verify
    <2>3. QED
      BY <2>1, <2>2
  <1>8. CASE Update(p)
    BY <1>8, UpdateKeeps
  <1>9. CASE \E outcome \in Outcomes, granted \in BOOLEAN : Claim(p, outcome, granted)
    BY <1>9, ClaimKeeps
  <1>10. CASE TransactionCancelled(p)
    <2>1. FilesSound'
      BY <1>1, <1>10, FilesKept DEF TransactionCancelled, updater, store
    <2>2. QED
      BY <1>10, <2>1, ClaimPlaces DEF TransactionCancelled, store, policy, owner
  <1>11. CASE UpdateFailed(p)
    <2>1. CASE claim[p] \in {"prepared", "rejected"}
      <3>1. /\ at[p] = "updated" /\ UNCHANGED <<updater, store, policy_lock, plan>>
            /\ stage'[p] = "settle" /\ at'[p] = "recover"
            /\ \A q \in Publishers \ {p} : at'[q] = at[q]
        BY <1>11, <2>1, GotoMoves DEF UpdateFailed, TypeOK
      <3>2. FilesSound'
        BY <1>1, <3>1, FilesKept DEF updater, store
      <3>3. QED
        BY <3>1, <3>2, FailedPlaces, WorkerKeeps
    <2>2. CASE claim[p] \notin {"prepared", "rejected"}
      BY <1>11, <2>2, ReturnKeeps DEF UpdateFailed
    <2>3. QED
      BY <2>1, <2>2
  <1>12. CASE Settled(p)
    BY <1>12, ReturnKeeps DEF Settled
  <1>13. CASE ApplyReturns(p)
    BY <1>13, ReturnKeeps DEF ApplyReturns
  <1>14. ASSUME NEW granted \in BOOLEAN, UpdateSucceeded(p, granted)
         PROVE  PublicationInv'
    <2>1. CASE previous_generation[p] = plan[p].target /\ ~granted
      BY <1>14, <2>1, ReturnKeeps DEF UpdateSucceeded
    <2>2. CASE ~(previous_generation[p] = plan[p].target /\ ~granted)
      <3>1. /\ at[p] = "updated" /\ update[p].ok
            /\ UNCHANGED <<updater, store, owner>>
            /\ at'[p] = "commit" /\ \A q \in Publishers \ {p} : at'[q] = at[q]
        BY <1>14, <2>2, GotoMoves DEF UpdateSucceeded
      <3>2. PlaceSound(p)'
        BY <1>1, <3>1
           DEF PlaceSound, Replaying, Reconciling, Transacting, Accepting, Applied, OwnIntent,
               Applying, Publishing, Restoring, updater, pointers, store, policy, owner
      <3>3. FilesSound'
        BY <1>1, <3>1, FilesKept DEF updater, store
      <3>4. QED
        BY <1>1, <3>1, <3>2, <3>3, WorkerKeeps DEF owner
    <2>3. QED
      BY <2>1, <2>2
  <1>15. QED
    BY <1>2, <1>3, <1>4, <1>5, <1>6, <1>7, <1>8, <1>9, <1>10, <1>11, <1>12, <1>13, <1>14
       DEF OwnerStep

-----------------------------------------------------------------------------
(* Calls, crashes and the service *)

LEMMA InitInv == Init => PublicationInv
  <1> SUFFICES ASSUME Init
               PROVE  PublicationInv
    OBVIOUS
  <1>1. FilesSound
    BY DEF Init, FilesSound, IntentCovered, IntentSound, StateSound
  <1>2. \A p \in Publishers : at[p] = "idle"
    BY DEF Init
  <1>3. QED
    BY <1>1, <1>2, IdleIsSound DEF PublicationInv, OneWriter

LEMMA CallKeeps ==
    ASSUME TypeOK, PublicationInv, NEW p \in Publishers,
           Recover(p) \/ \E q \in Plans : Apply(p, q)
    PROVE  PublicationInv'
  <1>1. /\ at'[p] = "own" /\ \A q \in Publishers \ {p} : at'[q] = at[q]
        /\ policy_lock = Nobody /\ policy_lock' = p
        /\ UNCHANGED <<updater, store>>
        /\ \/ stage'[p] = "recover"
           \/ stage'[p] = "apply" /\ plan'[p] \in Plans
    BY GotoMoves DEF Recover, Apply, LockPolicy, TypeOK
  <1>2. \A q \in Publishers \ {p} : at'[q] = "idle"
    BY <1>1, PublicationAssumption DEF PublicationInv, OneWriter
  <1>3. FilesSound'
    BY <1>1, FilesKept DEF PublicationInv, updater, store
  <1>4. PlaceSound(p)'
    BY <1>1, FailedPlaces
  <1>5. QED
    BY <1>1, <1>2, <1>3, <1>4, IdleStaysSound DEF PublicationInv, OneWriter

\* What a publisher knows of its place is not disturbed by what others forget.
LEMMA PlaceKept ==
    ASSUME NEW q \in Publishers, PlaceSound(q), UNCHANGED <<pointers, policy>>,
           at'[q] = at[q], stage'[q] = stage[q], plan'[q] = plan[q], active'[q] = active[q],
           transaction'[q] = transaction[q], update'[q] = update[q],
           recovery'[q] = recovery[q], accepted'[q] = accepted[q],
           previous_generation'[q] = previous_generation[q]
    PROVE  PlaceSound(q)'
  <1>1. Replaying(q)' /\ Reconciling(q)'
    BY DEF PlaceSound, Replaying, Reconciling, pointers, policy
  <1>2. Transacting(q)'
    BY DEF PlaceSound, Transacting, Applied, OwnIntent, pointers, policy
  <1>3. Accepting(q)'
    BY DEF PlaceSound, Accepting, Applied, OwnIntent, pointers, policy
  <1>4. QED
    BY <1>1, <1>2, <1>3 DEF PlaceSound

LEMMA CrashKeeps ==
    ASSUME TypeOK, PublicationInv, NEW p \in Publishers, Crash(p)
    PROVE  PublicationInv'
  <1>1. /\ at'[p] = "idle" /\ \A q \in Publishers \ {p} : at'[q] = at[q]
        /\ UNCHANGED <<pointers, policy>>
    BY GotoMoves DEF Crash
  <1>2. \A q \in Publishers \ {p} :
           /\ stage'[q] = stage[q] /\ plan'[q] = plan[q] /\ active'[q] = active[q]
           /\ transaction'[q] = transaction[q] /\ update'[q] = update[q]
           /\ recovery'[q] = recovery[q] /\ accepted'[q] = accepted[q]
           /\ previous_generation'[q] = previous_generation[q]
    BY DEF Crash, TypeOK
  <1>3. \A q \in Publishers : PlaceSound(q)'
    BY <1>1, <1>2, PlaceKept, IdleStaysSound DEF PublicationInv
  <1>4. FilesSound'
    BY <1>1, FilesKept DEF PublicationInv
  <1>5. OneWriter'
    BY <1>1, <1>2 DEF PublicationInv, OneWriter, Crash
  <1>6. QED
    BY <1>3, <1>4, <1>5 DEF PublicationInv

LEMMA OthersKeep ==
    ASSUME TypeOK, PublicationInv, UNCHANGED <<at, updater, store, owner>>
    PROVE  PublicationInv'
  <1>1. UNCHANGED <<pointers, policy>>
    BY DEF updater, store
  <1>2. FilesSound' /\ OneWriter'
    BY <1>1, FilesKept DEF PublicationInv, OneWriter, owner
  <1>3. \A q \in Publishers : PlaceSound(q)'
    BY <1>1, PlaceKept DEF PublicationInv, updater, store, owner
  <1>4. QED
    BY <1>2, <1>3 DEF PublicationInv

LEMMA StepInv ==
    ASSUME TypeOK, PublicationInv, [Next]_vars
    PROVE  PublicationInv'
  <1>1. ASSUME NEW p \in Publishers, UpdaterStep(p)
        PROVE  PublicationInv'
    BY <1>1, RecoverStepKeeps, TransactionStepKeeps DEF UpdaterStep
  <1>2. CASE Activate \/ Attest \/ StopService \/ UNCHANGED vars
    BY <1>2, OthersKeep DEF Activate, Attest, StopService, vars
  <1>3. QED
    BY <1>1, <1>2, CallKeeps, CrashKeeps, StoreStepKeeps, OwnerStepKeeps DEF Next

-----------------------------------------------------------------------------
(* What the invariant gives *)

\* Whatever is interrupted, at most the holder of the policy lock is at work, the two
\* journals agree, and each place of a call finds the files as it expects them.
THEOREM PublicationIsSound == Spec => [](TypeOK /\ PublicationInv)
  <1>1. Init => TypeOK /\ PublicationInv
    BY InitType, InitInv
  <1>2. TypeOK /\ PublicationInv /\ [Next]_vars => (TypeOK /\ PublicationInv)'
    BY StepType, StepInv
  <1>3. QED
    BY <1>1, <1>2, PTL DEF Spec

\* Whatever recovery will publish, the policy journal holds the plan that authorised it.
THEOREM IntentAlwaysCovered == Spec => []IntentCovered
  <1>1. PublicationInv => IntentCovered
    BY DEF PublicationInv, FilesSound
  <1>2. QED
    BY <1>1, PublicationIsSound, PTL

\* With no journal on disk, the accepted plan names the current generation.
THEOREM AcceptedNamesCurrent == Spec => []StateNamesCurrent
  <1>1. PublicationInv => StateNamesCurrent
    BY DEF PublicationInv, FilesSound, StateSound, StateNamesCurrent
  <1>2. QED
    BY <1>1, PublicationIsSound, PTL

\* reconcile() never finds a store that it must reject.
THEOREM RecoveryIsPossible == Spec => []ReconcileAccepts
  <1>1. TypeOK /\ PublicationInv => ReconcileAccepts
    <2> SUFFICES ASSUME TypeOK, PublicationInv, NEW p \in Publishers
                 PROVE  /\ at[p] = "reconcile" => ~Irreconcilable(active[p])
                        /\ at[p] = "adopt" => Consistent(active[p])
      BY DEF ReconcileAccepts
    <2>1. FilesSound /\ Reconciling(p)
      BY Places
    <2>2. ASSUME at[p] = "reconcile"
          PROVE  ~Irreconcilable(active[p])
      <3>1. active[p] = current
        BY <2>1, <2>2 DEF Reconciling
      <3>2. QED
        BY <2>1, <3>1
           DEF FilesSound, IntentSound, Irreconcilable, Published, Conflicting, Abandoned
    <2>3. ASSUME at[p] = "adopt"
          PROVE  Consistent(active[p])
      BY <2>1, <2>3 DEF Reconciling, FilesSound, StateSound, Consistent
    <2>4. QED
      BY <2>2, <2>3
  <1>2. QED
    BY <1>1, PublicationIsSound, PTL

\* A service is attested only for the generation that is current at that moment.
THEOREM AttestationIsCurrent == Spec => AttestedIsCurrent
  <1>1. TypeOK /\ PublicationInv /\ [Next]_vars =>
          [~service.attested /\ service'.attested
             => service.pin = current /\ trusted_state.target = current]_vars
    <2> SUFFICES ASSUME TypeOK, PublicationInv, Next, ~service.attested, service'.attested
                 PROVE  service.pin = current /\ trusted_state.target = current
      OBVIOUS
    <2>1. service' # service
      OBVIOUS
    <2>2. Attest /\ Attestable /\ trusted_state.target = service.pin
      <3>1. Activate \/ Attest \/ StopService
        BY <2>1 DEF Next, Recover, Apply, Crash, StoreStep, UpdaterStep, OwnerStep, Return,
                    RecoveryFailed, RecoverySucceeded, StateFailed, RecoverReturns,
                    ApplyRefused, Verify, Update, Claim, TransactionCancelled, UpdateFailed,
                    Settled, ApplyReturns, UpdateSucceeded
      <3>2. QED
        BY <3>1 DEF Activate, Attest, StopService, TypeOK
    <2>3. QED
      BY <2>2 DEF Attestable, PublicationInv, FilesSound, StateSound
  <1>2. QED
    BY <1>1, PublicationIsSound, PTL DEF Spec, AttestedIsCurrent

-----------------------------------------------------------------------------
(* The abstract publication *)

\* A step of the abstract specification, or a stutter.
AbstractStep == Publication!Next \/ UNCHANGED <<current, InForce>>

\* Steps that leave current.json and both policy files as they are.
LEMMA Stutters ==
    ASSUME UNCHANGED <<current, trusted_state, trusted_journal>>
    PROVE  AbstractStep
  BY DEF AbstractStep, InForce

LEMMA Accepts ==
    ASSUME NEW q \in Plans, Allowed(q, InForce, current), current' = q.target, InForce' = q
    PROVE  AbstractStep
  <1>1. Publication!Authorised(q)
    BY DEF Publication!Authorised, Allowed
  <1>2. QED
    BY <1>1 DEF AbstractStep, Publication!Next, Publication!Accept

\* A pointer that goes to where an intent on disk leads takes its plan into force.
LEMMA PublishesIntent ==
    ASSUME TypeOK, FilesSound, trusted_journal # NoIntent,
           UNCHANGED <<trusted_journal, trusted_state>>,
           current' \in {current, trusted_journal.next_state.target}
    PROVE  AbstractStep
  <1> DEFINE i == trusted_journal
  <1>1. i.next_state \in Plans
    BY DEF TypeOK, Intent
  <1>2. CASE current' = current
    BY <1>2, Stutters
  <1>3. CASE current' # current
    <2>1. /\ current = i.previous_generation /\ current # i.next_state.target
          /\ trusted_state = i.previous_state
          /\ Allowed(i.next_state, i.previous_state, i.previous_generation)
          /\ current' = i.next_state.target
      BY <1>3 DEF FilesSound, IntentSound
    <2>2. InForce = i.previous_state /\ InForce' = i.next_state
      BY <2>1 DEF InForce
    <2>3. QED
      BY <1>1, <2>1, <2>2, Accepts
  <1>4. QED
    BY <1>2, <1>3

LEMMA UpdaterStepRefines ==
    ASSUME TypeOK, PublicationInv, NEW p \in Publishers, UpdaterStep(p)
    PROVE  AbstractStep
  <1>1. FilesSound /\ Replaying(p) /\ UNCHANGED <<trusted_journal, trusted_state>>
    BY Places DEF UpdaterStep, store, policy
  <1>2. ASSUME NEW outcome \in Outcomes, ReplayCurrent(p, outcome)
        PROVE  AbstractStep
    <2>1. /\ publish_journal \in Journal /\ publish_journal # NoJournal
          /\ current' \in {current, publish_journal.new_current}
      BY <1>1, <1>2 DEF ReplayCurrent, Replaying, Written, TypeOK
    <2>2. CASE trusted_journal # NoIntent
      BY <1>1, <2>1, <2>2, PublishesIntent DEF FilesSound, IntentCovered
    <2>3. CASE trusted_journal = NoIntent
      <3>1. trusted_state = NoPlan
        BY <1>1, <2>1, <2>3 DEF FilesSound, IntentCovered
      <3>2. InForce = NoPlan /\ InForce' = NoPlan
        BY <1>1, <2>3, <3>1 DEF InForce
      <3>3. CASE current' = current
        BY <1>1, <3>3, Stutters
      <3>4. CASE current' = publish_journal.new_current
        <4>1. current' \in Generations
          BY <2>1, <3>4 DEF Journal
        <4>2. QED
          BY <3>2, <4>1 DEF AbstractStep, Publication!Next, Publication!Inherit
      <3>5. QED
        BY <2>1, <3>3, <3>4
    <2>4. QED
      BY <2>2, <2>3
  <1>3. ASSUME NEW outcome \in Outcomes, PublishCurrent(p, outcome)
        PROVE  AbstractStep
    <2>1. at[p] = "publish_current" /\ at[p] \in Publishing
      BY <1>3 DEF PublishCurrent, Publishing
    <2>2. /\ trusted_journal = OwnIntent(p) /\ trusted_journal # NoIntent
          /\ transaction[p].new_current = plan[p].target
      BY <2>1, TransactionFacts
    <2>3. trusted_journal.next_state = plan[p]
      BY <2>2 DEF OwnIntent
    <2>4. current' \in {current, plan[p].target}
      BY <1>3, <2>2 DEF PublishCurrent, Written
    <2>5. QED
      BY <1>1, <2>2, <2>3, <2>4, PublishesIntent
  <1>4. ASSUME NEW outcome \in Outcomes, RestoreCurrent(p, outcome)
        PROVE  AbstractStep
    <2>1. at[p] = "restore_current" /\ at[p] \in Restoring
      BY <1>4 DEF RestoreCurrent, Restoring
    <2>2. current' = current
      BY <1>4, <2>1, TransactionFacts DEF RestoreCurrent, Written
    <2>3. QED
      BY <1>1, <2>2, Stutters
  <1>5. CASE current' = current
    BY <1>1, <1>5, Stutters
  <1>6. QED
    BY <1>2, <1>3, <1>4, <1>5
       DEF UpdaterStep, RecoverStep, TransactionStep, RecoverClean, ReplayPrevious,
           ReplayRemove, PublishJournal, PublishPrevious, PublishRemove, RestorePrevious,
           RestoreJournal, pointers

LEMMA StoreStepRefines ==
    ASSUME TypeOK, PublicationInv, NEW p \in Publishers, StoreStep(p)
    PROVE  AbstractStep
  <1> DEFINE i == trusted_journal
  <1>1. FilesSound /\ Reconciling(p) /\ Accepting(p) /\ Transacting(p) /\ UNCHANGED current
    BY Places DEF StoreStep, updater, pointers
  <1>2. CASE InForce' = InForce
    BY <1>1, <1>2 DEF AbstractStep
  <1>3. ASSUME NEW outcome \in Outcomes, CompleteState(p, active[p], outcome)
        PROVE  InForce' = InForce
    BY <1>1, <1>3 DEF CompleteState, Published, Reconciling, InForce
  <1>4. ASSUME NEW outcome \in Outcomes, CompleteJournal(p, outcome)
        PROVE  InForce' = InForce
    BY <1>1, <1>4 DEF CompleteJournal, RemoveIntent, Written, Reconciling, InForce
  <1>5. ASSUME NEW outcome \in Outcomes, Discard(p, active[p], outcome)
        PROVE  InForce' = InForce
    BY <1>1, <1>5
       DEF Discard, Abandoned, Published, RemoveIntent, Written, Reconciling, InForce
  <1>6. ASSUME NEW outcome \in Outcomes, CommitState(p, plan[p], outcome)
        PROVE  AbstractStep
    <2>1. /\ at[p] = "commit" /\ UNCHANGED i
          /\ trusted_state' \in {trusted_state, plan[p]}
      BY <1>6 DEF CommitState, Written
    <2>2. /\ current = plan[p].target /\ plan[p] \in Plans
          /\ plan[p] = trusted_state \/ Allowed(plan[p], trusted_state, previous_generation[p])
          /\ \/ i = OwnIntent(p)
             \/ i = NoIntent /\ previous_generation[p] = current
      BY <1>1, <2>1 DEF Accepting, Transacting, Applying, Applied
    <2>3. CASE i # NoIntent
      <3>1. i.next_state = plan[p]
        BY <2>2, <2>3 DEF OwnIntent
      <3>2. InForce' = InForce
        BY <1>1, <2>1, <2>2, <2>3, <3>1 DEF InForce
      <3>3. QED
        BY <1>2, <3>2
    <2>4. CASE i = NoIntent
      <3>1. InForce = trusted_state /\ InForce' = trusted_state'
        BY <2>1, <2>4 DEF InForce
      <3>2. CASE trusted_state' = trusted_state
        BY <1>2, <3>1, <3>2
      <3>3. CASE trusted_state' = plan[p] /\ plan[p] # trusted_state
        \* Without an intent of its own the plan keeps the generation.
        <4>1. CASE previous_generation[p] = current
          BY <1>1, <2>2, <3>1, <3>3, <4>1, Accepts
        <4>2. CASE i = OwnIntent(p)
          <5>1. OwnIntent(p) \in Intent
            BY <2>2 DEF OwnIntent, Intent, TypeOK
          <5>2. QED
            BY <2>4, <4>2, <5>1, PublicationAssumption
        <4>3. QED
          BY <2>2, <4>1, <4>2
      <3>4. QED
        BY <2>1, <3>2, <3>3
    <2>5. QED
      BY <2>3, <2>4
  <1>7. ASSUME NEW outcome \in Outcomes, CommitJournal(p, outcome)
        PROVE  InForce' = InForce
    BY <1>1, <1>7 DEF CommitJournal, RemoveIntent, Written, Accepting, InForce
  <1>8. CASE UNCHANGED <<trusted_state, trusted_journal>>
    BY <1>1, <1>8, Stutters
  <1>9. QED
    BY <1>2, <1>3, <1>4, <1>5, <1>6, <1>7, <1>8
       DEF StoreStep, ClaimOwnership, ReconcileStep, CommitStep, NothingPending, RejectIntent,
           RejectState, CompleteMarker, Adopt, RejectCommit, CommitMarker, policy, store

LEMMA ClaimRefines ==
    ASSUME TypeOK, PublicationInv, NEW p \in Publishers,
           NEW outcome \in Outcomes, NEW granted \in BOOLEAN, Claim(p, outcome, granted)
    PROVE  AbstractStep
  <1>1. /\ at[p] = "claim" /\ UNCHANGED <<current, trusted_state>>
    BY DEF Claim, updater, pointers
  <1>2. /\ trusted_journal = NoIntent /\ current # plan[p].target
    BY <1>1, Places DEF Reconciling, Transacting
  <1>3. trusted_journal' \in {NoIntent, OwnIntent(p)}
    BY <1>2 DEF Claim, Prepare, Written, OwnIntent
  <1>4. InForce = trusted_state /\ InForce' = trusted_state
    BY <1>1, <1>2, <1>3 DEF InForce, OwnIntent
  <1>5. QED
    BY <1>1, <1>4 DEF AbstractStep

LEMMA OwnerStepRefines ==
    ASSUME TypeOK, PublicationInv, NEW p \in Publishers, OwnerStep(p)
    PROVE  AbstractStep
  <1>1. CASE \E outcome \in Outcomes, granted \in BOOLEAN : Claim(p, outcome, granted)
    BY <1>1, ClaimRefines
  <1>2. ASSUME NEW error, NEW result, NEW recovered, Return(p, error, result, recovered)
        PROVE  UNCHANGED <<current, trusted_state, trusted_journal>>
    BY <1>2 DEF Return, pointers, store, policy
  <1>3. Update(p) => UNCHANGED <<current, trusted_state, trusted_journal>>
    BY DEF Update, UpdateFails, UpdateSameGeneration, BeginTransaction, pointers, store, policy
  <1>4. \/ \E outcome \in Outcomes, granted \in BOOLEAN : Claim(p, outcome, granted)
        \/ UNCHANGED <<current, trusted_state, trusted_journal>>
    BY <1>2, <1>3
       DEF OwnerStep, RecoveryFailed, RecoverySucceeded, StateFailed, RecoverReturns,
           ApplyRefused, Verify, TransactionCancelled, UpdateFailed, Settled,
           ApplyReturns, UpdateSucceeded, updater, pointers, store, policy
  <1>5. QED
    BY <1>1, <1>4, Stutters

LEMMA StepRefines ==
    ASSUME TypeOK, PublicationInv, [Next]_vars
    PROVE  AbstractStep
  <1>1. ASSUME NEW p \in Publishers,
               Recover(p) \/ Crash(p) \/ \E q \in Plans : Apply(p, q)
        PROVE  AbstractStep
    BY <1>1, Stutters DEF Recover, Crash, Apply, updater, pointers, store, policy
  <1>2. CASE Activate \/ Attest \/ StopService \/ UNCHANGED vars
    BY <1>2, Stutters DEF Activate, Attest, StopService, vars, updater, pointers, store, policy
  <1>3. QED
    BY <1>1, <1>2, UpdaterStepRefines, StoreStepRefines, OwnerStepRefines DEF Next

\* Generation and plan change together and only as authorised, whatever is interrupted:
\* the two journals and their recovery implement one atomic step.
THEOREM PublicationIsAtomic == Spec => ImplementsPublication
  <1>1. Init => Publication!Init
    BY DEF Init, InForce, Publication!Init, Pointer
  <1>2. TypeOK /\ PublicationInv /\ [Next]_vars => [Publication!Next]_<<current, InForce>>
    BY StepRefines DEF AbstractStep
  <1>3. QED
    BY <1>1, <1>2, PublicationIsSound, PTL DEF Spec, ImplementsPublication, Publication!Spec

-----------------------------------------------------------------------------
(* What a call answers *)

\* A step of p leaves what the others have to answer with.
OthersKept(p) == \A q \in Publishers \ {p} :
    /\ at'[q] = at[q] /\ update'[q] = update[q] /\ recovery'[q] = recovery[q]
    /\ claim'[q] = claim[q] /\ stage'[q] = stage[q]

LEMMA IdleAnswers ==
    ASSUME NEW q \in Publishers, Answering(q), at[q] = "idle", at'[q] = "idle",
           update'[q] = update[q], recovery'[q] = recovery[q],
           claim'[q] = claim[q], stage'[q] = stage[q]
    PROVE  Answering(q)'
  BY DEF Answering, ResultsSound, ClaimSound, Unsettled, Claimless, Committing, Publishing,
         Restoring

LEMMA ResetAnswers ==
    ASSUME NEW q \in Publishers, at'[q] = "idle", update'[q] = NoResult,
           recovery'[q] = NoResult, claim'[q] = "none", stage'[q] = "none"
    PROVE  Answering(q)'
  BY DEF Answering, ResultsSound, ClaimSound, Unsettled, Claimless, Committing, Publishing,
         Restoring, NoResult

LEMMA OthersAnswer ==
    ASSUME TypeOK, PublicationInv, AnswerInv, NEW p \in Publishers, at[p] # "idle",
           OthersKept(p), Answering(p)'
    PROVE  \A q \in Publishers : Answering(q)'
  <1>1. \A q \in Publishers \ {p} : at[q] = "idle"
    BY OneAtWork
  <1>2. QED
    BY <1>1, IdleAnswers DEF OthersKept, AnswerInv

\* No reply stands while a call is under way.
LEMMA WorkerAnswers ==
    ASSUME TypeOK, PublicationInv, AnswerInv, NEW p \in Publishers, at[p] # "idle",
           OthersKept(p), UNCHANGED reply, Answering(p)'
    PROVE  AnswerInv'
  <1>1. reply = NoReply
    BY OneAtWork, PublicationAssumption DEF AnswerInv
  <1>2. QED
    BY <1>1, OthersAnswer DEF AnswerInv, RepliesAreTrue

\* The call returns with a result that tells the truth of the files.
Truthful(p, error, result, recovered) ==
    /\ stage[p] = "apply" /\ error = "none" =>
          /\ current = plan[p].target /\ trusted_state = plan[p]
          /\ publish_journal = NoJournal /\ trusted_journal = NoIntent
    /\ error = "cancelled" \/ (claim[p] # "none" /\ result.disposition = "not_committed")
          => current = previous_generation[p]
    /\ claim[p] = "rejected" => trusted_state # plan[p]
    /\ recovered /\ result.disposition = "uncertain" => result.pinned = current

LEMMA ReturnAnswers ==
    ASSUME TypeOK, PublicationInv, AnswerInv, NEW p \in Publishers, at[p] # "idle",
           NEW error, NEW result, NEW recovered, Return(p, error, result, recovered),
           Truthful(p, error, result, recovered)
    PROVE  AnswerInv'
  <1>1. /\ at'[p] = "idle" /\ update'[p] = NoResult /\ recovery'[p] = NoResult
        /\ claim'[p] = "none" /\ stage'[p] = "none" /\ OthersKept(p)
    BY DEF Return, Goto, TypeOK, OthersKept
  <1>2. \A q \in Publishers : Answering(q)'
    BY <1>1, ResetAnswers, OthersAnswer
  <1>3. /\ reply' = [by |-> p, call |-> stage[p], error |-> error,
                     disposition |-> result.disposition, pinned |-> result.pinned,
                     plan |-> plan[p], before |-> previous_generation[p], claim |-> claim[p]]
        /\ is_recovered'[p] = recovered /\ policy_lock' = Nobody
        /\ UNCHANGED <<pointers, store>>
    BY DEF Return, TypeOK
  <1>4. RepliesAreTrue'
    BY <1>3 DEF RepliesAreTrue, Truthful, pointers, store, policy
  <1>5. QED
    BY <1>2, <1>3, <1>4 DEF AnswerInv

\* Between a prepared intent and its settlement the files only move forward.
LEMMA OutstandingKept ==
    ASSUME NEW p \in Publishers, Outstanding(p), stage[p] = "settle",
           at[p] \in Claimless, at'[p] \in Claimless \cup {"state_failed"},
           plan'[p] = plan[p], previous_generation'[p] = previous_generation[p],
           claim'[p] = claim[p], update'[p] = update[p],
           \/ current' = current
           \/ publish_journal # NoJournal /\ current' = publish_journal.new_current,
           publish_journal' \in {publish_journal, NoJournal},
           trusted_journal' \in {trusted_journal, NoIntent},
           \/ trusted_state' = trusted_state
           \/ trusted_journal # NoIntent /\ current = trusted_journal.next_state.target
    PROVE  Outstanding(p)'
  <1>1. at[p] \notin Publishing \cup Restoring /\ at'[p] \notin Publishing \cup Restoring
    BY DEF Claimless, Publishing, Restoring
  <1>2. QED
    BY <1>1 DEF Outstanding

\* A step that precedes any claim, or settles what one left.
LEMMA CalmAnswers ==
    ASSUME NEW p \in Publishers, Answering(p),
           at[p] \in Claimless, at'[p] \in (Claimless \cup {"state_failed"}) \ {"idle"},
           stage'[p] = stage[p], claim'[p] = claim[p], update'[p] = update[p],
           at'[p] \in {"reconcile", "complete_marker", "complete_journal", "adopt", "reconciled"}
              => recovery'[p].ok,
           recovery'[p].ok => recovery'[p].disposition # "uncertain",
           stage[p] = "settle" => Outstanding(p)'
    PROVE  Answering(p)'
  BY DEF Answering, ResultsSound, ClaimSound, Unsettled, Claimless, Committing, Publishing,
         Restoring

LEMMA RecoverStepAnswers ==
    ASSUME TypeOK, PublicationInv, AnswerInv, NEW p \in Publishers, RecoverStep(p),
           UNCHANGED <<store, owner, service>>
    PROVE  AnswerInv'
  <1>1. /\ at[p] \in {"recover", "replay_current", "replay_remove"}
        /\ UNCHANGED <<policy, stage, plan, claim, previous_generation, reply, update>>
        /\ Answering(p) /\ Replaying(p)
    BY Places DEF RecoverStep, RecoverClean, ReplayPrevious, ReplayCurrent, ReplayRemove,
                  owner, store, AnswerInv
  <1> DEFINE Moves == /\ \/ Goto(p, "replay_current") /\ UNCHANGED recovery
                         \/ Goto(p, "replay_remove") /\ UNCHANGED recovery
                         \/ \E disposition, generation :
                               Recovered(p, Fails(disposition, generation))
                         \/ Recovered(p, Succeeds("committed", current))
                         \/ Recovered(p, Succeeds("not_committed", current))
                      /\ \/ current' = current
                         \/ publish_journal # NoJournal /\ current' = publish_journal.new_current
                      /\ publish_journal' \in {publish_journal, NoJournal}
  <1>2. ASSUME RecoverClean(p)
        PROVE  Moves
    BY <1>2 DEF RecoverClean, pointers
  <1>3. ASSUME NEW outcome \in Outcomes, ReplayPrevious(p, outcome)
        PROVE  Moves
    BY <1>3 DEF ReplayPrevious
  <1>4. ASSUME NEW outcome \in Outcomes, ReplayCurrent(p, outcome)
        PROVE  Moves
    BY <1>1, <1>4 DEF ReplayCurrent, Written, Replaying
  <1>5. ASSUME NEW outcome \in Outcomes, ReplayRemove(p, outcome)
        PROVE  Moves
    BY <1>5 DEF ReplayRemove, Written
  <1>6. Moves
    BY <1>2, <1>3, <1>4, <1>5 DEF RecoverStep
  <1>7. OthersKept(p) /\ at'[p] \in {"replay_current", "replay_remove", "recovered"}
    BY <1>1, <1>6 DEF Goto, Recovered, TypeOK, OthersKept
  <1>8. recovery'[p].ok => recovery'[p].disposition # "uncertain"
    BY <1>1, <1>6 DEF Recovered, Fails, Succeeds, TypeOK, Answering, ResultsSound
  <1>9. stage[p] = "settle" => Outstanding(p)'
    BY <1>1, <1>6, <1>7, OutstandingKept DEF Claimless, Answering, Unsettled, policy
  <1>10. Answering(p)'
    BY <1>1, <1>7, <1>8, <1>9, CalmAnswers DEF Claimless
  <1>11. QED
    BY <1>1, <1>7, <1>10, WorkerAnswers
\* Where a transaction goes and what its last write did to the files.
LEMMA TransactionStepAnswers ==
    ASSUME TypeOK, PublicationInv, AnswerInv, NEW p \in Publishers, TransactionStep(p),
           UNCHANGED <<store, owner, service>>
    PROVE  AnswerInv'
  <1>1. /\ at[p] \in Publishing \cup Restoring /\ at[p] # "idle"
        /\ UNCHANGED <<policy, stage, plan, claim, previous_generation, reply, recovery>>
        /\ Answering(p) /\ stage[p] = "apply"
        /\ at[p] \in Publishing => claim[p] = "prepared"
    BY DEF TransactionStep, PublishJournal, PublishPrevious, PublishCurrent, PublishRemove,
           RestorePrevious, RestoreCurrent, RestoreJournal, Publishing, Restoring, owner, store,
           AnswerInv, Answering, ClaimSound
  <1>2. claim[p] \in {"prepared", "rejected"} => Outstanding(p)
    BY <1>1 DEF Answering, Unsettled
  <1> DEFINE Goes(where) == Goto(p, where) /\ UNCHANGED <<update, active>>
  \* It goes on with the files at one side.
  <1>3. ASSUME NEW where \in Publishing \cup Restoring, Goes(where),
               where \in Publishing => at[p] \in Publishing,
               publish_journal' \in {publish_journal, NoJournal}
                 \/ (at[p] \in Publishing /\ publish_journal' = transaction[p]),
               IF where = "publish_remove" THEN current' = plan[p].target
                                           ELSE at[p] # "publish_remove" /\ current' = current
        PROVE  AnswerInv'
    <2>1. at'[p] = where /\ update'[p] = update[p] /\ OthersKept(p) /\ active'[p] = active[p]
      BY <1>1, <1>3 DEF Goto, TypeOK, OthersKept
    <2>2. claim[p] \in {"prepared", "rejected"} => Outstanding(p)'
      BY <1>1, <1>2, <1>3, <2>1, TransactionFacts DEF Outstanding, policy, Publishing
    <2>3. ResultsSound(p)' /\ ClaimSound(p)'
      BY <1>1, <1>3, <2>1
         DEF Answering, ResultsSound, ClaimSound, Claimless, Committing, Publishing, Restoring
    <2>4. at'[p] # "publish_remove" => active'[p] = current'
      BY <1>1, <1>3, <2>1 DEF Answering
    <2>5. Answering(p)'
      BY <1>1, <1>3, <2>1, <2>2, <2>3, <2>4 DEF Answering, Unsettled, Publishing, Restoring
    <2>6. QED
      BY <1>1, <2>1, <2>5, WorkerAnswers
  \* It returns once the publication has replaced current.json, or could not take it back.
  <1>4. ASSUME NEW result, Updated(p, result),
               result.ok => result.disposition = "committed" /\ at[p] \in Publishing,
               publish_journal' \in {publish_journal, NoJournal},
               IF at[p] \in Publishing
               THEN current' = plan[p].target /\ result.disposition # "not_committed"
               ELSE /\ current' = current /\ result.pinned = active[p]
                    /\ result.disposition = "not_committed" => publish_journal' = NoJournal
        PROVE  AnswerInv'
    <2>1. at'[p] = "updated" /\ update'[p] = result /\ OthersKept(p)
      BY <1>1, <1>4 DEF Updated, Goto, TypeOK, OthersKept
    <2>2. at[p] \in Restoring => active[p] = current /\ current = previous_generation[p]
      BY <1>1, TransactionFacts DEF Answering, Restoring
    <2>3. claim[p] \in {"prepared", "rejected"} => Outstanding(p)'
      BY <1>1, <1>2, <1>4, <2>1, <2>2 DEF Outstanding, policy, Publishing, Restoring
    <2>4. ResultsSound(p)' /\ ClaimSound(p)'
      BY <1>1, <1>4, <2>1
         DEF Answering, ResultsSound, ClaimSound, Claimless, Committing, Publishing, Restoring
    <2>5. Answering(p)'
      BY <1>1, <1>4, <2>1, <2>2, <2>3, <2>4 DEF Answering, Unsettled, Publishing, Restoring
    <2>6. QED
      BY <1>1, <2>1, <2>5, WorkerAnswers
  <1>5. /\ at[p] \in Publishing => transaction[p].new_current = plan[p].target
        /\ at[p] # "publish_remove" => transaction[p].old_current = current
        /\ at[p] = "publish_remove" => current = plan[p].target
    BY <1>1, TransactionFacts
  <1>6. \A disposition, generation :
           /\ ~Fails(disposition, generation).ok
           /\ Fails(disposition, generation).disposition = disposition
           /\ Fails(disposition, generation).pinned = generation
           /\ Succeeds(disposition, generation).disposition = disposition
    BY DEF Fails, Succeeds
  <1>7. ASSUME NEW outcome \in Outcomes,
               PublishJournal(p, outcome) \/ PublishPrevious(p, outcome)
        PROVE  AnswerInv'
    BY <1>1, <1>3, <1>7
       DEF PublishJournal, PublishPrevious, Continue, Written, Publishing, Restoring
  <1>8. ASSUME NEW outcome \in Outcomes, PublishCurrent(p, outcome)
        PROVE  AnswerInv'
    <2>1. at[p] \in Publishing /\ at[p] # "publish_remove" /\ UNCHANGED publish_journal
      BY <1>8 DEF PublishCurrent, Publishing
    <2>2. CASE outcome = "unsynced"
      BY <1>4, <1>5, <1>6, <1>8, <2>1, <2>2 DEF PublishCurrent, Written
    <2>3. CASE outcome # "unsynced"
      BY <1>3, <1>5, <1>8, <2>1, <2>3
         DEF PublishCurrent, Written, Continue, Publishing, Restoring, Outcomes
    <2>4. QED
      BY <2>2, <2>3
  <1>9. ASSUME NEW outcome \in Outcomes, PublishRemove(p, outcome)
        PROVE  AnswerInv'
    <2>1. /\ at[p] = "publish_remove" /\ at[p] \in Publishing /\ current' = plan[p].target
          /\ publish_journal' \in {publish_journal, NoJournal}
      BY <1>5, <1>9 DEF PublishRemove, Publishing, Written
    <2>2. \/ Updated(p, Succeeds("committed", current))
          \/ \E generation : Updated(p, Fails("uncertain", generation))
      BY <1>9 DEF PublishRemove
    <2>3. QED
      BY <1>4, <1>6, <2>1, <2>2
  <1>10. ASSUME NEW outcome \in Outcomes,
                RestorePrevious(p, outcome) \/ RestoreCurrent(p, outcome)
         PROVE  AnswerInv'
    <2>1. /\ at[p] \in Restoring /\ at[p] \notin Publishing /\ at[p] # "publish_remove"
          /\ UNCHANGED publish_journal /\ current' = current
      BY <1>5, <1>10 DEF RestorePrevious, RestoreCurrent, Publishing, Restoring, Written
    <2>2. CASE outcome = "done"
      BY <1>3, <1>10, <2>1, <2>2 DEF RestorePrevious, RestoreCurrent, Publishing, Restoring
    <2>3. CASE outcome # "done"
      BY <1>4, <1>6, <1>10, <2>1, <2>3 DEF RestorePrevious, RestoreCurrent, RestoreFailed
    <2>4. QED
      BY <2>2, <2>3
  <1>11. ASSUME NEW outcome \in Outcomes, RestoreJournal(p, outcome)
         PROVE  AnswerInv'
    <2>1. /\ at[p] \notin Publishing /\ UNCHANGED current
          /\ publish_journal' \in {publish_journal, NoJournal}
          /\ outcome = "done" => publish_journal' = NoJournal
      BY <1>11 DEF RestoreJournal, Publishing, Written
    <2>2. \/ outcome = "done" /\ Updated(p, Fails("not_committed", active[p]))
          \/ Updated(p, Fails("uncertain", active[p]))
      BY <1>11 DEF RestoreJournal, RestoreFailed
    <2>3. QED
      BY <1>4, <1>6, <2>1, <2>2
  <1>12. QED
    BY <1>7, <1>8, <1>9, <1>10, <1>11 DEF TransactionStep

LEMMA StoreStepAnswers ==
    ASSUME TypeOK, PublicationInv, AnswerInv, NEW p \in Publishers, StoreStep(p)
    PROVE  AnswerInv'
  <1>1. /\ UNCHANGED <<pointers, update, recovery, stage, plan, claim, previous_generation, reply>>
        /\ Answering(p) /\ Reconciling(p)
    BY Places DEF StoreStep, updater, owner, AnswerInv
  <1>2. ASSUME NEW where, Goto(p, where)
        PROVE  OthersKept(p) /\ at'[p] = where
    BY <1>1, <1>2 DEF Goto, TypeOK, OthersKept
  \* Up to the reconciled store.
  <1>3. ASSUME NEW where \in {"recover", "complete_marker", "complete_journal", "adopt",
                              "reconciled", "state_failed"},
               Goto(p, where),
               at[p] \in {"own", "reconcile", "complete_marker", "complete_journal", "adopt"},
               at[p] = "own" => where \in {"recover", "state_failed"},
               trusted_journal' \in {trusted_journal, NoIntent},
               \/ trusted_state' = trusted_state
               \/ trusted_journal # NoIntent /\ current = trusted_journal.next_state.target
        PROVE  AnswerInv'
    <2>1. at[p] \in Claimless /\ where \in (Claimless \cup {"state_failed"}) \ {"idle"}
      BY <1>3 DEF Claimless
    <2>2. at'[p] \in {"reconcile", "complete_marker", "complete_journal", "adopt", "reconciled"}
             => recovery'[p].ok
      BY <1>1, <1>2, <1>3 DEF Answering, ResultsSound
    <2>3. stage[p] = "settle" => Outstanding(p)'
      BY <1>1, <1>2, <1>3, <2>1, OutstandingKept DEF Answering, Unsettled, pointers
    <2>4. Answering(p)'
      BY <1>1, <1>2, <1>3, <2>1, <2>2, <2>3, CalmAnswers DEF Answering, ResultsSound
    <2>5. QED
      BY <1>1, <1>2, <1>3, <2>4, WorkerAnswers
  \* From the commit on.
  <1>4. ASSUME NEW where \in Committing \cup {"state_failed"}, Goto(p, where),
               at[p] \in Committing
        PROVE  AnswerInv'
    <2>1. Answering(p)'
      BY <1>1, <1>2, <1>4
         DEF Answering, ResultsSound, ClaimSound, Unsettled, Claimless, Committing, Publishing,
             Restoring
    <2>2. QED
      BY <1>1, <1>2, <1>4, <2>1, WorkerAnswers DEF Committing
  <1>5. ASSUME NEW outcome \in Outcomes, ClaimOwnership(p, outcome, "recover")
        PROVE  AnswerInv'
    BY <1>3, <1>5 DEF ClaimOwnership, Continue
  <1>6. CASE ReconcileStep(p, active[p])
    <2>1. ASSUME NEW outcome \in Outcomes, CompleteState(p, active[p], outcome)
          PROVE  AnswerInv'
      BY <1>1, <1>3, <2>1 DEF CompleteState, Continue, Published, Reconciling
    <2>2. ASSUME NEW outcome \in Outcomes, CompleteMarker(p, outcome)
          PROVE  AnswerInv'
      BY <1>3, <2>2 DEF CompleteMarker, Continue
    <2>3. ASSUME NEW outcome \in Outcomes,
                 CompleteJournal(p, outcome) \/ Discard(p, active[p], outcome)
          PROVE  AnswerInv'
      BY <1>3, <2>3 DEF CompleteJournal, Discard, RemoveIntent, Written, Continue
    <2>4. CASE NothingPending(p) \/ RejectIntent(p) \/ RejectState(p, active[p])
      BY <1>3, <2>4 DEF NothingPending, RejectIntent, RejectState, policy, store
    <2>5. ASSUME NEW outcome \in Outcomes, Adopt(p, active[p], outcome)
          PROVE  AnswerInv'
      BY <1>3, <2>5 DEF Adopt, Continue
    <2>6. QED
      BY <1>6, <2>1, <2>2, <2>3, <2>4, <2>5 DEF ReconcileStep
  <1>7. CASE CommitStep(p, plan[p])
    BY <1>4, <1>7
       DEF CommitStep, RejectCommit, CommitState, CommitMarker, CommitJournal, RemoveIntent,
           Continue, Committing
  <1>8. QED
    BY <1>5, <1>6, <1>7 DEF StoreStep
LEMMA ClaimAnswers ==
    ASSUME TypeOK, PublicationInv, AnswerInv, NEW p \in Publishers,
           NEW outcome \in Outcomes, NEW granted \in BOOLEAN, Claim(p, outcome, granted)
    PROVE  AnswerInv'
  <1>1. /\ at[p] = "claim" /\ OthersKept(p) /\ reply' = reply
        /\ UNCHANGED <<pointers, active, update, recovery, trusted_state, stage, plan,
                       previous_generation>>
        /\ \/ at'[p] = "restore_previous" /\ claim'[p] = "attempted"
           \/ /\ at'[p] \in {"publish_journal", "restore_previous"} /\ outcome = "done"
              /\ claim'[p] = IF at'[p] = "publish_journal" THEN "prepared" ELSE "rejected"
    BY DEF Claim, Goto, TypeOK, OthersKept, updater
  <1>2. /\ stage[p] = "apply" /\ plan[p] \in Plans /\ Answering(p) /\ FilesSound
        /\ trusted_journal = NoIntent /\ accepted[p] = trusted_state /\ active[p] = current
        /\ publish_journal = NoJournal /\ previous_generation[p] = current
        /\ previous_generation[p] # plan[p].target
        /\ plan[p] # NoPlan
    BY <1>1, Places, PublicationAssumption
       DEF Reconciling, Transacting, Applying, Applied, AnswerInv
  <1>3. plan[p] # trusted_state
    BY <1>2 DEF FilesSound, StateSound
  <1>4. outcome = "done" => trusted_journal'.next_state = plan[p]
    BY DEF Claim, Prepare, Written
  <1>5. outcome = "done" => Outstanding(p)'
    BY <1>1, <1>2, <1>3, <1>4 DEF Outstanding, pointers, Publishing, Restoring
  <1>6. Answering(p)'
    BY <1>1, <1>2, <1>5
       DEF Answering, ResultsSound, ClaimSound, Unsettled, Claimless, Committing, Publishing,
           Restoring, pointers
  <1>7. QED
    BY <1>1, <1>6, WorkerAnswers

LEMMA UpdateAnswers ==
    ASSUME TypeOK, PublicationInv, AnswerInv, NEW p \in Publishers, Update(p)
    PROVE  AnswerInv'
  <1>1. /\ at[p] = "update" /\ UNCHANGED <<pointers, store, owner, recovery>>
        /\ Answering(p) /\ stage[p] = "apply" /\ claim[p] = "none"
        /\ active[p] = current /\ previous_generation[p] = current
    BY Places
       DEF Update, UpdateFails, UpdateSameGeneration, BeginTransaction, Transacting, Applying,
           Reconciling, AnswerInv, Answering, ClaimSound, Claimless
  <1>2. \/ /\ \/ Updated(p, Fails("not_committed", current))
              \/ Updated(p, Succeeds("committed", current))
           /\ UNCHANGED pointers
        \/ Goto(p, "claim") /\ UNCHANGED update
    BY <1>1 DEF Update, UpdateFails, UpdateSameGeneration, BeginTransaction
  <1>3. /\ OthersKept(p)
        /\ \/ at'[p] = "updated" /\ update'[p] = Fails("not_committed", current)
           \/ at'[p] = "updated" /\ update'[p] = Succeeds("committed", current)
           \/ at'[p] = "claim" /\ update'[p] = update[p]
    BY <1>1, <1>2 DEF Updated, Goto, TypeOK, OthersKept, owner
  <1>4. Answering(p)'
    BY <1>1, <1>3
       DEF Answering, ResultsSound, ClaimSound, Unsettled, Claimless, Committing, Publishing,
           Restoring, pointers, owner, Fails, Succeeds
  <1>5. QED
    BY <1>1, <1>3, <1>4, WorkerAnswers DEF owner

LEMMA OwnerStepAnswers ==
    ASSUME TypeOK, PublicationInv, AnswerInv, NEW p \in Publishers, OwnerStep(p)
    PROVE  AnswerInv'
  <1>1. at[p] # "idle" => /\ stage[p] # "none" /\ Replaying(p) /\ Reconciling(p)
                          /\ Transacting(p) /\ Accepting(p) /\ FilesSound
    BY Places
  <1>2. /\ Answering(p) /\ ResultsSound(p) /\ ClaimSound(p) /\ (Unsettled(p) => Outstanding(p))
        /\ stage[p] \in {"none", "recover", "apply", "settle"}
        /\ claim[p] \in {"none", "attempted", "prepared", "rejected"}
    BY CallFields DEF AnswerInv, Answering
  \* What is left of a call that is settled.
  <1>3. stage[p] = "settle" => Outstanding(p) /\ at[p] \notin Publishing \cup Restoring
    BY <1>2 DEF Unsettled, ClaimSound, Publishing, Restoring
  <1>4. CASE RecoveryFailed(p)
    <2>1. Truthful(p, "updater_failure",
                   IF stage[p] = "settle" THEN update[p] ELSE recovery[p], FALSE)
      BY <1>2, <1>3, <1>4 DEF RecoveryFailed, Truthful, ClaimSound, Claimless, Outstanding
    <2>2. QED
      BY <1>4, <2>1, ReturnAnswers DEF RecoveryFailed
  <1>5. CASE RecoverySucceeded(p)
    <2>1. /\ at[p] = "recovered" /\ at'[p] = "reconcile" /\ recovery[p].ok
          /\ OthersKept(p) /\ UNCHANGED <<updater, store, stage, claim, plan, reply>>
          /\ stage[p] = "settle" => previous_generation' = previous_generation
      BY <1>5 DEF RecoverySucceeded, Goto, TypeOK, OthersKept, updater
    <2>2. stage[p] = "settle" => Outstanding(p)'
      BY <1>3, <2>1, OutstandingKept DEF Claimless, updater, pointers, store, policy
    <2>3. Answering(p)'
      BY <1>2, <2>1, <2>2, CalmAnswers DEF Claimless, updater, ResultsSound
    <2>4. QED
      BY <2>1, <2>3, WorkerAnswers
  <1>6. CASE StateFailed(p)
    <2>1. Truthful(p, "state_failure", IF stage[p] = "recover" THEN recovery[p] ELSE update[p],
                   FALSE)
      BY <1>2, <1>3, <1>6 DEF StateFailed, Truthful, ClaimSound, Outstanding
    <2>2. QED
      BY <1>6, <2>1, ReturnAnswers DEF StateFailed
  <1>7. CASE RecoverReturns(p)
    <2>1. Truthful(p, "none", recovery[p], TRUE)
      BY <1>2, <1>7 DEF RecoverReturns, Truthful, ClaimSound, Claimless, ResultsSound
    <2>2. QED
      BY <1>7, <2>1, ReturnAnswers DEF RecoverReturns
  <1>8. CASE ApplyRefused(p)
    <2>1. Truthful(p, "not_recovered", recovery[p], FALSE)
      BY <1>2, <1>8 DEF ApplyRefused, Truthful, ClaimSound, Claimless
    <2>2. QED
      BY <1>8, <2>1, ReturnAnswers DEF ApplyRefused
  <1>9. CASE Verify(p)
    <2>1. CASE Verified(plan[p], accepted[p]) /\ AdoptsInPlace(p)
      <3>1. /\ at[p] = "reconciled" /\ at'[p] = "update" /\ stage[p] = "apply"
            /\ OthersKept(p) /\ UNCHANGED <<updater, owner>>
        BY <1>9, <2>1 DEF Verify, Goto, TypeOK, OthersKept, updater, owner
      <3>2. Answering(p)'
        BY <1>2, <3>1, CalmAnswers DEF Claimless, updater, owner, ResultsSound
      <3>3. QED
        BY <3>1, <3>2, WorkerAnswers DEF owner
    <2>2. CASE ~(Verified(plan[p], accepted[p]) /\ AdoptsInPlace(p))
      <3>1. Truthful(p, "invalid_plan", NoResult, is_recovered[p])
        BY <1>2, <1>9 DEF Verify, Truthful, ClaimSound, Claimless, NoResult
      <3>2. QED
        BY <1>9, <2>2, <3>1, ReturnAnswers DEF Verify
    <2>3. QED
      BY <2>1, <2>2
  <1>10. CASE TransactionCancelled(p)
    <2>1. /\ at[p] = "claim" /\ at'[p] = "restore_previous" /\ OthersKept(p)
          /\ UNCHANGED <<updater, store, owner>>
      BY <1>10 DEF TransactionCancelled, Goto, TypeOK, OthersKept, updater, owner
    <2>2. Answering(p)'
      BY <1>1, <1>2, <2>1
         DEF Answering, ResultsSound, ClaimSound, Unsettled, Claimless, Committing, Publishing,
             Restoring, Reconciling, Transacting, Applying, updater, pointers, owner
    <2>3. QED
      BY <2>1, <2>2, WorkerAnswers DEF owner
  <1>11. CASE UpdateFailed(p)
    <2>1. /\ at[p] = "updated" /\ ~update[p].ok /\ stage[p] = "apply"
          /\ claim[p] \in {"prepared", "rejected"} => Outstanding(p)
      BY <1>2, <1>11 DEF UpdateFailed, Unsettled, ClaimSound
    <2>2. CASE claim[p] \in {"prepared", "rejected"}
      <3>1. /\ stage'[p] = "settle" /\ at'[p] = "recover" /\ OthersKept(p)
            /\ UNCHANGED <<updater, store, plan, previous_generation, claim, reply>>
        BY <1>11, <2>2 DEF UpdateFailed, Goto, TypeOK, OthersKept, updater
      <3>2. Outstanding(p)'
        BY <2>1, <2>2, <3>1
           DEF Outstanding, updater, pointers, store, policy, Publishing, Restoring
      <3>3. Answering(p)'
        BY <1>2, <2>1, <2>2, <3>1, <3>2
           DEF Answering, ResultsSound, ClaimSound, Claimless, Committing, Publishing,
               Restoring, updater
      <3>4. QED
        BY <2>1, <3>1, <3>3, WorkerAnswers
    <2>3. CASE claim[p] \notin {"prepared", "rejected"}
      <3>1. Truthful(p, IF claim[p] = "attempted" THEN "state_failure" ELSE "updater_failure",
                     update[p], is_recovered[p])
        BY <1>2, <2>1, <2>3 DEF Truthful, Answering
      <3>2. QED
        BY <1>11, <2>3, <3>1, ReturnAnswers DEF UpdateFailed
    <2>4. QED
      BY <2>2, <2>3
  <1>12. CASE Settled(p)
    <2>1. at[p] = "reconciled" /\ stage[p] = "settle" /\ Outstanding(p) /\ active[p] = current
      BY <1>1, <1>3, <1>12 DEF Settled, Reconciling
    <2>2. Disambiguated(p).disposition = update[p].disposition
      BY CallFields DEF Disambiguated, Result
    <2>3. update[p].disposition = "uncertain" => Disambiguated(p).pinned = current
      <3>1. CASE current = NoGeneration
        <4>1. current = previous_generation[p]
          BY <2>1, <3>1, PublicationAssumption DEF Outstanding
        <4>2. QED
          BY <1>3, <2>1, <3>1, <4>1 DEF Disambiguated, Outstanding
      <3>2. CASE current # NoGeneration
        BY <2>1, <3>2, CallFields DEF Disambiguated, Result
      <3>3. QED
        BY <3>1, <3>2
    <2>4. Truthful(p, IF claim[p] = "rejected" THEN "cancelled" ELSE "updater_failure",
                   Disambiguated(p), is_recovered[p])
      BY <1>3, <2>1, <2>2, <2>3 DEF Truthful, Outstanding
    <2>5. QED
      BY <1>12, <2>4, ReturnAnswers DEF Settled
  <1>13. CASE ApplyReturns(p)
    <2>1. Truthful(p, "none", update[p], is_recovered[p])
      BY <1>1, <1>2, <1>13
         DEF ApplyReturns, Truthful, Accepting, ResultsSound, ClaimSound, Committing
    <2>2. QED
      BY <1>13, <2>1, ReturnAnswers DEF ApplyReturns
  <1>14. ASSUME NEW granted \in BOOLEAN, UpdateSucceeded(p, granted)
         PROVE  AnswerInv'
    <2>1. /\ at[p] = "updated" /\ update[p].ok
          /\ current = plan[p].target /\ update[p].disposition = "committed"
          /\ claim[p] \in {"none", "prepared"} /\ stage[p] = "apply"
      BY <1>1, <1>2, <1>14 DEF UpdateSucceeded, Accepting, ResultsSound, ClaimSound
    <2>2. CASE previous_generation[p] = plan[p].target /\ ~granted
      <3>1. Truthful(p, "cancelled", update[p], is_recovered[p])
        BY <2>1, <2>2 DEF Truthful
      <3>2. QED
        BY <1>14, <2>1, <2>2, <3>1, ReturnAnswers DEF UpdateSucceeded
    <2>3. CASE ~(previous_generation[p] = plan[p].target /\ ~granted)
      <3>1. at'[p] = "commit" /\ OthersKept(p) /\ UNCHANGED <<updater, store, owner>>
        BY <1>14, <2>3 DEF UpdateSucceeded, Goto, TypeOK, OthersKept, updater, owner
      <3>2. Answering(p)'
        BY <1>2, <2>1, <3>1
           DEF Answering, ResultsSound, ClaimSound, Unsettled, Claimless, Committing,
               Publishing, Restoring, updater, owner
      <3>3. QED
        BY <2>1, <3>1, <3>2, WorkerAnswers DEF owner
    <2>4. QED
      BY <2>2, <2>3
  <1>15. QED
    BY <1>4, <1>5, <1>6, <1>7, <1>8, <1>9, <1>10, <1>11, <1>12, <1>13, <1>14, ClaimAnswers,
       UpdateAnswers DEF OwnerStep

\* A call that begins drops the last reply; one that dies answers nothing.
LEMMA CallAnswers ==
    ASSUME TypeOK, PublicationInv, AnswerInv, NEW p \in Publishers,
           Recover(p) \/ \E q \in Plans : Apply(p, q)
    PROVE  AnswerInv'
  <1>1. /\ at[p] = "idle" /\ at'[p] = "own" /\ stage'[p] \in {"recover", "apply"}
        /\ policy_lock = Nobody /\ reply' = NoReply
        /\ UNCHANGED <<updater, claim>>
        /\ \A q \in Publishers \ {p} : at'[q] = at[q] /\ stage'[q] = stage[q]
    BY DEF Recover, Apply, LockPolicy, Goto, TypeOK
  <1>2. \A q \in Publishers : at[q] = "idle" /\ Answering(q)
    BY <1>1, PublicationAssumption DEF PublicationInv, OneWriter, AnswerInv
  <1>3. \A q \in Publishers \ {p} : Answering(q)'
    BY <1>1, <1>2, IdleAnswers DEF updater
  <1>4. Answering(p)'
    BY <1>1, <1>2
       DEF Answering, ResultsSound, ClaimSound, Unsettled, Claimless, Committing, Publishing,
           Restoring, updater
  <1>5. QED
    BY <1>1, <1>3, <1>4 DEF AnswerInv, RepliesAreTrue

LEMMA CrashAnswers ==
    ASSUME TypeOK, PublicationInv, AnswerInv, NEW p \in Publishers, Crash(p)
    PROVE  AnswerInv'
  <1>1. /\ at'[p] = "idle" /\ update'[p] = NoResult /\ recovery'[p] = NoResult
        /\ claim'[p] = "none" /\ stage'[p] = "none" /\ OthersKept(p)
        /\ UNCHANGED <<pointers, policy, reply>>
        /\ policy_lock' \in {policy_lock, Nobody}
        /\ \A q \in Publishers : is_recovered'[q] => is_recovered[q]
    BY DEF Crash, Goto, TypeOK, OthersKept
  <1>2. \A q \in Publishers \ {p} : Answering(q)'
    <2>1. CASE at[p] = "idle"
      <3>1. \A q \in Publishers \ {p} :
               /\ active'[q] = active[q] /\ plan'[q] = plan[q]
               /\ previous_generation'[q] = previous_generation[q]
        BY DEF Crash, TypeOK
      <3>2. \A q \in Publishers \ {p} : Outstanding(q) => Outstanding(q)'
        BY <1>1, <3>1 DEF Outstanding, OthersKept, pointers, policy
      <3>3. QED
        BY <1>1, <3>1, <3>2
           DEF AnswerInv, Answering, ResultsSound, ClaimSound, Unsettled, OthersKept, pointers
    <2>2. CASE at[p] # "idle"
      BY <1>1, <2>2, OneAtWork, IdleAnswers DEF OthersKept, AnswerInv
    <2>3. QED
      BY <2>1, <2>2
  <1>3. RepliesAreTrue'
    <2>1. reply # NoReply => reply.by \in Publishers
      BY DEF TypeOK, Reply
    <2>2. QED
      BY <1>1, <2>1 DEF AnswerInv, RepliesAreTrue, pointers, policy
  <1>4. QED
    BY <1>1, <1>2, <1>3, ResetAnswers DEF AnswerInv

LEMMA ServiceAnswers ==
    ASSUME TypeOK, AnswerInv, UNCHANGED <<at, updater, store, owner>>
    PROVE  AnswerInv'
  <1>1. \A q \in Publishers : Answering(q)'
    BY DEF AnswerInv, Answering, ResultsSound, ClaimSound, Unsettled, Outstanding, updater,
           pointers, store, policy, owner
  <1>2. QED
    BY <1>1 DEF AnswerInv, RepliesAreTrue, updater, pointers, store, policy, owner

\* What a call answers is what it did, crashes and failed writes included.
THEOREM AnswersAreTrue == Spec => []RepliesAreTrue
  <1>1. Init => AnswerInv
    <2> SUFFICES ASSUME Init
                 PROVE  AnswerInv
      OBVIOUS
    <2>1. \A q \in Publishers : Answering(q)
      BY DEF Init, Answering, ResultsSound, ClaimSound, Unsettled, Claimless, Committing,
             Publishing, Restoring, NoResult
    <2>2. QED
      BY <2>1 DEF Init, AnswerInv, RepliesAreTrue
  <1>2. TypeOK /\ PublicationInv /\ AnswerInv /\ [Next]_vars => AnswerInv'
    <2> SUFFICES ASSUME TypeOK, PublicationInv, AnswerInv, [Next]_vars
                 PROVE  AnswerInv'
      OBVIOUS
    <2>1. ASSUME NEW p \in Publishers, UpdaterStep(p)
          PROVE  AnswerInv'
      BY <2>1, RecoverStepAnswers, TransactionStepAnswers DEF UpdaterStep
    <2>2. CASE Activate \/ Attest \/ StopService \/ UNCHANGED vars
      BY <2>2, ServiceAnswers DEF Activate, Attest, StopService, vars
    <2>3. QED
      BY <2>1, <2>2, CallAnswers, CrashAnswers, StoreStepAnswers, OwnerStepAnswers DEF Next
  <1>3. AnswerInv => RepliesAreTrue
    BY DEF AnswerInv
  <1>4. QED
    BY <1>1, <1>2, <1>3, PublicationIsSound, PTL DEF Spec
====
