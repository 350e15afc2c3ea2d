---- MODULE RepositoryUpdater ----
(***************************************************************************)
(* The pointer files of a runtime repository store and the journal that    *)
(* makes their replacement recoverable                                     *)
(* (src/runtime/repository/RuntimeRepositoryUpdater.cpp). A step is one     *)
(* durable write. The journal's phase field is left out: recovery never    *)
(* reads it, so a failed rewrite of it counts as an unsynced pointer write. *)
(***************************************************************************)
EXTENDS PublisherStep

CONSTANTS Generations, NoGeneration, NoJournal

VARIABLES
    current, previous,   \* current.json and previous.json
    publish_journal,     \* .publish-journal.json
    active,              \* the generation each publisher has pinned
    transaction,         \* the Journal each publisher has in memory
    update, recovery     \* what update() and recover() last returned

pointers == <<current, previous, publish_journal>>
updater == <<pointers, active, transaction, update, recovery>>

Pointer == Generations \cup {NoGeneration}
Journal == [old_previous: Pointer, old_current: Pointer,
            new_previous: Pointer, new_current: Generations]
Result == [ok: BOOLEAN, disposition: {"not_committed", "committed", "uncertain"},
           pinned: Pointer]
NoResult == [ok |-> FALSE, disposition |-> "not_committed", pinned |-> NoGeneration]

Succeeds(disposition, pin) == [ok |-> TRUE, disposition |-> disposition, pinned |-> pin]
Fails(disposition, pin) == [ok |-> FALSE, disposition |-> disposition, pinned |-> pin]

-----------------------------------------------------------------------------
(* recover() and recover_pending() *)

Recovered(p, result) ==
    /\ recovery' = [recovery EXCEPT ![p] = result]
    /\ Goto(p, "recovered")

Pin(p, generation) == active' = [active EXCEPT ![p] = generation]

\* A pin is reloaded from current.json, or kept when that throws.
Reload(p, pinned) == pinned \in {active[p], current'} /\ Pin(p, pinned)

RecoverClean(p) ==
    /\ at[p] = "recover"
    /\ publish_journal = NoJournal
    /\ \/ Pin(p, current) /\ Recovered(p, Succeeds("not_committed", current))
       \/ UNCHANGED active /\ Recovered(p, Fails("not_committed", active[p]))
    /\ UNCHANGED <<pointers, transaction, update>>

\* The objects of the journal's pointers are validated before the first write.
ReplayPrevious(p, outcome) ==
    /\ at[p] = "recover"
    /\ publish_journal # NoJournal
    /\ previous' = Written(outcome, publish_journal.new_previous, previous)
    /\ IF outcome = "done"
       THEN Goto(p, "replay_current") /\ UNCHANGED recovery
       ELSE Recovered(p, Fails("not_committed", active[p]))
    /\ UNCHANGED <<current, publish_journal, active, transaction, update>>

ReplayCurrent(p, outcome) ==
    /\ at[p] = "replay_current"
    /\ current' = Written(outcome, publish_journal.new_current, current)
    /\ \/ /\ outcome = "done"
          /\ Goto(p, "replay_remove") /\ UNCHANGED <<active, recovery>>
       \/ /\ outcome = "failed"
          /\ Recovered(p, Fails("not_committed", active[p])) /\ UNCHANGED active
       \/ /\ outcome = "unsynced"
          /\ \E pinned \in Pointer :
                Reload(p, pinned) /\ Recovered(p, Fails("uncertain", pinned))
    /\ UNCHANGED <<previous, publish_journal, transaction, update>>

\* recover() reloads the pin once more after recover_pending; when only that
\* throws, it answers not_committed for the replayed publication.
ReplayRemove(p, outcome) ==
    /\ at[p] = "replay_remove"
    /\ publish_journal' = Written(outcome, NoJournal, publish_journal)
    /\ UNCHANGED current
    /\ IF outcome = "done"
       THEN Pin(p, current) /\ \/ Recovered(p, Succeeds("committed", current))
                               \/ Recovered(p, Fails("not_committed", active[p]))
       ELSE \E pinned \in Pointer :
              Reload(p, pinned) /\ Recovered(p, Fails("uncertain", pinned))
    /\ UNCHANGED <<previous, transaction, update>>

-----------------------------------------------------------------------------
(* update(): everything before the transaction *)

Updated(p, result) ==
    /\ update' = [update EXCEPT ![p] = result]
    /\ Goto(p, "updated")

UpdateAdmitted(expected) == publish_journal = NoJournal /\ current = expected

\* A cancellation, a fetch or a validation may fail the update before its claim.
UpdateFails(p) ==
    /\ at[p] = "update"
    /\ Updated(p, Fails("not_committed", active[p]))
    /\ UNCHANGED <<pointers, active, transaction, recovery>>

UpdateSameGeneration(p, target, expected) ==
    /\ at[p] = "update"
    /\ UpdateAdmitted(expected) /\ current = target
    /\ Pin(p, current)
    /\ Updated(p, Succeeds("committed", current))
    /\ UNCHANGED <<pointers, transaction, recovery>>

BeginTransaction(p, target, expected) ==
    /\ at[p] = "update"
    /\ UpdateAdmitted(expected) /\ current # target
    /\ Pin(p, current)
    /\ transaction' = [transaction EXCEPT ![p] =
          [old_previous |-> previous, old_current |-> current,
           new_previous |-> current, new_current |-> target]]
    /\ Goto(p, "claim")
    /\ UNCHANGED <<pointers, update, recovery>>

-----------------------------------------------------------------------------
(* transaction(), once the commit claim is granted *)

PublishJournal(p, outcome) ==
    /\ at[p] = "publish_journal"
    /\ publish_journal' = Written(outcome, transaction[p], publish_journal)
    /\ Continue(p, outcome, "publish_previous", "restore_previous")
    /\ UNCHANGED <<current, previous, active, transaction, update, recovery>>

PublishPrevious(p, outcome) ==
    /\ at[p] = "publish_previous"
    /\ previous' = Written(outcome, transaction[p].new_previous, previous)
    /\ Continue(p, outcome, "publish_current", "restore_previous")
    /\ UNCHANGED <<current, publish_journal, active, transaction, update, recovery>>

\* Mutant: a replacement that failed after the rename is taken back as not done.
PublishCurrent_Restores(p, outcome) ==
    /\ at[p] = "publish_current"
    /\ current' = Written(outcome, transaction[p].new_current, current)
    /\ Continue(p, outcome, "publish_remove", "restore_journal")
    /\ UNCHANGED <<previous, publish_journal, active, transaction, update, recovery>>

\* Once current.json is replaced nothing is taken back.
PublishCurrent(p, outcome) ==
    /\ at[p] = "publish_current"
    /\ current' = Written(outcome, transaction[p].new_current, current)
    /\ IF outcome = "unsynced"
       THEN Updated(p, Fails("uncertain", active[p]))
       ELSE Continue(p, outcome, "publish_remove", "restore_previous") /\ UNCHANGED update
    /\ UNCHANGED <<previous, publish_journal, active, transaction, recovery>>

PublishRemove(p, outcome) ==
    /\ at[p] = "publish_remove"
    /\ publish_journal' = Written(outcome, NoJournal, publish_journal)
    /\ UNCHANGED current
    /\ IF outcome = "done"
       THEN Pin(p, current) /\ Updated(p, Succeeds("committed", current))
       ELSE \E pinned \in Pointer :
              Reload(p, pinned) /\ Updated(p, Fails("uncertain", pinned))
    /\ UNCHANGED <<previous, transaction, recovery>>

RestoreFailed(p) == Updated(p, Fails("uncertain", active[p]))

RestorePrevious(p, outcome) ==
    /\ at[p] = "restore_previous"
    /\ previous' = Written(outcome, transaction[p].old_previous, previous)
    /\ IF outcome = "done" THEN Goto(p, "restore_current") /\ UNCHANGED update
       ELSE RestoreFailed(p)
    /\ UNCHANGED <<current, publish_journal, active, transaction, recovery>>

RestoreCurrent(p, outcome) ==
    /\ at[p] = "restore_current"
    /\ current' = Written(outcome, transaction[p].old_current, current)
    /\ IF outcome = "done" THEN Goto(p, "restore_journal") /\ UNCHANGED update
       ELSE RestoreFailed(p)
    /\ UNCHANGED <<previous, publish_journal, active, transaction, recovery>>

RestoreJournal(p, outcome) ==
    /\ at[p] = "restore_journal"
    /\ publish_journal' = Written(outcome, NoJournal, publish_journal)
    /\ IF outcome = "done" THEN Updated(p, Fails("not_committed", active[p]))
       ELSE RestoreFailed(p)
    /\ UNCHANGED <<current, previous, active, transaction, recovery>>

RecoverStep(p) ==
    \/ RecoverClean(p)
    \/ \E outcome \in Outcomes :
          ReplayPrevious(p, outcome) \/ ReplayCurrent(p, outcome) \/ ReplayRemove(p, outcome)

TransactionStep(p) == \E outcome \in Outcomes :
    \/ PublishJournal(p, outcome) \/ PublishPrevious(p, outcome)
    \/ PublishCurrent(p, outcome) \/ PublishRemove(p, outcome)
    \/ RestorePrevious(p, outcome) \/ RestoreCurrent(p, outcome) \/ RestoreJournal(p, outcome)
====
