---- MODULE ConfigImport ----
(***************************************************************************)
(* The structural operations of the file resource store on config profiles *)
(* (src/service/adapters/FileResourceStore.cpp): import with its journal,  *)
(* its tombstones and its commit marker, the recovery that a construction  *)
(* and every import begin with, remove and create, by several stores (of   *)
(* one process or of many) on one project root, each of which may crash    *)
(* between any two changes of the directory. A file operation may fail at  *)
(* any time. A machine that loses power leaves what a crash before or      *)
(* after the last change leaves, since each change is followed by a flush  *)
(* of its directory.                                                       *)
(***************************************************************************)
EXTENDS Integers

CONSTANTS
    Stores, Names, NoName, NoStore, Damaged,
    MaxId,               \* bound: ids 1..MaxId
    Old,                 \* ids of the profiles there are at first
    MaxImports,          \* bound: transactions, each with names of its own
    RemovesJournaled     \* bound: whether a profile that an import concerns is removed

Ids == 1..MaxId
Imports == 1..MaxImports

ASSUME ConfigImportAssumption ==
    /\ MaxId \in Nat /\ MaxImports \in Nat /\ Old \subseteq Ids
    /\ NoName \notin Names /\ Damaged \notin Names \cup {NoName}
    /\ NoStore \notin Stores /\ RemovesJournaled \in BOOLEAN

Missing == [name |-> NoName, whole |-> FALSE, marker |-> 0]
Tree(n, tx) == [name |-> n, whole |-> TRUE, marker |-> tx]
NoJournal == [is |-> "missing", target |-> 0, retired |-> {}]
Torn == [is |-> "torn", target |-> 0, retired |-> {}]
Journal(i, ids) == [is |-> "whole", target |-> i, retired |-> ids]

VARIABLES
    config,      \* config/<id>: its tree, or Missing
    staging,     \* .baas-import-<tx>: the name in it, or NoName when there is none
    tombstone,   \* .baas-import-retired-<tx>-<id>: its tree, or Missing
    journal,     \* .baas-import-journal-<tx>.json
    lock,        \* .baas-config-import.lock: who holds it
    clock,       \* ids are taken from the clock, which has passed every id in use
    begun,       \* transactions begun
    store        \* where each store is, with the locals of its import or its recovery

disk == <<config, staging, tombstone, journal>>
vars == <<disk, lock, clock, begun, store>>

\* Ids and transactions are gone through in ascending order, and back in descending.
First(S) == CHOOSE i \in S : \A j \in S : i <= j
Final(S) == CHOOSE i \in S : \A j \in S : j <= i

Down == [at |-> "down", opening |-> TRUE, name |-> NoName, tx |-> 0, retired |-> {},
         left |-> {}, ok |-> TRUE]

Init ==
    /\ \E n \in [Old -> Names] :
          config = [i \in Ids |-> IF i \in Old THEN Tree(n[i], 0) ELSE Missing]
    /\ staging = [tx \in Imports |-> NoName]
    /\ tombstone = [tx \in Imports |-> [i \in Ids |-> Missing]]
    /\ journal = [tx \in Imports |-> NoJournal]
    /\ lock = NoStore
    /\ clock = First({c \in 1..MaxId + 1 : \A i \in Old : i < c})
    /\ begun = 0
    /\ store = [s \in Stores |-> Down]

At(s, here) == store[s].at = here
Goto(s, there) == store' = [store EXCEPT ![s].at = there]
GotoWith(s, there, ids) == store' = [store EXCEPT ![s] = [@ EXCEPT !.at = there, !.left = ids]]

\* Leaves the call: an import answers an error, a construction throws.
Fail(s) ==
    /\ store' = [store EXCEPT ![s] = [Down EXCEPT !.at = IF store[s].opening THEN "down" ELSE "ready",
                                                  !.opening = store[s].opening]]
    /\ lock' = NoStore

Absent(i) == config[i] = Missing
\* Mutant of Committed: any directory of the target id counts as the publication.
Committed_Present(tx) == config[journal[tx].target] # Missing
Committed(tx) ==
    config[journal[tx].target] # Missing /\ config[journal[tx].target].marker = tx
Fresh == First({i \in Ids : i >= clock /\ Absent(i)})
HasFresh == \E i \in Ids : i >= clock /\ Absent(i)

-----------------------------------------------------------------------------
(* Directory operations *)

\* durable_directory_rename of a source aside or back; never over an existing target.
Retired(tx, i) ==
    /\ ~Absent(i) /\ tombstone[tx][i] = Missing
    /\ tombstone' = [tombstone EXCEPT ![tx][i] = config[i]]
    /\ config' = [config EXCEPT ![i] = Missing]

Restored(tx, i) ==
    /\ Absent(i) /\ tombstone[tx][i] # Missing
    /\ config' = [config EXCEPT ![i] = tombstone[tx][i]]
    /\ tombstone' = [tombstone EXCEPT ![tx][i] = Missing]

\* remove_tree_best_effort: all of it, or some.
Reclaimed(tx, i) == tombstone' = [tombstone EXCEPT ![tx][i] = Missing]
PartlyReclaimed(tx, i) ==
    /\ tombstone[tx][i] # Missing
    /\ tombstone' = [tombstone EXCEPT ![tx][i].whole = FALSE]

JournalRemoved(tx) == journal' = [journal EXCEPT ![tx] = NoJournal]
MarkerRemoved(i) == config' = [config EXCEPT ![i].marker = 0]

-----------------------------------------------------------------------------
(* Construction and recovery, under the transaction lock *)

Open(s) ==
    /\ At(s, "down") /\ lock = NoStore
    /\ lock' = s
    /\ Goto(s, "recover")
    /\ UNCHANGED <<disk, clock, begun>>

Journals == {tx \in Imports : journal[tx] # NoJournal}

Recover(s) ==
    /\ At(s, "recover")
    /\ \/ Journals = {} /\ Goto(s, "sweep")
       \/ /\ Journals # {}
          /\ LET tx == First(Journals) IN
             \/ journal[tx].is = "torn" /\ Goto(s, "rejected")
             \/ /\ journal[tx].is = "whole"
                /\ store' = [store EXCEPT ![s] = [@ EXCEPT
                      !.tx = tx, !.ok = Committed(tx), !.left = journal[tx].retired,
                      !.at = IF Committed(tx) THEN "finish" ELSE "restore"]]
    /\ UNCHANGED <<disk, lock, clock, begun>>

Finish(s) ==
    LET tx == store[s].tx
        i == First(store[s].left)
    IN
    /\ At(s, "finish")
    /\ UNCHANGED <<config, staging, journal, clock, begun>>
    /\ \/ /\ store[s].left = {}
          /\ Goto(s, "forget") /\ UNCHANGED <<tombstone, lock>>
       \/ /\ store[s].left # {}
          /\ \/ /\ Reclaimed(tx, i)
                /\ GotoWith(s, "finish", store[s].left \ {i}) /\ UNCHANGED lock
             \/ PartlyReclaimed(tx, i) /\ Fail(s)

\* In reverse order; anything but a tombstone without source or a source without
\* tombstone is refused.
Restore(s) ==
    LET tx == store[s].tx
        i == Final(store[s].left)
    IN
    /\ At(s, "restore")
    /\ UNCHANGED <<staging, journal, clock, begun>>
    /\ \/ /\ store[s].left = {}
          /\ Goto(s, "unstage") /\ UNCHANGED <<config, tombstone, lock>>
       \/ /\ store[s].left # {}
          /\ \/ /\ Restored(tx, i)
                /\ GotoWith(s, "restore", store[s].left \ {i}) /\ UNCHANGED lock
             \/ /\ Absent(i) /\ tombstone[tx][i] # Missing
                /\ Fail(s) /\ UNCHANGED <<config, tombstone>>
             \/ /\ ~Absent(i) /\ tombstone[tx][i] = Missing
                /\ GotoWith(s, "restore", store[s].left \ {i})
                /\ UNCHANGED <<config, tombstone, lock>>
             \/ /\ Absent(i) <=> tombstone[tx][i] = Missing
                /\ Goto(s, "rejected") /\ UNCHANGED <<config, tombstone, lock>>

Unstage(s) ==
    /\ At(s, "unstage")
    /\ \/ /\ staging' = [staging EXCEPT ![store[s].tx] = NoName]
          /\ Goto(s, "forget") /\ UNCHANGED lock
       \/ /\ staging[store[s].tx] # NoName
          /\ Fail(s) /\ UNCHANGED staging
    /\ UNCHANGED <<config, tombstone, journal, clock, begun>>

\* The journal, then the marker of a committed transaction; a removal that cannot be
\* flushed counts as failed.
Forget(s) ==
    /\ At(s, "forget")
    /\ \/ JournalRemoved(store[s].tx) /\ Goto(s, IF store[s].ok THEN "unmark" ELSE "recover")
          /\ UNCHANGED lock
       \/ (JournalRemoved(store[s].tx) \/ UNCHANGED journal) /\ Fail(s)
    /\ UNCHANGED <<config, staging, tombstone, clock, begun>>

Marked == {i \in Ids : config[i].marker # 0}

Unmark(s) ==
    /\ At(s, "unmark")
    /\ \/ /\ \E i \in Marked : config[i].marker = store[s].tx /\ MarkerRemoved(i)
          /\ Goto(s, "recover") /\ UNCHANGED lock
       \/ /\ UNCHANGED config \/ \E i \in Marked : config[i].marker = store[s].tx /\ MarkerRemoved(i)
          /\ Fail(s)
    /\ UNCHANGED <<staging, tombstone, journal, clock, begun>>

\* Markers that outlived their journal; then the construction or the import goes on.
Sweep(s) ==
    /\ At(s, "sweep")
    /\ \/ /\ \E i \in Marked : MarkerRemoved(i)
          /\ UNCHANGED <<store, lock>>
       \/ Marked # {} /\ Fail(s) /\ UNCHANGED config
       \/ /\ Marked = {} /\ UNCHANGED config
          /\ IF store[s].opening
             THEN /\ lock' = NoStore
                  /\ store' = [store EXCEPT ![s] = [Down EXCEPT !.at = "ready", !.opening = FALSE]]
             ELSE Goto(s, "admit") /\ UNCHANGED lock
    /\ UNCHANGED <<staging, tombstone, journal, clock, begun>>

\* What is on disk cannot be explained: the construction throws, the import answers
\* internal_error.
Reject(s) == At(s, "rejected") /\ Fail(s) /\ UNCHANGED <<disk, clock, begun>>

-----------------------------------------------------------------------------
(* import_config *)

Import(s, n) ==
    /\ At(s, "ready") /\ lock = NoStore
    /\ lock' = s
    /\ store' = [store EXCEPT ![s] = [@ EXCEPT !.at = "recover", !.name = n]]
    /\ UNCHANGED <<disk, clock, begun>>

\* The complete pairs of that name.
Replaced(n) == {i \in Ids : config[i].whole /\ config[i].name = n}

\* A directory that cannot be read, too many profiles, a clock that fails or no id left.
NotAdmitted(s) == At(s, "admit") /\ Fail(s) /\ UNCHANGED <<disk, clock, begun>>

\* durable_create_new begins the journal: the file is there before its bytes.
Admit(s) ==
    /\ At(s, "admit") /\ begun < MaxImports /\ HasFresh
    /\ begun' = begun + 1
    /\ journal' = [journal EXCEPT ![begun + 1] = Torn]
    /\ store' = [store EXCEPT ![s] = [@ EXCEPT !.at = "write", !.tx = begun + 1, !.left = {Fresh},
                                               !.retired = Replaced(store[s].name), !.ok = TRUE]]
    /\ UNCHANGED <<config, staging, tombstone, lock, clock>>

\* A write that fails removes its file if it can.
WriteJournal(s) ==
    LET tx == store[s].tx
        written == Journal(First(store[s].left), store[s].retired)
    IN
    /\ At(s, "write")
    /\ \/ /\ journal' = [journal EXCEPT ![tx] = written]
          /\ Goto(s, "stage") /\ UNCHANGED lock
       \/ /\ \E j \in {NoJournal, Torn, written} : journal' = [journal EXCEPT ![tx] = j]
          /\ Fail(s)
    /\ UNCHANGED <<config, staging, tombstone, clock, begun>>

\* The staging directory with its marker and files.
Stage(s) ==
    /\ At(s, "stage")
    /\ \/ /\ staging' = [staging EXCEPT ![store[s].tx] = store[s].name]
          /\ \E there \in {"claim", "undo"} : Goto(s, there)
       \/ Goto(s, "undo") /\ UNCHANGED staging
    /\ UNCHANGED <<config, tombstone, journal, lock, clock, begun>>

Claim(s) ==
    /\ At(s, "claim")
    /\ GotoWith(s, "retire", store[s].retired) \/ Goto(s, "undo")
    /\ UNCHANGED <<disk, lock, clock, begun>>

\* What was moved is moved back, in reverse; what cannot be is left to recovery.
StartRollback(s) ==
    GotoWith(s, "rollback", store[s].retired \ store[s].left)

Retire(s) ==
    LET i == First(store[s].left) IN
    /\ At(s, "retire")
    /\ \/ /\ store[s].left = {}
          /\ Goto(s, "publish") /\ UNCHANGED <<config, tombstone>>
       \/ /\ store[s].left # {}
          /\ \/ Retired(store[s].tx, i) /\ GotoWith(s, "retire", store[s].left \ {i})
             \/ StartRollback(s) /\ UNCHANGED <<config, tombstone>>
    /\ UNCHANGED <<staging, journal, lock, clock, begun>>

\* The marker travels with the staging directory; the mutation gate opens.
Publish(s) ==
    LET tx == store[s].tx
        i == journal[tx].target
    IN
    /\ At(s, "publish")
    /\ \/ /\ Absent(i)
          /\ config' = [config EXCEPT ![i] = Tree(staging[tx], tx)]
          /\ clock' = IF clock > i THEN clock ELSE i + 1
          /\ staging' = [staging EXCEPT ![tx] = NoName]
          /\ GotoWith(s, "reclaim", store[s].retired)
       \/ StartRollback(s) /\ UNCHANGED <<config, staging, clock>>
    /\ UNCHANGED <<tombstone, journal, lock, begun>>

Rollback(s) ==
    LET i == Final(store[s].left) IN
    /\ At(s, "rollback")
    /\ \/ /\ store[s].left = {}
          /\ Goto(s, "undo") /\ UNCHANGED <<config, tombstone>>
       \/ /\ store[s].left # {}
          /\ \/ Restored(store[s].tx, i) /\ GotoWith(s, "rollback", store[s].left \ {i})
             \/ /\ store' = [store EXCEPT ![s] = [@ EXCEPT !.left = store[s].left \ {i}, !.ok = FALSE]]
                /\ UNCHANGED <<config, tombstone>>
    /\ UNCHANGED <<staging, journal, lock, clock, begun>>

\* StagingCleanup, then JournalCleanup unless recovery is needed; neither is checked.
Undo(s) ==
    /\ At(s, "undo")
    /\ staging' = [staging EXCEPT ![store[s].tx] = NoName] \/ UNCHANGED staging
    /\ Goto(s, "undo_journal")
    /\ UNCHANGED <<config, tombstone, journal, lock, clock, begun>>

\* Mutant of UndoJournal: the journal goes although a tombstone could not be moved back.
UndoJournal_Always(s) ==
    /\ At(s, "undo_journal")
    /\ JournalRemoved(store[s].tx) \/ UNCHANGED journal
    /\ Fail(s)
    /\ UNCHANGED <<config, staging, tombstone, clock, begun>>

UndoJournal(s) ==
    /\ At(s, "undo_journal")
    /\ (store[s].ok /\ JournalRemoved(store[s].tx)) \/ UNCHANGED journal
    /\ Fail(s)
    /\ UNCHANGED <<config, staging, tombstone, clock, begun>>

\* Past the mutation gate. The journal stays while a tombstone does, and the marker while
\* the journal does.
Reclaim(s) ==
    LET i == First(store[s].left) IN
    /\ At(s, "reclaim")
    /\ \/ /\ store[s].left = {} /\ store[s].ok
          /\ Goto(s, "reclaim_journal") /\ UNCHANGED <<tombstone, lock>>
       \/ store[s].left = {} /\ ~store[s].ok /\ Fail(s) /\ UNCHANGED tombstone
       \/ /\ store[s].left # {}
          /\ \/ Reclaimed(store[s].tx, i) /\ GotoWith(s, "reclaim", store[s].left \ {i})
             \/ /\ PartlyReclaimed(store[s].tx, i)
                /\ store' = [store EXCEPT ![s] = [@ EXCEPT !.left = store[s].left \ {i}, !.ok = FALSE]]
          /\ UNCHANGED lock
    /\ UNCHANGED <<config, staging, journal, clock, begun>>

\* Mutant of ReclaimJournal: the marker goes first.
ReclaimJournal_MarkerFirst(s) ==
    /\ At(s, "reclaim_journal")
    /\ \/ /\ \E i \in Marked : config[i].marker = store[s].tx /\ MarkerRemoved(i)
          /\ UNCHANGED <<journal, store, lock>>
       \/ /\ \A i \in Marked : config[i].marker # store[s].tx
          /\ JournalRemoved(store[s].tx) /\ Fail(s) /\ UNCHANGED config
    /\ UNCHANGED <<staging, tombstone, clock, begun>>

ReclaimJournal(s) ==
    /\ At(s, "reclaim_journal")
    /\ \/ JournalRemoved(store[s].tx) /\ Goto(s, "reclaim_marker") /\ UNCHANGED lock
       \/ (JournalRemoved(store[s].tx) \/ UNCHANGED journal) /\ Fail(s)
    /\ UNCHANGED <<config, staging, tombstone, clock, begun>>

ReclaimMarker(s) ==
    /\ At(s, "reclaim_marker")
    /\ \/ UNCHANGED config
       \/ \E i \in Marked : config[i].marker = store[s].tx /\ MarkerRemoved(i)
    /\ Fail(s)
    /\ UNCHANGED <<staging, tombstone, journal, clock, begun>>

-----------------------------------------------------------------------------
(* Other calls, each under the mutation gate of its store *)

Gate(s) == store[s].at \in {"ready", "reclaim", "reclaim_journal", "reclaim_marker"}

\* create_config and copy_config publish a directory of a fresh id.
CreateProfile(s, n) ==
    /\ Gate(s) /\ HasFresh
    /\ config' = [config EXCEPT ![Fresh] = Tree(n, 0)]
    /\ clock' = Fresh + 1
    /\ UNCHANGED <<staging, tombstone, journal, lock, begun, store>>

\* Whether an import under way or a journal on disk concerns the profile.
Journaled(i) ==
    \/ \E tx \in Journals : i = journal[tx].target \/ i \in journal[tx].retired
    \/ \E s \in Stores : i \in store[s].retired

\* remove_config renames the profile away.
RemoveProfile(s, i) ==
    /\ Gate(s) /\ ~Absent(i)
    /\ RemovesJournaled \/ ~Journaled(i)
    /\ config' = [config EXCEPT ![i] = Missing]
    /\ UNCHANGED <<staging, tombstone, journal, lock, clock, begun, store>>

Crash(s) ==
    /\ store[s].at # "down"
    /\ store' = [store EXCEPT ![s] = Down]
    /\ lock' = IF lock = s THEN NoStore ELSE lock
    /\ UNCHANGED <<disk, clock, begun>>

-----------------------------------------------------------------------------
Recovering(s) == \/ Open(s) \/ Recover(s) \/ Finish(s) \/ Restore(s) \/ Unstage(s)
                 \/ Forget(s) \/ Unmark(s) \/ Sweep(s) \/ Reject(s)
Importing(s) == \/ NotAdmitted(s) \/ Admit(s) \/ WriteJournal(s) \/ Stage(s) \/ Claim(s)
                \/ Retire(s) \/ Publish(s) \/ Rollback(s) \/ Undo(s) \/ UndoJournal(s)
                \/ Reclaim(s) \/ ReclaimJournal(s) \/ ReclaimMarker(s)

Next ==
    \E s \in Stores :
        \/ Recovering(s) \/ Importing(s) \/ Crash(s)
        \/ \E n \in Names : Import(s, n) \/ CreateProfile(s, n)
        \/ \E i \in Ids : RemoveProfile(s, i)

Spec == Init /\ [][Next]_vars

-----------------------------------------------------------------------------
(* Properties *)

Places == {"down", "recover", "finish", "restore", "unstage", "forget", "unmark", "sweep",
           "rejected", "ready", "admit", "write", "stage", "claim", "retire", "publish",
           "rollback", "undo", "undo_journal", "reclaim", "reclaim_journal", "reclaim_marker"}
Trees == [name : Names \cup {NoName}, whole : BOOLEAN, marker : {0} \cup Imports]

\* Type: every variable keeps its range.
TypeOK ==
    /\ config \in [Ids -> Trees] /\ tombstone \in [Imports -> [Ids -> Trees]]
    /\ staging \in [Imports -> Names \cup {NoName}]
    /\ journal \in [Imports -> [is : {"missing", "torn", "whole"}, target : {0} \cup Ids,
                                retired : SUBSET Ids]]
    /\ lock \in Stores \cup {NoStore} /\ clock \in Int /\ begun \in 0..MaxImports
    /\ store \in [Stores -> [at : Places, opening : BOOLEAN, name : Names \cup {NoName},
                             tx : {0} \cup Imports, retired : SUBSET Ids, left : SUBSET Ids,
                             ok : BOOLEAN]]

\* A tombstone belongs to a journal that names it, so that whoever comes next restores it
\* or reclaims it (rollback_retired, the reclamation after publication, recovery).
TombstonesOwned ==
    /\ TypeOK
    /\ \A tx \in Imports, i \in Ids : tombstone[tx][i] # Missing =>
           journal[tx].is = "whole" /\ i \in journal[tx].retired

\* "process exit or power loss at any rename/cleanup boundary remains recoverable": a
\* journal that was written whole is never refused (recover_import_transactions).
WholeJournalAccepted ==
    \A s \in Stores : At(s, "rejected") => journal[First(Journals)].is = "torn"

\* "a strictly bound journal deterministically restores all old trees when publication did
\* not happen, or finishes tombstone cleanup when it did": no profile comes back that
\* reclamation has begun to delete (recover_import_transactions).
OnlyWholeRestored == \A i \in Ids : ~Absent(i) => config[i].whole

\* Whatever crashes and whatever fails, the profiles that are there, or will be once
\* recovery has run, change as those of Profiles do: an import replaces all it saw at once,
\* and a profile is whole (import_config, recover_import_transactions).
Shown(t) == IF t.whole THEN t.name ELSE Damaged
Profile(i) ==
    LET held == {tx \in Imports : /\ journal[tx].is = "whole" /\ ~Committed(tx)
                                  /\ tombstone[tx][i] # Missing}
    IN  IF ~Absent(i) THEN Shown(config[i])
        ELSE IF held # {} THEN Shown(tombstone[First(held)][i])
        ELSE NoName
Seen(s) ==
    IF store[s].at \in {"write", "stage", "claim", "retire", "publish"}
    THEN store[s].retired ELSE {}
Abstract == INSTANCE Profiles WITH
    profiles <- [i \in Ids |-> Profile(i)],
    seen <- [s \in Stores |-> Seen(s)]
ImplementsProfiles == Abstract!Spec

-----------------------------------------------------------------------------
(* Why the safety properties hold: an inductive invariant *)

Resuming == {"finish", "restore", "unstage", "forget"}
Uncommitted == {"stage", "claim", "retire", "publish", "rollback", "undo", "undo_journal"}
Reclaiming == {"reclaim", "reclaim_journal"}
InImport == Uncommitted \cup Reclaiming
NoneLeft == {"sweep", "admit", "unmark", "reclaim_marker"}

Kept(tx) == {i \in Ids : tombstone[tx][i] # Missing}

\* One store at a time recovers or imports.
LockInv == \A s \in Stores : lock = s <=> store[s].at \notin {"down", "ready"}

\* There is at most one journal, and no tombstone without it.
JournalInv ==
    /\ \A tx, u \in Journals : tx = u
    /\ \A tx \in Journals : tx <= begun
    /\ \A tx \in Imports : journal[tx].is = "missing" => journal[tx] = NoJournal
    /\ \A tx \in Imports : Kept(tx) # {} =>
           journal[tx].is = "whole" /\ Kept(tx) \subseteq journal[tx].retired

\* What each place of recovery and of an import knows of the journal and its tombstones.
PlaceInv(s) ==
    LET r == store[s] IN
    /\ r.at \in NoneLeft => Journals = {}
    /\ r.at \in Resuming \cup InImport \cup {"write"} => Journals = {r.tx}
    /\ r.at = "write" => journal[r.tx] = Torn /\ \E i \in Ids : r.left = {i}
    /\ r.at \in Resuming \cup InImport => journal[r.tx].is = "whole"
    /\ r.at \in InImport => r.retired = journal[r.tx].retired
    /\ r.at \in {"finish", "restore"} => Kept(r.tx) \subseteq r.left
    /\ r.at \in {"restore", "retire"} => r.left \subseteq journal[r.tx].retired
    /\ r.at \in {"unstage", "forget", "stage", "claim", "reclaim_journal"} => Kept(r.tx) = {}
    /\ r.at \in {"retire", "publish"} => Kept(r.tx) = r.retired \ r.left
    /\ r.at \in {"rollback", "reclaim"} => (r.ok => Kept(r.tx) \subseteq r.left)
    /\ r.at \in {"undo", "undo_journal"} => (r.ok => Kept(r.tx) = {})
    /\ r.at = "publish" => r.left = {}

ImportInv == TypeOK /\ LockInv /\ JournalInv /\ \A s \in Stores : PlaceInv(s)

\* Every tree bears a name and a marker of a transaction begun, and an id the clock passed.
Known(t) == t.name \in Names /\ t.marker <= begun
TreeInv ==
    /\ \A i \in Ids : ~Absent(i) => Known(config[i]) /\ i < clock
    /\ \A tx \in Imports : \A i \in Kept(tx) : Known(tombstone[tx][i])

\* Until the target of a journal bears its marker each profile it retires is at one place.
WholeInv ==
    \A tx \in Imports : journal[tx].is = "whole" =>
        LET j == journal[tx] IN
        /\ j.target \in Ids \ j.retired
        /\ \A i \in j.retired : i < clock
        /\ ~Committed(tx) => \A i \in j.retired : Absent(i) <=> i \in Kept(tx)

\* What each place knows of the publication, and of the profiles it replaces.
ImportOf(s) ==
    LET r == store[s] IN
    /\ r.at \notin {"write", "reclaim_marker"} \cup InImport => r.retired = {}
    /\ r.at = "down" => r.opening
    /\ r.at \notin {"down", "ready"} /\ ~r.opening => r.name \in Names
    /\ r.at \in {"admit", "write", "reclaim_marker"} \cup InImport => ~r.opening
    /\ r.at \in {"finish"} \cup Reclaiming => Committed(r.tx)
    /\ r.at \in {"restore"} \cup Uncommitted => ~Committed(r.tx)
    /\ r.at = "write" =>
          /\ \A i \in Ids : config[i].marker # r.tx
          /\ \A i \in r.retired : ~Absent(i) /\ i \notin r.left
    /\ r.at \in {"claim", "retire", "publish"} => staging[r.tx] = r.name
    /\ r.at = "rejected" => Journals # {} /\ journal[First(Journals)].is = "torn"
    /\ \A i \in Seen(s) : Profile(i) = r.name

CommitInv == TreeInv /\ WholeInv /\ \A s \in Stores : ImportOf(s)
====
