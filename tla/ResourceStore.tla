---- MODULE ResourceStore ----
(***************************************************************************)
(* The resource cache of the service and the publication of its updates    *)
(* (src/service/adapters/FileResourceStore.cpp): one resource, its file on *)
(* disk and its cached snapshot, the patches of the sync clients, the      *)
(* refreshes of the watcher (FileResourceWatcher.cpp), the structural      *)
(* commands that replace the file, and the subscriptions of the sync       *)
(* channels (channels/SyncHandler.cpp). mutation_mutex orders the changes  *)
(* and, through the queue, their publication; the thread that finds nobody *)
(* draining the queue drains it for all, the others wait for their own job.*)
(***************************************************************************)
EXTENDS Integers, Sequences

CONSTANTS
    Clients, Watcher,    \* threads that call the store
    Subscribers, Docs,
    MaxChanges,          \* bound: changes of the file and invalidations
    None,                \* no valid document, on disk or in the cache
    Nobody, NoSubscriber, NoJob

Contents == Docs \cup {None}

\* PublicationJob: an update and the subscriptions it is still to be given to.
Jobs == [update : Nat, doc : Contents, slots : SUBSET Subscribers]

ASSUME ResourceStoreAssumption ==
    /\ MaxChanges \in Nat /\ NoJob \notin Jobs
    /\ Watcher \notin Clients /\ Nobody \notin Clients \cup {Watcher}
    /\ None \notin Docs /\ NoSubscriber \notin Subscribers

Threads == Clients \cup {Watcher}

VARIABLES
    disk, cache,
    mutator,     \* who holds mutation_mutex between the check and the write of a patch
    queue, drainer, job,     \* publication_head, publication_active, the job being drained
    inside,      \* the subscriber whose callback runs
    slot,        \* of each subscription
    caller,      \* where each thread is, and the last update it published
    published, delivered,    \* how many updates were published, how many are done
    seen, replay,            \* the last update each subscriber was given, and its document
    changes

file == <<disk, changes>>
publication == <<queue, drainer, caller, published>>
draining == <<job, inside, delivered, seen, replay>>
vars == <<file, cache, mutator, publication, draining, slot>>

Init ==
    /\ disk \in Contents /\ cache = None /\ changes = 0
    /\ mutator = Nobody
    /\ queue = <<>> /\ drainer = Nobody /\ job = NoJob
    /\ inside = NoSubscriber
    /\ slot = [s \in Subscribers |-> "new"]
    /\ caller = [t \in Threads |-> [at |-> "idle", update |-> 0]]
    /\ published = 0 /\ delivered = 0
    /\ seen = [s \in Subscribers |-> 0]
    /\ replay = [s \in Subscribers |-> None]

\* A thread may call the store when it is outside, or from the callback it runs.
MayCall(t) ==
    /\ mutator = Nobody
    /\ caller[t].at = "idle" \/ (drainer = t /\ inside # NoSubscriber)

Change == changes < MaxChanges /\ changes' = changes + 1

\* finalize_publication and enqueue_publication: the slots are those accepting now.
Publish(t, doc) ==
    LET update == published + 1 IN
    /\ published' = update
    /\ queue' = Append(queue, [update |-> update, doc |-> doc,
                               slots |-> {s \in Subscribers : slot[s] = "open"}])
    /\ \/ /\ drainer = Nobody
          /\ drainer' = t
          /\ caller' = [caller EXCEPT ![t] = [at |-> "draining", update |-> update]]
       \/ drainer = t /\ UNCHANGED <<drainer, caller>>
       \/ /\ drainer \notin {Nobody, t}
          /\ caller' = [caller EXCEPT ![t] = [at |-> "waiting", update |-> update]]
          /\ UNCHANGED drainer

-----------------------------------------------------------------------------
(* The operations *)

\* Somebody outside the store replaces, damages or removes the file.
External ==
    /\ Change
    /\ disk' \in Contents \ {disk}
    /\ UNCHANGED <<cache, mutator, publication, draining, slot>>

Pull(t) ==
    /\ t \in Clients /\ MayCall(t)
    /\ cache = None
    /\ cache' = disk
    /\ UNCHANGED <<file, mutator, publication, draining, slot>>

\* apply_patch up to the writer. A patch that fails here may have filled the cache, and
\* one that finds another document on disk takes that into the cache and conflicts.
CheckPatch(t) ==
    /\ t \in Clients \/ drainer = t
    /\ MayCall(t)
    /\ disk # None
    /\ cache' = disk
    /\ \/ UNCHANGED mutator
       \/ cache \in {None, disk} /\ mutator' = t
    /\ UNCHANGED <<file, publication, draining, slot>>

WritePatch(t, doc) ==
    /\ mutator = t
    /\ Change
    /\ disk' = doc /\ cache' = doc
    /\ mutator' = Nobody
    /\ Publish(t, doc)
    /\ UNCHANGED <<draining, slot>>

WriteNotCommitted(t) ==
    /\ mutator = t
    /\ mutator' = Nobody
    /\ UNCHANGED <<file, cache, publication, draining, slot>>

\* create, copy, import and remove replace the file and forget the cached snapshot.
Structural(t) ==
    /\ t \in Clients /\ MayCall(t)
    /\ Change
    /\ disk' \in Contents
    /\ cache' = None
    /\ UNCHANGED <<mutator, publication, draining, slot>>

\* A document that is cached already is not published, one that cannot be loaded is
\* published as a removal if it was cached.
Refresh(t) ==
    /\ t = Watcher /\ MayCall(t)
    /\ cache # disk
    /\ cache' = disk
    /\ Publish(t, disk)
    /\ UNCHANGED <<file, mutator, draining, slot>>

invalidate_and_publish(t) ==
    /\ t = Watcher /\ MayCall(t)
    /\ cache # None
    /\ Change
    /\ cache' = None
    /\ Publish(t, None)
    /\ UNCHANGED <<disk, mutator, draining, slot>>

-----------------------------------------------------------------------------
(* drain_or_wait and invoke_callbacks *)

\* Mutant: a job counts as done when it is taken.
TakeJob_Done(t) ==
    /\ drainer = t /\ job = NoJob /\ queue # <<>>
    /\ job' = Head(queue)
    /\ queue' = Tail(queue)
    /\ delivered' = Head(queue).update
    /\ UNCHANGED <<file, cache, mutator, drainer, caller, published, inside, seen, replay, slot>>

\* Mutant: the job queued last goes first.
TakeJob_Last(t) ==
    /\ drainer = t /\ job = NoJob /\ queue # <<>>
    /\ job' = queue[Len(queue)]
    /\ queue' = SubSeq(queue, 1, Len(queue) - 1)
    /\ UNCHANGED <<file, cache, mutator, drainer, caller, published, inside, delivered,
                   seen, replay, slot>>

TakeJob(t) ==
    /\ drainer = t /\ job = NoJob /\ queue # <<>>
    /\ job' = Head(queue)
    /\ queue' = Tail(queue)
    /\ UNCHANGED <<file, cache, mutator, drainer, caller, published, inside, delivered,
                   seen, replay, slot>>

EnterCallback(t, s) ==
    /\ drainer = t /\ job # NoJob /\ inside = NoSubscriber
    /\ s \in job.slots
    /\ job' = [job EXCEPT !.slots = @ \ {s}]
    /\ \/ /\ slot[s] = "open"
          /\ inside' = s
          /\ seen' = [seen EXCEPT ![s] = job.update]
          /\ replay' = [replay EXCEPT ![s] = job.doc]
       \/ slot[s] # "open" /\ UNCHANGED <<inside, seen, replay>>
    /\ UNCHANGED <<file, cache, mutator, publication, delivered, slot>>

CallbackReturns(t) ==
    /\ drainer = t /\ inside # NoSubscriber /\ mutator # t
    /\ inside' = NoSubscriber
    /\ UNCHANGED <<file, cache, mutator, publication, job, delivered, seen, replay, slot>>

\* Mutant: who waits for the job is not told.
JobDone_Silent(t) ==
    /\ drainer = t /\ job # NoJob /\ inside = NoSubscriber
    /\ job.slots = {}
    /\ job' = NoJob
    /\ UNCHANGED <<file, cache, mutator, publication, inside, delivered, seen, replay, slot>>

JobDone(t) ==
    /\ drainer = t /\ job # NoJob /\ inside = NoSubscriber
    /\ job.slots = {}
    /\ delivered' = job.update
    /\ job' = NoJob
    /\ UNCHANGED <<file, cache, mutator, publication, inside, seen, replay, slot>>

StopDraining(t) ==
    /\ drainer = t /\ job = NoJob /\ queue = <<>>
    /\ drainer' = Nobody
    /\ caller' = [caller EXCEPT ![t].at = "idle"]
    /\ UNCHANGED <<file, cache, mutator, queue, published, draining, slot>>

WaitEnds(t) ==
    /\ caller[t].at = "waiting"
    /\ caller[t].update <= delivered
    /\ caller' = [caller EXCEPT ![t].at = "idle"]
    /\ UNCHANGED <<file, cache, mutator, queue, drainer, published, draining, slot>>

-----------------------------------------------------------------------------
(* The subscriptions *)

\* SyncHandler subscribes, and its client pulls the document it will patch.
Subscribe(s) ==
    /\ slot[s] = "new" /\ mutator = Nobody
    /\ slot' = [slot EXCEPT ![s] = "open"]
    /\ seen' = [seen EXCEPT ![s] = published]
    /\ replay' = [replay EXCEPT ![s] = disk]
    /\ cache' = IF cache = None THEN disk ELSE cache
    /\ UNCHANGED <<file, mutator, publication, job, inside, delivered>>

\* ~Subscription on a thread of its own: no new callback, then wait for the running one.
Reset(s) ==
    /\ slot[s] = "open"
    /\ slot' = [slot EXCEPT ![s] = "closing"]
    /\ UNCHANGED <<file, cache, mutator, publication, draining>>

ResetReturns(s) ==
    /\ slot[s] = "closing" /\ inside # s
    /\ slot' = [slot EXCEPT ![s] = "closed"]
    /\ UNCHANGED <<file, cache, mutator, publication, draining>>

\* ~Subscription in a callback, its own, which it does not wait for, or another's,
\* whose callback cannot be running on another thread.
ResetInCallback(s) ==
    /\ slot[s] = "open" /\ inside # NoSubscriber /\ mutator # drainer
    /\ slot' = [slot EXCEPT ![s] = IF inside = s THEN "self_closed" ELSE "closed"]
    /\ UNCHANGED <<file, cache, mutator, publication, draining>>

-----------------------------------------------------------------------------
Patching(t) == (\E d \in Docs : WritePatch(t, d)) \/ WriteNotCommitted(t)
Draining(t) ==
    \/ TakeJob(t) \/ JobDone(t) \/ StopDraining(t) \/ CallbackReturns(t)
    \/ \E s \in Subscribers : EnterCallback(t, s)
Continue(t) == Patching(t) \/ Draining(t) \/ WaitEnds(t)

Next ==
    \/ External
    \/ \E t \in Threads :
          \/ Pull(t) \/ CheckPatch(t) \/ Structural(t)
          \/ Refresh(t) \/ invalidate_and_publish(t)
          \/ Continue(t)
    \/ \E s \in Subscribers :
          Subscribe(s) \/ Reset(s) \/ ResetReturns(s) \/ ResetInCallback(s)

Spec == Init /\ [][Next]_vars

\* Threads keep running, the writer returns, callbacks return however often they call the
\* store, and the watcher goes on scanning while clients keep taking mutation_mutex.
FairSpec ==
    /\ Spec
    /\ \A t \in Threads : WF_vars(Continue(t)) /\ SF_vars(CallbackReturns(t))
    /\ \A s \in Subscribers : WF_vars(ResetReturns(s))
    /\ SF_vars(Refresh(Watcher))

-----------------------------------------------------------------------------
(* Properties *)

\* Type: every variable keeps its range.
TypeOK ==
    /\ disk \in Contents /\ cache \in Contents /\ changes \in 0..MaxChanges
    /\ mutator \in Threads \cup {Nobody} /\ drainer \in Threads \cup {Nobody}
    /\ queue \in Seq(Jobs) /\ job \in Jobs \cup {NoJob}
    /\ inside \in Subscribers \cup {NoSubscriber}
    /\ slot \in [Subscribers -> {"new", "open", "closing", "closed", "self_closed"}]
    /\ caller \in [Threads -> [at : {"idle", "waiting", "draining"}, update : Nat]]
    /\ published \in Nat /\ delivered \in 0..published
    /\ seen \in [Subscribers -> 0..published]
    /\ replay \in [Subscribers -> Contents]

\* What has returned is done. A call of the store returns only when every subscription that
\* is still open has been given its update and is back from the callback, whoever drained
\* the queue, unless the call was made inside a callback; and after ~Subscription has
\* returned its callback does not run, unless it destroyed its own subscription
\* (drain_or_wait, invoke_callbacks, Subscription).
ReturnedIsDone ==
    /\ TypeOK
    /\ \A t \in Threads : caller[t].at = "idle" =>
          \A s \in Subscribers : slot[s] = "open" =>
              /\ seen[s] >= caller[t].update
              /\ inside = s => seen[s] > caller[t].update
    /\ \A s \in Subscribers : inside = s => slot[s] \in {"open", "closing", "self_closed"}

\* An open subscription is given every update from its subscription on, each once and in
\* the order in which the changes were made (mutation_mutex, the queue, one drainer).
InOrderWithoutGap ==
    [][\A s \in Subscribers : (slot[s] = "open" /\ seen'[s] # seen[s]) =>
           seen'[s] = seen[s] + 1]_vars

\* Every call of the store and every destruction of a subscription returns, although
\* one thread delivers for all of them and callbacks call the store.
CallsReturn ==
    /\ \A t \in Threads : []<>(caller[t].at = "idle")
    /\ \A s \in Subscribers : []<>(slot[s] # "closing")

\* SERVICE_FILE_RESOURCE_STORE.md: "A changed valid document publishes one root
\* `replace`", so the replay of a subscriber comes to agree with the file when it
\* stops changing (refresh).
ReplayConverges == \A s \in Subscribers : <>[](slot[s] = "open" => replay[s] = disk)
====
