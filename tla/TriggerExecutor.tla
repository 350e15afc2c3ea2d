---- MODULE TriggerExecutor ----
(***************************************************************************)
(* The shared pool that runs trigger commands for every connection         *)
(* (src/service/trigger/TriggerExecutor.cpp, TriggerDispatch.cpp), with    *)
(* one TriggerSession per connection. Each action is one critical section  *)
(* of the executor mutex or of a session mutex; the connection operation   *)
(* mutex, which spans several of them, is a variable. A task number is one *)
(* submission: its admission receipt and its stop source.                  *)
(***************************************************************************)
EXTENDS TriggerSession, Integers

CONSTANTS
    Connections,
    Hosts,                     \* threads that call a connection's owner
    Workers,                   \* the executor's own threads
    max_tasks, max_queued_tasks, max_tasks_per_connection,
    max_pending_responses,     \* max_pending_response_bytes, one unit a response
    MaxTasks,                  \* bound: submissions that get as far as a slot
    HostCalls,                 \* subset of {"retry", "cancel"}: calls beyond those of the adapters
    Nobody, NoConnection

Slots == 1..max_tasks
Tasks == 1..MaxTasks
Actors == Hosts \cup Workers
NoSlot == 0

ASSUME ExecutorAssumption ==
    /\ max_tasks \in Nat \ {0} /\ max_queued_tasks \in 1..max_tasks
    /\ max_tasks_per_connection \in Nat \ {0} /\ max_pending_responses \in Nat \ {0}
    /\ MaxTasks \in Nat /\ max_queued_batches \in Nat \ {0}
    /\ HostCalls \subseteq {"retry", "cancel"}
    /\ Hosts \cap Workers = {} /\ Nobody \notin Actors /\ NoConnection \notin Connections

VARIABLES
    slot,             \* slots, by index
    queue,            \* the ring of queued slot indices
    count,            \* reserved, queued, running, completed, active_tasks
    connection,       \* accepting and close_required of each connection
    operation_mutex,  \* who holds it, by connection
    session,
    stop_requested,   \* tasks whose stop source was raised
    next_task,
    stopping, registry_close_complete,
    shutdown_stop_sources,
    step              \* what each actor is in the middle of

executor == <<slot, queue, count>>
lifetime == <<stopping, registry_close_complete, shutdown_stop_sources>>
vars == <<executor, connection, operation_mutex, session, stop_requested, next_task,
          lifetime, step>>

-----------------------------------------------------------------------------
FreeSlot == [state |-> "free", connection |-> NoConnection, timestamp |-> 0,
             task |-> NoTask, pending |-> "none"]

\* staged: the terminal in hand; outcome: what publishing it came to; scan: the
\* slot indices still to visit; raise: whether the scan requests stops; then:
\* where the actor goes on; registry: connections shutdown has yet to close.
Idle == [at |-> "idle", connection |-> NoConnection, timestamp |-> 0, slot |-> NoSlot,
         task |-> NoTask, staged |-> "none", outcome |-> "none", scan |-> {},
         raise |-> TRUE, must_close |-> FALSE, then |-> "idle", registry |-> {}]

Init ==
    /\ slot = [i \in Slots |-> FreeSlot]
    /\ queue = <<>>
    /\ count = [f \in {"reserved", "queued", "running", "completed", "active"} |-> 0]
    /\ connection = [c \in Connections |-> [accepting |-> TRUE, close_required |-> FALSE]]
    /\ operation_mutex = [c \in Connections |-> Nobody]
    /\ session = [c \in Connections |-> NewSession]
    /\ stop_requested = {}
    /\ next_task = 1
    /\ stopping = FALSE
    /\ registry_close_complete = FALSE
    /\ shutdown_stop_sources = {}
    /\ step = [a \in Actors |-> Idle]

At(a, where) == step[a].at = where
Goto(a, where) == step' = [step EXCEPT ![a].at = where]
Become(a, r) == step' = [step EXCEPT ![a] = r]

Lock(a, c) ==
    /\ operation_mutex[c] = Nobody
    /\ operation_mutex' = [operation_mutex EXCEPT ![c] = a]
Unlock(c) == operation_mutex' = [operation_mutex EXCEPT ![c] = Nobody]

Owned(c) == {i \in Slots : slot[i].state # "free" /\ slot[i].connection = c}
In(state) == {i \in Slots : slot[i].state = state}
Lowest(S) == CHOOSE i \in S : \A j \in S : i <= j

\* Mutant: giving a reservation back leaves it counted.
Release_KeepsReserved(i, fields) ==
    /\ slot' = [slot EXCEPT ![i] = FreeSlot]
    /\ count' = [f \in DOMAIN count |->
          count[f] - (IF f \in fields \cup {"active"} THEN 1 ELSE 0)]

\* The caller's own decrements, then those of release_slot_locked.
Release(i, fields) ==
    /\ slot' = [slot EXCEPT ![i] = FreeSlot]
    /\ count' = [f \in DOMAIN count |->
          count[f] - (IF f \in fields THEN 1 ELSE 0)
                   - (IF f = "reserved" /\ slot[i].state = "reserved" THEN 1 ELSE 0)
                   - (IF f = "active" /\ count[f] # 0 THEN 1 ELSE 0)]

Moved(from, to) == [count EXCEPT ![from] = @ - 1, ![to] = @ + 1]

-----------------------------------------------------------------------------
(* Submitting a command *)

Reservable(c) ==
    /\ ~stopping
    /\ connection[c].accepting
    /\ count.active < max_tasks
    /\ Cardinality(Owned(c)) < max_tasks_per_connection
    /\ count.queued + count.reserved < max_queued_tasks
    /\ In("free") # {}

SubmitReserve(h, c, t) ==
    /\ At(h, "idle")
    /\ Lock(h, c)
    /\ Reservable(c)
    /\ next_task \in Tasks
    /\ LET i == Lowest(In("free")) IN
       /\ slot' = [slot EXCEPT ![i] = [FreeSlot EXCEPT !.state = "reserved",
                        !.connection = c, !.timestamp = t, !.task = next_task]]
       /\ Become(h, [Idle EXCEPT !.at = "admit", !.connection = c,
                        !.timestamp = t, !.slot = i, !.task = next_task])
    /\ count' = [count EXCEPT !.reserved = @ + 1, !.active = @ + 1]
    /\ next_task' = next_task + 1
    /\ UNCHANGED <<queue, connection, session, stop_requested, lifetime>>

SubmitAdmit(h) ==
    LET c == step[h].connection  t == step[h].timestamp IN
    /\ At(h, "admit")
    /\ Admissible(session[c], t)
    /\ session' = [session EXCEPT ![c] = admit(@, t, step[h].task)]
    /\ Goto(h, "commit")
    /\ UNCHANGED <<executor, connection, operation_mutex, stop_requested, next_task, lifetime>>

SubmitRejected(h) ==
    LET c == step[h].connection IN
    /\ At(h, "admit")
    /\ ~Admissible(session[c], step[h].timestamp)
    /\ Release(step[h].slot, {})
    /\ Unlock(c)
    /\ Become(h, Idle)
    /\ UNCHANGED <<queue, connection, session, stop_requested, next_task, lifetime>>

SubmitCommit(h) ==
    LET i == step[h].slot  c == step[h].connection IN
    /\ At(h, "commit")
    /\ ~stopping
    /\ connection[c].accepting
    /\ slot' = [slot EXCEPT ![i].state = "queued"]
    /\ count' = Moved("reserved", "queued")
    /\ queue' = Append(queue, i)
    /\ Unlock(c)
    /\ Become(h, Idle)
    /\ UNCHANGED <<connection, session, stop_requested, next_task, lifetime>>

\* The executor or the connection stopped after the reservation: the admission is
\* taken back while the operation mutex still keeps the session open.
SubmitRollback(h) ==
    LET c == step[h].connection IN
    /\ At(h, "commit")
    /\ stopping \/ ~connection[c].accepting
    /\ session' = [session EXCEPT ![c] = rollback(@, step[h].timestamp)]
    /\ Release(step[h].slot, {})
    /\ Unlock(c)
    /\ Become(h, Idle)
    /\ UNCHANGED <<queue, connection, stop_requested, next_task, lifetime>>

-----------------------------------------------------------------------------
(* The worker *)

Take(w) ==
    LET i == Head(queue) IN
    /\ At(w, "idle") /\ ~stopping /\ queue # <<>>
    /\ slot' = [slot EXCEPT ![i].state = "running"]
    /\ count' = Moved("queued", "running")
    /\ queue' = Tail(queue)
    /\ Become(w, [Idle EXCEPT !.at = "dispatch", !.connection = slot[i].connection,
                      !.timestamp = slot[i].timestamp, !.slot = i, !.task = slot[i].task])
    /\ UNCHANGED <<connection, operation_mutex, session, stop_requested, next_task, lifetime>>

\* A stopping executor empties its queue without answering.
DropQueued(w) ==
    /\ At(w, "idle") /\ stopping /\ queue # <<>>
    /\ Release(Head(queue), {"queued"})
    /\ queue' = Tail(queue)
    /\ UNCHANGED <<connection, operation_mutex, session, stop_requested, next_task,
                   lifetime, step>>

\* Mutant: a worker that sees the stop leaves the queue as it is.
Exit_Undrained(w) ==
    /\ At(w, "idle") /\ stopping
    /\ Goto(w, "exited")
    /\ UNCHANGED <<executor, connection, operation_mutex, session, stop_requested,
                   next_task, lifetime>>

Exit(w) ==
    /\ At(w, "idle") /\ stopping /\ queue = <<>>
    /\ Goto(w, "exited")
    /\ UNCHANGED <<executor, connection, operation_mutex, session, stop_requested,
                   next_task, lifetime>>

Stopped(w) == step[w].task \in stop_requested
Staged(w, status, where) ==
    step' = [step EXCEPT ![w].staged = status, ![w].at = where]

StartStopped(w) ==
    /\ At(w, "dispatch") /\ Stopped(w)
    /\ Staged(w, "cancelled", "publish")
    /\ UNCHANGED <<executor, connection, operation_mutex, session, stop_requested,
                   next_task, lifetime>>

StartHandler(w) ==
    /\ At(w, "dispatch") /\ ~Stopped(w)
    /\ Goto(w, "handler")
    /\ UNCHANGED <<executor, connection, operation_mutex, session, stop_requested,
                   next_task, lifetime>>

\* A rejected progress response leaves no trace: only a handler that gives up ends there.
Progress(w) ==
    LET c == step[w].connection  t == step[w].timestamp  task == step[w].task IN
    /\ At(w, "handler")
    /\ PublishError(session[c], t, task, "progress") = "none"
    /\ session' = [session EXCEPT ![c] = publish(@, t, task, "progress")]
    /\ UNCHANGED <<executor, connection, operation_mutex, stop_requested, next_task,
                   lifetime, step>>

\* irrevocable_success, the last thing its handler does: from here on a stop is ignored.
ClaimTerminal(w) ==
    LET c == step[w].connection  t == step[w].timestamp IN
    /\ At(w, "handler")
    /\ Claimable(session[c], t, step[w].task)
    /\ session' = [session EXCEPT ![c] = claim_irrevocable_terminal(@, t)]
    /\ Staged(w, "irrevocable", "settle")
    /\ UNCHANGED <<executor, connection, operation_mutex, stop_requested, next_task, lifetime>>

\* Every other end of a handler; a refused claim stages one of these as well.
HandlerReturns(w) ==
    /\ At(w, "handler")
    /\ \E status \in {"answer", "cancelled"} : Staged(w, status, "settle")
    /\ UNCHANGED <<executor, connection, operation_mutex, session, stop_requested,
                   next_task, lifetime>>

Settle(w) ==
    /\ At(w, "settle")
    /\ Staged(w, IF Stopped(w) /\ step[w].staged # "irrevocable"
                 THEN "cancelled" ELSE step[w].staged, "publish")
    /\ UNCHANGED <<executor, connection, operation_mutex, session, stop_requested,
                   next_task, lifetime>>

\* What a refused publish comes to: disposition_for.
Disposition(error) == IF error = "queue_full" THEN "retry" ELSE "close"

PublishTerminal(w) ==
    LET c == step[w].connection  t == step[w].timestamp  task == step[w].task
        error == PublishError(session[c], t, task, step[w].staged)
    IN
    /\ At(w, "publish")
    /\ \/ /\ error = "none"
          /\ session' = [session EXCEPT ![c] = publish(@, t, task, step[w].staged)]
          /\ step' = [step EXCEPT ![w].outcome = "published", ![w].at = "finish"]
       \/ /\ error = "cancellation_response_required"
          /\ Staged(w, "cancelled", "publish")
          /\ UNCHANGED session
       \/ /\ error \in {"queue_full", "rejected"}
          /\ step' = [step EXCEPT ![w].outcome = Disposition(error), ![w].at = "finish"]
          /\ UNCHANGED session
    /\ UNCHANGED <<executor, connection, operation_mutex, stop_requested, next_task, lifetime>>

Open(c) == connection[c].accepting /\ ~connection[c].close_required

\* The response a worker could not publish, as Finish leaves it.
Retained(w) ==
    IF Stopped(w) /\ Open(step[w].connection) /\ step[w].staged # "irrevocable"
    THEN "cancelled" ELSE step[w].staged

CompletionForbidden(w) == stopping \/ ~Open(step[w].connection)
MustClose(w) ==
    \/ step[w].outcome = "close"
    \/ /\ ~CompletionForbidden(w)
       /\ step[w].outcome = "retry"
       /\ count.completed >= max_pending_responses

\* Mutant: a response is retained for a connection that stopped meanwhile.
FinishRetain_Closed(w) ==
    LET i == step[w].slot IN
    /\ At(w, "finish")
    /\ step[w].outcome = "retry" /\ ~MustClose(w)
    /\ slot' = [slot EXCEPT ![i].state = "completed", ![i].pending = Retained(w)]
    /\ count' = Moved("running", "completed")
    /\ Become(w, Idle)
    /\ UNCHANGED <<queue, connection, operation_mutex, session, stop_requested,
                   next_task, lifetime>>

FinishRetain(w) ==
    LET i == step[w].slot IN
    /\ At(w, "finish")
    /\ step[w].outcome = "retry" /\ ~MustClose(w) /\ ~CompletionForbidden(w)
    /\ slot' = [slot EXCEPT ![i].state = "completed", ![i].pending = Retained(w)]
    /\ count' = Moved("running", "completed")
    /\ Become(w, Idle)
    /\ UNCHANGED <<queue, connection, operation_mutex, session, stop_requested,
                   next_task, lifetime>>

FinishRelease(w) ==
    LET c == step[w].connection IN
    /\ At(w, "finish")
    /\ MustClose(w) \/ step[w].outcome = "published" \/ CompletionForbidden(w)
    /\ Release(step[w].slot, {"running"})
    /\ \/ /\ MustClose(w)
          /\ connection' = [connection EXCEPT ![c] =
                               [accepting |-> FALSE, close_required |-> TRUE]]
          /\ Become(w, [Idle EXCEPT !.at = "force_close", !.connection = c])
       \/ /\ ~MustClose(w)
          /\ Become(w, Idle)
          /\ UNCHANGED connection
    /\ UNCHANGED <<queue, operation_mutex, session, stop_requested, next_task, lifetime>>

-----------------------------------------------------------------------------
(* Closing a connection *)

Stop(c) == connection' = [connection EXCEPT ![c].accepting = FALSE]

\* Whoever must close the connection and is not inside its operation mutex yet.
ForceClose(a) ==
    LET c == step[a].connection IN
    /\ At(a, "force_close")
    /\ Lock(a, c)
    /\ connection' = [connection EXCEPT ![c] = [accepting |-> FALSE, close_required |-> TRUE]]
    /\ Goto(a, "close_session")
    /\ UNCHANGED <<executor, session, stop_requested, next_task, lifetime>>

\* close, and shutdown of the connection owner, which then waits for its tasks.
Close(h, c) ==
    /\ At(h, "idle")
    /\ Lock(h, c)
    /\ Stop(c)
    /\ \E then \in {"idle", "await_idle"} :
          Become(h, [Idle EXCEPT !.at = "close_session", !.connection = c, !.then = then])
    /\ UNCHANGED <<executor, session, stop_requested, next_task, lifetime>>

Handoff(r) == [r EXCEPT !.at = "handoff", !.scan = Slots]

CloseSession(a) ==
    LET c == step[a].connection IN
    /\ At(a, "close_session")
    /\ session' = [session EXCEPT ![c] = close_locked(@)]
    /\ Unlock(c)
    /\ Become(a, Handoff(step[a]))
    /\ UNCHANGED <<executor, connection, stop_requested, next_task, lifetime>>

\* cancel_handoff, one index at a time outside the operation mutex; every caller passes all.
CancelHandoff(a) ==
    LET c == step[a].connection  i == Lowest(step[a].scan)  owned == i \in Owned(c) IN
    /\ At(a, "handoff")
    /\ stop_requested' = IF owned /\ step[a].raise
                         THEN stop_requested \cup {slot[i].task} ELSE stop_requested
    /\ IF owned /\ slot[i].state = "completed"
       THEN Release(i, {"completed"}) ELSE UNCHANGED <<slot, count>>
    /\ Become(a, IF step[a].scan # {i} THEN [step[a] EXCEPT !.scan = @ \ {i}]
                 ELSE IF step[a].then = "idle" THEN Idle
                 ELSE [Idle EXCEPT !.at = step[a].then, !.connection = c,
                                   !.registry = step[a].registry])
    /\ UNCHANGED <<queue, connection, operation_mutex, session, next_task, lifetime>>

ConnectionIdle(h) ==
    /\ At(h, "await_idle")
    /\ Owned(step[h].connection) = {}
    /\ Become(h, Idle)
    /\ UNCHANGED <<executor, connection, operation_mutex, session, stop_requested,
                   next_task, lifetime>>

-----------------------------------------------------------------------------
(* Sending, and the responses that wait for room *)

BeginSend(c) ==
    /\ Sendable(session[c])
    /\ session' = [session EXCEPT ![c] = begin_send(@)]
    /\ UNCHANGED <<executor, connection, operation_mutex, stop_requested, next_task,
                   lifetime, step>>

Retrying(c) == [Idle EXCEPT !.at = "retry", !.connection = c, !.scan = Slots]

\* Mutant: the retained responses are retried outside the operation mutex.
CompleteSend_Unlocked(h, c) ==
    /\ At(h, "idle")
    /\ operation_mutex[c] = Nobody
    /\ session[c].lease
    /\ session' = [session EXCEPT ![c] = complete_send(@)]
    /\ Become(h, Retrying(c))
    /\ UNCHANGED <<executor, connection, operation_mutex, stop_requested, next_task, lifetime>>

CompleteSend(h, c) ==
    /\ At(h, "idle")
    /\ Lock(h, c)
    /\ session[c].lease
    /\ session' = [session EXCEPT ![c] = complete_send(@)]
    /\ Become(h, Retrying(c))
    /\ UNCHANGED <<executor, connection, stop_requested, next_task, lifetime>>

RetryPending(h, c) ==
    /\ "retry" \in HostCalls
    /\ At(h, "idle")
    /\ Lock(h, c)
    /\ Become(h, Retrying(c))
    /\ UNCHANGED <<executor, connection, session, stop_requested, next_task, lifetime>>

Retryable(i, c) ==
    slot[i].state = "completed" /\ slot[i].connection = c /\ slot[i].pending # "none"

RetrySkip(h) ==
    /\ At(h, "retry") /\ step[h].scan # {}
    /\ LET i == Lowest(step[h].scan) IN
       /\ ~Retryable(i, step[h].connection)
       /\ step' = [step EXCEPT ![h].scan = @ \ {i}]
    /\ UNCHANGED <<executor, connection, operation_mutex, session, stop_requested,
                   next_task, lifetime>>

\* The response leaves its slot, and is published outside the executor mutex.
RetryTake(h) ==
    /\ At(h, "retry") /\ step[h].scan # {}
    /\ LET i == Lowest(step[h].scan) IN
       /\ Retryable(i, step[h].connection)
       /\ slot' = [slot EXCEPT ![i].pending = "none"]
       /\ Become(h, [step[h] EXCEPT !.at = "retry_publish", !.slot = i,
                         !.scan = @ \ {i}, !.staged = slot[i].pending,
                         !.timestamp = slot[i].timestamp, !.task = slot[i].task])
    /\ UNCHANGED <<queue, count, connection, operation_mutex, session, stop_requested,
                   next_task, lifetime>>

RetryPublish(h) ==
    LET c == step[h].connection  t == step[h].timestamp  task == step[h].task
        error == PublishError(session[c], t, task, step[h].staged)
    IN
    /\ At(h, "retry_publish")
    /\ \/ /\ error = "none"
          /\ session' = [session EXCEPT ![c] = publish(@, t, task, step[h].staged)]
          /\ step' = [step EXCEPT ![h].outcome = "published", ![h].at = "retry_settle"]
       \/ /\ error # "none"
          /\ step' = [step EXCEPT ![h].outcome = Disposition(error), ![h].at = "retry_settle"]
          /\ UNCHANGED session
    /\ UNCHANGED <<executor, connection, operation_mutex, stop_requested, next_task, lifetime>>

\* Mutant: a response that still finds no room is dropped with its slot.
RetrySettle_Dropped(h) ==
    LET i == step[h].slot  c == step[h].connection  outcome == step[h].outcome IN
    /\ At(h, "retry_settle")
    /\ Release(i, {"completed"})
    /\ connection' = IF outcome = "close"
                     THEN [connection EXCEPT ![c].close_required = TRUE] ELSE connection
    /\ Become(h, [Retrying(c) EXCEPT !.scan = step[h].scan,
                      !.must_close = step[h].must_close \/ outcome = "close"])
    /\ UNCHANGED <<queue, operation_mutex, session, stop_requested, next_task, lifetime>>

\* The slot is found again by its index alone.
RetrySettle(h) ==
    LET i == step[h].slot  c == step[h].connection  outcome == step[h].outcome IN
    /\ At(h, "retry_settle")
    /\ IF outcome = "retry"
       THEN slot' = [slot EXCEPT ![i].pending = step[h].staged] /\ UNCHANGED count
       ELSE Release(i, {"completed"})
    /\ connection' = IF outcome = "close"
                     THEN [connection EXCEPT ![c].close_required = TRUE] ELSE connection
    /\ Become(h, [Retrying(c) EXCEPT !.scan = step[h].scan,
                      !.must_close = step[h].must_close \/ outcome = "close"])
    /\ UNCHANGED <<queue, operation_mutex, session, stop_requested, next_task, lifetime>>

RetryDone(h) ==
    LET c == step[h].connection IN
    /\ At(h, "retry") /\ step[h].scan = {}
    /\ \/ /\ step[h].must_close
          /\ Stop(c)
          /\ Become(h, [Idle EXCEPT !.at = "close_session", !.connection = c])
          /\ UNCHANGED operation_mutex
       \/ /\ ~step[h].must_close
          /\ Unlock(c)
          /\ Become(h, Idle)
          /\ UNCHANGED connection
    /\ UNCHANGED <<executor, session, stop_requested, next_task, lifetime>>

\* fail_send closes the session before the connection stops accepting.
FailSend(h, c) ==
    /\ At(h, "idle")
    /\ Lock(h, c)
    /\ session[c].lease
    /\ session' = [session EXCEPT ![c] = close_locked(@)]
    /\ Become(h, [Idle EXCEPT !.at = "send_failed", !.connection = c])
    /\ UNCHANGED <<executor, connection, stop_requested, next_task, lifetime>>

StopAfterFailure(h) ==
    /\ At(h, "send_failed")
    /\ Stop(step[h].connection)
    /\ Unlock(step[h].connection)
    /\ Become(h, Handoff(step[h]))
    /\ UNCHANGED <<executor, session, stop_requested, next_task, lifetime>>

-----------------------------------------------------------------------------
(* Cancelling one command *)

RequestCancel(h, c, t) ==
    /\ "cancel" \in HostCalls
    /\ At(h, "idle")
    /\ Lock(h, c)
    /\ Cancellable(session[c], t)
    /\ session' = [session EXCEPT ![c] = request_cancel(@, t)]
    /\ Become(h, [Idle EXCEPT !.at = "find_target", !.connection = c, !.timestamp = t])
    /\ UNCHANGED <<executor, connection, stop_requested, next_task, lifetime>>

Targets(c, t) == {i \in Owned(c) : slot[i].timestamp = t}

\* Without a target nothing is left to do but release the operation mutex.
FindStopTarget(h) ==
    LET c == step[h].connection  targets == Targets(c, step[h].timestamp) IN
    /\ At(h, "find_target")
    /\ Unlock(c)
    /\ Become(h, IF targets = {} THEN Idle
                 ELSE [step[h] EXCEPT !.at = "raise_stop", !.slot = Lowest(targets),
                                      !.task = slot[Lowest(targets)].task])
    /\ UNCHANGED <<executor, connection, session, stop_requested, next_task, lifetime>>

RaiseStop(h) ==
    /\ At(h, "raise_stop")
    /\ stop_requested' = stop_requested \cup {step[h].task}
    /\ Goto(h, "replace")
    /\ UNCHANGED <<executor, connection, operation_mutex, session, next_task, lifetime>>

\* The whole critical section: PendingHeld excludes its branch that closes the session.
ReplaceCompleted(h) ==
    LET i == step[h].slot  c == step[h].connection IN
    /\ At(h, "replace")
    /\ operation_mutex[c] = Nobody
    /\ slot' = IF /\ slot[i].state = "completed" /\ slot[i].connection = c
                  /\ slot[i].task = step[h].task /\ slot[i].pending # "irrevocable"
               THEN [slot EXCEPT ![i].pending = "cancelled"] ELSE slot
    /\ Become(h, Idle)
    /\ UNCHANGED <<queue, count, connection, operation_mutex, session, stop_requested,
                   next_task, lifetime>>

-----------------------------------------------------------------------------
(* Shutting the executor down *)

ShutdownBegin(h) ==
    /\ At(h, "idle") /\ ~stopping
    /\ stopping' = TRUE
    /\ shutdown_stop_sources' = {slot[i].task : i \in Slots \ In("free")}
    /\ Become(h, [Idle EXCEPT !.at = "close_registry", !.registry = Connections])
    /\ UNCHANGED <<executor, connection, operation_mutex, session, stop_requested,
                   next_task, registry_close_complete>>

ShutdownJoin(h) ==
    /\ At(h, "idle") /\ stopping
    /\ Goto(h, "await_registry")
    /\ UNCHANGED <<executor, connection, operation_mutex, session, stop_requested,
                   next_task, lifetime>>

CloseRegistry(h) ==
    /\ At(h, "close_registry")
    /\ \E c \in step[h].registry :
          Become(h, [Idle EXCEPT !.at = "force_close", !.connection = c, !.raise = FALSE,
                         !.then = "close_registry", !.registry = step[h].registry \ {c}])
    /\ UNCHANGED <<executor, connection, operation_mutex, session, stop_requested,
                   next_task, lifetime>>

\* Mutant: only the thread that began the shutdown learns that the registry is closed.
RegistryClosed_Unreported(h) ==
    /\ At(h, "close_registry") /\ step[h].registry = {}
    /\ Become(h, [Idle EXCEPT !.at = "raise_stops"])
    /\ UNCHANGED <<executor, connection, operation_mutex, session, stop_requested,
                   next_task, lifetime>>

RegistryClosed(h) ==
    /\ At(h, "close_registry") /\ step[h].registry = {}
    /\ registry_close_complete' = TRUE
    /\ Become(h, [Idle EXCEPT !.at = "raise_stops"])
    /\ UNCHANGED <<executor, connection, operation_mutex, session, stop_requested,
                   next_task, stopping, shutdown_stop_sources>>

RaiseShutdownStops(h) ==
    /\ At(h, "raise_stops")
    /\ \/ \E task \in shutdown_stop_sources :
             /\ stop_requested' = stop_requested \cup {task}
             /\ shutdown_stop_sources' = shutdown_stop_sources \ {task}
             /\ UNCHANGED step
       \/ /\ shutdown_stop_sources = {}
          /\ Goto(h, "await_registry")
          /\ UNCHANGED <<stop_requested, shutdown_stop_sources>>
    /\ UNCHANGED <<executor, connection, operation_mutex, session, next_task, stopping,
                   registry_close_complete>>

ShutdownReturns(h) ==
    /\ At(h, "await_registry")
    /\ registry_close_complete
    /\ \A w \in Workers : At(w, "exited")
    /\ Become(h, Idle)
    /\ UNCHANGED <<executor, connection, operation_mutex, session, stop_requested,
                   next_task, lifetime>>

-----------------------------------------------------------------------------
Submitting(h) == SubmitAdmit(h) \/ SubmitRejected(h) \/ SubmitCommit(h) \/ SubmitRollback(h)
Working(w) ==
    \/ Take(w) \/ DropQueued(w) \/ Exit(w) \/ StartStopped(w) \/ StartHandler(w)
    \/ HandlerReturns(w) \/ Settle(w) \/ PublishTerminal(w)
    \/ FinishRetain(w) \/ FinishRelease(w)
Resending(h) == RetrySkip(h) \/ RetryTake(h) \/ RetryPublish(h) \/ RetrySettle(h) \/ RetryDone(h)
Closing(a) == CloseSession(a) \/ CancelHandoff(a)
Cancelling(h) == FindStopTarget(h) \/ RaiseStop(h)
ShuttingDown(h) ==
    \/ CloseRegistry(h) \/ RegistryClosed(h) \/ RaiseShutdownStops(h) \/ ShutdownReturns(h)

\* What an actor does on its own once it has begun; the rest are calls of the hosts.
Continue(a) ==
    \/ a \in Workers /\ Working(a)
    \/ a \in Hosts /\ (Submitting(a) \/ Resending(a) \/ Cancelling(a) \/ StopAfterFailure(a)
                        \/ ConnectionIdle(a) \/ ShuttingDown(a))
    \/ Closing(a)

Acquire(a) == ForceClose(a) \/ (a \in Hosts /\ ReplaceCompleted(a))

Call(h) ==
    \/ \E c \in Connections :
          \/ \E t \in Timestamps : SubmitReserve(h, c, t) \/ RequestCancel(h, c, t)
          \/ CompleteSend(h, c) \/ FailSend(h, c) \/ RetryPending(h, c) \/ Close(h, c)
    \/ ShutdownBegin(h) \/ ShutdownJoin(h)

Next ==
    \/ \E a \in Actors : Continue(a) \/ Acquire(a)
    \/ \E w \in Workers : Progress(w) \/ ClaimTerminal(w)
    \/ \E h \in Hosts : Call(h)
    \/ \E c \in Connections : BeginSend(c)

Spec == Init /\ [][Next]_vars

\* Threads keep running and handlers return; a thread that asks for an operation
\* mutex again and again gets it.
FairSpec ==
    /\ Spec
    /\ \A a \in Actors : WF_vars(Continue(a)) /\ SF_vars(Acquire(a))

\* The writer of every connection sends what is queued, and each send succeeds.
Delivery ==
    \A c \in Connections :
       /\ WF_vars(BeginSend(c))
       /\ SF_vars(\E h \in Hosts : CompleteSend(h, c))
SendingSpec == FairSpec /\ Delivery

-----------------------------------------------------------------------------
(* Properties *)

States == {"free", "reserved", "queued", "running", "completed"}
Pendings == {"none", "answer", "irrevocable", "cancelled"}

\* Type: every variable keeps its range, the slot records among them.
TypeOK ==
    /\ slot \in [Slots -> [state : States, connection : Connections \cup {NoConnection},
                           timestamp : Timestamps \cup {0}, task : Tasks \cup {NoTask},
                           pending : Pendings]]
    /\ queue \in Seq(Slots)
    /\ DOMAIN count = {"reserved", "queued", "running", "completed", "active"}
    /\ connection \in [Connections -> [accepting : BOOLEAN, close_required : BOOLEAN]]
    /\ operation_mutex \in [Connections -> Actors \cup {Nobody}]
    /\ stop_requested \subseteq Tasks /\ shutdown_stop_sources \subseteq Tasks
    /\ next_task \in 1..(MaxTasks + 1)
    /\ stopping \in BOOLEAN /\ registry_close_complete \in BOOLEAN
    /\ \A c \in Connections :
          /\ Len(session[c].outbound) <= max_queued_batches
          /\ session[c].lease => session[c].outbound # <<>>

\* The counters the limits are checked against agree with the slots whichever way a
\* task ended, and the ring holds each queued slot once (reserve, commit, run_worker,
\* retry_pending, cancel_handoff, release_slot_locked).
SlotAccounting ==
    /\ TypeOK
    /\ \A f \in {"reserved", "queued", "running", "completed"} : count[f] = Cardinality(In(f))
    /\ count.active = Cardinality(Slots \ In("free"))
    /\ count.queued + count.reserved <= max_queued_tasks
    /\ count.completed <= max_pending_responses
    /\ Len(queue) = count.queued
    /\ {queue[n] : n \in 1..Len(queue)} = In("queued")

\* A command that was admitted is never forgotten: while its connection is open, one
\* that has no terminal response queued belongs to a task, or to the submit that is
\* about to commit it (submit, run_worker, retry_pending).
AnsweredOrOwned ==
    \A c \in Connections, t \in Timestamps :
       LET e == session[c].entries[t] IN
       (~stopping /\ Open(c) /\ ~session[c].closed /\ e.task # NoTask /\ ~e.terminal_queued)
       => \E i \in Owned(c) : slot[i].task = e.task /\ slot[i].timestamp = t

\* Cancellation wins: once a cancel was accepted, the only terminal its command can
\* queue is a cancelled one, whichever of the handler, its worker and a retry of the
\* retained response comes first (request_cancel, claim, commit_staged_terminal, retry).
CancelWins ==
    \A c \in Connections : \A n \in 1..Len(session[c].outbound) :
       LET b == session[c].outbound[n] IN
       (session[c].entries[b.timestamp].task = b.task
        /\ session[c].entries[b.timestamp].cancel_requested)
       => b.status \in {"progress", "cancelled"}

BeingClosed(c) ==
    \E a \in Actors : step[a].connection = c
        /\ step[a].at \in {"force_close", "close_session", "send_failed", "handoff"}

\* A connection that stopped and is not being closed any more retains no response, and
\* each task it still has was told to stop or is about to be by the executor's shutdown,
\* even one that finished while the scan of cancel_handoff was under way.
ClosedIsDrained ==
    \A c \in Connections : (~connection[c].accepting /\ ~BeingClosed(c)) =>
        \A i \in Owned(c) : /\ slot[i].state \in {"queued", "running"}
                            /\ slot[i].task \in stop_requested \cup shutdown_stop_sources

\* Outside retry_pending a completed slot holds its response, and between taking a
\* response and settling it the slot stays that task's: retry_pending, which goes back
\* to the slot by index, and request_cancel rely on it.
PendingHeld ==
    /\ \A i \in In("completed") :
          slot[i].pending = "none" => operation_mutex[slot[i].connection] # Nobody
    /\ \A h \in Hosts : step[h].at \in {"retry_publish", "retry_settle"} =>
          LET s == slot[step[h].slot] IN s.state = "completed" /\ s.task = step[h].task

\* The admission a submit takes back is still there to be taken back, so its branch
\* that closes the session is never needed (submit, rollback).
RollbackSucceeds ==
    \A h \in Hosts : At(h, "commit") =>
        LET s == session[step[h].connection]  e == s.entries[step[h].timestamp] IN
        ~s.closed /\ e.task = step[h].task /\ ~e.terminal_queued

\* release_reservation notifies nobody, so a thread in wait_connection_idle must never
\* be waiting for a reserved slot.
NoSilentRelease ==
    \A h \in Hosts : At(h, "await_idle") =>
        \A i \in Owned(step[h].connection) : slot[i].state # "reserved"

\* What a call left to take another mutex is what it finds when it comes back to it, and
\* who sleeps is woken by what he waits for (submit, retry_pending, request_cancel,
\* release_reservation, wait_connection_idle).
FoundAsLeft == PendingHeld /\ RollbackSucceeds /\ NoSilentRelease

-----------------------------------------------------------------------------
(* Why the safety properties hold: an inductive invariant *)

Submits == {"admit", "commit"}
Runs == {"dispatch", "handler", "settle", "publish", "finish"}
Retries == {"retry_publish", "retry_settle"}
Closes == {"force_close", "close_session", "handoff"}

\* Where an actor has a slot in hand, and where it is inside the operation mutex.
Holds == Submits \cup Runs \cup Retries
Locked == Submits \cup Retries \cup {"retry", "close_session", "send_failed", "find_target"}
Unconnected == {"idle", "exited", "close_registry", "raise_stops", "await_registry"}
Places == Holds \cup Locked \cup Closes \cup Unconnected
            \cup {"await_idle", "raise_stop", "replace"}

Steps == [at : Places, connection : Connections \cup {NoConnection},
          timestamp : Timestamps \cup {0}, slot : Slots \cup {NoSlot},
          task : Tasks \cup {NoTask}, staged : Pendings,
          outcome : {"none", "published", "retry", "close"}, scan : SUBSET Slots,
          raise : BOOLEAN, must_close : BOOLEAN,
          then : {"idle", "await_idle", "close_registry"}, registry : SUBSET Connections]
Counters == {"reserved", "queued", "running", "completed", "active"}
Entries == [task : Tasks \cup {NoTask}, cancel_requested : BOOLEAN,
            terminal_queued : BOOLEAN, irrevocable_terminal_claimed : BOOLEAN]
Batches == [timestamp : Timestamps, task : Tasks, status : {"progress"} \cup Pendings]
Sessions == [closed : BOOLEAN, entries : [Timestamps -> Entries],
             outbound : Seq(Batches), lease : BOOLEAN]

\* What a step has in hand by where it is.
StepTyped(r) ==
    /\ r.at \notin Unconnected => r.connection \in Connections
    /\ r.at \in Holds \cup {"find_target", "raise_stop", "replace"} => r.timestamp \in Timestamps
    /\ r.at \in Holds \cup {"raise_stop", "replace"} => r.slot \in Slots /\ r.task \in Tasks
    /\ r.at \in Retries \cup {"settle", "publish", "finish"} => r.staged # "none"
    /\ r.at = "handoff" => r.scan # {}

TypeInv ==
    /\ TypeOK
    /\ count \in [Counters -> Int] /\ session \in [Connections -> Sessions]
    /\ step \in [Actors -> Steps] /\ \A a \in Actors : StepTyped(step[a])

\* Who is inside an operation mutex holds it, and only inside it is a session closed:
\* no response is retried and no admission taken back on a closed one.
LockInv ==
    /\ \A a \in Actors : LET c == step[a].connection IN
          /\ step[a].at \in Locked => operation_mutex[c] = a
          /\ step[a].at \in Retries \cup {"retry", "commit"} => ~session[c].closed
          /\ step[a].at \in {"send_failed", "handoff", "await_idle"} => session[c].closed
    /\ \A c \in Connections : session[c].closed =>
          /\ session[c] = close_locked(session[c])
          /\ \/ ~connection[c].accepting
             \/ \E a \in Actors : step[a].at = "send_failed" /\ step[a].connection = c

StateHeld(at) == IF at \in Submits THEN "reserved"
                 ELSE IF at \in Runs THEN "running" ELSE "completed"

InHand(r, s) ==
    /\ s.state = StateHeld(r.at) /\ s.connection = r.connection
    /\ s.timestamp = r.timestamp /\ s.task = r.task
    /\ r.at \in Retries => s.pending = "none"

\* A slot is in one actor's hands at most and is what that actor took it for, and a
\* reserved slot or a response that left its slot is in somebody's.
SlotInv ==
    /\ \A a \in Actors : step[a].at \in Holds => InHand(step[a], slot[step[a].slot])
    /\ \A a, b \in Actors : (/\ step[a].at \in Holds /\ step[b].at \in Holds
                             /\ step[a].slot = step[b].slot) => a = b
    /\ \A i \in Slots :
          /\ slot[i].state = "free" => slot[i] = FreeSlot
          /\ slot[i].state # "free" =>
                /\ slot[i].connection \in Connections /\ slot[i].timestamp \in Timestamps
                /\ slot[i].task \in Tasks /\ slot[i].task < next_task
          /\ slot[i].state = "reserved" =>
                \E a \in Actors : step[a].at \in Submits /\ step[a].slot = i
          /\ slot[i].state = "completed" /\ slot[i].pending = "none" =>
                \E a \in Actors : step[a].at \in Retries /\ step[a].slot = i
    /\ \A i, j \in Slots : (/\ slot[i].state # "free" /\ slot[j].state # "free"
                            /\ slot[i].task = slot[j].task) => i = j

CountInv ==
    /\ SlotAccounting
    /\ \A m, n \in 1..Len(queue) : queue[m] = queue[n] => m = n

Carried(s) == {s.outbound[n] : n \in 1..Len(s.outbound)}

\* The entries of a session and the batches it carries agree, and belong to tasks that
\* were admitted.
SessionSound(s) ==
    /\ \A t \in Timestamps : s.entries[t].task < next_task
    /\ \A b \in Carried(s) :
          /\ b.task < next_task
          /\ s.entries[b.timestamp].task = b.task =>
                /\ Terminal(b.status) => s.entries[b.timestamp].terminal_queued
                /\ s.entries[b.timestamp].cancel_requested => b.status \in {"progress", "cancelled"}

\* What an actor relies on in its session.
StepAnswered(r) ==
    LET e == session[r.connection].entries[r.timestamp] IN
    /\ r.at = "admit" => \A c \in Connections :
          /\ \A t \in Timestamps : session[c].entries[t].task # r.task
          /\ \A b \in Carried(session[c]) : b.task # r.task
    /\ r.at = "commit" => e.task = r.task /\ ~e.terminal_queued
    /\ r.at \in {"finish", "retry_settle"} /\ r.outcome = "published" =>
          (e.task = r.task => e.terminal_queued)
    /\ r.at \in {"finish", "retry_settle"} => r.outcome # "none"

SessionInv ==
    /\ \A c \in Connections : SessionSound(session[c])
    /\ \A a \in Actors : StepAnswered(step[a])
    /\ AnsweredOrOwned

Stoppable == stop_requested \cup shutdown_stop_sources

\* What cancel_handoff has passed is told to stop and retains nothing any more.
CloseInv ==
    /\ \A c \in Connections : session[c].closed =>
          \A i \in Owned(c) : slot[i].state # "reserved"
    /\ \A a \in Actors :
          /\ step[a].at \in {"close_registry", "raise_stops"} => stopping
          /\ step[a].at \in Closes \cup {"send_failed"}
                /\ (~step[a].raise \/ step[a].then = "close_registry") => stopping
          /\ step[a].at \in {"close_session", "handoff"}
                => ~connection[step[a].connection].accepting
          /\ step[a].at = "handoff" =>
                \A i \in Owned(step[a].connection) \ step[a].scan :
                   slot[i].state \in {"queued", "running"} /\ slot[i].task \in Stoppable
    /\ stopping => \A i \in Slots \ In("free") : slot[i].task \in Stoppable
    /\ ClosedIsDrained

ExecutorInv == TypeInv /\ LockInv /\ SlotInv /\ CountInv /\ SessionInv /\ CloseInv

-----------------------------------------------------------------------------
(* Liveness *)

\* Shutting the connection owner down waits for its tasks, and they end.
ConnectionDrains == \A h \in Hosts : At(h, "await_idle") ~> At(h, "idle")

\* Whoever called shutdown returns.
ShutdownCompletes == \A h \in Hosts : At(h, "await_registry") ~> At(h, "idle")

\* SERVICE_TRIGGER_EXECUTOR.md: retained responses are retried "after capacity is
\* released", so none is held for ever while its connection sends.
RetainedIsSent ==
    \A i \in Slots : slot[i].state = "completed" ~> slot[i].state # "completed"
====
