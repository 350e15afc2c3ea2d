---- MODULE RuntimeTaskOwner ----
(***************************************************************************)
(* The service-lifetime owner of background tasks                          *)
(* (src/service/runtime/RuntimeTaskOwner.cpp). Each action is one critical *)
(* section of Impl::mutex_, one hand-over on a job's gate, one delivery of *)
(* a stop token outside every lock, or one join of a worker thread. A job  *)
(* is identified by its generation. Rejected calls change nothing and are  *)
(* not actions.                                                            *)
(***************************************************************************)
EXTENDS Integers, FiniteSets

CONSTANTS
    Configs,        \* config ids
    Callers,        \* threads that call the public operations
    MaxGeneration,  \* the largest value of the generation counter's integer type
    max_configs,    \* RuntimeTaskLimits::max_configs
    MaxReports,     \* bound: progress reports of one generation
    BackendKinds,   \* subset of {"injected", "prepared"}
    ClockReadings,  \* what unix_timestamp_ms may return: it never exceeds JsonSafeMax
    JsonSafeMax,    \* json_safe_integer_max
    NoConfig        \* the config of a generation not handed out yet

JobIds == 1..MaxGeneration
NoJob == 0
Actors == Callers \cup JobIds

ASSUME ConstantsAssumption ==
    /\ MaxGeneration \in Nat \ {0}
    /\ max_configs \in Nat \ {0}
    /\ MaxReports \in Nat
    /\ JsonSafeMax \in Nat \ {0}
    /\ ClockReadings \subseteq 0..JsonSafeMax /\ ClockReadings # {}
    /\ BackendKinds \subseteq {"injected", "prepared"}
    /\ NoConfig \notin Configs
    /\ Callers \cap Int = {}

VARIABLES
    accepting, stop_all_reserved, active_reservations, next_job_generation,
    jobs,           \* the keys of jobs_
    current, reserved, stop_reserved,   \* ConfigSlot, by config
    job,            \* Job, by generation
    call,           \* what each caller is in the middle of
    sweeping,       \* actors inside initiate_shutdown's loop
    target,         \* the stop source each of them copied and has yet to raise
    drain_mutex     \* who holds drain_mutex_: nobody or one caller

owner == <<accepting, stop_all_reserved, active_reservations, next_job_generation>>
slots == <<jobs, current, reserved, stop_reserved>>
sweep == <<sweeping, target>>
vars == <<owner, slots, job, call, sweep, drain_mutex>>

-----------------------------------------------------------------------------
\* next_timestamp: strictly above `previous` until the counter saturates.
NextTimestamp(previous, now) ==
    IF now > previous THEN now
    ELSE IF previous < JsonSafeMax THEN previous + 1 ELSE JsonSafeMax

Unborn ==
    [config_id |-> NoConfig, phase |-> "completed", timestamp |-> 0, sent |-> 0,
     shown |-> 0, pending |-> 0, stop |-> FALSE, gate |-> "pending", worker |-> "none"]

\* `captured` are the jobs of a stop reservation (later: those left to deliver
\* to), `running` its transition_running items, `stamp` their commit_timestamp.
Idle ==
    [at |-> "idle", config |-> NoConfig, job |-> NoJob, captured |-> {},
     running |-> {}, stamp |-> [g \in JobIds |-> 0]]

Init ==
    /\ accepting = TRUE
    /\ stop_all_reserved = FALSE
    /\ active_reservations = 0
    /\ next_job_generation = 1
    /\ jobs = {}
    /\ current = [k \in Configs |-> NoJob]
    /\ reserved = [k \in Configs |-> NoJob]
    /\ stop_reserved = [k \in Configs |-> FALSE]
    /\ job = [g \in JobIds |-> Unborn]
    /\ call = [c \in Callers |-> Idle]
    /\ sweeping = {}
    /\ target = [a \in Actors |-> NoJob]
    /\ drain_mutex = {}

At(c, where) == call[c].at = where /\ c \notin sweeping
Goto(c, where) == call' = [call EXCEPT ![c].at = where]
Return(c) == call' = [call EXCEPT ![c] = Idle]

\* std::thread::joinable, and a thread function that has returned.
Joinable(g) == job[g].worker \notin {"none", "joined"}
Exited(g) == job[g].worker = "exited"

Stopping(j, now) ==
    [j EXCEPT !.phase = "stopping", !.timestamp = NextTimestamp(@, now)]
\* Mutant: the token is raised and the phase assignment is missing.
StoppingAt_PhaseKept(j, timestamp) == [j EXCEPT !.timestamp = timestamp, !.pending = 0]
StoppingAt(j, timestamp) ==
    [j EXCEPT !.phase = "stopping", !.timestamp = timestamp, !.pending = 0]
discard_pending_progress(j) == [j EXCEPT !.pending = 0]
\* Mutant: an abort discards what it should publish.
publish_pending_progress_Discards(j, now) == [j EXCEPT !.pending = 0]
publish_pending_progress(j, now) ==
    IF j.pending = 0 THEN j
    ELSE [j EXCEPT !.shown = j.pending, !.pending = 0,
                   !.timestamp = NextTimestamp(@, now)]

-----------------------------------------------------------------------------
(* Starting a task *)

\* Mutants of StartAdmissible: a reserved slot is free; the limit is off by one; a
\* stopped owner admits.
StartAdmissible_OverReserved(k) ==
    /\ accepting
    /\ ~stop_all_reserved
    /\ ~stop_reserved[k]
    /\ current[k] # NoJob => job[current[k]].phase = "completed"
    /\ k \notin jobs => Cardinality(jobs) < max_configs
StartAdmissible_OverCapacity(k) ==
    /\ accepting
    /\ ~stop_all_reserved
    /\ reserved[k] = NoJob
    /\ ~stop_reserved[k]
    /\ current[k] # NoJob => job[current[k]].phase = "completed"
    /\ k \notin jobs => Cardinality(jobs) <= max_configs
StartAdmissible_AfterShutdown(k) ==
    /\ ~stop_all_reserved
    /\ reserved[k] = NoJob
    /\ ~stop_reserved[k]
    /\ current[k] # NoJob => job[current[k]].phase = "completed"
    /\ k \notin jobs => Cardinality(jobs) < max_configs

\* What prepare_start checks under the mutex before it touches anything.
StartAdmissible(k) ==
    /\ accepting
    /\ ~stop_all_reserved
    /\ reserved[k] = NoJob
    /\ ~stop_reserved[k]
    /\ current[k] # NoJob => job[current[k]].phase = "completed"
    /\ k \notin jobs => Cardinality(jobs) < max_configs

\* The completed predecessor's thread is joined under the mutex.
ReapPrevious(k) ==
    IF current[k] # NoJob /\ Joinable(current[k])
    THEN [job EXCEPT ![current[k]].worker = "joined"] ELSE job

NewJob(k, now, worker) ==
    [Unborn EXCEPT !.config_id = k, !.worker = worker,
        !.timestamp = NextTimestamp(
            IF current[k] = NoJob THEN 0 ELSE job[current[k]].timestamp, now)]

\* Mutant: the increment is not taken in the width of the counter.
TakeGeneration_NoWrap ==
    /\ next_job_generation # 0
    /\ next_job_generation' = next_job_generation + 1
\* uint64_t increment: past the last generation it wraps to 0.
TakeGeneration ==
    /\ next_job_generation # 0
    /\ next_job_generation' = (next_job_generation + 1) % (MaxGeneration + 1)

\* A worker of an injected backend waits at its gate at once, a prepared one
\* runs prepare() first and the caller waits for it with the mutex released.
PrepareStart(c, k, kind, now) ==
    /\ At(c, "idle")
    /\ StartAdmissible(k)
    /\ TakeGeneration
    /\ jobs' = jobs \cup {k}
    /\ reserved' = [reserved EXCEPT ![k] = next_job_generation]
    /\ active_reservations' = active_reservations + 1
    /\ job' = [ReapPrevious(k) EXCEPT ![next_job_generation] =
                 NewJob(k, now, IF kind = "prepared" THEN "preparing" ELSE "gated")]
    /\ call' = [call EXCEPT ![c] = [Idle EXCEPT
                 !.at = IF kind = "prepared" THEN "await_preparation" ELSE "start_held",
                 !.config = k, !.job = next_job_generation]]
    /\ UNCHANGED <<accepting, stop_all_reserved, current, stop_reserved, sweep, drain_mutex>>

\* The counter is exhausted: the call fails after it joined the predecessor.
StartExhausted(c, k) ==
    /\ At(c, "idle")
    /\ StartAdmissible(k)
    /\ next_job_generation = 0
    /\ job' = ReapPrevious(k)
    /\ UNCHANGED <<owner, slots, call, sweep, drain_mutex>>

\* std::thread cannot be created. Only start() publishes the failed generation;
\* prepare_start leaves the previous one, or no slot at all.
ThreadStartFailed(c, k, publish, now, later) ==
    /\ At(c, "idle")
    /\ StartAdmissible(k)
    /\ TakeGeneration
    /\ job' = [ReapPrevious(k) EXCEPT ![next_job_generation] =
                 [NewJob(k, now, "none") EXCEPT !.timestamp = NextTimestamp(@, later)]]
    /\ jobs' = IF publish THEN jobs \cup {k} ELSE jobs
    /\ current' = IF publish THEN [current EXCEPT ![k] = next_job_generation] ELSE current
    /\ UNCHANGED <<accepting, stop_all_reserved, active_reservations, reserved,
                   stop_reserved, call, sweep, drain_mutex>>

PreparationSucceeded(c) ==
    /\ At(c, "await_preparation")
    /\ job[call[c].job].worker = "gated"
    /\ Goto(c, "start_held")
    /\ UNCHANGED <<owner, slots, job, sweep, drain_mutex>>

\* The slot and the reservation count are given back before the thread is joined.
PreparationFailed(c) ==
    LET k == call[c].config IN
    /\ At(c, "await_preparation")
    /\ Exited(call[c].job)
    /\ reserved' = [reserved EXCEPT ![k] = NoJob]
    /\ active_reservations' = active_reservations - 1
    /\ jobs' = IF current[k] = NoJob THEN jobs \ {k} ELSE jobs
    /\ Goto(c, "join_failed")
    /\ UNCHANGED <<accepting, stop_all_reserved, next_job_generation, current,
                   stop_reserved, job, sweep, drain_mutex>>

JoinFailed(c) ==
    /\ At(c, "join_failed")
    /\ Exited(call[c].job)
    /\ job' = [job EXCEPT ![call[c].job].worker = "joined"]
    /\ Return(c)
    /\ UNCHANGED <<owner, slots, sweep, drain_mutex>>

\* commit_reservation under the mutex; a closed owner stops the job it installs.
CommitStart(c, now) ==
    LET k == call[c].config  g == call[c].job IN
    /\ At(c, "start_held")
    /\ current' = [current EXCEPT ![k] = g]
    /\ reserved' = [reserved EXCEPT ![k] = NoJob]
    /\ active_reservations' = active_reservations - 1
    /\ job' = [job EXCEPT ![g] = IF accepting THEN [@ EXCEPT !.phase = "running"]
                                 ELSE Stopping(@, now)]
    /\ Goto(c, IF accepting THEN "release_gate" ELSE "stop_before_release")
    /\ UNCHANGED <<accepting, stop_all_reserved, next_job_generation, jobs,
                   stop_reserved, sweep, drain_mutex>>

StopBeforeRelease(c) ==
    /\ At(c, "stop_before_release")
    /\ job' = [job EXCEPT ![call[c].job].stop = TRUE]
    /\ Goto(c, "release_gate")
    /\ UNCHANGED <<owner, slots, sweep, drain_mutex>>

ReleaseGate(c) ==
    /\ At(c, "release_gate")
    /\ job' = [job EXCEPT ![call[c].job].gate = "committed"]
    /\ Return(c)
    /\ UNCHANGED <<owner, slots, sweep, drain_mutex>>

\* cancel_reservation, up to the join and after it.
CancelStart(c) ==
    /\ At(c, "start_held")
    /\ job' = [job EXCEPT ![call[c].job].gate = "cancelled"]
    /\ Goto(c, "join_cancelled")
    /\ UNCHANGED <<owner, slots, sweep, drain_mutex>>

JoinCancelled(c) ==
    LET k == call[c].config IN
    /\ At(c, "join_cancelled")
    /\ Exited(call[c].job)
    /\ job' = [job EXCEPT ![call[c].job].worker = "joined"]
    /\ reserved' = [reserved EXCEPT ![k] = NoJob]
    /\ jobs' = IF current[k] = NoJob THEN jobs \ {k} ELSE jobs
    /\ active_reservations' = active_reservations - 1
    /\ Return(c)
    /\ UNCHANGED <<accepting, stop_all_reserved, next_job_generation, current,
                   stop_reserved, sweep, drain_mutex>>

-----------------------------------------------------------------------------
(* The worker thread of a generation *)

Busy(g) == g \in sweeping   \* its backend is inside shutdown()

Prepare(g, ok) ==
    /\ job[g].worker = "preparing" /\ ~Busy(g)
    /\ job' = [job EXCEPT ![g].worker = IF ok THEN "gated" ELSE "exited"]
    /\ UNCHANGED <<owner, slots, call, sweep, drain_mutex>>

PassGate(g) ==
    /\ job[g].worker = "gated"
    /\ job[g].gate # "pending"
    /\ job' = [job EXCEPT ![g].worker =
                 IF job[g].gate = "committed" THEN "running" ELSE "exited"]
    /\ UNCHANGED <<owner, slots, call, sweep, drain_mutex>>

\* Mutant: progress is never held back behind a prepared stop reply.
Staged_Never(g) == FALSE

\* report(): staged while a stop reply of this job is prepared, else published.
Staged(g) ==
    current[job[g].config_id] = g /\ (stop_reserved[job[g].config_id] \/ stop_all_reserved)

\* A report is its number among those the generation was told are accepted.
Stage(j) == [j EXCEPT !.sent = j.sent + 1, !.pending = j.sent + 1]
Publish(j, now) ==
    [j EXCEPT !.sent = j.sent + 1, !.shown = j.sent + 1,
              !.timestamp = NextTimestamp(j.timestamp, now)]

Report(g, now) ==
    /\ job[g].worker = "running" /\ ~Busy(g)
    /\ job[g].sent < MaxReports
    /\ job[g].phase # "completed"
    /\ job' = [job EXCEPT ![g] =
                 IF Staged(g) THEN Stage(@) ELSE Publish(@, now)]
    /\ UNCHANGED <<owner, slots, call, sweep, drain_mutex>>

\* The backend returns or throws: the terminal snapshot is published.
Terminal(j, now) ==
    [j EXCEPT !.phase = "completed", !.worker = "exited", !.pending = 0,
              !.timestamp = NextTimestamp(j.timestamp, now)]

Finish(g, now) ==
    /\ job[g].worker = "running" /\ ~Busy(g)
    /\ job' = [job EXCEPT ![g] = Terminal(@, now)]
    /\ UNCHANGED <<owner, slots, call, sweep, drain_mutex>>

-----------------------------------------------------------------------------
(* Stopping one config and stopping all of them *)

\* A reservation over `captured`: its running items carry the stamp of the reply.
Capture(c, where, k, captured, now) ==
    LET running == {g \in captured : job[g].phase = "running"} IN
    call' = [call EXCEPT ![c] = [Idle EXCEPT
        !.at = where, !.config = k, !.captured = captured, !.running = running,
        !.stamp = [g \in JobIds |->
            IF g \in running THEN NextTimestamp(job[g].timestamp, now) ELSE 0]]]

PrepareStop(c, k, now) ==
    /\ At(c, "idle")
    /\ accepting
    /\ ~stop_all_reserved
    /\ reserved[k] = NoJob
    /\ ~stop_reserved[k]
    /\ k \notin jobs => Cardinality(jobs) < max_configs
    /\ jobs' = jobs \cup {k}
    /\ stop_reserved' = [stop_reserved EXCEPT ![k] = TRUE]
    /\ active_reservations' = active_reservations + 1
    /\ Capture(c, "stop_held", k, {current[k]} \ {NoJob}, now)
    /\ UNCHANGED <<accepting, stop_all_reserved, next_job_generation, current,
                   reserved, job, sweep, drain_mutex>>

PrepareStopAll(c, now) ==
    /\ At(c, "idle")
    /\ accepting
    /\ ~stop_all_reserved
    /\ active_reservations = 0
    /\ stop_all_reserved' = TRUE
    /\ active_reservations' = 1
    /\ Capture(c, "stop_all_held", NoConfig, {current[k] : k \in jobs} \ {NoJob}, now)
    /\ UNCHANGED <<accepting, next_job_generation, slots, job, sweep, drain_mutex>>

SameGeneration(g) == current[job[g].config_id] = g

\* The captured items of c that its commit moves from running to stopping.
Transitions(c) ==
    {g \in call[c].running : SameGeneration(g) /\ job[g].phase = "running"}

CommittedJob(c, g, now) ==
    IF g \in Transitions(c) THEN StoppingAt(job[g], call[c].stamp[g])
    ELSE IF SameGeneration(g) /\ g \notin call[c].running /\ job[g].phase = "stopping"
    THEN publish_pending_progress(job[g], now)
    ELSE discard_pending_progress(job[g])

AbortedJob(g, now) ==
    IF SameGeneration(g) /\ job[g].phase # "completed"
    THEN publish_pending_progress(job[g], now)
    ELSE discard_pending_progress(job[g])

\* Mutant: the commit linearises its transitions and forgets to deliver them.
Resolved_NoDelivery(c, commit, now) ==
    /\ job' = [g \in JobIds |->
                 IF g \notin call[c].captured THEN job[g]
                 ELSE IF commit THEN CommittedJob(c, g, now) ELSE AbortedJob(g, now)]
    /\ Return(c)

\* What commit leaves: the tokens still to be raised, or nothing to do.
Resolved(c, commit, now) ==
    /\ job' = [g \in JobIds |->
                 IF g \notin call[c].captured THEN job[g]
                 ELSE IF commit THEN CommittedJob(c, g, now) ELSE AbortedJob(g, now)]
    /\ call' = [call EXCEPT ![c] =
                  IF commit /\ Transitions(c) # {}
                  THEN [Idle EXCEPT !.at = "deliver", !.captured = Transitions(c)]
                  ELSE Idle]

\* commit_stop_reservation / abort_stop_reservation with resolve_stop_gate_locked.
ResolveStop(c, commit, now) ==
    LET k == call[c].config IN
    /\ At(c, "stop_held")
    /\ Resolved(c, commit, now)
    /\ stop_reserved' = [stop_reserved EXCEPT ![k] = FALSE]
    /\ jobs' = IF current[k] = NoJob /\ reserved[k] = NoJob THEN jobs \ {k} ELSE jobs
    /\ active_reservations' = active_reservations - 1
    /\ UNCHANGED <<accepting, stop_all_reserved, next_job_generation, current,
                   reserved, sweep, drain_mutex>>

ResolveStopAll(c, commit, now) ==
    /\ At(c, "stop_all_held")
    /\ Resolved(c, commit, now)
    /\ stop_all_reserved' = FALSE
    /\ active_reservations' = active_reservations - 1
    /\ UNCHANGED <<accepting, next_job_generation, slots, sweep, drain_mutex>>

\* request_stop once the owner is stopped: no reservation is taken.
StopAfterShutdown(c, k, now) ==
    LET g == current[k] IN
    /\ At(c, "idle")
    /\ ~accepting
    /\ ~stop_all_reserved
    /\ g # NoJob
    /\ ~stop_reserved[k]
    /\ job[g].phase = "running"
    /\ job' = [job EXCEPT ![g] = Stopping(@, now)]
    /\ call' = [call EXCEPT ![c] = [Idle EXCEPT !.at = "deliver", !.captured = {g}]]
    /\ UNCHANGED <<owner, slots, sweep, drain_mutex>>

\* source.request_stop(), outside every lock. Callbacks run on this thread and
\* may call the owner again; such calls are those of the other callers, and
\* shutdown() from here is NestedShutdown.
Delivered(r, g) == [r EXCEPT !.captured = r.captured \ {g}]

Deliver(c, g) ==
    /\ At(c, "deliver")
    /\ g \in call[c].captured
    /\ job' = [job EXCEPT ![g].stop = TRUE]
    /\ call' = [call EXCEPT ![c] =
                  IF @.captured = {g} THEN Idle ELSE Delivered(@, g)]
    /\ UNCHANGED <<owner, slots, sweep, drain_mutex>>

-----------------------------------------------------------------------------
(* Shutting down *)

\* initiate_shutdown closes admission, then looks for tokens to raise.
Initiate(a) ==
    /\ accepting' = FALSE
    /\ sweeping' = sweeping \cup {a}
    /\ UNCHANGED <<stop_all_reserved, active_reservations, next_job_generation,
                   slots, job, target, drain_mutex>>

\* An external caller goes on to drain.
Shutdown(c) ==
    /\ At(c, "idle")
    /\ Initiate(c)
    /\ Goto(c, "shutdown")

\* From a stop callback, or from a worker's own backend: initiation only.
NestedShutdown(c) ==
    /\ At(c, "deliver") \/ At(c, "stop_before_release")
    /\ Initiate(c)
    /\ UNCHANGED call

WorkerShutdown(g) ==
    /\ job[g].worker \in {"preparing", "running"} /\ ~Busy(g)
    /\ Initiate(g)
    /\ UNCHANGED call

\* Mutant: the sweep forgets the worker behind a start reservation.
SweepTarget_CurrentOnly(k) ==
    IF current[k] # NoJob /\ (\/ job[current[k]].phase = "running"
                              \/ job[current[k]].phase = "stopping" /\ ~job[current[k]].stop)
    THEN current[k] ELSE NoJob

\* The job of config k whose token the sweep has to raise, if there is one.
SweepTarget(k) ==
    IF current[k] # NoJob /\ (\/ job[current[k]].phase = "running"
                              \/ job[current[k]].phase = "stopping" /\ ~job[current[k]].stop)
    THEN current[k]
    ELSE IF reserved[k] # NoJob /\ ~job[reserved[k]].stop THEN reserved[k] ELSE NoJob

\* jobs_ is an unordered map: the sweep meets its keys in any order.
SweepFind(a, k, now) ==
    LET g == SweepTarget(k) IN
    /\ a \in sweeping /\ target[a] = NoJob
    /\ k \in jobs /\ g # NoJob
    /\ target' = [target EXCEPT ![a] = g]
    /\ job' = IF g # current[k] THEN job
              ELSE [job EXCEPT ![g] = IF @.phase = "running"
                                      THEN Stopping(discard_pending_progress(@), now)
                                      ELSE discard_pending_progress(@)]
    /\ UNCHANGED <<owner, slots, call, sweeping, drain_mutex>>

SweepDeliver(a) ==
    /\ a \in sweeping /\ target[a] # NoJob
    /\ job' = [job EXCEPT ![target[a]].stop = TRUE]
    /\ target' = [target EXCEPT ![a] = NoJob]
    /\ UNCHANGED <<owner, slots, call, sweeping, drain_mutex>>

SweepDone(a) ==
    /\ a \in sweeping /\ target[a] = NoJob
    /\ \A k \in jobs : SweepTarget(k) = NoJob
    /\ sweeping' = sweeping \ {a}
    /\ UNCHANGED <<owner, slots, job, call, target, drain_mutex>>

\* Mutant: external shutdowns drain side by side.
LockDrain_Shared(c) ==
    /\ At(c, "shutdown")
    /\ drain_mutex' = {c}
    /\ Goto(c, "await_reservations")
    /\ UNCHANGED <<owner, slots, job, sweep>>

LockDrain(c) ==
    /\ At(c, "shutdown")
    /\ drain_mutex = {}
    /\ drain_mutex' = {c}
    /\ Goto(c, "await_reservations")
    /\ UNCHANGED <<owner, slots, job, sweep>>

\* Mutant: shutdown drains without waiting for the reservations.
AwaitReservations_NoWait(c) ==
    /\ At(c, "await_reservations")
    /\ Goto(c, "drain")
    /\ UNCHANGED <<owner, slots, job, sweep, drain_mutex>>

AwaitReservations(c) ==
    /\ At(c, "await_reservations")
    /\ active_reservations = 0
    /\ Goto(c, "drain")
    /\ UNCHANGED <<owner, slots, job, sweep, drain_mutex>>

\* drain_workers picks a thread under the mutex and joins it outside.
DrainPick(c, k) ==
    /\ At(c, "drain")
    /\ k \in jobs /\ current[k] # NoJob /\ Joinable(current[k])
    /\ call' = [call EXCEPT ![c] = [@ EXCEPT !.at = "drain_join", !.job = current[k]]]
    /\ UNCHANGED <<owner, slots, job, sweep, drain_mutex>>

DrainJoin(c) ==
    /\ At(c, "drain_join")
    /\ Exited(call[c].job)
    /\ job' = [job EXCEPT ![call[c].job].worker = "joined"]
    /\ call' = [call EXCEPT ![c] = [@ EXCEPT !.at = "drain", !.job = NoJob]]
    /\ UNCHANGED <<owner, slots, sweep, drain_mutex>>

ShutdownReturns(c) ==
    /\ At(c, "drain")
    /\ \A k \in jobs : current[k] # NoJob => ~Joinable(current[k])
    /\ drain_mutex' = {}
    /\ Return(c)
    /\ UNCHANGED <<owner, slots, job, sweep>>

-----------------------------------------------------------------------------
CallerStep(c) ==
    \/ \E k \in Configs, now \in ClockReadings :
          \/ \E kind \in BackendKinds : PrepareStart(c, k, kind, now)
          \/ \E publish \in BOOLEAN, later \in ClockReadings :
                ThreadStartFailed(c, k, publish, now, later)
          \/ PrepareStop(c, k, now)
          \/ StopAfterShutdown(c, k, now)
    \/ \E k \in Configs : StartExhausted(c, k) \/ DrainPick(c, k)
    \/ \E now \in ClockReadings :
          \/ CommitStart(c, now)
          \/ PrepareStopAll(c, now)
          \/ \E commit \in BOOLEAN : ResolveStop(c, commit, now) \/ ResolveStopAll(c, commit, now)
    \/ PreparationSucceeded(c) \/ PreparationFailed(c) \/ JoinFailed(c)
    \/ StopBeforeRelease(c) \/ ReleaseGate(c) \/ CancelStart(c) \/ JoinCancelled(c)
    \/ \E g \in JobIds : Deliver(c, g)
    \/ Shutdown(c) \/ NestedShutdown(c) \/ LockDrain(c) \/ AwaitReservations(c)
    \/ DrainJoin(c) \/ ShutdownReturns(c)

WorkerStep(g) ==
    \/ \E ok \in BOOLEAN : Prepare(g, ok)
    \/ PassGate(g)
    \/ \E now \in ClockReadings : Report(g, now) \/ Finish(g, now)
    \/ WorkerShutdown(g)

SweepStep(a) ==
    \/ \E k \in Configs, now \in ClockReadings : SweepFind(a, k, now)
    \/ SweepDeliver(a)
    \/ SweepDone(a)

Next ==
    \/ \E c \in Callers : CallerStep(c)
    \/ \E g \in JobIds : WorkerStep(g)
    \/ \E a \in Actors : SweepStep(a)

Spec == Init /\ [][Next]_vars

\* What the code and the contracts it documents guarantee: threads are scheduled,
\* a reservation is resolved (its destructor cancels it), a stop callback
\* returns, and a backend whose token was raised returns, even if they call
\* shutdown() on the way. Nothing makes a caller begin a call.
Fairness ==
    /\ \A c \in Callers :
        /\ WF_vars(\/ PreparationSucceeded(c) \/ PreparationFailed(c) \/ JoinFailed(c)
                   \/ ReleaseGate(c) \/ CancelStart(c) \/ JoinCancelled(c)
                   \/ LockDrain(c) \/ AwaitReservations(c)
                   \/ DrainJoin(c) \/ ShutdownReturns(c)
                   \/ \E k \in Configs : DrainPick(c, k)
                   \/ \E now \in ClockReadings :
                        ResolveStop(c, FALSE, now) \/ ResolveStopAll(c, FALSE, now))
        /\ SF_vars(StopBeforeRelease(c) \/ \E g \in JobIds : Deliver(c, g))
    /\ \A g \in JobIds :
        /\ WF_vars(PassGate(g))
        /\ SF_vars(job[g].stop /\ (\/ \E ok \in BOOLEAN : Prepare(g, ok)
                                   \/ \E now \in ClockReadings : Finish(g, now)))
    /\ \A a \in Actors : WF_vars(SweepStep(a))

FairSpec == Spec /\ Fairness

-----------------------------------------------------------------------------
(* Properties *)

Places ==
    {"idle", "await_preparation", "start_held", "stop_before_release", "release_gate",
     "join_cancelled", "join_failed", "stop_held", "stop_all_held", "deliver",
     "shutdown", "await_reservations", "drain", "drain_join"}

Calls ==
    [at : Places, config : Configs \cup {NoConfig}, job : JobIds \cup {NoJob},
     captured : SUBSET JobIds, running : SUBSET JobIds, stamp : [JobIds -> Nat]]

Phases == {"running", "stopping", "completed"}
Gates == {"pending", "committed", "cancelled"}
WorkerStates == {"none", "preparing", "gated", "running", "exited", "joined"}

Jobs ==
    [config_id : Configs \cup {NoConfig}, phase : Phases, timestamp : Nat, sent : Nat,
     shown : Nat, pending : Nat, stop : BOOLEAN, gate : Gates, worker : WorkerStates]

\* Every variable keeps the type its declaration in Impl gives it.
TypeOK ==
    /\ accepting \in BOOLEAN
    /\ stop_all_reserved \in BOOLEAN
    /\ active_reservations \in Int
    /\ next_job_generation \in 0..MaxGeneration
    /\ jobs \subseteq Configs
    /\ current \in [Configs -> JobIds \cup {NoJob}]
    /\ reserved \in [Configs -> JobIds \cup {NoJob}]
    /\ stop_reserved \in [Configs -> BOOLEAN]
    /\ job \in [JobIds -> Jobs]
    /\ call \in [Callers -> Calls]
    /\ sweeping \subseteq Actors
    /\ target \in [Actors -> JobIds \cup {NoJob}]
    /\ drain_mutex \subseteq Callers

\* A config has at most one live backend, and it is that of the generation the
\* status shows: no restart overlaps a worker that is stopping, aborting or
\* still to pass its gate (prepare_start, commit_reservation, run).
OneLiveBackend ==
    \A g \in JobIds : job[g].worker = "running" =>
        /\ current[job[g].config_id] = g
        /\ job[g].phase # "completed"
        /\ \A h \in JobIds \ {g} :
              job[h].config_id = job[g].config_id => job[h].worker # "running"

\* Why OneLiveBackend holds. A reserved generation is not the current one, is not
\* committed, and succeeds a completed generation; who holds it is alone in doing
\* so; a committed generation whose worker has not left is the current one.
Holding == {"await_preparation", "start_held", "join_cancelled"}
Committing == {"stop_before_release", "release_gate"}
LiveWorker == {"preparing", "gated", "running"}

UnbornHasNoWorker ==
    /\ \A g \in JobIds : job[g].config_id = NoConfig =>
          job[g].worker = "none" /\ job[g].gate = "pending"
    /\ next_job_generation # 0 =>
          \A g \in JobIds : g >= next_job_generation => job[g].config_id = NoConfig
SlotsOfConfig ==
    \A k \in Configs :
        /\ current[k] # NoJob => job[current[k]].config_id = k
        /\ reserved[k] # NoJob =>
              /\ job[reserved[k]].config_id = k
              /\ job[reserved[k]].gate # "committed"
              /\ reserved[k] # current[k]
              /\ current[k] # NoJob => job[current[k]].phase = "completed"
HeldIsReserved ==
    \A c \in Callers : call[c].at \in Holding =>
        /\ call[c].config \in Configs /\ call[c].job # NoJob
        /\ reserved[call[c].config] = call[c].job
        /\ call[c].at # "join_cancelled" => job[call[c].job].gate = "pending"
CommittingIsCurrent ==
    \A c \in Callers : call[c].at \in Committing =>
        LET g == call[c].job IN
        /\ g # NoJob /\ job[g].gate = "pending"
        /\ job[g].config_id # NoConfig /\ current[job[g].config_id] = g
        /\ job[g].phase # "completed"
OneHolder ==
    \A c, d \in Callers : /\ c # d
                          /\ call[c].at \in Holding \cup Committing
                          /\ call[d].at \in Holding \cup Committing
                          => call[c].job # call[d].job
LiveIsCurrent ==
    \A g \in JobIds :
        /\ job[g].worker = "running" => job[g].gate = "committed"
        /\ job[g].gate = "committed" /\ job[g].worker \in LiveWorker =>
              /\ job[g].config_id # NoConfig /\ current[job[g].config_id] = g
              /\ job[g].phase # "completed"

OwnerInv ==
    /\ UnbornHasNoWorker
    /\ SlotsOfConfig
    /\ HeldIsReserved
    /\ CommittingIsCurrent
    /\ OneHolder
    /\ LiveIsCurrent

\* What active_reservations_ counts.
StartReserved == {k \in Configs : reserved[k] # NoJob}
StopReserved == {k \in Configs : stop_reserved[k]}
Reservations ==
    Cardinality(StartReserved) + Cardinality(StopReserved) + (IF stop_all_reserved THEN 1 ELSE 0)

\* The checks before each std::terminate of commit, cancel and resolve hold for
\* whoever reaches them: a reservation finds its own slot, gate and count.
TerminateUnreachable ==
    /\ active_reservations = Reservations
    /\ \A c \in Callers :
        /\ call[c].at \in {"await_preparation", "start_held", "join_cancelled"} =>
              call[c].config \in jobs /\ reserved[call[c].config] = call[c].job
        /\ call[c].at \in {"start_held", "stop_before_release", "release_gate"} =>
              job[call[c].job].gate = "pending"
        /\ call[c].at = "stop_held" =>
              call[c].config \in jobs /\ stop_reserved[call[c].config]
        /\ call[c].at = "stop_all_held" => stop_all_reserved

\* jobs_ holds exactly the configs that have a status or a pending operation:
\* the temporary slot of an unknown key is neither leaked nor taken away early,
\* and the configs never exceed max_configs.
SlotsJustified ==
    /\ Cardinality(jobs) <= max_configs
    /\ jobs = {k \in Configs :
                 current[k] # NoJob \/ reserved[k] # NoJob \/ stop_reserved[k]}

\* Accepted progress is staged only behind a stop reply that captured the job,
\* and a job that goes on running shows the last report it was told is accepted.
ProgressNotLost ==
    \A g \in JobIds :
        /\ job[g].pending # 0 =>
              \E c \in Callers : /\ call[c].at \in {"stop_held", "stop_all_held"}
                                 /\ g \in call[c].captured
        /\ job[g].phase = "running" /\ ~Staged(g) => job[g].shown = job[g].sent

\* Why ProgressNotLost holds. A stop reservation captures what is current, and nothing
\* becomes current while it is held; every reserved stop has a holder; what is staged is
\* the last report, and a generation reports only after its start was committed.
Captures(c) ==
    IF call[c].at = "stop_held" THEN {current[call[c].config]} \ {NoJob}
    ELSE {current[k] : k \in Configs} \ {NoJob}

CapturesAreCurrent ==
    \A c \in Callers : call[c].at \in {"stop_held", "stop_all_held"} =>
        /\ call[c].captured = Captures(c)
        /\ \A g \in call[c].captured : job[g].phase = "running" => g \in call[c].running
ReservedStopsAreHeld ==
    /\ \A k \in Configs : stop_reserved[k] =>
          \E c \in Callers : call[c].at = "stop_held" /\ call[c].config = k
    /\ stop_all_reserved => /\ \E c \in Callers : call[c].at = "stop_all_held"
                            /\ StartReserved = {} /\ StopReserved = {}
LastReportIsKept ==
    \A g \in JobIds :
        /\ job[g].pending # 0 =>
              \E c \in Callers : /\ call[c].at \in {"stop_held", "stop_all_held"}
                                 /\ g \in call[c].captured
        /\ job[g].phase = "running" =>
              job[g].sent = IF job[g].pending = 0 THEN job[g].shown ELSE job[g].pending
        /\ job[g].gate # "committed" => job[g].pending = 0 /\ job[g].shown = job[g].sent

ProgressInv ==
    /\ CapturesAreCurrent
    /\ ReservedStopsAreHeld
    /\ LastReportIsKept

\* The generations a caller has stopped and whose token it has yet to raise.
StillToRaise(r) ==
    IF r.at = "deliver" THEN r.captured
    ELSE IF r.at = "stop_before_release" THEN {r.job} ELSE {}
ToldToStop(g) ==
    \/ job[g].stop
    \/ \E a \in Actors : target[a] = g
    \/ \E c \in Callers : g \in StillToRaise(call[c])

\* A generation whose status is running has not been told to stop and nobody is about to
\* tell it: no stop reaches a generation it was not linearised on, nor one captured and
\* replaced (commit_stop_reservation, initiate_shutdown, commit_reservation).
NoStaleStop ==
    \A g \in JobIds : job[g].phase = "running" => ~ToldToStop(g)

\* Why NoStaleStop holds. Only a generation that was handed out is captured or told to
\* stop; one that is still reserved is not running, and is told only after admission
\* closed, so that its commit installs it as stopping; and one that is told before that
\* is stopping at the time.
CapturedWasStarted ==
    \A c \in Callers :
        /\ call[c].at \in {"stop_held", "stop_all_held"} =>
              call[c].running \subseteq call[c].captured
        /\ \A g \in call[c].captured : job[g].config_id # NoConfig
ToldWasStarted ==
    \A g \in JobIds : ToldToStop(g) => job[g].config_id # NoConfig
ReservedNotRunning ==
    \A k \in Configs : reserved[k] # NoJob => job[reserved[k]].phase # "running"
ReservedToldAfterClose ==
    /\ sweeping # {} => ~accepting
    /\ \A k \in Configs :
          accepting /\ reserved[k] # NoJob => ~ToldToStop(reserved[k])
ToldWasStopping ==
    \A g \in JobIds : accepting /\ ToldToStop(g) =>
        job[g].phase = "stopping" \/ job[g].gate = "committed"

StopInv ==
    /\ NoStaleStop
    /\ CapturedWasStarted
    /\ ToldWasStarted
    /\ ReservedNotRunning
    /\ ReservedToldAfterClose
    /\ ToldWasStopping

Later(t, u) == u > t \/ t = JsonSafeMax

\* What a step may do to the public snapshot of config k.
Advances(k) ==
    LET g == current[k]  h == current'[k]  IN
    g # NoJob =>
       /\ h >= g
       /\ \/ h = g /\ job'[h].phase = job[g].phase /\ job'[h].shown = job[g].shown
                   /\ job'[h].timestamp = job[g].timestamp
          \/ Later(job[g].timestamp, job'[h].timestamp)

\* The public snapshot of a config never goes back, and a different snapshot has
\* a later timestamp until the timestamps saturate (next_timestamp, commit_timestamp).
SnapshotsAdvance == [][\A k \in Configs : Advances(k)]_vars

\* Why SnapshotsAdvance holds. Timestamps are safe integers, the successor of a current
\* generation has a higher number and a later timestamp, and the timestamp a stop reply
\* was promised stays later than that of the generation while it goes on running.
StampsAreSafe ==
    /\ \A g \in JobIds : job[g].timestamp <= JsonSafeMax
    /\ \A c \in Callers : call[c].at \in {"stop_held", "stop_all_held"} =>
          \A g \in call[c].running : call[c].stamp[g] <= JsonSafeMax
SuccessorIsLater ==
    \A k \in Configs : reserved[k] # NoJob /\ current[k] # NoJob =>
        /\ reserved[k] > current[k]
        /\ Later(job[current[k]].timestamp, job[reserved[k]].timestamp)
StampsAreLater ==
    \A c \in Callers : call[c].at \in {"stop_held", "stop_all_held"} =>
        \A g \in call[c].running :
            job[g].phase = "running" => Later(job[g].timestamp, call[c].stamp[g])

SnapshotInv ==
    /\ StampsAreSafe
    /\ SuccessorIsLater
    /\ StampsAreLater

\* Every std::thread is joined by one thread only, and only while it is joinable:
\* the drain mutex and the owner mutex keep shutdown, abort and restart apart.
JoinedOnce ==
    \A c \in Callers : call[c].at \in {"join_cancelled", "join_failed", "drain_join"} =>
        /\ Joinable(call[c].job)
        /\ \A d \in Callers \ {c} :
              call[d].at \in {"join_cancelled", "join_failed", "drain_join"}
                 => call[d].job # call[c].job

\* No call ends in std::terminate: neither a check of a reservation fails nor a thread is
\* joined that is not joinable, or joined twice at once.
NeverTerminates == TerminateUnreachable /\ JoinedOnce

\* When an external shutdown returns, every generation that was committed has
\* been joined, no reservation is outstanding and none can be made.
ShutdownDrains ==
    [][\A c \in Callers : ShutdownReturns(c) =>
         /\ ~accepting /\ active_reservations = 0
         /\ \A g \in JobIds : job[g].gate # "pending" => ~Joinable(g)]_vars

\* Why NeverTerminates, SlotsJustified and ShutdownDrains hold. Each reservation is
\* counted once, on a slot that has no other, and belongs to one caller only.
OneReservation == StartReserved \cap StopReserved = {}
StopsAreHeld ==
    \A c \in Callers :
        /\ call[c].at = "stop_held" =>
              /\ call[c].config \in Configs /\ stop_reserved[call[c].config]
              /\ \A d \in Callers \ {c} :
                    call[d].at = "stop_held" => call[d].config # call[c].config
        /\ call[c].at = "stop_all_held" =>
              /\ stop_all_reserved
              /\ \A d \in Callers \ {c} : call[d].at # "stop_all_held"

AccountsInv ==
    /\ active_reservations = Reservations
    /\ IsFiniteSet(jobs)
    /\ SlotsJustified
    /\ OneReservation
    /\ StopsAreHeld

\* Who drains is alone in it, finds admission closed and no reservation; every thread that
\* can be joined has a slot or a caller that will join it; and whoever is about to join one
\* finds it joinable.
Draining == {"await_reservations", "drain", "drain_join"}

DrainsAlone ==
    \A c \in Callers :
        /\ call[c].at \in Draining => drain_mutex = {c}
        /\ call[c].at \in Draining \cup {"shutdown"} => ~accepting
        /\ call[c].at \in {"drain", "drain_join"} => active_reservations = 0
ThreadsAreOwned ==
    \A g \in JobIds : Joinable(g) =>
        \/ \E k \in Configs : reserved[k] = g
        \/ \E k \in Configs : current[k] = g /\ reserved[k] = NoJob
        \/ \E c \in Callers : call[c].at = "join_failed" /\ call[c].job = g
JoinsAreSafe ==
    \A c \in Callers :
        /\ call[c].at = "join_cancelled" => Joinable(call[c].job)
        /\ call[c].at = "join_failed" =>
              /\ call[c].job \in JobIds /\ Joinable(call[c].job)
              /\ job[call[c].job].gate = "pending" /\ job[call[c].job].config_id # NoConfig
              /\ \A k \in Configs : reserved[k] # call[c].job /\ current[k] # call[c].job
              /\ \A d \in Callers \ {c} :
                    call[d].at = "join_failed" => call[d].job # call[c].job
        /\ call[c].at = "drain_join" =>
              /\ call[c].job \in JobIds /\ Joinable(call[c].job)
              /\ \E k \in Configs : current[k] = call[c].job

ThreadsInv ==
    /\ DrainsAlone
    /\ ThreadsAreOwned
    /\ JoinsAreSafe

\* A generation that is stopping ends, if backends honour their stop token.
StoppingEnds ==
    \A g \in JobIds : job[g].phase = "stopping" ~> job[g].phase = "completed"

\* An external shutdown always comes to hold the drain and to give it back.
ShutdownReturnsEventually ==
    /\ (\E c \in Callers : call[c].at = "shutdown") ~> drain_mutex # {}
    /\ drain_mutex # {} ~> drain_mutex = {}

\* The life of each generation, for TaskLifecycle.
Life(g) ==
    LET j == job[g] IN
    IF j.config_id = NoConfig THEN "unused"
    ELSE IF reserved[j.config_id] = g THEN "held"
    ELSE IF j.phase = "running" THEN "live"
    ELSE IF j.phase = "stopping" THEN "stopping"
    ELSE IF j.gate = "committed" THEN "ended" ELSE "dropped"

Lifecycle == INSTANCE TaskLifecycle WITH
    open <- accepting,
    key <- [g \in JobIds |-> job[g].config_id],
    life <- [g \in JobIds |-> Life(g)],
    entered <- {g \in JobIds : \/ job[g].worker = "running"
                               \/ job[g].gate = "committed" /\ ~(job[g].worker = "gated")},
    asked <- {g \in JobIds : job[g].stop}

\* Why it does. A generation that is not completed is the current one of its config, one
\* whose gate is about to open waits there, and no worker passes its gate unprepared.
UncompletedIsCurrent ==
    \A g \in JobIds : job[g].phase # "completed" =>
        job[g].config_id # NoConfig /\ current[job[g].config_id] = g
HeldIsGated ==
    \A c \in Callers : call[c].at \in {"start_held"} \cup Committing =>
        job[call[c].job].worker = "gated"
CommittedIsPrepared ==
    \A g \in JobIds : job[g].gate = "committed" => job[g].worker # "preparing"

LifeInv ==
    /\ UncompletedIsCurrent
    /\ HeldIsGated
    /\ CommittedIsPrepared

\* The owner keeps every promise of TaskLifecycle.
ImplementsLifecycle == Lifecycle!Spec
====
