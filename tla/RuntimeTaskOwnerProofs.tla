---- MODULE RuntimeTaskOwnerProofs ----
(***************************************************************************)
(* Proofs about RuntimeTaskOwner for every number of configs, callers and  *)
(* generations, in three parts. Types. Safety: OwnerInv is inductive, so   *)
(* OneLiveBackend holds; with it StopInv is, so NoStaleStop does. Most     *)
(* steps leave alone what OwnerInv talks about (Frame), or neither tell a  *)
(* generation to stop nor set one running (Quiet); the rest have a proof   *)
(* of their own. Refinement: LifeInv, with OwnerInv and StopInv, says what *)
(* the steps of TaskLifecycle ask of a generation; each step of the owner  *)
(* then maps to one of them or to none.                                    *)
(***************************************************************************)
EXTENDS RuntimeTaskOwner, TLAPS

-----------------------------------------------------------------------------
(* The types of the operators the actions are built from *)

\* next_timestamp stays within its integer type.
LEMMA NextTimestampType ==
    ASSUME NEW previous \in Nat, NEW now \in ClockReadings
    PROVE  NextTimestamp(previous, now) \in Nat
  BY ConstantsAssumption DEF NextTimestamp

\* The generation counter wraps to 0 and not past its width.
LEMMA GenerationType ==
    ASSUME NEW n \in 0..MaxGeneration
    PROVE  (n + 1) % (MaxGeneration + 1) \in 0..MaxGeneration
  BY ConstantsAssumption

\* A job record stays one when a step assigns one of its fields.
LEMMA JobFields ==
    ASSUME NEW j \in Jobs
    PROVE  /\ j.timestamp \in Nat /\ j.sent \in Nat /\ j.shown \in Nat /\ j.pending \in Nat
           /\ \A w \in WorkerStates : [j EXCEPT !.worker = w] \in Jobs
           /\ \A x \in Gates : [j EXCEPT !.gate = x] \in Jobs
           /\ \A p \in Phases : [j EXCEPT !.phase = p] \in Jobs
           /\ \A t \in Nat : [j EXCEPT !.timestamp = t] \in Jobs
           /\ [j EXCEPT !.stop = TRUE] \in Jobs
  BY DEF Jobs

LEMMA StoppingType ==
    ASSUME NEW j \in Jobs, NEW now \in ClockReadings
    PROVE  Stopping(j, now) \in Jobs
  <1>1. NextTimestamp(j.timestamp, now) \in Nat
    BY NextTimestampType, JobFields
  <1>2. QED
    BY <1>1 DEF Stopping, Jobs, Phases

LEMMA StoppingAtType ==
    ASSUME NEW j \in Jobs, NEW timestamp \in Nat
    PROVE  StoppingAt(j, timestamp) \in Jobs
  BY DEF StoppingAt, Jobs, Phases

LEMMA PendingType ==
    ASSUME NEW j \in Jobs, NEW now \in ClockReadings
    PROVE  /\ discard_pending_progress(j) \in Jobs
           /\ publish_pending_progress(j, now) \in Jobs
  <1>1. NextTimestamp(j.timestamp, now) \in Nat
    BY NextTimestampType, JobFields
  <1>2. QED
    BY <1>1 DEF discard_pending_progress, publish_pending_progress, Jobs

LEMMA ReportType ==
    ASSUME NEW j \in Jobs, NEW now \in ClockReadings
    PROVE  Stage(j) \in Jobs /\ Publish(j, now) \in Jobs /\ Terminal(j, now) \in Jobs
  <1>1. NextTimestamp(j.timestamp, now) \in Nat
    BY NextTimestampType, JobFields
  <1>2. j.sent + 1 \in Nat
    BY DEF Jobs
  <1>3. QED
    BY <1>1, <1>2 DEF Stage, Publish, Terminal, Jobs, Phases, WorkerStates

LEMMA NewJobType ==
    ASSUME TypeOK, NEW k \in Configs, NEW now \in ClockReadings,
           NEW worker \in WorkerStates
    PROVE  NewJob(k, now, worker) \in Jobs
  <1>1. (IF current[k] = NoJob THEN 0 ELSE job[current[k]].timestamp) \in Nat
    BY DEF TypeOK, Jobs, NoJob
  <1>2. NextTimestamp(IF current[k] = NoJob THEN 0 ELSE job[current[k]].timestamp, now) \in Nat
    BY <1>1, NextTimestampType
  <1>3. QED
    BY <1>2 DEF NewJob, Unborn, Jobs, Phases, Gates

LEMMA ReapType ==
    ASSUME TypeOK, NEW k \in Configs
    PROVE  ReapPrevious(k) \in [JobIds -> Jobs]
  <1>. SUFFICES ASSUME current[k] # NoJob
                PROVE  [job EXCEPT ![current[k]].worker = "joined"] \in [JobIds -> Jobs]
    BY DEF ReapPrevious, TypeOK
  <1>1. current[k] \in JobIds /\ job[current[k]] \in Jobs
    BY DEF TypeOK, NoJob
  <1>2. [job[current[k]] EXCEPT !.worker = "joined"] \in Jobs
    BY <1>1, JobFields DEF WorkerStates
  <1>3. QED
    BY <1>1, <1>2 DEF TypeOK

LEMMA IdleType == Idle \in Calls
  BY DEF Idle, Calls, Places, NoJob

\* A call record stays one when a step moves its caller on.
LEMMA CallFields ==
    ASSUME NEW r \in Calls
    PROVE  /\ r.job \in JobIds \cup {NoJob} /\ r.config \in Configs \cup {NoConfig}
           /\ \A p \in Places : [r EXCEPT !.at = p] \in Calls
           /\ \A p \in Places, g \in JobIds \cup {NoJob} :
                 [r EXCEPT !.at = p, !.job = g] \in Calls
           /\ \A G \in SUBSET JobIds : [r EXCEPT !.captured = G] \in Calls
  BY DEF Calls

LEMMA JobUpdate ==
    ASSUME TypeOK, NEW g, NEW j, g \in JobIds => j \in Jobs
    PROVE  [job EXCEPT ![g] = j] \in [JobIds -> Jobs]
  BY DEF TypeOK

LEMMA CallUpdate ==
    ASSUME TypeOK, NEW c \in Callers, NEW r \in Calls
    PROVE  [call EXCEPT ![c] = r] \in [Callers -> Calls]
  BY DEF TypeOK

LEMMA ReturnType ==
    ASSUME TypeOK, NEW c \in Callers, Return(c)
    PROVE  call' \in [Callers -> Calls]
  BY IdleType, CallUpdate DEF Return

LEMMA GotoType ==
    ASSUME TypeOK, NEW c \in Callers, NEW p \in Places, Goto(c, p)
    PROVE  call' \in [Callers -> Calls]
  <1>1. [call[c] EXCEPT !.at = p] \in Calls
    BY CallFields DEF TypeOK
  <1>2. QED
    BY <1>1, CallUpdate DEF Goto

LEMMA JoinType ==
    ASSUME TypeOK, NEW g, NEW w \in WorkerStates,
           job' = [job EXCEPT ![g].worker = w]
    PROVE  job' \in [JobIds -> Jobs]
  <1>1. g \in JobIds => [job[g] EXCEPT !.worker = w] \in Jobs
    BY JobFields DEF TypeOK
  <1>2. QED
    BY <1>1, JobUpdate

LEMMA RaiseType ==
    ASSUME TypeOK, NEW g, job' = [job EXCEPT ![g].stop = TRUE]
    PROVE  job' \in [JobIds -> Jobs]
  <1>1. g \in JobIds => [job[g] EXCEPT !.stop = TRUE] \in Jobs
    BY JobFields DEF TypeOK
  <1>2. QED
    BY <1>1, JobUpdate

LEMMA GateType ==
    ASSUME TypeOK, NEW g, NEW x \in Gates, job' = [job EXCEPT ![g].gate = x]
    PROVE  job' \in [JobIds -> Jobs]
  <1>1. g \in JobIds => [job[g] EXCEPT !.gate = x] \in Jobs
    BY JobFields DEF TypeOK
  <1>2. QED
    BY <1>1, JobUpdate

LEMMA CaptureType ==
    ASSUME TypeOK, NEW c \in Callers, NEW p \in Places, NEW k \in Configs \cup {NoConfig},
           NEW captured \in SUBSET JobIds, NEW now \in ClockReadings,
           Capture(c, p, k, captured, now)
    PROVE  call' \in [Callers -> Calls]
  <1>. DEFINE running == {g \in captured : job[g].phase = "running"}
              stamp == [g \in JobIds |-> IF g \in running
                          THEN NextTimestamp(job[g].timestamp, now) ELSE 0]
              r == [Idle EXCEPT !.at = p, !.config = k, !.captured = captured,
                                !.running = running, !.stamp = stamp]
  <1>1. running \in SUBSET JobIds
    OBVIOUS
  <1>2. stamp \in [JobIds -> Nat]
    BY NextTimestampType, JobFields DEF TypeOK
  <1>. HIDE DEF running, stamp
  <1>3. r \in Calls
    BY <1>1, <1>2, IdleType DEF Calls, Idle
  <1>. USE DEF running, stamp
  <1>4. call' = [call EXCEPT ![c] = r]
    BY DEF Capture
  <1>5. QED
    BY <1>3, <1>4, CallUpdate

LEMMA ResolvedType ==
    ASSUME TypeOK, NEW c \in Callers, NEW commit \in BOOLEAN, NEW now \in ClockReadings,
           Resolved(c, commit, now)
    PROVE  /\ job' \in [JobIds -> Jobs]
           /\ call' \in [Callers -> Calls]
  <1>1. ASSUME NEW g \in JobIds
        PROVE  CommittedJob(c, g, now) \in Jobs /\ AbortedJob(g, now) \in Jobs
    <2>1. job[g] \in Jobs /\ call[c].stamp[g] \in Nat
      BY DEF TypeOK, Calls
    <2>2. QED
      BY <2>1, StoppingAtType, PendingType DEF CommittedJob, AbortedJob
  <1>2. job' \in [JobIds -> Jobs]
    BY <1>1 DEF Resolved, TypeOK
  <1>3. Transitions(c) \in SUBSET JobIds
    BY DEF Transitions, TypeOK, Calls
  <1>4. [Idle EXCEPT !.at = "deliver", !.captured = Transitions(c)] \in Calls
    BY <1>3 DEF Idle, Calls, Places, NoJob
  <1>5. call' \in [Callers -> Calls]
    BY <1>4, IdleType, CallUpdate DEF Resolved
  <1>6. QED
    BY <1>2, <1>5

-----------------------------------------------------------------------------
(* Type correctness: one step per action *)

LEMMA TypeStep == TypeOK /\ [Next]_vars => TypeOK'
  <1>. SUFFICES ASSUME TypeOK, [Next]_vars PROVE TypeOK'
    OBVIOUS
  <1>1. ASSUME NEW c \in Callers, NEW k \in Configs, NEW kind \in BackendKinds,
               NEW now \in ClockReadings,
               PrepareStart(c, k, kind, now)
        PROVE  TypeOK'
    <2>1. next_job_generation \in JobIds
      BY <1>1 DEF PrepareStart, TakeGeneration, TypeOK, JobIds
    <2>2. NewJob(k, now, IF kind = "prepared" THEN "preparing" ELSE "gated") \in Jobs
      BY NewJobType DEF WorkerStates
    <2>3. job' \in [JobIds -> Jobs]
      BY <1>1, <2>1, <2>2, ReapType DEF PrepareStart
    <2>4. [Idle EXCEPT !.at = IF kind = "prepared" THEN "await_preparation" ELSE "start_held",
                       !.config = k, !.job = next_job_generation] \in Calls
      BY <2>1 DEF Idle, Calls, Places
    <2>5. call' \in [Callers -> Calls]
      BY <1>1, <2>4, CallUpdate DEF PrepareStart
    <2>6. next_job_generation' \in 0..MaxGeneration
      BY <1>1, GenerationType DEF PrepareStart, TakeGeneration, TypeOK
    <2>7. QED
      BY <1>1, <2>1, <2>3, <2>5, <2>6 DEF PrepareStart, TypeOK, sweep
  <1>2. ASSUME NEW c \in Callers, NEW k \in Configs,
               StartExhausted(c, k)
        PROVE  TypeOK'
    BY <1>2, ReapType DEF StartExhausted, TypeOK, owner, slots, sweep
  <1>3. ASSUME NEW c \in Callers, NEW k \in Configs, NEW publish \in BOOLEAN,
               NEW now \in ClockReadings, NEW later \in ClockReadings,
               ThreadStartFailed(c, k, publish, now, later)
        PROVE  TypeOK'
    <2>1. next_job_generation \in JobIds
      BY <1>3 DEF ThreadStartFailed, TakeGeneration, TypeOK, JobIds
    <2>2. NewJob(k, now, "none") \in Jobs
      BY NewJobType DEF WorkerStates
    <2>3. [NewJob(k, now, "none") EXCEPT !.timestamp = NextTimestamp(@, later)] \in Jobs
      BY <2>2, NextTimestampType, JobFields
    <2>4. job' \in [JobIds -> Jobs]
      BY <1>3, <2>1, <2>3, ReapType DEF ThreadStartFailed
    <2>5. next_job_generation' \in 0..MaxGeneration
      BY <1>3, GenerationType DEF ThreadStartFailed, TakeGeneration, TypeOK
    <2>6. QED
      BY <1>3, <2>1, <2>4, <2>5 DEF ThreadStartFailed, TypeOK, sweep
  <1>4. ASSUME NEW c \in Callers,
               PreparationSucceeded(c)
        PROVE  TypeOK'
    <2>1. call' \in [Callers -> Calls]
      BY <1>4, GotoType DEF PreparationSucceeded, Places
    <2>2. QED
      BY <1>4, <2>1 DEF PreparationSucceeded, TypeOK, owner, slots, sweep
  <1>5. ASSUME NEW c \in Callers,
               PreparationFailed(c)
        PROVE  TypeOK'
    <2>1. call' \in [Callers -> Calls]
      BY <1>5, GotoType DEF PreparationFailed, Places
    <2>2. /\ reserved' \in [Configs -> JobIds \cup {NoJob}] /\ jobs' \subseteq Configs
      BY <1>5 DEF PreparationFailed, TypeOK
    <2>3. active_reservations' \in Int
      BY <1>5 DEF PreparationFailed, TypeOK
    <2>4. QED
      BY <1>5, <2>1, <2>2, <2>3 DEF PreparationFailed, TypeOK, sweep
  <1>6. ASSUME NEW c \in Callers,
               JoinFailed(c)
        PROVE  TypeOK'
    <2>1. job' \in [JobIds -> Jobs]
      BY <1>6, JoinType DEF JoinFailed, WorkerStates
    <2>2. call' \in [Callers -> Calls]
      BY <1>6, ReturnType DEF JoinFailed
    <2>3. QED
      BY <1>6, <2>1, <2>2 DEF JoinFailed, TypeOK, owner, slots, sweep
  <1>7. ASSUME NEW c \in Callers, NEW now \in ClockReadings,
               CommitStart(c, now)
        PROVE  TypeOK'
    <2>1. call[c].job \in JobIds \cup {NoJob}
      BY CallFields DEF TypeOK
    <2>2. call[c].job \in JobIds =>
            (IF accepting THEN [job[call[c].job] EXCEPT !.phase = "running"]
             ELSE Stopping(job[call[c].job], now)) \in Jobs
      BY JobFields, StoppingType DEF TypeOK, Phases
    <2>3. job' \in [JobIds -> Jobs]
      BY <1>7, <2>2, JobUpdate DEF CommitStart
    <2>4. call' \in [Callers -> Calls]
      BY <1>7, GotoType DEF CommitStart, Places
    <2>5. current' \in [Configs -> JobIds \cup {NoJob}]
      BY <1>7, <2>1 DEF CommitStart, TypeOK
    <2>6. reserved' \in [Configs -> JobIds \cup {NoJob}]
      BY <1>7 DEF CommitStart, TypeOK
    <2>7. active_reservations' \in Int
      BY <1>7 DEF CommitStart, TypeOK
    <2>8. QED
      BY <1>7, <2>3, <2>4, <2>5, <2>6, <2>7 DEF CommitStart, TypeOK, sweep
  <1>8. ASSUME NEW c \in Callers,
               StopBeforeRelease(c)
        PROVE  TypeOK'
    <2>1. job' \in [JobIds -> Jobs]
      BY <1>8, RaiseType DEF StopBeforeRelease
    <2>2. call' \in [Callers -> Calls]
      BY <1>8, GotoType DEF StopBeforeRelease, Places
    <2>3. QED
      BY <1>8, <2>1, <2>2 DEF StopBeforeRelease, TypeOK, owner, slots, sweep
  <1>9. ASSUME NEW c \in Callers,
               ReleaseGate(c)
        PROVE  TypeOK'
    <2>1. job' \in [JobIds -> Jobs]
      BY <1>9, GateType DEF ReleaseGate, Gates
    <2>2. call' \in [Callers -> Calls]
      BY <1>9, ReturnType DEF ReleaseGate
    <2>3. QED
      BY <1>9, <2>1, <2>2 DEF ReleaseGate, TypeOK, owner, slots, sweep
  <1>10. ASSUME NEW c \in Callers,
               CancelStart(c)
        PROVE  TypeOK'
    <2>1. job' \in [JobIds -> Jobs]
      BY <1>10, GateType DEF CancelStart, Gates
    <2>2. call' \in [Callers -> Calls]
      BY <1>10, GotoType DEF CancelStart, Places
    <2>3. QED
      BY <1>10, <2>1, <2>2 DEF CancelStart, TypeOK, owner, slots, sweep
  <1>11. ASSUME NEW c \in Callers,
               JoinCancelled(c)
        PROVE  TypeOK'
    <2>1. job' \in [JobIds -> Jobs]
      BY <1>11, JoinType DEF JoinCancelled, WorkerStates
    <2>2. call' \in [Callers -> Calls]
      BY <1>11, ReturnType DEF JoinCancelled
    <2>3. /\ reserved' \in [Configs -> JobIds \cup {NoJob}] /\ jobs' \subseteq Configs
      BY <1>11 DEF JoinCancelled, TypeOK
    <2>4. active_reservations' \in Int
      BY <1>11 DEF JoinCancelled, TypeOK
    <2>5. QED
      BY <1>11, <2>1, <2>2, <2>3, <2>4 DEF JoinCancelled, TypeOK, sweep
  <1>12. ASSUME NEW g \in JobIds, NEW ok \in BOOLEAN,
               Prepare(g, ok)
        PROVE  TypeOK'
    <2>1. job' \in [JobIds -> Jobs]
      BY <1>12, JoinType DEF Prepare, WorkerStates
    <2>2. QED
      BY <1>12, <2>1 DEF Prepare, TypeOK, owner, slots, sweep
  <1>13. ASSUME NEW g \in JobIds,
               PassGate(g)
        PROVE  TypeOK'
    <2>1. job' \in [JobIds -> Jobs]
      BY <1>13, JoinType DEF PassGate, WorkerStates
    <2>2. QED
      BY <1>13, <2>1 DEF PassGate, TypeOK, owner, slots, sweep
  <1>14. ASSUME NEW g \in JobIds, NEW now \in ClockReadings,
               Report(g, now)
        PROVE  TypeOK'
    <2>1. Stage(job[g]) \in Jobs /\ Publish(job[g], now) \in Jobs
      BY ReportType DEF TypeOK
    <2>2. job' \in [JobIds -> Jobs]
      BY <1>14, <2>1, JobUpdate DEF Report
    <2>3. QED
      BY <1>14, <2>2 DEF Report, TypeOK, owner, slots, sweep
  <1>15. ASSUME NEW g \in JobIds, NEW now \in ClockReadings,
               Finish(g, now)
        PROVE  TypeOK'
    <2>1. Terminal(job[g], now) \in Jobs
      BY ReportType DEF TypeOK
    <2>2. job' \in [JobIds -> Jobs]
      BY <1>15, <2>1, JobUpdate DEF Finish
    <2>3. QED
      BY <1>15, <2>2 DEF Finish, TypeOK, owner, slots, sweep
  <1>16. ASSUME NEW c \in Callers, NEW k \in Configs, NEW now \in ClockReadings,
               PrepareStop(c, k, now)
        PROVE  TypeOK'
    <2>1. {current[k]} \ {NoJob} \in SUBSET JobIds
      BY DEF TypeOK
    <2>2. call' \in [Callers -> Calls]
      BY <1>16, <2>1, CaptureType DEF PrepareStop, Places
    <2>3. QED
      BY <1>16, <2>2 DEF PrepareStop, TypeOK, sweep
  <1>17. ASSUME NEW c \in Callers, NEW now \in ClockReadings,
               PrepareStopAll(c, now)
        PROVE  TypeOK'
    <2>1. {current[k] : k \in jobs} \ {NoJob} \in SUBSET JobIds
      BY DEF TypeOK
    <2>2. call' \in [Callers -> Calls]
      BY <1>17, <2>1, CaptureType DEF PrepareStopAll, Places
    <2>3. QED
      BY <1>17, <2>2 DEF PrepareStopAll, TypeOK, slots, sweep
  <1>18. ASSUME NEW c \in Callers, NEW commit \in BOOLEAN, NEW now \in ClockReadings,
               ResolveStop(c, commit, now)
        PROVE  TypeOK'
    <2>1. job' \in [JobIds -> Jobs] /\ call' \in [Callers -> Calls]
      BY <1>18, ResolvedType DEF ResolveStop
    <2>2. /\ stop_reserved' \in [Configs -> BOOLEAN] /\ jobs' \subseteq Configs
      BY <1>18 DEF ResolveStop, TypeOK
    <2>3. active_reservations' \in Int
      BY <1>18 DEF ResolveStop, TypeOK
    <2>4. QED
      BY <1>18, <2>1, <2>2, <2>3 DEF ResolveStop, TypeOK, sweep
  <1>19. ASSUME NEW c \in Callers, NEW commit \in BOOLEAN, NEW now \in ClockReadings,
               ResolveStopAll(c, commit, now)
        PROVE  TypeOK'
    <2>1. job' \in [JobIds -> Jobs] /\ call' \in [Callers -> Calls]
      BY <1>19, ResolvedType DEF ResolveStopAll
    <2>2. active_reservations' \in Int
      BY <1>19 DEF ResolveStopAll, TypeOK
    <2>3. QED
      BY <1>19, <2>1, <2>2 DEF ResolveStopAll, TypeOK, slots, sweep
  <1>20. ASSUME NEW c \in Callers, NEW k \in Configs, NEW now \in ClockReadings,
               StopAfterShutdown(c, k, now)
        PROVE  TypeOK'
    <2>1. current[k] \in JobIds /\ job[current[k]] \in Jobs
      BY <1>20 DEF StopAfterShutdown, TypeOK
    <2>2. job' \in [JobIds -> Jobs]
      BY <1>20, <2>1, StoppingType, JobUpdate DEF StopAfterShutdown
    <2>3. [Idle EXCEPT !.at = "deliver", !.captured = {current[k]}] \in Calls
      BY <2>1, IdleType DEF Idle, Calls, Places
    <2>4. call' \in [Callers -> Calls]
      BY <1>20, <2>3, CallUpdate DEF StopAfterShutdown
    <2>5. QED
      BY <1>20, <2>2, <2>4 DEF StopAfterShutdown, TypeOK, owner, slots, sweep
  <1>21. ASSUME NEW c \in Callers, NEW g \in JobIds,
               Deliver(c, g)
        PROVE  TypeOK'
    <2>1. job' \in [JobIds -> Jobs]
      BY <1>21, RaiseType DEF Deliver
    <2>2. call[c] \in Calls /\ call[c].captured \ {g} \in SUBSET JobIds
      BY DEF TypeOK, Calls
    <2>3. Delivered(call[c], g) \in Calls
      BY <2>2, CallFields DEF Delivered
    <2>4. call' \in [Callers -> Calls]
      BY <1>21, <2>3, IdleType, CallUpdate DEF Deliver
    <2>5. QED
      BY <1>21, <2>1, <2>4 DEF Deliver, TypeOK, owner, slots, sweep
  <1>22. ASSUME NEW c \in Callers,
               Shutdown(c)
        PROVE  TypeOK'
    <2>1. call' \in [Callers -> Calls]
      BY <1>22, GotoType DEF Shutdown, Places
    <2>2. QED
      BY <1>22, <2>1 DEF Shutdown, TypeOK, Initiate, slots, Actors
  <1>23. ASSUME NEW c \in Callers,
               NestedShutdown(c)
        PROVE  TypeOK'
    BY <1>23 DEF NestedShutdown, TypeOK, Initiate, slots, Actors
  <1>24. ASSUME NEW g \in JobIds,
               WorkerShutdown(g)
        PROVE  TypeOK'
    BY <1>24 DEF WorkerShutdown, TypeOK, Initiate, slots, Actors
  <1>25. ASSUME NEW a \in Actors, NEW k \in Configs, NEW now \in ClockReadings,
               SweepFind(a, k, now)
        PROVE  TypeOK'
    <2>1. SweepTarget(k) \in JobIds \cup {NoJob}
      BY DEF SweepTarget, TypeOK
    <2>2. current[k] \in JobIds => /\ Stopping(discard_pending_progress(job[current[k]]), now) \in Jobs
                               /\ discard_pending_progress(job[current[k]]) \in Jobs
      BY PendingType, StoppingType DEF TypeOK
    <2>3. job' \in [JobIds -> Jobs]
      BY <1>25, <2>2, JobUpdate DEF SweepFind, TypeOK
    <2>4. target' \in [Actors -> JobIds \cup {NoJob}]
      BY <1>25, <2>1 DEF SweepFind, TypeOK
    <2>5. QED
      BY <1>25, <2>3, <2>4 DEF SweepFind, TypeOK, owner, slots, sweep
  <1>26. ASSUME NEW a \in Actors,
               SweepDeliver(a)
        PROVE  TypeOK'
    <2>1. job' \in [JobIds -> Jobs]
      BY <1>26, RaiseType DEF SweepDeliver
    <2>2. QED
      BY <1>26, <2>1 DEF SweepDeliver, TypeOK, owner, slots, sweep
  <1>27. ASSUME NEW a \in Actors,
               SweepDone(a)
        PROVE  TypeOK'
    BY <1>27 DEF SweepDone, TypeOK, owner, slots, sweep
  <1>28. ASSUME NEW c \in Callers,
               LockDrain(c)
        PROVE  TypeOK'
    <2>1. call' \in [Callers -> Calls]
      BY <1>28, GotoType DEF LockDrain, Places
    <2>2. QED
      BY <1>28, <2>1 DEF LockDrain, TypeOK, owner, slots, sweep
  <1>29. ASSUME NEW c \in Callers,
               AwaitReservations(c)
        PROVE  TypeOK'
    <2>1. call' \in [Callers -> Calls]
      BY <1>29, GotoType DEF AwaitReservations, Places
    <2>2. QED
      BY <1>29, <2>1 DEF AwaitReservations, TypeOK, owner, slots, sweep
  <1>30. ASSUME NEW c \in Callers, NEW k \in Configs,
               DrainPick(c, k)
        PROVE  TypeOK'
    <2>1. current[k] \in JobIds \cup {NoJob} /\ call[c] \in Calls
      BY DEF TypeOK
    <2>2. [call[c] EXCEPT !.at = "drain_join", !.job = current[k]] \in Calls
      BY <2>1, CallFields DEF Places
    <2>3. call' \in [Callers -> Calls]
      BY <1>30, <2>2, CallUpdate DEF DrainPick
    <2>4. QED
      BY <1>30, <2>3 DEF DrainPick, TypeOK, owner, slots, sweep
  <1>31. ASSUME NEW c \in Callers,
               DrainJoin(c)
        PROVE  TypeOK'
    <2>1. job' \in [JobIds -> Jobs]
      BY <1>31, JoinType DEF DrainJoin, WorkerStates
    <2>2. [call[c] EXCEPT !.at = "drain", !.job = NoJob] \in Calls
      BY CallFields DEF Places, TypeOK
    <2>3. call' \in [Callers -> Calls]
      BY <1>31, <2>2, CallUpdate DEF DrainJoin
    <2>4. QED
      BY <1>31, <2>1, <2>3 DEF DrainJoin, TypeOK, owner, slots, sweep
  <1>32. ASSUME NEW c \in Callers,
               ShutdownReturns(c)
        PROVE  TypeOK'
    <2>1. call' \in [Callers -> Calls]
      BY <1>32, ReturnType DEF ShutdownReturns
    <2>2. QED
      BY <1>32, <2>1 DEF ShutdownReturns, TypeOK, owner, slots, sweep
  <1>33. CASE UNCHANGED vars
    BY <1>33 DEF TypeOK, vars, owner, slots, sweep
  <1>34. QED
    BY <1>1, <1>2, <1>3, <1>4, <1>5, <1>6, <1>7, <1>8, <1>9, <1>10, <1>11, <1>12, <1>13, <1>14,
       <1>15, <1>16, <1>17, <1>18, <1>19, <1>20, <1>21, <1>22, <1>23, <1>24, <1>25, <1>26,
       <1>27, <1>28, <1>29, <1>30, <1>31, <1>32, <1>33
       DEF Next, CallerStep, WorkerStep, SweepStep

LEMMA TypeInit == Init => TypeOK
  <1>. SUFFICES ASSUME Init PROVE TypeOK
    OBVIOUS
  <1>1. Unborn \in Jobs
    BY DEF Unborn, Jobs, Phases, Gates, WorkerStates
  <1>2. next_job_generation \in 0..MaxGeneration /\ active_reservations \in Int
    BY ConstantsAssumption DEF Init
  <1>3. job \in [JobIds -> Jobs] /\ call \in [Callers -> Calls]
    BY <1>1, IdleType DEF Init
  <1>4. /\ current \in [Configs -> JobIds \cup {NoJob}]
        /\ reserved \in [Configs -> JobIds \cup {NoJob}]
        /\ target \in [Actors -> JobIds \cup {NoJob}]
    BY DEF Init
  <1>5. stop_reserved \in [Configs -> BOOLEAN] /\ accepting \in BOOLEAN /\ stop_all_reserved \in BOOLEAN
    BY DEF Init
  <1>6. jobs \subseteq Configs /\ sweeping \subseteq Actors /\ drain_mutex \subseteq Callers
    BY DEF Init
  <1>7. QED
    BY <1>2, <1>3, <1>4, <1>5, <1>6 DEF TypeOK

\* Every variable of the owner keeps its type.
THEOREM TypeCorrect == Spec => []TypeOK
  BY TypeInit, TypeStep, PTL DEF Spec

-----------------------------------------------------------------------------
(* Steps that OwnerInv does not see *)

\* A job keeps its config and its gate, and does not come alive or complete.
SameShape(j, i) ==
    /\ i.config_id = j.config_id
    /\ i.gate = j.gate
    /\ i.worker = "running" => j.worker = "running"
    /\ i.worker \in LiveWorker => j.worker \in LiveWorker
    /\ j.worker = "none" => i.worker = "none"
    /\ i.phase = "completed" <=> j.phase = "completed"

\* A caller takes no job into Holding or Committing.
SameHold(r, s) ==
    /\ s.at \in Holding => /\ r.at \in Holding /\ s.job = r.job /\ s.config = r.config
                           /\ s.at # "join_cancelled" => r.at # "join_cancelled"
    /\ s.at \in Committing => r.at \in Committing /\ s.job = r.job

JobFrame == \A g \in JobIds : SameShape(job[g], job'[g])
CallFrame == \A c \in Callers : SameHold(call[c], call'[c])

LEMMA FrameInv ==
    ASSUME TypeOK, OwnerInv, JobFrame, CallFrame,
           UNCHANGED <<current, reserved, next_job_generation>>
    PROVE  OwnerInv'
  <1>1. \A k \in Configs : current[k] \in JobIds \cup {NoJob} /\ reserved[k] \in JobIds \cup {NoJob}
    BY DEF TypeOK
  <1>2. \A c \in Callers : call[c].job \in JobIds \cup {NoJob}
    BY CallFields DEF TypeOK
  <1>3. UnbornHasNoWorker'
    BY DEF OwnerInv, UnbornHasNoWorker, JobFrame, SameShape
  <1>4. SlotsOfConfig'
    BY <1>1 DEF OwnerInv, SlotsOfConfig, JobFrame, SameShape
  <1>5. HeldIsReserved'
    BY <1>2 DEF OwnerInv, HeldIsReserved, JobFrame, SameShape, CallFrame, SameHold
  <1>6. CommittingIsCurrent'
    BY <1>2 DEF OwnerInv, CommittingIsCurrent, JobFrame, SameShape, CallFrame, SameHold
  <1>7. OneHolder'
    BY DEF OwnerInv, OneHolder, CallFrame, SameHold
  <1>8. LiveIsCurrent'
    BY DEF OwnerInv, LiveIsCurrent, JobFrame, SameShape
  <1>9. QED
    BY <1>3, <1>4, <1>5, <1>6, <1>7, <1>8 DEF OwnerInv

LEMMA SameShapeItself == \A j : SameShape(j, j)
  BY DEF SameShape

LEMMA SameHoldItself == \A r : SameHold(r, r)
  BY DEF SameHold

\* The operators that stop, report and join keep the shape of a job.
LEMMA ShapeKept ==
    ASSUME NEW j \in Jobs, NEW now \in ClockReadings
    PROVE  /\ j.phase # "completed" => SameShape(j, Stopping(j, now))
           /\ \A t \in Nat : j.phase # "completed" => SameShape(j, StoppingAt(j, t))
           /\ SameShape(j, discard_pending_progress(j))
           /\ SameShape(j, publish_pending_progress(j, now))
           /\ SameShape(j, Stage(j)) /\ SameShape(j, Publish(j, now))
           /\ SameShape(j, [j EXCEPT !.stop = TRUE])
           /\ j.worker # "none" => SameShape(j, [j EXCEPT !.worker = "joined"])
           /\ j.worker = "preparing" => \A w \in {"gated", "exited"} :
                 SameShape(j, [j EXCEPT !.worker = w])
  BY DEF SameShape, Stopping, StoppingAt, discard_pending_progress,
         publish_pending_progress, Stage, Publish, Jobs, LiveWorker

\* One job record is replaced by one of the same shape.
LEMMA JobFrameUpdate ==
    ASSUME TypeOK, NEW g, NEW j, g \in JobIds => SameShape(job[g], j),
           job' = [job EXCEPT ![g] = j]
    PROVE  JobFrame
  BY SameShapeItself DEF JobFrame, TypeOK

\* A caller that is not in the middle of a start goes on, or any caller returns.
LEMMA HoldKept ==
    ASSUME NEW r \in Calls
    PROVE  /\ SameHold(r, Idle)
           /\ \A p \in Places \ (Holding \cup Committing) :
                 SameHold(r, [r EXCEPT !.at = p])
  BY IdleType DEF SameHold, Calls, Idle, Holding, Committing, Places

LEMMA CallFrameUpdate ==
    ASSUME TypeOK, NEW c \in Callers, NEW s, SameHold(call[c], s),
           call' = [call EXCEPT ![c] = s]
    PROVE  CallFrame
  BY SameHoldItself DEF CallFrame, TypeOK

LEMMA ReturnFrame ==
    ASSUME TypeOK, NEW c \in Callers, Return(c)
    PROVE  CallFrame
  <1>1. SameHold(call[c], Idle)
    BY HoldKept DEF TypeOK
  <1>2. QED
    BY <1>1, CallFrameUpdate DEF Return

LEMMA GotoFrame ==
    ASSUME TypeOK, NEW c \in Callers,
           NEW p \in Places \ (Holding \cup Committing), Goto(c, p)
    PROVE  CallFrame
  <1>1. SameHold(call[c], [call[c] EXCEPT !.at = p])
    BY HoldKept DEF TypeOK
  <1>2. QED
    BY <1>1, CallFrameUpdate DEF Goto

LEMMA RaiseFrame ==
    ASSUME TypeOK, NEW g, job' = [job EXCEPT ![g].stop = TRUE]
    PROVE  JobFrame
  <1>1. PICK now \in ClockReadings : TRUE
    BY ConstantsAssumption
  <1>2. g \in JobIds => SameShape(job[g], [job[g] EXCEPT !.stop = TRUE])
    BY ShapeKept DEF TypeOK
  <1>3. QED
    BY <1>2, JobFrameUpdate

LEMMA JoinFrame ==
    ASSUME TypeOK, NEW g, Joinable(g), job' = [job EXCEPT ![g].worker = "joined"]
    PROVE  JobFrame
  <1>1. PICK now \in ClockReadings : TRUE
    BY ConstantsAssumption
  <1>2. g \in JobIds => SameShape(job[g], [job[g] EXCEPT !.worker = "joined"])
    BY ShapeKept DEF TypeOK, Joinable
  <1>3. QED
    BY <1>2, JobFrameUpdate

LEMMA ReapShape ==
    ASSUME TypeOK, NEW k \in Configs, NEW g \in JobIds
    PROVE  SameShape(job[g], ReapPrevious(k)[g])
  <1>1. PICK now \in ClockReadings : TRUE
    BY ConstantsAssumption
  <1>2. CASE ReapPrevious(k) = job
    BY <1>2, SameShapeItself
  <1>3. CASE Joinable(current[k]) /\ ReapPrevious(k) = [job EXCEPT ![current[k]].worker = "joined"]
    <2>1. job[g] \in Jobs
      BY DEF TypeOK
    <2>2. g = current[k] => SameShape(job[g], [job[g] EXCEPT !.worker = "joined"])
      BY <1>3, <2>1, ShapeKept DEF Joinable
    <2>3. QED
      BY <1>3, <2>2, SameShapeItself DEF TypeOK
  <1>4. QED
    BY <1>2, <1>3 DEF ReapPrevious

LEMMA ResolvedFrame ==
    ASSUME TypeOK, NEW c \in Callers, NEW commit \in BOOLEAN, NEW now \in ClockReadings,
           Resolved(c, commit, now)
    PROVE  JobFrame /\ CallFrame
  <1>1. ASSUME NEW g \in JobIds
        PROVE  SameShape(job[g], CommittedJob(c, g, now)) /\ SameShape(job[g], AbortedJob(g, now))
    <2>1. job[g] \in Jobs /\ call[c].stamp[g] \in Nat
      BY DEF TypeOK, Calls
    <2>2. g \in Transitions(c) => job[g].phase # "completed"
      BY DEF Transitions
    <2>3. QED
      BY <2>1, <2>2, ShapeKept DEF CommittedJob, AbortedJob
  <1>2. JobFrame
    BY <1>1, SameShapeItself DEF Resolved, JobFrame, TypeOK
  <1>3. SameHold(call[c], Idle)
    BY HoldKept DEF TypeOK
  <1>4. SameHold(call[c], [Idle EXCEPT !.at = "deliver", !.captured = Transitions(c)])
    BY DEF SameHold, Idle, Holding, Committing
  <1>5. CallFrame
    BY <1>3, <1>4, CallFrameUpdate DEF Resolved
  <1>6. QED
    BY <1>2, <1>5

LEMMA JobSame == UNCHANGED job => JobFrame
  BY SameShapeItself DEF JobFrame

LEMMA CallSame == UNCHANGED call => CallFrame
  BY SameHoldItself DEF CallFrame

LEMMA CaptureFrame ==
    ASSUME TypeOK, NEW c \in Callers, NEW p \in {"stop_held", "stop_all_held"},
           NEW k, NEW captured, NEW now, Capture(c, p, k, captured, now)
    PROVE  CallFrame
  <1>1. \A x, y : SameHold(call[c], [Idle EXCEPT !.at = p, !.config = k,
                      !.captured = captured, !.running = x, !.stamp = y])
    BY DEF SameHold, Idle, Holding, Committing
  <1>2. QED
    BY <1>1, CallFrameUpdate DEF Capture


-----------------------------------------------------------------------------
(* Steps that take, hand on or give up a reservation, or end a backend *)

OnlyJob(g) == \A h \in JobIds \ {g} : SameShape(job[h], job'[h])
OnlyCaller(c) == \A d \in Callers \ {c} : call'[d] = call[d]

LEMMA SlotTypes ==
    TypeOK => /\ \A k \in Configs : /\ current[k] \in JobIds \cup {NoJob}
                                    /\ reserved[k] \in JobIds \cup {NoJob}
              /\ \A g \in JobIds : /\ job[g] \in Jobs
                                   /\ job[g].config_id \in Configs \cup {NoConfig}
              /\ \A c \in Callers : call[c] \in Calls /\ call[c].job \in JobIds \cup {NoJob}
  BY CallFields DEF TypeOK, Jobs

\* Whoever holds a start reservation holds an uncommitted successor of its slot.
LEMMA HeldJob ==
    ASSUME TypeOK, OwnerInv, NEW c \in Callers, call[c].at \in Holding
    PROVE  /\ call[c].config \in Configs /\ call[c].job \in JobIds
           /\ reserved[call[c].config] = call[c].job
           /\ job[call[c].job].config_id = call[c].config
           /\ job[call[c].job].gate # "committed"
           /\ current[call[c].config] # call[c].job
           /\ call[c].at # "join_cancelled" => job[call[c].job].gate = "pending"
  BY SlotTypes DEF OwnerInv, HeldIsReserved, SlotsOfConfig

\* Whoever has committed but not yet opened the gate installed the current job.
LEMMA CommittingJob ==
    ASSUME TypeOK, OwnerInv, NEW c \in Callers, call[c].at \in Committing
    PROVE  /\ call[c].job \in JobIds
           /\ job[call[c].job].gate = "pending"
           /\ job[call[c].job].config_id \in Configs
           /\ current[job[call[c].job].config_id] = call[c].job
           /\ job[call[c].job].phase # "completed"
  BY SlotTypes DEF OwnerInv, CommittingIsCurrent

\* One job and one caller change; the slots stay.
LEMMA ReleaseGateInv ==
    ASSUME TypeOK, OwnerInv, NEW c \in Callers, ReleaseGate(c)
    PROVE  OwnerInv'
  <1> DEFINE g == call[c].job
  <1>1. /\ g \in JobIds /\ job[g].gate = "pending" /\ job[g].config_id \in Configs
        /\ current[job[g].config_id] = g /\ job[g].phase # "completed"
    BY CommittingJob DEF ReleaseGate, At, Committing
  <1>2. /\ job'[g].gate = "committed" /\ job'[g].config_id = job[g].config_id
        /\ job'[g].phase = job[g].phase /\ job'[g].worker = job[g].worker
        /\ OnlyJob(g)
    BY <1>1, SameShapeItself DEF ReleaseGate, OnlyJob, TypeOK, Jobs
  <1>3. call'[c].at = "idle" /\ OnlyCaller(c)
    BY DEF ReleaseGate, Return, Idle, OnlyCaller, TypeOK
  <1>4. UNCHANGED <<current, reserved, next_job_generation>>
    BY DEF ReleaseGate, owner, slots
  <1>5. call[c].at \in Committing
    BY DEF ReleaseGate, At, Committing
  <1> HIDE DEF g
  <1>6. UnbornHasNoWorker'
    BY <1>1, <1>2, <1>4, ConstantsAssumption
       DEF OwnerInv, UnbornHasNoWorker, OnlyJob, SameShape
  <1>7. SlotsOfConfig'
    BY <1>1, <1>2, <1>4, SlotTypes DEF OwnerInv, SlotsOfConfig, OnlyJob, SameShape
  <1>8. HeldIsReserved'
    <2>1. \A d \in Callers \ {c} : call[d].at \in Holding => call[d].job # g
      BY <1>5 DEF OwnerInv, OneHolder, g
    <2>2. QED
      BY <2>1, <1>2, <1>3, <1>4, SlotTypes
         DEF OwnerInv, HeldIsReserved, OnlyJob, OnlyCaller, SameShape, Holding
  <1>9. CommittingIsCurrent'
    <2>1. \A d \in Callers \ {c} : call[d].at \in Committing => call[d].job # g
      BY <1>5 DEF OwnerInv, OneHolder, g
    <2>2. QED
      BY <2>1, <1>2, <1>3, <1>4, SlotTypes
         DEF OwnerInv, CommittingIsCurrent, OnlyJob, OnlyCaller, SameShape, Committing
  <1>10. OneHolder'
    BY <1>3 DEF OwnerInv, OneHolder, OnlyCaller, Holding, Committing
  <1>11. LiveIsCurrent'
    BY <1>1, <1>2, <1>4, ConstantsAssumption DEF OwnerInv, LiveIsCurrent, OnlyJob, SameShape
  <1>12. QED
    BY <1>6, <1>7, <1>8, <1>9, <1>10, <1>11 DEF OwnerInv

LEMMA CancelStartInv ==
    ASSUME TypeOK, OwnerInv, NEW c \in Callers, CancelStart(c)
    PROVE  OwnerInv'
  <1> DEFINE g == call[c].job
  <1>1. /\ g \in JobIds /\ call[c].config \in Configs /\ reserved[call[c].config] = g
        /\ job[g].gate = "pending" /\ job[g].config_id = call[c].config
    BY HeldJob DEF CancelStart, At, Holding
  <1>2. /\ job'[g].gate = "cancelled" /\ job'[g].config_id = job[g].config_id
        /\ job'[g].phase = job[g].phase /\ job'[g].worker = job[g].worker
        /\ OnlyJob(g)
    BY <1>1, SameShapeItself DEF CancelStart, OnlyJob, TypeOK, Jobs
  <1>3. /\ call'[c].at = "join_cancelled" /\ call'[c].job = g
        /\ call'[c].config = call[c].config /\ OnlyCaller(c)
    BY SlotTypes DEF CancelStart, Goto, OnlyCaller, TypeOK, Calls
  <1>4. UNCHANGED <<current, reserved, next_job_generation>>
    BY DEF CancelStart, owner, slots
  <1>5. call[c].at \in Holding
    BY DEF CancelStart, At, Holding
  <1>6. \A d \in Callers \ {c} : call[d].at \in Holding \cup Committing => call[d].job # g
    BY <1>5 DEF OwnerInv, OneHolder
  <1> HIDE DEF g
  <1>7. UnbornHasNoWorker'
    BY <1>1, <1>2, <1>4, ConstantsAssumption
       DEF OwnerInv, UnbornHasNoWorker, OnlyJob, SameShape
  <1>8. SlotsOfConfig'
    BY <1>1, <1>2, <1>4, SlotTypes DEF OwnerInv, SlotsOfConfig, OnlyJob, SameShape
  <1>9. HeldIsReserved'
    BY <1>1, <1>6, <1>2, <1>3, <1>4, SlotTypes
       DEF OwnerInv, HeldIsReserved, OnlyJob, OnlyCaller, SameShape, Holding, NoJob, JobIds
  <1>10. CommittingIsCurrent'
    BY <1>6, <1>2, <1>3, <1>4, SlotTypes
       DEF OwnerInv, CommittingIsCurrent, OnlyJob, OnlyCaller, SameShape, Committing
  <1>11. OneHolder'
    BY <1>3, <1>6 DEF OwnerInv, OneHolder, OnlyCaller, Holding, Committing
  <1>12. LiveIsCurrent'
    BY <1>1, <1>2, <1>4 DEF OwnerInv, LiveIsCurrent, OnlyJob, SameShape
  <1>13. QED
    BY <1>7, <1>8, <1>9, <1>10, <1>11, <1>12 DEF OwnerInv

\* The worker goes on only if it was committed, and is the current one then.
LEMMA PassGateInv ==
    ASSUME TypeOK, OwnerInv, NEW g \in JobIds, PassGate(g)
    PROVE  OwnerInv'
  <1>1. /\ job'[g].gate = job[g].gate /\ job'[g].config_id = job[g].config_id
        /\ job'[g].phase = job[g].phase
        /\ job'[g].worker = IF job[g].gate = "committed" THEN "running" ELSE "exited"
        /\ OnlyJob(g)
    BY SameShapeItself DEF PassGate, OnlyJob, TypeOK, Jobs
  <1>2. UNCHANGED <<current, reserved, next_job_generation, call>>
    BY DEF PassGate, owner, slots
  <1>3. job[g].worker = "gated"
    BY DEF PassGate
  <1>4. UnbornHasNoWorker'
    BY <1>1, <1>2, <1>3 DEF OwnerInv, UnbornHasNoWorker, OnlyJob, SameShape
  <1>5. SlotsOfConfig'
    BY <1>1, <1>2, SlotTypes DEF OwnerInv, SlotsOfConfig, OnlyJob, SameShape
  <1>6. HeldIsReserved'
    BY <1>1, <1>2, SlotTypes DEF OwnerInv, HeldIsReserved, OnlyJob, SameShape
  <1>7. CommittingIsCurrent'
    BY <1>1, <1>2, SlotTypes DEF OwnerInv, CommittingIsCurrent, OnlyJob, SameShape
  <1>8. OneHolder'
    BY <1>2 DEF OwnerInv, OneHolder
  <1>9. LiveIsCurrent'
    BY <1>1, <1>2, <1>3 DEF OwnerInv, LiveIsCurrent, OnlyJob, SameShape, LiveWorker
  <1>10. QED
    BY <1>4, <1>5, <1>6, <1>7, <1>8, <1>9 DEF OwnerInv

\* A backend that returns was committed, so nobody holds or commits its job.
LEMMA FinishInv ==
    ASSUME TypeOK, OwnerInv, NEW g \in JobIds, NEW now \in ClockReadings, Finish(g, now)
    PROVE  OwnerInv'
  <1>1. /\ job'[g].gate = job[g].gate /\ job'[g].config_id = job[g].config_id
        /\ job'[g].phase = "completed" /\ job'[g].worker = "exited"
        /\ OnlyJob(g)
    BY SameShapeItself DEF Finish, Terminal, OnlyJob, TypeOK, Jobs
  <1>2. UNCHANGED <<current, reserved, next_job_generation, call>>
    BY DEF Finish, owner, slots
  <1>3. job[g].worker = "running" /\ job[g].gate = "committed"
    BY DEF Finish, OwnerInv, LiveIsCurrent
  <1>4. UnbornHasNoWorker'
    BY <1>1, <1>2, <1>3 DEF OwnerInv, UnbornHasNoWorker, OnlyJob, SameShape
  <1>5. SlotsOfConfig'
    BY <1>1, <1>2, <1>3, SlotTypes DEF OwnerInv, SlotsOfConfig, OnlyJob, SameShape
  <1>6. HeldIsReserved'
    BY <1>1, <1>2, SlotTypes DEF OwnerInv, HeldIsReserved, OnlyJob, SameShape
  <1>7. CommittingIsCurrent'
    BY <1>1, <1>2, <1>3, SlotTypes DEF OwnerInv, CommittingIsCurrent, OnlyJob, SameShape
  <1>8. OneHolder'
    BY <1>2 DEF OwnerInv, OneHolder
  <1>9. LiveIsCurrent'
    BY <1>1, <1>2, <1>3 DEF OwnerInv, LiveIsCurrent, OnlyJob, SameShape, LiveWorker
  <1>10. QED
    BY <1>4, <1>5, <1>6, <1>7, <1>8, <1>9 DEF OwnerInv

\* The reserved job becomes the current one of its config; the one it replaces
\* is completed, so nobody is committing it and its worker is not live.
LEMMA CommitStartInv ==
    ASSUME TypeOK, OwnerInv, NEW c \in Callers, NEW now \in ClockReadings, CommitStart(c, now)
    PROVE  OwnerInv'
  <1> DEFINE g == call[c].job
             k == call[c].config
  <1>1. /\ g \in JobIds /\ k \in Configs /\ reserved[k] = g /\ current[k] # g
        /\ job[g].gate = "pending" /\ job[g].config_id = k
    BY HeldJob DEF CommitStart, At, Holding
  <1>2. k # NoConfig /\ g # NoJob
    BY <1>1, ConstantsAssumption DEF JobIds, NoJob
  <1>3. /\ job'[g].gate = "pending" /\ job'[g].config_id = k
        /\ job'[g].phase # "completed" /\ job'[g].worker = job[g].worker
    BY <1>1 DEF CommitStart, Stopping, TypeOK, Jobs
  <1>4. \A h \in JobIds \ {g} : job'[h] = job[h]
    BY <1>1 DEF CommitStart, TypeOK
  <1>5. /\ call'[c].at \in Committing /\ call'[c].job = g /\ OnlyCaller(c)
    BY SlotTypes DEF CommitStart, Goto, OnlyCaller, TypeOK, Calls, Committing
  <1>6. /\ current' = [current EXCEPT ![k] = g] /\ reserved' = [reserved EXCEPT ![k] = NoJob]
        /\ UNCHANGED next_job_generation
    BY DEF CommitStart
  <1>7. \A d \in Callers \ {c} : call[d].at \in Holding \cup Committing => call[d].job # g
    BY DEF OwnerInv, OneHolder, CommitStart, At, Holding
  <1>8. current[k] # NoJob => job[current[k]].phase = "completed"
    BY <1>1, <1>2 DEF OwnerInv, SlotsOfConfig
  <1>9. /\ current'[k] = g /\ reserved'[k] = NoJob
        /\ \A l \in Configs \ {k} : current'[l] = current[l] /\ reserved'[l] = reserved[l]
    BY <1>1, <1>6 DEF TypeOK
  <1>10. call'[c].at \notin Holding
    BY <1>5 DEF Holding, Committing
  <1> HIDE DEF g, k
  <1>11. UnbornHasNoWorker'
    BY <1>1, <1>2, <1>3, <1>4, <1>6 DEF OwnerInv, UnbornHasNoWorker
  <1>12. SlotsOfConfig'
    <2>1. \A l \in Configs \ {k} : current[l] # g /\ reserved[l] # g
      BY <1>1, <1>2 DEF OwnerInv, SlotsOfConfig
    <2>2. QED
      BY <2>1, <1>3, <1>4, <1>9, SlotTypes DEF OwnerInv, SlotsOfConfig
  <1>13. HeldIsReserved'
    BY <1>1, <1>4, <1>5, <1>7, <1>9, <1>10, SlotTypes DEF OwnerInv, HeldIsReserved, OnlyCaller
  <1>14. CommittingIsCurrent'
    <2>1. ASSUME NEW d \in Callers \ {c}, call[d].at \in Committing
          PROVE  /\ call[d].job \in JobIds \ {g} /\ job[call[d].job].config_id \in Configs \ {k}
                 /\ current'[job[call[d].job].config_id] = call[d].job
      BY <2>1, <1>7, <1>8, <1>9, CommittingJob DEF NoJob, JobIds
    <2>2. ASSUME NEW d \in Callers, call'[d].at \in Committing
          PROVE  LET i == call'[d].job IN
                 /\ i # NoJob /\ job'[i].gate = "pending"
                 /\ job'[i].config_id # NoConfig /\ current'[job'[i].config_id] = i
                 /\ job'[i].phase # "completed"
      <3>1. CASE d = c
        BY <3>1, <1>2, <1>3, <1>5, <1>9
      <3>2. CASE d # c
        BY <3>2, <2>1, <2>2, <1>4, <1>5, CommittingJob, ConstantsAssumption
           DEF OnlyCaller, NoJob, JobIds
      <3>3. QED
        BY <3>1, <3>2
    <2>3. QED
      BY <2>2 DEF CommittingIsCurrent
  <1>15. OneHolder'
    BY <1>5, <1>7 DEF OwnerInv, OneHolder, OnlyCaller
  <1>16. LiveIsCurrent'
    <2>1. ASSUME NEW h \in JobIds \ {g}, job[h].gate = "committed", job[h].worker \in LiveWorker
          PROVE  job[h].config_id # k /\ current'[job[h].config_id] = current[job[h].config_id]
      BY <2>1, <1>8, <1>9, SlotTypes DEF OwnerInv, LiveIsCurrent, NoJob, JobIds
    <2>2. job[g].worker # "running"
      BY <1>1 DEF OwnerInv, LiveIsCurrent
    <2>3. QED
      BY <2>1, <2>2, <1>3, <1>4 DEF OwnerInv, LiveIsCurrent
  <1>17. QED
    BY <1>11, <1>12, <1>13, <1>14, <1>15, <1>16 DEF OwnerInv

\* A reservation is given up: its slot is free and its holder holds nothing.
LEMMA GiveUpInv ==
    ASSUME TypeOK, OwnerInv, NEW c \in Callers, call[c].at \in Holding,
           call'[c].at \notin Holding \cup Committing, OnlyCaller(c), JobFrame,
           reserved' = [reserved EXCEPT ![call[c].config] = NoJob],
           UNCHANGED <<current, next_job_generation>>
    PROVE  OwnerInv'
  <1> DEFINE k == call[c].config
  <1>1. k \in Configs /\ reserved[k] = call[c].job /\ call[c].job \in JobIds
    BY HeldJob
  <1>2. /\ reserved'[k] = NoJob
        /\ \A l \in Configs \ {k} : reserved'[l] = reserved[l]
    BY <1>1 DEF TypeOK
  <1>3. UnbornHasNoWorker'
    BY DEF OwnerInv, UnbornHasNoWorker, JobFrame, SameShape
  <1>4. SlotsOfConfig'
    BY <1>2, SlotTypes DEF OwnerInv, SlotsOfConfig, JobFrame, SameShape
  <1>5. HeldIsReserved'
    <2>1. \A d \in Callers \ {c} : call[d].at \in Holding => call[d].job # call[c].job
      BY DEF OwnerInv, OneHolder
    <2>2. QED
      BY <2>1, <1>1, <1>2, SlotTypes
         DEF OwnerInv, HeldIsReserved, OnlyCaller, JobFrame, SameShape
  <1>6. CommittingIsCurrent'
    BY SlotTypes DEF OwnerInv, CommittingIsCurrent, OnlyCaller, JobFrame, SameShape
  <1>7. OneHolder'
    BY DEF OwnerInv, OneHolder, OnlyCaller
  <1>8. LiveIsCurrent'
    BY DEF OwnerInv, LiveIsCurrent, JobFrame, SameShape
  <1>9. QED
    BY <1>3, <1>4, <1>5, <1>6, <1>7, <1>8 DEF OwnerInv

LEMMA PreparationFailedInv ==
    ASSUME TypeOK, OwnerInv, NEW c \in Callers, PreparationFailed(c)
    PROVE  OwnerInv'
  <1>1. call[c].at \in Holding
    BY DEF PreparationFailed, At, Holding
  <1>2. call'[c].at \notin Holding \cup Committing /\ OnlyCaller(c)
    BY SlotTypes DEF PreparationFailed, Goto, OnlyCaller, TypeOK, Calls, Holding, Committing
  <1>3. QED
    BY <1>1, <1>2, JobSame, GiveUpInv DEF PreparationFailed

LEMMA JoinCancelledInv ==
    ASSUME TypeOK, OwnerInv, NEW c \in Callers, JoinCancelled(c)
    PROVE  OwnerInv'
  <1>1. call[c].at \in Holding
    BY DEF JoinCancelled, At, Holding
  <1>2. call'[c].at \notin Holding \cup Committing /\ OnlyCaller(c)
    BY DEF JoinCancelled, Return, Idle, OnlyCaller, TypeOK, Holding, Committing
  <1>3. JobFrame
    BY JoinFrame DEF JoinCancelled, Exited, Joinable
  <1>4. QED
    BY <1>1, <1>2, <1>3, GiveUpInv DEF JoinCancelled

\* The generation a start takes is unknown to every slot and every caller.
LEMMA FreshGeneration ==
    ASSUME TypeOK, OwnerInv, TakeGeneration
    PROVE  LET n == next_job_generation IN
           /\ n \in JobIds /\ n # NoJob /\ job[n].config_id = NoConfig
           /\ \A k \in Configs : current[k] # n /\ reserved[k] # n
           /\ \A c \in Callers : call[c].at \in Holding \cup Committing => call[c].job # n
           /\ next_job_generation' # 0 =>
                 \A h \in JobIds : h >= next_job_generation' => h > n
  <1> DEFINE n == next_job_generation
  <1>1. n \in 1..MaxGeneration
    BY DEF TakeGeneration, TypeOK
  <1>2. n \in JobIds /\ n # NoJob /\ job[n].config_id = NoConfig
    BY <1>1 DEF OwnerInv, UnbornHasNoWorker, JobIds, NoJob
  <1>3. \A k \in Configs : current[k] # n /\ reserved[k] # n
    BY <1>2, ConstantsAssumption DEF OwnerInv, SlotsOfConfig
  <1>4. \A c \in Callers : call[c].at \in Holding \cup Committing => call[c].job # n
    BY <1>2, HeldJob, CommittingJob, ConstantsAssumption
  <1>5. n = MaxGeneration => (n + 1) % (MaxGeneration + 1) = 0
    BY ConstantsAssumption
  <1>6. n # MaxGeneration => (n + 1) % (MaxGeneration + 1) = n + 1
    BY <1>1, ConstantsAssumption
  <1>7. next_job_generation' # 0 => next_job_generation' = n + 1
    BY <1>5, <1>6 DEF TakeGeneration
  <1>8. QED
    BY <1>1, <1>2, <1>3, <1>4, <1>7 DEF JobIds

LEMMA PrepareStartInv ==
    ASSUME TypeOK, OwnerInv, NEW c \in Callers, NEW k \in Configs, NEW kind \in BackendKinds,
           NEW now \in ClockReadings, PrepareStart(c, k, kind, now)
    PROVE  OwnerInv'
  <1> DEFINE n == next_job_generation
  <1>1. /\ n \in JobIds /\ n # NoJob /\ job[n].config_id = NoConfig
        /\ \A l \in Configs : current[l] # n /\ reserved[l] # n
        /\ \A d \in Callers : call[d].at \in Holding \cup Committing => call[d].job # n
        /\ next_job_generation' # 0 => \A h \in JobIds : h >= next_job_generation' => h > n
    BY FreshGeneration DEF PrepareStart
  <1>2. /\ job'[n].config_id = k /\ job'[n].gate = "pending" /\ job'[n].phase = "completed"
        /\ job'[n].worker # "running"
    BY <1>1, ReapType DEF PrepareStart, NewJob, Unborn
  <1>3. OnlyJob(n)
    BY <1>1, ReapShape, ReapType DEF PrepareStart, OnlyJob
  <1>4. /\ call'[c].at \in Holding /\ call'[c].at # "join_cancelled" /\ call'[c].at \notin Committing
        /\ call'[c].config = k /\ call'[c].job = n
        /\ OnlyCaller(c)
    BY DEF PrepareStart, Idle, OnlyCaller, TypeOK, Holding, Committing
  <1>5. /\ reserved' = [reserved EXCEPT ![k] = n]
        /\ UNCHANGED current
    BY DEF PrepareStart
  <1>6. reserved'[k] = n /\ \A l \in Configs \ {k} : reserved'[l] = reserved[l]
    BY <1>5 DEF TypeOK
  <1>7. reserved[k] = NoJob /\ (current[k] # NoJob => job[current[k]].phase = "completed")
    BY DEF PrepareStart, StartAdmissible
  <1>8. k # NoConfig
    BY ConstantsAssumption
  <1> HIDE DEF n
  <1>9. UnbornHasNoWorker'
    <2>1. \A h \in JobIds : next_job_generation' # 0 /\ h >= next_job_generation' =>
              job'[h].config_id = NoConfig
      BY <1>1, <1>3, ConstantsAssumption
         DEF OwnerInv, UnbornHasNoWorker, OnlyJob, SameShape, n, PrepareStart, TakeGeneration,
             JobIds
    <2>2. \A h \in JobIds : job'[h].config_id = NoConfig =>
              job'[h].worker = "none" /\ job'[h].gate = "pending"
      BY <1>2, <1>3, <1>8 DEF OwnerInv, UnbornHasNoWorker, OnlyJob, SameShape
    <2>3. QED
      BY <2>1, <2>2 DEF UnbornHasNoWorker
  <1>10. SlotsOfConfig'
    BY <1>1, <1>2, <1>3, <1>5, <1>6, <1>7, SlotTypes
       DEF OwnerInv, SlotsOfConfig, OnlyJob, SameShape
  <1>11. HeldIsReserved'
    <2>1. \A d \in Callers \ {c} : call[d].at \in Holding =>
              call[d].config \in Configs \ {k} /\ call[d].job \in JobIds \ {n}
      BY <1>1, <1>7, HeldJob DEF JobIds, NoJob
    <2>2. QED
      BY <2>1, <1>1, <1>2, <1>3, <1>4, <1>6
         DEF OwnerInv, HeldIsReserved, OnlyJob, OnlyCaller, SameShape
  <1>12. CommittingIsCurrent'
    BY <1>1, <1>3, <1>4, <1>5, SlotTypes
       DEF OwnerInv, CommittingIsCurrent, OnlyJob, OnlyCaller, SameShape
  <1>13. OneHolder'
    BY <1>1, <1>4 DEF OwnerInv, OneHolder, OnlyCaller
  <1>14. LiveIsCurrent'
    BY <1>2, <1>3, <1>5 DEF OwnerInv, LiveIsCurrent, OnlyJob, SameShape
  <1>15. QED
    BY <1>9, <1>10, <1>11, <1>12, <1>13, <1>14 DEF OwnerInv

\* The failed generation has no worker; published or not, no slot reserves it.
LEMMA ThreadStartFailedInv ==
    ASSUME TypeOK, OwnerInv, NEW c \in Callers, NEW k \in Configs, NEW publish \in BOOLEAN,
           NEW now \in ClockReadings, NEW later \in ClockReadings,
           ThreadStartFailed(c, k, publish, now, later)
    PROVE  OwnerInv'
  <1> DEFINE n == next_job_generation
  <1>1. /\ n \in JobIds /\ n # NoJob /\ job[n].config_id = NoConfig
        /\ \A l \in Configs : current[l] # n /\ reserved[l] # n
        /\ \A d \in Callers : call[d].at \in Holding \cup Committing => call[d].job # n
        /\ next_job_generation' # 0 => \A h \in JobIds : h >= next_job_generation' => h > n
    BY FreshGeneration DEF ThreadStartFailed
  <1>2. /\ job'[n].config_id = k /\ job'[n].gate = "pending" /\ job'[n].phase = "completed"
        /\ job'[n].worker = "none"
    BY <1>1, ReapType DEF ThreadStartFailed, NewJob, Unborn
  <1>3. OnlyJob(n)
    BY <1>1, ReapShape, ReapType DEF ThreadStartFailed, OnlyJob
  <1>4. UNCHANGED <<call, reserved>>
    BY DEF ThreadStartFailed
  <1>5. /\ current'[k] \in {current[k], n}
        /\ \A l \in Configs \ {k} : current'[l] = current[l]
    BY DEF ThreadStartFailed, TypeOK
  <1>6. reserved[k] = NoJob /\ (current[k] # NoJob => job[current[k]].phase = "completed")
    BY DEF ThreadStartFailed, StartAdmissible
  <1>7. k # NoConfig
    BY ConstantsAssumption
  <1> HIDE DEF n
  <1>8. UnbornHasNoWorker'
    <2>1. \A h \in JobIds : next_job_generation' # 0 /\ h >= next_job_generation' =>
              job'[h].config_id = NoConfig
      BY <1>1, <1>3, ConstantsAssumption
         DEF OwnerInv, UnbornHasNoWorker, OnlyJob, SameShape, n, ThreadStartFailed,
             TakeGeneration, JobIds
    <2>2. \A h \in JobIds : job'[h].config_id = NoConfig =>
              job'[h].worker = "none" /\ job'[h].gate = "pending"
      BY <1>2, <1>3, <1>7 DEF OwnerInv, UnbornHasNoWorker, OnlyJob, SameShape
    <2>3. QED
      BY <2>1, <2>2 DEF UnbornHasNoWorker
  <1>9. SlotsOfConfig'
    BY <1>1, <1>2, <1>3, <1>4, <1>5, <1>6, SlotTypes
       DEF OwnerInv, SlotsOfConfig, OnlyJob, SameShape
  <1>10. HeldIsReserved'
    BY <1>1, <1>3, <1>4, SlotTypes DEF OwnerInv, HeldIsReserved, OnlyJob, SameShape
  <1>11. CommittingIsCurrent'
    <2>1. ASSUME NEW d \in Callers, call[d].at \in Committing
          PROVE  /\ call[d].job \in JobIds \ {n} /\ job[call[d].job].config_id \in Configs \ {k}
                 /\ current'[job[call[d].job].config_id] = call[d].job
      BY <2>1, <1>1, <1>5, <1>6, CommittingJob DEF NoJob, JobIds
    <2>2. QED
      BY <2>1, <1>3, <1>4, <1>5
         DEF OwnerInv, CommittingIsCurrent, OnlyJob, SameShape
  <1>12. OneHolder'
    BY <1>4 DEF OwnerInv, OneHolder
  <1>13. LiveIsCurrent'
    <2>1. ASSUME NEW h \in JobIds \ {n}, job[h].gate = "committed", job[h].worker \in LiveWorker
          PROVE  job[h].config_id # k /\ current'[job[h].config_id] = current[job[h].config_id]
      BY <2>1, <1>5, <1>6, SlotTypes DEF OwnerInv, LiveIsCurrent, NoJob, JobIds
    <2>2. QED
      BY <2>1, <1>2, <1>3 DEF OwnerInv, LiveIsCurrent, OnlyJob, SameShape
  <1>14. QED
    BY <1>8, <1>9, <1>10, <1>11, <1>12, <1>13 DEF OwnerInv

-----------------------------------------------------------------------------
(* OwnerInv is inductive *)

LEMMA InvStep == TypeOK /\ OwnerInv /\ [Next]_vars => OwnerInv'
  <1>. SUFFICES ASSUME TypeOK, OwnerInv, [Next]_vars PROVE OwnerInv'
    OBVIOUS
  <1>1. ASSUME NEW c \in Callers, NEW k \in Configs, NEW kind \in BackendKinds,
               NEW now \in ClockReadings,
               PrepareStart(c, k, kind, now)
        PROVE  OwnerInv'
    BY <1>1, PrepareStartInv
  <1>2. ASSUME NEW c \in Callers, NEW k \in Configs,
               StartExhausted(c, k)
        PROVE  OwnerInv'
    <2>1. JobFrame
      BY <1>2, ReapShape DEF StartExhausted, JobFrame
    <2>2. CallFrame
      BY <1>2, CallSame DEF StartExhausted
    <2>3. QED
      BY <1>2, <2>1, <2>2, FrameInv DEF StartExhausted, owner, slots
  <1>3. ASSUME NEW c \in Callers, NEW k \in Configs, NEW publish \in BOOLEAN,
               NEW now \in ClockReadings, NEW later \in ClockReadings,
               ThreadStartFailed(c, k, publish, now, later)
        PROVE  OwnerInv'
    BY <1>3, ThreadStartFailedInv
  <1>4. ASSUME NEW c \in Callers,
               PreparationSucceeded(c)
        PROVE  OwnerInv'
    <2>1. SameHold(call[c], [call[c] EXCEPT !.at = "start_held"])
      BY <1>4 DEF PreparationSucceeded, At, SameHold, TypeOK, Calls, Holding, Committing
    <2>2. JobFrame
      BY <1>4, JobSame DEF PreparationSucceeded
    <2>3. CallFrame
      BY <1>4, <2>1, CallFrameUpdate DEF PreparationSucceeded, Goto
    <2>4. QED
      BY <1>4, <2>2, <2>3, FrameInv DEF PreparationSucceeded, owner, slots
  <1>5. ASSUME NEW c \in Callers,
               PreparationFailed(c)
        PROVE  OwnerInv'
    BY <1>5, PreparationFailedInv
  <1>6. ASSUME NEW c \in Callers,
               JoinFailed(c)
        PROVE  OwnerInv'
    <2>1. JobFrame
      BY <1>6, JoinFrame DEF JoinFailed, Exited, Joinable
    <2>2. CallFrame
      BY <1>6, ReturnFrame DEF JoinFailed
    <2>3. QED
      BY <1>6, <2>1, <2>2, FrameInv DEF JoinFailed, owner, slots
  <1>7. ASSUME NEW c \in Callers, NEW now \in ClockReadings,
               CommitStart(c, now)
        PROVE  OwnerInv'
    BY <1>7, CommitStartInv
  <1>8. ASSUME NEW c \in Callers,
               StopBeforeRelease(c)
        PROVE  OwnerInv'
    <2>1. SameHold(call[c], [call[c] EXCEPT !.at = "release_gate"])
      BY <1>8 DEF StopBeforeRelease, At, SameHold, TypeOK, Calls, Holding, Committing
    <2>2. JobFrame
      BY <1>8, RaiseFrame DEF StopBeforeRelease
    <2>3. CallFrame
      BY <1>8, <2>1, CallFrameUpdate DEF StopBeforeRelease, Goto
    <2>4. QED
      BY <1>8, <2>2, <2>3, FrameInv DEF StopBeforeRelease, owner, slots
  <1>9. ASSUME NEW c \in Callers,
               ReleaseGate(c)
        PROVE  OwnerInv'
    BY <1>9, ReleaseGateInv
  <1>10. ASSUME NEW c \in Callers,
               CancelStart(c)
        PROVE  OwnerInv'
    BY <1>10, CancelStartInv
  <1>11. ASSUME NEW c \in Callers,
               JoinCancelled(c)
        PROVE  OwnerInv'
    BY <1>11, JoinCancelledInv
  <1>12. ASSUME NEW g \in JobIds, NEW ok \in BOOLEAN,
               Prepare(g, ok)
        PROVE  OwnerInv'
    <2>1. SameShape(job[g], [job[g] EXCEPT !.worker = IF ok THEN "gated" ELSE "exited"])
      BY <1>12 DEF Prepare, SameShape, TypeOK, Jobs, LiveWorker
    <2>2. JobFrame
      BY <1>12, <2>1, JobFrameUpdate DEF Prepare
    <2>3. CallFrame
      BY <1>12, CallSame DEF Prepare
    <2>4. QED
      BY <1>12, <2>2, <2>3, FrameInv DEF Prepare, owner, slots
  <1>13. ASSUME NEW g \in JobIds,
               PassGate(g)
        PROVE  OwnerInv'
    BY <1>13, PassGateInv
  <1>14. ASSUME NEW g \in JobIds, NEW now \in ClockReadings,
               Report(g, now)
        PROVE  OwnerInv'
    <2>1. SameShape(job[g], Stage(job[g])) /\ SameShape(job[g], Publish(job[g], now))
      BY ShapeKept DEF TypeOK
    <2>2. JobFrame
      BY <1>14, <2>1, JobFrameUpdate DEF Report
    <2>3. CallFrame
      BY <1>14, CallSame DEF Report
    <2>4. QED
      BY <1>14, <2>2, <2>3, FrameInv DEF Report, owner, slots
  <1>15. ASSUME NEW g \in JobIds, NEW now \in ClockReadings,
               Finish(g, now)
        PROVE  OwnerInv'
    BY <1>15, FinishInv
  <1>16. ASSUME NEW c \in Callers, NEW k \in Configs, NEW now \in ClockReadings,
               PrepareStop(c, k, now)
        PROVE  OwnerInv'
    <2>1. JobFrame
      BY <1>16, JobSame DEF PrepareStop
    <2>2. CallFrame
      BY <1>16, CaptureFrame DEF PrepareStop
    <2>3. QED
      BY <1>16, <2>1, <2>2, FrameInv DEF PrepareStop, owner, slots
  <1>17. ASSUME NEW c \in Callers, NEW now \in ClockReadings,
               PrepareStopAll(c, now)
        PROVE  OwnerInv'
    <2>1. JobFrame
      BY <1>17, JobSame DEF PrepareStopAll
    <2>2. CallFrame
      BY <1>17, CaptureFrame DEF PrepareStopAll
    <2>3. QED
      BY <1>17, <2>1, <2>2, FrameInv DEF PrepareStopAll, owner, slots
  <1>18. ASSUME NEW c \in Callers, NEW commit \in BOOLEAN, NEW now \in ClockReadings,
               ResolveStop(c, commit, now)
        PROVE  OwnerInv'
    <2>1. JobFrame
      BY <1>18, ResolvedFrame DEF ResolveStop
    <2>2. CallFrame
      BY <1>18, ResolvedFrame DEF ResolveStop
    <2>3. QED
      BY <1>18, <2>1, <2>2, FrameInv DEF ResolveStop, owner, slots
  <1>19. ASSUME NEW c \in Callers, NEW commit \in BOOLEAN, NEW now \in ClockReadings,
               ResolveStopAll(c, commit, now)
        PROVE  OwnerInv'
    <2>1. JobFrame
      BY <1>19, ResolvedFrame DEF ResolveStopAll
    <2>2. CallFrame
      BY <1>19, ResolvedFrame DEF ResolveStopAll
    <2>3. QED
      BY <1>19, <2>1, <2>2, FrameInv DEF ResolveStopAll, owner, slots
  <1>20. ASSUME NEW c \in Callers, NEW k \in Configs, NEW now \in ClockReadings,
               StopAfterShutdown(c, k, now)
        PROVE  OwnerInv'
    <2>1. SameShape(job[current[k]], Stopping(job[current[k]], now))
      BY <1>20, ShapeKept DEF StopAfterShutdown, TypeOK
    <2>2. SameHold(call[c], [Idle EXCEPT !.at = "deliver", !.captured = {current[k]}])
      BY DEF SameHold, Idle, Holding, Committing
    <2>3. JobFrame
      BY <1>20, <2>1, JobFrameUpdate DEF StopAfterShutdown
    <2>4. CallFrame
      BY <1>20, <2>2, CallFrameUpdate DEF StopAfterShutdown
    <2>5. QED
      BY <1>20, <2>3, <2>4, FrameInv DEF StopAfterShutdown, owner, slots
  <1>21. ASSUME NEW c \in Callers, NEW g \in JobIds,
               Deliver(c, g)
        PROVE  OwnerInv'
    <2>1. SameHold(call[c], Idle)
      BY HoldKept DEF TypeOK
    <2>2. SameHold(call[c], Delivered(call[c], g))
      BY DEF SameHold, Delivered, TypeOK, Calls
    <2>3. JobFrame
      BY <1>21, RaiseFrame DEF Deliver
    <2>4. CallFrame
      BY <1>21, <2>1, <2>2, CallFrameUpdate DEF Deliver
    <2>5. QED
      BY <1>21, <2>3, <2>4, FrameInv DEF Deliver, owner, slots
  <1>22. ASSUME NEW c \in Callers,
               Shutdown(c)
        PROVE  OwnerInv'
    <2>1. JobFrame
      BY <1>22, JobSame DEF Shutdown, Initiate
    <2>2. CallFrame
      BY <1>22, GotoFrame DEF Shutdown, Places, Holding, Committing
    <2>3. QED
      BY <1>22, <2>1, <2>2, FrameInv DEF Shutdown, Initiate, slots
  <1>23. ASSUME NEW c \in Callers,
               NestedShutdown(c)
        PROVE  OwnerInv'
    <2>1. JobFrame
      BY <1>23, JobSame DEF NestedShutdown, Initiate
    <2>2. CallFrame
      BY <1>23, CallSame DEF NestedShutdown
    <2>3. QED
      BY <1>23, <2>1, <2>2, FrameInv DEF NestedShutdown, Initiate, slots
  <1>24. ASSUME NEW g \in JobIds,
               WorkerShutdown(g)
        PROVE  OwnerInv'
    <2>1. JobFrame
      BY <1>24, JobSame DEF WorkerShutdown, Initiate
    <2>2. CallFrame
      BY <1>24, CallSame DEF WorkerShutdown
    <2>3. QED
      BY <1>24, <2>1, <2>2, FrameInv DEF WorkerShutdown, Initiate, slots
  <1>25. ASSUME NEW a \in Actors, NEW k \in Configs, NEW now \in ClockReadings,
               SweepFind(a, k, now)
        PROVE  OwnerInv'
    <2>1. current[k] \in JobIds =>
             /\ SameShape(job[current[k]], discard_pending_progress(job[current[k]]))
             /\ job[current[k]].phase = "running" =>
                   SameShape(job[current[k]], Stopping(discard_pending_progress(job[current[k]]), now))
      BY DEF TypeOK, Jobs, SameShape, Stopping, discard_pending_progress, LiveWorker
    <2>2. JobFrame
      BY <1>25, <2>1, JobSame, JobFrameUpdate DEF SweepFind
    <2>3. CallFrame
      BY <1>25, CallSame DEF SweepFind
    <2>4. QED
      BY <1>25, <2>2, <2>3, FrameInv DEF SweepFind, owner, slots
  <1>26. ASSUME NEW a \in Actors,
               SweepDeliver(a)
        PROVE  OwnerInv'
    <2>1. JobFrame
      BY <1>26, RaiseFrame DEF SweepDeliver
    <2>2. CallFrame
      BY <1>26, CallSame DEF SweepDeliver
    <2>3. QED
      BY <1>26, <2>1, <2>2, FrameInv DEF SweepDeliver, owner, slots
  <1>27. ASSUME NEW a \in Actors,
               SweepDone(a)
        PROVE  OwnerInv'
    <2>1. JobFrame
      BY <1>27, JobSame DEF SweepDone
    <2>2. CallFrame
      BY <1>27, CallSame DEF SweepDone
    <2>3. QED
      BY <1>27, <2>1, <2>2, FrameInv DEF SweepDone, owner, slots
  <1>28. ASSUME NEW c \in Callers,
               LockDrain(c)
        PROVE  OwnerInv'
    <2>1. JobFrame
      BY <1>28, JobSame DEF LockDrain
    <2>2. CallFrame
      BY <1>28, GotoFrame DEF LockDrain, Places, Holding, Committing
    <2>3. QED
      BY <1>28, <2>1, <2>2, FrameInv DEF LockDrain, owner, slots
  <1>29. ASSUME NEW c \in Callers,
               AwaitReservations(c)
        PROVE  OwnerInv'
    <2>1. JobFrame
      BY <1>29, JobSame DEF AwaitReservations
    <2>2. CallFrame
      BY <1>29, GotoFrame DEF AwaitReservations, Places, Holding, Committing
    <2>3. QED
      BY <1>29, <2>1, <2>2, FrameInv DEF AwaitReservations, owner, slots
  <1>30. ASSUME NEW c \in Callers, NEW k \in Configs,
               DrainPick(c, k)
        PROVE  OwnerInv'
    <2>1. SameHold(call[c], [call[c] EXCEPT !.at = "drain_join", !.job = current[k]])
      BY DEF SameHold, TypeOK, Calls, Holding, Committing
    <2>2. JobFrame
      BY <1>30, JobSame DEF DrainPick
    <2>3. CallFrame
      BY <1>30, <2>1, CallFrameUpdate DEF DrainPick
    <2>4. QED
      BY <1>30, <2>2, <2>3, FrameInv DEF DrainPick, owner, slots
  <1>31. ASSUME NEW c \in Callers,
               DrainJoin(c)
        PROVE  OwnerInv'
    <2>1. SameHold(call[c], [call[c] EXCEPT !.at = "drain", !.job = NoJob])
      BY DEF SameHold, TypeOK, Calls, Holding, Committing
    <2>2. JobFrame
      BY <1>31, JoinFrame DEF DrainJoin, Exited, Joinable
    <2>3. CallFrame
      BY <1>31, <2>1, CallFrameUpdate DEF DrainJoin
    <2>4. QED
      BY <1>31, <2>2, <2>3, FrameInv DEF DrainJoin, owner, slots
  <1>32. ASSUME NEW c \in Callers,
               ShutdownReturns(c)
        PROVE  OwnerInv'
    <2>1. JobFrame
      BY <1>32, JobSame DEF ShutdownReturns
    <2>2. CallFrame
      BY <1>32, ReturnFrame DEF ShutdownReturns
    <2>3. QED
      BY <1>32, <2>1, <2>2, FrameInv DEF ShutdownReturns, owner, slots
  <1>33. CASE UNCHANGED vars
    BY <1>33, JobSame, CallSame, FrameInv DEF vars, owner, slots
  <1>34. QED
    BY <1>1, <1>2, <1>3, <1>4, <1>5, <1>6, <1>7, <1>8, <1>9, <1>10, <1>11, <1>12, <1>13, <1>14,
       <1>15, <1>16, <1>17, <1>18, <1>19, <1>20, <1>21, <1>22, <1>23, <1>24, <1>25, <1>26,
       <1>27, <1>28, <1>29, <1>30, <1>31, <1>32, <1>33
       DEF Next, CallerStep, WorkerStep, SweepStep

LEMMA InvInit == Init => OwnerInv
  BY ConstantsAssumption
     DEF Init, OwnerInv, UnbornHasNoWorker, SlotsOfConfig, HeldIsReserved,
         CommittingIsCurrent, OneHolder, LiveIsCurrent, Holding, Committing, LiveWorker,
         Idle, Unborn

LEMMA InvImplies == TypeOK /\ OwnerInv => OneLiveBackend
  BY DEF TypeOK, OwnerInv, LiveIsCurrent, OneLiveBackend, LiveWorker

\* A reserved, gated, aborting or stopping generation never overlaps another
\* one of its config: the reasons OneLiveBackend holds are themselves invariant.
THEOREM OwnerInvariant == Spec => []OwnerInv
  <1>1. Spec => [](TypeOK /\ OwnerInv)
    BY TypeInit, TypeStep, InvInit, InvStep, PTL DEF Spec
  <1>2. QED
    BY <1>1, PTL

\* A config never has two live backends, and the live one is the one published.
THEOREM OneLiveBackendAlways == Spec => []OneLiveBackend
  BY TypeCorrect, OwnerInvariant, InvImplies, PTL

-----------------------------------------------------------------------------
(* Steps that StopInv does not see *)

Held == {"stop_held", "stop_all_held"}

\* A job keeps its config, is not set running and is not told to stop; one that is
\* stopping goes on so or has passed its gate.
Stoppable(j) == j.phase = "stopping" \/ j.gate = "committed"
QuietJob(j, i) ==
    /\ i.config_id = j.config_id
    /\ i.phase = "running" => j.phase = "running"
    /\ i.stop => j.stop
    /\ Stoppable(j) => Stoppable(i)

\* A caller captures no job and owes no token.
QuietCall(r, s) ==
    /\ s.captured \subseteq r.captured
    /\ StillToRaise(s) \subseteq StillToRaise(r)
    /\ s.at \in Held => r.at \in Held /\ s.captured = r.captured /\ s.running = r.running

QuietCalls == \A c \in Callers : QuietCall(call[c], call'[c])
QuietJobs == \A g \in JobIds : QuietJob(job[g], job'[g])
QuietSlots == \A k \in Configs : reserved'[k] \in {reserved[k], NoJob}
QuietSweep == /\ \A a \in Actors : target'[a] \in {target[a], NoJob}
              /\ accepting' => accepting
              /\ sweeping' \subseteq sweeping \/ ~accepting'

\* Like QuietJobs, when tokens may be raised that were owed.
OwedJobs ==
    \A g \in JobIds : /\ QuietJob([job[g] EXCEPT !.stop = TRUE], job'[g])
                      /\ job'[g].stop => ToldToStop(g)

LEMMA SlotIsJob == TypeOK => \A k \in Configs : reserved[k] # NoJob => reserved[k] \in JobIds
  BY SlotTypes

LEMMA QuietIsOwed == TypeOK /\ QuietJobs => OwedJobs
  BY DEF QuietJobs, OwedJobs, QuietJob, ToldToStop, TypeOK, Jobs, Stoppable

\* Nobody is told who was not told before.
LEMMA NobodyTold ==
    ASSUME TypeOK, OwedJobs, QuietCalls, QuietSweep, NEW g \in JobIds, ToldToStop(g)'
    PROVE  ToldToStop(g)
  <1>1. g # NoJob
    BY ConstantsAssumption DEF JobIds, NoJob
  <1>2. CASE job'[g].stop
    BY <1>2 DEF OwedJobs
  <1>3. CASE \E a \in Actors : target'[a] = g
    BY <1>1, <1>3 DEF QuietSweep, ToldToStop
  <1>4. CASE \E c \in Callers : g \in StillToRaise(call'[c])
    BY <1>4 DEF QuietCalls, QuietCall, ToldToStop
  <1>5. QED
    BY <1>2, <1>3, <1>4 DEF ToldToStop

LEMMA QuietInv ==
    ASSUME TypeOK, StopInv, OwedJobs, QuietCalls, QuietSlots, QuietSweep
    PROVE  StopInv'
  <1>1. \A g \in JobIds : ToldToStop(g)' => ToldToStop(g)
    BY NobodyTold
  <1>2. \A g \in JobIds : /\ job'[g].config_id = job[g].config_id
                          /\ job'[g].phase = "running" => job[g].phase = "running"
    BY DEF OwedJobs, QuietJob, TypeOK, Jobs, Stoppable
  <1>3. \A k \in Configs : reserved'[k] # NoJob =>
           reserved'[k] = reserved[k] /\ reserved[k] # NoJob /\ reserved[k] \in JobIds
    BY SlotIsJob DEF QuietSlots
  <1>4. NoStaleStop'
    BY <1>1, <1>2 DEF StopInv, NoStaleStop
  <1>5. CapturedWasStarted'
    <2>1. \A c \in Callers : call[c].captured \subseteq JobIds
      BY DEF TypeOK, Calls
    <2>2. QED
      BY <2>1, <1>2 DEF StopInv, CapturedWasStarted, QuietCalls, QuietCall, Held
  <1>6. ToldWasStarted'
    BY <1>1, <1>2 DEF StopInv, ToldWasStarted
  <1>7. ReservedNotRunning'
    BY <1>2, <1>3 DEF StopInv, ReservedNotRunning
  <1>8. ReservedToldAfterClose'
    <2>1. (sweeping # {} => ~accepting)'
      BY DEF StopInv, ReservedToldAfterClose, QuietSweep
    <2>2. ASSUME NEW k \in Configs, accepting', reserved'[k] # NoJob
          PROVE  ~ToldToStop(reserved[k])'
      <3>1. reserved'[k] = reserved[k] /\ reserved[k] \in JobIds /\ ~ToldToStop(reserved[k])
        BY <2>2, <1>3 DEF StopInv, ReservedToldAfterClose, QuietSweep
      <3>2. PICK g \in JobIds : g = reserved[k]
        BY <3>1
      <3>3. ~ToldToStop(g)'
        BY <1>1, <3>1, <3>2
      <3>4. QED
        BY <3>1, <3>2, <3>3 DEF ToldToStop
    <2>3. QED
      BY <2>1, <2>2 DEF ReservedToldAfterClose, ToldToStop
  <1>9. ToldWasStopping'
    <2>1. \A g \in JobIds : Stoppable(job[g]) => Stoppable(job'[g])
      BY DEF OwedJobs, QuietJob, Stoppable, TypeOK, Jobs, Stoppable
    <2>2. QED
      BY <2>1, <1>1 DEF StopInv, ToldWasStopping, Stoppable, QuietSweep
  <1>10. QED
    BY <1>4, <1>5, <1>6, <1>7, <1>8, <1>9 DEF StopInv

LEMMA QuietJobItself == \A j : QuietJob(j, j)
  BY DEF QuietJob

LEMMA QuietCallItself == \A r : QuietCall(r, r)
  BY DEF QuietCall

LEMMA JobsSame == UNCHANGED job => QuietJobs
  BY QuietJobItself DEF QuietJobs

LEMMA CallsSame == UNCHANGED call => QuietCalls
  BY QuietCallItself DEF QuietCalls

LEMMA SlotsSame == UNCHANGED reserved => QuietSlots
  BY DEF QuietSlots

LEMMA SweepSame == UNCHANGED <<accepting, sweeping, target>> => QuietSweep
  BY DEF QuietSweep

LEMMA QuietJobUpdate ==
    ASSUME TypeOK, NEW g, NEW j, g \in JobIds => QuietJob(job[g], j),
           job' = [job EXCEPT ![g] = j]
    PROVE  QuietJobs
  BY QuietJobItself DEF QuietJobs, TypeOK

LEMMA QuietCallUpdate ==
    ASSUME TypeOK, NEW c \in Callers, NEW s, QuietCall(call[c], s),
           call' = [call EXCEPT ![c] = s]
    PROVE  QuietCalls
  BY QuietCallItself DEF QuietCalls, TypeOK

\* A caller moves to a place where it owes nothing.
LEMMA QuietPlace ==
    ASSUME NEW r, NEW s, s.captured = {} \/ s.captured = r.captured,
           s.at \notin Held \cup {"deliver", "stop_before_release"}
    PROVE  QuietCall(r, s)
  BY DEF QuietCall, StillToRaise, Held

LEMMA QuietReturn ==
    ASSUME TypeOK, NEW c \in Callers, Return(c)
    PROVE  QuietCalls
  <1>1. QuietCall(call[c], Idle)
    BY QuietPlace DEF Idle, Held
  <1>2. QED
    BY <1>1, QuietCallUpdate DEF Return

LEMMA QuietGoto ==
    ASSUME TypeOK, NEW c \in Callers, NEW p, Goto(c, p),
           p \notin Held \cup {"deliver", "stop_before_release"}
    PROVE  QuietCalls
  <1>1. QuietCall(call[c], [call[c] EXCEPT !.at = p])
    <2>1. /\ [call[c] EXCEPT !.at = p].captured = call[c].captured
          /\ [call[c] EXCEPT !.at = p].at = p
      BY DEF TypeOK, Calls
    <2>2. QED
      BY <2>1, QuietPlace
  <1>2. QED
    BY <1>1, QuietCallUpdate DEF Goto

\* A token is raised that was owed.
LEMMA RaiseOwed ==
    ASSUME TypeOK, NEW g \in JobIds, ToldToStop(g), job' = [job EXCEPT ![g].stop = TRUE]
    PROVE  OwedJobs
  <1>1. \A h \in JobIds : job[h].stop => ToldToStop(h)
    BY DEF ToldToStop
  <1>2. QED
    BY <1>1 DEF OwedJobs, QuietJob, TypeOK, Jobs, Stoppable

\* A thread is joined.
LEMMA QuietJoin ==
    ASSUME TypeOK, NEW g, job' = [job EXCEPT ![g].worker = "joined"]
    PROVE  QuietJobs
  <1>1. g \in JobIds => QuietJob(job[g], [job[g] EXCEPT !.worker = "joined"])
    BY DEF QuietJob, TypeOK, Jobs, Stoppable
  <1>2. QED
    BY <1>1, QuietJobUpdate

LEMMA QuietReap ==
    ASSUME TypeOK, NEW k \in Configs, NEW g \in JobIds
    PROVE  QuietJob(job[g], ReapPrevious(k)[g])
  BY DEF QuietJob, ReapPrevious, TypeOK, Jobs, Stoppable

-----------------------------------------------------------------------------
(* Steps that hand out a generation, set one running, or tell one to stop *)

\* A new generation has been told nothing.
LEMMA FreshInv ==
    ASSUME TypeOK, OwnerInv, StopInv, TakeGeneration, NEW n, n = next_job_generation,
           job'[n].config_id # NoConfig, job'[n].phase # "running", ~job'[n].stop,
           \A g \in JobIds \ {n} : QuietJob(job[g], job'[g]),
           QuietCalls, \A k \in Configs : reserved'[k] \in {reserved[k], n},
           UNCHANGED <<accepting, sweeping, target>>
    PROVE  StopInv'
  <1>1. n \in JobIds /\ job[n].config_id = NoConfig
    BY FreshGeneration
  <1>2. ~ToldToStop(n)
    BY <1>1 DEF StopInv, ToldWasStarted
  <1>3. ASSUME NEW g \in JobIds, ToldToStop(g)'
        PROVE  ToldToStop(g) /\ g # n
    <2>1. job'[g].stop => g # n /\ job[g].stop
      BY DEF QuietJob
    <2>2. ToldToStop(g)
      BY <1>3, <2>1 DEF ToldToStop, QuietCalls, QuietCall
    <2>3. QED
      BY <2>2, <1>2
  <1>4. \A g \in JobIds \ {n} : /\ job'[g].config_id = job[g].config_id
                                /\ job'[g].phase = "running" => job[g].phase = "running"
    BY DEF QuietJob
  <1>5. \A k \in Configs : reserved'[k] # NoJob =>
           \/ reserved'[k] = n
           \/ reserved'[k] = reserved[k] /\ reserved[k] \in JobIds \ {n}
    BY SlotIsJob
  <1>6. NoStaleStop'
    BY <1>3, <1>4 DEF StopInv, NoStaleStop
  <1>7. CapturedWasStarted'
    <2>1. \A c \in Callers : call[c].captured \subseteq JobIds
      BY DEF TypeOK, Calls
    <2>2. QED
      BY <2>1, <1>4 DEF StopInv, CapturedWasStarted, QuietCalls, QuietCall, Held
  <1>8. ToldWasStarted'
    BY <1>3, <1>4 DEF StopInv, ToldWasStarted
  <1>9. ReservedNotRunning'
    BY <1>4, <1>5 DEF StopInv, ReservedNotRunning
  <1>10. ReservedToldAfterClose'
    <2>1. (sweeping # {} => ~accepting)'
      BY DEF StopInv, ReservedToldAfterClose
    <2>2. ASSUME NEW k \in Configs, accepting', reserved'[k] # NoJob,
                 NEW g \in JobIds, g = reserved'[k]
          PROVE  ~ToldToStop(g)'
      BY <2>2, <1>3, <1>5 DEF StopInv, ReservedToldAfterClose
    <2>3. \A k \in Configs : reserved'[k] # NoJob => reserved'[k] \in JobIds
      BY <1>1, <1>5
    <2>4. QED
      BY <2>1, <2>2, <2>3 DEF ReservedToldAfterClose, ToldToStop
  <1>11. ToldWasStopping'
    BY <1>3 DEF StopInv, ToldWasStopping, QuietJob, Stoppable
  <1>12. QED
    BY <1>6, <1>7, <1>8, <1>9, <1>10, <1>11 DEF StopInv

\* The generations in `new` are told, which are not running and not still to be committed.
LEMMA TellInv ==
    ASSUME TypeOK, StopInv, NEW new \in SUBSET JobIds,
           \A g \in JobIds : ToldToStop(g)' => ToldToStop(g) \/ g \in new,
           \A g \in new : /\ job'[g].phase # "running" /\ job[g].config_id # NoConfig
                          /\ accepting' => \A k \in Configs : reserved'[k] # g,
           \A g \in JobIds : /\ job'[g].config_id = job[g].config_id
                             /\ job'[g].phase = "running" =>
                                   job[g].phase = "running" \/ ~ToldToStop(g),
           \A g \in JobIds : accepting' /\ (ToldToStop(g) \/ g \in new) => Stoppable(job'[g]),
           CapturedWasStarted', ReservedNotRunning', QuietSlots,
           accepting' => accepting, sweeping' \subseteq sweeping
    PROVE  StopInv'
  <1>1. NoStaleStop'
    BY DEF StopInv, NoStaleStop
  <1>2. ToldWasStarted'
    BY DEF StopInv, ToldWasStarted
  <1>3. ReservedToldAfterClose'
    <2>1. (sweeping # {} => ~accepting)'
      BY DEF StopInv, ReservedToldAfterClose
    <2>2. ASSUME NEW k \in Configs, accepting', reserved'[k] # NoJob,
                 NEW g \in JobIds, g = reserved'[k]
          PROVE  ~ToldToStop(g)'
      <3>1. reserved[k] = g /\ g \notin new /\ g # NoJob
        BY <2>2 DEF QuietSlots
      <3>2. ~ToldToStop(g)
        BY <2>2, <3>1 DEF StopInv, ReservedToldAfterClose
      <3>3. QED
        BY <3>1, <3>2
    <2>3. \A k \in Configs : reserved'[k] # NoJob => reserved'[k] \in JobIds
      BY SlotIsJob DEF QuietSlots
    <2>4. QED
      BY <2>1, <2>2, <2>3 DEF ReservedToldAfterClose, ToldToStop
  <1>4. ToldWasStopping'
    BY DEF ToldWasStopping, Stoppable
  <1>5. QED
    BY <1>1, <1>2, <1>3, <1>4 DEF StopInv

\* The current generation of a config was handed out, and no slot reserves it.
LEMMA CurrentIsFree ==
    ASSUME TypeOK, OwnerInv, NEW k \in Configs, current[k] # NoJob
    PROVE  /\ current[k] \in JobIds /\ job[current[k]].config_id = k /\ k # NoConfig
           /\ \A l \in Configs : reserved[l] # current[k]
  BY SlotTypes, ConstantsAssumption DEF OwnerInv, SlotsOfConfig

\* A reserved generation has been told nothing while the owner accepts.
LEMMA CommitStartStop ==
    ASSUME TypeOK, OwnerInv, StopInv, NEW c \in Callers, NEW now \in ClockReadings,
           CommitStart(c, now)
    PROVE  StopInv'
  <1> DEFINE g == call[c].job
             k == call[c].config
             new == IF accepting THEN {} ELSE {g}
  <1>1. /\ g \in JobIds /\ k \in Configs /\ reserved[k] = g
        /\ job[g].config_id = k /\ k # NoConfig /\ g # NoJob
    BY HeldJob, ConstantsAssumption DEF CommitStart, At, Holding, JobIds, NoJob
  <1>2. /\ job'[g].config_id = k /\ job'[g].stop = job[g].stop
        /\ job'[g].phase = "running" => accepting
    BY <1>1 DEF CommitStart, Stopping, TypeOK, Jobs
  <1>3. \A h \in JobIds \ {g} : job'[h] = job[h]
    BY <1>1 DEF CommitStart, TypeOK
  <1>4. /\ reserved'[k] = NoJob
        /\ \A l \in Configs \ {k} : reserved'[l] = reserved[l] /\ reserved[l] # g
    BY <1>1 DEF CommitStart, TypeOK, OwnerInv, SlotsOfConfig
  <1>5. /\ \A d \in Callers \ {c} : call'[d] = call[d]
        /\ call'[c].captured = call[c].captured /\ call'[c].job = g
        /\ call'[c].at = IF accepting THEN "release_gate" ELSE "stop_before_release"
    BY DEF CommitStart, Goto, TypeOK, Calls
  <1>6. UNCHANGED <<accepting, sweeping, target>>
    BY DEF CommitStart, sweep
  <1>7. ~accepting \/ ~ToldToStop(g)
    BY <1>1 DEF StopInv, ReservedToldAfterClose
  <1> HIDE DEF g, k
  <1>8. ASSUME NEW h \in JobIds, ToldToStop(h)'
        PROVE  ToldToStop(h) \/ h \in new
    <2>1. StillToRaise(call'[c]) \subseteq new
      BY <1>5 DEF StillToRaise
    <2>2. \A d \in Callers \ {c} : StillToRaise(call'[d]) = StillToRaise(call[d])
      BY <1>5
    <2>3. job'[h].stop => job[h].stop
      BY <1>2, <1>3
    <2>4. QED
      BY <1>6, <1>8, <2>1, <2>2, <2>3 DEF ToldToStop
  <1>9. CapturedWasStarted'
    <2>1. \A h \in JobIds : job'[h].config_id = job[h].config_id
      BY <1>1, <1>2, <1>3
    <2>2. \A d \in Callers : /\ call'[d].captured = call[d].captured
                             /\ call'[d].captured \subseteq JobIds
                             /\ call'[d].at \in {"stop_held", "stop_all_held"} => call'[d] = call[d]
      BY <1>5 DEF TypeOK, Calls
    <2>3. QED
      BY <2>1, <2>2 DEF StopInv, CapturedWasStarted
  <1>10. ReservedNotRunning'
    BY <1>3, <1>4, SlotIsJob DEF StopInv, ReservedNotRunning
  <1>11. QuietSlots
    BY <1>4 DEF QuietSlots
  <1>12. \A h \in new : /\ job'[h].phase # "running" /\ job[h].config_id # NoConfig
                        /\ accepting' => \A l \in Configs : reserved'[l] # h
    BY <1>1, <1>2, <1>6
  <1>13. \A h \in JobIds : /\ job'[h].config_id = job[h].config_id
                           /\ job'[h].phase = "running" =>
                                 job[h].phase = "running" \/ ~ToldToStop(h)
    BY <1>1, <1>2, <1>3, <1>7
  <1>14. new \in SUBSET JobIds
    BY <1>1
  <1>15. \A h \in JobIds : accepting' /\ (ToldToStop(h) \/ h \in new) => Stoppable(job'[h])
    BY <1>3, <1>6, <1>7 DEF StopInv, ToldWasStopping, Stoppable
  <1> HIDE DEF new
  <1>16. QED
    BY <1>6, <1>8, <1>9, <1>10, <1>11, <1>12, <1>13, <1>14, <1>15, TellInv

\* A reservation captures generations that were handed out, and tells none.
LEMMA CaptureStop ==
    ASSUME TypeOK, OwnerInv, StopInv, NEW c \in Callers, NEW p \in Held, NEW k,
           NEW captured \in SUBSET JobIds, NEW now \in ClockReadings,
           Capture(c, p, k, captured, now),
           \A g \in captured : job[g].config_id # NoConfig,
           UNCHANGED <<job, reserved, accepting, sweeping, target>>
    PROVE  StopInv'
  <1>1. /\ call'[c].at = p /\ call'[c].captured = captured
        /\ call'[c].running \subseteq captured
        /\ \A d \in Callers \ {c} : call'[d] = call[d]
    BY DEF Capture, Idle, TypeOK
  <1>2. StillToRaise(call'[c]) = {}
    BY <1>1 DEF StillToRaise, Held
  <1>3. \A g \in JobIds : ToldToStop(g)' => ToldToStop(g)
    BY <1>1, <1>2 DEF ToldToStop
  <1>4. CapturedWasStarted'
    BY <1>1 DEF StopInv, CapturedWasStarted
  <1>5. ReservedNotRunning'
    BY DEF StopInv, ReservedNotRunning
  <1> DEFINE new == {}
  <1>6. new \in SUBSET JobIds
    OBVIOUS
  <1>7. \A g \in new : /\ job'[g].phase # "running" /\ job[g].config_id # NoConfig
                       /\ accepting' => \A l \in Configs : reserved'[l] # g
    OBVIOUS
  <1>8. \A g \in JobIds : ToldToStop(g)' => ToldToStop(g) \/ g \in new
    BY <1>3
  <1>9. \A g \in JobIds : /\ job'[g].config_id = job[g].config_id
                          /\ job'[g].phase = "running" =>
                                job[g].phase = "running" \/ ~ToldToStop(g)
    OBVIOUS
  <1>10. \A h \in JobIds : accepting' /\ (ToldToStop(h) \/ h \in new) => Stoppable(job'[h])
    BY DEF StopInv, ToldWasStopping, Stoppable
  <1> HIDE DEF new
  <1>11. QuietSlots /\ (accepting' => accepting) /\ sweeping' \subseteq sweeping
    BY SlotsSame
  <1>12. QED
    BY <1>4, <1>5, <1>6, <1>7, <1>8, <1>9, <1>10, <1>11, TellInv

\* A commit tells the captured generations that are current and running.
LEMMA ResolvedStop ==
    ASSUME TypeOK, OwnerInv, StopInv, NEW c \in Callers, NEW commit \in BOOLEAN,
           NEW now \in ClockReadings, call[c].at \in Held, Resolved(c, commit, now),
           UNCHANGED <<current, reserved, accepting, sweeping, target>>
    PROVE  StopInv'
  <1> DEFINE new == IF commit THEN Transitions(c) ELSE {}
  <1>1. ASSUME NEW g \in JobIds
        PROVE  /\ QuietJob(job[g], CommittedJob(c, g, now)) /\ QuietJob(job[g], AbortedJob(g, now))
               /\ g \in Transitions(c) => CommittedJob(c, g, now).phase = "stopping"
    BY DEF QuietJob, CommittedJob, AbortedJob, StoppingAt, publish_pending_progress,
           discard_pending_progress, TypeOK, Jobs, Stoppable
  <1>2. \A g \in JobIds : QuietJob(job[g], job'[g])
    BY <1>1, QuietJobItself DEF Resolved
  <1>3. commit => \A g \in JobIds \cap call[c].captured \cap Transitions(c) :
           job'[g].phase = "stopping"
    BY <1>1 DEF Resolved
  <1>4. Transitions(c) \subseteq call[c].captured /\ call[c].captured \subseteq JobIds
    BY DEF Transitions, StopInv, CapturedWasStarted, Held, TypeOK, Calls
  <1>5. \A g \in Transitions(c) : /\ job[g].config_id # NoConfig
                                  /\ \A k \in Configs : reserved[k] # g
    <2>1. ASSUME NEW g \in Transitions(c)
          PROVE  job[g].config_id \in Configs /\ current[job[g].config_id] = g /\ g # NoJob
      BY <1>4, SlotTypes, ConstantsAssumption
         DEF Transitions, SameGeneration, StopInv, CapturedWasStarted, JobIds, NoJob
    <2>2. QED
      BY <2>1, CurrentIsFree
  <1>6. /\ \A d \in Callers \ {c} : call'[d] = call[d]
        /\ call'[c].at \notin Held /\ call'[c].at # "stop_before_release"
        /\ call'[c].captured \subseteq new
    BY DEF Resolved, Idle, Held, TypeOK
  <1>7. StillToRaise(call'[c]) \subseteq new
    BY <1>6 DEF StillToRaise
  <1>8. new \in SUBSET JobIds /\ new \subseteq Transitions(c)
    BY <1>4
  <1>9. \A g \in new : /\ job'[g].phase # "running" /\ job[g].config_id # NoConfig
                       /\ accepting' => \A k \in Configs : reserved'[k] # g
    BY <1>3, <1>4, <1>5
  <1> HIDE DEF new
  <1>10. \A g \in JobIds : ToldToStop(g)' => ToldToStop(g) \/ g \in new
    BY <1>2, <1>6, <1>7 DEF ToldToStop, QuietJob
  <1>11. CapturedWasStarted'
    <2>1. \A d \in Callers : call[d].captured \subseteq JobIds
      BY DEF TypeOK, Calls
    <2>2. QED
      BY <2>1, <1>2, <1>5, <1>6, <1>8 DEF StopInv, CapturedWasStarted, QuietJob, Held
  <1>12. ReservedNotRunning'
    BY <1>2, SlotIsJob DEF StopInv, ReservedNotRunning, QuietJob
  <1>13. \A g \in JobIds : accepting' /\ (ToldToStop(g) \/ g \in new) => Stoppable(job'[g])
    <2>1. \A g \in new : Stoppable(job'[g])
      BY <1>3, <1>4 DEF new, Stoppable
    <2>2. \A g \in JobIds : accepting /\ ToldToStop(g) => Stoppable(job[g])
      BY DEF StopInv, ToldWasStopping, Stoppable
    <2>3. QED
      BY <2>1, <2>2, <1>2 DEF QuietJob
  <1>14. QED
    BY <1>2, <1>8, <1>9, <1>10, <1>11, <1>12, <1>13, SlotsSame, TellInv DEF QuietJob

\* request_stop on a stopped owner tells the current generation of its config.
LEMMA StopAfterShutdownStop ==
    ASSUME TypeOK, OwnerInv, StopInv, NEW c \in Callers, NEW k \in Configs,
           NEW now \in ClockReadings, StopAfterShutdown(c, k, now)
    PROVE  StopInv'
  <1> DEFINE new == {current[k]}
  <1>1. /\ current[k] \in JobIds /\ job[current[k]].config_id # NoConfig
        /\ \A l \in Configs : reserved[l] # current[k]
    BY CurrentIsFree DEF StopAfterShutdown
  <1>2. /\ job' = [job EXCEPT ![current[k]] = Stopping(job[current[k]], now)]
        /\ UNCHANGED <<current, reserved, accepting, sweeping, target>>
    BY DEF StopAfterShutdown, owner, slots, sweep
  <1>3. /\ \A g \in JobIds : QuietJob(job[g], job'[g])
        /\ job'[current[k]].phase = "stopping"
    BY <1>1, <1>2, QuietJobItself DEF Stopping, QuietJob, TypeOK, Jobs, Stoppable
  <1>4. /\ \A d \in Callers \ {c} : call'[d] = call[d]
        /\ call'[c].at = "deliver" /\ call'[c].captured = new
    BY DEF StopAfterShutdown, Idle, TypeOK
  <1>5. StillToRaise(call'[c]) = new
    BY <1>4 DEF StillToRaise
  <1>6. new \in SUBSET JobIds
    BY <1>1
  <1>7. \A g \in new : /\ job'[g].phase # "running" /\ job[g].config_id # NoConfig
                       /\ accepting' => \A l \in Configs : reserved'[l] # g
    BY <1>1, <1>2, <1>3
  <1> HIDE DEF new
  <1>8. \A g \in JobIds : ToldToStop(g)' => ToldToStop(g) \/ g \in new
    BY <1>2, <1>3, <1>4, <1>5 DEF ToldToStop, QuietJob
  <1>9. \A g \in JobIds : /\ job'[g].config_id = job[g].config_id
                          /\ job'[g].phase = "running" =>
                                job[g].phase = "running" \/ ~ToldToStop(g)
    BY <1>3 DEF QuietJob
  <1>10. CapturedWasStarted'
    <2>1. \A d \in Callers : call[d].captured \subseteq JobIds
      BY DEF TypeOK, Calls
    <2>2. \A g \in new : job'[g].config_id # NoConfig
      BY <1>6, <1>7, <1>9
    <2>3. \A d \in Callers \ {c} : \A g \in call'[d].captured : job'[g].config_id # NoConfig
      BY <2>1, <1>4, <1>9 DEF StopInv, CapturedWasStarted
    <2>4. QED
      BY <2>2, <2>3, <1>4 DEF StopInv, CapturedWasStarted
  <1>11. ReservedNotRunning'
    BY <1>2, <1>3, SlotIsJob DEF StopInv, ReservedNotRunning, QuietJob
  <1>12. QuietSlots /\ ~accepting' /\ sweeping' \subseteq sweeping
    BY <1>2, SlotsSame DEF StopAfterShutdown
  <1>13. \A g \in JobIds : accepting' /\ (ToldToStop(g) \/ g \in new) => Stoppable(job'[g])
    BY <1>12
  <1>14. QED
    BY <1>6, <1>7, <1>8, <1>9, <1>10, <1>11, <1>12, <1>13, TellInv

\* The sweep tells a generation once admission is closed.
LEMMA SweepFindStop ==
    ASSUME TypeOK, OwnerInv, StopInv, NEW a \in Actors, NEW k \in Configs,
           NEW now \in ClockReadings, SweepFind(a, k, now)
    PROVE  StopInv'
  <1> DEFINE g == SweepTarget(k)
             new == {g}
  <1>1. ~accepting /\ UNCHANGED <<current, reserved, accepting, sweeping, call>>
    BY DEF SweepFind, StopInv, ReservedToldAfterClose, owner, slots
  <1>2. g = current[k] \/ (g = reserved[k] /\ g # NoJob)
    BY DEF SweepTarget, SweepFind
  <1>3. g \in JobIds /\ job[g].config_id # NoConfig
    <2>1. g # NoJob
      BY DEF SweepFind
    <2>2. QED
      BY <1>2, <2>1, SlotTypes, ConstantsAssumption DEF OwnerInv, SlotsOfConfig
  <1> DEFINE found == IF job[g].phase = "running"
                      THEN Stopping(discard_pending_progress(job[g]), now)
                      ELSE discard_pending_progress(job[g])
  <1>4. /\ target' = [target EXCEPT ![a] = g]
        /\ \/ g # current[k] /\ job' = job
           \/ g = current[k] /\ job' = [job EXCEPT ![g] = found]
    BY DEF SweepFind
  <1> HIDE DEF g
  <1>5. QuietJob(job[g], found) /\ found.phase # "running"
    <2>1. job[g] \in Jobs
      BY <1>3 DEF TypeOK
    <2>2. CASE job[g].phase = "running"
      BY <2>1, <2>2 DEF QuietJob, Stopping, discard_pending_progress, Jobs, Stoppable
    <2>3. CASE job[g].phase # "running"
      BY <2>1, <2>3 DEF QuietJob, discard_pending_progress, Jobs, Stoppable
    <2>4. QED
      BY <2>2, <2>3
  <1> HIDE DEF found
  <1>6. /\ \A h \in JobIds : QuietJob(job[h], job'[h])
        /\ job'[g].phase # "running"
    <2>1. CASE g = current[k]
      BY <2>1, <1>3, <1>4, <1>5, QuietJobItself DEF TypeOK
    <2>2. CASE g # current[k]
      BY <2>2, <1>2, <1>4, QuietJobItself DEF StopInv, ReservedNotRunning
    <2>3. QED
      BY <2>1, <2>2
  <1>7. new \in SUBSET JobIds
    BY <1>3
  <1>8. \A h \in new : /\ job'[h].phase # "running" /\ job[h].config_id # NoConfig
                       /\ accepting' => \A l \in Configs : reserved'[l] # h
    BY <1>1, <1>3, <1>6
  <1>9. \A b \in Actors : target'[b] = target[b] \/ target'[b] \in new
    BY <1>4 DEF TypeOK
  <1> HIDE DEF new
  <1>10. \A h \in JobIds : ToldToStop(h)' => ToldToStop(h) \/ h \in new
    BY <1>1, <1>6, <1>9 DEF ToldToStop, QuietJob
  <1>11. CapturedWasStarted'
    <2>1. \A d \in Callers : call[d].captured \subseteq JobIds
      BY DEF TypeOK, Calls
    <2>2. QED
      BY <2>1, <1>1, <1>6 DEF StopInv, CapturedWasStarted, QuietJob
  <1>12. ReservedNotRunning'
    BY <1>1, <1>6, SlotIsJob DEF StopInv, ReservedNotRunning, QuietJob
  <1>13. \A h \in JobIds : accepting' /\ (ToldToStop(h) \/ h \in new) => Stoppable(job'[h])
    BY <1>1
  <1>14. QED
    BY <1>1, <1>6, <1>7, <1>8, <1>10, <1>11, <1>12, <1>13, SlotsSame, TellInv DEF QuietJob

-----------------------------------------------------------------------------
(* StopInv is inductive *)

LEMMA StopStep == TypeOK /\ OwnerInv /\ StopInv /\ [Next]_vars => StopInv'
  <1>. SUFFICES ASSUME TypeOK, OwnerInv, StopInv, [Next]_vars PROVE StopInv'
    OBVIOUS
  <1>1. ASSUME NEW c \in Callers, NEW k \in Configs,
               NEW kind \in BackendKinds, NEW now \in ClockReadings,
               PrepareStart(c, k, kind, now)
        PROVE  StopInv'
    <2>1. TakeGeneration /\ next_job_generation \in JobIds
      BY <1>1, FreshGeneration DEF PrepareStart
    <2>2. LET n == next_job_generation IN
             /\ job'[n].config_id = k /\ job'[n].phase = "completed" /\ ~job'[n].stop
             /\ \A g \in JobIds \ {n} : job'[g] = ReapPrevious(k)[g]
      BY <1>1, <2>1 DEF PrepareStart, NewJob, Unborn, ReapPrevious, TypeOK
    <2>3. \A g \in JobIds \ {next_job_generation} : QuietJob(job[g], job'[g])
      BY <1>1, <2>2, QuietReap
    <2>4. call'[c].captured = {} /\ call'[c].at \in {"await_preparation", "start_held"}
      BY <1>1 DEF PrepareStart, Idle, TypeOK
    <2>5. QuietCalls
      BY <1>1, <2>4, QuietPlace, QuietCallItself DEF QuietCalls, Held, PrepareStart, TypeOK
    <2>6. \A l \in Configs : reserved'[l] \in {reserved[l], next_job_generation}
      BY <1>1 DEF PrepareStart, TypeOK
    <2>7. QED
      BY <1>1, <2>1, <2>2, <2>3, <2>5, <2>6, FreshInv, ConstantsAssumption
         DEF PrepareStart, sweep
  <1>2. ASSUME NEW c \in Callers, NEW k \in Configs,
               StartExhausted(c, k)
        PROVE  StopInv'
    <2>1. QuietJobs
      BY <1>2, QuietReap DEF StartExhausted, QuietJobs
    <2>2. OwedJobs
      BY <1>2, <2>1, QuietIsOwed
    <2>3. QED
      BY <1>2, <2>2, CallsSame, SlotsSame, SweepSame, QuietInv
         DEF StartExhausted, owner, slots, sweep
  <1>3. ASSUME NEW c \in Callers, NEW k \in Configs,
               NEW publish \in BOOLEAN, NEW now \in ClockReadings, NEW later \in ClockReadings,
               ThreadStartFailed(c, k, publish, now, later)
        PROVE  StopInv'
    <2>1. TakeGeneration /\ next_job_generation \in JobIds
      BY <1>3, FreshGeneration DEF ThreadStartFailed
    <2>2. LET n == next_job_generation IN
             /\ job'[n].config_id = k /\ job'[n].phase = "completed" /\ ~job'[n].stop
             /\ \A g \in JobIds \ {n} : job'[g] = ReapPrevious(k)[g]
      BY <1>3, <2>1 DEF ThreadStartFailed, NewJob, Unborn, ReapPrevious, TypeOK
    <2>3. \A g \in JobIds \ {next_job_generation} : QuietJob(job[g], job'[g])
      BY <1>3, <2>2, QuietReap
    <2>4. QED
      BY <1>3, <2>1, <2>2, <2>3, CallsSame, FreshInv, ConstantsAssumption
         DEF ThreadStartFailed, sweep
  <1>4. ASSUME NEW c \in Callers,
               PreparationSucceeded(c)
        PROVE  StopInv'
    <2>1. OwedJobs
      BY <1>4, JobsSame, QuietIsOwed DEF PreparationSucceeded
    <2>2. QuietCalls
      BY <1>4, QuietGoto DEF PreparationSucceeded, Held
    <2>3. QED
      BY <1>4, <2>1, <2>2, SlotsSame, SweepSame, QuietInv
         DEF PreparationSucceeded, owner, slots, sweep
  <1>5. ASSUME NEW c \in Callers,
               PreparationFailed(c)
        PROVE  StopInv'
    <2>1. OwedJobs
      BY <1>5, JobsSame, QuietIsOwed DEF PreparationFailed
    <2>2. QuietCalls
      BY <1>5, QuietGoto DEF PreparationFailed, Held
    <2>3. QuietSlots
      BY <1>5 DEF PreparationFailed, QuietSlots, TypeOK
    <2>4. QED
      BY <1>5, <2>1, <2>2, <2>3, SweepSame, QuietInv DEF PreparationFailed, sweep
  <1>6. ASSUME NEW c \in Callers,
               JoinFailed(c)
        PROVE  StopInv'
    <2>1. OwedJobs
      BY <1>6, QuietJoin, QuietIsOwed DEF JoinFailed
    <2>2. QuietCalls
      BY <1>6, QuietReturn DEF JoinFailed
    <2>3. QED
      BY <1>6, <2>1, <2>2, SlotsSame, SweepSame, QuietInv DEF JoinFailed, owner, slots, sweep
  <1>7. ASSUME NEW c \in Callers, NEW now \in ClockReadings,
               CommitStart(c, now)
        PROVE  StopInv'
    BY <1>7, CommitStartStop
  <1>8. ASSUME NEW c \in Callers,
               StopBeforeRelease(c)
        PROVE  StopInv'
    <2>1. call[c].job \in JobIds /\ ToldToStop(call[c].job)
      BY <1>8, CommittingJob DEF StopBeforeRelease, At, Committing, ToldToStop, StillToRaise
    <2>2. OwedJobs
      BY <1>8, <2>1, RaiseOwed DEF StopBeforeRelease
    <2>3. QuietCalls
      BY <1>8, QuietGoto DEF StopBeforeRelease, Held
    <2>4. QED
      BY <1>8, <2>2, <2>3, SlotsSame, SweepSame, QuietInv
         DEF StopBeforeRelease, owner, slots, sweep
  <1>9. ASSUME NEW c \in Callers,
               ReleaseGate(c)
        PROVE  StopInv'
    <2>1. call[c].job \in JobIds =>
             QuietJob(job[call[c].job], [job[call[c].job] EXCEPT !.gate = "committed"])
      BY <1>9 DEF QuietJob, TypeOK, Jobs, Stoppable
    <2>2. OwedJobs
      BY <1>9, <2>1, QuietJobUpdate, QuietIsOwed DEF ReleaseGate
    <2>3. QuietCalls
      BY <1>9, QuietReturn DEF ReleaseGate
    <2>4. QED
      BY <1>9, <2>2, <2>3, SlotsSame, SweepSame, QuietInv DEF ReleaseGate, owner, slots, sweep
  <1>10. ASSUME NEW c \in Callers,
                CancelStart(c)
         PROVE  StopInv'
    <2>1. call[c].job \in JobIds =>
             QuietJob(job[call[c].job], [job[call[c].job] EXCEPT !.gate = "cancelled"])
      BY <1>10, HeldJob DEF CancelStart, At, Holding, QuietJob, TypeOK, Jobs, Stoppable
    <2>2. OwedJobs
      BY <1>10, <2>1, QuietJobUpdate, QuietIsOwed DEF CancelStart
    <2>3. QuietCalls
      BY <1>10, QuietGoto DEF CancelStart, Held
    <2>4. QED
      BY <1>10, <2>2, <2>3, SlotsSame, SweepSame, QuietInv DEF CancelStart, owner, slots, sweep
  <1>11. ASSUME NEW c \in Callers,
                JoinCancelled(c)
         PROVE  StopInv'
    <2>1. OwedJobs
      BY <1>11, QuietJoin, QuietIsOwed DEF JoinCancelled
    <2>2. QuietCalls
      BY <1>11, QuietReturn DEF JoinCancelled
    <2>3. QuietSlots
      BY <1>11 DEF JoinCancelled, QuietSlots, TypeOK
    <2>4. QED
      BY <1>11, <2>1, <2>2, <2>3, SweepSame, QuietInv DEF JoinCancelled, sweep
  <1>12. ASSUME NEW g \in JobIds, NEW ok \in BOOLEAN,
                Prepare(g, ok)
         PROVE  StopInv'
    <2>1. QuietJob(job[g], [job[g] EXCEPT !.worker = IF ok THEN "gated" ELSE "exited"])
      BY <1>12 DEF QuietJob, TypeOK, Jobs, Stoppable
    <2>2. OwedJobs
      BY <1>12, <2>1, QuietJobUpdate, QuietIsOwed DEF Prepare
    <2>3. QuietCalls
      BY <1>12, CallsSame DEF Prepare
    <2>4. QED
      BY <1>12, <2>2, <2>3, SlotsSame, SweepSame, QuietInv DEF Prepare, owner, slots, sweep
  <1>13. ASSUME NEW g \in JobIds,
                PassGate(g)
         PROVE  StopInv'
    <2>1. QuietJob(job[g], [job[g] EXCEPT !.worker =
             IF job[g].gate = "committed" THEN "running" ELSE "exited"])
      BY <1>13 DEF QuietJob, TypeOK, Jobs, Stoppable
    <2>2. OwedJobs
      BY <1>13, <2>1, QuietJobUpdate, QuietIsOwed DEF PassGate
    <2>3. QuietCalls
      BY <1>13, CallsSame DEF PassGate
    <2>4. QED
      BY <1>13, <2>2, <2>3, SlotsSame, SweepSame, QuietInv DEF PassGate, owner, slots, sweep
  <1>14. ASSUME NEW g \in JobIds, NEW now \in ClockReadings,
                Report(g, now)
         PROVE  StopInv'
    <2>1. QuietJob(job[g], Stage(job[g])) /\ QuietJob(job[g], Publish(job[g], now))
      BY <1>14 DEF QuietJob, Stage, Publish, TypeOK, Jobs, Stoppable
    <2>2. OwedJobs
      BY <1>14, <2>1, QuietJobUpdate, QuietIsOwed DEF Report
    <2>3. QuietCalls
      BY <1>14, CallsSame DEF Report
    <2>4. QED
      BY <1>14, <2>2, <2>3, SlotsSame, SweepSame, QuietInv DEF Report, owner, slots, sweep
  <1>15. ASSUME NEW g \in JobIds, NEW now \in ClockReadings,
                Finish(g, now)
         PROVE  StopInv'
    <2>1. QuietJob(job[g], Terminal(job[g], now))
      BY <1>15 DEF Finish, OwnerInv, LiveIsCurrent, QuietJob, Terminal, TypeOK, Jobs, Stoppable
    <2>2. OwedJobs
      BY <1>15, <2>1, QuietJobUpdate, QuietIsOwed DEF Finish
    <2>3. QuietCalls
      BY <1>15, CallsSame DEF Finish
    <2>4. QED
      BY <1>15, <2>2, <2>3, SlotsSame, SweepSame, QuietInv DEF Finish, owner, slots, sweep
  <1>16. ASSUME NEW c \in Callers, NEW k \in Configs, NEW now \in ClockReadings,
                PrepareStop(c, k, now)
         PROVE  StopInv'
    <2>1. \A g \in {current[k]} \ {NoJob} : g \in JobIds /\ job[g].config_id # NoConfig
      BY <1>16, CurrentIsFree
    <2>2. QED
      BY <1>16, <2>1, CaptureStop DEF PrepareStop, Held, sweep
  <1>17. ASSUME NEW c \in Callers, NEW now \in ClockReadings,
                PrepareStopAll(c, now)
         PROVE  StopInv'
    <2>1. \A g \in {current[k] : k \in jobs} \ {NoJob} : g \in JobIds /\ job[g].config_id # NoConfig
      BY <1>17, CurrentIsFree DEF TypeOK
    <2>2. QED
      BY <1>17, <2>1, CaptureStop DEF PrepareStopAll, Held, slots, sweep
  <1>18. ASSUME NEW c \in Callers, NEW commit \in BOOLEAN, NEW now \in ClockReadings,
                ResolveStop(c, commit, now)
         PROVE  StopInv'
    BY <1>18, ResolvedStop DEF ResolveStop, At, Held, sweep
  <1>19. ASSUME NEW c \in Callers, NEW commit \in BOOLEAN, NEW now \in ClockReadings,
                ResolveStopAll(c, commit, now)
         PROVE  StopInv'
    BY <1>19, ResolvedStop DEF ResolveStopAll, At, Held, slots, sweep
  <1>20. ASSUME NEW c \in Callers, NEW k \in Configs, NEW now \in ClockReadings,
                StopAfterShutdown(c, k, now)
         PROVE  StopInv'
    BY <1>20, StopAfterShutdownStop
  <1>21. ASSUME NEW c \in Callers, NEW g \in JobIds,
                Deliver(c, g)
         PROVE  StopInv'
    <2>1. ToldToStop(g)
      BY <1>21 DEF Deliver, At, ToldToStop, StillToRaise
    <2>2. QuietCall(call[c], Idle)
      BY <1>21, QuietPlace DEF Idle, Held
    <2>3. QuietCall(call[c], Delivered(call[c], g))
      BY <1>21 DEF Deliver, At, QuietCall, StillToRaise, Delivered, Held, TypeOK, Calls
    <2>4. OwedJobs
      BY <1>21, <2>1, RaiseOwed DEF Deliver
    <2>5. QuietCalls
      BY <1>21, <2>2, <2>3, QuietCallUpdate DEF Deliver
    <2>6. QED
      BY <1>21, <2>4, <2>5, SlotsSame, SweepSame, QuietInv DEF Deliver, owner, slots, sweep
  <1>22. ASSUME NEW c \in Callers,
                Shutdown(c)
         PROVE  StopInv'
    <2>1. OwedJobs
      BY <1>22, JobsSame, QuietIsOwed DEF Shutdown, Initiate
    <2>2. QuietCalls
      BY <1>22, QuietGoto DEF Shutdown, Held
    <2>3. QuietSweep
      BY <1>22 DEF Shutdown, Initiate, QuietSweep
    <2>4. QED
      BY <1>22, <2>1, <2>2, SlotsSame, <2>3, QuietInv DEF Shutdown, Initiate, slots
  <1>23. ASSUME NEW c \in Callers,
                NestedShutdown(c)
         PROVE  StopInv'
    <2>1. OwedJobs
      BY <1>23, JobsSame, QuietIsOwed DEF NestedShutdown, Initiate
    <2>2. QuietCalls
      BY <1>23, CallsSame DEF NestedShutdown
    <2>3. QuietSweep
      BY <1>23 DEF NestedShutdown, Initiate, QuietSweep
    <2>4. QED
      BY <1>23, <2>1, <2>2, SlotsSame, <2>3, QuietInv DEF NestedShutdown, Initiate, slots
  <1>24. ASSUME NEW g \in JobIds,
                WorkerShutdown(g)
         PROVE  StopInv'
    <2>1. OwedJobs
      BY <1>24, JobsSame, QuietIsOwed DEF WorkerShutdown, Initiate
    <2>2. QuietCalls
      BY <1>24, CallsSame DEF WorkerShutdown
    <2>3. QuietSweep
      BY <1>24 DEF WorkerShutdown, Initiate, QuietSweep
    <2>4. QED
      BY <1>24, <2>1, <2>2, SlotsSame, <2>3, QuietInv DEF WorkerShutdown, Initiate, slots
  <1>25. ASSUME NEW a \in Actors, NEW k \in Configs, NEW now \in ClockReadings,
                SweepFind(a, k, now)
         PROVE  StopInv'
    BY <1>25, SweepFindStop
  <1>26. ASSUME NEW a \in Actors,
                SweepDeliver(a)
         PROVE  StopInv'
    <2>1. target[a] \in JobIds /\ ToldToStop(target[a])
      BY <1>26 DEF SweepDeliver, ToldToStop, TypeOK
    <2>2. OwedJobs
      BY <1>26, <2>1, RaiseOwed DEF SweepDeliver
    <2>3. QuietCalls
      BY <1>26, CallsSame DEF SweepDeliver
    <2>4. QuietSweep
      BY <1>26 DEF SweepDeliver, owner, QuietSweep, TypeOK
    <2>5. QED
      BY <1>26, <2>2, <2>3, SlotsSame, <2>4, QuietInv DEF SweepDeliver, owner, slots
  <1>27. ASSUME NEW a \in Actors,
                SweepDone(a)
         PROVE  StopInv'
    <2>1. OwedJobs
      BY <1>27, JobsSame, QuietIsOwed DEF SweepDone
    <2>2. QuietCalls
      BY <1>27, CallsSame DEF SweepDone
    <2>3. QuietSweep
      BY <1>27 DEF SweepDone, owner, QuietSweep
    <2>4. QED
      BY <1>27, <2>1, <2>2, SlotsSame, <2>3, QuietInv DEF SweepDone, owner, slots
  <1>28. ASSUME NEW c \in Callers,
                LockDrain(c)
         PROVE  StopInv'
    <2>1. OwedJobs
      BY <1>28, JobsSame, QuietIsOwed DEF LockDrain
    <2>2. QuietCalls
      BY <1>28, QuietGoto DEF LockDrain, Held
    <2>3. QED
      BY <1>28, <2>1, <2>2, SlotsSame, SweepSame, QuietInv DEF LockDrain, owner, slots, sweep
  <1>29. ASSUME NEW c \in Callers,
                AwaitReservations(c)
         PROVE  StopInv'
    <2>1. OwedJobs
      BY <1>29, JobsSame, QuietIsOwed DEF AwaitReservations
    <2>2. QuietCalls
      BY <1>29, QuietGoto DEF AwaitReservations, Held
    <2>3. QED
      BY <1>29, <2>1, <2>2, SlotsSame, SweepSame, QuietInv
         DEF AwaitReservations, owner, slots, sweep
  <1>30. ASSUME NEW c \in Callers, NEW k \in Configs,
                DrainPick(c, k)
         PROVE  StopInv'
    <2>1. LET r == [call[c] EXCEPT !.at = "drain_join", !.job = current[k]] IN
             r.captured = call[c].captured /\ r.at = "drain_join"
      BY <1>30 DEF TypeOK, Calls
    <2>2. QuietCall(call[c], [call[c] EXCEPT !.at = "drain_join", !.job = current[k]])
      BY <1>30, <2>1, QuietPlace DEF Held
    <2>3. OwedJobs
      BY <1>30, JobsSame, QuietIsOwed DEF DrainPick
    <2>4. QuietCalls
      BY <1>30, <2>2, QuietCallUpdate DEF DrainPick
    <2>5. QED
      BY <1>30, <2>3, <2>4, SlotsSame, SweepSame, QuietInv DEF DrainPick, owner, slots, sweep
  <1>31. ASSUME NEW c \in Callers,
                DrainJoin(c)
         PROVE  StopInv'
    <2>1. LET r == [call[c] EXCEPT !.at = "drain", !.job = NoJob] IN
             r.captured = call[c].captured /\ r.at = "drain"
      BY <1>31 DEF TypeOK, Calls
    <2>2. QuietCall(call[c], [call[c] EXCEPT !.at = "drain", !.job = NoJob])
      BY <1>31, <2>1, QuietPlace DEF Held
    <2>3. OwedJobs
      BY <1>31, QuietJoin, QuietIsOwed DEF DrainJoin
    <2>4. QuietCalls
      BY <1>31, <2>2, QuietCallUpdate DEF DrainJoin
    <2>5. QED
      BY <1>31, <2>3, <2>4, SlotsSame, SweepSame, QuietInv DEF DrainJoin, owner, slots, sweep
  <1>32. ASSUME NEW c \in Callers,
                ShutdownReturns(c)
         PROVE  StopInv'
    <2>1. OwedJobs
      BY <1>32, JobsSame, QuietIsOwed DEF ShutdownReturns
    <2>2. QuietCalls
      BY <1>32, QuietReturn DEF ShutdownReturns
    <2>3. QED
      BY <1>32, <2>1, <2>2, SlotsSame, SweepSame, QuietInv
         DEF ShutdownReturns, owner, slots, sweep
  <1>33. CASE UNCHANGED vars
    BY <1>33, JobsSame, QuietIsOwed, CallsSame, SlotsSame, SweepSame, QuietInv
       DEF vars, owner, slots, sweep
  <1>34. QED
    BY <1>1, <1>2, <1>3, <1>4, <1>5, <1>6, <1>7, <1>8, <1>9, <1>10, <1>11, <1>12, <1>13,
       <1>14, <1>15, <1>16, <1>17, <1>18, <1>19, <1>20, <1>21, <1>22, <1>23, <1>24, <1>25,
       <1>26, <1>27, <1>28, <1>29, <1>30, <1>31, <1>32, <1>33
       DEF Next, CallerStep, WorkerStep, SweepStep

LEMMA StopInit == Init => StopInv
  <1>. SUFFICES ASSUME Init PROVE StopInv
    OBVIOUS
  <1>1. \A g \in JobIds : ~ToldToStop(g)
    BY ConstantsAssumption DEF Init, ToldToStop, StillToRaise, Idle, Unborn, JobIds, NoJob, Actors
  <1>2. QED
    BY <1>1 DEF Init, StopInv, NoStaleStop, CapturedWasStarted, ToldWasStarted,
                ReservedNotRunning, ReservedToldAfterClose, ToldWasStopping, Idle, Unborn

\* No stop reaches a generation it was not linearised on: one that shows as running has
\* not been told to stop, however stops, restarts, shutdowns and stop callbacks overlap.
THEOREM NoStaleStopAlways == Spec => []NoStaleStop
  <1>1. Spec => [](TypeOK /\ OwnerInv /\ StopInv)
    BY TypeInit, TypeStep, InvInit, InvStep, StopInit, StopStep, PTL DEF Spec
  <1>2. StopInv => NoStaleStop
    BY DEF StopInv
  <1>3. QED
    BY <1>1, <1>2, PTL

-----------------------------------------------------------------------------
(* LifeInv is inductive *)

Ready == {"start_held"} \cup Committing

\* A job keeps its config and gate, does not come alive, and waits on at its gate.
KeepsLife(j, i) ==
    /\ i.config_id = j.config_id
    /\ i.gate = j.gate
    /\ i.phase # "completed" => j.phase # "completed"
    /\ j.worker = "gated" => i.worker = "gated"
    /\ i.worker = "preparing" => j.worker = "preparing"
KeepsCall(r, s) == s.at \in Ready => r.at \in Ready /\ s.job = r.job

KeptJobs == \A g \in JobIds : KeepsLife(job[g], job'[g])
KeptCalls == \A c \in Callers : KeepsCall(call[c], call'[c])

LEMMA KeptInv ==
    ASSUME TypeOK, OwnerInv, LifeInv, KeptJobs, KeptCalls, UNCHANGED current
    PROVE  LifeInv'
  <1>1. UncompletedIsCurrent'
    BY DEF LifeInv, UncompletedIsCurrent, KeptJobs, KeepsLife
  <1>2. HeldIsGated'
    <2>1. \A c \in Callers : call[c].at \in Ready => call[c].job \in JobIds
      BY HeldJob, CommittingJob DEF Ready, Holding
    <2>2. QED
      BY <2>1 DEF LifeInv, HeldIsGated, KeptJobs, KeepsLife, KeptCalls, KeepsCall, Ready
  <1>3. CommittedIsPrepared'
    BY DEF LifeInv, CommittedIsPrepared, KeptJobs, KeepsLife
  <1>4. QED
    BY <1>1, <1>2, <1>3 DEF LifeInv

LEMMA KeepsLifeItself == \A j : KeepsLife(j, j)
  BY DEF KeepsLife

LEMMA KeepsCallItself == \A r : KeepsCall(r, r)
  BY DEF KeepsCall

LEMMA KeptJobsSame == UNCHANGED job => KeptJobs
  BY KeepsLifeItself DEF KeptJobs

LEMMA KeptCallsSame == UNCHANGED call => KeptCalls
  BY KeepsCallItself DEF KeptCalls

LEMMA KeptJobUpdate ==
    ASSUME TypeOK, NEW g, NEW j, g \in JobIds => KeepsLife(job[g], j),
           job' = [job EXCEPT ![g] = j]
    PROVE  KeptJobs
  BY KeepsLifeItself DEF KeptJobs, TypeOK

\* A caller goes where it holds no generation.
LEMMA KeptCallUpdate ==
    ASSUME TypeOK, NEW c \in Callers, NEW s, call' = [call EXCEPT ![c] = s],
           s.at \notin Ready
    PROVE  KeptCalls
  BY KeepsCallItself DEF KeptCalls, KeepsCall, TypeOK

LEMMA KeptReturn ==
    ASSUME TypeOK, NEW c \in Callers, Return(c)
    PROVE  KeptCalls
  BY KeptCallUpdate DEF Return, Idle, Ready, Committing

LEMMA KeptGoto ==
    ASSUME TypeOK, NEW c \in Callers, NEW p, Goto(c, p), p \notin Ready
    PROVE  KeptCalls
  <1>1. [call[c] EXCEPT !.at = p].at = p
    BY DEF TypeOK, Calls
  <1>2. QED
    BY <1>1, KeptCallUpdate DEF Goto

\* A caller goes on with the generation it holds.
LEMMA KeptReady ==
    ASSUME TypeOK, NEW c \in Callers, NEW p, call[c].at \in Ready, Goto(c, p)
    PROVE  KeptCalls
  <1>1. KeepsCall(call[c], [call[c] EXCEPT !.at = p])
    BY DEF KeepsCall, TypeOK, Calls
  <1>2. QED
    BY <1>1, KeepsCallItself DEF KeptCalls, Goto, TypeOK

LEMMA KeptRaise ==
    ASSUME TypeOK, NEW g, job' = [job EXCEPT ![g].stop = TRUE]
    PROVE  KeptJobs
  <1>1. g \in JobIds => KeepsLife(job[g], [job[g] EXCEPT !.stop = TRUE])
    BY DEF KeepsLife, TypeOK, Jobs
  <1>2. QED
    BY <1>1, KeptJobUpdate

LEMMA KeptJoin ==
    ASSUME TypeOK, NEW g, g \in JobIds => job[g].worker # "gated",
           job' = [job EXCEPT ![g].worker = "joined"]
    PROVE  KeptJobs
  <1>1. g \in JobIds => KeepsLife(job[g], [job[g] EXCEPT !.worker = "joined"])
    BY DEF KeepsLife, TypeOK, Jobs
  <1>2. QED
    BY <1>1, KeptJobUpdate

\* Whoever still waits at a gate is not the completed generation a restart reaps.
LEMMA ReapedIsNotHeld ==
    ASSUME TypeOK, OwnerInv, NEW k \in Configs, StartAdmissible(k), NEW c \in Callers,
           call[c].at \in Holding \cup Committing
    PROVE  call[c].job \in JobIds /\ current[k] # NoJob => call[c].job # current[k]
  <1>1. CASE call[c].at \in Holding
    BY <1>1, HeldJob DEF OwnerInv, SlotsOfConfig
  <1>2. CASE call[c].at \in Committing
    BY <1>2, CommittingJob DEF StartAdmissible
  <1>3. QED
    BY <1>1, <1>2

\* What a restart reaps keeps its config, gate and phase, and is not preparing again.
LEMMA ReapKeeps ==
    ASSUME TypeOK, NEW k \in Configs, NEW g \in JobIds
    PROVE  LET i == ReapPrevious(k)[g] IN
           /\ i.config_id = job[g].config_id /\ i.phase = job[g].phase
           /\ i.gate = job[g].gate /\ i.stop = job[g].stop
           /\ i.worker = "preparing" => job[g].worker = "preparing"
           /\ g # current[k] => i = job[g]
  BY DEF ReapPrevious, TypeOK, Jobs

\* A start that is admitted, or admitted and failed at once: `n` is the generation it takes.
LEMMA AdmittedLife ==
    ASSUME TypeOK, OwnerInv, LifeInv, NEW k \in Configs, StartAdmissible(k), NEW n,
           \A g \in JobIds \ {n} : job'[g] = ReapPrevious(k)[g],
           n \in JobIds => /\ job'[n].phase = "completed" /\ job'[n].gate = "pending"
                           /\ \A c \in Callers : call'[c].at \in Ready /\ call'[c].job = n =>
                                 job'[n].worker = "gated",
           \A g \in JobIds \ {n} : job[g].phase # "completed" =>
                 current'[job[g].config_id] = current[job[g].config_id],
           \A c \in Callers : call'[c].at \in Ready =>
              (call'[c].job = n /\ n \in JobIds) \/ (call'[c] = call[c] /\ call[c].job # n)
    PROVE  LifeInv'
  <1>1. UncompletedIsCurrent'
    BY ReapKeeps DEF LifeInv, UncompletedIsCurrent
  <1>2. HeldIsGated'
    <2>1. ASSUME NEW c \in Callers, call[c].at \in Ready, call[c].job # n
          PROVE  job'[call[c].job].worker = "gated"
      <3>1. call[c].job \in JobIds /\ (current[k] # NoJob => call[c].job # current[k])
        BY <2>1, ReapedIsNotHeld, HeldJob, CommittingJob DEF Ready, Holding
      <3>2. call[c].job # current[k]
        BY <3>1, ConstantsAssumption DEF JobIds, NoJob
      <3>3. job'[call[c].job] = job[call[c].job]
        BY <2>1, <3>1, <3>2, ReapKeeps
      <3>4. QED
        BY <2>1, <3>3 DEF LifeInv, HeldIsGated, Ready
    <2>2. QED
      BY <2>1 DEF HeldIsGated, Ready
  <1>3. CommittedIsPrepared'
    BY ReapKeeps DEF LifeInv, CommittedIsPrepared
  <1>4. QED
    BY <1>1, <1>2, <1>3 DEF LifeInv

LEMMA PrepareStartLife ==
    ASSUME TypeOK, OwnerInv, LifeInv, NEW c \in Callers, NEW k \in Configs,
           NEW kind \in BackendKinds, NEW now \in ClockReadings, PrepareStart(c, k, kind, now)
    PROVE  LifeInv'
  <1> DEFINE n == next_job_generation
  <1>1. /\ n \in JobIds
        /\ \A d \in Callers : call[d].at \in Holding \cup Committing => call[d].job # n
    BY FreshGeneration DEF PrepareStart
  <1>2. /\ \A g \in JobIds \ {n} : job'[g] = ReapPrevious(k)[g]
        /\ job'[n].phase = "completed" /\ job'[n].gate = "pending"
        /\ job'[n].worker = IF kind = "prepared" THEN "preparing" ELSE "gated"
    BY <1>1 DEF PrepareStart, NewJob, Unborn, ReapPrevious, TypeOK
  <1>3. /\ \A d \in Callers \ {c} : call'[d] = call[d]
        /\ call'[c].at = IF kind = "prepared" THEN "await_preparation" ELSE "start_held"
        /\ call'[c].job = n
    BY DEF PrepareStart, Idle, TypeOK
  <1>4. StartAdmissible(k) /\ UNCHANGED current
    BY DEF PrepareStart
  <1>5. \A d \in Callers : call'[d].at \in Ready =>
           (call'[d].job = n /\ n \in JobIds) \/ (call'[d] = call[d] /\ call[d].job # n)
    BY <1>1, <1>3 DEF Ready, Holding
  <1>6. \A d \in Callers : call'[d].at \in Ready /\ call'[d].job = n => job'[n].worker = "gated"
    BY <1>1, <1>2, <1>3 DEF Ready, Holding, Committing
  <1> HIDE DEF n
  <1>7. QED
    BY <1>2, <1>4, <1>5, <1>6, AdmittedLife

LEMMA StartExhaustedLife ==
    ASSUME TypeOK, OwnerInv, LifeInv, NEW c \in Callers, NEW k \in Configs, StartExhausted(c, k)
    PROVE  LifeInv'
  <1>1. StartAdmissible(k) /\ UNCHANGED <<current, call>>
    BY DEF StartExhausted, slots
  <1>2. \A g \in JobIds \ {NoJob} : job'[g] = ReapPrevious(k)[g]
    BY DEF StartExhausted
  <1>3. NoJob \notin JobIds
    BY ConstantsAssumption DEF JobIds, NoJob
  <1>4. \A d \in Callers : call'[d].at \in Ready => call'[d] = call[d] /\ call[d].job # NoJob
    BY <1>1, <1>3, HeldJob, CommittingJob DEF Ready, Holding
  <1>5. QED
    BY <1>1, <1>2, <1>3, <1>4, AdmittedLife

LEMMA ThreadStartFailedLife ==
    ASSUME TypeOK, OwnerInv, LifeInv, NEW c \in Callers, NEW k \in Configs,
           NEW publish \in BOOLEAN, NEW now \in ClockReadings, NEW later \in ClockReadings,
           ThreadStartFailed(c, k, publish, now, later)
    PROVE  LifeInv'
  <1> DEFINE n == next_job_generation
  <1>1. /\ n \in JobIds
        /\ \A d \in Callers : call[d].at \in Holding \cup Committing => call[d].job # n
    BY FreshGeneration DEF ThreadStartFailed
  <1>2. /\ \A g \in JobIds \ {n} : job'[g] = ReapPrevious(k)[g]
        /\ job'[n].phase = "completed" /\ job'[n].gate = "pending"
    BY <1>1 DEF ThreadStartFailed, NewJob, Unborn, ReapPrevious, TypeOK
  <1>3. StartAdmissible(k) /\ UNCHANGED call
    BY DEF ThreadStartFailed
  <1>4. \A g \in JobIds : job[g].phase # "completed" =>
           current'[job[g].config_id] = current[job[g].config_id]
    <2>1. ASSUME NEW g \in JobIds, job[g].phase # "completed"
          PROVE  job[g].config_id \in Configs \ {k}
      <3>1. job[g].config_id \in Configs /\ current[job[g].config_id] = g /\ g # NoJob
        BY <2>1, SlotTypes, ConstantsAssumption DEF LifeInv, UncompletedIsCurrent, JobIds, NoJob
      <3>2. QED
        BY <2>1, <3>1, <1>3 DEF StartAdmissible
    <2>2. QED
      BY <2>1 DEF ThreadStartFailed, TypeOK
  <1>5. \A d \in Callers : call'[d].at \in Ready => call'[d] = call[d] /\ call[d].job # n
    BY <1>1, <1>3 DEF Ready, Holding
  <1> HIDE DEF n
  <1>6. QED
    BY <1>2, <1>3, <1>4, <1>5, AdmittedLife

\* The generation a start commits succeeds a completed one.
LEMMA CommitStartLife ==
    ASSUME TypeOK, OwnerInv, LifeInv, NEW c \in Callers, NEW now \in ClockReadings,
           CommitStart(c, now)
    PROVE  LifeInv'
  <1> DEFINE g == call[c].job
             k == call[c].config
  <1>1. /\ g \in JobIds /\ k \in Configs /\ reserved[k] = g
        /\ job[g].config_id = k /\ k # NoConfig /\ g # NoJob
    BY HeldJob, ConstantsAssumption DEF CommitStart, At, Holding, JobIds, NoJob
  <1>2. /\ job'[g].config_id = k /\ job'[g].gate = job[g].gate
        /\ job'[g].worker = job[g].worker
        /\ \A h \in JobIds \ {g} : job'[h] = job[h]
    BY <1>1 DEF CommitStart, Stopping, TypeOK, Jobs
  <1>3. /\ current'[k] = g
        /\ \A l \in Configs \ {k} : current'[l] = current[l]
    BY <1>1 DEF CommitStart, TypeOK
  <1>4. /\ \A d \in Callers \ {c} : call'[d] = call[d]
        /\ call'[c].job = g /\ call[c].at \in Ready
    BY DEF CommitStart, At, Goto, Ready, TypeOK, Calls
  <1>5. current[k] # NoJob => job[current[k]].phase = "completed"
    BY <1>1 DEF OwnerInv, SlotsOfConfig
  <1>6. \A d \in Callers : call[d].at \in Ready => call[d].job \in JobIds
    BY HeldJob, CommittingJob DEF Ready, Holding
  <1> HIDE DEF g, k
  <1>7. UncompletedIsCurrent'
    <2>1. ASSUME NEW h \in JobIds \ {g}, job[h].phase # "completed"
          PROVE  job[h].config_id \in Configs \ {k} /\ current[job[h].config_id] = h
      BY <2>1, <1>5, SlotTypes, ConstantsAssumption
         DEF LifeInv, UncompletedIsCurrent, JobIds, NoJob
    <2>2. QED
      BY <2>1, <1>1, <1>2, <1>3, ConstantsAssumption DEF UncompletedIsCurrent
  <1>8. HeldIsGated'
    <2>1. \A d \in Callers : call'[d].at \in Ready =>
             call[d].at \in Ready /\ call'[d].job = call[d].job
      BY <1>4 DEF g
    <2>2. \A h \in JobIds : job'[h].worker = job[h].worker
      BY <1>2
    <2>3. QED
      BY <2>1, <2>2, <1>6 DEF LifeInv, HeldIsGated, Ready
  <1>9. CommittedIsPrepared'
    BY <1>1, <1>2 DEF LifeInv, CommittedIsPrepared
  <1>10. QED
    BY <1>7, <1>8, <1>9 DEF LifeInv

\* Who opens or cancels a gate is alone with its generation, which waits at it.
LEMMA GateLife ==
    ASSUME TypeOK, OwnerInv, LifeInv, NEW c \in Callers, call[c].at \in Ready,
           NEW way \in Gates, job' = [job EXCEPT ![call[c].job].gate = way],
           call'[c].at \notin Ready, OnlyCaller(c), UNCHANGED current
    PROVE  LifeInv'
  <1> DEFINE g == call[c].job
  <1>1. \A d \in Callers : call[d].at \in Ready => call[d].job \in JobIds
    BY HeldJob, CommittingJob DEF Ready, Holding
  <1>2. g \in JobIds /\ job[g].worker = "gated"
    BY <1>1 DEF LifeInv, HeldIsGated, Ready
  <1>3. \A h \in JobIds : /\ job'[h].config_id = job[h].config_id
                          /\ job'[h].phase = job[h].phase /\ job'[h].worker = job[h].worker
                          /\ h # g => job'[h] = job[h]
    BY <1>2 DEF TypeOK, Jobs
  <1> HIDE DEF g
  <1>4. UncompletedIsCurrent'
    BY <1>3 DEF LifeInv, UncompletedIsCurrent
  <1>5. HeldIsGated'
    BY <1>1, <1>3 DEF LifeInv, HeldIsGated, Ready, OnlyCaller
  <1>6. CommittedIsPrepared'
    BY <1>2, <1>3 DEF LifeInv, CommittedIsPrepared
  <1>7. QED
    BY <1>4, <1>5, <1>6 DEF LifeInv

LEMMA PassGateLife ==
    ASSUME TypeOK, OwnerInv, LifeInv, NEW g \in JobIds, PassGate(g)
    PROVE  LifeInv'
  <1>1. \A h \in JobIds : /\ job'[h].config_id = job[h].config_id
                          /\ job'[h].phase = job[h].phase /\ job'[h].gate = job[h].gate
                          /\ job'[h].worker = "preparing" => job[h].worker = "preparing"
                          /\ h # g => job'[h] = job[h]
    BY DEF PassGate, TypeOK, Jobs
  <1>2. \A c \in Callers : call[c].at \in Ready => call[c].job \in JobIds \ {g}
    BY HeldJob, CommittingJob DEF PassGate, Ready, Holding
  <1>3. UNCHANGED <<call, current>>
    BY DEF PassGate, slots
  <1>4. UncompletedIsCurrent'
    BY <1>1, <1>3 DEF LifeInv, UncompletedIsCurrent
  <1>5. HeldIsGated'
    BY <1>1, <1>2, <1>3 DEF LifeInv, HeldIsGated, Ready
  <1>6. CommittedIsPrepared'
    BY <1>1 DEF LifeInv, CommittedIsPrepared
  <1>7. QED
    BY <1>4, <1>5, <1>6 DEF LifeInv

\* A caller is told that its backend is prepared only when the worker waits at its gate.
LEMMA PreparationSucceededLife ==
    ASSUME TypeOK, OwnerInv, LifeInv, NEW c \in Callers, PreparationSucceeded(c)
    PROVE  LifeInv'
  <1>1. UNCHANGED <<job, current>>
    BY DEF PreparationSucceeded, slots
  <1>2. /\ \A d \in Callers \ {c} : call'[d] = call[d]
        /\ call'[c].job = call[c].job /\ job[call[c].job].worker = "gated"
    BY DEF PreparationSucceeded, Goto, TypeOK, Calls
  <1>3. HeldIsGated'
    BY <1>1, <1>2 DEF LifeInv, HeldIsGated
  <1>4. QED
    BY <1>1, <1>3 DEF LifeInv, UncompletedIsCurrent, CommittedIsPrepared

LEMMA ResolvedKept ==
    ASSUME TypeOK, NEW c \in Callers, NEW commit \in BOOLEAN, NEW now \in ClockReadings,
           Resolved(c, commit, now)
    PROVE  KeptJobs /\ KeptCalls
  <1>1. ASSUME NEW g \in JobIds
        PROVE  /\ KeepsLife(job[g], CommittedJob(c, g, now))
               /\ KeepsLife(job[g], AbortedJob(g, now))
    <2>1. job[g] \in Jobs
      BY DEF TypeOK
    <2>2. g \in Transitions(c) => job[g].phase = "running"
      BY DEF Transitions
    <2>3. QED
      BY <2>1, <2>2 DEF KeepsLife, CommittedJob, AbortedJob, StoppingAt,
                        publish_pending_progress, discard_pending_progress, Jobs
  <1>2. KeptJobs
    BY <1>1, KeepsLifeItself DEF Resolved, KeptJobs
  <1>3. /\ Idle.at \notin Ready
        /\ [Idle EXCEPT !.at = "deliver", !.captured = Transitions(c)].at \notin Ready
    BY DEF Idle, Ready, Committing
  <1>4. KeptCalls
    BY <1>3, KeptCallUpdate DEF Resolved
  <1>5. QED
    BY <1>2, <1>4

LEMMA LifeStep == TypeOK /\ OwnerInv /\ LifeInv /\ [Next]_vars => LifeInv'
  <1>. SUFFICES ASSUME TypeOK, OwnerInv, LifeInv, [Next]_vars PROVE LifeInv'
    OBVIOUS
  <1>1. ASSUME NEW c \in Callers, NEW k \in Configs, NEW kind \in BackendKinds,
               NEW now \in ClockReadings,
               PrepareStart(c, k, kind, now)
        PROVE  LifeInv'
    BY <1>1, PrepareStartLife
  <1>2. ASSUME NEW c \in Callers, NEW k \in Configs,
               StartExhausted(c, k)
        PROVE  LifeInv'
    BY <1>2, StartExhaustedLife
  <1>3. ASSUME NEW c \in Callers, NEW k \in Configs, NEW publish \in BOOLEAN,
               NEW now \in ClockReadings, NEW later \in ClockReadings,
               ThreadStartFailed(c, k, publish, now, later)
        PROVE  LifeInv'
    BY <1>3, ThreadStartFailedLife
  <1>4. ASSUME NEW c \in Callers,
               PreparationSucceeded(c)
        PROVE  LifeInv'
    BY <1>4, PreparationSucceededLife
  <1>5. ASSUME NEW c \in Callers,
               PreparationFailed(c)
        PROVE  LifeInv'
    <2>1. KeptJobs
      BY <1>5, KeptJobsSame DEF PreparationFailed
    <2>2. KeptCalls
      BY <1>5, KeptGoto DEF PreparationFailed, Ready, Committing
    <2>3. QED
      BY <1>5, <2>1, <2>2, KeptInv DEF PreparationFailed
  <1>6. ASSUME NEW c \in Callers,
               JoinFailed(c)
        PROVE  LifeInv'
    <2>1. KeptJobs
      BY <1>6, KeptJoin DEF JoinFailed, Exited
    <2>2. KeptCalls
      BY <1>6, KeptReturn DEF JoinFailed
    <2>3. QED
      BY <1>6, <2>1, <2>2, KeptInv DEF JoinFailed, slots
  <1>7. ASSUME NEW c \in Callers, NEW now \in ClockReadings,
               CommitStart(c, now)
        PROVE  LifeInv'
    BY <1>7, CommitStartLife
  <1>8. ASSUME NEW c \in Callers,
               StopBeforeRelease(c)
        PROVE  LifeInv'
    <2>1. KeptJobs
      BY <1>8, KeptRaise DEF StopBeforeRelease
    <2>2. KeptCalls
      BY <1>8, KeptReady DEF StopBeforeRelease, At, Ready, Committing
    <2>3. QED
      BY <1>8, <2>1, <2>2, KeptInv DEF StopBeforeRelease, slots
  <1>9. ASSUME NEW c \in Callers,
               ReleaseGate(c)
        PROVE  LifeInv'
    <2>1. call[c].at \in Ready
      BY <1>9 DEF ReleaseGate, At, Ready, Committing
    <2>2. call'[c].at \notin Ready /\ OnlyCaller(c)
      BY <1>9 DEF ReleaseGate, Return, Idle, OnlyCaller, TypeOK, Ready, Committing
    <2>3. QED
      BY <1>9, <2>1, <2>2, GateLife DEF ReleaseGate, Gates, slots
  <1>10. ASSUME NEW c \in Callers,
                CancelStart(c)
         PROVE  LifeInv'
    <2>1. call[c].at \in Ready
      BY <1>10 DEF CancelStart, At, Ready, Committing
    <2>2. call'[c].at \notin Ready /\ OnlyCaller(c)
      BY <1>10 DEF CancelStart, Goto, OnlyCaller, TypeOK, Calls, Ready, Committing
    <2>3. QED
      BY <1>10, <2>1, <2>2, GateLife DEF CancelStart, Gates, slots
  <1>11. ASSUME NEW c \in Callers,
                JoinCancelled(c)
         PROVE  LifeInv'
    <2>1. KeptJobs
      BY <1>11, KeptJoin DEF JoinCancelled, Exited
    <2>2. KeptCalls
      BY <1>11, KeptReturn DEF JoinCancelled
    <2>3. QED
      BY <1>11, <2>1, <2>2, KeptInv DEF JoinCancelled
  <1>12. ASSUME NEW g \in JobIds, NEW ok \in BOOLEAN,
                Prepare(g, ok)
         PROVE  LifeInv'
    <2>1. KeepsLife(job[g], [job[g] EXCEPT !.worker = IF ok THEN "gated" ELSE "exited"])
      BY <1>12 DEF Prepare, KeepsLife, TypeOK, Jobs
    <2>2. KeptJobs
      BY <1>12, <2>1, KeptJobUpdate DEF Prepare
    <2>3. KeptCalls
      BY <1>12, KeptCallsSame DEF Prepare
    <2>4. QED
      BY <1>12, <2>2, <2>3, KeptInv DEF Prepare, slots
  <1>13. ASSUME NEW g \in JobIds,
                PassGate(g)
         PROVE  LifeInv'
    BY <1>13, PassGateLife
  <1>14. ASSUME NEW g \in JobIds, NEW now \in ClockReadings,
                Report(g, now)
         PROVE  LifeInv'
    <2>1. KeepsLife(job[g], Stage(job[g])) /\ KeepsLife(job[g], Publish(job[g], now))
      BY <1>14 DEF KeepsLife, Stage, Publish, TypeOK, Jobs
    <2>2. KeptJobs
      BY <1>14, <2>1, KeptJobUpdate DEF Report
    <2>3. KeptCalls
      BY <1>14, KeptCallsSame DEF Report
    <2>4. QED
      BY <1>14, <2>2, <2>3, KeptInv DEF Report, slots
  <1>15. ASSUME NEW g \in JobIds, NEW now \in ClockReadings,
                Finish(g, now)
         PROVE  LifeInv'
    <2>1. KeepsLife(job[g], Terminal(job[g], now))
      BY <1>15 DEF Finish, KeepsLife, Terminal, TypeOK, Jobs
    <2>2. KeptJobs
      BY <1>15, <2>1, KeptJobUpdate DEF Finish
    <2>3. KeptCalls
      BY <1>15, KeptCallsSame DEF Finish
    <2>4. QED
      BY <1>15, <2>2, <2>3, KeptInv DEF Finish, slots
  <1>16. ASSUME NEW c \in Callers, NEW k \in Configs, NEW now \in ClockReadings,
                PrepareStop(c, k, now)
         PROVE  LifeInv'
    <2>1. \A x, y, z, w : [Idle EXCEPT !.at = "stop_held", !.config = w,
             !.captured = x, !.running = y, !.stamp = z].at \notin Ready
      BY <1>16 DEF Idle, Ready, Committing
    <2>2. KeptJobs
      BY <1>16, KeptJobsSame DEF PrepareStop
    <2>3. KeptCalls
      BY <1>16, <2>1, KeptCallUpdate DEF PrepareStop, Capture
    <2>4. QED
      BY <1>16, <2>2, <2>3, KeptInv DEF PrepareStop
  <1>17. ASSUME NEW c \in Callers, NEW now \in ClockReadings,
                PrepareStopAll(c, now)
         PROVE  LifeInv'
    <2>1. \A x, y, z, w : [Idle EXCEPT !.at = "stop_all_held", !.config = w,
             !.captured = x, !.running = y, !.stamp = z].at \notin Ready
      BY <1>17 DEF Idle, Ready, Committing
    <2>2. KeptJobs
      BY <1>17, KeptJobsSame DEF PrepareStopAll
    <2>3. KeptCalls
      BY <1>17, <2>1, KeptCallUpdate DEF PrepareStopAll, Capture
    <2>4. QED
      BY <1>17, <2>2, <2>3, KeptInv DEF PrepareStopAll, slots
  <1>18. ASSUME NEW c \in Callers, NEW commit \in BOOLEAN, NEW now \in ClockReadings,
                ResolveStop(c, commit, now)
         PROVE  LifeInv'
    <2>1. KeptJobs
      BY <1>18, ResolvedKept DEF ResolveStop
    <2>2. KeptCalls
      BY <1>18, ResolvedKept DEF ResolveStop
    <2>3. QED
      BY <1>18, <2>1, <2>2, KeptInv DEF ResolveStop
  <1>19. ASSUME NEW c \in Callers, NEW commit \in BOOLEAN, NEW now \in ClockReadings,
                ResolveStopAll(c, commit, now)
         PROVE  LifeInv'
    <2>1. KeptJobs
      BY <1>19, ResolvedKept DEF ResolveStopAll
    <2>2. KeptCalls
      BY <1>19, ResolvedKept DEF ResolveStopAll
    <2>3. QED
      BY <1>19, <2>1, <2>2, KeptInv DEF ResolveStopAll, slots
  <1>20. ASSUME NEW c \in Callers, NEW k \in Configs, NEW now \in ClockReadings,
                StopAfterShutdown(c, k, now)
         PROVE  LifeInv'
    <2>1. KeepsLife(job[current[k]], Stopping(job[current[k]], now))
      BY <1>20 DEF StopAfterShutdown, KeepsLife, Stopping, TypeOK, Jobs
    <2>2. [Idle EXCEPT !.at = "deliver", !.captured = {current[k]}].at \notin Ready
      BY <1>20 DEF Idle, Ready, Committing
    <2>3. KeptJobs
      BY <1>20, <2>1, KeptJobUpdate DEF StopAfterShutdown
    <2>4. KeptCalls
      BY <1>20, <2>2, KeptCallUpdate DEF StopAfterShutdown
    <2>5. QED
      BY <1>20, <2>3, <2>4, KeptInv DEF StopAfterShutdown, slots
  <1>21. ASSUME NEW c \in Callers, NEW g \in JobIds,
                Deliver(c, g)
         PROVE  LifeInv'
    <2>1. Idle.at \notin Ready /\ Delivered(call[c], g).at \notin Ready
      BY <1>21 DEF Deliver, At, Delivered, Idle, TypeOK, Calls, Ready, Committing
    <2>2. KeptJobs
      BY <1>21, KeptRaise DEF Deliver
    <2>3. KeptCalls
      BY <1>21, <2>1, KeptCallUpdate DEF Deliver
    <2>4. QED
      BY <1>21, <2>2, <2>3, KeptInv DEF Deliver, slots
  <1>22. ASSUME NEW c \in Callers,
                Shutdown(c)
         PROVE  LifeInv'
    <2>1. KeptJobs
      BY <1>22, KeptJobsSame DEF Shutdown, Initiate
    <2>2. KeptCalls
      BY <1>22, KeptGoto DEF Shutdown, Ready, Committing
    <2>3. QED
      BY <1>22, <2>1, <2>2, KeptInv DEF Shutdown, Initiate, slots
  <1>23. ASSUME NEW c \in Callers,
                NestedShutdown(c)
         PROVE  LifeInv'
    <2>1. KeptJobs
      BY <1>23, KeptJobsSame DEF NestedShutdown, Initiate
    <2>2. KeptCalls
      BY <1>23, KeptCallsSame DEF NestedShutdown
    <2>3. QED
      BY <1>23, <2>1, <2>2, KeptInv DEF NestedShutdown, Initiate, slots
  <1>24. ASSUME NEW g \in JobIds,
                WorkerShutdown(g)
         PROVE  LifeInv'
    <2>1. KeptJobs
      BY <1>24, KeptJobsSame DEF WorkerShutdown, Initiate
    <2>2. KeptCalls
      BY <1>24, KeptCallsSame DEF WorkerShutdown
    <2>3. QED
      BY <1>24, <2>1, <2>2, KeptInv DEF WorkerShutdown, Initiate, slots
  <1>25. ASSUME NEW a \in Actors, NEW k \in Configs, NEW now \in ClockReadings,
                SweepFind(a, k, now)
         PROVE  LifeInv'
    <2>1. current[k] \in JobIds =>
             /\ KeepsLife(job[current[k]], discard_pending_progress(job[current[k]]))
             /\ job[current[k]].phase = "running" =>
                   KeepsLife(job[current[k]], Stopping(discard_pending_progress(job[current[k]]), now))
      BY <1>25 DEF KeepsLife, Stopping, discard_pending_progress, TypeOK, Jobs
    <2>2. KeptJobs
      BY <1>25, <2>1, KeptJobsSame, KeptJobUpdate DEF SweepFind
    <2>3. KeptCalls
      BY <1>25, KeptCallsSame DEF SweepFind
    <2>4. QED
      BY <1>25, <2>2, <2>3, KeptInv DEF SweepFind, slots
  <1>26. ASSUME NEW a \in Actors,
                SweepDeliver(a)
         PROVE  LifeInv'
    <2>1. KeptJobs
      BY <1>26, KeptRaise DEF SweepDeliver
    <2>2. KeptCalls
      BY <1>26, KeptCallsSame DEF SweepDeliver
    <2>3. QED
      BY <1>26, <2>1, <2>2, KeptInv DEF SweepDeliver, slots
  <1>27. ASSUME NEW a \in Actors,
                SweepDone(a)
         PROVE  LifeInv'
    <2>1. KeptJobs
      BY <1>27, KeptJobsSame DEF SweepDone
    <2>2. KeptCalls
      BY <1>27, KeptCallsSame DEF SweepDone
    <2>3. QED
      BY <1>27, <2>1, <2>2, KeptInv DEF SweepDone, slots
  <1>28. ASSUME NEW c \in Callers,
                LockDrain(c)
         PROVE  LifeInv'
    <2>1. KeptJobs
      BY <1>28, KeptJobsSame DEF LockDrain
    <2>2. KeptCalls
      BY <1>28, KeptGoto DEF LockDrain, Ready, Committing
    <2>3. QED
      BY <1>28, <2>1, <2>2, KeptInv DEF LockDrain, slots
  <1>29. ASSUME NEW c \in Callers,
                AwaitReservations(c)
         PROVE  LifeInv'
    <2>1. KeptJobs
      BY <1>29, KeptJobsSame DEF AwaitReservations
    <2>2. KeptCalls
      BY <1>29, KeptGoto DEF AwaitReservations, Ready, Committing
    <2>3. QED
      BY <1>29, <2>1, <2>2, KeptInv DEF AwaitReservations, slots
  <1>30. ASSUME NEW c \in Callers, NEW k \in Configs,
                DrainPick(c, k)
         PROVE  LifeInv'
    <2>1. [call[c] EXCEPT !.at = "drain_join", !.job = current[k]].at \notin Ready
      BY <1>30 DEF TypeOK, Calls, Ready, Committing
    <2>2. KeptJobs
      BY <1>30, KeptJobsSame DEF DrainPick
    <2>3. KeptCalls
      BY <1>30, <2>1, KeptCallUpdate DEF DrainPick
    <2>4. QED
      BY <1>30, <2>2, <2>3, KeptInv DEF DrainPick, slots
  <1>31. ASSUME NEW c \in Callers,
                DrainJoin(c)
         PROVE  LifeInv'
    <2>1. [call[c] EXCEPT !.at = "drain", !.job = NoJob].at \notin Ready
      BY <1>31 DEF TypeOK, Calls, Ready, Committing
    <2>2. KeptJobs
      BY <1>31, KeptJoin DEF DrainJoin, Exited
    <2>3. KeptCalls
      BY <1>31, <2>1, KeptCallUpdate DEF DrainJoin
    <2>4. QED
      BY <1>31, <2>2, <2>3, KeptInv DEF DrainJoin, slots
  <1>32. ASSUME NEW c \in Callers,
                ShutdownReturns(c)
         PROVE  LifeInv'
    <2>1. KeptJobs
      BY <1>32, KeptJobsSame DEF ShutdownReturns
    <2>2. KeptCalls
      BY <1>32, KeptReturn DEF ShutdownReturns
    <2>3. QED
      BY <1>32, <2>1, <2>2, KeptInv DEF ShutdownReturns, slots
  <1>33. CASE UNCHANGED vars
    BY <1>33, KeptJobsSame, KeptCallsSame, KeptInv DEF vars, slots
  <1>34. QED
    BY <1>1, <1>2, <1>3, <1>4, <1>5, <1>6, <1>7, <1>8, <1>9, <1>10, <1>11, <1>12, <1>13,
       <1>14, <1>15, <1>16, <1>17, <1>18, <1>19, <1>20, <1>21, <1>22, <1>23, <1>24, <1>25,
       <1>26, <1>27, <1>28, <1>29, <1>30, <1>31, <1>32, <1>33
       DEF Next, CallerStep, WorkerStep, SweepStep

LEMMA LifeInit == Init => LifeInv
  BY DEF Init, LifeInv, UncompletedIsCurrent, HeldIsGated, CommittedIsPrepared, Committing,
         Idle, Unborn

\* OwnerInv, StopInv and LifeInv together are inductive.
LEMMA OwnerHolds == Spec => [](TypeOK /\ OwnerInv /\ StopInv /\ LifeInv)
  BY TypeInit, TypeStep, InvInit, InvStep, StopInit, StopStep, LifeInit, LifeStep, PTL DEF Spec

-----------------------------------------------------------------------------
(* What a step of the owner is a step of TaskLifecycle for *)

InBackend(j) == j.worker = "running" \/ (j.gate = "committed" /\ ~(j.worker = "gated"))

SameKey(g) == job'[g].config_id = job[g].config_id
SameLife(g) == Life(g)' = Life(g)
SameEntry(g) == InBackend(job'[g]) <=> InBackend(job[g])
SameStop(g) == job'[g].stop = job[g].stop
SameView(g) == SameKey(g) /\ SameLife(g) /\ SameEntry(g) /\ SameStop(g)

LEMMA MapsToNothing ==
    ASSUME \A g \in JobIds : SameView(g), UNCHANGED accepting
    PROVE  UNCHANGED Lifecycle!vars
  BY DEF SameView, SameKey, SameLife, SameEntry, SameStop, InBackend, Lifecycle!vars

LEMMA MapsToMove ==
    ASSUME NEW g \in JobIds, \A h \in JobIds \ {g} : SameView(h),
           SameKey(g), SameEntry(g), SameStop(g), UNCHANGED accepting
    PROVE  /\ Life(g) = "held" /\ Life(g)' = (IF accepting THEN "live" ELSE "stopping") =>
                 Lifecycle!Commit(g)
           /\ Life(g) = "held" /\ Life(g)' = "dropped" => Lifecycle!Drop(g)
           /\ /\ Life(g) \in {"live", "stopping"} /\ InBackend(job[g])
              /\ Life(g)' = "ended"
              => Lifecycle!End(g)
  BY DEF SameView, SameKey, SameLife, SameEntry, SameStop, InBackend,
         Lifecycle!Commit, Lifecycle!Drop, Lifecycle!End, Lifecycle!Move

LEMMA MapsToAsk ==
    ASSUME NEW g \in JobIds, \A h \in JobIds \ {g} : SameView(h),
           SameKey(g), SameLife(g), SameEntry(g), job'[g].stop = TRUE, UNCHANGED accepting,
           Life(g) \in IF accepting THEN {"stopping", "ended"}
                       ELSE {"held", "stopping", "ended", "dropped"}
    PROVE  Lifecycle!Ask(g)
  BY DEF SameView, SameKey, SameLife, SameEntry, SameStop, InBackend, Lifecycle!Ask

LEMMA MapsToEnter ==
    ASSUME NEW g \in JobIds, \A h \in JobIds \ {g} : SameView(h),
           SameKey(g), SameLife(g), SameStop(g), UNCHANGED accepting,
           Life(g) \in {"live", "stopping"}, ~InBackend(job[g]), InBackend(job'[g])
    PROVE  Lifecycle!Enter(g)
  BY DEF SameView, SameKey, SameLife, SameEntry, SameStop, InBackend, Lifecycle!Enter

LEMMA MapsToStop ==
    ASSUME NEW G \in SUBSET JobIds, G # {}, \A g \in G : Life(g) = "live" /\ Life(g)' = "stopping",
           \A h \in JobIds \ G : SameView(h),
           \A h \in G : SameKey(h) /\ SameEntry(h) /\ SameStop(h), UNCHANGED accepting
    PROVE  Lifecycle!Stop(G)
  BY DEF SameView, SameKey, SameLife, SameEntry, SameStop, InBackend, Lifecycle!Stop

LEMMA MapsToClose ==
    ASSUME \A g \in JobIds : SameView(g), accepting' = FALSE
    PROVE  Lifecycle!Close
  BY DEF SameView, SameKey, SameLife, SameEntry, SameStop, InBackend, Lifecycle!Close

LEMMA MapsToStart ==
    ASSUME NEW g \in JobIds, NEW k \in Configs, \A h \in JobIds \ {g} : SameView(h),
           accepting, UNCHANGED accepting, Life(g) = "unused", job'[g].config_id = k,
           SameEntry(g), SameStop(g),
           \A h \in JobIds : job[h].config_id = k => Life(h) \notin {"held", "live", "stopping"}
    PROVE  /\ Life(g)' = "held" => Lifecycle!Reserve(g, k)
           /\ Life(g)' = "dropped" => Lifecycle!Fail(g, k)
  BY DEF SameView, SameKey, SameLife, SameEntry, SameStop, InBackend,
         Lifecycle!Reserve, Lifecycle!Fail, Lifecycle!Move, Lifecycle!Admitted

-----------------------------------------------------------------------------
(* What the steps of the owner do to the life of a generation *)

\* A job that TaskLifecycle sees no change of.
QuietView(j, i) ==
    /\ i.config_id = j.config_id /\ i.phase = j.phase /\ i.stop = j.stop
    /\ i.gate = "committed" <=> j.gate = "committed"
    /\ InBackend(i) <=> InBackend(j)

SameSlots(g) == \A k \in Configs : reserved'[k] = g <=> reserved[k] = g

LEMMA QuietViewItself == \A j : QuietView(j, j)
  BY DEF QuietView

LEMMA ViewKept ==
    ASSUME TypeOK, NEW g \in JobIds, QuietView(job[g], job'[g]), SameSlots(g)
    PROVE  SameView(g)
  <1>1. job[g].config_id \in Configs \cup {NoConfig}
    BY SlotTypes
  <1>2. SameLife(g)
    BY <1>1 DEF SameLife, Life, QuietView, SameSlots
  <1>3. QED
    BY <1>2 DEF SameView, SameKey, SameEntry, SameStop, QuietView

LEMMA SlotsKept == UNCHANGED reserved => \A g : SameSlots(g)
  BY DEF SameSlots

\* Every job but one keeps its view.
LEMMA OthersKept ==
    ASSUME TypeOK, NEW g, NEW j, job' = [job EXCEPT ![g] = j], UNCHANGED reserved
    PROVE  \A h \in JobIds \ {g} : SameView(h)
  <1>1. \A h \in JobIds \ {g} : job'[h] = job[h]
    BY DEF TypeOK
  <1>2. QED
    BY <1>1, ViewKept, SlotsKept, QuietViewItself

LEMMA AllKept ==
    ASSUME TypeOK, UNCHANGED reserved,
           \/ UNCHANGED job
           \/ \E g, j : /\ job' = [job EXCEPT ![g] = j]
                        /\ g \in JobIds => QuietView(job[g], j)
    PROVE  \A h \in JobIds : SameView(h)
  <1>1. \A h \in JobIds : QuietView(job[h], job'[h])
    BY QuietViewItself DEF TypeOK
  <1>2. QED
    BY <1>1, ViewKept, SlotsKept

\* A generation that is current is not the reserved one of any config.
LEMMA UncompletedLife ==
    ASSUME TypeOK, OwnerInv, LifeInv, NEW g \in JobIds, job[g].phase # "completed"
    PROVE  /\ job[g].config_id \in Configs /\ current[job[g].config_id] = g
           /\ \A k \in Configs : reserved[k] # g
           /\ Life(g) = IF job[g].phase = "running" THEN "live" ELSE "stopping"
  <1>1. job[g].config_id \in Configs /\ current[job[g].config_id] = g
    BY SlotTypes DEF LifeInv, UncompletedIsCurrent
  <1>2. \A k \in Configs : reserved[k] # g
    BY <1>1, ConstantsAssumption DEF OwnerInv, SlotsOfConfig, JobIds, NoJob
  <1>3. job[g].config_id # NoConfig /\ job[g].phase \in {"running", "stopping"}
    BY <1>1, ConstantsAssumption DEF TypeOK, Jobs, Phases
  <1>4. QED
    BY <1>1, <1>2, <1>3 DEF Life

\* A generation that is told to stop may be asked to.
LEMMA ToldLife ==
    ASSUME TypeOK, OwnerInv, StopInv, LifeInv, NEW g \in JobIds, ToldToStop(g)
    PROVE  Life(g) \in IF accepting THEN {"stopping", "ended"}
                       ELSE {"held", "stopping", "ended", "dropped"}
  <1>1. job[g].phase # "running" /\ job[g].config_id # NoConfig
    BY DEF StopInv, NoStaleStop, ToldWasStarted
  <1>2. job[g].config_id \in Configs
    BY <1>1, SlotTypes
  <1>3. accepting => reserved[job[g].config_id] # g
    BY <1>2, ConstantsAssumption DEF StopInv, ReservedToldAfterClose, JobIds, NoJob
  <1>4. accepting => job[g].phase = "stopping" \/ job[g].gate = "committed"
    BY DEF StopInv, ToldWasStopping
  <1>5. QED
    BY <1>1, <1>3, <1>4 DEF Life

\* The generation a caller holds is held, and waits to become the current one.
LEMMA HeldLife ==
    ASSUME TypeOK, OwnerInv, LifeInv, NEW c \in Callers, call[c].at \in Holding
    PROVE  LET g == call[c].job  k == call[c].config IN
           /\ g \in JobIds /\ k \in Configs /\ reserved[k] = g /\ k # NoConfig
           /\ job[g].config_id = k /\ job[g].gate # "committed"
           /\ job[g].phase = "completed" /\ Life(g) = "held" /\ g # NoJob
           /\ \A l \in Configs \ {k} : reserved[l] # g
  <1> DEFINE g == call[c].job
             k == call[c].config
  <1>1. /\ g \in JobIds /\ k \in Configs /\ reserved[k] = g /\ k # NoConfig
        /\ job[g].config_id = k /\ job[g].gate # "committed" /\ current[k] # g /\ g # NoJob
    BY HeldJob, ConstantsAssumption DEF JobIds, NoJob
  <1>2. job[g].phase = "completed"
    BY <1>1 DEF LifeInv, UncompletedIsCurrent
  <1>3. \A l \in Configs \ {k} : reserved[l] # g
    BY <1>1 DEF OwnerInv, SlotsOfConfig
  <1> HIDE DEF g, k
  <1>4. Life(g) = "held"
    BY <1>1 DEF Life
  <1>5. QED
    BY <1>1, <1>2, <1>3, <1>4 DEF g, k

\* Only the slot of one generation is given back.
LEMMA FreedSlot ==
    ASSUME TypeOK, NEW k \in Configs, NEW g, reserved[k] = g, g # NoJob,
           reserved' = [reserved EXCEPT ![k] = NoJob]
    PROVE  \A h \in JobIds \ {g} : SameSlots(h)
  <1>1. \A h \in JobIds : h # NoJob
    BY ConstantsAssumption DEF JobIds, NoJob
  <1>2. QED
    BY <1>1 DEF SameSlots, TypeOK

-----------------------------------------------------------------------------
(* Each step of the owner is one step of TaskLifecycle, or none *)

Mapped == Lifecycle!Next \/ UNCHANGED Lifecycle!vars

LEMMA MappedBy ==
    ASSUME \/ UNCHANGED Lifecycle!vars \/ Lifecycle!Close
           \/ \E g \in JobIds : \/ Lifecycle!Commit(g) \/ Lifecycle!Drop(g) \/ Lifecycle!Enter(g)
                                \/ Lifecycle!End(g) \/ Lifecycle!Ask(g)
           \/ \E g \in JobIds, k \in Configs : Lifecycle!Reserve(g, k) \/ Lifecycle!Fail(g, k)
           \/ \E G \in SUBSET JobIds : Lifecycle!Stop(G)
    PROVE  Mapped
  BY DEF Mapped, Lifecycle!Next

\* Steps that neither change what TaskLifecycle sees of a job nor open or close anything.
LEMMA QuietMaps ==
    ASSUME TypeOK, UNCHANGED <<reserved, accepting>>,
           \/ UNCHANGED job
           \/ \E g, j : /\ job' = [job EXCEPT ![g] = j]
                        /\ g \in JobIds => QuietView(job[g], j)
    PROVE  Mapped
  BY AllKept, MapsToNothing, MappedBy

LEMMA CloseMaps ==
    ASSUME TypeOK, NEW a, Initiate(a)
    PROVE  Mapped
  <1>1. \A g \in JobIds : SameView(g)
    BY AllKept DEF Initiate, slots
  <1>2. Lifecycle!Close
    BY <1>1, MapsToClose DEF Initiate
  <1>3. QED
    BY <1>2, MappedBy

\* A stop token is raised.
LEMMA RaiseMaps ==
    ASSUME TypeOK, OwnerInv, StopInv, LifeInv, NEW g \in JobIds, ToldToStop(g),
           job' = [job EXCEPT ![g].stop = TRUE], UNCHANGED <<reserved, accepting>>
    PROVE  Mapped
  <1>1. \A h \in JobIds \ {g} : SameView(h)
    BY OthersKept
  <1>2. /\ job'[g].config_id = job[g].config_id /\ job'[g].phase = job[g].phase
        /\ job'[g].gate = job[g].gate /\ job'[g].worker = job[g].worker /\ job'[g].stop = TRUE
    BY DEF TypeOK, Jobs
  <1>3. SameKey(g) /\ SameLife(g) /\ SameEntry(g)
    BY <1>2 DEF SameKey, SameLife, SameEntry, InBackend, Life
  <1>4. Lifecycle!Ask(g)
    BY <1>1, <1>2, <1>3, ToldLife, MapsToAsk
  <1>5. QED
    BY <1>4, MappedBy

\* A restart is admitted only when every generation of its config is over.
LEMMA AdmissibleIsFree ==
    ASSUME TypeOK, OwnerInv, LifeInv, NEW k \in Configs, StartAdmissible(k)
    PROVE  \A h \in JobIds : job[h].config_id = k => Life(h) \notin {"held", "live", "stopping"}
  <1>1. ASSUME NEW h \in JobIds, job[h].config_id = k
        PROVE  job[h].phase = "completed" /\ reserved[k] # h /\ h # NoJob
    BY <1>1, ConstantsAssumption DEF StartAdmissible, LifeInv, UncompletedIsCurrent, JobIds, NoJob
  <1>2. QED
    BY <1>1, ConstantsAssumption DEF Life

\* Reaping a predecessor is nothing to TaskLifecycle.
LEMMA ReapView ==
    ASSUME TypeOK, OwnerInv, LifeInv, NEW k \in Configs, StartAdmissible(k), NEW h \in JobIds
    PROVE  QuietView(job[h], ReapPrevious(k)[h])
  <1>1. CASE ReapPrevious(k)[h] = job[h]
    BY <1>1, QuietViewItself
  <1>2. CASE ReapPrevious(k)[h] # job[h]
    <2>1. /\ h = current[k] /\ job[h].phase = "completed" /\ job[h].worker # "none"
          /\ ReapPrevious(k)[h] = [job[h] EXCEPT !.worker = "joined"]
      BY <1>2 DEF ReapPrevious, Joinable, StartAdmissible, TypeOK
    <2>2. job[h].gate = "committed" => job[h].worker \notin LiveWorker
      BY <2>1 DEF OwnerInv, LiveIsCurrent
    <2>3. job[h].worker = "running" => job[h].gate = "committed"
      BY DEF OwnerInv, LiveIsCurrent
    <2>4. job[h] \in Jobs
      BY DEF TypeOK
    <2>5. QED
      BY <2>1, <2>2, <2>3, <2>4 DEF QuietView, InBackend, LiveWorker, Jobs
  <1>3. QED
    BY <1>1, <1>2

\* A generation that is handed out was unknown until now.
LEMMA FreshLife ==
    ASSUME TypeOK, OwnerInv, StopInv, TakeGeneration, NEW n, n = next_job_generation
    PROVE  /\ n \in JobIds /\ n # NoJob /\ Life(n) = "unused" /\ job[n].stop = FALSE
           /\ ~InBackend(job[n]) /\ \A k \in Configs : reserved[k] # n
  <1>1. /\ n \in JobIds /\ n # NoJob /\ job[n].config_id = NoConfig
        /\ \A k \in Configs : reserved[k] # n
    BY FreshGeneration
  <1>2. ~job[n].stop
    BY <1>1 DEF StopInv, ToldWasStarted, ToldToStop
  <1>3. job[n].stop = FALSE
    BY <1>1, <1>2 DEF TypeOK, Jobs
  <1>4. ~InBackend(job[n])
    BY <1>1 DEF OwnerInv, UnbornHasNoWorker, InBackend
  <1>5. QED
    BY <1>1, <1>3, <1>4 DEF Life

LEMMA PrepareStartMaps ==
    ASSUME TypeOK, OwnerInv, StopInv, LifeInv, NEW c \in Callers, NEW k \in Configs,
           NEW kind \in BackendKinds, NEW now \in ClockReadings, PrepareStart(c, k, kind, now)
    PROVE  Mapped
  <1>1. TakeGeneration /\ StartAdmissible(k) /\ accepting /\ UNCHANGED accepting
    BY DEF PrepareStart, StartAdmissible
  <1>2. PICK n \in JobIds : n = next_job_generation
    BY <1>1, FreshGeneration
  <1>3. /\ n \in JobIds /\ n # NoJob /\ Life(n) = "unused" /\ job[n].stop = FALSE
        /\ ~InBackend(job[n]) /\ \A l \in Configs : reserved[l] # n
    BY <1>1, <1>2, FreshLife
  <1>4. /\ \A g \in JobIds \ {n} : job'[g] = ReapPrevious(k)[g]
        /\ job'[n].config_id = k /\ job'[n].stop = FALSE /\ job'[n].gate = "pending"
        /\ job'[n].worker # "running"
    BY <1>2, <1>3 DEF PrepareStart, NewJob, Unborn, ReapPrevious, TypeOK
  <1>5. /\ reserved'[k] = n /\ reserved[k] = NoJob
        /\ \A l \in Configs \ {k} : reserved'[l] = reserved[l]
    BY <1>1, <1>2 DEF PrepareStart, StartAdmissible, TypeOK
  <1>6. \A g \in JobIds \ {n} : SameSlots(g)
    BY <1>5, ConstantsAssumption DEF SameSlots, JobIds, NoJob
  <1>7. \A g \in JobIds \ {n} : SameView(g)
    BY <1>1, <1>4, <1>6, ReapView, ViewKept
  <1>8. Life(n)' = "held"
    BY <1>3, <1>4, <1>5, ConstantsAssumption DEF Life
  <1>9. SameEntry(n) /\ SameStop(n)
    BY <1>3, <1>4 DEF SameEntry, SameStop, InBackend
  <1>10. Lifecycle!Reserve(n, k)
    BY <1>1, <1>3, <1>4, <1>7, <1>8, <1>9, AdmissibleIsFree, MapsToStart
  <1>11. QED
    BY <1>3, <1>10, MappedBy

LEMMA ThreadStartFailedMaps ==
    ASSUME TypeOK, OwnerInv, StopInv, LifeInv, NEW c \in Callers, NEW k \in Configs,
           NEW publish \in BOOLEAN, NEW now \in ClockReadings, NEW later \in ClockReadings,
           ThreadStartFailed(c, k, publish, now, later)
    PROVE  Mapped
  <1>1. /\ TakeGeneration /\ StartAdmissible(k) /\ accepting
        /\ UNCHANGED <<accepting, reserved>>
    BY DEF ThreadStartFailed, StartAdmissible
  <1>2. PICK n \in JobIds : n = next_job_generation
    BY <1>1, FreshGeneration
  <1>3. /\ n \in JobIds /\ n # NoJob /\ Life(n) = "unused" /\ job[n].stop = FALSE
        /\ ~InBackend(job[n]) /\ \A l \in Configs : reserved[l] # n
    BY <1>1, <1>2, FreshLife
  <1>4. /\ \A g \in JobIds \ {n} : job'[g] = ReapPrevious(k)[g]
        /\ job'[n].config_id = k /\ job'[n].stop = FALSE /\ job'[n].gate = "pending"
        /\ job'[n].worker = "none" /\ job'[n].phase = "completed"
    BY <1>2, <1>3 DEF ThreadStartFailed, NewJob, Unborn, ReapPrevious, TypeOK
  <1>5. \A g \in JobIds \ {n} : SameView(g)
    BY <1>1, <1>4, ReapView, ViewKept, SlotsKept
  <1>6. Life(n)' = "dropped"
    BY <1>1, <1>3, <1>4, ConstantsAssumption DEF Life
  <1>7. SameEntry(n) /\ SameStop(n)
    BY <1>3, <1>4 DEF SameEntry, SameStop, InBackend
  <1>8. Lifecycle!Fail(n, k)
    BY <1>1, <1>3, <1>4, <1>5, <1>6, <1>7, AdmissibleIsFree, MapsToStart
  <1>9. QED
    BY <1>3, <1>8, MappedBy

LEMMA StartExhaustedMaps ==
    ASSUME TypeOK, OwnerInv, LifeInv, NEW c \in Callers, NEW k \in Configs, StartExhausted(c, k)
    PROVE  Mapped
  <1>1. \A g \in JobIds : SameView(g)
    BY ReapView, ViewKept, SlotsKept DEF StartExhausted, slots
  <1>2. QED
    BY <1>1, MapsToNothing, MappedBy DEF StartExhausted, owner

LEMMA CommitStartMaps ==
    ASSUME TypeOK, OwnerInv, LifeInv, NEW c \in Callers, NEW now \in ClockReadings,
           CommitStart(c, now)
    PROVE  Mapped
  <1>1. PICK g \in JobIds, k \in Configs : g = call[c].job /\ k = call[c].config
    BY HeldLife DEF CommitStart, At, Holding
  <1>2. /\ reserved[k] = g /\ k # NoConfig
        /\ job[g].config_id = k /\ job[g].gate # "committed" /\ Life(g) = "held" /\ g # NoJob
    BY <1>1, HeldLife DEF CommitStart, At, Holding
  <1>3. /\ \A h \in JobIds \ {g} : job'[h] = job[h]
        /\ job'[g].config_id = job[g].config_id /\ job'[g].gate = job[g].gate
        /\ job'[g].worker = job[g].worker /\ job'[g].stop = job[g].stop
        /\ job'[g].phase = IF accepting THEN "running" ELSE "stopping"
    BY <1>1, <1>2 DEF CommitStart, Stopping, TypeOK, Jobs
  <1>4. reserved' = [reserved EXCEPT ![k] = NoJob] /\ UNCHANGED accepting
    BY <1>1 DEF CommitStart
  <1>5. reserved'[k] = NoJob
    BY <1>2, <1>4 DEF TypeOK
  <1>6. \A h \in JobIds \ {g} : SameView(h)
    BY <1>2, <1>3, <1>4, FreedSlot, ViewKept, QuietViewItself
  <1>7. Life(g)' = IF accepting THEN "live" ELSE "stopping"
    BY <1>2, <1>3, <1>5 DEF Life
  <1>8. SameKey(g) /\ SameEntry(g) /\ SameStop(g)
    BY <1>3 DEF SameKey, SameEntry, SameStop, InBackend
  <1>9. Lifecycle!Commit(g)
    BY <1>2, <1>4, <1>6, <1>7, <1>8, MapsToMove
  <1>10. QED
    BY <1>2, <1>9, MappedBy

\* A reservation that is given up drops its generation.
LEMMA DropMaps ==
    ASSUME TypeOK, OwnerInv, LifeInv, NEW c \in Callers, call[c].at \in Holding,
           reserved' = [reserved EXCEPT ![call[c].config] = NoJob], UNCHANGED accepting,
           \/ UNCHANGED job
           \/ Exited(call[c].job) /\ job' = [job EXCEPT ![call[c].job].worker = "joined"]
    PROVE  Mapped
  <1>1. PICK g \in JobIds, k \in Configs : g = call[c].job /\ k = call[c].config
    BY HeldLife
  <1>2. /\ reserved[k] = g /\ k # NoConfig
        /\ job[g].config_id = k /\ job[g].gate # "committed" /\ Life(g) = "held" /\ g # NoJob
        /\ job[g].phase = "completed"
    BY <1>1, HeldLife
  <1>3. /\ \A h \in JobIds \ {g} : job'[h] = job[h]
        /\ job'[g].config_id = job[g].config_id /\ job'[g].gate = job[g].gate
        /\ job'[g].stop = job[g].stop /\ job'[g].phase = job[g].phase
        /\ job'[g].worker = "running" <=> job[g].worker = "running"
    BY <1>1, <1>2 DEF Exited, TypeOK, Jobs
  <1>4. reserved'[k] = NoJob
    BY <1>1 DEF TypeOK
  <1>5. reserved' = [reserved EXCEPT ![k] = NoJob]
    BY <1>1
  <1>6. \A h \in JobIds \ {g} : SameView(h)
    BY <1>2, <1>3, <1>5, FreedSlot, ViewKept, QuietViewItself
  <1>7. Life(g)' = "dropped"
    BY <1>2, <1>3, <1>4 DEF Life
  <1>8. SameKey(g) /\ SameEntry(g) /\ SameStop(g)
    BY <1>2, <1>3 DEF SameKey, SameEntry, SameStop, InBackend
  <1>9. Lifecycle!Drop(g)
    BY <1>2, <1>6, <1>7, <1>8, MapsToMove
  <1>10. QED
    BY <1>2, <1>9, MappedBy

\* The gate opens before the worker passes it.
LEMMA ReleaseGateMaps ==
    ASSUME TypeOK, OwnerInv, LifeInv, NEW c \in Callers, ReleaseGate(c)
    PROVE  Mapped
  <1>1. PICK g \in JobIds : g = call[c].job
    BY CommittingJob DEF ReleaseGate, At, Committing
  <1>2. job[g].phase # "completed" /\ job[g].worker = "gated"
    BY <1>1, CommittingJob DEF ReleaseGate, At, Committing, LifeInv, HeldIsGated
  <1>3. UNCHANGED <<reserved, accepting>> /\ job' = [job EXCEPT ![g].gate = "committed"]
    BY <1>1 DEF ReleaseGate, owner, slots
  <1>4. /\ job'[g].config_id = job[g].config_id /\ job'[g].phase = job[g].phase
        /\ job'[g].stop = job[g].stop /\ job'[g].worker = job[g].worker
    BY <1>3 DEF TypeOK, Jobs
  <1>5. job[g].phase \in {"running", "stopping"}
    BY <1>2 DEF TypeOK, Jobs, Phases
  <1>6. SameView(g)
    BY <1>2, <1>3, <1>4, <1>5
       DEF SameView, SameKey, SameLife, SameEntry, SameStop, InBackend, Life
  <1>7. \A h \in JobIds : SameView(h)
    BY <1>3, <1>6, OthersKept
  <1>8. QED
    BY <1>3, <1>7, MapsToNothing, MappedBy

\* The worker enters its backend if its start was committed.
LEMMA PassGateMaps ==
    ASSUME TypeOK, OwnerInv, LifeInv, NEW g \in JobIds, PassGate(g)
    PROVE  Mapped
  <1>1. UNCHANGED <<reserved, accepting>> /\ job[g].worker = "gated"
    BY DEF PassGate, owner, slots
  <1>2. CASE job[g].gate = "committed"
    <2>1. job[g].phase # "completed"
      BY <1>1, <1>2 DEF OwnerInv, LiveIsCurrent, LiveWorker
    <2>2. Life(g) \in {"live", "stopping"}
      BY <2>1, UncompletedLife
    <2>3. /\ job'[g].config_id = job[g].config_id /\ job'[g].phase = job[g].phase
          /\ job'[g].stop = job[g].stop /\ job'[g].gate = job[g].gate
          /\ job'[g].worker = "running"
      BY <1>2 DEF PassGate, TypeOK, Jobs
    <2>4. SameKey(g) /\ SameLife(g) /\ SameStop(g)
      BY <1>1, <2>3 DEF SameKey, SameLife, SameStop, Life
    <2>5. ~InBackend(job[g]) /\ InBackend(job'[g])
      BY <1>1, <2>3 DEF InBackend
    <2>6. \A h \in JobIds \ {g} : SameView(h)
      BY <1>1, OthersKept DEF PassGate
    <2>7. Lifecycle!Enter(g)
      BY <1>1, <2>2, <2>4, <2>5, <2>6, MapsToEnter
    <2>8. QED
      BY <2>7, MappedBy
  <1>3. CASE job[g].gate # "committed"
    <2>1. job' = [job EXCEPT ![g] = [job[g] EXCEPT !.worker = "exited"]]
      BY <1>3 DEF PassGate
    <2>2. QuietView(job[g], [job[g] EXCEPT !.worker = "exited"])
      BY <1>1, <1>3 DEF QuietView, InBackend, TypeOK, Jobs
    <2>3. QED
      BY <1>1, <2>1, <2>2, QuietMaps
  <1>4. QED
    BY <1>2, <1>3

LEMMA FinishMaps ==
    ASSUME TypeOK, OwnerInv, LifeInv, NEW g \in JobIds, NEW now \in ClockReadings, Finish(g, now)
    PROVE  Mapped
  <1>1. UNCHANGED <<reserved, accepting>> /\ job[g].worker = "running"
    BY DEF Finish, owner, slots
  <1>2. job[g].gate = "committed" /\ job[g].phase # "completed"
    BY <1>1 DEF OwnerInv, LiveIsCurrent, LiveWorker
  <1>3. /\ Life(g) \in {"live", "stopping"} /\ job[g].config_id \in Configs
        /\ \A k \in Configs : reserved[k] # g
    BY <1>2, UncompletedLife
  <1>4. /\ job'[g].config_id = job[g].config_id /\ job'[g].phase = "completed"
        /\ job'[g].stop = job[g].stop /\ job'[g].gate = "committed"
        /\ job'[g].worker = "exited"
    BY <1>2 DEF Finish, Terminal, TypeOK, Jobs
  <1>5. SameKey(g) /\ SameEntry(g) /\ SameStop(g) /\ InBackend(job[g])
    BY <1>1, <1>2, <1>4 DEF SameKey, SameEntry, SameStop, InBackend
  <1>6. Life(g)' = "ended"
    BY <1>1, <1>3, <1>4, ConstantsAssumption DEF Life
  <1>7. \A h \in JobIds \ {g} : SameView(h)
    BY <1>1, OthersKept DEF Finish
  <1>8. Lifecycle!End(g)
    BY <1>1, <1>3, <1>5, <1>6, <1>7, MapsToMove
  <1>9. QED
    BY <1>8, MappedBy

\* Some running generations are stopped, and nothing else is seen.
LEMMA StopMaps ==
    ASSUME TypeOK, OwnerInv, LifeInv, NEW G \in SUBSET JobIds, UNCHANGED <<reserved, accepting>>,
           \A h \in JobIds \ G : QuietView(job[h], job'[h]),
           \A h \in G : /\ job[h].phase = "running" /\ job'[h].phase = "stopping"
                        /\ job'[h].config_id = job[h].config_id /\ job'[h].stop = job[h].stop
                        /\ job'[h].gate = job[h].gate /\ job'[h].worker = job[h].worker
    PROVE  Mapped
  <1>1. \A h \in JobIds \ G : SameView(h)
    BY ViewKept, SlotsKept
  <1>2. ASSUME NEW h \in G
        PROVE  /\ Life(h) = "live" /\ Life(h)' = "stopping"
               /\ SameKey(h) /\ SameEntry(h) /\ SameStop(h)
    <2>1. /\ Life(h) = "live" /\ job[h].config_id \in Configs
          /\ \A k \in Configs : reserved[k] # h
      BY UncompletedLife
    <2>2. Life(h)' = "stopping"
      BY <2>1, ConstantsAssumption DEF Life
    <2>3. QED
      BY <2>1, <2>2 DEF SameKey, SameEntry, SameStop, InBackend
  <1>3. CASE G = {}
    BY <1>1, <1>3, MapsToNothing, MappedBy
  <1>4. CASE G # {}
    <2>1. Lifecycle!Stop(G)
      BY <1>1, <1>2, <1>4, MapsToStop
    <2>2. QED
      BY <2>1, MappedBy
  <1>5. QED
    BY <1>3, <1>4

LEMMA ResolvedMaps ==
    ASSUME TypeOK, OwnerInv, StopInv, LifeInv, NEW c \in Callers, NEW commit \in BOOLEAN,
           NEW now \in ClockReadings, call[c].at \in Held, Resolved(c, commit, now),
           UNCHANGED <<reserved, accepting>>
    PROVE  Mapped
  <1>1. ASSUME NEW g \in JobIds
        PROVE  /\ QuietView(job[g], AbortedJob(g, now))
               /\ g \notin Transitions(c) => QuietView(job[g], CommittedJob(c, g, now))
               /\ g \in Transitions(c) =>
                     LET i == CommittedJob(c, g, now) IN
                     /\ job[g].phase = "running" /\ i.phase = "stopping"
                     /\ i.config_id = job[g].config_id /\ i.stop = job[g].stop
                     /\ i.gate = job[g].gate /\ i.worker = job[g].worker
    <2>1. job[g] \in Jobs
      BY DEF TypeOK
    <2>2. g \in Transitions(c) => job[g].phase = "running"
      BY DEF Transitions
    <2>3. QED
      BY <2>1, <2>2 DEF QuietView, InBackend, CommittedJob, AbortedJob, StoppingAt,
                        publish_pending_progress, discard_pending_progress, Jobs
  <1>2. Transitions(c) \subseteq call[c].captured /\ call[c].captured \subseteq JobIds
    BY DEF Transitions, StopInv, CapturedWasStarted, Held, TypeOK, Calls
  <1>3. PICK G \in SUBSET JobIds : G = IF commit THEN Transitions(c) ELSE {}
    BY <1>2
  <1>4. \A h \in JobIds \ G : QuietView(job[h], job'[h])
    BY <1>1, <1>3, QuietViewItself DEF Resolved
  <1>5. \A h \in G : job'[h] = CommittedJob(c, h, now) /\ h \in Transitions(c)
    BY <1>2, <1>3 DEF Resolved
  <1>6. \A h \in G : /\ job[h].phase = "running" /\ job'[h].phase = "stopping"
                     /\ job'[h].config_id = job[h].config_id /\ job'[h].stop = job[h].stop
                     /\ job'[h].gate = job[h].gate /\ job'[h].worker = job[h].worker
    BY <1>1, <1>5
  <1>7. QED
    BY <1>4, <1>6, StopMaps

\* One generation is stopped, or only its held back progress is discarded.
LEMMA OneStopMaps ==
    ASSUME TypeOK, OwnerInv, LifeInv, NEW g \in JobIds, job[g].phase = "running", NEW i,
           job' = [job EXCEPT ![g] = i], i.phase = "stopping",
           i.config_id = job[g].config_id, i.stop = job[g].stop,
           i.gate = job[g].gate, i.worker = job[g].worker, UNCHANGED <<reserved, accepting>>
    PROVE  Mapped
  <1>1. job'[g] = i /\ \A h \in JobIds \ {g} : job'[h] = job[h]
    BY DEF TypeOK
  <1>2. {g} \in SUBSET JobIds
    OBVIOUS
  <1>3. QED
    BY <1>1, <1>2, QuietViewItself, StopMaps

LEMMA SweepFindMaps ==
    ASSUME TypeOK, OwnerInv, LifeInv, NEW a \in Actors, NEW k \in Configs,
           NEW now \in ClockReadings, SweepFind(a, k, now)
    PROVE  Mapped
  <1>1. UNCHANGED <<reserved, accepting>>
    BY DEF SweepFind, owner, slots
  <1>2. CASE job' = job
    BY <1>1, <1>2, QuietMaps
  <1>3. CASE job' # job
    <2>1. PICK g : g = SweepTarget(k)
      OBVIOUS
    <2>2. g = current[k] /\ g # NoJob
      BY <1>3, <2>1 DEF SweepFind
    <2>3. g \in JobIds /\ job[g] \in Jobs
      BY <2>2, SlotTypes
    <2>4. CASE job[g].phase = "running"
      <3>1. job' = [job EXCEPT ![g] = Stopping(discard_pending_progress(job[g]), now)]
        BY <1>3, <2>1, <2>2, <2>4 DEF SweepFind
      <3>2. LET i == Stopping(discard_pending_progress(job[g]), now) IN
            /\ i.phase = "stopping" /\ i.config_id = job[g].config_id /\ i.stop = job[g].stop
            /\ i.gate = job[g].gate /\ i.worker = job[g].worker
        BY <2>3 DEF Stopping, discard_pending_progress, Jobs
      <3>3. QED
        BY <1>1, <2>3, <2>4, <3>1, <3>2, OneStopMaps
    <2>5. CASE job[g].phase # "running"
      <3>1. job' = [job EXCEPT ![g] = discard_pending_progress(job[g])]
        BY <1>3, <2>1, <2>2, <2>5 DEF SweepFind
      <3>2. QuietView(job[g], discard_pending_progress(job[g]))
        BY <2>3 DEF QuietView, InBackend, discard_pending_progress, Jobs
      <3>3. QED
        BY <1>1, <3>1, <3>2, QuietMaps
    <2>6. QED
      BY <2>4, <2>5
  <1>4. QED
    BY <1>2, <1>3

LEMMA StopAfterShutdownMaps ==
    ASSUME TypeOK, OwnerInv, LifeInv, NEW c \in Callers, NEW k \in Configs,
           NEW now \in ClockReadings, StopAfterShutdown(c, k, now)
    PROVE  Mapped
  <1>1. PICK g \in JobIds : g = current[k]
    BY SlotTypes DEF StopAfterShutdown
  <1>2. /\ job[g].phase = "running" /\ UNCHANGED <<reserved, accepting>>
        /\ job' = [job EXCEPT ![g] = Stopping(job[g], now)]
    BY <1>1 DEF StopAfterShutdown, owner, slots
  <1>3. LET i == Stopping(job[g], now) IN
        /\ i.phase = "stopping" /\ i.config_id = job[g].config_id /\ i.stop = job[g].stop
        /\ i.gate = job[g].gate /\ i.worker = job[g].worker
    BY DEF Stopping, TypeOK, Jobs
  <1>4. QED
    BY <1>2, <1>3, OneStopMaps

LEMMA MapStep == TypeOK /\ OwnerInv /\ StopInv /\ LifeInv /\ [Next]_vars => Mapped
  <1>. SUFFICES ASSUME TypeOK, OwnerInv, StopInv, LifeInv, [Next]_vars PROVE Mapped
    OBVIOUS
  <1>1. ASSUME NEW c \in Callers, NEW k \in Configs, NEW kind \in BackendKinds,
               NEW now \in ClockReadings,
               PrepareStart(c, k, kind, now)
        PROVE  Mapped
    BY <1>1, PrepareStartMaps
  <1>2. ASSUME NEW c \in Callers, NEW k \in Configs,
               StartExhausted(c, k)
        PROVE  Mapped
    BY <1>2, StartExhaustedMaps
  <1>3. ASSUME NEW c \in Callers, NEW k \in Configs, NEW publish \in BOOLEAN,
               NEW now \in ClockReadings, NEW later \in ClockReadings,
               ThreadStartFailed(c, k, publish, now, later)
        PROVE  Mapped
    BY <1>3, ThreadStartFailedMaps
  <1>4. ASSUME NEW c \in Callers,
               PreparationSucceeded(c)
        PROVE  Mapped
    BY <1>4, QuietMaps DEF PreparationSucceeded, owner, slots
  <1>5. ASSUME NEW c \in Callers,
               PreparationFailed(c)
        PROVE  Mapped
    BY <1>5, DropMaps DEF PreparationFailed, At, Holding
  <1>6. ASSUME NEW c \in Callers,
               JoinFailed(c)
        PROVE  Mapped
    <2>1. call[c].job \in JobIds =>
             QuietView(job[call[c].job], [job[call[c].job] EXCEPT !.worker = "joined"])
      BY <1>6 DEF JoinFailed, Exited, QuietView, InBackend, TypeOK, Jobs
    <2>2. QED
      BY <1>6, <2>1, QuietMaps DEF JoinFailed, owner, slots
  <1>7. ASSUME NEW c \in Callers, NEW now \in ClockReadings,
               CommitStart(c, now)
        PROVE  Mapped
    BY <1>7, CommitStartMaps
  <1>8. ASSUME NEW c \in Callers,
               StopBeforeRelease(c)
        PROVE  Mapped
    <2>1. PICK g \in JobIds : g = call[c].job
      BY <1>8, CommittingJob DEF StopBeforeRelease, At, Committing
    <2>2. ToldToStop(g)
      BY <1>8, <2>1 DEF ToldToStop, StillToRaise, StopBeforeRelease, At
    <2>3. QED
      BY <1>8, <2>1, <2>2, RaiseMaps DEF StopBeforeRelease, owner, slots
  <1>9. ASSUME NEW c \in Callers,
               ReleaseGate(c)
        PROVE  Mapped
    BY <1>9, ReleaseGateMaps
  <1>10. ASSUME NEW c \in Callers,
                CancelStart(c)
         PROVE  Mapped
    <2>1. PICK g \in JobIds : g = call[c].job /\ job[g].gate # "committed" /\ job[g].worker = "gated"
      BY <1>10, HeldLife DEF CancelStart, At, Holding, LifeInv, HeldIsGated
    <2>2. QuietView(job[g], [job[g] EXCEPT !.gate = "cancelled"])
      BY <1>10, <2>1 DEF QuietView, InBackend, TypeOK, Jobs
    <2>3. QED
      BY <1>10, <2>1, <2>2, QuietMaps DEF CancelStart, owner, slots
  <1>11. ASSUME NEW c \in Callers,
                JoinCancelled(c)
         PROVE  Mapped
    BY <1>11, DropMaps DEF JoinCancelled, At, Holding
  <1>12. ASSUME NEW g \in JobIds, NEW ok \in BOOLEAN,
                Prepare(g, ok)
         PROVE  Mapped
    <2>1. job[g].worker = "preparing" /\ job[g].gate # "committed"
      BY <1>12 DEF Prepare, LifeInv, CommittedIsPrepared
    <2>2. \A w \in {"gated", "exited"} : QuietView(job[g], [job[g] EXCEPT !.worker = w])
      BY <1>12, <2>1 DEF QuietView, InBackend, TypeOK, Jobs
    <2>3. QED
      BY <1>12, <2>2, QuietMaps DEF Prepare, owner, slots
  <1>13. ASSUME NEW g \in JobIds,
                PassGate(g)
         PROVE  Mapped
    BY <1>13, PassGateMaps
  <1>14. ASSUME NEW g \in JobIds, NEW now \in ClockReadings,
                Report(g, now)
         PROVE  Mapped
    <2>1. QuietView(job[g], Stage(job[g])) /\ QuietView(job[g], Publish(job[g], now))
      BY <1>14 DEF QuietView, InBackend, Stage, Publish, TypeOK, Jobs
    <2>2. QED
      BY <1>14, <2>1, QuietMaps DEF Report, owner, slots
  <1>15. ASSUME NEW g \in JobIds, NEW now \in ClockReadings,
                Finish(g, now)
         PROVE  Mapped
    BY <1>15, FinishMaps
  <1>16. ASSUME NEW c \in Callers, NEW k \in Configs, NEW now \in ClockReadings,
                PrepareStop(c, k, now)
         PROVE  Mapped
    BY <1>16, QuietMaps DEF PrepareStop, owner, slots
  <1>17. ASSUME NEW c \in Callers, NEW now \in ClockReadings,
                PrepareStopAll(c, now)
         PROVE  Mapped
    BY <1>17, QuietMaps DEF PrepareStopAll, owner, slots
  <1>18. ASSUME NEW c \in Callers, NEW commit \in BOOLEAN, NEW now \in ClockReadings,
                ResolveStop(c, commit, now)
         PROVE  Mapped
    BY <1>18, ResolvedMaps DEF ResolveStop, At, Held, slots
  <1>19. ASSUME NEW c \in Callers, NEW commit \in BOOLEAN, NEW now \in ClockReadings,
                ResolveStopAll(c, commit, now)
         PROVE  Mapped
    BY <1>19, ResolvedMaps DEF ResolveStopAll, At, Held, slots
  <1>20. ASSUME NEW c \in Callers, NEW k \in Configs, NEW now \in ClockReadings,
                StopAfterShutdown(c, k, now)
         PROVE  Mapped
    BY <1>20, StopAfterShutdownMaps
  <1>21. ASSUME NEW c \in Callers, NEW g \in JobIds,
                Deliver(c, g)
         PROVE  Mapped
    <2>1. ToldToStop(g)
      BY <1>21 DEF ToldToStop, StillToRaise, Deliver, At
    <2>2. QED
      BY <1>21, <2>1, RaiseMaps DEF Deliver, owner, slots
  <1>22. ASSUME NEW c \in Callers,
                Shutdown(c)
         PROVE  Mapped
    BY <1>22, CloseMaps DEF Shutdown
  <1>23. ASSUME NEW c \in Callers,
                NestedShutdown(c)
         PROVE  Mapped
    BY <1>23, CloseMaps DEF NestedShutdown
  <1>24. ASSUME NEW g \in JobIds,
                WorkerShutdown(g)
         PROVE  Mapped
    BY <1>24, CloseMaps DEF WorkerShutdown
  <1>25. ASSUME NEW a \in Actors, NEW k \in Configs, NEW now \in ClockReadings,
                SweepFind(a, k, now)
         PROVE  Mapped
    BY <1>25, SweepFindMaps
  <1>26. ASSUME NEW a \in Actors,
                SweepDeliver(a)
         PROVE  Mapped
    <2>1. PICK g \in JobIds : g = target[a]
      BY <1>26 DEF SweepDeliver, TypeOK
    <2>2. ToldToStop(g)
      BY <1>26, <2>1 DEF ToldToStop
    <2>3. QED
      BY <1>26, <2>1, <2>2, RaiseMaps DEF SweepDeliver, owner, slots
  <1>27. ASSUME NEW a \in Actors,
                SweepDone(a)
         PROVE  Mapped
    BY <1>27, QuietMaps DEF SweepDone, owner, slots
  <1>28. ASSUME NEW c \in Callers,
                LockDrain(c)
         PROVE  Mapped
    BY <1>28, QuietMaps DEF LockDrain, owner, slots
  <1>29. ASSUME NEW c \in Callers,
                AwaitReservations(c)
         PROVE  Mapped
    BY <1>29, QuietMaps DEF AwaitReservations, owner, slots
  <1>30. ASSUME NEW c \in Callers, NEW k \in Configs,
                DrainPick(c, k)
         PROVE  Mapped
    BY <1>30, QuietMaps DEF DrainPick, owner, slots
  <1>31. ASSUME NEW c \in Callers,
                DrainJoin(c)
         PROVE  Mapped
    <2>1. call[c].job \in JobIds =>
             QuietView(job[call[c].job], [job[call[c].job] EXCEPT !.worker = "joined"])
      BY <1>31 DEF DrainJoin, Exited, QuietView, InBackend, TypeOK, Jobs
    <2>2. QED
      BY <1>31, <2>1, QuietMaps DEF DrainJoin, owner, slots
  <1>32. ASSUME NEW c \in Callers,
                ShutdownReturns(c)
         PROVE  Mapped
    BY <1>32, QuietMaps DEF ShutdownReturns, owner, slots
  <1>33. CASE UNCHANGED vars
    BY <1>33, QuietMaps DEF vars, owner, slots
  <1>34. QED
    BY <1>1, <1>2, <1>3, <1>4, <1>5, <1>6, <1>7, <1>8, <1>9, <1>10, <1>11, <1>12, <1>13,
       <1>14, <1>15, <1>16, <1>17, <1>18, <1>19, <1>20, <1>21, <1>22, <1>23, <1>24, <1>25,
       <1>26, <1>27, <1>28, <1>29, <1>30, <1>31, <1>32, <1>33
       DEF Next, CallerStep, WorkerStep, SweepStep

LEMMA MapInit == Init => Lifecycle!Init
  BY ConstantsAssumption DEF Init, Lifecycle!Init, Life, Unborn

\* The owner keeps every promise of TaskLifecycle: each life goes through its stages in
\* order, one generation of a config is admitted at a time, a backend is entered only by a
\* committed start, and no token is raised while the owner calls its generation running.
THEOREM LifecycleKept == Spec => ImplementsLifecycle
  <1>1. Mapped => [Lifecycle!Next]_(Lifecycle!vars)
    BY DEF Mapped
  <1>2. QED
    BY <1>1, MapInit, MapStep, OwnerHolds, PTL DEF Spec, ImplementsLifecycle, Lifecycle!Spec
====
