---- MODULE RuntimeTaskOwnerAccountingProofs ----
(***************************************************************************)
(* What the owner counts, joins and shows. AccountsInv: the reservation    *)
(* count and the keys of jobs_ are those of the reservations there are.    *)
(* ThreadsInv: every thread has one that joins it, and only one. With them *)
(* no call ends in std::terminate and a shutdown returns with every thread *)
(* joined. ProgressInv: progress is held back only behind a stop reply     *)
(* that captured its generation, and is published or discarded with that   *)
(* reply. SnapshotInv: timestamps only grow. So no accepted report is lost *)
(* and no snapshot of a config goes back, for any number of configs,       *)
(* callers, generations and reports.                                       *)
(***************************************************************************)
EXTENDS RuntimeTaskOwnerProofs, FiniteSetTheorems

-----------------------------------------------------------------------------
(* AccountsInv: steps that take and give back no reservation *)

\* Nobody comes to hold a stop reservation.
KeepsStop(r, s) == s.at \in Held => s.at = r.at /\ s.config = r.config
KeptStops == \A c \in Callers : KeepsStop(call[c], call'[c])

LEMMA KeepsStopItself == \A r : KeepsStop(r, r)
  BY DEF KeepsStop

LEMMA KeptStopsSame == UNCHANGED call => KeptStops
  BY KeepsStopItself DEF KeptStops

LEMMA KeptStopsUpdate ==
    ASSUME TypeOK, NEW c \in Callers, NEW s, call' = [call EXCEPT ![c] = s], s.at \notin Held
    PROVE  KeptStops
  BY KeepsStopItself DEF KeptStops, KeepsStop, TypeOK

LEMMA KeptStopsReturn ==
    ASSUME TypeOK, NEW c \in Callers, Return(c)
    PROVE  KeptStops
  BY KeptStopsUpdate DEF Return, Idle, Held

LEMMA KeptStopsGoto ==
    ASSUME TypeOK, NEW c \in Callers, NEW p, Goto(c, p), p \notin Held
    PROVE  KeptStops
  <1>1. [call[c] EXCEPT !.at = p].at = p
    BY DEF TypeOK, Calls
  <1>2. QED
    BY <1>1, KeptStopsUpdate DEF Goto

LEMMA StopsKept ==
    ASSUME TypeOK, StopsAreHeld, KeptStops, UNCHANGED <<stop_reserved, stop_all_reserved>>
    PROVE  StopsAreHeld'
  BY DEF StopsAreHeld, KeptStops, KeepsStop, Held

LEMMA AccountsKept ==
    ASSUME TypeOK, AccountsInv, KeptStops, UNCHANGED slots,
           UNCHANGED <<active_reservations, stop_all_reserved>>
    PROVE  AccountsInv'
  <1>1. StartReserved' = StartReserved /\ StopReserved' = StopReserved
    BY DEF StartReserved, StopReserved, slots
  <1>2. StopsAreHeld'
    BY StopsKept DEF AccountsInv, slots
  <1>3. SlotsJustified'
    BY DEF AccountsInv, SlotsJustified, slots
  <1>4. QED
    BY <1>1, <1>2, <1>3 DEF AccountsInv, Reservations, OneReservation, slots

-----------------------------------------------------------------------------
(* AccountsInv: reservations taken and given back *)

\* The reserved slots are keys of jobs_, so there are finitely many.
LEMMA FiniteSlots ==
    ASSUME TypeOK, AccountsInv
    PROVE  /\ StartReserved \subseteq jobs /\ StopReserved \subseteq jobs
           /\ IsFiniteSet(jobs) /\ IsFiniteSet(StartReserved) /\ IsFiniteSet(StopReserved)
           /\ Cardinality(jobs) \in Nat /\ Cardinality(StartReserved) \in Nat
           /\ Cardinality(StopReserved) \in Nat
  <1>1. StartReserved \subseteq jobs /\ StopReserved \subseteq jobs /\ IsFiniteSet(jobs)
    BY DEF AccountsInv, SlotsJustified, StartReserved, StopReserved
  <1>2. IsFiniteSet(StartReserved) /\ IsFiniteSet(StopReserved)
    BY <1>1, FS_Subset
  <1>3. QED
    BY <1>1, <1>2, FS_CardinalityType

LEMMA SlotTaken ==
    ASSUME TypeOK, AccountsInv, NEW k, k \notin jobs => Cardinality(jobs) < max_configs,
           jobs' = jobs \cup {k}
    PROVE  IsFiniteSet(jobs') /\ Cardinality(jobs') <= max_configs
  <1>1. /\ IsFiniteSet(jobs')
        /\ Cardinality(jobs') = IF k \in jobs THEN Cardinality(jobs) ELSE Cardinality(jobs) + 1
    BY FiniteSlots, FS_AddElement
  <1>2. Cardinality(jobs) \in Nat /\ Cardinality(jobs) <= max_configs /\ max_configs \in Nat
    BY FiniteSlots, ConstantsAssumption DEF AccountsInv, SlotsJustified
  <1>3. QED
    BY <1>1, <1>2

LEMMA SlotGivenBack ==
    ASSUME TypeOK, AccountsInv, NEW k, jobs' \in {jobs, jobs \ {k}}
    PROVE  IsFiniteSet(jobs') /\ Cardinality(jobs') <= max_configs
  <1>1. /\ IsFiniteSet(jobs \ {k})
        /\ Cardinality(jobs \ {k}) = IF k \in jobs THEN Cardinality(jobs) - 1 ELSE Cardinality(jobs)
    BY FiniteSlots, FS_RemoveElement
  <1>2. /\ Cardinality(jobs) \in Nat /\ Cardinality(jobs) <= max_configs /\ max_configs \in Nat
        /\ IsFiniteSet(jobs)
    BY FiniteSlots, ConstantsAssumption DEF AccountsInv, SlotsJustified
  <1>3. CASE jobs' = jobs
    BY <1>2, <1>3
  <1>4. CASE jobs' = jobs \ {k}
    BY <1>1, <1>2, <1>4
  <1>5. QED
    BY <1>3, <1>4

\* A start reservation is taken on a slot that has none.
LEMMA PrepareStartAccounts ==
    ASSUME TypeOK, OwnerInv, AccountsInv, NEW c \in Callers, NEW k \in Configs,
           NEW kind \in BackendKinds, NEW now \in ClockReadings, PrepareStart(c, k, kind, now)
    PROVE  AccountsInv'
  <1>1. /\ reserved[k] = NoJob /\ ~stop_reserved[k] /\ next_job_generation # NoJob
        /\ k \notin jobs => Cardinality(jobs) < max_configs
    BY DEF PrepareStart, StartAdmissible, TakeGeneration, NoJob
  <1>2. /\ reserved' = [reserved EXCEPT ![k] = next_job_generation]
        /\ jobs' = jobs \cup {k} /\ UNCHANGED <<current, stop_reserved, stop_all_reserved>>
        /\ active_reservations' = active_reservations + 1
    BY DEF PrepareStart
  <1>3. /\ StartReserved' = StartReserved \cup {k} /\ k \notin StartReserved
        /\ StopReserved' = StopReserved /\ k \notin StopReserved
    BY <1>1, <1>2 DEF StartReserved, StopReserved, TypeOK
  <1>4. Cardinality(StartReserved') = Cardinality(StartReserved) + 1
    BY <1>3, FiniteSlots, FS_AddElement
  <1>5. active_reservations' = Reservations'
    BY <1>2, <1>3, <1>4, FiniteSlots DEF AccountsInv, Reservations
  <1>6. SlotsJustified' /\ IsFiniteSet(jobs')
    <2>1. jobs' = {l \in Configs : current'[l] # NoJob \/ reserved'[l] # NoJob \/ stop_reserved'[l]}
      BY <1>1, <1>2 DEF AccountsInv, SlotsJustified, TypeOK
    <2>2. QED
      BY <2>1, <1>1, <1>2, SlotTaken DEF SlotsJustified
  <1>7. KeptStops
    <2>1. \A x, y : \A z \in {"await_preparation", "start_held"} :
             [Idle EXCEPT !.at = z, !.config = x, !.job = y].at \notin Held
      BY DEF Idle, Held
    <2>2. QED
      BY <2>1, KeptStopsUpdate DEF PrepareStart
  <1>8. StopsAreHeld'
    BY <1>2, <1>7, StopsKept DEF AccountsInv
  <1>9. OneReservation'
    BY <1>3 DEF AccountsInv, OneReservation
  <1>10. QED
    BY <1>5, <1>6, <1>8, <1>9 DEF AccountsInv

\* A start that fails is shown or forgotten, and reserves nothing.
LEMMA ThreadStartFailedAccounts ==
    ASSUME TypeOK, OwnerInv, AccountsInv, NEW c \in Callers, NEW k \in Configs,
           NEW publish \in BOOLEAN, NEW now \in ClockReadings, NEW later \in ClockReadings,
           ThreadStartFailed(c, k, publish, now, later)
    PROVE  AccountsInv'
  <1>1. next_job_generation # NoJob /\ (k \notin jobs => Cardinality(jobs) < max_configs)
    BY DEF ThreadStartFailed, StartAdmissible, TakeGeneration, NoJob
  <1>2. /\ UNCHANGED <<reserved, stop_reserved, stop_all_reserved, active_reservations, call>>
        /\ jobs' = (IF publish THEN jobs \cup {k} ELSE jobs)
        /\ current' = IF publish THEN [current EXCEPT ![k] = next_job_generation] ELSE current
    BY DEF ThreadStartFailed
  <1>3. StartReserved' = StartReserved /\ StopReserved' = StopReserved
    BY <1>2 DEF StartReserved, StopReserved
  <1>4. SlotsJustified' /\ IsFiniteSet(jobs')
    <2>1. jobs' = {l \in Configs : current'[l] # NoJob \/ reserved'[l] # NoJob \/ stop_reserved'[l]}
      BY <1>1, <1>2 DEF AccountsInv, SlotsJustified, TypeOK
    <2>2. CASE publish
      BY <2>1, <2>2, <1>1, <1>2, SlotTaken DEF SlotsJustified
    <2>3. CASE ~publish
      BY <2>1, <2>3, <1>2 DEF AccountsInv, SlotsJustified
    <2>4. QED
      BY <2>2, <2>3
  <1>5. StopsAreHeld'
    BY <1>2, KeptStopsSame, StopsKept DEF AccountsInv
  <1>6. QED
    BY <1>2, <1>3, <1>4, <1>5 DEF AccountsInv, Reservations, OneReservation

\* A start reservation is given up, and its slot if nothing else needs it.
LEMMA GiveUpAccounts ==
    ASSUME TypeOK, OwnerInv, AccountsInv, KeptStops, NEW c \in Callers, call[c].at \in Holding,
           reserved' = [reserved EXCEPT ![call[c].config] = NoJob],
           active_reservations' = active_reservations - 1,
           jobs' = IF current[call[c].config] = NoJob THEN jobs \ {call[c].config} ELSE jobs,
           UNCHANGED <<current, stop_reserved, stop_all_reserved>>
    PROVE  AccountsInv'
  <1>1. PICK k \in Configs : k = call[c].config /\ reserved[k] = call[c].job /\ reserved[k] # NoJob
    BY HeldJob, ConstantsAssumption DEF JobIds, NoJob
  <1>2. /\ StartReserved' = StartReserved \ {k} /\ k \in StartReserved
        /\ StopReserved' = StopReserved /\ k \notin StopReserved
    BY <1>1 DEF StartReserved, StopReserved, TypeOK, AccountsInv, OneReservation
  <1>3. Cardinality(StartReserved') = Cardinality(StartReserved) - 1
    BY <1>2, FiniteSlots, FS_RemoveElement
  <1>4. active_reservations' = Reservations'
    BY <1>2, <1>3, FiniteSlots DEF AccountsInv, Reservations
  <1>5. SlotsJustified' /\ IsFiniteSet(jobs')
    <2>1. ~stop_reserved[k] /\ reserved'[k] = NoJob /\ \A l \in Configs \ {k} : reserved'[l] = reserved[l]
      BY <1>1, <1>2 DEF StopReserved, TypeOK
    <2>2. jobs' = {l \in Configs : current'[l] # NoJob \/ reserved'[l] # NoJob \/ stop_reserved'[l]}
      BY <1>1, <2>1 DEF AccountsInv, SlotsJustified
    <2>3. jobs' \in {jobs, jobs \ {k}}
      BY <1>1
    <2>4. IsFiniteSet(jobs') /\ Cardinality(jobs') <= max_configs
      BY <2>3, SlotGivenBack
    <2>5. QED
      BY <2>2, <2>4 DEF SlotsJustified
  <1>6. StopsAreHeld'
    BY StopsKept DEF AccountsInv
  <1>7. OneReservation'
    BY <1>2 DEF AccountsInv, OneReservation
  <1>8. QED
    BY <1>4, <1>5, <1>6, <1>7 DEF AccountsInv

\* A start reservation becomes the current generation of its slot.
LEMMA CommitStartAccounts ==
    ASSUME TypeOK, OwnerInv, AccountsInv, NEW c \in Callers, NEW now \in ClockReadings,
           CommitStart(c, now)
    PROVE  AccountsInv'
  <1>1. PICK k \in Configs, g \in JobIds :
           k = call[c].config /\ g = call[c].job /\ reserved[k] = g /\ g # NoJob
    BY HeldJob, ConstantsAssumption DEF CommitStart, At, Holding, JobIds, NoJob
  <1>2. /\ reserved' = [reserved EXCEPT ![k] = NoJob] /\ current' = [current EXCEPT ![k] = g]
        /\ active_reservations' = active_reservations - 1
        /\ UNCHANGED <<jobs, stop_reserved, stop_all_reserved>>
    BY <1>1 DEF CommitStart
  <1>3. /\ StartReserved' = StartReserved \ {k} /\ k \in StartReserved
        /\ StopReserved' = StopReserved
    BY <1>1, <1>2 DEF StartReserved, StopReserved, TypeOK
  <1>4. Cardinality(StartReserved') = Cardinality(StartReserved) - 1
    BY <1>3, FiniteSlots, FS_RemoveElement
  <1>5. active_reservations' = Reservations'
    BY <1>2, <1>3, <1>4, FiniteSlots DEF AccountsInv, Reservations
  <1>6. SlotsJustified'
    <2>1. /\ reserved'[k] = NoJob /\ current'[k] = g
          /\ \A l \in Configs \ {k} : reserved'[l] = reserved[l] /\ current'[l] = current[l]
      BY <1>2 DEF TypeOK
    <2>2. QED
      BY <1>1, <1>2, <2>1 DEF AccountsInv, SlotsJustified
  <1>7. KeptStops
    BY KeptStopsGoto DEF CommitStart, Held
  <1>8. StopsAreHeld'
    BY <1>2, <1>7, StopsKept DEF AccountsInv
  <1>9. QED
    BY <1>2, <1>3, <1>5, <1>6, <1>8 DEF AccountsInv, OneReservation

\* A stop reservation of one config is taken on a slot that has none.
LEMMA PrepareStopAccounts ==
    ASSUME TypeOK, OwnerInv, AccountsInv, NEW c \in Callers, NEW k \in Configs,
           NEW now \in ClockReadings, PrepareStop(c, k, now)
    PROVE  AccountsInv'
  <1>1. /\ reserved[k] = NoJob /\ ~stop_reserved[k]
        /\ k \notin jobs => Cardinality(jobs) < max_configs
    BY DEF PrepareStop
  <1>2. /\ stop_reserved' = [stop_reserved EXCEPT ![k] = TRUE]
        /\ jobs' = jobs \cup {k} /\ UNCHANGED <<current, reserved, stop_all_reserved>>
        /\ active_reservations' = active_reservations + 1
    BY DEF PrepareStop
  <1>3. /\ StopReserved' = StopReserved \cup {k} /\ k \notin StopReserved
        /\ StartReserved' = StartReserved /\ k \notin StartReserved
    BY <1>1, <1>2 DEF StartReserved, StopReserved, TypeOK
  <1>4. Cardinality(StopReserved') = Cardinality(StopReserved) + 1
    BY <1>3, FiniteSlots, FS_AddElement
  <1>5. active_reservations' = Reservations'
    BY <1>2, <1>3, <1>4, FiniteSlots DEF AccountsInv, Reservations
  <1>6. SlotsJustified' /\ IsFiniteSet(jobs')
    <2>1. stop_reserved'[k] /\ \A l \in Configs \ {k} : stop_reserved'[l] = stop_reserved[l]
      BY <1>2 DEF TypeOK
    <2>2. jobs' = {l \in Configs : current'[l] # NoJob \/ reserved'[l] # NoJob \/ stop_reserved'[l]}
      BY <1>2, <2>1 DEF AccountsInv, SlotsJustified
    <2>3. QED
      BY <2>2, <1>1, <1>2, SlotTaken DEF SlotsJustified
  <1>7. StopsAreHeld'
    <2>1. /\ call'[c].at = "stop_held" /\ call'[c].config = k
          /\ \A d \in Callers \ {c} : call'[d] = call[d]
      BY DEF PrepareStop, Capture, Idle, TypeOK
    <2>2. \A d \in Callers : call[d].at = "stop_held" => call[d].config # k
      BY <1>1 DEF AccountsInv, StopsAreHeld
    <2>3. stop_reserved'[k] /\ \A l \in Configs : stop_reserved[l] => stop_reserved'[l]
      BY <1>2 DEF TypeOK
    <2>4. QED
      BY <1>2, <2>1, <2>2, <2>3 DEF AccountsInv, StopsAreHeld
  <1>8. OneReservation'
    BY <1>3 DEF AccountsInv, OneReservation
  <1>9. QED
    BY <1>5, <1>6, <1>7, <1>8 DEF AccountsInv

\* A stop-all reservation is taken when there is no other reservation.
LEMMA PrepareStopAllAccounts ==
    ASSUME TypeOK, OwnerInv, AccountsInv, NEW c \in Callers, NEW now \in ClockReadings,
           PrepareStopAll(c, now)
    PROVE  AccountsInv'
  <1>1. /\ ~stop_all_reserved /\ active_reservations = 0 /\ active_reservations' = 1
        /\ stop_all_reserved' = TRUE /\ UNCHANGED slots
    BY DEF PrepareStopAll
  <1>2. StartReserved' = StartReserved /\ StopReserved' = StopReserved
    BY <1>1 DEF StartReserved, StopReserved, slots
  <1>3. active_reservations' = Reservations'
    BY <1>1, <1>2, FiniteSlots DEF AccountsInv, Reservations
  <1>4. StopsAreHeld'
    <2>1. /\ call'[c].at = "stop_all_held" /\ \A d \in Callers \ {c} : call'[d] = call[d]
      BY DEF PrepareStopAll, Capture, Idle, TypeOK
    <2>2. \A d \in Callers : call[d].at # "stop_all_held"
      BY <1>1 DEF AccountsInv, StopsAreHeld
    <2>3. QED
      BY <1>1, <2>1, <2>2 DEF AccountsInv, StopsAreHeld, slots
  <1>5. QED
    BY <1>1, <1>2, <1>3, <1>4 DEF AccountsInv, SlotsJustified, OneReservation, slots

\* What a resolved stop leaves its caller with holds no reservation.
LEMMA ResolvedStops ==
    ASSUME TypeOK, NEW c \in Callers, NEW commit \in BOOLEAN, NEW now \in ClockReadings,
           Resolved(c, commit, now)
    PROVE  call'[c].at \notin Held /\ OnlyCaller(c)
  <1>1. /\ Idle.at \notin Held
        /\ [Idle EXCEPT !.at = "deliver", !.captured = Transitions(c)].at \notin Held
    BY DEF Idle, Held
  <1>2. QED
    BY <1>1 DEF Resolved, OnlyCaller, TypeOK

LEMMA ResolveStopAccounts ==
    ASSUME TypeOK, OwnerInv, AccountsInv, NEW c \in Callers, NEW commit \in BOOLEAN,
           NEW now \in ClockReadings, ResolveStop(c, commit, now)
    PROVE  AccountsInv'
  <1>1. PICK k \in Configs : k = call[c].config /\ stop_reserved[k]
    BY DEF ResolveStop, At, AccountsInv, StopsAreHeld
  <1>2. /\ stop_reserved' = [stop_reserved EXCEPT ![k] = FALSE]
        /\ jobs' = (IF current[k] = NoJob /\ reserved[k] = NoJob THEN jobs \ {k} ELSE jobs)
        /\ UNCHANGED <<current, reserved, stop_all_reserved>>
        /\ active_reservations' = active_reservations - 1 /\ call[c].at = "stop_held"
    BY <1>1 DEF ResolveStop, At
  <1>3. /\ StopReserved' = StopReserved \ {k} /\ k \in StopReserved
        /\ StartReserved' = StartReserved
    BY <1>1, <1>2 DEF StartReserved, StopReserved, TypeOK
  <1>4. Cardinality(StopReserved') = Cardinality(StopReserved) - 1
    BY <1>3, FiniteSlots, FS_RemoveElement
  <1>5. active_reservations' = Reservations'
    BY <1>2, <1>3, <1>4, FiniteSlots DEF AccountsInv, Reservations
  <1>6. ~stop_reserved'[k] /\ \A l \in Configs \ {k} : stop_reserved'[l] = stop_reserved[l]
    BY <1>2 DEF TypeOK
  <1>7. SlotsJustified' /\ IsFiniteSet(jobs')
    <2>1. jobs' = {l \in Configs : current'[l] # NoJob \/ reserved'[l] # NoJob \/ stop_reserved'[l]}
      BY <1>1, <1>2, <1>6 DEF AccountsInv, SlotsJustified
    <2>2. jobs' \in {jobs, jobs \ {k}}
      BY <1>2
    <2>3. QED
      BY <2>1, <2>2, SlotGivenBack DEF SlotsJustified
  <1>8. StopsAreHeld'
    <2>1. call'[c].at \notin Held /\ \A d \in Callers \ {c} : call'[d] = call[d]
      BY ResolvedStops DEF ResolveStop, OnlyCaller
    <2>2. \A d \in Callers \ {c} : call[d].at = "stop_held" => call[d].config # k
      BY <1>1, <1>2 DEF AccountsInv, StopsAreHeld
    <2>3. QED
      BY <1>2, <1>6, <2>1, <2>2 DEF AccountsInv, StopsAreHeld, Held
  <1>9. QED
    BY <1>3, <1>5, <1>7, <1>8 DEF AccountsInv, OneReservation

LEMMA ResolveStopAllAccounts ==
    ASSUME TypeOK, OwnerInv, AccountsInv, NEW c \in Callers, NEW commit \in BOOLEAN,
           NEW now \in ClockReadings, ResolveStopAll(c, commit, now)
    PROVE  AccountsInv'
  <1>1. /\ stop_all_reserved' = FALSE /\ UNCHANGED slots
        /\ active_reservations' = active_reservations - 1 /\ call[c].at = "stop_all_held"
    BY DEF ResolveStopAll, At
  <1>2. stop_all_reserved
    BY <1>1 DEF AccountsInv, StopsAreHeld
  <1>3. StartReserved' = StartReserved /\ StopReserved' = StopReserved
    BY <1>1 DEF StartReserved, StopReserved, slots
  <1>4. active_reservations' = Reservations'
    BY <1>1, <1>2, <1>3, FiniteSlots DEF AccountsInv, Reservations
  <1>5. StopsAreHeld'
    <2>1. call'[c].at \notin Held /\ \A d \in Callers \ {c} : call'[d] = call[d]
      BY ResolvedStops DEF ResolveStopAll, OnlyCaller
    <2>2. \A d \in Callers \ {c} : call[d].at # "stop_all_held"
      BY <1>1 DEF AccountsInv, StopsAreHeld
    <2>3. QED
      BY <1>1, <2>1, <2>2 DEF AccountsInv, StopsAreHeld, Held, slots
  <1>6. QED
    BY <1>1, <1>3, <1>4, <1>5 DEF AccountsInv, SlotsJustified, OneReservation, slots


LEMMA AccountsStep == TypeOK /\ OwnerInv /\ AccountsInv /\ [Next]_vars => AccountsInv'
  <1>. SUFFICES ASSUME TypeOK, OwnerInv, AccountsInv, [Next]_vars PROVE AccountsInv'
    OBVIOUS
  <1>1. ASSUME NEW c \in Callers, NEW k \in Configs, NEW kind \in BackendKinds,
               NEW now \in ClockReadings,
               PrepareStart(c, k, kind, now)
        PROVE  AccountsInv'
    BY <1>1, PrepareStartAccounts
  <1>2. ASSUME NEW c \in Callers, NEW k \in Configs,
               StartExhausted(c, k)
        PROVE  AccountsInv'
    <2>1. KeptStops
      BY <1>2, KeptStopsSame DEF StartExhausted
    <2>2. QED
      BY <1>2, <2>1, AccountsKept DEF StartExhausted, owner
  <1>3. ASSUME NEW c \in Callers, NEW k \in Configs, NEW publish \in BOOLEAN,
               NEW now \in ClockReadings, NEW later \in ClockReadings,
               ThreadStartFailed(c, k, publish, now, later)
        PROVE  AccountsInv'
    BY <1>3, ThreadStartFailedAccounts
  <1>4. ASSUME NEW c \in Callers,
               PreparationSucceeded(c)
        PROVE  AccountsInv'
    <2>1. KeptStops
      BY <1>4, KeptStopsGoto DEF PreparationSucceeded, Held
    <2>2. QED
      BY <1>4, <2>1, AccountsKept DEF PreparationSucceeded, owner
  <1>5. ASSUME NEW c \in Callers,
               PreparationFailed(c)
        PROVE  AccountsInv'
    <2>1. KeptStops
      BY <1>5, KeptStopsGoto DEF PreparationFailed, Held
    <2>2. QED
      BY <1>5, <2>1, GiveUpAccounts DEF PreparationFailed, At, Holding
  <1>6. ASSUME NEW c \in Callers,
               JoinFailed(c)
        PROVE  AccountsInv'
    <2>1. KeptStops
      BY <1>6, KeptStopsReturn DEF JoinFailed
    <2>2. QED
      BY <1>6, <2>1, AccountsKept DEF JoinFailed, owner
  <1>7. ASSUME NEW c \in Callers, NEW now \in ClockReadings,
               CommitStart(c, now)
        PROVE  AccountsInv'
    BY <1>7, CommitStartAccounts
  <1>8. ASSUME NEW c \in Callers,
               StopBeforeRelease(c)
        PROVE  AccountsInv'
    <2>1. KeptStops
      BY <1>8, KeptStopsGoto DEF StopBeforeRelease, Held
    <2>2. QED
      BY <1>8, <2>1, AccountsKept DEF StopBeforeRelease, owner
  <1>9. ASSUME NEW c \in Callers,
               ReleaseGate(c)
        PROVE  AccountsInv'
    <2>1. KeptStops
      BY <1>9, KeptStopsReturn DEF ReleaseGate
    <2>2. QED
      BY <1>9, <2>1, AccountsKept DEF ReleaseGate, owner
  <1>10. ASSUME NEW c \in Callers,
                CancelStart(c)
         PROVE  AccountsInv'
    <2>1. KeptStops
      BY <1>10, KeptStopsGoto DEF CancelStart, Held
    <2>2. QED
      BY <1>10, <2>1, AccountsKept DEF CancelStart, owner
  <1>11. ASSUME NEW c \in Callers,
                JoinCancelled(c)
         PROVE  AccountsInv'
    <2>1. KeptStops
      BY <1>11, KeptStopsReturn DEF JoinCancelled, Held
    <2>2. QED
      BY <1>11, <2>1, GiveUpAccounts DEF JoinCancelled, At, Holding
  <1>12. ASSUME NEW g \in JobIds, NEW ok \in BOOLEAN,
                Prepare(g, ok)
         PROVE  AccountsInv'
    <2>1. KeptStops
      BY <1>12, KeptStopsSame DEF Prepare
    <2>2. QED
      BY <1>12, <2>1, AccountsKept DEF Prepare, owner
  <1>13. ASSUME NEW g \in JobIds,
                PassGate(g)
         PROVE  AccountsInv'
    <2>1. KeptStops
      BY <1>13, KeptStopsSame DEF PassGate
    <2>2. QED
      BY <1>13, <2>1, AccountsKept DEF PassGate, owner
  <1>14. ASSUME NEW g \in JobIds, NEW now \in ClockReadings,
                Report(g, now)
         PROVE  AccountsInv'
    <2>1. KeptStops
      BY <1>14, KeptStopsSame DEF Report
    <2>2. QED
      BY <1>14, <2>1, AccountsKept DEF Report, owner
  <1>15. ASSUME NEW g \in JobIds, NEW now \in ClockReadings,
                Finish(g, now)
         PROVE  AccountsInv'
    <2>1. KeptStops
      BY <1>15, KeptStopsSame DEF Finish
    <2>2. QED
      BY <1>15, <2>1, AccountsKept DEF Finish, owner
  <1>16. ASSUME NEW c \in Callers, NEW k \in Configs, NEW now \in ClockReadings,
                PrepareStop(c, k, now)
         PROVE  AccountsInv'
    BY <1>16, PrepareStopAccounts
  <1>17. ASSUME NEW c \in Callers, NEW now \in ClockReadings,
                PrepareStopAll(c, now)
         PROVE  AccountsInv'
    BY <1>17, PrepareStopAllAccounts
  <1>18. ASSUME NEW c \in Callers, NEW commit \in BOOLEAN, NEW now \in ClockReadings,
                ResolveStop(c, commit, now)
         PROVE  AccountsInv'
    BY <1>18, ResolveStopAccounts
  <1>19. ASSUME NEW c \in Callers, NEW commit \in BOOLEAN, NEW now \in ClockReadings,
                ResolveStopAll(c, commit, now)
         PROVE  AccountsInv'
    BY <1>19, ResolveStopAllAccounts
  <1>20. ASSUME NEW c \in Callers, NEW k \in Configs, NEW now \in ClockReadings,
                StopAfterShutdown(c, k, now)
         PROVE  AccountsInv'
    <2>1. KeptStops
      BY <1>20, KeptStopsUpdate DEF StopAfterShutdown, Idle, Held
    <2>2. QED
      BY <1>20, <2>1, AccountsKept DEF StopAfterShutdown, owner
  <1>21. ASSUME NEW c \in Callers, NEW g \in JobIds,
                Deliver(c, g)
         PROVE  AccountsInv'
    <2>1. Idle.at \notin Held /\ Delivered(call[c], g).at \notin Held
      BY <1>21 DEF Deliver, At, Delivered, Idle, Held, TypeOK, Calls
    <2>2. KeptStops
      BY <1>21, <2>1, KeptStopsUpdate DEF Deliver
    <2>3. QED
      BY <1>21, <2>2, AccountsKept DEF Deliver, owner
  <1>22. ASSUME NEW c \in Callers,
                Shutdown(c)
         PROVE  AccountsInv'
    <2>1. KeptStops
      BY <1>22, KeptStopsGoto DEF Shutdown, Held
    <2>2. QED
      BY <1>22, <2>1, AccountsKept DEF Shutdown, Initiate
  <1>23. ASSUME NEW c \in Callers,
                NestedShutdown(c)
         PROVE  AccountsInv'
    <2>1. KeptStops
      BY <1>23, KeptStopsSame DEF NestedShutdown, Initiate
    <2>2. QED
      BY <1>23, <2>1, AccountsKept DEF NestedShutdown, Initiate
  <1>24. ASSUME NEW g \in JobIds,
                WorkerShutdown(g)
         PROVE  AccountsInv'
    <2>1. KeptStops
      BY <1>24, KeptStopsSame DEF WorkerShutdown, Initiate
    <2>2. QED
      BY <1>24, <2>1, AccountsKept DEF WorkerShutdown, Initiate
  <1>25. ASSUME NEW a \in Actors, NEW k \in Configs, NEW now \in ClockReadings,
                SweepFind(a, k, now)
         PROVE  AccountsInv'
    <2>1. KeptStops
      BY <1>25, KeptStopsSame DEF SweepFind
    <2>2. QED
      BY <1>25, <2>1, AccountsKept DEF SweepFind, owner
  <1>26. ASSUME NEW a \in Actors,
                SweepDeliver(a)
         PROVE  AccountsInv'
    <2>1. KeptStops
      BY <1>26, KeptStopsSame DEF SweepDeliver
    <2>2. QED
      BY <1>26, <2>1, AccountsKept DEF SweepDeliver, owner
  <1>27. ASSUME NEW a \in Actors,
                SweepDone(a)
         PROVE  AccountsInv'
    <2>1. KeptStops
      BY <1>27, KeptStopsSame DEF SweepDone
    <2>2. QED
      BY <1>27, <2>1, AccountsKept DEF SweepDone, owner
  <1>28. ASSUME NEW c \in Callers,
                LockDrain(c)
         PROVE  AccountsInv'
    <2>1. KeptStops
      BY <1>28, KeptStopsGoto DEF LockDrain, Held
    <2>2. QED
      BY <1>28, <2>1, AccountsKept DEF LockDrain, owner
  <1>29. ASSUME NEW c \in Callers,
                AwaitReservations(c)
         PROVE  AccountsInv'
    <2>1. KeptStops
      BY <1>29, KeptStopsGoto DEF AwaitReservations, Held
    <2>2. QED
      BY <1>29, <2>1, AccountsKept DEF AwaitReservations, owner
  <1>30. ASSUME NEW c \in Callers, NEW k \in Configs,
                DrainPick(c, k)
         PROVE  AccountsInv'
    <2>1. [call[c] EXCEPT !.at = "drain_join", !.job = current[k]].at \notin Held
      BY <1>30 DEF TypeOK, Calls, Held
    <2>2. KeptStops
      BY <1>30, <2>1, KeptStopsUpdate DEF DrainPick
    <2>3. QED
      BY <1>30, <2>2, AccountsKept DEF DrainPick, owner
  <1>31. ASSUME NEW c \in Callers,
                DrainJoin(c)
         PROVE  AccountsInv'
    <2>1. [call[c] EXCEPT !.at = "drain", !.job = NoJob].at \notin Held
      BY <1>31 DEF TypeOK, Calls, Held
    <2>2. KeptStops
      BY <1>31, <2>1, KeptStopsUpdate DEF DrainJoin
    <2>3. QED
      BY <1>31, <2>2, AccountsKept DEF DrainJoin, owner
  <1>32. ASSUME NEW c \in Callers,
                ShutdownReturns(c)
         PROVE  AccountsInv'
    <2>1. KeptStops
      BY <1>32, KeptStopsReturn DEF ShutdownReturns
    <2>2. QED
      BY <1>32, <2>1, AccountsKept DEF ShutdownReturns, owner
  <1>33. CASE UNCHANGED vars
    BY <1>33, KeptStopsSame, AccountsKept DEF vars, owner
  <1>34. QED
    BY <1>1, <1>2, <1>3, <1>4, <1>5, <1>6, <1>7, <1>8, <1>9, <1>10, <1>11, <1>12, <1>13,
       <1>14, <1>15, <1>16, <1>17, <1>18, <1>19, <1>20, <1>21, <1>22, <1>23, <1>24, <1>25,
       <1>26, <1>27, <1>28, <1>29, <1>30, <1>31, <1>32, <1>33
       DEF Next, CallerStep, WorkerStep, SweepStep

LEMMA AccountsInit == Init => AccountsInv
  <1>. SUFFICES ASSUME Init PROVE AccountsInv
    OBVIOUS
  <1>1. StartReserved = {} /\ StopReserved = {} /\ jobs = {}
    BY DEF Init, StartReserved, StopReserved
  <1>2. SlotsJustified
    BY <1>1, FS_EmptySet, ConstantsAssumption DEF Init, SlotsJustified
  <1>3. QED
    BY <1>1, <1>2, FS_EmptySet
       DEF Init, AccountsInv, Reservations, OneReservation, StopsAreHeld, Idle

-----------------------------------------------------------------------------
(* ThreadsInv: who drains *)

Drainers == Draining \cup {"shutdown"}
KeepsDrain(r, s) == s.at \in Drainers => s.at = r.at
KeptDrains == \A c \in Callers : KeepsDrain(call[c], call'[c])

LEMMA KeptDrainsSame == UNCHANGED call => KeptDrains
  BY DEF KeptDrains, KeepsDrain

LEMMA KeptDrainsUpdate ==
    ASSUME TypeOK, NEW c \in Callers, NEW s, call' = [call EXCEPT ![c] = s], s.at \notin Drainers
    PROVE  KeptDrains
  BY DEF KeptDrains, KeepsDrain, TypeOK

LEMMA KeptDrainsReturn ==
    ASSUME TypeOK, NEW c \in Callers, Return(c)
    PROVE  KeptDrains
  BY KeptDrainsUpdate DEF Return, Idle, Drainers, Draining

LEMMA KeptDrainsGoto ==
    ASSUME TypeOK, NEW c \in Callers, NEW p, Goto(c, p), p \notin Drainers
    PROVE  KeptDrains
  <1>1. [call[c] EXCEPT !.at = p].at = p
    BY DEF TypeOK, Calls
  <1>2. QED
    BY <1>1, KeptDrainsUpdate DEF Goto

\* Nobody drains while admission is open, nor is past the wait while there is a reservation.
LEMMA DrainsKept ==
    ASSUME TypeOK, DrainsAlone, KeptDrains, UNCHANGED drain_mutex, accepting' => accepting,
           accepting \/ active_reservations # 0 \/ active_reservations' = active_reservations
    PROVE  DrainsAlone'
  BY DEF DrainsAlone, KeptDrains, KeepsDrain, Drainers, Draining

LEMMA DrainMoves ==
    ASSUME TypeOK, DrainsAlone, NEW c \in Callers, call[c].at \in Draining, NEW s,
           call' = [call EXCEPT ![c] = s], s.at \in {"drain", "drain_join"},
           active_reservations = 0, UNCHANGED <<owner, drain_mutex>>
    PROVE  DrainsAlone'
  <1>1. call'[c].at \in {"drain", "drain_join"} /\ \A d \in Callers \ {c} : call'[d] = call[d]
    BY DEF TypeOK
  <1>2. QED
    BY <1>1 DEF DrainsAlone, Draining, owner

\* A reservation that somebody holds is counted.
LEMMA CountedIsPositive ==
    ASSUME TypeOK, AccountsInv,
           \/ stop_all_reserved
           \/ \E k \in Configs : reserved[k] # NoJob \/ stop_reserved[k]
    PROVE  active_reservations # 0
  <1>1. Cardinality(StartReserved) \in Nat /\ Cardinality(StopReserved) \in Nat
    BY FiniteSlots
  <1>2. /\ Cardinality(StartReserved) = 0 => StartReserved = {}
        /\ Cardinality(StopReserved) = 0 => StopReserved = {}
    BY FiniteSlots, FS_EmptySet
  <1>3. active_reservations = 0 => StartReserved = {} /\ StopReserved = {} /\ ~stop_all_reserved
    BY <1>1, <1>2 DEF AccountsInv, Reservations
  <1>4. QED
    BY <1>3 DEF StartReserved, StopReserved

LEMMA HolderIsCounted ==
    ASSUME TypeOK, OwnerInv, AccountsInv, NEW c \in Callers, call[c].at \in Holding \cup Held
    PROVE  active_reservations # 0
  <1>1. CASE call[c].at \in Holding
    <2>1. /\ call[c].config \in Configs /\ reserved[call[c].config] = call[c].job
          /\ call[c].job \in JobIds
      BY <1>1, HeldJob
    <2>2. reserved[call[c].config] # NoJob
      BY <2>1, ConstantsAssumption DEF JobIds, NoJob
    <2>3. QED
      BY <2>1, <2>2, CountedIsPositive
  <1>2. CASE call[c].at = "stop_held"
    BY <1>2, CountedIsPositive DEF AccountsInv, StopsAreHeld
  <1>3. CASE call[c].at = "stop_all_held"
    BY <1>3, CountedIsPositive DEF AccountsInv, StopsAreHeld
  <1>4. QED
    BY <1>1, <1>2, <1>3 DEF Held


LEMMA DrainsStep == TypeOK /\ OwnerInv /\ AccountsInv /\ DrainsAlone /\ [Next]_vars => DrainsAlone'
  <1>. SUFFICES ASSUME TypeOK, OwnerInv, AccountsInv, DrainsAlone, [Next]_vars
                PROVE  DrainsAlone'
    OBVIOUS
  <1>1. ASSUME NEW c \in Callers, NEW k \in Configs, NEW kind \in BackendKinds,
               NEW now \in ClockReadings,
               PrepareStart(c, k, kind, now)
        PROVE  DrainsAlone'
    <2>1. \A x, y : \A z \in {"await_preparation", "start_held"} :
             [Idle EXCEPT !.at = z, !.config = x, !.job = y].at \notin Drainers
      BY <1>1 DEF Idle, Drainers, Draining
    <2>2. KeptDrains
      BY <1>1, <2>1, KeptDrainsUpdate DEF PrepareStart
    <2>3. QED
      BY <1>1, <2>2, DrainsKept DEF PrepareStart, owner, slots, StartAdmissible
  <1>2. ASSUME NEW c \in Callers, NEW k \in Configs,
               StartExhausted(c, k)
        PROVE  DrainsAlone'
    <2>1. KeptDrains
      BY <1>2, KeptDrainsSame DEF StartExhausted
    <2>2. QED
      BY <1>2, <2>1, DrainsKept DEF StartExhausted, owner, slots
  <1>3. ASSUME NEW c \in Callers, NEW k \in Configs, NEW publish \in BOOLEAN,
               NEW now \in ClockReadings, NEW later \in ClockReadings,
               ThreadStartFailed(c, k, publish, now, later)
        PROVE  DrainsAlone'
    <2>1. KeptDrains
      BY <1>3, KeptDrainsSame DEF ThreadStartFailed
    <2>2. QED
      BY <1>3, <2>1, DrainsKept DEF ThreadStartFailed, owner, slots
  <1>4. ASSUME NEW c \in Callers,
               PreparationSucceeded(c)
        PROVE  DrainsAlone'
    <2>1. KeptDrains
      BY <1>4, KeptDrainsGoto DEF PreparationSucceeded, Drainers, Draining
    <2>2. QED
      BY <1>4, <2>1, DrainsKept DEF PreparationSucceeded, owner, slots
  <1>5. ASSUME NEW c \in Callers,
               PreparationFailed(c)
        PROVE  DrainsAlone'
    <2>1. KeptDrains
      BY <1>5, KeptDrainsGoto DEF PreparationFailed, Drainers, Draining
    <2>2. QED
      BY <1>5, <2>1, DrainsKept, HolderIsCounted
         DEF PreparationFailed, owner, slots, At, Holding
  <1>6. ASSUME NEW c \in Callers,
               JoinFailed(c)
        PROVE  DrainsAlone'
    <2>1. KeptDrains
      BY <1>6, KeptDrainsReturn DEF JoinFailed
    <2>2. QED
      BY <1>6, <2>1, DrainsKept DEF JoinFailed, owner, slots
  <1>7. ASSUME NEW c \in Callers, NEW now \in ClockReadings,
               CommitStart(c, now)
        PROVE  DrainsAlone'
    <2>1. KeptDrains
      BY <1>7, KeptDrainsGoto DEF CommitStart, Drainers, Draining
    <2>2. QED
      BY <1>7, <2>1, DrainsKept, HolderIsCounted DEF CommitStart, owner, slots, At, Holding
  <1>8. ASSUME NEW c \in Callers,
               StopBeforeRelease(c)
        PROVE  DrainsAlone'
    <2>1. KeptDrains
      BY <1>8, KeptDrainsGoto DEF StopBeforeRelease, Drainers, Draining
    <2>2. QED
      BY <1>8, <2>1, DrainsKept DEF StopBeforeRelease, owner, slots
  <1>9. ASSUME NEW c \in Callers,
               ReleaseGate(c)
        PROVE  DrainsAlone'
    <2>1. KeptDrains
      BY <1>9, KeptDrainsReturn DEF ReleaseGate
    <2>2. QED
      BY <1>9, <2>1, DrainsKept DEF ReleaseGate, owner, slots
  <1>10. ASSUME NEW c \in Callers,
                CancelStart(c)
         PROVE  DrainsAlone'
    <2>1. KeptDrains
      BY <1>10, KeptDrainsGoto DEF CancelStart, Drainers, Draining
    <2>2. QED
      BY <1>10, <2>1, DrainsKept DEF CancelStart, owner, slots
  <1>11. ASSUME NEW c \in Callers,
                JoinCancelled(c)
         PROVE  DrainsAlone'
    <2>1. KeptDrains
      BY <1>11, KeptDrainsReturn DEF JoinCancelled
    <2>2. QED
      BY <1>11, <2>1, DrainsKept, HolderIsCounted DEF JoinCancelled, owner, slots, At, Holding
  <1>12. ASSUME NEW g \in JobIds, NEW ok \in BOOLEAN,
                Prepare(g, ok)
         PROVE  DrainsAlone'
    <2>1. KeptDrains
      BY <1>12, KeptDrainsSame DEF Prepare
    <2>2. QED
      BY <1>12, <2>1, DrainsKept DEF Prepare, owner, slots
  <1>13. ASSUME NEW g \in JobIds,
                PassGate(g)
         PROVE  DrainsAlone'
    <2>1. KeptDrains
      BY <1>13, KeptDrainsSame DEF PassGate
    <2>2. QED
      BY <1>13, <2>1, DrainsKept DEF PassGate, owner, slots
  <1>14. ASSUME NEW g \in JobIds, NEW now \in ClockReadings,
                Report(g, now)
         PROVE  DrainsAlone'
    <2>1. KeptDrains
      BY <1>14, KeptDrainsSame DEF Report
    <2>2. QED
      BY <1>14, <2>1, DrainsKept DEF Report, owner, slots
  <1>15. ASSUME NEW g \in JobIds, NEW now \in ClockReadings,
                Finish(g, now)
         PROVE  DrainsAlone'
    <2>1. KeptDrains
      BY <1>15, KeptDrainsSame DEF Finish
    <2>2. QED
      BY <1>15, <2>1, DrainsKept DEF Finish, owner, slots
  <1>16. ASSUME NEW c \in Callers, NEW k \in Configs, NEW now \in ClockReadings,
                PrepareStop(c, k, now)
         PROVE  DrainsAlone'
    <2>1. \A x, y, z, w : [Idle EXCEPT !.at = "stop_held", !.config = w,
             !.captured = x, !.running = y, !.stamp = z].at \notin Drainers
      BY <1>16 DEF Idle, Drainers, Draining
    <2>2. KeptDrains
      BY <1>16, <2>1, KeptDrainsUpdate DEF PrepareStop, Capture
    <2>3. QED
      BY <1>16, <2>2, DrainsKept DEF PrepareStop, owner, slots
  <1>17. ASSUME NEW c \in Callers, NEW now \in ClockReadings,
                PrepareStopAll(c, now)
         PROVE  DrainsAlone'
    <2>1. \A x, y, z, w : [Idle EXCEPT !.at = "stop_all_held", !.config = w,
             !.captured = x, !.running = y, !.stamp = z].at \notin Drainers
      BY <1>17 DEF Idle, Drainers, Draining
    <2>2. KeptDrains
      BY <1>17, <2>1, KeptDrainsUpdate DEF PrepareStopAll, Capture
    <2>3. QED
      BY <1>17, <2>2, DrainsKept DEF PrepareStopAll, owner, slots
  <1>18. ASSUME NEW c \in Callers, NEW commit \in BOOLEAN, NEW now \in ClockReadings,
                ResolveStop(c, commit, now)
         PROVE  DrainsAlone'
    <2>1. /\ Idle.at \notin Drainers
          /\ [Idle EXCEPT !.at = "deliver", !.captured = Transitions(c)].at \notin Drainers
      BY <1>18 DEF Idle, Drainers, Draining
    <2>2. KeptDrains
      BY <1>18, <2>1, KeptDrainsUpdate DEF ResolveStop, Resolved
    <2>3. QED
      BY <1>18, <2>2, DrainsKept, HolderIsCounted DEF ResolveStop, owner, slots, At, Held
  <1>19. ASSUME NEW c \in Callers, NEW commit \in BOOLEAN, NEW now \in ClockReadings,
                ResolveStopAll(c, commit, now)
         PROVE  DrainsAlone'
    <2>1. /\ Idle.at \notin Drainers
          /\ [Idle EXCEPT !.at = "deliver", !.captured = Transitions(c)].at \notin Drainers
      BY <1>19 DEF Idle, Drainers, Draining
    <2>2. KeptDrains
      BY <1>19, <2>1, KeptDrainsUpdate DEF ResolveStopAll, Resolved
    <2>3. QED
      BY <1>19, <2>2, DrainsKept, HolderIsCounted DEF ResolveStopAll, owner, slots, At, Held
  <1>20. ASSUME NEW c \in Callers, NEW k \in Configs, NEW now \in ClockReadings,
                StopAfterShutdown(c, k, now)
         PROVE  DrainsAlone'
    <2>1. KeptDrains
      BY <1>20, KeptDrainsUpdate DEF StopAfterShutdown, Idle, Drainers, Draining
    <2>2. QED
      BY <1>20, <2>1, DrainsKept DEF StopAfterShutdown, owner, slots
  <1>21. ASSUME NEW c \in Callers, NEW g \in JobIds,
                Deliver(c, g)
         PROVE  DrainsAlone'
    <2>1. Idle.at \notin Drainers /\ Delivered(call[c], g).at \notin Drainers
      BY <1>21 DEF Deliver, At, Delivered, Idle, TypeOK, Calls, Drainers, Draining
    <2>2. KeptDrains
      BY <1>21, <2>1, KeptDrainsUpdate DEF Deliver
    <2>3. QED
      BY <1>21, <2>2, DrainsKept DEF Deliver, owner, slots
  <1>22. ASSUME NEW c \in Callers,
                Shutdown(c)
         PROVE  DrainsAlone'
    <2>1. call'[c].at = "shutdown" /\ \A d \in Callers \ {c} : call'[d] = call[d]
      BY <1>22 DEF Shutdown, Goto, TypeOK, Calls
    <2>2. QED
      BY <1>22, <2>1 DEF Shutdown, Initiate, DrainsAlone, Draining
  <1>23. ASSUME NEW c \in Callers,
                NestedShutdown(c)
         PROVE  DrainsAlone'
    <2>1. KeptDrains
      BY <1>23, KeptDrainsSame DEF NestedShutdown, Initiate
    <2>2. QED
      BY <1>23, <2>1, DrainsKept DEF NestedShutdown, owner, slots, Initiate
  <1>24. ASSUME NEW g \in JobIds,
                WorkerShutdown(g)
         PROVE  DrainsAlone'
    <2>1. KeptDrains
      BY <1>24, KeptDrainsSame DEF WorkerShutdown, Initiate
    <2>2. QED
      BY <1>24, <2>1, DrainsKept DEF WorkerShutdown, owner, slots, Initiate
  <1>25. ASSUME NEW a \in Actors, NEW k \in Configs, NEW now \in ClockReadings,
                SweepFind(a, k, now)
         PROVE  DrainsAlone'
    <2>1. KeptDrains
      BY <1>25, KeptDrainsSame DEF SweepFind
    <2>2. QED
      BY <1>25, <2>1, DrainsKept DEF SweepFind, owner, slots
  <1>26. ASSUME NEW a \in Actors,
                SweepDeliver(a)
         PROVE  DrainsAlone'
    <2>1. KeptDrains
      BY <1>26, KeptDrainsSame DEF SweepDeliver
    <2>2. QED
      BY <1>26, <2>1, DrainsKept DEF SweepDeliver, owner, slots
  <1>27. ASSUME NEW a \in Actors,
                SweepDone(a)
         PROVE  DrainsAlone'
    <2>1. KeptDrains
      BY <1>27, KeptDrainsSame DEF SweepDone
    <2>2. QED
      BY <1>27, <2>1, DrainsKept DEF SweepDone, owner, slots
  <1>28. ASSUME NEW c \in Callers,
                LockDrain(c)
         PROVE  DrainsAlone'
    <2>1. /\ call'[c].at = "await_reservations"
          /\ \A d \in Callers \ {c} : call'[d] = call[d]
      BY <1>28 DEF LockDrain, Goto, TypeOK, Calls
    <2>2. QED
      BY <1>28, <2>1 DEF LockDrain, At, DrainsAlone, Draining, owner
  <1>29. ASSUME NEW c \in Callers,
                AwaitReservations(c)
         PROVE  DrainsAlone'
    <2>1. [call[c] EXCEPT !.at = "drain"].at = "drain"
      BY <1>29 DEF TypeOK, Calls
    <2>2. QED
      BY <1>29, <2>1, DrainMoves DEF AwaitReservations, Goto, At, Draining
  <1>30. ASSUME NEW c \in Callers, NEW k \in Configs,
                DrainPick(c, k)
         PROVE  DrainsAlone'
    <2>1. [call[c] EXCEPT !.at = "drain_join", !.job = current[k]].at = "drain_join"
      BY <1>30 DEF TypeOK, Calls
    <2>2. active_reservations = 0
      BY <1>30 DEF DrainPick, At, DrainsAlone
    <2>3. QED
      BY <1>30, <2>1, <2>2, DrainMoves DEF DrainPick, At, Draining
  <1>31. ASSUME NEW c \in Callers,
                DrainJoin(c)
         PROVE  DrainsAlone'
    <2>1. [call[c] EXCEPT !.at = "drain", !.job = NoJob].at = "drain"
      BY <1>31 DEF TypeOK, Calls
    <2>2. active_reservations = 0
      BY <1>31 DEF DrainJoin, At, DrainsAlone
    <2>3. QED
      BY <1>31, <2>1, <2>2, DrainMoves DEF DrainJoin, At, Draining
  <1>32. ASSUME NEW c \in Callers,
                ShutdownReturns(c)
         PROVE  DrainsAlone'
    <2>1. call'[c].at = "idle" /\ \A d \in Callers \ {c} : call'[d] = call[d]
      BY <1>32 DEF ShutdownReturns, Return, Idle, TypeOK
    <2>2. QED
      BY <1>32, <2>1 DEF ShutdownReturns, At, DrainsAlone, Draining, owner
  <1>33. CASE UNCHANGED vars
    BY <1>33, KeptDrainsSame, DrainsKept DEF vars, owner
  <1>34. QED
    BY <1>1, <1>2, <1>3, <1>4, <1>5, <1>6, <1>7, <1>8, <1>9, <1>10, <1>11, <1>12, <1>13,
       <1>14, <1>15, <1>16, <1>17, <1>18, <1>19, <1>20, <1>21, <1>22, <1>23, <1>24, <1>25,
       <1>26, <1>27, <1>28, <1>29, <1>30, <1>31, <1>32, <1>33
       DEF Next, CallerStep, WorkerStep, SweepStep

-----------------------------------------------------------------------------
(* ThreadsInv: who joins which thread *)

Joining == {"join_cancelled", "join_failed", "drain_join"}

\* A thread that can be joined after the step as before it, behind the same gate.
SameThread(j, i) ==
    /\ i.config_id = j.config_id /\ i.gate = j.gate
    /\ i.worker \in {"none", "joined"} <=> j.worker \in {"none", "joined"}
SameJoin(r, s) ==
    /\ s.at \in Joining <=> r.at \in Joining
    /\ r.at \in Joining => s.at = r.at /\ s.job = r.job
SameThreads == \A g \in JobIds : SameThread(job[g], job'[g])
SameJoins == \A c \in Callers : SameJoin(call[c], call'[c])

ThreadsHeld == ThreadsAreOwned /\ JoinsAreSafe

LEMMA SameThreadItself == \A j : SameThread(j, j)
  BY DEF SameThread

LEMMA SameJoinItself == \A r : SameJoin(r, r)
  BY DEF SameJoin

LEMMA ThreadsSame == UNCHANGED job => SameThreads
  BY SameThreadItself DEF SameThreads

LEMMA JoinsSame == UNCHANGED call => SameJoins
  BY SameJoinItself DEF SameJoins

LEMMA SameThreadUpdate ==
    ASSUME TypeOK, NEW g, NEW j, g \in JobIds => SameThread(job[g], j),
           job' = [job EXCEPT ![g] = j]
    PROVE  SameThreads
  BY SameThreadItself DEF SameThreads, TypeOK

LEMMA SameThreadRaise ==
    ASSUME TypeOK, NEW g, job' = [job EXCEPT ![g].stop = TRUE]
    PROVE  SameThreads
  <1>1. g \in JobIds => SameThread(job[g], [job[g] EXCEPT !.stop = TRUE])
    BY DEF SameThread, TypeOK, Jobs
  <1>2. QED
    BY <1>1, SameThreadUpdate

LEMMA SameJoinUpdate ==
    ASSUME TypeOK, NEW c \in Callers, NEW s, call' = [call EXCEPT ![c] = s],
           s.at \notin Joining, call[c].at \notin Joining
    PROVE  SameJoins
  BY SameJoinItself DEF SameJoins, SameJoin, TypeOK

LEMMA SameJoinReturn ==
    ASSUME TypeOK, NEW c \in Callers, Return(c), call[c].at \notin Joining
    PROVE  SameJoins
  BY SameJoinUpdate DEF Return, Idle, Joining

LEMMA SameJoinGoto ==
    ASSUME TypeOK, NEW c \in Callers, NEW p, Goto(c, p), p \notin Joining,
           call[c].at \notin Joining
    PROVE  SameJoins
  <1>1. [call[c] EXCEPT !.at = p].at = p
    BY DEF TypeOK, Calls
  <1>2. QED
    BY <1>1, SameJoinUpdate DEF Goto

\* Whoever is about to join a thread has one.
LEMMA JoiningJob ==
    ASSUME TypeOK, OwnerInv, JoinsAreSafe, NEW c \in Callers, call[c].at \in Joining
    PROVE  /\ call[c].job \in JobIds /\ Joinable(call[c].job)
           /\ job[call[c].job].config_id # NoConfig
  <1>1. CASE call[c].at = "join_cancelled"
    BY <1>1, HeldJob, ConstantsAssumption DEF JoinsAreSafe, Holding
  <1>2. CASE call[c].at \in {"join_failed", "drain_join"}
    BY <1>2, ConstantsAssumption DEF JoinsAreSafe, OwnerInv, SlotsOfConfig, JobIds, NoJob
  <1>3. QED
    BY <1>1, <1>2 DEF Joining

LEMMA ThreadsKept ==
    ASSUME TypeOK, OwnerInv, ThreadsHeld, SameThreads, SameJoins, UNCHANGED <<current, reserved>>
    PROVE  ThreadsHeld'
  <1>1. \A g \in JobIds : Joinable(g)' <=> Joinable(g)
    BY DEF SameThreads, SameThread, Joinable
  <1>2. \A c \in Callers : call[c].at \in Joining => call[c].job \in JobIds
    BY JoiningJob DEF ThreadsHeld
  <1>3. ThreadsAreOwned'
    BY <1>1 DEF ThreadsHeld, ThreadsAreOwned, SameJoins, SameJoin, Joining
  <1>4. JoinsAreSafe'
    BY <1>1, <1>2 DEF ThreadsHeld, JoinsAreSafe, SameJoins, SameJoin, Joining,
                      SameThreads, SameThread
  <1>5. QED
    BY <1>3, <1>4 DEF ThreadsHeld

\* The generation a caller holds is in one slot, and in no other.
LEMMA HeldAlone ==
    ASSUME TypeOK, OwnerInv, NEW c \in Callers, call[c].at \in Holding
    PROVE  /\ \A k \in Configs : current[k] # call[c].job
           /\ \A k \in Configs \ {call[c].config} : reserved[k] # call[c].job
           /\ call[c].job # NoJob /\ job[call[c].job].config_id # NoConfig
  <1>1. /\ call[c].config \in Configs /\ call[c].job \in JobIds
        /\ reserved[call[c].config] = call[c].job
        /\ job[call[c].job].config_id = call[c].config
        /\ current[call[c].config] # call[c].job /\ call[c].job # NoJob
    BY HeldJob, ConstantsAssumption DEF JobIds, NoJob
  <1>2. QED
    BY <1>1, ConstantsAssumption DEF OwnerInv, SlotsOfConfig

\* A start that is admitted reaps its predecessor and leaves every other thread alone.
LEMMA AdmittedThreads ==
    ASSUME TypeOK, OwnerInv, DrainsAlone, ThreadsHeld, NEW k \in Configs, StartAdmissible(k),
           NEW n, \A l \in Configs : current[l] # n \/ n = NoJob,
           n \in JobIds => job[n].config_id = NoConfig,
           \A g \in JobIds \ {n} : job'[g] = ReapPrevious(k)[g],
           n \in JobIds /\ Joinable(n)' => reserved'[k] = n,
           reserved'[k] \in {NoJob, n}, current'[k] \in {current[k], n},
           \A l \in Configs \ {k} : reserved'[l] = reserved[l] /\ current'[l] = current[l],
           \A d \in Callers : call'[d].at \in Joining => call'[d] = call[d],
           \A d \in Callers : call[d].at \in Joining => call'[d] = call[d]
    PROVE  ThreadsHeld'
  <1>1. accepting /\ reserved[k] = NoJob
    BY DEF StartAdmissible
  <1>2. ASSUME NEW g \in JobIds \ {n}
        PROVE  /\ g # current[k] => job'[g] = job[g]
               /\ g = current[k] => ~Joinable(g)'
    <2>1. g # NoJob /\ job[g] \in Jobs
      BY ConstantsAssumption DEF JobIds, NoJob, TypeOK
    <2>2. CASE g # current[k]
      BY <2>2 DEF ReapPrevious, TypeOK
    <2>3. CASE g = current[k] /\ Joinable(g)
      BY <2>1, <2>3 DEF ReapPrevious, Joinable, TypeOK, Jobs
    <2>4. CASE g = current[k] /\ ~Joinable(g)
      BY <2>1, <2>4 DEF ReapPrevious, Joinable, TypeOK
    <2>5. QED
      BY <2>2, <2>3, <2>4
  <1>3. ASSUME NEW g \in JobIds, Joinable(g)'
        PROVE  \/ \E l \in Configs : reserved'[l] = g
               \/ \E l \in Configs : current'[l] = g /\ reserved'[l] = NoJob
               \/ \E c \in Callers : call'[c].at = "join_failed" /\ call'[c].job = g
    <2>1. CASE g = n
      BY <1>3, <2>1
    <2>2. CASE g # n
      <3>1. g # current[k] /\ Joinable(g)
        BY <1>2, <1>3, <2>2 DEF Joinable
      <3>2. CASE \E l \in Configs : reserved[l] = g
        BY <1>1, <3>2, ConstantsAssumption DEF JobIds, NoJob
      <3>3. CASE \E l \in Configs : current[l] = g /\ reserved[l] = NoJob
        BY <3>1, <3>3
      <3>4. CASE \E c \in Callers : call[c].at = "join_failed" /\ call[c].job = g
        BY <3>4 DEF Joining
      <3>5. QED
        BY <3>1, <3>2, <3>3, <3>4 DEF ThreadsHeld, ThreadsAreOwned
    <2>3. QED
      BY <2>1, <2>2
  <1>4. ASSUME NEW d \in Callers, call'[d].at \in Joining
        PROVE  /\ call'[d] = call[d] /\ call[d].at \in {"join_cancelled", "join_failed"}
               /\ call[d].job \in JobIds /\ job'[call[d].job] = job[call[d].job]
               /\ call[d].job # n
    <2>1. call'[d] = call[d] /\ call[d].at \in {"join_cancelled", "join_failed"}
      BY <1>1, <1>4 DEF DrainsAlone, Draining, Joining
    <2>2. call[d].job \in JobIds /\ job[call[d].job].config_id # NoConfig
      BY <2>1, JoiningJob DEF Joining, ThreadsHeld
    <2>3. call[d].job # current[k]
      BY <2>1, HeldAlone DEF Holding, ThreadsHeld, JoinsAreSafe
    <2>4. QED
      BY <1>2, <2>1, <2>2, <2>3
  <1>5. JoinsAreSafe'
    BY <1>1, <1>4, ConstantsAssumption
       DEF ThreadsHeld, JoinsAreSafe, Joining, Joinable, JobIds, NoJob
  <1>6. QED
    BY <1>3, <1>5 DEF ThreadsHeld, ThreadsAreOwned

LEMMA PrepareStartThreads ==
    ASSUME TypeOK, OwnerInv, DrainsAlone, ThreadsHeld, NEW c \in Callers, NEW k \in Configs,
           NEW kind \in BackendKinds, NEW now \in ClockReadings, PrepareStart(c, k, kind, now)
    PROVE  ThreadsHeld'
  <1>1. TakeGeneration /\ StartAdmissible(k)
    BY DEF PrepareStart
  <1>2. PICK n \in JobIds : n = next_job_generation
    BY <1>1, FreshGeneration
  <1>3. job[n].config_id = NoConfig /\ \A l \in Configs : current[l] # n
    BY <1>1, <1>2, FreshGeneration
  <1>4. \A g \in JobIds \ {n} : job'[g] = ReapPrevious(k)[g]
    BY <1>2 DEF PrepareStart, ReapPrevious, TypeOK
  <1>5. /\ reserved'[k] = n /\ UNCHANGED current
        /\ \A l \in Configs \ {k} : reserved'[l] = reserved[l]
    BY <1>2 DEF PrepareStart, TypeOK
  <1>6. /\ call'[c].at \notin Joining /\ call[c].at \notin Joining
        /\ \A d \in Callers \ {c} : call'[d] = call[d]
    BY DEF PrepareStart, At, Idle, Joining, TypeOK
  <1>7. QED
    BY <1>1, <1>3, <1>4, <1>5, <1>6, AdmittedThreads

LEMMA ThreadStartFailedThreads ==
    ASSUME TypeOK, OwnerInv, DrainsAlone, ThreadsHeld, NEW c \in Callers, NEW k \in Configs,
           NEW publish \in BOOLEAN, NEW now \in ClockReadings, NEW later \in ClockReadings,
           ThreadStartFailed(c, k, publish, now, later)
    PROVE  ThreadsHeld'
  <1>1. TakeGeneration /\ StartAdmissible(k)
    BY DEF ThreadStartFailed
  <1>2. PICK n \in JobIds : n = next_job_generation
    BY <1>1, FreshGeneration
  <1>3. job[n].config_id = NoConfig /\ \A l \in Configs : current[l] # n
    BY <1>1, <1>2, FreshGeneration
  <1>4. /\ \A g \in JobIds \ {n} : job'[g] = ReapPrevious(k)[g]
        /\ ~Joinable(n)'
    BY <1>2 DEF ThreadStartFailed, ReapPrevious, NewJob, Unborn, Joinable, TypeOK
  <1>5. /\ reserved'[k] = NoJob /\ UNCHANGED <<reserved, call>>
        /\ current'[k] \in {current[k], n}
        /\ \A l \in Configs \ {k} : current'[l] = current[l]
    BY <1>1, <1>2 DEF ThreadStartFailed, StartAdmissible, TypeOK
  <1>6. QED
    BY <1>1, <1>3, <1>4, <1>5, AdmittedThreads

LEMMA StartExhaustedThreads ==
    ASSUME TypeOK, OwnerInv, DrainsAlone, ThreadsHeld, NEW c \in Callers, NEW k \in Configs,
           StartExhausted(c, k)
    PROVE  ThreadsHeld'
  <1>1. /\ StartAdmissible(k) /\ UNCHANGED <<reserved, current, call>> /\ reserved[k] = NoJob
        /\ \A g \in JobIds : job'[g] = ReapPrevious(k)[g]
    BY DEF StartExhausted, StartAdmissible, slots
  <1>2. NoJob \notin JobIds
    BY ConstantsAssumption DEF JobIds, NoJob
  <1>3. QED
    BY <1>1, <1>2, AdmittedThreads

\* The slot is given back, and the thread is left to the caller whose start failed.
LEMMA PreparationFailedThreads ==
    ASSUME TypeOK, OwnerInv, ThreadsHeld, NEW c \in Callers, PreparationFailed(c)
    PROVE  ThreadsHeld'
  <1>1. /\ call[c].at = "await_preparation" /\ Exited(call[c].job) /\ UNCHANGED <<job, current>>
        /\ reserved' = [reserved EXCEPT ![call[c].config] = NoJob]
    BY DEF PreparationFailed, At
  <1>2. /\ call'[c].at = "join_failed" /\ call'[c].job = call[c].job
        /\ \A d \in Callers \ {c} : call'[d] = call[d]
    BY DEF PreparationFailed, Goto, TypeOK, Calls
  <1>3. PICK g \in JobIds, k \in Configs : g = call[c].job /\ k = call[c].config
    BY <1>1, HeldJob DEF Holding
  <1>4. /\ reserved[k] = g /\ job[g].gate = "pending" /\ job[g].config_id # NoConfig /\ g # NoJob
        /\ \A l \in Configs : current[l] # g
        /\ \A l \in Configs \ {k} : reserved[l] # g
    BY <1>1, <1>3, HeldJob, HeldAlone DEF Holding
  <1>5. reserved'[k] = NoJob /\ \A l \in Configs \ {k} : reserved'[l] = reserved[l]
    BY <1>1, <1>3 DEF TypeOK
  <1>6. Joinable(g)
    BY <1>1, <1>3 DEF Exited, Joinable
  <1>7. \A h \in JobIds : Joinable(h)' <=> Joinable(h)
    BY <1>1 DEF Joinable
  <1>8. ThreadsAreOwned'
    <2>1. \A h \in JobIds : (\E l \in Configs : reserved[l] = h) =>
             h = g \/ \E l \in Configs : reserved'[l] = h
      BY <1>4, <1>5
    <2>2. \A h \in JobIds : (\E l \in Configs : current[l] = h /\ reserved[l] = NoJob) =>
             \E l \in Configs : current'[l] = h /\ reserved'[l] = NoJob
      BY <1>1, <1>5
    <2>3. \A h \in JobIds : (\E d \in Callers : call[d].at = "join_failed" /\ call[d].job = h) =>
             \E d \in Callers : call'[d].at = "join_failed" /\ call'[d].job = h
      BY <1>1, <1>2
    <2>4. QED
      BY <1>2, <1>3, <1>7, <2>1, <2>2, <2>3 DEF ThreadsHeld, ThreadsAreOwned
  <1>9. JoinsAreSafe'
    <2>1. \A d \in Callers : call[d].at = "join_failed" => call[d].job # g
      BY <1>3, <1>4 DEF ThreadsHeld, JoinsAreSafe
    <2>2. \A d \in Callers : call[d].at = "join_failed" => call[d].job # NoJob
      BY ConstantsAssumption DEF ThreadsHeld, JoinsAreSafe, JobIds, NoJob
    <2>3. \A d \in Callers \ {c} : call[d].at = "join_failed" =>
             \A l \in Configs : reserved'[l] # call[d].job /\ current'[l] # call[d].job
      BY <1>1, <1>5, <2>2 DEF ThreadsHeld, JoinsAreSafe
    <2>4. \A l \in Configs : reserved'[l] # g /\ current'[l] # g
      BY <1>1, <1>4, <1>5
    <2>5. \A d \in Callers \ {c} : call[d].at = "join_cancelled" => Joinable(call[d].job)'
      BY <1>1, <1>2 DEF ThreadsHeld, JoinsAreSafe, Joinable
    <2>6. \A d \in Callers \ {c} : call[d].at \in {"join_failed", "drain_join"} =>
             /\ call[d].job \in JobIds /\ Joinable(call[d].job)'
      BY <1>1, <1>2 DEF ThreadsHeld, JoinsAreSafe, Joinable
    <2>7. QED
      BY <1>1, <1>2, <1>3, <1>4, <1>6, <1>7, <2>1, <2>3, <2>4, <2>5, <2>6
         DEF ThreadsHeld, JoinsAreSafe
  <1>10. QED
    BY <1>8, <1>9 DEF ThreadsHeld

\* One caller joins the thread of g, which no other caller is about to join.
LEMMA JoinThreads ==
    ASSUME TypeOK, OwnerInv, ThreadsHeld, NEW c \in Callers, call'[c].at \notin Joining,
           OnlyCaller(c), call[c].at \in Joining, NEW g \in JobIds, g = call[c].job,
           job' = [job EXCEPT ![g].worker = "joined"], UNCHANGED current,
           \A k \in Configs : reserved'[k] \in {reserved[k], NoJob},
           \A k \in Configs : reserved'[k] = reserved[k] \/ reserved[k] = g,
           \A d \in Callers \ {c} : call[d].at \in Joining => call[d].job # g
    PROVE  ThreadsHeld'
  <1>1. /\ job'[g] = [job[g] EXCEPT !.worker = "joined"]
        /\ \A h \in JobIds \ {g} : job'[h] = job[h]
    BY DEF TypeOK
  <1>2. ~Joinable(g)' /\ \A h \in JobIds \ {g} : Joinable(h)' <=> Joinable(h)
    BY <1>1 DEF Joinable, TypeOK, Jobs
  <1>3. ThreadsAreOwned'
    <2>1. SUFFICES ASSUME NEW h \in JobIds \ {g}, Joinable(h)
                   PROVE  \/ \E k \in Configs : reserved'[k] = h
                          \/ \E k \in Configs : current'[k] = h /\ reserved'[k] = NoJob
                          \/ \E d \in Callers : call'[d].at = "join_failed" /\ call'[d].job = h
      BY <1>2 DEF ThreadsAreOwned
    <2>2. CASE \E k \in Configs : reserved[k] = h
      BY <2>1, <2>2
    <2>3. CASE \E k \in Configs : current[k] = h /\ reserved[k] = NoJob
      BY <2>3
    <2>4. CASE \E d \in Callers : call[d].at = "join_failed" /\ call[d].job = h
      BY <2>1, <2>4 DEF OnlyCaller
    <2>5. QED
      BY <2>1, <2>2, <2>3, <2>4 DEF ThreadsHeld, ThreadsAreOwned
  <1>4. ASSUME NEW d \in Callers, call'[d].at \in Joining
        PROVE  /\ d # c /\ call'[d] = call[d] /\ call[d].job \in JobIds
               /\ call[d].job # NoJob
               /\ Joinable(call[d].job)' /\ job'[call[d].job] = job[call[d].job]
    <2>1. d # c /\ call'[d] = call[d] /\ call[d].job # g
      BY <1>4 DEF OnlyCaller
    <2>2. call[d].job \in JobIds /\ Joinable(call[d].job) /\ call[d].job # NoJob
      BY <1>4, <2>1, JoiningJob, ConstantsAssumption DEF ThreadsHeld, JobIds, NoJob
    <2>3. QED
      BY <1>1, <1>2, <2>1, <2>2
  <1>5. JoinsAreSafe'
    <2>1. ASSUME NEW d \in Callers, call'[d].at = "join_failed"
          PROVE  /\ job'[call'[d].job].gate = "pending" /\ job'[call'[d].job].config_id # NoConfig
                 /\ \A k \in Configs : reserved'[k] # call'[d].job /\ current'[k] # call'[d].job
                 /\ \A e \in Callers \ {d} :
                       call'[e].at = "join_failed" => call'[e].job # call'[d].job
      BY <1>4, <2>1 DEF ThreadsHeld, JoinsAreSafe, Joining
    <2>2. ASSUME NEW d \in Callers, call'[d].at = "drain_join"
          PROVE  \E k \in Configs : current'[k] = call'[d].job
      BY <1>4, <2>2 DEF ThreadsHeld, JoinsAreSafe, Joining
    <2>3. QED
      BY <1>4, <2>1, <2>2 DEF JoinsAreSafe, Joining
  <1>6. QED
    BY <1>3, <1>5 DEF ThreadsHeld

\* Nobody else is about to join the thread that somebody is about to join.
LEMMA JoinsApart ==
    ASSUME TypeOK, OwnerInv, DrainsAlone, JoinsAreSafe, NEW c \in Callers, NEW d \in Callers,
           c # d, call[c].at \in Joining, call[d].at \in Joining
    PROVE  call[c].job # call[d].job
  <1>1. CASE call[c].at = "join_cancelled" /\ call[d].at = "join_cancelled"
    BY <1>1 DEF OwnerInv, OneHolder, Holding
  <1>2. CASE call[c].at = "join_failed" \/ call[d].at = "join_failed"
    BY <1>2, HeldJob DEF JoinsAreSafe, Joining, Holding
  <1>3. CASE call[c].at = "drain_join" /\ call[d].at = "drain_join"
    BY <1>3 DEF DrainsAlone, Draining
  <1>4. CASE \/ call[c].at = "join_cancelled" /\ call[d].at = "drain_join"
             \/ call[d].at = "join_cancelled" /\ call[c].at = "drain_join"
    BY <1>4, HeldAlone DEF JoinsAreSafe, Holding
  <1>5. QED
    BY <1>1, <1>2, <1>3, <1>4 DEF Joining

\* The reservation becomes the current generation of its slot, thread and all.
LEMMA CommitStartThreads ==
    ASSUME TypeOK, OwnerInv, AccountsInv, DrainsAlone, ThreadsHeld, NEW c \in Callers,
           NEW now \in ClockReadings, CommitStart(c, now)
    PROVE  ThreadsHeld'
  <1>1. call[c].at = "start_held"
    BY DEF CommitStart, At
  <1>2. PICK g \in JobIds, k \in Configs : g = call[c].job /\ k = call[c].config
    BY <1>1, HeldJob DEF Holding
  <1>3. /\ reserved[k] = g /\ g # NoJob
        /\ \A l \in Configs : current[l] # g
        /\ \A l \in Configs \ {k} : reserved[l] # g
    BY <1>1, <1>2, HeldJob, HeldAlone DEF Holding
  <1>4. /\ reserved'[k] = NoJob /\ \A l \in Configs \ {k} : reserved'[l] = reserved[l]
        /\ current'[k] = g /\ \A l \in Configs \ {k} : current'[l] = current[l]
    BY <1>2 DEF CommitStart, TypeOK
  <1>5. \A h \in JobIds : SameThread(job[h], job'[h])
    BY <1>2 DEF CommitStart, Stopping, SameThread, TypeOK, Jobs
  <1>6. \A h \in JobIds : Joinable(h)' <=> Joinable(h)
    BY <1>5 DEF SameThread, Joinable
  <1>7. /\ call'[c].at \notin Joining /\ call[c].at \notin Joining
        /\ \A d \in Callers \ {c} : call'[d] = call[d]
    BY <1>1 DEF CommitStart, Goto, Joining, TypeOK, Calls
  <1>8. ThreadsAreOwned'
    <2>1. SUFFICES ASSUME NEW h \in JobIds, Joinable(h)
                   PROVE  \/ \E l \in Configs : reserved'[l] = h
                          \/ \E l \in Configs : current'[l] = h /\ reserved'[l] = NoJob
                          \/ \E d \in Callers : call'[d].at = "join_failed" /\ call'[d].job = h
      BY <1>6 DEF ThreadsAreOwned
    <2>2. CASE \E l \in Configs : reserved[l] = h
      BY <1>3, <1>4, <2>2
    <2>3. CASE \E l \in Configs : current[l] = h /\ reserved[l] = NoJob
      BY <1>3, <1>4, <2>3
    <2>4. CASE \E d \in Callers : call[d].at = "join_failed" /\ call[d].job = h
      BY <1>7, <2>4 DEF Joining
    <2>5. QED
      BY <2>1, <2>2, <2>3, <2>4 DEF ThreadsHeld, ThreadsAreOwned
  <1>9. ASSUME NEW d \in Callers, call'[d].at \in Joining
        PROVE  /\ d # c /\ call'[d] = call[d] /\ call[d].job \in JobIds /\ call[d].job # NoJob
               /\ Joinable(call[d].job) /\ call[d].at \in {"join_cancelled", "join_failed"}
    <2>1. d # c /\ call'[d] = call[d] /\ call[d].at \in Joining
      BY <1>7, <1>9
    <2>2. call[d].job \in JobIds /\ Joinable(call[d].job) /\ call[d].job # NoJob
      BY <2>1, JoiningJob, ConstantsAssumption DEF ThreadsHeld, JobIds, NoJob
    <2>3. active_reservations # 0
      BY <1>1, HolderIsCounted DEF Holding
    <2>4. call[d].at # "drain_join"
      BY <2>3 DEF DrainsAlone
    <2>5. QED
      BY <2>1, <2>2, <2>4 DEF Joining
  <1>10. JoinsAreSafe'
    <2>1. ASSUME NEW d \in Callers, call'[d].at = "join_failed"
          PROVE  /\ job'[call'[d].job].gate = "pending" /\ job'[call'[d].job].config_id # NoConfig
                 /\ \A l \in Configs : reserved'[l] # call'[d].job /\ current'[l] # call'[d].job
                 /\ \A e \in Callers \ {d} :
                       call'[e].at = "join_failed" => call'[e].job # call'[d].job
      <3>1. /\ call'[d] = call[d] /\ call[d].job \in JobIds /\ call[d].job # NoJob
            /\ SameThread(job[call[d].job], job'[call[d].job])
        BY <1>5, <1>9, <2>1 DEF Joining
      <3>2. call[d].job # g
        BY <1>3, <2>1, <3>1 DEF ThreadsHeld, JoinsAreSafe
      <3>3. \A e \in Callers : call'[e].at = "join_failed" => call'[e] = call[e]
        BY <1>9 DEF Joining
      <3>4. QED
        BY <1>4, <2>1, <3>1, <3>2, <3>3 DEF ThreadsHeld, JoinsAreSafe, SameThread
    <2>2. QED
      BY <1>6, <1>9, <2>1 DEF JoinsAreSafe, Joining
  <1>11. QED
    BY <1>8, <1>10 DEF ThreadsHeld

\* A gate is resolved by the caller that holds its generation.
LEMMA GateThreads ==
    ASSUME TypeOK, OwnerInv, ThreadsHeld, NEW c \in Callers, NEW g \in JobIds, NEW gate,
           job' = [job EXCEPT ![g].gate = gate], g = call[c].job, OnlyCaller(c),
           call[c].at \notin Joining, UNCHANGED <<current, reserved>>,
           \/ call'[c].at \notin Joining
           \/ call'[c].at = "join_cancelled" /\ call'[c].job = g /\ Joinable(g),
           \E k \in Configs : reserved[k] = g \/ current[k] = g
    PROVE  ThreadsHeld'
  <1>1. \A h \in JobIds : /\ job'[h].worker = job[h].worker
                          /\ job'[h].config_id = job[h].config_id
                          /\ h # g => job'[h].gate = job[h].gate
    BY DEF TypeOK, Jobs
  <1>2. \A h \in JobIds : Joinable(h)' <=> Joinable(h)
    BY <1>1 DEF Joinable
  <1>3. ThreadsAreOwned'
    BY <1>2 DEF ThreadsHeld, ThreadsAreOwned, OnlyCaller, Joining
  <1>4. JoinsAreSafe'
    <2>1. \A d \in Callers : call[d].at = "join_failed" => call[d].job # g
      BY DEF ThreadsHeld, JoinsAreSafe
    <2>2. \A d \in Callers : call[d].at \in Joining => call[d].job \in JobIds
      BY JoiningJob DEF ThreadsHeld
    <2>3. QED
      BY <1>1, <1>2, <2>1, <2>2 DEF ThreadsHeld, JoinsAreSafe, OnlyCaller, Joining
  <1>5. QED
    BY <1>3, <1>4 DEF ThreadsHeld

\* The drain picks the thread of a current generation.
LEMMA DrainPickThreads ==
    ASSUME TypeOK, OwnerInv, ThreadsHeld, NEW c \in Callers, NEW k \in Configs, DrainPick(c, k)
    PROVE  ThreadsHeld'
  <1>1. PICK g \in JobIds : g = current[k] /\ Joinable(g)
    BY SlotTypes DEF DrainPick
  <1>2. /\ UNCHANGED <<job, current, reserved>> /\ call[c].at = "drain"
        /\ call'[c].at = "drain_join" /\ call'[c].job = g
        /\ \A d \in Callers \ {c} : call'[d] = call[d]
    BY <1>1 DEF DrainPick, At, TypeOK, Calls, slots
  <1>3. \A h : Joinable(h)' <=> Joinable(h)
    BY <1>2 DEF Joinable
  <1>4. ThreadsAreOwned'
    BY <1>2, <1>3 DEF ThreadsHeld, ThreadsAreOwned
  <1>5. JoinsAreSafe'
    BY <1>1, <1>2, <1>3 DEF ThreadsHeld, JoinsAreSafe
  <1>6. QED
    BY <1>4, <1>5 DEF ThreadsHeld

\* Resolving a stop changes no thread.
LEMMA ResolvedThreads ==
    ASSUME TypeOK, NEW c \in Callers, NEW commit \in BOOLEAN, NEW now \in ClockReadings,
           call[c].at \in Held, Resolved(c, commit, now)
    PROVE  SameThreads /\ SameJoins
  <1>1. ASSUME NEW g \in JobIds
        PROVE  /\ SameThread(job[g], CommittedJob(c, g, now))
               /\ SameThread(job[g], AbortedJob(g, now))
    <2>1. job[g] \in Jobs
      BY DEF TypeOK
    <2>2. QED
      BY <2>1 DEF SameThread, CommittedJob, AbortedJob, StoppingAt,
                  publish_pending_progress, discard_pending_progress, Jobs
  <1>2. SameThreads
    BY <1>1, SameThreadItself DEF Resolved, SameThreads
  <1>3. /\ Idle.at \notin Joining /\ call[c].at \notin Joining
        /\ [Idle EXCEPT !.at = "deliver", !.captured = Transitions(c)].at \notin Joining
    BY DEF Idle, Joining, Held
  <1>4. SameJoins
    BY <1>3, SameJoinUpdate DEF Resolved
  <1>5. QED
    BY <1>2, <1>4

LEMMA ThreadsHeldStep ==
    TypeOK /\ OwnerInv /\ LifeInv /\ AccountsInv /\ ThreadsInv /\ [Next]_vars => ThreadsHeld'
  <1>. SUFFICES ASSUME TypeOK, OwnerInv, LifeInv, AccountsInv, ThreadsInv, [Next]_vars
                PROVE  ThreadsHeld'
    OBVIOUS
  <1>. ThreadsHeld /\ DrainsAlone
    BY DEF ThreadsInv, ThreadsHeld
  <1>1. ASSUME NEW c \in Callers, NEW k \in Configs, NEW kind \in BackendKinds,
               NEW now \in ClockReadings,
               PrepareStart(c, k, kind, now)
        PROVE  ThreadsHeld'
    BY <1>1, PrepareStartThreads
  <1>2. ASSUME NEW c \in Callers, NEW k \in Configs,
               StartExhausted(c, k)
        PROVE  ThreadsHeld'
    BY <1>2, StartExhaustedThreads
  <1>3. ASSUME NEW c \in Callers, NEW k \in Configs, NEW publish \in BOOLEAN,
               NEW now \in ClockReadings, NEW later \in ClockReadings,
               ThreadStartFailed(c, k, publish, now, later)
        PROVE  ThreadsHeld'
    BY <1>3, ThreadStartFailedThreads
  <1>4. ASSUME NEW c \in Callers,
               PreparationSucceeded(c)
        PROVE  ThreadsHeld'
    <2>1. SameThreads
      BY <1>4, ThreadsSame DEF PreparationSucceeded
    <2>2. SameJoins
      BY <1>4, SameJoinGoto DEF PreparationSucceeded, At, Joining
    <2>3. QED
      BY <1>4, <2>1, <2>2, ThreadsKept DEF PreparationSucceeded, slots
  <1>5. ASSUME NEW c \in Callers,
               PreparationFailed(c)
        PROVE  ThreadsHeld'
    BY <1>5, PreparationFailedThreads
  <1>6. ASSUME NEW c \in Callers,
               JoinFailed(c)
        PROVE  ThreadsHeld'
    <2>1. call[c].at \in Joining
      BY <1>6 DEF JoinFailed, At, Joining
    <2>2. call'[c].at \notin Joining /\ OnlyCaller(c)
      BY <1>6 DEF JoinFailed, Return, Idle, Joining, OnlyCaller, TypeOK, Calls
    <2>3. PICK g \in JobIds : g = call[c].job
      BY <1>6, <2>1, JoiningJob DEF ThreadsHeld
    <2>4. \A d \in Callers \ {c} : call[d].at \in Joining => call[d].job # g
      BY <1>6, <2>1, <2>3, JoinsApart DEF ThreadsHeld
    <2>5. /\ \A k \in Configs : reserved'[k] \in {reserved[k], NoJob}
          /\ \A k \in Configs : reserved'[k] = reserved[k] \/ reserved[k] = g
      BY <1>6 DEF JoinFailed, slots
    <2>6. job' = [job EXCEPT ![g].worker = "joined"] /\ UNCHANGED current
      BY <1>6, <2>3 DEF JoinFailed, slots
    <2>7. QED
      BY <1>6, <2>1, <2>2, <2>3, <2>4, <2>5, <2>6, JoinThreads
  <1>7. ASSUME NEW c \in Callers, NEW now \in ClockReadings,
               CommitStart(c, now)
        PROVE  ThreadsHeld'
    BY <1>7, CommitStartThreads
  <1>8. ASSUME NEW c \in Callers,
               StopBeforeRelease(c)
        PROVE  ThreadsHeld'
    <2>1. SameThreads
      BY <1>8, SameThreadRaise DEF StopBeforeRelease
    <2>2. SameJoins
      BY <1>8, SameJoinGoto DEF StopBeforeRelease, At, Joining
    <2>3. QED
      BY <1>8, <2>1, <2>2, ThreadsKept DEF StopBeforeRelease, slots
  <1>9. ASSUME NEW c \in Callers,
               ReleaseGate(c)
        PROVE  ThreadsHeld'
    <2>1. PICK g \in JobIds : g = call[c].job
      BY <1>9, CommittingJob DEF ReleaseGate, At, Committing
    <2>2. \E k \in Configs : current[k] = g
      BY <1>9, <2>1, CommittingJob DEF ReleaseGate, At, Committing
    <2>3. call[c].at \notin Joining /\ call'[c].at \notin Joining /\ OnlyCaller(c)
      BY <1>9 DEF ReleaseGate, Return, Idle, At, Joining, OnlyCaller, TypeOK
    <2>4. QED
      BY <1>9, <2>1, <2>2, <2>3, GateThreads DEF ReleaseGate, slots
  <1>10. ASSUME NEW c \in Callers,
                CancelStart(c)
         PROVE  ThreadsHeld'
    <2>1. PICK g \in JobIds : g = call[c].job
      BY <1>10, HeldJob DEF CancelStart, At, Holding
    <2>2. \E k \in Configs : reserved[k] = g
      BY <1>10, <2>1, HeldJob DEF CancelStart, At, Holding
    <2>3. Joinable(g)
      BY <1>10, <2>1 DEF CancelStart, At, LifeInv, HeldIsGated, Joinable
    <2>4. /\ call[c].at \notin Joining /\ OnlyCaller(c)
          /\ call'[c].at = "join_cancelled" /\ call'[c].job = g
      BY <1>10, <2>1 DEF CancelStart, Goto, At, Joining, OnlyCaller, TypeOK, Calls
    <2>5. QED
      BY <1>10, <2>1, <2>2, <2>3, <2>4, GateThreads DEF CancelStart, slots
  <1>11. ASSUME NEW c \in Callers,
                JoinCancelled(c)
         PROVE  ThreadsHeld'
    <2>1. call[c].at \in Joining
      BY <1>11 DEF JoinCancelled, At, Joining
    <2>2. call'[c].at \notin Joining /\ OnlyCaller(c)
      BY <1>11 DEF JoinCancelled, Return, Idle, Joining, OnlyCaller, TypeOK, Calls
    <2>3. PICK g \in JobIds : g = call[c].job
      BY <1>11, <2>1, JoiningJob DEF ThreadsHeld
    <2>4. \A d \in Callers \ {c} : call[d].at \in Joining => call[d].job # g
      BY <1>11, <2>1, <2>3, JoinsApart DEF ThreadsHeld
    <2>5. /\ \A k \in Configs : reserved'[k] \in {reserved[k], NoJob}
          /\ \A k \in Configs : reserved'[k] = reserved[k] \/ reserved[k] = g
      BY <1>11, <2>3, HeldJob DEF JoinCancelled, slots, At, Holding, TypeOK
    <2>6. job' = [job EXCEPT ![g].worker = "joined"] /\ UNCHANGED current
      BY <1>11, <2>3 DEF JoinCancelled, slots
    <2>7. QED
      BY <1>11, <2>1, <2>2, <2>3, <2>4, <2>5, <2>6, JoinThreads
  <1>12. ASSUME NEW g \in JobIds, NEW ok \in BOOLEAN,
                Prepare(g, ok)
         PROVE  ThreadsHeld'
    <2>1. SameThread(job[g], [job[g] EXCEPT !.worker = IF ok THEN "gated" ELSE "exited"])
      BY <1>12 DEF Prepare, SameThread, TypeOK, Jobs
    <2>2. SameThreads
      BY <1>12, <2>1, SameThreadUpdate DEF Prepare
    <2>3. SameJoins
      BY <1>12, JoinsSame DEF Prepare
    <2>4. QED
      BY <1>12, <2>2, <2>3, ThreadsKept DEF Prepare, slots
  <1>13. ASSUME NEW g \in JobIds,
                PassGate(g)
         PROVE  ThreadsHeld'
    <2>1. SameThread(job[g], [job[g] EXCEPT !.worker =
             IF job[g].gate = "committed" THEN "running" ELSE "exited"])
      BY <1>13 DEF PassGate, SameThread, TypeOK, Jobs
    <2>2. SameThreads
      BY <1>13, <2>1, SameThreadUpdate DEF PassGate
    <2>3. SameJoins
      BY <1>13, JoinsSame DEF PassGate
    <2>4. QED
      BY <1>13, <2>2, <2>3, ThreadsKept DEF PassGate, slots
  <1>14. ASSUME NEW g \in JobIds, NEW now \in ClockReadings,
                Report(g, now)
         PROVE  ThreadsHeld'
    <2>1. SameThread(job[g], Stage(job[g])) /\ SameThread(job[g], Publish(job[g], now))
      BY <1>14 DEF SameThread, Stage, Publish, TypeOK, Jobs
    <2>2. SameThreads
      BY <1>14, <2>1, SameThreadUpdate DEF Report
    <2>3. SameJoins
      BY <1>14, JoinsSame DEF Report
    <2>4. QED
      BY <1>14, <2>2, <2>3, ThreadsKept DEF Report, slots
  <1>15. ASSUME NEW g \in JobIds, NEW now \in ClockReadings,
                Finish(g, now)
         PROVE  ThreadsHeld'
    <2>1. SameThread(job[g], Terminal(job[g], now))
      BY <1>15 DEF Finish, SameThread, Terminal, TypeOK, Jobs
    <2>2. SameThreads
      BY <1>15, <2>1, SameThreadUpdate DEF Finish
    <2>3. SameJoins
      BY <1>15, JoinsSame DEF Finish
    <2>4. QED
      BY <1>15, <2>2, <2>3, ThreadsKept DEF Finish, slots
  <1>16. ASSUME NEW c \in Callers, NEW k \in Configs, NEW now \in ClockReadings,
                PrepareStop(c, k, now)
         PROVE  ThreadsHeld'
    <2>1. \A x, y, z, w : [Idle EXCEPT !.at = "stop_held", !.config = w,
             !.captured = x, !.running = y, !.stamp = z].at \notin Joining
      BY <1>16 DEF Idle, Joining
    <2>2. SameThreads
      BY <1>16, ThreadsSame DEF PrepareStop
    <2>3. SameJoins
      BY <1>16, <2>1, SameJoinUpdate DEF PrepareStop, Capture, At, Joining
    <2>4. QED
      BY <1>16, <2>2, <2>3, ThreadsKept DEF PrepareStop, slots
  <1>17. ASSUME NEW c \in Callers, NEW now \in ClockReadings,
                PrepareStopAll(c, now)
         PROVE  ThreadsHeld'
    <2>1. \A x, y, z, w : [Idle EXCEPT !.at = "stop_all_held", !.config = w,
             !.captured = x, !.running = y, !.stamp = z].at \notin Joining
      BY <1>17 DEF Idle, Joining
    <2>2. SameThreads
      BY <1>17, ThreadsSame DEF PrepareStopAll
    <2>3. SameJoins
      BY <1>17, <2>1, SameJoinUpdate DEF PrepareStopAll, Capture, At, Joining
    <2>4. QED
      BY <1>17, <2>2, <2>3, ThreadsKept DEF PrepareStopAll, slots
  <1>18. ASSUME NEW c \in Callers, NEW commit \in BOOLEAN, NEW now \in ClockReadings,
                ResolveStop(c, commit, now)
         PROVE  ThreadsHeld'
    <2>1. SameThreads /\ SameJoins
      BY <1>18, ResolvedThreads DEF ResolveStop, At, Held
    <2>2. QED
      BY <1>18, <2>1, ThreadsKept DEF ResolveStop, slots
  <1>19. ASSUME NEW c \in Callers, NEW commit \in BOOLEAN, NEW now \in ClockReadings,
                ResolveStopAll(c, commit, now)
         PROVE  ThreadsHeld'
    <2>1. SameThreads /\ SameJoins
      BY <1>19, ResolvedThreads DEF ResolveStopAll, At, Held
    <2>2. QED
      BY <1>19, <2>1, ThreadsKept DEF ResolveStopAll, slots
  <1>20. ASSUME NEW c \in Callers, NEW k \in Configs, NEW now \in ClockReadings,
                StopAfterShutdown(c, k, now)
         PROVE  ThreadsHeld'
    <2>1. current[k] \in JobIds => SameThread(job[current[k]], Stopping(job[current[k]], now))
      BY <1>20 DEF SameThread, Stopping, TypeOK, Jobs
    <2>2. [Idle EXCEPT !.at = "deliver", !.captured = {current[k]}].at \notin Joining
      BY <1>20 DEF Idle, Joining
    <2>3. SameThreads
      BY <1>20, <2>1, SameThreadUpdate DEF StopAfterShutdown
    <2>4. SameJoins
      BY <1>20, <2>2, SameJoinUpdate DEF StopAfterShutdown, At, Joining
    <2>5. QED
      BY <1>20, <2>3, <2>4, ThreadsKept DEF StopAfterShutdown, slots
  <1>21. ASSUME NEW c \in Callers, NEW g \in JobIds,
                Deliver(c, g)
         PROVE  ThreadsHeld'
    <2>1. Idle.at \notin Joining /\ Delivered(call[c], g).at \notin Joining
      BY <1>21 DEF Deliver, At, Delivered, Idle, Joining, TypeOK, Calls
    <2>2. SameThreads
      BY <1>21, SameThreadRaise DEF Deliver
    <2>3. SameJoins
      BY <1>21, <2>1, SameJoinUpdate DEF Deliver, At, Joining
    <2>4. QED
      BY <1>21, <2>2, <2>3, ThreadsKept DEF Deliver, slots
  <1>22. ASSUME NEW c \in Callers,
                Shutdown(c)
         PROVE  ThreadsHeld'
    <2>1. SameThreads
      BY <1>22, ThreadsSame DEF Shutdown, Initiate
    <2>2. SameJoins
      BY <1>22, SameJoinGoto DEF Shutdown, At, Joining
    <2>3. QED
      BY <1>22, <2>1, <2>2, ThreadsKept DEF Shutdown, Initiate, slots
  <1>23. ASSUME NEW c \in Callers,
                NestedShutdown(c)
         PROVE  ThreadsHeld'
    <2>1. SameThreads
      BY <1>23, ThreadsSame DEF NestedShutdown, Initiate
    <2>2. SameJoins
      BY <1>23, JoinsSame DEF NestedShutdown
    <2>3. QED
      BY <1>23, <2>1, <2>2, ThreadsKept DEF NestedShutdown, Initiate, slots
  <1>24. ASSUME NEW g \in JobIds,
                WorkerShutdown(g)
         PROVE  ThreadsHeld'
    <2>1. SameThreads
      BY <1>24, ThreadsSame DEF WorkerShutdown, Initiate
    <2>2. SameJoins
      BY <1>24, JoinsSame DEF WorkerShutdown
    <2>3. QED
      BY <1>24, <2>1, <2>2, ThreadsKept DEF WorkerShutdown, Initiate, slots
  <1>25. ASSUME NEW a \in Actors, NEW k \in Configs, NEW now \in ClockReadings,
                SweepFind(a, k, now)
         PROVE  ThreadsHeld'
    <2>1. current[k] \in JobIds =>
             /\ SameThread(job[current[k]], discard_pending_progress(job[current[k]]))
             /\ SameThread(job[current[k]],
                           Stopping(discard_pending_progress(job[current[k]]), now))
      BY <1>25 DEF SameThread, Stopping, discard_pending_progress, TypeOK, Jobs
    <2>2. SameThreads
      BY <1>25, <2>1, ThreadsSame, SameThreadUpdate DEF SweepFind
    <2>3. SameJoins
      BY <1>25, JoinsSame DEF SweepFind
    <2>4. QED
      BY <1>25, <2>2, <2>3, ThreadsKept DEF SweepFind, slots
  <1>26. ASSUME NEW a \in Actors,
                SweepDeliver(a)
         PROVE  ThreadsHeld'
    <2>1. SameThreads
      BY <1>26, SameThreadRaise DEF SweepDeliver
    <2>2. SameJoins
      BY <1>26, JoinsSame DEF SweepDeliver
    <2>3. QED
      BY <1>26, <2>1, <2>2, ThreadsKept DEF SweepDeliver, slots
  <1>27. ASSUME NEW a \in Actors,
                SweepDone(a)
         PROVE  ThreadsHeld'
    <2>1. SameThreads
      BY <1>27, ThreadsSame DEF SweepDone
    <2>2. SameJoins
      BY <1>27, JoinsSame DEF SweepDone
    <2>3. QED
      BY <1>27, <2>1, <2>2, ThreadsKept DEF SweepDone, slots
  <1>28. ASSUME NEW c \in Callers,
                LockDrain(c)
         PROVE  ThreadsHeld'
    <2>1. SameThreads
      BY <1>28, ThreadsSame DEF LockDrain
    <2>2. SameJoins
      BY <1>28, SameJoinGoto DEF LockDrain, At, Joining
    <2>3. QED
      BY <1>28, <2>1, <2>2, ThreadsKept DEF LockDrain, slots
  <1>29. ASSUME NEW c \in Callers,
                AwaitReservations(c)
         PROVE  ThreadsHeld'
    <2>1. SameThreads
      BY <1>29, ThreadsSame DEF AwaitReservations
    <2>2. SameJoins
      BY <1>29, SameJoinGoto DEF AwaitReservations, At, Joining
    <2>3. QED
      BY <1>29, <2>1, <2>2, ThreadsKept DEF AwaitReservations, slots
  <1>30. ASSUME NEW c \in Callers, NEW k \in Configs,
                DrainPick(c, k)
         PROVE  ThreadsHeld'
    BY <1>30, DrainPickThreads
  <1>31. ASSUME NEW c \in Callers,
                DrainJoin(c)
         PROVE  ThreadsHeld'
    <2>1. call[c].at \in Joining
      BY <1>31 DEF DrainJoin, At, Joining
    <2>2. call'[c].at \notin Joining /\ OnlyCaller(c)
      BY <1>31 DEF DrainJoin, Joining, OnlyCaller, TypeOK, Calls
    <2>3. PICK g \in JobIds : g = call[c].job
      BY <1>31, <2>1, JoiningJob DEF ThreadsHeld
    <2>4. \A d \in Callers \ {c} : call[d].at \in Joining => call[d].job # g
      BY <1>31, <2>1, <2>3, JoinsApart DEF ThreadsHeld
    <2>5. /\ \A k \in Configs : reserved'[k] \in {reserved[k], NoJob}
          /\ \A k \in Configs : reserved'[k] = reserved[k] \/ reserved[k] = g
      BY <1>31 DEF DrainJoin, slots
    <2>6. job' = [job EXCEPT ![g].worker = "joined"] /\ UNCHANGED current
      BY <1>31, <2>3 DEF DrainJoin, slots
    <2>7. QED
      BY <1>31, <2>1, <2>2, <2>3, <2>4, <2>5, <2>6, JoinThreads
  <1>32. ASSUME NEW c \in Callers,
                ShutdownReturns(c)
         PROVE  ThreadsHeld'
    <2>1. SameThreads
      BY <1>32, ThreadsSame DEF ShutdownReturns
    <2>2. SameJoins
      BY <1>32, SameJoinReturn DEF ShutdownReturns, At, Joining
    <2>3. QED
      BY <1>32, <2>1, <2>2, ThreadsKept DEF ShutdownReturns, slots
  <1>33. CASE UNCHANGED vars
    BY <1>33, ThreadsSame, JoinsSame, ThreadsKept DEF vars, slots
  <1>34. QED
    BY <1>1, <1>2, <1>3, <1>4, <1>5, <1>6, <1>7, <1>8, <1>9, <1>10, <1>11, <1>12, <1>13,
       <1>14, <1>15, <1>16, <1>17, <1>18, <1>19, <1>20, <1>21, <1>22, <1>23, <1>24, <1>25,
       <1>26, <1>27, <1>28, <1>29, <1>30, <1>31, <1>32, <1>33
       DEF Next, CallerStep, WorkerStep, SweepStep

LEMMA ThreadsStep ==
    TypeOK /\ OwnerInv /\ LifeInv /\ AccountsInv /\ ThreadsInv /\ [Next]_vars => ThreadsInv'
  BY DrainsStep, ThreadsHeldStep DEF ThreadsInv, ThreadsHeld

LEMMA ThreadsInit == Init => ThreadsInv
  BY DEF Init, ThreadsInv, DrainsAlone, Draining, ThreadsAreOwned, JoinsAreSafe, Joinable,
         Idle, Unborn

-----------------------------------------------------------------------------
(* What follows *)

LEMMA OwnerAccounts ==
    Spec => [](TypeOK /\ OwnerInv /\ StopInv /\ LifeInv /\ AccountsInv /\ ThreadsInv)
  BY TypeInit, TypeStep, InvInit, InvStep, StopInit, StopStep, LifeInit, LifeStep,
     AccountsInit, AccountsStep, ThreadsInit, ThreadsStep, PTL DEF Spec

\* No call ends in std::terminate: the checks before each one hold for whoever reaches
\* them, and a thread is joined by one caller at a time, while it is joinable.
THEOREM NeverTerminatesAlways == Spec => []NeverTerminates
  <1>1. TypeOK /\ OwnerInv /\ AccountsInv => TerminateUnreachable
    <2>. SUFFICES ASSUME TypeOK, OwnerInv, AccountsInv
                  PROVE  TerminateUnreachable
      OBVIOUS
    <2>1. ASSUME NEW c \in Callers, call[c].at \in Holding
          PROVE  call[c].config \in jobs /\ reserved[call[c].config] = call[c].job
      <3>1. /\ call[c].config \in Configs /\ reserved[call[c].config] = call[c].job
            /\ call[c].job # NoJob
        BY <2>1, HeldJob, HeldAlone
      <3>2. QED
        BY <3>1 DEF AccountsInv, SlotsJustified
    <2>2. ASSUME NEW c \in Callers, call[c].at = "start_held" \/ call[c].at \in Committing
          PROVE  job[call[c].job].gate = "pending"
      BY <2>2, HeldJob, CommittingJob DEF Holding
    <2>3. ASSUME NEW c \in Callers, call[c].at = "stop_held"
          PROVE  call[c].config \in jobs /\ stop_reserved[call[c].config]
      BY <2>3 DEF AccountsInv, StopsAreHeld, SlotsJustified
    <2>4. ASSUME NEW c \in Callers, call[c].at = "stop_all_held"
          PROVE  stop_all_reserved
      BY <2>4 DEF AccountsInv, StopsAreHeld
    <2>5. QED
      BY <2>1, <2>2, <2>3, <2>4 DEF TerminateUnreachable, AccountsInv, Holding, Committing
  <1>2. TypeOK /\ OwnerInv /\ ThreadsInv => JoinedOnce
    <2>. SUFFICES ASSUME TypeOK, OwnerInv, ThreadsInv
                  PROVE  JoinedOnce
      OBVIOUS
    <2>1. \A c \in Callers : call[c].at \in Joining => Joinable(call[c].job)
      BY JoiningJob DEF ThreadsInv
    <2>2. \A c, d \in Callers : c # d /\ call[c].at \in Joining /\ call[d].at \in Joining =>
             call[d].job # call[c].job
      BY JoinsApart DEF ThreadsInv
    <2>3. QED
      BY <2>1, <2>2 DEF JoinedOnce, Joining
  <1>3. QED
    BY <1>1, <1>2, OwnerAccounts, PTL DEF NeverTerminates

\* jobs_ holds exactly the configs with a status or a pending operation, never more than
\* max_configs: no temporary slot of an unknown config is leaked or taken away early.
THEOREM SlotsJustifiedAlways == Spec => []SlotsJustified
  <1>1. AccountsInv => SlotsJustified
    BY DEF AccountsInv
  <1>2. QED
    BY <1>1, OwnerAccounts, PTL

\* An external shutdown returns with admission closed, no reservation left and every
\* thread whose gate was resolved joined.
THEOREM ShutdownDrainsAlways == Spec => ShutdownDrains
  <1>1. ASSUME TypeOK, OwnerInv, AccountsInv, ThreadsInv, NEW c \in Callers, ShutdownReturns(c)
        PROVE  /\ ~accepting /\ active_reservations = 0
               /\ \A g \in JobIds : job[g].gate # "pending" => ~Joinable(g)
    <2>1. /\ call[c].at = "drain"
          /\ \A k \in jobs : current[k] # NoJob => ~Joinable(current[k])
      BY <1>1 DEF ShutdownReturns, At
    <2>2. ~accepting /\ active_reservations = 0
      BY <1>1, <2>1 DEF ThreadsInv, DrainsAlone, Draining
    <2>3. \A k \in Configs : reserved[k] = NoJob
      BY <1>1, <2>2, CountedIsPositive
    <2>4. ASSUME NEW g \in JobIds, job[g].gate # "pending", Joinable(g)
          PROVE  FALSE
      <3>1. g # NoJob
        BY ConstantsAssumption DEF JobIds, NoJob
      <3>2. \A d \in Callers : call[d].at = "join_failed" => call[d].job # g
        BY <1>1, <2>4 DEF ThreadsInv, JoinsAreSafe
      <3>3. PICK k \in Configs : current[k] = g
        BY <1>1, <2>3, <2>4, <3>1, <3>2 DEF ThreadsInv, ThreadsAreOwned
      <3>4. k \in jobs
        BY <1>1, <3>1, <3>3 DEF AccountsInv, SlotsJustified
      <3>5. QED
        BY <2>1, <2>4, <3>1, <3>3, <3>4
    <2>5. QED
      BY <2>2, <2>4
  <1>2. TypeOK /\ OwnerInv /\ AccountsInv /\ ThreadsInv =>
           [\A c \in Callers : ShutdownReturns(c) =>
              /\ ~accepting /\ active_reservations = 0
              /\ \A g \in JobIds : job[g].gate # "pending" => ~Joinable(g)]_vars
    BY <1>1
  <1>3. QED
    BY <1>2, OwnerAccounts, PTL DEF ShutdownDrains

-----------------------------------------------------------------------------
(* ProgressInv: steps that neither report nor resolve a stop *)

\* Held back progress is kept or dropped; what runs on shows and owes what it did.
KeepsReport(j, i) ==
    /\ i.pending \in {j.pending, 0}
    /\ i.phase = "running" =>
          /\ j.phase = "running"
          /\ i.pending = j.pending /\ i.shown = j.shown /\ i.sent = j.sent
    /\ i.gate # "committed" => j.gate # "committed" /\ i.shown = j.shown /\ i.sent = j.sent
SameCapture(r, s) ==
    /\ s.at \in Held <=> r.at \in Held
    /\ r.at \in Held => s = r
KeptReports == \A g \in JobIds : KeepsReport(job[g], job'[g])
SameCaptures == \A c \in Callers : SameCapture(call[c], call'[c])

LEMMA KeepsReportItself == \A j : KeepsReport(j, j)
  BY DEF KeepsReport

LEMMA SameCaptureItself == \A r : SameCapture(r, r)
  BY DEF SameCapture

LEMMA ReportsSame == UNCHANGED job => KeptReports
  BY KeepsReportItself DEF KeptReports

LEMMA CapturesSame == UNCHANGED call => SameCaptures
  BY SameCaptureItself DEF SameCaptures

LEMMA KeptReportUpdate ==
    ASSUME TypeOK, NEW g, NEW j, g \in JobIds => KeepsReport(job[g], j),
           job' = [job EXCEPT ![g] = j]
    PROVE  KeptReports
  BY KeepsReportItself DEF KeptReports, TypeOK

LEMMA KeptReportRaise ==
    ASSUME TypeOK, NEW g, job' = [job EXCEPT ![g].stop = TRUE]
    PROVE  KeptReports
  <1>1. g \in JobIds => KeepsReport(job[g], [job[g] EXCEPT !.stop = TRUE])
    BY DEF KeepsReport, TypeOK, Jobs
  <1>2. QED
    BY <1>1, KeptReportUpdate

LEMMA KeptReportJoin ==
    ASSUME TypeOK, NEW g, job' = [job EXCEPT ![g].worker = "joined"]
    PROVE  KeptReports
  <1>1. g \in JobIds => KeepsReport(job[g], [job[g] EXCEPT !.worker = "joined"])
    BY DEF KeepsReport, TypeOK, Jobs
  <1>2. QED
    BY <1>1, KeptReportUpdate

LEMMA ReapReports ==
    ASSUME TypeOK, NEW k \in Configs, NEW g \in JobIds
    PROVE  KeepsReport(job[g], ReapPrevious(k)[g])
  BY DEF ReapPrevious, KeepsReport, TypeOK, Jobs

LEMMA SameCaptureUpdate ==
    ASSUME TypeOK, NEW c \in Callers, NEW s, call' = [call EXCEPT ![c] = s],
           s.at \notin Held, call[c].at \notin Held
    PROVE  SameCaptures
  BY SameCaptureItself DEF SameCaptures, SameCapture, TypeOK

LEMMA SameCaptureReturn ==
    ASSUME TypeOK, NEW c \in Callers, Return(c), call[c].at \notin Held
    PROVE  SameCaptures
  BY SameCaptureUpdate DEF Return, Idle, Held

LEMMA SameCaptureGoto ==
    ASSUME TypeOK, NEW c \in Callers, NEW p, Goto(c, p), p \notin Held, call[c].at \notin Held
    PROVE  SameCaptures
  <1>1. [call[c] EXCEPT !.at = p].at = p
    BY DEF TypeOK, Calls
  <1>2. QED
    BY <1>1, SameCaptureUpdate DEF Goto

\* A captured generation is current, is a job, and waits behind the stop reply.
LEMMA CapturedIsStaged ==
    ASSUME TypeOK, OwnerInv, AccountsInv, ProgressInv, NEW c \in Callers,
           call[c].at \in Held, NEW g \in call[c].captured
    PROVE  /\ g \in JobIds /\ g # NoJob
           /\ job[g].config_id \in Configs /\ current[job[g].config_id] = g /\ Staged(g)
  <1>1. PICK k \in Configs :
           /\ g = current[k] /\ g # NoJob
           /\ call[c].at = "stop_held" => k = call[c].config /\ stop_reserved[k]
    <2>1. g \in Captures(c)
      BY DEF ProgressInv, CapturesAreCurrent, Held
    <2>2. CASE call[c].at = "stop_held"
      BY <2>1, <2>2 DEF Captures, AccountsInv, StopsAreHeld
    <2>3. CASE call[c].at = "stop_all_held"
      BY <2>1, <2>3 DEF Captures
    <2>4. QED
      BY <2>2, <2>3 DEF Held
  <1>2. g \in JobIds /\ job[g].config_id = k
    BY <1>1, SlotTypes DEF OwnerInv, SlotsOfConfig
  <1>3. call[c].at = "stop_all_held" => stop_all_reserved
    BY DEF AccountsInv, StopsAreHeld
  <1>4. Staged(g)
    BY <1>1, <1>2, <1>3 DEF Staged, Held
  <1>5. QED
    BY <1>1, <1>2, <1>4

LEMMA ProgressKept ==
    ASSUME TypeOK, OwnerInv, AccountsInv, ProgressInv, KeptReports, SameCaptures,
           UNCHANGED <<current, stop_reserved, stop_all_reserved>>,
           \A k \in Configs : reserved'[k] \in {reserved[k], NoJob}
    PROVE  ProgressInv'
  <1>1. /\ StartReserved' \subseteq StartReserved /\ StopReserved' = StopReserved
    BY DEF StartReserved, StopReserved
  <1>2. \A c \in Callers : call'[c].at \in Held => call[c].at \in Held /\ call'[c] = call[c]
    BY DEF SameCaptures, SameCapture
  <1>3. \A c \in Callers : call[c].at \in Held => call'[c] = call[c]
    BY DEF SameCaptures, SameCapture
  <1>4. CapturesAreCurrent'
    <2>1. ASSUME NEW c \in Callers, call'[c].at \in Held
          PROVE  /\ call'[c].captured = Captures(c)'
                 /\ \A g \in call'[c].captured : job'[g].phase = "running" => g \in call'[c].running
      <3>1. call'[c] = call[c] /\ call[c].at \in Held
        BY <1>2, <2>1
      <3>2. Captures(c)' = Captures(c)
        BY <3>1 DEF Captures
      <3>3. \A g \in call[c].captured : job'[g].phase = "running" => job[g].phase = "running"
        BY <3>1, CapturedIsStaged DEF KeptReports, KeepsReport
      <3>4. QED
        BY <3>1, <3>2, <3>3 DEF ProgressInv, CapturesAreCurrent, Held
    <2>2. QED
      BY <2>1 DEF CapturesAreCurrent, Held
  <1>5. ReservedStopsAreHeld'
    BY <1>1, <1>3 DEF ProgressInv, ReservedStopsAreHeld, Held
  <1>6. LastReportIsKept'
    BY <1>3 DEF ProgressInv, LastReportIsKept, KeptReports, KeepsReport, Held
  <1>7. QED
    BY <1>4, <1>5, <1>6 DEF ProgressInv

\* A generation that comes into a slot of which no stop is reserved.
LEMMA AdmittedProgress ==
    ASSUME TypeOK, OwnerInv, AccountsInv, ProgressInv, SameCaptures, NEW k \in Configs,
           ~stop_reserved[k], ~stop_all_reserved, NEW n \in JobIds,
           \A l \in Configs : current[l] # n,
           \A l \in Configs \ {k} : current'[l] = current[l],
           UNCHANGED <<stop_reserved, stop_all_reserved>>,
           \A g \in JobIds \ {n} : KeepsReport(job[g], job'[g]),
           job'[n].gate # "committed", job'[n].pending = 0, job'[n].shown = job'[n].sent
    PROVE  ProgressInv'
  <1>1. StopReserved' = StopReserved
    BY DEF StopReserved
  <1>2. \A c \in Callers : call'[c].at \in Held => call[c].at \in Held /\ call'[c] = call[c]
    BY DEF SameCaptures, SameCapture
  <1>3. \A c \in Callers : call[c].at \in Held => call'[c] = call[c]
    BY DEF SameCaptures, SameCapture
  <1>4. CapturesAreCurrent'
    <2>1. ASSUME NEW c \in Callers, call'[c].at \in Held
          PROVE  /\ call'[c].captured = Captures(c)'
                 /\ \A g \in call'[c].captured : job'[g].phase = "running" => g \in call'[c].running
      <3>1. call'[c] = call[c] /\ call[c].at \in Held
        BY <1>2, <2>1
      <3>2. call[c].at = "stop_held" /\ call[c].config \in Configs \ {k}
        BY <3>1 DEF AccountsInv, StopsAreHeld, Held
      <3>3. Captures(c)' = Captures(c)
        BY <3>1, <3>2 DEF Captures
      <3>4. \A g \in call[c].captured : job'[g].phase = "running" => job[g].phase = "running"
        BY <3>1, CapturedIsStaged DEF KeepsReport
      <3>5. QED
        BY <3>1, <3>3, <3>4 DEF ProgressInv, CapturesAreCurrent, Held
    <2>2. QED
      BY <2>1 DEF CapturesAreCurrent, Held
  <1>5. ReservedStopsAreHeld'
    BY <1>3 DEF ProgressInv, ReservedStopsAreHeld, Held
  <1>6. LastReportIsKept'
    BY <1>3 DEF ProgressInv, LastReportIsKept, KeepsReport, Held
  <1>7. QED
    BY <1>4, <1>5, <1>6 DEF ProgressInv

-----------------------------------------------------------------------------
(* ProgressInv: starts *)

LEMMA PrepareStartProgress ==
    ASSUME TypeOK, OwnerInv, AccountsInv, ProgressInv, NEW c \in Callers, NEW k \in Configs,
           NEW kind \in BackendKinds, NEW now \in ClockReadings, PrepareStart(c, k, kind, now)
    PROVE  ProgressInv'
  <1>1. TakeGeneration /\ ~stop_reserved[k] /\ ~stop_all_reserved
    BY DEF PrepareStart, StartAdmissible
  <1>2. PICK n \in JobIds : n = next_job_generation
    BY <1>1, FreshGeneration
  <1>3. \A l \in Configs : current[l] # n
    BY <1>1, <1>2, FreshGeneration
  <1>4. /\ \A g \in JobIds \ {n} : job'[g] = ReapPrevious(k)[g]
        /\ job'[n].gate = "pending" /\ job'[n].pending = 0 /\ job'[n].shown = job'[n].sent
    BY <1>2 DEF PrepareStart, NewJob, Unborn, ReapPrevious, TypeOK
  <1>5. SameCaptures
    <2>1. /\ call'[c].at \notin Held /\ call[c].at \notin Held
          /\ \A d \in Callers \ {c} : call'[d] = call[d]
      BY DEF PrepareStart, At, Idle, Held, TypeOK
    <2>2. QED
      BY <2>1, SameCaptureItself DEF SameCaptures, SameCapture
  <1>6. UNCHANGED <<current, stop_reserved, stop_all_reserved>>
    BY DEF PrepareStart
  <1>7. QED
    BY <1>1, <1>3, <1>4, <1>5, <1>6, ReapReports, AdmittedProgress

LEMMA ThreadStartFailedProgress ==
    ASSUME TypeOK, OwnerInv, AccountsInv, ProgressInv, NEW c \in Callers, NEW k \in Configs,
           NEW publish \in BOOLEAN, NEW now \in ClockReadings, NEW later \in ClockReadings,
           ThreadStartFailed(c, k, publish, now, later)
    PROVE  ProgressInv'
  <1>1. TakeGeneration /\ ~stop_reserved[k] /\ ~stop_all_reserved
    BY DEF ThreadStartFailed, StartAdmissible
  <1>2. PICK n \in JobIds : n = next_job_generation
    BY <1>1, FreshGeneration
  <1>3. \A l \in Configs : current[l] # n
    BY <1>1, <1>2, FreshGeneration
  <1>4. /\ \A g \in JobIds \ {n} : job'[g] = ReapPrevious(k)[g]
        /\ job'[n].gate = "pending" /\ job'[n].pending = 0 /\ job'[n].shown = job'[n].sent
    BY <1>2 DEF ThreadStartFailed, NewJob, Unborn, ReapPrevious, TypeOK
  <1>5. /\ UNCHANGED <<stop_reserved, stop_all_reserved, call>>
        /\ \A l \in Configs \ {k} : current'[l] = current[l]
    BY DEF ThreadStartFailed, TypeOK
  <1>6. QED
    BY <1>1, <1>3, <1>4, <1>5, CapturesSame, ReapReports, AdmittedProgress

LEMMA StartExhaustedProgress ==
    ASSUME TypeOK, OwnerInv, AccountsInv, ProgressInv, NEW c \in Callers, NEW k \in Configs,
           StartExhausted(c, k)
    PROVE  ProgressInv'
  <1>1. KeptReports
    BY ReapReports DEF StartExhausted, KeptReports
  <1>2. QED
    BY <1>1, CapturesSame, ProgressKept DEF StartExhausted, owner, slots

\* A reserved slot has no stop reserved, neither of its own nor of all.
LEMMA ReservedIsNotStopped ==
    ASSUME TypeOK, AccountsInv, ProgressInv, NEW k \in Configs, reserved[k] # NoJob
    PROVE  ~stop_reserved[k] /\ ~stop_all_reserved
  BY DEF AccountsInv, OneReservation, ProgressInv, ReservedStopsAreHeld, StartReserved, StopReserved

LEMMA CommitStartProgress ==
    ASSUME TypeOK, OwnerInv, AccountsInv, ProgressInv, NEW c \in Callers,
           NEW now \in ClockReadings, CommitStart(c, now)
    PROVE  ProgressInv'
  <1>1. call[c].at = "start_held"
    BY DEF CommitStart, At
  <1>2. PICK g \in JobIds, k \in Configs : g = call[c].job /\ k = call[c].config
    BY <1>1, HeldJob DEF Holding
  <1>3. /\ reserved[k] # NoJob /\ job[g].gate # "committed" /\ \A l \in Configs : current[l] # g
    BY <1>1, <1>2, HeldJob, HeldAlone DEF Holding
  <1>4. ~stop_reserved[k] /\ ~stop_all_reserved
    BY <1>3, ReservedIsNotStopped
  <1>5. /\ \A h \in JobIds \ {g} : job'[h] = job[h]
        /\ job'[g].gate = job[g].gate /\ job'[g].pending = job[g].pending
        /\ job'[g].shown = job[g].shown /\ job'[g].sent = job[g].sent
    BY <1>2 DEF CommitStart, Stopping, TypeOK, Jobs
  <1>6. job[g].pending = 0 /\ job[g].shown = job[g].sent
    BY <1>3 DEF ProgressInv, LastReportIsKept
  <1>7. SameCaptures
    BY <1>1, SameCaptureGoto DEF CommitStart, Held
  <1>8. /\ \A l \in Configs \ {k} : current'[l] = current[l]
        /\ UNCHANGED <<stop_reserved, stop_all_reserved>>
    BY <1>2 DEF CommitStart, TypeOK
  <1>9. QED
    BY <1>3, <1>4, <1>5, <1>6, <1>7, <1>8, KeepsReportItself, AdmittedProgress

-----------------------------------------------------------------------------
(* ProgressInv: reports and stops *)

\* A report is staged behind the stop reply that captured its generation, or shown.
LEMMA ReportProgress ==
    ASSUME TypeOK, OwnerInv, AccountsInv, ProgressInv, NEW g \in JobIds,
           NEW now \in ClockReadings, Report(g, now)
    PROVE  ProgressInv'
  <1>1. /\ job[g].worker = "running" /\ UNCHANGED <<current, slots, owner, call>>
        /\ job' = [job EXCEPT ![g] = IF Staged(g) THEN Stage(job[g]) ELSE Publish(job[g], now)]
    BY DEF Report, slots
  <1>2. /\ job[g].gate = "committed" /\ job[g].config_id \in Configs
        /\ current[job[g].config_id] = g /\ g # NoJob
    BY <1>1, SlotTypes, ConstantsAssumption DEF OwnerInv, LiveIsCurrent, LiveWorker, JobIds, NoJob
  <1>3. Staged(g) => \E c \in Callers : call[c].at \in Held /\ g \in call[c].captured
    <2>1. CASE stop_reserved[job[g].config_id]
      <3>1. PICK c \in Callers : call[c].at = "stop_held" /\ call[c].config = job[g].config_id
        BY <1>2, <2>1 DEF ProgressInv, ReservedStopsAreHeld
      <3>2. g \in Captures(c)
        BY <1>2, <3>1 DEF Captures
      <3>3. QED
        BY <3>1, <3>2 DEF ProgressInv, CapturesAreCurrent, Held
    <2>2. CASE stop_all_reserved
      <3>1. PICK c \in Callers : call[c].at = "stop_all_held"
        BY <2>2 DEF ProgressInv, ReservedStopsAreHeld
      <3>2. g \in Captures(c)
        BY <1>2, <3>1 DEF Captures
      <3>3. QED
        BY <3>1, <3>2 DEF ProgressInv, CapturesAreCurrent, Held
    <2>3. QED
      BY <2>1, <2>2 DEF Staged
  <1>4. ~Staged(g) => job[g].pending = 0
    BY CapturedIsStaged DEF ProgressInv, LastReportIsKept, Held
  <1>5. /\ \A h \in JobIds \ {g} : job'[h] = job[h]
        /\ job'[g].phase = job[g].phase /\ job'[g].gate = job[g].gate
        /\ job'[g].sent = job[g].sent + 1
        /\ job'[g].pending = IF Staged(g) THEN job[g].sent + 1 ELSE job[g].pending
        /\ ~Staged(g) => job'[g].shown = job[g].sent + 1
    BY <1>1 DEF Stage, Publish, TypeOK, Jobs
  <1>6. job[g].sent + 1 # 0
    BY DEF TypeOK, Jobs
  <1>7. LastReportIsKept'
    BY <1>1, <1>2, <1>3, <1>4, <1>5, <1>6 DEF ProgressInv, LastReportIsKept, Held
  <1>8. \A h \in JobIds : job'[h].phase = job[h].phase
    BY <1>5
  <1>9. CapturesAreCurrent'
    <2>1. \A c \in Callers : call[c].at \in Held => call[c].captured \subseteq JobIds
      BY CapturedIsStaged
    <2>2. \A c \in Callers : Captures(c)' = Captures(c)
      BY <1>1 DEF Captures, slots
    <2>3. QED
      BY <1>1, <1>8, <2>1, <2>2 DEF ProgressInv, CapturesAreCurrent, Held
  <1>10. ReservedStopsAreHeld'
    BY <1>1 DEF ProgressInv, ReservedStopsAreHeld, StartReserved, StopReserved, slots, owner
  <1>11. QED
    BY <1>7, <1>9, <1>10 DEF ProgressInv

\* A stop reservation captures the current generation of its config.
LEMMA PrepareStopProgress ==
    ASSUME TypeOK, OwnerInv, AccountsInv, ProgressInv, NEW c \in Callers, NEW k \in Configs,
           NEW now \in ClockReadings, PrepareStop(c, k, now)
    PROVE  ProgressInv'
  <1>1. /\ call[c].at \notin Held /\ ~stop_all_reserved
        /\ UNCHANGED <<current, job, stop_all_reserved>>
        /\ stop_reserved'[k] /\ \A l \in Configs \ {k} : stop_reserved'[l] = stop_reserved[l]
    BY DEF PrepareStop, At, Held, TypeOK
  <1>2. /\ call'[c].at = "stop_held" /\ call'[c].config = k
        /\ call'[c].captured = {current[k]} \ {NoJob}
        /\ call'[c].running = {g \in {current[k]} \ {NoJob} : job[g].phase = "running"}
        /\ \A d \in Callers \ {c} : call'[d] = call[d]
    BY DEF PrepareStop, Capture, Idle, TypeOK
  <1>3. CapturesAreCurrent'
    <2>1. /\ call'[c].captured = Captures(c)'
          /\ \A g \in call'[c].captured : job'[g].phase = "running" => g \in call'[c].running
      BY <1>1, <1>2 DEF Captures
    <2>2. ASSUME NEW d \in Callers \ {c}
          PROVE  call'[d] = call[d] /\ Captures(d)' = Captures(d)
      <3>1. call'[d] = call[d] /\ current' = current
        BY <1>1, <1>2
      <3>2. QED
        BY <3>1 DEF Captures
    <2>3. QED
      BY <1>1, <2>1, <2>2 DEF ProgressInv, CapturesAreCurrent
  <1>4. ReservedStopsAreHeld'
    BY <1>1, <1>2 DEF ProgressInv, ReservedStopsAreHeld, Held
  <1>5. LastReportIsKept'
    BY <1>1, <1>2 DEF ProgressInv, LastReportIsKept, Held
  <1>6. QED
    BY <1>3, <1>4, <1>5 DEF ProgressInv

\* A stop-all reservation captures every current generation, and is the only reservation.
LEMMA PrepareStopAllProgress ==
    ASSUME TypeOK, OwnerInv, AccountsInv, ProgressInv, NEW c \in Callers,
           NEW now \in ClockReadings, PrepareStopAll(c, now)
    PROVE  ProgressInv'
  <1>1. /\ call[c].at \notin Held /\ active_reservations = 0
        /\ UNCHANGED <<current, job, reserved, stop_reserved>>
    BY DEF PrepareStopAll, At, Held, slots
  <1>2. StartReserved = {} /\ StopReserved = {}
    BY <1>1, CountedIsPositive DEF StartReserved, StopReserved
  <1>3. StartReserved' = {} /\ StopReserved' = {}
    BY <1>1, <1>2 DEF StartReserved, StopReserved
  <1>4. /\ call'[c].at = "stop_all_held"
        /\ call'[c].captured = {current[k] : k \in jobs} \ {NoJob}
        /\ call'[c].running =
              {g \in {current[k] : k \in jobs} \ {NoJob} : job[g].phase = "running"}
        /\ \A d \in Callers \ {c} : call'[d] = call[d]
    BY DEF PrepareStopAll, Capture, Idle, TypeOK
  <1>5. {current[k] : k \in jobs} \ {NoJob} = {current[k] : k \in Configs} \ {NoJob}
    BY DEF AccountsInv, SlotsJustified
  <1>6. CapturesAreCurrent'
    <2>1. /\ call'[c].captured = Captures(c)'
          /\ \A g \in call'[c].captured : job'[g].phase = "running" => g \in call'[c].running
      BY <1>1, <1>4, <1>5 DEF Captures
    <2>2. \A d \in Callers \ {c} : call'[d] = call[d] /\ Captures(d)' = Captures(d)
      BY <1>1, <1>4 DEF Captures
    <2>3. QED
      BY <1>1, <2>1, <2>2 DEF ProgressInv, CapturesAreCurrent
  <1>7. ReservedStopsAreHeld'
    BY <1>1, <1>2, <1>3, <1>4 DEF ReservedStopsAreHeld, StopReserved
  <1>8. LastReportIsKept'
    BY <1>1, <1>4 DEF ProgressInv, LastReportIsKept, Held
  <1>9. QED
    BY <1>6, <1>7, <1>8 DEF ProgressInv

\* A resolved stop publishes or discards what it held back, and says the last report of
\* every generation that runs on.
LEMMA ResolvedReports ==
    ASSUME TypeOK, OwnerInv, AccountsInv, ProgressInv, NEW c \in Callers, call[c].at \in Held,
           NEW commit \in BOOLEAN, NEW now \in ClockReadings, Resolved(c, commit, now)
    PROVE  /\ \A g \in JobIds \ call[c].captured : job'[g] = job[g]
           /\ \A g \in call[c].captured :
                 /\ job'[g].pending = 0
                 /\ job'[g].phase = "running" =>
                       job[g].phase = "running" /\ job'[g].shown = job'[g].sent
                 /\ job'[g].gate # "committed" => job'[g].shown = job'[g].sent
  <1>1. \A g \in JobIds \ call[c].captured : job'[g] = job[g]
    BY DEF Resolved
  <1>2. ASSUME NEW g \in call[c].captured
        PROVE  /\ job'[g].pending = 0
               /\ job'[g].phase = "running" =>
                     job[g].phase = "running" /\ job'[g].shown = job'[g].sent
               /\ job'[g].gate # "committed" => job'[g].shown = job'[g].sent
    <2>1. /\ g \in JobIds /\ job[g] \in Jobs /\ SameGeneration(g)
          /\ job[g].phase = "running" => g \in call[c].running
      BY CapturedIsStaged, SlotTypes DEF SameGeneration, ProgressInv, CapturesAreCurrent, Held
    <2>2. job[g].phase = "running" => g \in Transitions(c)
      BY <2>1 DEF Transitions
    <2>3. /\ job[g].phase = "running" =>
                job[g].sent = IF job[g].pending = 0 THEN job[g].shown ELSE job[g].pending
          /\ job[g].gate # "committed" => job[g].pending = 0 /\ job[g].shown = job[g].sent
      BY <2>1 DEF ProgressInv, LastReportIsKept
    <2>4. job'[g] = IF commit THEN CommittedJob(c, g, now) ELSE AbortedJob(g, now)
      BY <2>1 DEF Resolved
    <2>5. CASE commit /\ g \in Transitions(c)
      <3>1. job'[g] = StoppingAt(job[g], call[c].stamp[g])
        BY <2>4, <2>5 DEF CommittedJob
      <3>2. QED
        BY <2>1, <2>3, <3>1 DEF StoppingAt, Jobs
    <2>6. CASE /\ job[g].phase # "running" \/ ~commit
               /\ job'[g] = publish_pending_progress(job[g], now)
      BY <2>1, <2>3, <2>6 DEF publish_pending_progress, Jobs
    <2>7. CASE job[g].phase # "running" /\ job'[g] = discard_pending_progress(job[g])
      BY <2>1, <2>3, <2>7 DEF discard_pending_progress, Jobs
    <2>8. CASE commit /\ g \notin Transitions(c)
      BY <2>2, <2>4, <2>6, <2>7, <2>8 DEF CommittedJob
    <2>9. CASE ~commit
      BY <2>1, <2>4, <2>6, <2>7, <2>9 DEF AbortedJob
    <2>10. QED
      BY <2>5, <2>8, <2>9
  <1>3. QED
    BY <1>1, <1>2

LEMMA ResolvedProgress ==
    ASSUME TypeOK, OwnerInv, AccountsInv, ProgressInv, NEW c \in Callers, call[c].at \in Held,
           NEW commit \in BOOLEAN, NEW now \in ClockReadings, Resolved(c, commit, now),
           UNCHANGED current
    PROVE  /\ CapturesAreCurrent' /\ LastReportIsKept'
           /\ call'[c].at \notin Held /\ \A d \in Callers \ {c} : call'[d] = call[d]
  <1>1. call'[c].at \notin Held /\ \A d \in Callers \ {c} : call'[d] = call[d]
    BY ResolvedStops DEF OnlyCaller
  <1>2. \A g \in JobIds : job'[g].phase = "running" => job[g].phase = "running"
    BY ResolvedReports
  <1>3. CapturesAreCurrent'
    <2>1. ASSUME NEW d \in Callers, call'[d].at \in Held
          PROVE  /\ call'[d].captured = Captures(d)'
                 /\ \A g \in call'[d].captured : job'[g].phase = "running" => g \in call'[d].running
      <3>1. call'[d] = call[d] /\ call[d].at \in Held
        BY <1>1, <2>1
      <3>2. Captures(d)' = Captures(d)
        BY <3>1 DEF Captures
      <3>3. \A g \in call[d].captured : job'[g].phase = "running" => job[g].phase = "running"
        BY <1>2, <3>1, CapturedIsStaged
      <3>4. QED
        BY <3>1, <3>2, <3>3 DEF ProgressInv, CapturesAreCurrent, Held
    <2>2. QED
      BY <2>1 DEF CapturesAreCurrent, Held
  <1>4. ASSUME NEW g \in JobIds
        PROVE  /\ job'[g].pending # 0 =>
                     \E d \in Callers : call'[d].at \in Held /\ g \in call'[d].captured
               /\ job'[g].phase = "running" =>
                     job'[g].sent = IF job'[g].pending = 0 THEN job'[g].shown ELSE job'[g].pending
               /\ job'[g].gate # "committed" => job'[g].pending = 0 /\ job'[g].shown = job'[g].sent
    <2>1. CASE g \in call[c].captured
      BY <2>1, ResolvedReports
    <2>2. CASE g \notin call[c].captured
      <3>1. job'[g] = job[g]
        BY <2>2, ResolvedReports
      <3>2. QED
        BY <1>1, <2>2, <3>1 DEF ProgressInv, LastReportIsKept, Held
    <2>3. QED
      BY <2>1, <2>2
  <1>5. QED
    BY <1>1, <1>3, <1>4 DEF LastReportIsKept, Held

LEMMA ResolveStopProgress ==
    ASSUME TypeOK, OwnerInv, AccountsInv, ProgressInv, NEW c \in Callers, NEW commit \in BOOLEAN,
           NEW now \in ClockReadings, ResolveStop(c, commit, now)
    PROVE  ProgressInv'
  <1>1. /\ call[c].at \in Held /\ call[c].at = "stop_held" /\ UNCHANGED <<current, stop_all_reserved>>
        /\ Resolved(c, commit, now)
    BY DEF ResolveStop, At, Held
  <1>2. PICK k \in Configs : k = call[c].config /\ stop_reserved[k]
    BY <1>1 DEF AccountsInv, StopsAreHeld
  <1>3. ~stop_reserved'[k] /\ \A l \in Configs \ {k} : stop_reserved'[l] = stop_reserved[l]
    BY <1>2 DEF ResolveStop, TypeOK
  <1>4. ~stop_all_reserved
    BY <1>2 DEF ProgressInv, ReservedStopsAreHeld, StopReserved
  <1>5. ReservedStopsAreHeld'
    <2>1. \A l \in Configs : stop_reserved'[l] =>
             \E d \in Callers \ {c} : call[d].at = "stop_held" /\ call[d].config = l
      BY <1>2, <1>3 DEF ProgressInv, ReservedStopsAreHeld
    <2>2. QED
      BY <1>1, <1>4, <2>1, ResolvedProgress DEF ReservedStopsAreHeld
  <1>6. QED
    BY <1>1, <1>5, ResolvedProgress DEF ProgressInv

LEMMA ResolveStopAllProgress ==
    ASSUME TypeOK, OwnerInv, AccountsInv, ProgressInv, NEW c \in Callers, NEW commit \in BOOLEAN,
           NEW now \in ClockReadings, ResolveStopAll(c, commit, now)
    PROVE  ProgressInv'
  <1>1. /\ call[c].at \in Held /\ call[c].at = "stop_all_held"
        /\ UNCHANGED <<current, stop_reserved>> /\ ~stop_all_reserved'
        /\ Resolved(c, commit, now)
    BY DEF ResolveStopAll, At, Held, slots
  <1>2. stop_all_reserved
    BY <1>1 DEF AccountsInv, StopsAreHeld
  <1>3. \A l \in Configs : ~stop_reserved[l]
    BY <1>2 DEF ProgressInv, ReservedStopsAreHeld, StopReserved
  <1>4. ReservedStopsAreHeld'
    BY <1>1, <1>3 DEF ReservedStopsAreHeld
  <1>5. QED
    BY <1>1, <1>4, ResolvedProgress DEF ProgressInv

LEMMA ProgressStep == TypeOK /\ OwnerInv /\ AccountsInv /\ ProgressInv /\ [Next]_vars => ProgressInv'
  <1>. SUFFICES ASSUME TypeOK, OwnerInv, AccountsInv, ProgressInv, [Next]_vars
                PROVE  ProgressInv'
    OBVIOUS
  <1>1. ASSUME NEW c \in Callers, NEW k \in Configs, NEW kind \in BackendKinds,
               NEW now \in ClockReadings,
               PrepareStart(c, k, kind, now)
        PROVE  ProgressInv'
    BY <1>1, PrepareStartProgress
  <1>2. ASSUME NEW c \in Callers, NEW k \in Configs,
               StartExhausted(c, k)
        PROVE  ProgressInv'
    BY <1>2, StartExhaustedProgress
  <1>3. ASSUME NEW c \in Callers, NEW k \in Configs, NEW publish \in BOOLEAN,
               NEW now \in ClockReadings, NEW later \in ClockReadings,
               ThreadStartFailed(c, k, publish, now, later)
        PROVE  ProgressInv'
    BY <1>3, ThreadStartFailedProgress
  <1>4. ASSUME NEW c \in Callers,
               PreparationSucceeded(c)
        PROVE  ProgressInv'
    <2>1. KeptReports
      BY <1>4, ReportsSame DEF PreparationSucceeded
    <2>2. SameCaptures
      BY <1>4, SameCaptureGoto DEF PreparationSucceeded, At, Held
    <2>3. QED
      BY <1>4, <2>1, <2>2, ProgressKept DEF PreparationSucceeded, slots, owner
  <1>5. ASSUME NEW c \in Callers,
               PreparationFailed(c)
        PROVE  ProgressInv'
    <2>1. KeptReports
      BY <1>5, ReportsSame DEF PreparationFailed
    <2>2. SameCaptures
      BY <1>5, SameCaptureGoto DEF PreparationFailed, At, Held
    <2>3. QED
      BY <1>5, <2>1, <2>2, ProgressKept DEF PreparationFailed, slots, owner, TypeOK
  <1>6. ASSUME NEW c \in Callers,
               JoinFailed(c)
        PROVE  ProgressInv'
    <2>1. KeptReports
      BY <1>6, KeptReportJoin DEF JoinFailed
    <2>2. SameCaptures
      BY <1>6, SameCaptureReturn DEF JoinFailed, At, Held
    <2>3. QED
      BY <1>6, <2>1, <2>2, ProgressKept DEF JoinFailed, slots, owner
  <1>7. ASSUME NEW c \in Callers, NEW now \in ClockReadings,
               CommitStart(c, now)
        PROVE  ProgressInv'
    BY <1>7, CommitStartProgress
  <1>8. ASSUME NEW c \in Callers,
               StopBeforeRelease(c)
        PROVE  ProgressInv'
    <2>1. KeptReports
      BY <1>8, KeptReportRaise DEF StopBeforeRelease
    <2>2. SameCaptures
      BY <1>8, SameCaptureGoto DEF StopBeforeRelease, At, Held
    <2>3. QED
      BY <1>8, <2>1, <2>2, ProgressKept DEF StopBeforeRelease, slots, owner
  <1>9. ASSUME NEW c \in Callers,
               ReleaseGate(c)
        PROVE  ProgressInv'
    <2>1. \A g \in JobIds : KeepsReport(job[g], [job[g] EXCEPT !.gate = "committed"])
      BY <1>9 DEF KeepsReport, TypeOK, Jobs
    <2>2. KeptReports
      BY <1>9, <2>1, KeptReportUpdate DEF ReleaseGate
    <2>3. SameCaptures
      BY <1>9, SameCaptureReturn DEF ReleaseGate, At, Held
    <2>4. QED
      BY <1>9, <2>2, <2>3, ProgressKept DEF ReleaseGate, slots, owner
  <1>10. ASSUME NEW c \in Callers,
                CancelStart(c)
         PROVE  ProgressInv'
    <2>1. job[call[c].job].gate = "pending"
      BY <1>10, HeldJob DEF CancelStart, At, Holding
    <2>2. call[c].job \in JobIds =>
             KeepsReport(job[call[c].job], [job[call[c].job] EXCEPT !.gate = "cancelled"])
      BY <1>10, <2>1 DEF KeepsReport, TypeOK, Jobs
    <2>3. KeptReports
      BY <1>10, <2>1, <2>2, KeptReportUpdate DEF CancelStart
    <2>4. SameCaptures
      BY <1>10, SameCaptureGoto DEF CancelStart, At, Held
    <2>5. QED
      BY <1>10, <2>3, <2>4, ProgressKept DEF CancelStart, slots, owner
  <1>11. ASSUME NEW c \in Callers,
                JoinCancelled(c)
         PROVE  ProgressInv'
    <2>1. KeptReports
      BY <1>11, KeptReportJoin DEF JoinCancelled
    <2>2. SameCaptures
      BY <1>11, SameCaptureReturn DEF JoinCancelled, At, Held
    <2>3. QED
      BY <1>11, <2>1, <2>2, ProgressKept DEF JoinCancelled, slots, owner, TypeOK
  <1>12. ASSUME NEW g \in JobIds, NEW ok \in BOOLEAN,
                Prepare(g, ok)
         PROVE  ProgressInv'
    <2>1. KeepsReport(job[g], [job[g] EXCEPT !.worker = IF ok THEN "gated" ELSE "exited"])
      BY <1>12 DEF KeepsReport, TypeOK, Jobs
    <2>2. KeptReports
      BY <1>12, <2>1, KeptReportUpdate DEF Prepare
    <2>3. SameCaptures
      BY <1>12, CapturesSame DEF Prepare
    <2>4. QED
      BY <1>12, <2>2, <2>3, ProgressKept DEF Prepare, slots, owner
  <1>13. ASSUME NEW g \in JobIds,
                PassGate(g)
         PROVE  ProgressInv'
    <2>1. KeepsReport(job[g], [job[g] EXCEPT !.worker =
             IF job[g].gate = "committed" THEN "running" ELSE "exited"])
      BY <1>13 DEF KeepsReport, TypeOK, Jobs
    <2>2. KeptReports
      BY <1>13, <2>1, KeptReportUpdate DEF PassGate
    <2>3. SameCaptures
      BY <1>13, CapturesSame DEF PassGate
    <2>4. QED
      BY <1>13, <2>2, <2>3, ProgressKept DEF PassGate, slots, owner
  <1>14. ASSUME NEW g \in JobIds, NEW now \in ClockReadings,
                Report(g, now)
         PROVE  ProgressInv'
    BY <1>14, ReportProgress
  <1>15. ASSUME NEW g \in JobIds, NEW now \in ClockReadings,
                Finish(g, now)
         PROVE  ProgressInv'
    <2>1. KeepsReport(job[g], Terminal(job[g], now))
      BY <1>15 DEF KeepsReport, Terminal, TypeOK, Jobs
    <2>2. KeptReports
      BY <1>15, <2>1, KeptReportUpdate DEF Finish
    <2>3. SameCaptures
      BY <1>15, CapturesSame DEF Finish
    <2>4. QED
      BY <1>15, <2>2, <2>3, ProgressKept DEF Finish, slots, owner
  <1>16. ASSUME NEW c \in Callers, NEW k \in Configs, NEW now \in ClockReadings,
                PrepareStop(c, k, now)
         PROVE  ProgressInv'
    BY <1>16, PrepareStopProgress
  <1>17. ASSUME NEW c \in Callers, NEW now \in ClockReadings,
                PrepareStopAll(c, now)
         PROVE  ProgressInv'
    BY <1>17, PrepareStopAllProgress
  <1>18. ASSUME NEW c \in Callers, NEW commit \in BOOLEAN, NEW now \in ClockReadings,
                ResolveStop(c, commit, now)
         PROVE  ProgressInv'
    BY <1>18, ResolveStopProgress
  <1>19. ASSUME NEW c \in Callers, NEW commit \in BOOLEAN, NEW now \in ClockReadings,
                ResolveStopAll(c, commit, now)
         PROVE  ProgressInv'
    BY <1>19, ResolveStopAllProgress
  <1>20. ASSUME NEW c \in Callers, NEW k \in Configs, NEW now \in ClockReadings,
                StopAfterShutdown(c, k, now)
         PROVE  ProgressInv'
    <2>1. current[k] \in JobIds => KeepsReport(job[current[k]], Stopping(job[current[k]], now))
      BY <1>20 DEF KeepsReport, Stopping, TypeOK, Jobs
    <2>2. [Idle EXCEPT !.at = "deliver", !.captured = {current[k]}].at \notin Held
      BY <1>20 DEF Idle, Held
    <2>3. KeptReports
      BY <1>20, <2>1, KeptReportUpdate DEF StopAfterShutdown
    <2>4. SameCaptures
      BY <1>20, <2>2, SameCaptureUpdate DEF StopAfterShutdown, At, Held
    <2>5. QED
      BY <1>20, <2>3, <2>4, ProgressKept DEF StopAfterShutdown, slots, owner
  <1>21. ASSUME NEW c \in Callers, NEW g \in JobIds,
                Deliver(c, g)
         PROVE  ProgressInv'
    <2>1. Idle.at \notin Held /\ Delivered(call[c], g).at \notin Held
      BY <1>21 DEF Deliver, At, Delivered, Idle, Held, TypeOK, Calls
    <2>2. KeptReports
      BY <1>21, KeptReportRaise DEF Deliver
    <2>3. SameCaptures
      BY <1>21, <2>1, SameCaptureUpdate DEF Deliver, At, Held
    <2>4. QED
      BY <1>21, <2>2, <2>3, ProgressKept DEF Deliver, slots, owner
  <1>22. ASSUME NEW c \in Callers,
                Shutdown(c)
         PROVE  ProgressInv'
    <2>1. KeptReports
      BY <1>22, ReportsSame DEF Shutdown, Initiate
    <2>2. SameCaptures
      BY <1>22, SameCaptureGoto DEF Shutdown, At, Held
    <2>3. QED
      BY <1>22, <2>1, <2>2, ProgressKept DEF Shutdown, slots, owner, Initiate
  <1>23. ASSUME NEW c \in Callers,
                NestedShutdown(c)
         PROVE  ProgressInv'
    <2>1. KeptReports
      BY <1>23, ReportsSame DEF NestedShutdown, Initiate
    <2>2. SameCaptures
      BY <1>23, CapturesSame DEF NestedShutdown
    <2>3. QED
      BY <1>23, <2>1, <2>2, ProgressKept DEF NestedShutdown, slots, owner, Initiate
  <1>24. ASSUME NEW g \in JobIds,
                WorkerShutdown(g)
         PROVE  ProgressInv'
    <2>1. KeptReports
      BY <1>24, ReportsSame DEF WorkerShutdown, Initiate
    <2>2. SameCaptures
      BY <1>24, CapturesSame DEF WorkerShutdown
    <2>3. QED
      BY <1>24, <2>1, <2>2, ProgressKept DEF WorkerShutdown, slots, owner, Initiate
  <1>25. ASSUME NEW a \in Actors, NEW k \in Configs, NEW now \in ClockReadings,
                SweepFind(a, k, now)
         PROVE  ProgressInv'
    <2>1. current[k] \in JobIds =>
             KeepsReport(job[current[k]],
                         IF job[current[k]].phase = "running"
                         THEN Stopping(discard_pending_progress(job[current[k]]), now)
                         ELSE discard_pending_progress(job[current[k]]))
      BY <1>25 DEF KeepsReport, Stopping, discard_pending_progress, TypeOK, Jobs
    <2>2. KeptReports
      BY <1>25, <2>1, ReportsSame, KeptReportUpdate DEF SweepFind
    <2>3. SameCaptures
      BY <1>25, CapturesSame DEF SweepFind
    <2>4. QED
      BY <1>25, <2>2, <2>3, ProgressKept DEF SweepFind, slots, owner
  <1>26. ASSUME NEW a \in Actors,
                SweepDeliver(a)
         PROVE  ProgressInv'
    <2>1. KeptReports
      BY <1>26, KeptReportRaise DEF SweepDeliver
    <2>2. SameCaptures
      BY <1>26, CapturesSame DEF SweepDeliver
    <2>3. QED
      BY <1>26, <2>1, <2>2, ProgressKept DEF SweepDeliver, slots, owner
  <1>27. ASSUME NEW a \in Actors,
                SweepDone(a)
         PROVE  ProgressInv'
    <2>1. KeptReports
      BY <1>27, ReportsSame DEF SweepDone
    <2>2. SameCaptures
      BY <1>27, CapturesSame DEF SweepDone
    <2>3. QED
      BY <1>27, <2>1, <2>2, ProgressKept DEF SweepDone, slots, owner
  <1>28. ASSUME NEW c \in Callers,
                LockDrain(c)
         PROVE  ProgressInv'
    <2>1. KeptReports
      BY <1>28, ReportsSame DEF LockDrain
    <2>2. SameCaptures
      BY <1>28, SameCaptureGoto DEF LockDrain, At, Held
    <2>3. QED
      BY <1>28, <2>1, <2>2, ProgressKept DEF LockDrain, slots, owner
  <1>29. ASSUME NEW c \in Callers,
                AwaitReservations(c)
         PROVE  ProgressInv'
    <2>1. KeptReports
      BY <1>29, ReportsSame DEF AwaitReservations
    <2>2. SameCaptures
      BY <1>29, SameCaptureGoto DEF AwaitReservations, At, Held
    <2>3. QED
      BY <1>29, <2>1, <2>2, ProgressKept DEF AwaitReservations, slots, owner
  <1>30. ASSUME NEW c \in Callers, NEW k \in Configs,
                DrainPick(c, k)
         PROVE  ProgressInv'
    <2>1. [call[c] EXCEPT !.at = "drain_join", !.job = current[k]].at \notin Held
      BY <1>30 DEF Held, TypeOK, Calls
    <2>2. KeptReports
      BY <1>30, ReportsSame DEF DrainPick
    <2>3. SameCaptures
      BY <1>30, <2>1, SameCaptureUpdate DEF DrainPick, At, Held
    <2>4. QED
      BY <1>30, <2>2, <2>3, ProgressKept DEF DrainPick, slots, owner
  <1>31. ASSUME NEW c \in Callers,
                DrainJoin(c)
         PROVE  ProgressInv'
    <2>1. [call[c] EXCEPT !.at = "drain", !.job = NoJob].at \notin Held
      BY <1>31 DEF Held, TypeOK, Calls
    <2>2. KeptReports
      BY <1>31, KeptReportJoin DEF DrainJoin
    <2>3. SameCaptures
      BY <1>31, <2>1, SameCaptureUpdate DEF DrainJoin, At, Held
    <2>4. QED
      BY <1>31, <2>2, <2>3, ProgressKept DEF DrainJoin, slots, owner
  <1>32. ASSUME NEW c \in Callers,
                ShutdownReturns(c)
         PROVE  ProgressInv'
    <2>1. KeptReports
      BY <1>32, ReportsSame DEF ShutdownReturns
    <2>2. SameCaptures
      BY <1>32, SameCaptureReturn DEF ShutdownReturns, At, Held
    <2>3. QED
      BY <1>32, <2>1, <2>2, ProgressKept DEF ShutdownReturns, slots, owner
  <1>33. CASE UNCHANGED vars
    BY <1>33, ReportsSame, CapturesSame, ProgressKept DEF vars, slots, owner
  <1>34. QED
    BY <1>1, <1>2, <1>3, <1>4, <1>5, <1>6, <1>7, <1>8, <1>9, <1>10, <1>11, <1>12, <1>13,
       <1>14, <1>15, <1>16, <1>17, <1>18, <1>19, <1>20, <1>21, <1>22, <1>23, <1>24, <1>25,
       <1>26, <1>27, <1>28, <1>29, <1>30, <1>31, <1>32, <1>33
       DEF Next, CallerStep, WorkerStep, SweepStep

LEMMA ProgressInit == Init => ProgressInv
  BY DEF Init, ProgressInv, CapturesAreCurrent, ReservedStopsAreHeld, LastReportIsKept, Idle, Unborn

\* No report a running generation was told is accepted is lost: it is shown at once, or
\* staged behind a stop reply and shown when the reply is aborted.
THEOREM ProgressNotLostAlways == Spec => []ProgressNotLost
  <1>1. TypeOK /\ OwnerInv /\ AccountsInv /\ ProgressInv => ProgressNotLost
    BY CapturedIsStaged DEF ProgressInv, LastReportIsKept, ProgressNotLost, Held
  <1>2. QED
    BY <1>1, OwnerAccounts, ProgressInit, ProgressStep, PTL DEF Spec

-----------------------------------------------------------------------------
(* SnapshotInv and Advances: timestamps *)

LEMMA NextIsLater ==
    ASSUME NEW p \in Nat, p <= JsonSafeMax, NEW now \in ClockReadings
    PROVE  /\ NextTimestamp(p, now) \in Nat /\ NextTimestamp(p, now) <= JsonSafeMax
           /\ NextTimestamp(p, now) >= p /\ Later(p, NextTimestamp(p, now))
  <1>1. now \in Nat /\ now <= JsonSafeMax /\ JsonSafeMax \in Nat
    BY ConstantsAssumption
  <1>2. QED
    BY <1>1 DEF NextTimestamp, Later

SameSnapshot(j, i) == i.phase = j.phase /\ i.shown = j.shown /\ i.timestamp = j.timestamp
KeepsTime(j, i) ==
    /\ i.timestamp <= JsonSafeMax
    /\ j.phase = "completed" => i.timestamp = j.timestamp
    /\ i.phase = "running" => j.phase = "running"
    /\ SameSnapshot(j, i) \/ Later(j.timestamp, i.timestamp)
\* A job that runs on is not stamped.
KeptTime(j, i) == KeepsTime(j, i) /\ (i.phase = "running" => i.timestamp = j.timestamp)
KeptTimes == \A g \in JobIds : KeptTime(job[g], job'[g])

\* The stop reservations that are left are old ones, and their jobs were not stamped.
HeldTimesKept ==
    \A c \in Callers : call'[c].at \in Held =>
        /\ call'[c] = call[c]
        /\ \A g \in call[c].running :
              job'[g].phase = "running" => job'[g].timestamp = job[g].timestamp

StepAdvances == SnapshotInv' /\ \A k \in Configs : Advances(k)

LEMMA SafeTime ==
    ASSUME TypeOK, SnapshotInv, NEW g \in JobIds
    PROVE  job[g] \in Jobs /\ job[g].timestamp \in Nat /\ job[g].timestamp <= JsonSafeMax
  BY DEF TypeOK, Jobs, SnapshotInv, StampsAreSafe

\* Only the record fields of a snapshot count.
LEMMA SameSnapshotIsKept ==
    ASSUME TypeOK, SnapshotInv, NEW g \in JobIds, NEW i, SameSnapshot(job[g], i)
    PROVE  KeptTime(job[g], i)
  BY SafeTime DEF SameSnapshot, KeepsTime, KeptTime

LEMMA TimesSame == ASSUME TypeOK, SnapshotInv, UNCHANGED job PROVE KeptTimes
  BY SameSnapshotIsKept DEF KeptTimes, SameSnapshot

LEMMA KeptTimeUpdate ==
    ASSUME TypeOK, SnapshotInv, NEW g, NEW j, g \in JobIds => KeptTime(job[g], j),
           job' = [job EXCEPT ![g] = j]
    PROVE  KeptTimes
  <1>1. ASSUME NEW h \in JobIds
        PROVE  KeptTime(job[h], job'[h])
    <2>1. CASE h = g
      BY <2>1 DEF TypeOK
    <2>2. CASE h # g
      BY <2>2, SameSnapshotIsKept DEF SameSnapshot, TypeOK
    <2>3. QED
      BY <2>1, <2>2
  <1>2. QED
    BY <1>1 DEF KeptTimes

\* An update of the gate, the thread or the token.
LEMMA KeptTimeField ==
    ASSUME TypeOK, SnapshotInv, NEW g, NEW x,
           \/ job' = [job EXCEPT ![g].stop = x]
           \/ job' = [job EXCEPT ![g].gate = x]
           \/ job' = [job EXCEPT ![g].worker = x]
    PROVE  KeptTimes
  <1>1. \A h \in JobIds : SameSnapshot(job[h], job'[h])
    BY DEF SameSnapshot, TypeOK, Jobs
  <1>2. QED
    BY <1>1, SameSnapshotIsKept DEF KeptTimes

LEMMA StoppingIsKept ==
    ASSUME TypeOK, SnapshotInv, NEW g \in JobIds, job[g].phase # "completed",
           NEW now \in ClockReadings
    PROVE  /\ KeptTime(job[g], Stopping(job[g], now))
           /\ KeptTime(job[g], Stopping(discard_pending_progress(job[g]), now))
  BY SafeTime, NextIsLater DEF Stopping, discard_pending_progress, KeptTime, KeepsTime, Jobs

LEMMA ReapTimes ==
    ASSUME TypeOK, SnapshotInv, NEW k \in Configs, NEW g \in JobIds
    PROVE  KeptTime(job[g], ReapPrevious(k)[g])
  <1>1. SameSnapshot(job[g], ReapPrevious(k)[g])
    BY DEF ReapPrevious, SameSnapshot, TypeOK, Jobs
  <1>2. QED
    BY <1>1, SameSnapshotIsKept

\* Neither a reserved generation nor its predecessor is being stamped.
LEMMA ReservedIsCompleted ==
    ASSUME TypeOK, OwnerInv, LifeInv, NEW k \in Configs, reserved[k] # NoJob
    PROVE  /\ reserved[k] \in JobIds /\ job[reserved[k]].phase = "completed"
           /\ current[k] # NoJob => current[k] \in JobIds /\ job[current[k]].phase = "completed"
  BY SlotTypes DEF OwnerInv, SlotsOfConfig, LifeInv, UncompletedIsCurrent

LEMMA SameCapturesKeepTimes ==
    ASSUME TypeOK, OwnerInv, StopInv, AccountsInv, ProgressInv, SameCaptures,
           \A g \in JobIds : (\E k \in Configs : current[k] = g) => KeptTime(job[g], job'[g])
    PROVE  HeldTimesKept
  <1>1. SUFFICES ASSUME NEW c \in Callers, call'[c].at \in Held
                 PROVE  /\ call'[c] = call[c]
                        /\ \A g \in call[c].running :
                              job'[g].phase = "running" => job'[g].timestamp = job[g].timestamp
    BY DEF HeldTimesKept
  <1>2. call'[c] = call[c] /\ call[c].at \in Held
    BY <1>1 DEF SameCaptures, SameCapture
  <1>3. ASSUME NEW g \in call[c].running
        PROVE  g \in JobIds /\ \E k \in Configs : current[k] = g
    <2>1. g \in call[c].captured
      BY <1>2 DEF StopInv, CapturedWasStarted, Held
    <2>2. QED
      BY <1>2, <2>1, CapturedIsStaged
  <1>4. QED
    BY <1>2, <1>3 DEF KeptTime

\* What the stop reservations that are left were promised still holds.
LEMMA HeldStamps ==
    ASSUME SnapshotInv, HeldTimesKept,
           \A c \in Callers : \A g \in call[c].running :
              call[c].at \in Held /\ job'[g].phase = "running" => job[g].phase = "running"
    PROVE  /\ StampsAreLater'
           /\ \A c \in Callers : call'[c].at \in Held =>
                 \A g \in call'[c].running : call'[c].stamp[g] <= JsonSafeMax
  <1>1. ASSUME NEW c \in Callers, call'[c].at \in Held, NEW g \in call'[c].running
        PROVE  /\ call'[c].stamp[g] <= JsonSafeMax
               /\ job'[g].phase = "running" => Later(job'[g].timestamp, call'[c].stamp[g])
    <2>1. /\ call'[c] = call[c] /\ g \in call[c].running
          /\ job'[g].phase = "running" => job'[g].timestamp = job[g].timestamp
      BY <1>1 DEF HeldTimesKept
    <2>2. job'[g].phase = "running" => job[g].phase = "running"
      BY <1>1, <2>1
    <2>3. QED
      BY <1>1, <2>1, <2>2 DEF SnapshotInv, StampsAreSafe, StampsAreLater, Held
  <1>2. QED
    BY <1>1 DEF StampsAreLater, Held

LEMMA RunningIsJob ==
    ASSUME TypeOK, OwnerInv, StopInv, AccountsInv, ProgressInv, NEW c \in Callers,
           call[c].at \in Held, NEW g \in call[c].running
    PROVE  g \in JobIds /\ g \in call[c].captured /\ Staged(g) /\ \E k \in Configs : current[k] = g
  BY CapturedIsStaged DEF StopInv, CapturedWasStarted, Held

\* Steps that leave the current generations alone and reserve nothing.
LEMMA SnapshotKept ==
    ASSUME TypeOK, OwnerInv, StopInv, LifeInv, AccountsInv, ProgressInv, SnapshotInv,
           \A g \in JobIds : KeepsTime(job[g], job'[g]), HeldTimesKept, UNCHANGED current,
           \A k \in Configs : reserved'[k] \in {reserved[k], NoJob}
    PROVE  StepAdvances
  <1>1. StampsAreSafe' /\ StampsAreLater'
    <2>1. \A c \in Callers : \A g \in call[c].running :
             call[c].at \in Held /\ job'[g].phase = "running" => job[g].phase = "running"
      BY RunningIsJob DEF KeepsTime
    <2>2. QED
      BY <2>1, HeldStamps DEF StampsAreSafe, KeepsTime, Held
  <1>2. SuccessorIsLater'
    <2>1. ASSUME NEW k \in Configs, reserved'[k] # NoJob, current'[k] # NoJob
          PROVE  /\ reserved'[k] > current'[k]
                 /\ Later(job'[current'[k]].timestamp, job'[reserved'[k]].timestamp)
      <3>1. /\ reserved'[k] = reserved[k] /\ current'[k] = current[k]
            /\ reserved[k] # NoJob /\ current[k] # NoJob
        BY <2>1
      <3>2. /\ job'[reserved[k]].timestamp = job[reserved[k]].timestamp
            /\ job'[current[k]].timestamp = job[current[k]].timestamp
        BY <3>1, ReservedIsCompleted DEF KeepsTime
      <3>3. QED
        BY <3>1, <3>2 DEF SnapshotInv, SuccessorIsLater
    <2>2. QED
      BY <2>1 DEF SuccessorIsLater
  <1>3. ASSUME NEW k \in Configs
        PROVE  Advances(k)
    <2>1. current[k] # NoJob => current[k] \in JobIds /\ current[k] >= current[k]
      BY SlotTypes DEF JobIds
    <2>2. current'[k] = current[k]
      OBVIOUS
    <2>3. QED
      BY <2>1, <2>2 DEF Advances, KeepsTime, SameSnapshot
  <1>4. QED
    BY <1>1, <1>2, <1>3 DEF StepAdvances, SnapshotInv

LEMMA SnapshotQuiet ==
    ASSUME TypeOK, OwnerInv, StopInv, LifeInv, AccountsInv, ProgressInv, SnapshotInv,
           KeptTimes, SameCaptures, UNCHANGED current,
           \A k \in Configs : reserved'[k] \in {reserved[k], NoJob}
    PROVE  StepAdvances
  <1>1. HeldTimesKept
    BY SameCapturesKeepTimes DEF KeptTimes
  <1>2. QED
    BY <1>1, SnapshotKept DEF KeptTimes, KeptTime

\* Generation n comes into slot k, reserved or shown, as the successor of the current one.
LEMMA SnapshotMoved ==
    ASSUME TypeOK, OwnerInv, StopInv, LifeInv, AccountsInv, ProgressInv, SnapshotInv,
           NEW k \in Configs, NEW n \in JobIds, SameCaptures,
           \A l \in Configs : current[l] # n, \A l \in Configs \ {k} : reserved[l] # n,
           \A g \in JobIds \ {n} : KeptTime(job[g], job'[g]), job'[n].timestamp <= JsonSafeMax,
           current[k] # NoJob => /\ n > current[k] /\ job[current[k]].phase = "completed"
                                 /\ Later(job[current[k]].timestamp, job'[n].timestamp),
           \A l \in Configs \ {k} : reserved'[l] = reserved[l] /\ current'[l] = current[l],
           \/ reserved'[k] = n /\ current'[k] = current[k]
           \/ reserved'[k] = NoJob /\ current'[k] \in {current[k], n}
    PROVE  StepAdvances
  <1>1. HeldTimesKept
    BY SameCapturesKeepTimes
  <1>2. StampsAreSafe' /\ StampsAreLater'
    <2>1. \A c \in Callers : \A g \in call[c].running :
             call[c].at \in Held /\ job'[g].phase = "running" => job[g].phase = "running"
      BY RunningIsJob DEF KeptTime, KeepsTime
    <2>2. QED
      BY <1>1, <2>1, HeldStamps DEF StampsAreSafe, KeptTime, KeepsTime, Held
  <1>3. ASSUME NEW l \in Configs, current[l] # NoJob
        PROVE  /\ current[l] \in JobIds \ {n}
               /\ KeepsTime(job[current[l]], job'[current[l]])
    BY <1>3, SlotTypes DEF KeptTime
  <1>4. ASSUME NEW l \in Configs, reserved'[l] # NoJob, current'[l] # NoJob
        PROVE  /\ reserved'[l] > current'[l]
               /\ Later(job'[current'[l]].timestamp, job'[reserved'[l]].timestamp)
    <2>1. CASE l = k
      <3>1. reserved'[k] = n /\ current'[k] = current[k] /\ current[k] # NoJob
        BY <1>4, <2>1
      <3>2. job'[current[k]].timestamp = job[current[k]].timestamp
        BY <1>3, <3>1 DEF KeepsTime
      <3>3. QED
        BY <2>1, <3>1, <3>2
    <2>2. CASE l # k
      <3>1. /\ reserved'[l] = reserved[l] /\ current'[l] = current[l]
            /\ reserved[l] # NoJob /\ current[l] # NoJob /\ reserved[l] # n
        BY <1>4, <2>2
      <3>2. /\ job'[reserved[l]].timestamp = job[reserved[l]].timestamp
            /\ job'[current[l]].timestamp = job[current[l]].timestamp
        BY <1>3, <3>1, ReservedIsCompleted DEF KeptTime, KeepsTime
      <3>3. QED
        BY <3>1, <3>2 DEF SnapshotInv, SuccessorIsLater
    <2>3. QED
      BY <2>1, <2>2
  <1>5. ASSUME NEW l \in Configs
        PROVE  Advances(l)
    <2>1. SUFFICES ASSUME current[l] # NoJob
                   PROVE  Advances(l)
      BY DEF Advances
    <2>2. /\ current[l] >= current[l]
          /\ \/ SameSnapshot(job[current[l]], job'[current[l]])
             \/ Later(job[current[l]].timestamp, job'[current[l]].timestamp)
      BY <1>3, <2>1 DEF KeepsTime, JobIds
    <2>3. CASE current'[l] = current[l]
      BY <2>2, <2>3 DEF Advances, SameSnapshot
    <2>4. CASE current'[l] # current[l]
      <3>1. l = k /\ current'[k] = n /\ n > current[k] /\ current[k] # NoJob
        BY <2>1, <2>4
      <3>2. n >= current[k]
        BY <1>3, <3>1 DEF JobIds
      <3>3. QED
        BY <3>1, <3>2 DEF Advances
    <2>5. QED
      BY <2>3, <2>4
  <1>6. QED
    BY <1>2, <1>4, <1>5 DEF StepAdvances, SnapshotInv, SuccessorIsLater

-----------------------------------------------------------------------------
(* SnapshotInv and Advances: starts *)

\* A new generation has the highest number, and a timestamp later than its predecessor's.
LEMMA NewJobIsLater ==
    ASSUME TypeOK, OwnerInv, SnapshotInv, NEW k \in Configs, StartAdmissible(k), TakeGeneration,
           NEW now \in ClockReadings, NEW worker
    PROVE  LET n == next_job_generation  j == NewJob(k, now, worker) IN
           /\ j.timestamp \in Nat /\ j.timestamp <= JsonSafeMax
           /\ current[k] # NoJob =>
                 /\ n > current[k] /\ job[current[k]].phase = "completed"
                 /\ job[current[k]].timestamp \in Nat
                 /\ Later(job[current[k]].timestamp, j.timestamp)
  <1> DEFINE p == IF current[k] = NoJob THEN 0 ELSE job[current[k]].timestamp
  <1>1. p \in Nat /\ p <= JsonSafeMax
    BY SlotTypes, SafeTime, ConstantsAssumption
  <1>2. /\ NextTimestamp(p, now) \in Nat /\ NextTimestamp(p, now) <= JsonSafeMax
        /\ Later(p, NextTimestamp(p, now))
    BY <1>1, NextIsLater
  <1>3. NewJob(k, now, worker).timestamp = NextTimestamp(p, now)
    BY DEF NewJob, Unborn
  <1>4. ASSUME current[k] # NoJob
        PROVE  next_job_generation > current[k] /\ job[current[k]].phase = "completed"
    <2>1. /\ current[k] \in JobIds /\ job[current[k]].config_id = k
          /\ job[current[k]].phase = "completed"
      BY <1>4, SlotTypes DEF OwnerInv, SlotsOfConfig, StartAdmissible
    <2>2. k # NoConfig /\ next_job_generation # 0 /\ next_job_generation \in Nat
      BY ConstantsAssumption DEF TakeGeneration, TypeOK
    <2>3. ~(current[k] >= next_job_generation)
      BY <2>1, <2>2 DEF OwnerInv, UnbornHasNoWorker
    <2>4. QED
      BY <2>1, <2>2, <2>3 DEF JobIds
  <1>5. QED
    BY <1>1, <1>2, <1>3, <1>4

LEMMA PrepareStartAdvances ==
    ASSUME TypeOK, OwnerInv, StopInv, LifeInv, AccountsInv, ProgressInv, SnapshotInv,
           NEW c \in Callers, NEW k \in Configs, NEW kind \in BackendKinds,
           NEW now \in ClockReadings, PrepareStart(c, k, kind, now)
    PROVE  StepAdvances
  <1>1. StartAdmissible(k) /\ TakeGeneration /\ current' = current
    BY DEF PrepareStart
  <1>2. PICK n \in JobIds : n = next_job_generation
    BY <1>1, FreshGeneration
  <1>3. \A l \in Configs : current[l] # n /\ reserved[l] # n
    BY <1>1, <1>2, FreshGeneration
  <1>4. PICK worker : job'[n] = NewJob(k, now, worker)
    BY <1>2 DEF PrepareStart, ReapPrevious, TypeOK
  <1>5. \A g \in JobIds \ {n} : KeptTime(job[g], job'[g])
    <2>1. \A g \in JobIds \ {n} : job'[g] = ReapPrevious(k)[g]
      BY <1>2 DEF PrepareStart, ReapPrevious, TypeOK
    <2>2. QED
      BY <2>1, ReapTimes
  <1>6. SameCaptures
    <2>1. /\ call'[c].at \notin Held /\ call[c].at \notin Held
          /\ \A d \in Callers \ {c} : call'[d] = call[d]
      BY DEF PrepareStart, At, Idle, Held, TypeOK
    <2>2. QED
      BY <2>1, SameCaptureItself DEF SameCaptures, SameCapture
  <1>7. reserved'[k] = n /\ \A l \in Configs \ {k} : reserved'[l] = reserved[l]
    BY <1>2 DEF PrepareStart, TypeOK
  <1>8. /\ job'[n].timestamp <= JsonSafeMax
        /\ current[k] # NoJob => /\ n > current[k] /\ job[current[k]].phase = "completed"
                                 /\ Later(job[current[k]].timestamp, job'[n].timestamp)
    BY <1>1, <1>2, <1>4, NewJobIsLater
  <1>9. QED
    BY <1>1, <1>3, <1>5, <1>6, <1>7, <1>8, SnapshotMoved

LEMMA ThreadStartFailedAdvances ==
    ASSUME TypeOK, OwnerInv, StopInv, LifeInv, AccountsInv, ProgressInv, SnapshotInv,
           NEW c \in Callers, NEW k \in Configs, NEW publish \in BOOLEAN,
           NEW now \in ClockReadings, NEW later \in ClockReadings,
           ThreadStartFailed(c, k, publish, now, later)
    PROVE  StepAdvances
  <1>1. /\ StartAdmissible(k) /\ TakeGeneration /\ reserved[k] = NoJob
        /\ UNCHANGED <<reserved, call>>
    BY DEF ThreadStartFailed, StartAdmissible
  <1>2. PICK n \in JobIds : n = next_job_generation
    BY <1>1, FreshGeneration
  <1>3. \A l \in Configs : current[l] # n /\ reserved[l] # n
    BY <1>1, <1>2, FreshGeneration
  <1> DEFINE t == NewJob(k, now, "none").timestamp
  <1>4. job'[n].timestamp = NextTimestamp(t, later)
    BY <1>2 DEF ThreadStartFailed, ReapPrevious, NewJob, Unborn, TypeOK
  <1>5. \A g \in JobIds \ {n} : KeptTime(job[g], job'[g])
    <2>1. \A g \in JobIds \ {n} : job'[g] = ReapPrevious(k)[g]
      BY <1>2 DEF ThreadStartFailed, ReapPrevious, TypeOK
    <2>2. QED
      BY <2>1, ReapTimes
  <1>6. current'[k] \in {current[k], n} /\ \A l \in Configs \ {k} : current'[l] = current[l]
    BY <1>2 DEF ThreadStartFailed, TypeOK
  <1>7. /\ t \in Nat /\ t <= JsonSafeMax
        /\ current[k] # NoJob => /\ n > current[k] /\ job[current[k]].phase = "completed"
                                 /\ job[current[k]].timestamp \in Nat
                                 /\ Later(job[current[k]].timestamp, t)
    BY <1>1, <1>2, NewJobIsLater
  <1>8. /\ job'[n].timestamp \in Nat /\ job'[n].timestamp <= JsonSafeMax
        /\ job'[n].timestamp >= t
    BY <1>4, <1>7, NextIsLater
  <1>9. current[k] # NoJob => Later(job[current[k]].timestamp, job'[n].timestamp)
    BY <1>7, <1>8 DEF Later
  <1>10. QED
    BY <1>1, <1>3, <1>5, <1>6, <1>7, <1>8, <1>9, CapturesSame, SnapshotMoved

LEMMA StartExhaustedAdvances ==
    ASSUME TypeOK, OwnerInv, StopInv, LifeInv, AccountsInv, ProgressInv, SnapshotInv,
           NEW c \in Callers, NEW k \in Configs, StartExhausted(c, k)
    PROVE  StepAdvances
  <1>1. KeptTimes
    BY ReapTimes DEF StartExhausted, KeptTimes
  <1>2. QED
    BY <1>1, CapturesSame, SnapshotQuiet DEF StartExhausted, slots

LEMMA CommitStartAdvances ==
    ASSUME TypeOK, OwnerInv, StopInv, LifeInv, AccountsInv, ProgressInv, SnapshotInv,
           NEW c \in Callers, NEW now \in ClockReadings, CommitStart(c, now)
    PROVE  StepAdvances
  <1>1. call[c].at = "start_held"
    BY DEF CommitStart, At
  <1>2. PICK n \in JobIds, k \in Configs : n = call[c].job /\ k = call[c].config
    BY <1>1, HeldJob DEF Holding
  <1>3. /\ reserved[k] = n /\ n # NoJob /\ \A l \in Configs : current[l] # n
        /\ \A l \in Configs \ {k} : reserved[l] # n
    BY <1>1, <1>2, HeldJob, HeldAlone DEF Holding
  <1>4. \A g \in JobIds \ {n} : KeptTime(job[g], job'[g])
    <2>1. \A g \in JobIds \ {n} : job'[g] = job[g]
      BY <1>2 DEF CommitStart, TypeOK
    <2>2. QED
      BY <2>1, SameSnapshotIsKept DEF SameSnapshot
  <1>5. \/ job'[n].timestamp = job[n].timestamp
        \/ job'[n].timestamp = NextTimestamp(job[n].timestamp, now)
    BY <1>2 DEF CommitStart, Stopping, TypeOK, Jobs
  <1>6. /\ job'[n].timestamp \in Nat /\ job'[n].timestamp <= JsonSafeMax
        /\ job'[n].timestamp >= job[n].timestamp /\ job[n].timestamp \in Nat
    BY <1>5, SafeTime, NextIsLater
  <1>7. SameCaptures
    BY <1>1, SameCaptureGoto DEF CommitStart, Held
  <1>8. /\ reserved'[k] = NoJob /\ current'[k] = n
        /\ \A l \in Configs \ {k} : reserved'[l] = reserved[l] /\ current'[l] = current[l]
    BY <1>2 DEF CommitStart, TypeOK
  <1>9. ASSUME current[k] # NoJob
        PROVE  /\ n > current[k] /\ job[current[k]].phase = "completed"
               /\ Later(job[current[k]].timestamp, job'[n].timestamp)
    <2>1. /\ n > current[k] /\ Later(job[current[k]].timestamp, job[n].timestamp)
          /\ current[k] \in JobIds /\ job[current[k]].phase = "completed"
      BY <1>3, <1>9, ReservedIsCompleted DEF SnapshotInv, SuccessorIsLater
    <2>2. job[current[k]].timestamp \in Nat
      BY <2>1, SafeTime
    <2>3. QED
      BY <1>6, <2>1, <2>2 DEF Later
  <1>10. QED
    BY <1>3, <1>4, <1>6, <1>7, <1>8, <1>9, SnapshotMoved

-----------------------------------------------------------------------------
(* SnapshotInv and Advances: reports and stops *)

\* A report of a job that a stop reservation captured is staged: no snapshot is stamped.
LEMMA ReportAdvances ==
    ASSUME TypeOK, OwnerInv, StopInv, LifeInv, AccountsInv, ProgressInv, SnapshotInv,
           NEW g \in JobIds, NEW now \in ClockReadings, Report(g, now)
    PROVE  StepAdvances
  <1>1. /\ job[g].phase # "completed" /\ UNCHANGED <<current, reserved, call>>
        /\ \A h \in JobIds \ {g} : job'[h] = job[h]
        /\ job'[g] = IF Staged(g) THEN Stage(job[g]) ELSE Publish(job[g], now)
    BY DEF Report, slots, TypeOK
  <1>2. SameSnapshot(job[g], Stage(job[g]))
    BY SafeTime DEF SameSnapshot, Stage, Jobs
  <1>3. KeepsTime(job[g], Publish(job[g], now))
    BY <1>1, SafeTime, NextIsLater DEF KeepsTime, Publish, Jobs
  <1>4. \A h \in JobIds \ {g} : KeptTime(job[h], job'[h])
    BY <1>1, SameSnapshotIsKept DEF SameSnapshot
  <1>5. Staged(g) => KeptTime(job[g], job'[g])
    BY <1>1, <1>2, SameSnapshotIsKept
  <1>6. \A h \in JobIds : KeepsTime(job[h], job'[h])
    BY <1>1, <1>3, <1>4, <1>5 DEF KeptTime
  <1>7. HeldTimesKept
    <2>1. \A c \in Callers : \A h \in call[c].running : call[c].at \in Held =>
             h \in JobIds /\ Staged(h)
      BY RunningIsJob
    <2>2. QED
      BY <1>1, <1>4, <1>5, <2>1 DEF HeldTimesKept, KeptTime
  <1>8. QED
    BY <1>1, <1>6, <1>7, SnapshotKept

\* A stop reservation is promised a later timestamp than that of what it captured.
LEMMA CaptureAdvances ==
    ASSUME TypeOK, OwnerInv, StopInv, LifeInv, AccountsInv, ProgressInv, SnapshotInv,
           NEW c \in Callers, NEW where, NEW k, NEW S \in SUBSET JobIds,
           NEW now \in ClockReadings, Capture(c, where, k, S, now),
           UNCHANGED <<current, reserved, job>>
    PROVE  StepAdvances
  <1>1. /\ call'[c].running = {g \in S : job[g].phase = "running"}
        /\ call'[c].stamp = [g \in JobIds |->
              IF g \in call'[c].running THEN NextTimestamp(job[g].timestamp, now) ELSE 0]
        /\ \A d \in Callers \ {c} : call'[d] = call[d]
    BY DEF Capture, Idle, TypeOK
  <1>2. ASSUME NEW g \in call'[c].running
        PROVE  call'[c].stamp[g] <= JsonSafeMax /\ Later(job[g].timestamp, call'[c].stamp[g])
    <2>1. g \in JobIds /\ call'[c].stamp[g] = NextTimestamp(job[g].timestamp, now)
      BY <1>1, <1>2
    <2>2. QED
      BY <2>1, SafeTime, NextIsLater
  <1>3. StampsAreSafe' /\ StampsAreLater'
    BY <1>1, <1>2 DEF SnapshotInv, StampsAreSafe, StampsAreLater
  <1>4. SuccessorIsLater'
    BY DEF SnapshotInv, SuccessorIsLater
  <1>5. \A l \in Configs : current[l] # NoJob => current[l] >= current[l]
    BY SlotTypes DEF JobIds
  <1>6. QED
    BY <1>3, <1>4, <1>5 DEF StepAdvances, SnapshotInv, Advances

\* Two stop reservations never captured the same generation.
LEMMA CapturesApart ==
    ASSUME TypeOK, OwnerInv, AccountsInv, ProgressInv, NEW c \in Callers, NEW d \in Callers,
           c # d, call[c].at \in Held, call[d].at \in Held, NEW g \in call[c].captured
    PROVE  g \notin call[d].captured
  <1>1. ASSUME NEW a \in Callers, call[a].at = "stop_all_held"
        PROVE  \A b \in Callers \ {a} : call[b].at \notin Held
    <2>1. stop_all_reserved /\ \A b \in Callers \ {a} : call[b].at # "stop_all_held"
      BY <1>1 DEF AccountsInv, StopsAreHeld
    <2>2. \A k \in Configs : ~stop_reserved[k]
      BY <2>1 DEF ProgressInv, ReservedStopsAreHeld, StopReserved
    <2>3. QED
      BY <2>1, <2>2 DEF AccountsInv, StopsAreHeld, Held
  <1>2. /\ call[c].at = "stop_held" /\ call[d].at = "stop_held"
        /\ call[c].config # call[d].config
        /\ call[c].config \in Configs /\ call[d].config \in Configs
    BY <1>1 DEF Held, AccountsInv, StopsAreHeld
  <1>3. g = current[call[c].config] /\ g # NoJob /\ g \in JobIds
    BY <1>2, CapturedIsStaged DEF ProgressInv, CapturesAreCurrent, Captures
  <1>4. g # current[call[d].config]
    BY <1>2, <1>3 DEF OwnerInv, SlotsOfConfig
  <1>5. QED
    BY <1>2, <1>4 DEF ProgressInv, CapturesAreCurrent, Captures

\* A committed stop publishes the timestamp it was promised, or one later still.
LEMMA ResolvedAdvances ==
    ASSUME TypeOK, OwnerInv, StopInv, LifeInv, AccountsInv, ProgressInv, SnapshotInv,
           NEW c \in Callers, call[c].at \in Held, NEW commit \in BOOLEAN,
           NEW now \in ClockReadings, Resolved(c, commit, now), UNCHANGED <<current, reserved>>
    PROVE  StepAdvances
  <1>1. \A g \in JobIds \ call[c].captured : job'[g] = job[g]
    BY DEF Resolved
  <1>2. ASSUME NEW g \in JobIds
        PROVE  KeepsTime(job[g], job'[g])
    <2>1. /\ job[g] \in Jobs /\ job[g].timestamp \in Nat /\ job[g].timestamp <= JsonSafeMax
          /\ NextTimestamp(job[g].timestamp, now) <= JsonSafeMax
          /\ Later(job[g].timestamp, NextTimestamp(job[g].timestamp, now))
      BY SafeTime, NextIsLater
    <2>2. CASE g \notin call[c].captured
      BY <1>1, <2>2, SameSnapshotIsKept DEF SameSnapshot, KeptTime
    <2>3. CASE job'[g] = discard_pending_progress(job[g])
      <3>1. SameSnapshot(job[g], job'[g])
        BY <2>1, <2>3 DEF discard_pending_progress, SameSnapshot, Jobs
      <3>2. QED
        BY <3>1, SameSnapshotIsKept DEF KeptTime
    <2>4. CASE job[g].phase # "completed" /\ job'[g] = publish_pending_progress(job[g], now)
      BY <2>1, <2>4 DEF publish_pending_progress, KeepsTime, SameSnapshot, Jobs
    <2>5. CASE g \in Transitions(c) /\ job'[g] = StoppingAt(job[g], call[c].stamp[g])
      <3>1. g \in call[c].running /\ job[g].phase = "running"
        BY <2>5 DEF Transitions
      <3>2. call[c].stamp[g] <= JsonSafeMax /\ Later(job[g].timestamp, call[c].stamp[g])
        BY <3>1 DEF SnapshotInv, StampsAreSafe, StampsAreLater, Held
      <3>3. job'[g].phase = "stopping" /\ job'[g].timestamp = call[c].stamp[g]
        BY <2>1, <2>5 DEF StoppingAt, Jobs
      <3>4. QED
        BY <3>1, <3>2, <3>3 DEF KeepsTime
    <2>6. CASE g \in call[c].captured
      <3>1. job'[g] = IF commit THEN CommittedJob(c, g, now) ELSE AbortedJob(g, now)
        BY <2>6 DEF Resolved
      <3>2. CASE commit
        BY <2>3, <2>4, <2>5, <3>1, <3>2 DEF CommittedJob
      <3>3. CASE ~commit
        BY <2>3, <2>4, <3>1, <3>3 DEF AbortedJob
      <3>4. QED
        BY <3>2, <3>3
    <2>7. QED
      BY <2>2, <2>6
  <1>3. HeldTimesKept
    <2>1. call'[c].at \notin Held /\ \A d \in Callers \ {c} : call'[d] = call[d]
      BY ResolvedStops DEF OnlyCaller
    <2>2. ASSUME NEW d \in Callers, call'[d].at \in Held, NEW g \in call[d].running
          PROVE  call'[d] = call[d] /\ job'[g] = job[g]
      <3>1. d # c /\ call'[d] = call[d]
        BY <2>1, <2>2
      <3>2. g \in JobIds /\ g \in call[d].captured
        BY <2>2, <3>1, RunningIsJob
      <3>3. g \notin call[c].captured
        BY <2>2, <3>1, <3>2, CapturesApart
      <3>4. QED
        BY <1>1, <3>1, <3>2, <3>3
    <2>3. QED
      BY <2>1, <2>2 DEF HeldTimesKept
  <1>4. QED
    BY <1>2, <1>3, SnapshotKept

LEMMA SnapshotStep ==
    /\ TypeOK /\ OwnerInv /\ StopInv /\ LifeInv /\ AccountsInv /\ ProgressInv /\ SnapshotInv
    /\ [Next]_vars
    => StepAdvances
  <1>. SUFFICES ASSUME TypeOK, OwnerInv, StopInv, LifeInv, AccountsInv, ProgressInv, SnapshotInv,
                       [Next]_vars
                PROVE  StepAdvances
    OBVIOUS
  <1>1. ASSUME NEW c \in Callers, NEW k \in Configs, NEW kind \in BackendKinds,
               NEW now \in ClockReadings,
               PrepareStart(c, k, kind, now)
        PROVE  StepAdvances
    BY <1>1, PrepareStartAdvances
  <1>2. ASSUME NEW c \in Callers, NEW k \in Configs,
               StartExhausted(c, k)
        PROVE  StepAdvances
    BY <1>2, StartExhaustedAdvances
  <1>3. ASSUME NEW c \in Callers, NEW k \in Configs, NEW publish \in BOOLEAN,
               NEW now \in ClockReadings, NEW later \in ClockReadings,
               ThreadStartFailed(c, k, publish, now, later)
        PROVE  StepAdvances
    BY <1>3, ThreadStartFailedAdvances
  <1>4. ASSUME NEW c \in Callers,
               PreparationSucceeded(c)
        PROVE  StepAdvances
    <2>1. KeptTimes
      BY <1>4, TimesSame DEF PreparationSucceeded, slots
    <2>2. SameCaptures
      BY <1>4, SameCaptureGoto DEF PreparationSucceeded, At, Held
    <2>3. QED
      BY <1>4, <2>1, <2>2, SnapshotQuiet DEF PreparationSucceeded, slots
  <1>5. ASSUME NEW c \in Callers,
               PreparationFailed(c)
        PROVE  StepAdvances
    <2>1. KeptTimes
      BY <1>5, TimesSame DEF PreparationFailed, slots
    <2>2. SameCaptures
      BY <1>5, SameCaptureGoto DEF PreparationFailed, At, Held
    <2>3. QED
      BY <1>5, <2>1, <2>2, SnapshotQuiet DEF PreparationFailed, slots, TypeOK
  <1>6. ASSUME NEW c \in Callers,
               JoinFailed(c)
        PROVE  StepAdvances
    <2>1. KeptTimes
      BY <1>6, KeptTimeField DEF JoinFailed
    <2>2. SameCaptures
      BY <1>6, SameCaptureReturn DEF JoinFailed, At, Held
    <2>3. QED
      BY <1>6, <2>1, <2>2, SnapshotQuiet DEF JoinFailed, slots
  <1>7. ASSUME NEW c \in Callers, NEW now \in ClockReadings,
               CommitStart(c, now)
        PROVE  StepAdvances
    BY <1>7, CommitStartAdvances
  <1>8. ASSUME NEW c \in Callers,
               StopBeforeRelease(c)
        PROVE  StepAdvances
    <2>1. KeptTimes
      BY <1>8, KeptTimeField DEF StopBeforeRelease
    <2>2. SameCaptures
      BY <1>8, SameCaptureGoto DEF StopBeforeRelease, At, Held
    <2>3. QED
      BY <1>8, <2>1, <2>2, SnapshotQuiet DEF StopBeforeRelease, slots
  <1>9. ASSUME NEW c \in Callers,
               ReleaseGate(c)
        PROVE  StepAdvances
    <2>1. KeptTimes
      BY <1>9, KeptTimeField DEF ReleaseGate
    <2>2. SameCaptures
      BY <1>9, SameCaptureReturn DEF ReleaseGate, At, Held
    <2>3. QED
      BY <1>9, <2>1, <2>2, SnapshotQuiet DEF ReleaseGate, slots
  <1>10. ASSUME NEW c \in Callers,
                CancelStart(c)
         PROVE  StepAdvances
    <2>1. KeptTimes
      BY <1>10, KeptTimeField DEF CancelStart
    <2>2. SameCaptures
      BY <1>10, SameCaptureGoto DEF CancelStart, At, Held
    <2>3. QED
      BY <1>10, <2>1, <2>2, SnapshotQuiet DEF CancelStart, slots
  <1>11. ASSUME NEW c \in Callers,
                JoinCancelled(c)
         PROVE  StepAdvances
    <2>1. KeptTimes
      BY <1>11, KeptTimeField DEF JoinCancelled
    <2>2. SameCaptures
      BY <1>11, SameCaptureReturn DEF JoinCancelled, At, Held
    <2>3. QED
      BY <1>11, <2>1, <2>2, SnapshotQuiet DEF JoinCancelled, slots, TypeOK
  <1>12. ASSUME NEW g \in JobIds, NEW ok \in BOOLEAN,
                Prepare(g, ok)
         PROVE  StepAdvances
    <2>1. KeptTimes
      BY <1>12, KeptTimeField DEF Prepare
    <2>2. SameCaptures
      BY <1>12, CapturesSame DEF Prepare
    <2>3. QED
      BY <1>12, <2>1, <2>2, SnapshotQuiet DEF Prepare, slots
  <1>13. ASSUME NEW g \in JobIds,
                PassGate(g)
         PROVE  StepAdvances
    <2>1. KeptTimes
      BY <1>13, KeptTimeField DEF PassGate
    <2>2. SameCaptures
      BY <1>13, CapturesSame DEF PassGate
    <2>3. QED
      BY <1>13, <2>1, <2>2, SnapshotQuiet DEF PassGate, slots
  <1>14. ASSUME NEW g \in JobIds, NEW now \in ClockReadings,
                Report(g, now)
         PROVE  StepAdvances
    BY <1>14, ReportAdvances
  <1>15. ASSUME NEW g \in JobIds, NEW now \in ClockReadings,
                Finish(g, now)
         PROVE  StepAdvances
    <2>1. job[g].phase # "completed"
      BY <1>15 DEF Finish, OwnerInv, LiveIsCurrent, LiveWorker
    <2>2. KeptTime(job[g], Terminal(job[g], now))
      BY <1>15, <2>1, SafeTime, NextIsLater DEF KeptTime, KeepsTime, Terminal, Jobs
    <2>3. KeptTimes
      BY <1>15, <2>2, KeptTimeUpdate DEF Finish
    <2>4. SameCaptures
      BY <1>15, CapturesSame DEF Finish
    <2>5. QED
      BY <1>15, <2>3, <2>4, SnapshotQuiet DEF Finish, slots
  <1>16. ASSUME NEW c \in Callers, NEW k \in Configs, NEW now \in ClockReadings,
                PrepareStop(c, k, now)
         PROVE  StepAdvances
    <2>1. {current[k]} \ {NoJob} \subseteq JobIds
      BY <1>16, SlotTypes
    <2>2. UNCHANGED <<current, reserved, job>>
      BY <1>16 DEF PrepareStop
    <2>3. QED
      BY <1>16, <2>1, <2>2, CaptureAdvances DEF PrepareStop
  <1>17. ASSUME NEW c \in Callers, NEW now \in ClockReadings,
                PrepareStopAll(c, now)
         PROVE  StepAdvances
    <2>1. {current[k] : k \in jobs} \ {NoJob} \subseteq JobIds
      BY <1>17, SlotTypes DEF TypeOK
    <2>2. UNCHANGED <<current, reserved, job>>
      BY <1>17 DEF PrepareStopAll, slots
    <2>3. QED
      BY <1>17, <2>1, <2>2, CaptureAdvances DEF PrepareStopAll
  <1>18. ASSUME NEW c \in Callers, NEW commit \in BOOLEAN, NEW now \in ClockReadings,
                ResolveStop(c, commit, now)
         PROVE  StepAdvances
    <2>1. call[c].at \in Held /\ Resolved(c, commit, now) /\ UNCHANGED <<current, reserved>>
      BY <1>18 DEF ResolveStop, At, Held, slots
    <2>2. QED
      BY <1>18, <2>1, ResolvedAdvances
  <1>19. ASSUME NEW c \in Callers, NEW commit \in BOOLEAN, NEW now \in ClockReadings,
                ResolveStopAll(c, commit, now)
         PROVE  StepAdvances
    <2>1. call[c].at \in Held /\ Resolved(c, commit, now) /\ UNCHANGED <<current, reserved>>
      BY <1>19 DEF ResolveStopAll, At, Held, slots
    <2>2. QED
      BY <1>19, <2>1, ResolvedAdvances
  <1>20. ASSUME NEW c \in Callers, NEW k \in Configs, NEW now \in ClockReadings,
                StopAfterShutdown(c, k, now)
         PROVE  StepAdvances
    <2>1. current[k] \in JobIds => KeptTime(job[current[k]], Stopping(job[current[k]], now))
      BY <1>20, StoppingIsKept DEF StopAfterShutdown
    <2>2. [Idle EXCEPT !.at = "deliver", !.captured = {current[k]}].at \notin Held
      BY <1>20 DEF Idle, Held
    <2>3. KeptTimes
      BY <1>20, <2>1, KeptTimeUpdate DEF StopAfterShutdown
    <2>4. SameCaptures
      BY <1>20, <2>2, SameCaptureUpdate DEF StopAfterShutdown, At, Held
    <2>5. QED
      BY <1>20, <2>3, <2>4, SnapshotQuiet DEF StopAfterShutdown, slots
  <1>21. ASSUME NEW c \in Callers, NEW g \in JobIds,
                Deliver(c, g)
         PROVE  StepAdvances
    <2>1. Idle.at \notin Held /\ Delivered(call[c], g).at \notin Held
      BY <1>21 DEF Deliver, At, Delivered, Idle, Held, TypeOK, Calls
    <2>2. KeptTimes
      BY <1>21, KeptTimeField DEF Deliver
    <2>3. SameCaptures
      BY <1>21, <2>1, SameCaptureUpdate DEF Deliver, At, Held
    <2>4. QED
      BY <1>21, <2>2, <2>3, SnapshotQuiet DEF Deliver, slots
  <1>22. ASSUME NEW c \in Callers,
                Shutdown(c)
         PROVE  StepAdvances
    <2>1. KeptTimes
      BY <1>22, TimesSame DEF Shutdown, Initiate
    <2>2. SameCaptures
      BY <1>22, SameCaptureGoto DEF Shutdown, At, Held
    <2>3. QED
      BY <1>22, <2>1, <2>2, SnapshotQuiet DEF Shutdown, slots, Initiate
  <1>23. ASSUME NEW c \in Callers,
                NestedShutdown(c)
         PROVE  StepAdvances
    <2>1. KeptTimes
      BY <1>23, TimesSame DEF NestedShutdown, Initiate
    <2>2. SameCaptures
      BY <1>23, CapturesSame DEF NestedShutdown
    <2>3. QED
      BY <1>23, <2>1, <2>2, SnapshotQuiet DEF NestedShutdown, slots, Initiate
  <1>24. ASSUME NEW g \in JobIds,
                WorkerShutdown(g)
         PROVE  StepAdvances
    <2>1. KeptTimes
      BY <1>24, TimesSame DEF WorkerShutdown, Initiate
    <2>2. SameCaptures
      BY <1>24, CapturesSame DEF WorkerShutdown
    <2>3. QED
      BY <1>24, <2>1, <2>2, SnapshotQuiet DEF WorkerShutdown, slots, Initiate
  <1>25. ASSUME NEW a \in Actors, NEW k \in Configs, NEW now \in ClockReadings,
                SweepFind(a, k, now)
         PROVE  StepAdvances
    <2>1. current[k] \in JobIds =>
             KeptTime(job[current[k]], discard_pending_progress(job[current[k]]))
      BY <1>25, SafeTime, SameSnapshotIsKept DEF SameSnapshot, discard_pending_progress, Jobs
    <2>2. current[k] \in JobIds =>
             KeptTime(job[current[k]],
                      IF job[current[k]].phase = "running"
                      THEN Stopping(discard_pending_progress(job[current[k]]), now)
                      ELSE discard_pending_progress(job[current[k]]))
      BY <1>25, <2>1, StoppingIsKept
    <2>3. KeptTimes
      BY <1>25, <2>1, <2>2, TimesSame, KeptTimeUpdate DEF SweepFind
    <2>4. SameCaptures
      BY <1>25, CapturesSame DEF SweepFind
    <2>5. QED
      BY <1>25, <2>3, <2>4, SnapshotQuiet DEF SweepFind, slots
  <1>26. ASSUME NEW a \in Actors,
                SweepDeliver(a)
         PROVE  StepAdvances
    <2>1. KeptTimes
      BY <1>26, KeptTimeField DEF SweepDeliver
    <2>2. SameCaptures
      BY <1>26, CapturesSame DEF SweepDeliver
    <2>3. QED
      BY <1>26, <2>1, <2>2, SnapshotQuiet DEF SweepDeliver, slots
  <1>27. ASSUME NEW a \in Actors,
                SweepDone(a)
         PROVE  StepAdvances
    <2>1. KeptTimes
      BY <1>27, TimesSame DEF SweepDone
    <2>2. SameCaptures
      BY <1>27, CapturesSame DEF SweepDone
    <2>3. QED
      BY <1>27, <2>1, <2>2, SnapshotQuiet DEF SweepDone, slots
  <1>28. ASSUME NEW c \in Callers,
                LockDrain(c)
         PROVE  StepAdvances
    <2>1. KeptTimes
      BY <1>28, TimesSame DEF LockDrain, slots
    <2>2. SameCaptures
      BY <1>28, SameCaptureGoto DEF LockDrain, At, Held
    <2>3. QED
      BY <1>28, <2>1, <2>2, SnapshotQuiet DEF LockDrain, slots
  <1>29. ASSUME NEW c \in Callers,
                AwaitReservations(c)
         PROVE  StepAdvances
    <2>1. KeptTimes
      BY <1>29, TimesSame DEF AwaitReservations, slots
    <2>2. SameCaptures
      BY <1>29, SameCaptureGoto DEF AwaitReservations, At, Held
    <2>3. QED
      BY <1>29, <2>1, <2>2, SnapshotQuiet DEF AwaitReservations, slots
  <1>30. ASSUME NEW c \in Callers, NEW k \in Configs,
                DrainPick(c, k)
         PROVE  StepAdvances
    <2>1. [call[c] EXCEPT !.at = "drain_join", !.job = current[k]].at \notin Held
      BY <1>30 DEF Held, TypeOK, Calls
    <2>2. KeptTimes
      BY <1>30, TimesSame DEF DrainPick
    <2>3. SameCaptures
      BY <1>30, <2>1, SameCaptureUpdate DEF DrainPick, At, Held
    <2>4. QED
      BY <1>30, <2>2, <2>3, SnapshotQuiet DEF DrainPick, slots
  <1>31. ASSUME NEW c \in Callers,
                DrainJoin(c)
         PROVE  StepAdvances
    <2>1. [call[c] EXCEPT !.at = "drain", !.job = NoJob].at \notin Held
      BY <1>31 DEF Held, TypeOK, Calls
    <2>2. KeptTimes
      BY <1>31, KeptTimeField DEF DrainJoin
    <2>3. SameCaptures
      BY <1>31, <2>1, SameCaptureUpdate DEF DrainJoin, At, Held
    <2>4. QED
      BY <1>31, <2>2, <2>3, SnapshotQuiet DEF DrainJoin, slots
  <1>32. ASSUME NEW c \in Callers,
                ShutdownReturns(c)
         PROVE  StepAdvances
    <2>1. KeptTimes
      BY <1>32, TimesSame DEF ShutdownReturns
    <2>2. SameCaptures
      BY <1>32, SameCaptureReturn DEF ShutdownReturns, At, Held
    <2>3. QED
      BY <1>32, <2>1, <2>2, SnapshotQuiet DEF ShutdownReturns, slots
  <1>33. CASE UNCHANGED vars
    BY <1>33, TimesSame, CapturesSame, SnapshotQuiet DEF vars, slots
  <1>34. QED
    BY <1>1, <1>2, <1>3, <1>4, <1>5, <1>6, <1>7, <1>8, <1>9, <1>10, <1>11, <1>12, <1>13,
       <1>14, <1>15, <1>16, <1>17, <1>18, <1>19, <1>20, <1>21, <1>22, <1>23, <1>24, <1>25,
       <1>26, <1>27, <1>28, <1>29, <1>30, <1>31, <1>32, <1>33
       DEF Next, CallerStep, WorkerStep, SweepStep

LEMMA SnapshotInit == Init => SnapshotInv
  BY ConstantsAssumption
     DEF Init, SnapshotInv, StampsAreSafe, SuccessorIsLater, StampsAreLater, Idle, Unborn

\* The public snapshot of a config never goes back to an earlier generation, and a changed
\* snapshot has a later timestamp until the timestamps saturate.
THEOREM SnapshotsAdvanceAlways == Spec => SnapshotsAdvance
  <1>1. Spec => [](TypeOK /\ OwnerInv /\ StopInv /\ LifeInv /\ AccountsInv /\ ProgressInv)
    BY OwnerAccounts, ProgressInit, ProgressStep, PTL DEF Spec
  <1>2. /\ TypeOK /\ OwnerInv /\ StopInv /\ LifeInv /\ AccountsInv /\ ProgressInv /\ SnapshotInv
        /\ [Next]_vars
        => SnapshotInv' /\ [\A k \in Configs : Advances(k)]_vars
    BY SnapshotStep DEF StepAdvances
  <1>3. QED
    BY <1>1, <1>2, SnapshotInit, PTL DEF Spec, SnapshotsAdvance
====
