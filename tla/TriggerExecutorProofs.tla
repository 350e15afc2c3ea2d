---- MODULE TriggerExecutorProofs ----
(***************************************************************************)
(* The counters of the executor agree with its slots, an admitted command  *)
(* is answered or owned, an accepted cancel wins, a closed connection is   *)
(* drained and a call finds what it left, for any number of connections,   *)
(* threads, slots and submissions. ExecutorInv, which says why, is         *)
(* inductive while every retry follows a completed send.                   *)
(***************************************************************************)
EXTENDS TriggerExecutor, TLAPS, FiniteSetTheorems, WellFoundedInduction

\* The adapters retry retained responses only from complete_send.
RetriesFollowSends == "retry" \notin HostCalls

-----------------------------------------------------------------------------
(* What the operators of a session do *)

LEMMA Appended ==
    ASSUME NEW S, NEW q \in Seq(S), NEW e \in S
    PROVE  /\ Append(q, e) \in Seq(S) /\ Len(Append(q, e)) = Len(q) + 1
           /\ Append(q, e) # <<>>
           /\ \A n \in 1..Len(q) : Append(q, e)[n] = q[n]
           /\ Append(q, e)[Len(q) + 1] = e
  OBVIOUS

LEMMA HeadAndTail ==
    ASSUME NEW S, NEW q \in Seq(S), q # <<>>
    PROVE  /\ Len(q) \in Nat \ {0} /\ Head(q) = q[1] /\ Head(q) \in S
           /\ Tail(q) \in Seq(S) /\ Len(Tail(q)) = Len(q) - 1
           /\ \A n \in 1..Len(Tail(q)) : n + 1 \in 1..Len(q) /\ Tail(q)[n] = q[n + 1]
  OBVIOUS

LEMMA SessionFields ==
    ASSUME NEW s \in Sessions
    PROVE  /\ s.closed \in BOOLEAN /\ s.lease \in BOOLEAN
           /\ s.entries \in [Timestamps -> Entries] /\ s.outbound \in Seq(Batches)
           /\ Len(s.outbound) \in Nat /\ Carried(s) \subseteq Batches
           /\ \A n \in 1..Len(s.outbound) : s.outbound[n] \in Batches
  <1>1. /\ s.closed \in BOOLEAN /\ s.lease \in BOOLEAN
        /\ s.entries \in [Timestamps -> Entries] /\ s.outbound \in Seq(Batches)
    BY DEF Sessions
  <1>2. Len(s.outbound) \in Nat /\ \A n \in 1..Len(s.outbound) : s.outbound[n] \in Batches
    BY <1>1
  <1>3. QED
    BY <1>1, <1>2 DEF Carried

LEMMA AdmitSession ==
    ASSUME NEW s \in Sessions, NEW t \in Timestamps, NEW task \in Tasks
    PROVE  LET r == admit(s, t, task) IN
           /\ r \in Sessions /\ r.closed = s.closed /\ r.lease = s.lease
           /\ r.outbound = s.outbound /\ Carried(r) = Carried(s)
           /\ r.entries[t].task = task /\ ~r.entries[t].terminal_queued
           /\ ~r.entries[t].cancel_requested
           /\ \A u \in Timestamps \ {t} : r.entries[u] = s.entries[u]
  <1>1. [NoEntry EXCEPT !.task = task] \in Entries
    BY DEF NoEntry, Entries
  <1>2. QED
    BY <1>1 DEF admit, Sessions, Carried, NoEntry

LEMMA RollbackSession ==
    ASSUME NEW s \in Sessions, NEW t \in Timestamps
    PROVE  LET r == rollback(s, t) IN
           /\ r \in Sessions /\ r.closed = s.closed /\ r.lease = s.lease
           /\ r.outbound = s.outbound /\ Carried(r) = Carried(s)
           /\ r.entries[t] = NoEntry
           /\ \A u \in Timestamps \ {t} : r.entries[u] = s.entries[u]
  <1>1. NoEntry \in Entries
    BY DEF NoEntry, Entries
  <1>2. QED
    BY <1>1 DEF rollback, Sessions, Carried

LEMMA CancelSession ==
    ASSUME NEW s \in Sessions, NEW t \in Timestamps
    PROVE  LET r == request_cancel(s, t) IN
           /\ r \in Sessions /\ r.closed = s.closed /\ r.lease = s.lease
           /\ r.outbound = s.outbound /\ Carried(r) = Carried(s)
           /\ r.entries[t].task = s.entries[t].task
           /\ r.entries[t].terminal_queued = s.entries[t].terminal_queued
           /\ \A u \in Timestamps \ {t} : r.entries[u] = s.entries[u]
  BY DEF request_cancel, Sessions, Carried, Entries

LEMMA ClaimSession ==
    ASSUME NEW s \in Sessions, NEW t \in Timestamps
    PROVE  LET r == claim_irrevocable_terminal(s, t) IN
           /\ r \in Sessions /\ r.closed = s.closed /\ r.lease = s.lease
           /\ r.outbound = s.outbound /\ Carried(r) = Carried(s)
           /\ r.entries[t].task = s.entries[t].task
           /\ r.entries[t].cancel_requested = s.entries[t].cancel_requested
           /\ r.entries[t].terminal_queued = s.entries[t].terminal_queued
           /\ \A u \in Timestamps \ {t} : r.entries[u] = s.entries[u]
  BY DEF claim_irrevocable_terminal, Sessions, Carried, Entries

LEMMA PublishSession ==
    ASSUME NEW s \in Sessions, NEW t \in Timestamps, NEW task \in Tasks,
           NEW status \in {"progress"} \cup Pendings
    PROVE  LET r == publish(s, t, task, status) IN
           /\ r \in Sessions /\ r.closed = s.closed /\ r.lease = s.lease
           /\ Len(r.outbound) = Len(s.outbound) + 1 /\ r.outbound # <<>>
           /\ Carried(r) = Carried(s) \cup {Batch(t, task, status)}
           /\ r.entries[t].task = s.entries[t].task
           /\ r.entries[t].cancel_requested = s.entries[t].cancel_requested
           /\ r.entries[t].terminal_queued = Terminal(status)
           /\ \A u \in Timestamps \ {t} : r.entries[u] = s.entries[u]
  <1> DEFINE b == Batch(t, task, status)
             o == Append(s.outbound, b)
             r == publish(s, t, task, status)
  <1>1. b \in Batches
    BY DEF Batch, Batches
  <1>2. /\ o \in Seq(Batches) /\ Len(o) = Len(s.outbound) + 1 /\ o # <<>>
        /\ \A n \in 1..Len(s.outbound) : o[n] = s.outbound[n]
        /\ o[Len(s.outbound) + 1] = b
    BY <1>1, SessionFields, Appended
  <1>3. 1..(Len(s.outbound) + 1) = 1..Len(s.outbound) \cup {Len(s.outbound) + 1}
    BY SessionFields
  <1>4. /\ r.outbound = o /\ r.closed = s.closed /\ r.lease = s.lease
        /\ r.entries = [s.entries EXCEPT ![t].terminal_queued = Terminal(status)]
    BY DEF publish, Sessions
  <1>5. r.entries \in [Timestamps -> Entries]
    <2>1. Terminal(status) \in BOOLEAN
      BY DEF Terminal
    <2>2. [s.entries[t] EXCEPT !.terminal_queued = Terminal(status)] \in Entries
      BY <2>1, SessionFields DEF Entries
    <2>3. QED
      BY <1>4, <2>2, SessionFields
  <1> HIDE DEF o, b
  <1>6. r \in Sessions
    BY <1>2, <1>5 DEF publish, Sessions, o, b
  <1>7. Carried(r) = Carried(s) \cup {b}
    BY <1>2, <1>3, <1>4 DEF Carried
  <1> HIDE DEF r
  <1>8. QED
    BY <1>2, <1>4, <1>6, <1>7, SessionFields DEF Entries, b, r

LEMMA LeaseSession ==
    ASSUME NEW s \in Sessions
    PROVE  LET r == begin_send(s) IN
           /\ r \in Sessions /\ r.closed = s.closed /\ r.lease
           /\ r.outbound = s.outbound /\ Carried(r) = Carried(s) /\ r.entries = s.entries
  BY DEF begin_send, Sessions, Carried

LEMMA SentSession ==
    ASSUME NEW s \in Sessions, s.outbound # <<>>
    PROVE  LET r == complete_send(s) IN
           /\ r \in Sessions /\ r.closed = s.closed /\ ~r.lease
           /\ Len(r.outbound) = Len(s.outbound) - 1 /\ Carried(r) \subseteq Carried(s)
           /\ \A u \in Timestamps : r.entries[u] \in {s.entries[u], NoEntry}
  <1> DEFINE o == Tail(s.outbound)
             r == complete_send(s)
  <1>1. /\ Len(s.outbound) \in Nat \ {0} /\ Head(s.outbound) \in Batches
        /\ o \in Seq(Batches) /\ Len(o) = Len(s.outbound) - 1
        /\ \A n \in 1..Len(o) : n + 1 \in 1..Len(s.outbound) /\ o[n] = s.outbound[n + 1]
    BY SessionFields, HeadAndTail
  <1>2. NoEntry \in Entries
    BY DEF NoEntry, Entries
  <1>3. /\ r.outbound = o /\ r.closed = s.closed /\ r.lease = FALSE
        /\ r.entries = IF Terminal(Head(s.outbound).status)
                       THEN [s.entries EXCEPT ![Head(s.outbound).timestamp] = NoEntry]
                       ELSE s.entries
    BY DEF complete_send, Sessions
  <1>4. /\ r.entries \in [Timestamps -> Entries]
        /\ \A u \in Timestamps : r.entries[u] \in {s.entries[u], NoEntry}
    BY <1>1, <1>2, <1>3, SessionFields
  <1> HIDE DEF o
  <1>5. r \in Sessions
    BY <1>1, <1>4 DEF complete_send, Sessions, o
  <1>6. Carried(r) \subseteq Carried(s)
    BY <1>1, <1>3 DEF Carried
  <1>7. QED
    BY <1>1, <1>3, <1>4, <1>5, <1>6

LEMMA ClosedSession ==
    \A s : LET r == close_locked(s) IN
           /\ r \in Sessions /\ r.closed /\ ~r.lease /\ r.outbound = <<>> /\ Carried(r) = {}
           /\ r.entries = [u \in Timestamps |-> NoEntry] /\ Len(r.outbound) = 0
           /\ r = close_locked(r)
  <1>1. NoEntry \in Entries /\ <<>> \in Seq(Batches) /\ Len(<<>>) = 0 /\ 1..0 = {}
    BY DEF NoEntry, Entries
  <1>2. QED
    BY <1>1 DEF close_locked, NewSession, Sessions, Carried

LEMMA NewSessionFields ==
    /\ NewSession \in Sessions /\ ~NewSession.closed /\ ~NewSession.lease
    /\ Len(NewSession.outbound) = 0 /\ Carried(NewSession) = {}
    /\ NewSession.entries = [u \in Timestamps |-> NoEntry]
  BY DEF NewSession, NoEntry, Entries, Sessions, Carried

-----------------------------------------------------------------------------
(* What a step of one actor changes *)

\* A nonempty set of slots has a lowest one.
LEMMA LowestIsIn ==
    ASSUME NEW S \in SUBSET Slots, S # {}
    PROVE  Lowest(S) \in S
  <1> DEFINE R == OpToRel(<, Nat)
  <1>1. IsWellFoundedOn(R, Nat)
    BY NatLessThanWellFounded
  <1>2. \A x, y \in Nat : x < y => <<x, y>> \in R
    BY DEF OpToRel
  <1> HIDE DEF R
  <1>3. S \subseteq Nat
    BY DEF Slots
  <1>4. PICK x \in S : \A y \in S : ~(<<y, x>> \in R)
    BY <1>1, <1>3, WFMin
  <1>5. \A y \in S : ~(y < x)
    BY <1>2, <1>3, <1>4
  <1>6. x \in Nat /\ (\A y \in S : y \in Nat)
    BY <1>3
  <1>7. \A y \in S : x <= y
    BY <1>5, <1>6
  <1>8. QED
    BY <1>7 DEF Lowest

LEMMA Became ==
    ASSUME TypeInv, NEW a \in Actors, NEW r, Become(a, r)
    PROVE  step'[a] = r /\ \A b \in Actors \ {a} : step'[b] = step[b]
  BY DEF TypeInv, Become

LEMMA Went ==
    ASSUME TypeInv, NEW a \in Actors, NEW where, Goto(a, where)
    PROVE  Become(a, [step[a] EXCEPT !.at = where])
  BY DEF TypeInv, Become, Goto

LEMMA StagedIt ==
    ASSUME TypeInv, NEW a \in Actors, NEW where, NEW status, Staged(a, status, where)
    PROVE  Become(a, [step[a] EXCEPT !.staged = status, !.at = where])
  BY DEF TypeInv, Become, Staged

LEMMA OutcomeKept ==
    ASSUME TypeInv, NEW a \in Actors, NEW where, NEW outcome,
           step' = [step EXCEPT ![a].outcome = outcome, ![a].at = where]
    PROVE  Become(a, [step[a] EXCEPT !.outcome = outcome, !.at = where])
  BY DEF TypeInv, Become

StepsTyped == step \in [Actors -> Steps] /\ \A a \in Actors : StepTyped(step[a])

LEMMA StepsTypedBy ==
    ASSUME TypeInv, NEW a \in Actors, NEW r \in Steps, StepTyped(r), Become(a, r)
    PROVE  StepsTyped'
  <1>1. step' \in [Actors -> Steps]
    BY DEF TypeInv, Become
  <1>2. QED
    BY <1>1, Became DEF TypeInv, StepsTyped

\* The fields of a step are each in their type.
LEMMA StepFields ==
    ASSUME TypeInv, NEW a \in Actors
    PROVE  /\ step[a].at \in Places /\ step[a].connection \in Connections \cup {NoConnection}
           /\ step[a].slot \in Slots \cup {NoSlot} /\ step[a].task \in Tasks \cup {NoTask}
           /\ step[a].timestamp \in Timestamps \cup {0}
           /\ step[a].staged \in Pendings
           /\ step[a].outcome \in {"none", "published", "retry", "close"}
           /\ step[a].scan \in SUBSET Slots /\ step[a].registry \in SUBSET Connections
           /\ step[a].raise \in BOOLEAN /\ step[a].must_close \in BOOLEAN
           /\ step[a].then \in {"idle", "await_idle", "close_registry"}
           /\ step[a] \in Steps /\ StepTyped(step[a])
  BY DEF TypeInv, Steps

\* A step that went on with what it has in hand.
SameHand(q, r) ==
    /\ q.connection = r.connection /\ q.timestamp = r.timestamp /\ q.slot = r.slot
    /\ q.task = r.task /\ q.scan = r.scan /\ q.raise = r.raise
    /\ q.must_close = r.must_close /\ q.then = r.then /\ q.registry = r.registry

LEMMA MovedOn ==
    ASSUME NEW r \in Steps, NEW x \in Places
    PROVE  LET q == [r EXCEPT !.at = x] IN
           /\ q \in Steps /\ SameHand(q, r) /\ q.at = x
           /\ q.staged = r.staged /\ q.outcome = r.outcome
  BY DEF Steps, SameHand

LEMMA IdleTyped == Idle \in Steps /\ StepTyped(Idle) /\ Idle.at = "idle"
  BY DEF Idle, Steps, StepTyped, Places, Unconnected, Holds, Submits, Runs, Retries, Pendings,
         NoSlot, NoTask

LEMMA SlotFields ==
    ASSUME TypeInv, SlotInv, NEW i \in Slots
    PROVE  /\ slot[i].state \in States /\ slot[i].pending \in Pendings
           /\ slot[i].connection \in Connections \cup {NoConnection}
           /\ slot[i].timestamp \in Timestamps \cup {0} /\ slot[i].task \in Tasks \cup {NoTask}
           /\ slot[i].state # "free" =>
                 /\ slot[i].connection \in Connections /\ slot[i].timestamp \in Timestamps
                 /\ slot[i].task \in Tasks /\ slot[i].task < next_task
  BY DEF TypeInv, TypeOK, SlotInv

LEMMA HeadQueued ==
    ASSUME TypeInv, CountInv, queue # <<>>
    PROVE  /\ Head(queue) \in Slots /\ slot[Head(queue)].state = "queued"
           /\ Head(queue) = queue[1] /\ Len(queue) \in Nat \ {0}
  <1>1. queue \in Seq(Slots)
    BY DEF TypeInv, TypeOK
  <1>2. /\ Len(queue) \in Nat \ {0} /\ Head(queue) = queue[1] /\ Head(queue) \in Slots
    BY <1>1, HeadAndTail
  <1>3. Head(queue) \in In("queued")
    BY <1>2 DEF CountInv, SlotAccounting
  <1>4. QED
    BY <1>2, <1>3 DEF In

\* The steps of the executor by what they are about.
SubmitStep(h) ==
    (\E c \in Connections, t \in Timestamps : SubmitReserve(h, c, t)) \/ Submitting(h)
WorkStep(w) == Working(w) \/ Progress(w) \/ ClaimTerminal(w)
SendStep(h) ==
    \/ \E c \in Connections : CompleteSend(h, c) \/ FailSend(h, c)
    \/ Resending(h) \/ StopAfterFailure(h)
CancelStep(h) ==
    \/ \E c \in Connections, t \in Timestamps : RequestCancel(h, c, t)
    \/ Cancelling(h) \/ ReplaceCompleted(h)
CloseStep(a) == Closing(a) \/ ForceClose(a)
DetachStep(h) == (\E c \in Connections : Close(h, c)) \/ ConnectionIdle(h)
ShutdownStep(h) == ShutdownBegin(h) \/ ShutdownJoin(h) \/ ShuttingDown(h)

LEMMA StepsOfNext ==
    ASSUME RetriesFollowSends, Next
    PROVE  \/ \E h \in Hosts : \/ SubmitStep(h) \/ SendStep(h) \/ CancelStep(h)
                               \/ DetachStep(h) \/ ShutdownStep(h)
           \/ \E w \in Workers : WorkStep(w)
           \/ \E a \in Actors : CloseStep(a)
           \/ \E c \in Connections : BeginSend(c)
  BY DEF RetriesFollowSends, Next, Continue, Acquire, Call, RetryPending, SubmitStep, WorkStep,
         SendStep, CancelStep, CloseStep, DetachStep, ShutdownStep

-----------------------------------------------------------------------------
(* Types *)

SlotRecords == [state : States, connection : Connections \cup {NoConnection},
                timestamp : Timestamps \cup {0}, task : Tasks \cup {NoTask},
                pending : Pendings]
SlotsTyped ==
    /\ slot \in [Slots -> SlotRecords]
    /\ queue \in Seq(Slots) /\ count \in [Counters -> Int]
ConnectionsTyped ==
    /\ connection \in [Connections -> [accepting : BOOLEAN, close_required : BOOLEAN]]
    /\ operation_mutex \in [Connections -> Actors \cup {Nobody}]
TasksTyped ==
    /\ stop_requested \subseteq Tasks /\ shutdown_stop_sources \subseteq Tasks
    /\ next_task \in 1..(MaxTasks + 1)
    /\ stopping \in BOOLEAN /\ registry_close_complete \in BOOLEAN
SessionsTyped ==
    /\ session \in [Connections -> Sessions]
    /\ \A c \in Connections :
          /\ Len(session[c].outbound) <= max_queued_batches
          /\ session[c].lease => session[c].outbound # <<>>

LEMMA TypeParts ==
    TypeInv <=> SlotsTyped /\ ConnectionsTyped /\ TasksTyped /\ SessionsTyped /\ StepsTyped
  BY DEF TypeInv, TypeOK, SlotsTyped, ConnectionsTyped, TasksTyped, SessionsTyped, StepsTyped,
         SlotRecords, Counters

LEMMA TypeFromParts ==
    ASSUME SlotsTyped', ConnectionsTyped', TasksTyped', SessionsTyped', StepsTyped'
    PROVE  TypeInv'
  BY DEF TypeInv, TypeOK, SlotsTyped, ConnectionsTyped, TasksTyped, SessionsTyped, StepsTyped,
         SlotRecords, Counters

LEMMA SessionsTypedBy ==
    ASSUME TypeInv, NEW c \in Connections, NEW s \in Sessions,
           Len(s.outbound) <= max_queued_batches, s.lease => s.outbound # <<>>,
           session' = [session EXCEPT ![c] = s]
    PROVE  SessionsTyped'
  BY DEF TypeInv, TypeOK, SessionsTyped

LEMMA LockTyped ==
    ASSUME TypeInv, NEW a \in Actors, NEW c \in Connections, Lock(a, c)
    PROVE  operation_mutex' \in [Connections -> Actors \cup {Nobody}]
  BY DEF TypeInv, TypeOK, Lock

LEMMA UnlockTyped ==
    ASSUME TypeInv, NEW c \in Connections, Unlock(c)
    PROVE  operation_mutex' \in [Connections -> Actors \cup {Nobody}]
  BY DEF TypeInv, TypeOK, Unlock

LEMMA StopTyped ==
    ASSUME TypeInv, NEW c \in Connections, Stop(c)
    PROVE  connection' \in [Connections -> [accepting : BOOLEAN, close_required : BOOLEAN]]
  BY DEF TypeInv, TypeOK, Stop

LEMMA FreeTyped == FreeSlot \in SlotRecords
  BY DEF FreeSlot, States, Pendings, NoTask, SlotRecords

LEMMA SlotTypedBy ==
    ASSUME TypeInv, NEW i \in Slots, NEW s \in SlotRecords, slot' = [slot EXCEPT ![i] = s]
    PROVE  slot' \in [Slots -> SlotRecords]
  BY DEF TypeInv, TypeOK, SlotRecords

LEMMA StateTyped ==
    ASSUME TypeInv, NEW i \in Slots, NEW x \in States, slot' = [slot EXCEPT ![i].state = x]
    PROVE  /\ slot' \in [Slots -> SlotRecords]
           /\ slot' = [slot EXCEPT ![i] = [slot[i] EXCEPT !.state = x]]
  <1>1. slot \in [Slots -> SlotRecords]
    BY DEF TypeInv, TypeOK, SlotRecords
  <1>2. [slot[i] EXCEPT !.state = x] \in SlotRecords
    BY <1>1 DEF SlotRecords
  <1>3. QED
    BY <1>1, <1>2

LEMMA PendingTyped ==
    ASSUME TypeInv, NEW i \in Slots, NEW x \in Pendings, slot' = [slot EXCEPT ![i].pending = x]
    PROVE  /\ slot' \in [Slots -> SlotRecords]
           /\ slot' = [slot EXCEPT ![i] = [slot[i] EXCEPT !.pending = x]]
  <1>1. slot \in [Slots -> SlotRecords]
    BY DEF TypeInv, TypeOK, SlotRecords
  <1>2. [slot[i] EXCEPT !.pending = x] \in SlotRecords
    BY <1>1 DEF SlotRecords
  <1>3. QED
    BY <1>1, <1>2

LEMMA CountTyped ==
    ASSUME TypeInv
    PROVE  /\ \A from, to \in Counters : Moved(from, to) \in [Counters -> Int]
           /\ [count EXCEPT !.reserved = @ + 1, !.active = @ + 1] \in [Counters -> Int]
  <1>1. count \in [Counters -> Int]
    BY DEF TypeInv
  <1>2. "reserved" \in Counters /\ "active" \in Counters
    BY DEF Counters
  <1>3. \A from, to \in Counters : Moved(from, to) \in [Counters -> Int]
    BY <1>1 DEF Moved
  <1>4. [count EXCEPT !["reserved"] = @ + 1, !["active"] = @ + 1] \in [Counters -> Int]
    BY <1>1, <1>2
  <1>5. QED
    BY <1>3, <1>4

LEMMA ReleaseTyped ==
    ASSUME TypeInv, NEW i \in Slots, NEW fields, Release(i, fields)
    PROVE  /\ slot' \in [Slots -> SlotRecords]
           /\ count' \in [Counters -> Int]
           /\ slot' = [slot EXCEPT ![i] = FreeSlot]
  <1>1. count' \in [Counters -> Int]
    BY DEF TypeInv, Release
  <1>2. slot' = [slot EXCEPT ![i] = FreeSlot]
    BY DEF Release
  <1>3. QED
    BY <1>1, <1>2, FreeTyped, SlotTypedBy

LEMMA SubmitTyped ==
    ASSUME ExecutorAssumption, TypeInv, SlotInv, NEW h \in Hosts, SubmitStep(h)
    PROVE  TypeInv'
  <1> USE DEF Places, Holds, Locked, Submits, Runs, Retries, Closes, Unconnected, StepTyped,
              Steps, Idle, Pendings, NoSlot, NoTask, At
  <1> USE StepFields
  <1>1. h \in Actors
    BY DEF Actors
  <1>2. ASSUME NEW c \in Connections, NEW t \in Timestamps, SubmitReserve(h, c, t)
        PROVE  TypeInv'
    <2> DEFINE i == Lowest(In("free"))
               r == [Idle EXCEPT !.at = "admit", !.connection = c, !.timestamp = t,
                                 !.slot = i, !.task = next_task]
    <2>1. i \in Slots
      BY <1>2, LowestIsIn DEF SubmitReserve, Reservable, In
    <2>2. next_task \in Tasks /\ next_task + 1 \in 1..(MaxTasks + 1)
      BY <1>2 DEF SubmitReserve, Tasks, ExecutorAssumption
    <2> HIDE DEF i
    <2>3. r \in Steps /\ StepTyped(r)
      BY <2>1, <2>2
    <2>4. StepsTyped'
      <3>1. Become(h, r)
        BY <1>2 DEF SubmitReserve, i
      <3> HIDE DEF r
      <3>2. QED
        BY <1>1, <2>3, <3>1, StepsTypedBy
    <2>5. SlotsTyped'
      <3>1. [FreeSlot EXCEPT !.state = "reserved", !.connection = c, !.timestamp = t,
                             !.task = next_task]
               \in SlotRecords
        BY <2>2 DEF FreeSlot, States, SlotRecords
      <3>2. QED
        <4>1. slot' = [slot EXCEPT ![i] = [FreeSlot EXCEPT !.state = "reserved",
                          !.connection = c, !.timestamp = t, !.task = next_task]]
          BY <1>2 DEF SubmitReserve, i
        <4>2. count' = [count EXCEPT !.reserved = @ + 1, !.active = @ + 1] /\ queue' = queue
          BY <1>2 DEF SubmitReserve
        <4>3. count' \in [Counters -> Int]
          BY <4>2, CountTyped
        <4>4. QED
          BY <2>1, <3>1, <4>1, <4>2, <4>3, SlotTypedBy, TypeParts DEF SlotsTyped
    <2>6. ConnectionsTyped'
      BY <1>1, <1>2, LockTyped, TypeParts DEF SubmitReserve, ConnectionsTyped
    <2>7. TasksTyped' /\ SessionsTyped'
      BY <1>2, <2>2, TypeParts DEF SubmitReserve, TasksTyped, SessionsTyped, lifetime
    <2>8. QED
      BY TypeFromParts, <2>4, <2>5, <2>6, <2>7
  <1>3. CASE SubmitAdmit(h)
    <2> DEFINE c == step[h].connection
               q == admit(session[c], step[h].timestamp, step[h].task)
    <2>1. c \in Connections /\ step[h].timestamp \in Timestamps /\ step[h].task \in Tasks
      BY <1>1, <1>3 DEF SubmitAdmit
    <2>2. StepsTyped'
      <3>1. [step[h] EXCEPT !.at = "commit"] \in Steps /\ StepTyped([step[h] EXCEPT !.at = "commit"])
        BY <1>1, <1>3 DEF SubmitAdmit
      <3>2. QED
        BY <1>1, <1>3, <3>1, Went, StepsTypedBy DEF SubmitAdmit
    <2>3. SessionsTyped'
      <3>1. /\ q \in Sessions /\ q.outbound = session[c].outbound
            /\ q.lease = session[c].lease
        BY <2>1, AdmitSession DEF TypeInv, TypeOK, SessionsTyped
      <3>2. session' = [session EXCEPT ![c] = q]
        BY <1>3 DEF SubmitAdmit
      <3> HIDE DEF q, c
      <3>3. QED
        BY <2>1, <3>1, <3>2, SessionsTypedBy DEF TypeInv, TypeOK, SessionsTyped
    <2>4. SlotsTyped' /\ ConnectionsTyped' /\ TasksTyped'
      BY <1>3, TypeParts DEF SubmitAdmit, SlotsTyped, ConnectionsTyped, TasksTyped, lifetime, executor
    <2>5. QED
      BY TypeFromParts, <2>2, <2>3, <2>4
  <1>4. CASE SubmitRejected(h)
    <2>1. step[h].connection \in Connections /\ step[h].slot \in Slots
      BY <1>1, <1>4 DEF SubmitRejected
    <2>2. StepsTyped'
      BY <1>1, <1>4, IdleTyped, StepsTypedBy DEF SubmitRejected
    <2>3. SlotsTyped'
      BY <1>4, <2>1, ReleaseTyped, TypeParts DEF SubmitRejected, SlotsTyped
    <2>4. ConnectionsTyped' /\ TasksTyped' /\ SessionsTyped'
      BY <1>4, <2>1, UnlockTyped, TypeParts
      DEF SubmitRejected, ConnectionsTyped, TasksTyped, SessionsTyped, lifetime
    <2>5. QED
      BY TypeFromParts, <2>2, <2>3, <2>4
  <1>5. CASE SubmitCommit(h)
    <2>1. step[h].connection \in Connections /\ step[h].slot \in Slots
      BY <1>1, <1>5 DEF SubmitCommit
    <2>2. StepsTyped'
      BY <1>1, <1>5, IdleTyped, StepsTypedBy DEF SubmitCommit
    <2>3. SlotsTyped'
      <3>1. Append(queue, step[h].slot) \in Seq(Slots)
        BY <2>1, TypeParts, Appended DEF SlotsTyped
      <3>2. QED
        <4>1. slot' = [slot EXCEPT ![step[h].slot].state = "queued"]
          BY <1>5 DEF SubmitCommit
        <4>2. queue' = Append(queue, step[h].slot) /\ count' = Moved("reserved", "queued")
          BY <1>5 DEF SubmitCommit
        <4>3. count' \in [Counters -> Int]
          BY <4>2, CountTyped DEF Counters
        <4>4. QED
          BY <2>1, <3>1, <4>1, <4>2, <4>3, StateTyped DEF SlotsTyped, States
    <2>4. ConnectionsTyped' /\ TasksTyped' /\ SessionsTyped'
      BY <1>5, <2>1, UnlockTyped, TypeParts
      DEF SubmitCommit, ConnectionsTyped, TasksTyped, SessionsTyped, lifetime
    <2>5. QED
      BY TypeFromParts, <2>2, <2>3, <2>4
  <1>6. CASE SubmitRollback(h)
    <2> DEFINE c == step[h].connection
               q == rollback(session[c], step[h].timestamp)
    <2>1. c \in Connections /\ step[h].timestamp \in Timestamps /\ step[h].slot \in Slots
      BY <1>1, <1>6 DEF SubmitRollback
    <2>2. StepsTyped'
      BY <1>1, <1>6, IdleTyped, StepsTypedBy DEF SubmitRollback
    <2>3. SessionsTyped'
      <3>1. /\ q \in Sessions /\ q.outbound = session[c].outbound
            /\ q.lease = session[c].lease
        BY <2>1, RollbackSession DEF TypeInv, TypeOK, SessionsTyped
      <3>2. session' = [session EXCEPT ![c] = q]
        BY <1>6 DEF SubmitRollback
      <3> HIDE DEF q, c
      <3>3. QED
        BY <2>1, <3>1, <3>2, SessionsTypedBy DEF TypeInv, TypeOK, SessionsTyped
    <2>4. SlotsTyped'
      BY <1>6, <2>1, ReleaseTyped, TypeParts DEF SubmitRollback, SlotsTyped
    <2>5. ConnectionsTyped' /\ TasksTyped'
      BY <1>6, <2>1, UnlockTyped, TypeParts DEF SubmitRollback, ConnectionsTyped, TasksTyped, lifetime
    <2>6. QED
      BY TypeFromParts, <2>2, <2>3, <2>4, <2>5
  <1>7. QED
    BY <1>2, <1>3, <1>4, <1>5, <1>6 DEF SubmitStep, Submitting

\* A step that changes no more than its own actor's place.
LEMMA MoveTyped ==
    ASSUME TypeInv, StepsTyped', UNCHANGED <<slot, queue, count, connection, operation_mutex>>,
           UNCHANGED <<session, stop_requested, next_task, lifetime>>
    PROVE  TypeInv'
  BY TypeParts, TypeFromParts
  DEF SlotsTyped, ConnectionsTyped, TasksTyped, SessionsTyped, lifetime

LEMMA PublishTyped ==
    ASSUME ExecutorAssumption, TypeInv, NEW c \in Connections, NEW t \in Timestamps,
           NEW task \in Tasks, NEW status \in {"progress"} \cup Pendings,
           PublishError(session[c], t, task, status) = "none",
           session' = [session EXCEPT ![c] = publish(@, t, task, status)]
    PROVE  SessionsTyped'
  <1> DEFINE q == publish(session[c], t, task, status)
  <1>1. session[c] \in Sessions
    BY DEF TypeInv
  <1>2. Len(session[c].outbound) < max_queued_batches /\ Len(session[c].outbound) \in Nat
    BY <1>1, SessionFields DEF PublishError, ExecutorAssumption
  <1>3. /\ q \in Sessions /\ Len(q.outbound) = Len(session[c].outbound) + 1
        /\ q.outbound # <<>>
    BY <1>1, PublishSession
  <1>4. session' = [session EXCEPT ![c] = q]
    OBVIOUS
  <1> HIDE DEF q
  <1>5. Len(q.outbound) <= max_queued_batches
    BY <1>2, <1>3 DEF ExecutorAssumption
  <1>6. QED
    BY <1>3, <1>4, <1>5, SessionsTypedBy

LEMMA WorkTyped ==
    ASSUME ExecutorAssumption, TypeInv, SlotInv, CountInv, NEW w \in Workers, WorkStep(w)
    PROVE  TypeInv'
  <1> USE DEF Holds, Locked, Submits, Runs, Retries, Closes, Unconnected, At
  <1>1. /\ w \in Actors /\ step[w] \in Steps /\ StepTyped(step[w]) /\ step[w].staged \in Pendings
        /\ \A x \in {"exited", "handler", "settle", "publish", "finish"} : x \in Places
        /\ \A y \in {"answer", "irrevocable", "cancelled"} : y \in Pendings
    BY StepFields DEF Actors, Places, Pendings
  <1>2. CASE Take(w)
    <2> DEFINE i == Head(queue)
               r == [Idle EXCEPT !.at = "dispatch", !.connection = slot[i].connection,
                         !.timestamp = slot[i].timestamp, !.slot = i, !.task = slot[i].task]
    <2>1. i \in Slots /\ slot[i].state = "queued"
      BY <1>2, HeadQueued DEF Take
    <2>2. r \in Steps /\ StepTyped(r)
      BY <2>1, SlotFields DEF Steps, StepTyped, Idle, NoSlot, NoTask, Places, Pendings
    <2>3. Become(w, r)
      BY <1>2 DEF Take
    <2>4. slot' = [slot EXCEPT ![i].state = "running"]
      BY <1>2 DEF Take
    <2> HIDE DEF r
    <2>5. StepsTyped'
      BY <1>1, <2>2, <2>3, StepsTypedBy
    <2>6. SlotsTyped'
      <3>1. Tail(queue) \in Seq(Slots)
        BY <1>2, HeadAndTail DEF Take, TypeInv, TypeOK
      <3>2. count' \in [Counters -> Int] /\ queue' = Tail(queue)
        BY <1>2, CountTyped DEF Take, Counters
      <3> HIDE DEF i
      <3>3. QED
        BY <2>1, <2>4, <3>1, <3>2, StateTyped DEF SlotsTyped, States
    <2>7. ConnectionsTyped' /\ TasksTyped' /\ SessionsTyped'
      BY <1>2, TypeParts DEF Take, ConnectionsTyped, TasksTyped, SessionsTyped, lifetime
    <2>8. QED
      BY <2>5, <2>6, <2>7, TypeFromParts
  <1>3. CASE DropQueued(w)
    <2>1. StepsTyped' /\ ConnectionsTyped' /\ TasksTyped' /\ SessionsTyped'
      BY <1>3, TypeParts
      DEF DropQueued, StepsTyped, ConnectionsTyped, TasksTyped, SessionsTyped, lifetime
    <2>2. SlotsTyped'
      <3>1. Tail(queue) \in Seq(Slots) /\ Head(queue) \in Slots
        BY <1>3, HeadAndTail DEF DropQueued, TypeInv, TypeOK
      <3>2. QED
        BY <1>3, <3>1, ReleaseTyped DEF DropQueued, SlotsTyped
    <2>3. QED
      BY <2>1, <2>2, TypeFromParts
  <1>4. CASE Exit(w) \/ StartStopped(w) \/ StartHandler(w) \/ HandlerReturns(w) \/ Settle(w)
    <2>1. UNCHANGED <<slot, queue, count, connection, operation_mutex, session,
                      stop_requested, next_task, lifetime>>
      BY <1>4 DEF Exit, StartStopped, StartHandler, HandlerReturns, Settle, executor
    <2>2. CASE Exit(w) \/ StartHandler(w)
      <3>1. PICK x \in {"exited", "handler"} : Goto(w, x) /\ (x = "handler" => At(w, "dispatch"))
        BY <2>2 DEF Exit, StartHandler
      <3> DEFINE q == [step[w] EXCEPT !.at = x]
      <3>2. q \in Steps /\ SameHand(q, step[w]) /\ q.at = x
        BY <1>1, MovedOn
      <3>3. Become(w, q)
        BY <1>1, <3>1, Went
      <3> HIDE DEF q
      <3>4. StepTyped(q)
        BY <1>1, <3>1, <3>2 DEF StepTyped, SameHand
      <3>5. QED
        BY <1>1, <2>1, <3>2, <3>3, <3>4, StepsTypedBy, MoveTyped
    <2>3. CASE StartStopped(w) \/ HandlerReturns(w) \/ Settle(w)
      <3>1. PICK x \in {"settle", "publish"}, y \in Pendings \ {"none"} :
               Staged(w, y, x) /\ step[w].at \in Runs
        <4>1. CASE Settle(w)
          <5>1. step[w].staged \in Pendings \ {"none"}
            BY <1>1, <4>1 DEF Settle, StepTyped
          <5>2. QED
            BY <1>1, <4>1, <5>1 DEF Settle
        <4>2. QED
          BY <1>1, <2>3, <4>1 DEF StartStopped, HandlerReturns
      <3> DEFINE q == [step[w] EXCEPT !.staged = y, !.at = x]
      <3>2. q \in Steps /\ SameHand(q, step[w]) /\ q.at = x /\ q.staged = y
        BY <1>1 DEF Steps, SameHand
      <3>3. Become(w, q)
        BY <1>1, <3>1, StagedIt
      <3> HIDE DEF q
      <3>4. StepTyped(q)
        BY <1>1, <3>1, <3>2 DEF StepTyped, SameHand
      <3>5. QED
        BY <1>1, <2>1, <3>2, <3>3, <3>4, StepsTypedBy, MoveTyped
    <2>4. QED
      BY <1>4, <2>2, <2>3
  <1>5. CASE PublishTerminal(w) \/ Progress(w) \/ ClaimTerminal(w)
    <2> DEFINE c == step[w].connection
               t == step[w].timestamp
    <2>1. /\ c \in Connections /\ t \in Timestamps /\ step[w].task \in Tasks
          /\ session[c] \in Sessions
          /\ At(w, "publish") => step[w].staged \in Pendings \ {"none"}
      BY <1>1, <1>5 DEF PublishTerminal, Progress, ClaimTerminal, TypeInv, StepTyped
    <2>2. StepsTyped'
      <3>1. CASE PublishTerminal(w)
        <4>1. \/ Staged(w, "cancelled", "publish")
              \/ \E x \in {"published", "retry", "close"} :
                    step' = [step EXCEPT ![w].outcome = x, ![w].at = "finish"]
          BY <3>1 DEF PublishTerminal, Disposition
        <4>2. CASE Staged(w, "cancelled", "publish")
          <5> DEFINE q == [step[w] EXCEPT !.staged = "cancelled", !.at = "publish"]
          <5>1. /\ q \in Steps /\ SameHand(q, step[w]) /\ q.at = "publish"
                /\ q.staged = "cancelled"
            BY <1>1 DEF Steps, SameHand
          <5>2. Become(w, q)
            BY <1>1, <4>2, StagedIt
          <5> HIDE DEF q
          <5>3. StepTyped(q)
            BY <1>1, <3>1, <5>1 DEF StepTyped, SameHand, PublishTerminal
          <5>4. QED
            BY <1>1, <5>1, <5>2, <5>3, StepsTypedBy
        <4>3. ASSUME NEW x \in {"published", "retry", "close"},
                     step' = [step EXCEPT ![w].outcome = x, ![w].at = "finish"]
              PROVE  StepsTyped'
          <5> DEFINE q == [step[w] EXCEPT !.outcome = x, !.at = "finish"]
          <5>1. /\ q \in Steps /\ SameHand(q, step[w]) /\ q.at = "finish"
                /\ q.staged = step[w].staged
            BY <1>1 DEF Steps, SameHand
          <5>2. Become(w, q)
            BY <1>1, <4>3, OutcomeKept
          <5> HIDE DEF q
          <5>3. StepTyped(q)
            BY <1>1, <3>1, <5>1 DEF StepTyped, SameHand, PublishTerminal
          <5>4. QED
            BY <1>1, <5>1, <5>2, <5>3, StepsTypedBy
        <4>4. QED
          BY <4>1, <4>2, <4>3
      <3>2. CASE Progress(w)
        BY <3>2, TypeParts DEF Progress, StepsTyped
      <3>3. CASE ClaimTerminal(w)
        <4> DEFINE q == [step[w] EXCEPT !.staged = "irrevocable", !.at = "settle"]
        <4>1. /\ q \in Steps /\ SameHand(q, step[w]) /\ q.at = "settle"
              /\ q.staged = "irrevocable"
          BY <1>1 DEF Steps, SameHand
        <4>2. Become(w, q)
          BY <1>1, <3>3, StagedIt DEF ClaimTerminal
        <4> HIDE DEF q
        <4>3. StepTyped(q)
          BY <1>1, <3>3, <4>1 DEF StepTyped, SameHand, ClaimTerminal
        <4>4. QED
          BY <1>1, <4>1, <4>2, <4>3, StepsTypedBy
      <3>4. QED
        BY <1>5, <3>1, <3>2, <3>3
    <2>3. SessionsTyped'
      <3>1. CASE session' = session
        BY <3>1, TypeParts DEF SessionsTyped
      <3>2. CASE ClaimTerminal(w)
        <4> DEFINE q == claim_irrevocable_terminal(session[c], t)
        <4>1. /\ q \in Sessions /\ q.outbound = session[c].outbound
              /\ q.lease = session[c].lease
          BY <2>1, ClaimSession
        <4>2. session' = [session EXCEPT ![c] = q]
          BY <3>2 DEF ClaimTerminal
        <4> HIDE DEF q, c
        <4>3. QED
          BY <2>1, <4>1, <4>2, SessionsTypedBy DEF TypeInv, TypeOK
      <3>3. ASSUME NEW status \in {"progress"} \cup Pendings,
                   PublishError(session[c], t, step[w].task, status) = "none",
                   session' = [session EXCEPT ![c] = publish(@, t, step[w].task, status)]
            PROVE  SessionsTyped'
        <4>1. c \in Connections /\ t \in Timestamps /\ step[w].task \in Tasks
          BY <2>1
        <4> HIDE DEF c, t
        <4>2. QED
          BY <3>3, <4>1, PublishTyped
      <3>4. QED
        BY <1>5, <2>1, <3>1, <3>2, <3>3 DEF PublishTerminal, Progress
    <2>4. SlotsTyped' /\ ConnectionsTyped' /\ TasksTyped'
      BY <1>5, TypeParts DEF PublishTerminal, Progress, ClaimTerminal, SlotsTyped,
         ConnectionsTyped, TasksTyped, lifetime, executor
    <2>5. QED
      BY <2>2, <2>3, <2>4, TypeFromParts
  <1>6. CASE FinishRetain(w)
    <2> DEFINE i == step[w].slot
    <2>1. i \in Slots /\ Retained(w) \in Pendings
      BY <1>1, <1>6 DEF FinishRetain, Retained, StepTyped, Pendings
    <2>2. StepsTyped'
      BY <1>1, <1>6, IdleTyped, StepsTypedBy DEF FinishRetain
    <2>3. SlotsTyped'
      <3>1. [slot[i] EXCEPT !.state = "completed", !.pending = Retained(w)] \in SlotRecords
        <4>1. slot[i] \in SlotRecords
          BY <2>1, TypeParts DEF SlotsTyped
        <4> HIDE DEF i
        <4>2. QED
          BY <2>1, <4>1 DEF SlotRecords, States
      <3>2. slot' = [slot EXCEPT ![i] = [slot[i] EXCEPT !.state = "completed",
                                                        !.pending = Retained(w)]]
        BY <1>6, <2>1, TypeParts DEF FinishRetain, SlotsTyped
      <3>3. count' \in [Counters -> Int] /\ queue' = queue
        BY <1>6, CountTyped DEF FinishRetain, Counters
      <3> HIDE DEF i
      <3>4. QED
        BY <2>1, <3>1, <3>2, <3>3, SlotTypedBy, TypeParts DEF SlotsTyped
    <2>4. ConnectionsTyped' /\ TasksTyped' /\ SessionsTyped'
      BY <1>6, TypeParts DEF FinishRetain, ConnectionsTyped, TasksTyped, SessionsTyped, lifetime
    <2>5. QED
      BY <2>2, <2>3, <2>4, TypeFromParts
  <1>7. CASE FinishRelease(w)
    <2> DEFINE c == step[w].connection
               r == [Idle EXCEPT !.at = "force_close", !.connection = c]
    <2>1. c \in Connections /\ step[w].slot \in Slots
      BY <1>1, <1>7 DEF FinishRelease, StepTyped
    <2>2. StepsTyped'
      <3>1. r \in Steps /\ StepTyped(r)
        BY <2>1 DEF Steps, StepTyped, Idle, NoSlot, NoTask, Places, Pendings
      <3>2. Become(w, r) \/ Become(w, Idle)
        BY <1>7 DEF FinishRelease
      <3> HIDE DEF r
      <3>3. QED
        BY <1>1, <3>1, <3>2, IdleTyped, StepsTypedBy
    <2>3. SlotsTyped'
      BY <1>7, <2>1, ReleaseTyped, TypeParts DEF FinishRelease, SlotsTyped
    <2>4. ConnectionsTyped'
      <3>1. /\ operation_mutex' = operation_mutex
            /\ \/ connection' = connection
               \/ connection' = [connection EXCEPT ![c] =
                                    [accepting |-> FALSE, close_required |-> TRUE]]
        BY <1>7 DEF FinishRelease
      <3>2. QED
        <4>1. [accepting |-> FALSE, close_required |-> TRUE]
                \in [accepting : BOOLEAN, close_required : BOOLEAN]
          OBVIOUS
        <4> HIDE DEF c
        <4>2. QED
          BY <2>1, <3>1, <4>1, TypeParts DEF ConnectionsTyped
    <2>5. TasksTyped' /\ SessionsTyped'
      BY <1>7, TypeParts DEF FinishRelease, TasksTyped, SessionsTyped, lifetime
    <2>6. QED
      BY <2>2, <2>3, <2>4, <2>5, TypeFromParts
  <1>8. QED
    BY <1>2, <1>3, <1>4, <1>5, <1>6, <1>7 DEF WorkStep, Working

\* The steps that an actor takes on anew, with a connection.
LEMMA FreshStep ==
    ASSUME NEW c \in Connections
    PROVE  /\ \A x \in {"force_close", "close_session", "send_failed"} :
                 LET r == [Idle EXCEPT !.at = x, !.connection = c] IN
                 r \in Steps /\ StepTyped(r) /\ r.at = x /\ r.connection = c
           /\ Retrying(c) \in Steps /\ StepTyped(Retrying(c))
           /\ Retrying(c).at = "retry" /\ Retrying(c).connection = c
           /\ Retrying(c).scan = Slots
  <1>1. ASSUME NEW x \in {"force_close", "close_session", "send_failed"}
        PROVE  LET r == [Idle EXCEPT !.at = x, !.connection = c] IN
               r \in Steps /\ StepTyped(r) /\ r.at = x /\ r.connection = c
    BY DEF Steps, StepTyped, Idle, NoSlot, NoTask, Places, Pendings, Holds, Locked, Submits,
           Runs, Retries, Closes, Unconnected
  <1>2. /\ Retrying(c) \in Steps /\ StepTyped(Retrying(c))
        /\ Retrying(c).at = "retry" /\ Retrying(c).connection = c /\ Retrying(c).scan = Slots
    BY DEF Retrying, Steps, StepTyped, Idle, NoSlot, NoTask, Places, Pendings, Holds, Locked,
           Submits, Runs, Retries, Closes, Unconnected
  <1>3. QED
    BY <1>1, <1>2

LEMMA HandoffStep ==
    ASSUME ExecutorAssumption, NEW r \in Steps, r.connection \in Connections
    PROVE  LET q == Handoff(r) IN
           /\ q \in Steps /\ StepTyped(q) /\ q.at = "handoff" /\ q.scan = Slots
           /\ q.connection = r.connection /\ q.raise = r.raise /\ q.then = r.then
           /\ q.registry = r.registry
  <1>1. Slots # {}
    BY DEF Slots, ExecutorAssumption
  <1>2. QED
    BY <1>1 DEF Handoff, Steps, StepTyped, Places, Holds, Locked, Submits, Runs, Retries, Closes,
                Unconnected

LEMMA BeginSendTyped ==
    ASSUME TypeInv, NEW c \in Connections, BeginSend(c)
    PROVE  TypeInv'
  <1> DEFINE q == begin_send(session[c])
  <1>1. session[c] \in Sessions
    BY DEF TypeInv
  <1>2. /\ q \in Sessions /\ q.outbound = session[c].outbound /\ q.outbound # <<>>
    BY <1>1, LeaseSession DEF BeginSend, Sendable
  <1>3. session' = [session EXCEPT ![c] = q]
    BY DEF BeginSend
  <1> HIDE DEF q
  <1>4. SessionsTyped'
    BY <1>2, <1>3, SessionsTypedBy DEF TypeInv, TypeOK
  <1>5. SlotsTyped' /\ ConnectionsTyped' /\ TasksTyped' /\ StepsTyped'
    BY TypeParts DEF BeginSend, SlotsTyped, ConnectionsTyped, TasksTyped, StepsTyped, lifetime,
                     executor
  <1>6. QED
    BY <1>4, <1>5, TypeFromParts

\* A closed session is one.
LEMMA ClosedTyped ==
    ASSUME ExecutorAssumption, TypeInv, NEW c \in Connections,
           session' = [session EXCEPT ![c] = close_locked(@)]
    PROVE  SessionsTyped'
  <1> DEFINE q == close_locked(session[c])
  <1>1. q \in Sessions /\ ~q.lease /\ Len(q.outbound) = 0
    BY ClosedSession
  <1>2. session' = [session EXCEPT ![c] = q]
    OBVIOUS
  <1> HIDE DEF q
  <1>3. Len(q.outbound) <= max_queued_batches
    BY <1>1 DEF ExecutorAssumption
  <1>4. QED
    BY <1>1, <1>2, <1>3, SessionsTypedBy

LEMMA CloseTyped ==
    ASSUME ExecutorAssumption, TypeInv, SlotInv, NEW a \in Actors, CloseStep(a)
    PROVE  TypeInv'
  <1> USE DEF Holds, Locked, Submits, Runs, Retries, Closes, Unconnected, At
  <1>1. /\ step[a] \in Steps /\ StepTyped(step[a])
        /\ \A x \in {"close_session", "handoff", "await_idle", "close_registry"} : x \in Places
    BY StepFields DEF Places
  <1>2. step[a].at \in Closes /\ step[a].connection \in Connections
    BY <1>1 DEF CloseStep, Closing, CloseSession, CancelHandoff, ForceClose, StepTyped
  <1>3. CASE ForceClose(a)
    <2> DEFINE c == step[a].connection
               q == [step[a] EXCEPT !.at = "close_session"]
    <2>1. q \in Steps /\ SameHand(q, step[a]) /\ q.at = "close_session"
      BY <1>1, MovedOn
    <2>2. Become(a, q)
      BY <1>3, Went DEF ForceClose
    <2> HIDE DEF q
    <2>3. StepTyped(q)
      BY <1>2, <2>1 DEF StepTyped, SameHand
    <2>4. StepsTyped'
      BY <2>1, <2>2, <2>3, StepsTypedBy
    <2>5. ConnectionsTyped'
      <3>1. connection' = [connection EXCEPT ![c] =
                              [accepting |-> FALSE, close_required |-> TRUE]]
        BY <1>3 DEF ForceClose
      <3>2. operation_mutex' \in [Connections -> Actors \cup {Nobody}]
        BY <1>2, <1>3, LockTyped DEF ForceClose
      <3>3. [accepting |-> FALSE, close_required |-> TRUE]
                \in [accepting : BOOLEAN, close_required : BOOLEAN]
        OBVIOUS
      <3> HIDE DEF c
      <3>4. QED
        BY <3>1, <3>2, <3>3, TypeParts DEF ConnectionsTyped
    <2>6. SlotsTyped' /\ TasksTyped' /\ SessionsTyped'
      BY <1>3, TypeParts DEF ForceClose, SlotsTyped, TasksTyped, SessionsTyped, lifetime, executor
    <2>7. QED
      BY <2>4, <2>5, <2>6, TypeFromParts
  <1>4. CASE CloseSession(a)
    <2>1. StepsTyped'
      BY <1>1, <1>2, <1>4, HandoffStep, StepsTypedBy DEF CloseSession
    <2>2. SessionsTyped'
      BY <1>2, <1>4, ClosedTyped DEF CloseSession
    <2>3. SlotsTyped' /\ ConnectionsTyped' /\ TasksTyped'
      BY <1>2, <1>4, UnlockTyped, TypeParts
      DEF CloseSession, SlotsTyped, ConnectionsTyped, TasksTyped, lifetime, executor
    <2>4. QED
      BY <2>1, <2>2, <2>3, TypeFromParts
  <1>5. CASE CancelHandoff(a)
    <2> DEFINE c == step[a].connection
               i == Lowest(step[a].scan)
               more == [step[a] EXCEPT !.scan = @ \ {i}]
               next == [Idle EXCEPT !.at = step[a].then, !.connection = c,
                                    !.registry = step[a].registry]
    <2>1. i \in Slots
      BY <1>1, <1>5, StepFields, LowestIsIn DEF CancelHandoff, StepTyped
    <2>2. StepsTyped'
      <3>1. CASE step[a].scan # {i}
        <4>1. Become(a, more) /\ step[a].scan # {}
          BY <1>1, <1>5, <3>1 DEF CancelHandoff, StepTyped
        <4>2. step[a].scan \ {i} # {}
          BY <1>1, <1>5, <3>1, StepFields, LowestIsIn DEF CancelHandoff, StepTyped
        <4>3. /\ more \in Steps /\ more.at = "handoff" /\ more.connection = c
              /\ more.scan = step[a].scan \ {i}
          BY <1>1, <1>5 DEF CancelHandoff, Steps
        <4> HIDE DEF more
        <4>4. StepTyped(more)
          BY <1>2, <4>2, <4>3 DEF StepTyped
        <4>5. QED
          BY <4>1, <4>3, <4>4, StepsTypedBy
      <3>2. CASE Become(a, Idle)
        BY <3>2, IdleTyped, StepsTypedBy
      <3>3. CASE step[a].then # "idle" /\ Become(a, next)
        <4>1. /\ step[a].then \in {"await_idle", "close_registry"}
              /\ step[a].registry \subseteq Connections
          BY <3>3, StepFields
        <4>2. next \in Steps /\ StepTyped(next)
          BY <1>2, <4>1 DEF Steps, StepTyped, Idle, NoSlot, NoTask, Places, Pendings
        <4> HIDE DEF next
        <4>3. QED
          BY <3>3, <4>2, StepsTypedBy
      <3>4. QED
        BY <1>5, <3>1, <3>2, <3>3 DEF CancelHandoff
    <2>3. SlotsTyped'
      <3>1. CASE Release(i, {"completed"})
        BY <1>5, <2>1, <3>1, ReleaseTyped, TypeParts DEF CancelHandoff, SlotsTyped
      <3>2. CASE UNCHANGED <<slot, count>>
        BY <1>5, <3>2, TypeParts DEF CancelHandoff, SlotsTyped
      <3>3. QED
        BY <1>5, <3>1, <3>2 DEF CancelHandoff
    <2>4. TasksTyped'
      <3>1. i \in Owned(c) => slot[i].task \in Tasks
        BY <2>1, SlotFields DEF Owned
      <3>2. stop_requested' \subseteq Tasks
        BY <1>5, <3>1, TypeParts DEF CancelHandoff, TasksTyped
      <3>3. QED
        BY <1>5, <3>2, TypeParts DEF CancelHandoff, TasksTyped, lifetime
    <2>5. ConnectionsTyped' /\ SessionsTyped'
      BY <1>5, TypeParts DEF CancelHandoff, ConnectionsTyped, SessionsTyped
    <2>6. QED
      BY <2>2, <2>3, <2>4, <2>5, TypeFromParts
  <1>6. QED
    BY <1>3, <1>4, <1>5 DEF CloseStep, Closing

LEMMA DetachTyped ==
    ASSUME TypeInv, NEW h \in Hosts, DetachStep(h)
    PROVE  TypeInv'
  <1>1. h \in Actors
    BY DEF Actors
  <1>2. ASSUME NEW c \in Connections, Close(h, c)
        PROVE  TypeInv'
    <2>1. PICK then \in {"idle", "await_idle"} :
             Become(h, [Idle EXCEPT !.at = "close_session", !.connection = c, !.then = then])
      BY <1>2 DEF Close
    <2> DEFINE r == [Idle EXCEPT !.at = "close_session", !.connection = c, !.then = then]
    <2>2. r \in Steps /\ StepTyped(r)
      BY DEF Steps, StepTyped, Idle, NoSlot, NoTask, Places, Pendings, Holds, Locked, Submits,
             Runs, Retries, Closes, Unconnected
    <2> HIDE DEF r
    <2>3. StepsTyped'
      BY <1>1, <2>1, <2>2, StepsTypedBy DEF r
    <2>4. ConnectionsTyped'
      BY <1>1, <1>2, LockTyped, StopTyped DEF Close, ConnectionsTyped
    <2>5. SlotsTyped' /\ TasksTyped' /\ SessionsTyped'
      BY <1>2, TypeParts DEF Close, SlotsTyped, TasksTyped, SessionsTyped, lifetime, executor
    <2>6. QED
      BY <2>3, <2>4, <2>5, TypeFromParts
  <1>3. CASE ConnectionIdle(h)
    <2>1. StepsTyped'
      BY <1>1, <1>3, IdleTyped, StepsTypedBy DEF ConnectionIdle
    <2>2. QED
      BY <1>3, <2>1, MoveTyped DEF ConnectionIdle, executor
  <1>4. QED
    BY <1>2, <1>3 DEF DetachStep

LEMMA ShutdownTyped ==
    ASSUME TypeInv, SlotInv, NEW h \in Hosts, ShutdownStep(h)
    PROVE  TypeInv'
  <1> USE DEF At
  <1>1. /\ h \in Actors /\ step[h] \in Steps /\ StepTyped(step[h])
        /\ "await_registry" \in Places
    BY StepFields DEF Actors, Places, Unconnected
  <1>2. SlotsTyped' /\ ConnectionsTyped' /\ SessionsTyped'
    BY TypeParts
    DEF ShutdownStep, ShuttingDown, ShutdownBegin, ShutdownJoin, CloseRegistry, RegistryClosed,
        RaiseShutdownStops, ShutdownReturns, SlotsTyped, ConnectionsTyped, SessionsTyped, executor
  <1>3. TasksTyped'
    <2>1. {slot[i].task : i \in Slots \ In("free")} \subseteq Tasks
      BY SlotFields DEF In
    <2>2. TasksTyped
      BY TypeParts
    <2>3. QED
      BY <2>1, <2>2
      DEF ShutdownStep, ShuttingDown, ShutdownBegin, ShutdownJoin, CloseRegistry, RegistryClosed,
          RaiseShutdownStops, ShutdownReturns, TasksTyped, lifetime
  <1>4. StepsTyped'
    <2>1. CASE ShutdownBegin(h) \/ RegistryClosed(h)
      <3>1. PICK r : /\ Become(h, r)
                     /\ \/ r = [Idle EXCEPT !.at = "close_registry", !.registry = Connections]
                        \/ r = [Idle EXCEPT !.at = "raise_stops"]
        BY <2>1 DEF ShutdownBegin, RegistryClosed
      <3>2. r \in Steps /\ StepTyped(r)
        BY <3>1 DEF Steps, StepTyped, Idle, NoSlot, NoTask, Places, Pendings, Holds, Locked,
                    Submits, Runs, Retries, Closes, Unconnected
      <3>3. QED
        BY <1>1, <3>1, <3>2, StepsTypedBy
    <2>2. CASE Goto(h, "await_registry")
      <3> DEFINE q == [step[h] EXCEPT !.at = "await_registry"]
      <3>1. q \in Steps /\ SameHand(q, step[h]) /\ q.at = "await_registry"
        BY <1>1, MovedOn
      <3>2. Become(h, q)
        BY <1>1, <2>2, Went
      <3> HIDE DEF q
      <3>3. StepTyped(q)
        BY <3>1 DEF StepTyped, Holds, Submits, Runs, Retries, Unconnected
      <3>4. QED
        BY <1>1, <3>1, <3>2, <3>3, StepsTypedBy
    <2>3. CASE CloseRegistry(h)
      <3>1. PICK c \in step[h].registry :
               Become(h, [Idle EXCEPT !.at = "force_close", !.connection = c, !.raise = FALSE,
                              !.then = "close_registry", !.registry = step[h].registry \ {c}])
        BY <2>3 DEF CloseRegistry
      <3> DEFINE r == [Idle EXCEPT !.at = "force_close", !.connection = c, !.raise = FALSE,
                          !.then = "close_registry", !.registry = step[h].registry \ {c}]
      <3>2. step[h].registry \subseteq Connections
        BY <1>1, StepFields
      <3>3. r \in Steps /\ StepTyped(r)
        BY <3>2 DEF Steps, StepTyped, Idle, NoSlot, NoTask, Places, Pendings, Holds, Locked,
                    Submits, Runs, Retries, Closes, Unconnected
      <3> HIDE DEF r
      <3>4. QED
        BY <1>1, <3>1, <3>3, StepsTypedBy DEF r
    <2>4. CASE Become(h, Idle)
      BY <1>1, <2>4, IdleTyped, StepsTypedBy
    <2>5. CASE UNCHANGED step
      BY <2>5, TypeParts DEF StepsTyped
    <2>6. QED
      BY <2>1, <2>2, <2>3, <2>4, <2>5
      DEF ShutdownStep, ShuttingDown, ShutdownJoin, RaiseShutdownStops, ShutdownReturns
  <1>5. QED
    BY <1>2, <1>3, <1>4, TypeFromParts

LEMMA CancelTyped ==
    ASSUME TypeInv, SlotInv, NEW h \in Hosts, CancelStep(h)
    PROVE  TypeInv'
  <1> USE DEF At
  <1>1. /\ h \in Actors /\ step[h] \in Steps /\ StepTyped(step[h]) /\ "replace" \in Places
    BY StepFields DEF Actors, Places
  <1>2. ASSUME NEW c \in Connections, NEW t \in Timestamps, RequestCancel(h, c, t)
        PROVE  TypeInv'
    <2> DEFINE r == [Idle EXCEPT !.at = "find_target", !.connection = c, !.timestamp = t]
               q == request_cancel(session[c], t)
    <2>1. r \in Steps /\ StepTyped(r)
      BY DEF Steps, StepTyped, Idle, NoSlot, NoTask, Places, Pendings, Holds, Locked, Submits,
             Runs, Retries, Closes, Unconnected
    <2>2. Become(h, r)
      BY <1>2 DEF RequestCancel
    <2>3. /\ q \in Sessions /\ q.outbound = session[c].outbound
          /\ q.lease = session[c].lease
      BY CancelSession DEF TypeInv
    <2>4. session' = [session EXCEPT ![c] = q]
      BY <1>2 DEF RequestCancel
    <2> HIDE DEF r, q
    <2>5. StepsTyped' /\ SessionsTyped'
      BY <1>1, <2>1, <2>2, <2>3, <2>4, StepsTypedBy, SessionsTypedBy DEF TypeInv, TypeOK
    <2>6. SlotsTyped' /\ ConnectionsTyped' /\ TasksTyped'
      BY <1>1, <1>2, LockTyped, TypeParts
      DEF RequestCancel, SlotsTyped, ConnectionsTyped, TasksTyped, lifetime, executor
    <2>7. QED
      BY <2>5, <2>6, TypeFromParts
  <1>3. CASE FindStopTarget(h)
    <2> DEFINE c == step[h].connection
               S == Targets(c, step[h].timestamp)
               i == Lowest(S)
               q == [step[h] EXCEPT !.at = "raise_stop", !.slot = i, !.task = slot[i].task]
    <2>1. c \in Connections /\ step[h].timestamp \in Timestamps
      BY <1>1, <1>3 DEF FindStopTarget, StepTyped, Unconnected
    <2>2. StepsTyped'
      <3>1. CASE S = {}
        BY <1>1, <1>3, <3>1, IdleTyped, StepsTypedBy DEF FindStopTarget
      <3>2. CASE S # {}
        <4>1. i \in S
          BY <3>2, LowestIsIn DEF Targets, Owned
        <4>2. i \in Slots /\ slot[i].task \in Tasks
          BY <4>1, SlotFields DEF Targets, Owned
        <4>3. Become(h, q)
          BY <1>3, <3>2 DEF FindStopTarget
        <4> HIDE DEF i
        <4>4. /\ q \in Steps /\ q.at = "raise_stop" /\ q.connection = c /\ q.slot = i
              /\ q.timestamp = step[h].timestamp /\ q.task = slot[i].task
          BY <1>1, <4>2 DEF Steps, Places
        <4> HIDE DEF q, c
        <4>5. StepTyped(q)
          BY <2>1, <4>2, <4>4 DEF StepTyped, Unconnected, Holds, Submits, Runs, Retries
        <4>6. QED
          BY <1>1, <4>3, <4>4, <4>5, StepsTypedBy
      <3>3. QED
        BY <3>1, <3>2
    <2>3. SlotsTyped' /\ ConnectionsTyped' /\ TasksTyped' /\ SessionsTyped'
      BY <1>3, <2>1, UnlockTyped, TypeParts
      DEF FindStopTarget, SlotsTyped, ConnectionsTyped, TasksTyped, SessionsTyped, lifetime,
          executor
    <2>4. QED
      BY <2>2, <2>3, TypeFromParts
  <1>4. CASE RaiseStop(h)
    <2> DEFINE q == [step[h] EXCEPT !.at = "replace"]
    <2>1. q \in Steps /\ SameHand(q, step[h]) /\ q.at = "replace"
      BY <1>1, MovedOn
    <2>2. Become(h, q)
      BY <1>1, <1>4, Went DEF RaiseStop
    <2> HIDE DEF q
    <2>3. step[h].task \in Tasks
      BY <1>1, <1>4 DEF RaiseStop, StepTyped
    <2>4. StepTyped(q)
      BY <1>1, <1>4, <2>1 DEF RaiseStop, StepTyped, SameHand, Unconnected, Holds, Submits, Runs,
                              Retries
    <2>5. StepsTyped'
      BY <1>1, <2>1, <2>2, <2>4, StepsTypedBy
    <2>6. SlotsTyped' /\ ConnectionsTyped' /\ TasksTyped' /\ SessionsTyped'
      BY <1>4, <2>3, TypeParts
      DEF RaiseStop, SlotsTyped, ConnectionsTyped, TasksTyped, SessionsTyped, lifetime, executor
    <2>7. QED
      BY <2>5, <2>6, TypeFromParts
  <1>5. CASE ReplaceCompleted(h)
    <2> DEFINE i == step[h].slot
    <2>1. i \in Slots
      BY <1>1, <1>5 DEF ReplaceCompleted, StepTyped
    <2>2. StepsTyped'
      BY <1>1, <1>5, IdleTyped, StepsTypedBy DEF ReplaceCompleted
    <2>3. SlotsTyped'
      <3>1. slot' = slot \/ slot' = [slot EXCEPT ![i].pending = "cancelled"]
        BY <1>5 DEF ReplaceCompleted
      <3>2. slot' \in [Slots -> SlotRecords]
        BY <2>1, <3>1, PendingTyped, TypeParts DEF SlotsTyped, Pendings
      <3>3. QED
        BY <1>5, <3>2, TypeParts DEF ReplaceCompleted, SlotsTyped
    <2>4. ConnectionsTyped' /\ TasksTyped' /\ SessionsTyped'
      BY <1>5, TypeParts
      DEF ReplaceCompleted, ConnectionsTyped, TasksTyped, SessionsTyped, lifetime
    <2>5. QED
      BY <2>2, <2>3, <2>4, TypeFromParts
  <1>6. QED
    BY <1>2, <1>3, <1>4, <1>5 DEF CancelStep, Cancelling

LEMMA SendTyped ==
    ASSUME ExecutorAssumption, TypeInv, SlotInv, NEW h \in Hosts, SendStep(h)
    PROVE  TypeInv'
  <1> USE DEF At
  <1>1. /\ h \in Actors /\ step[h] \in Steps /\ StepTyped(step[h])
        /\ step[h].scan \subseteq Slots /\ step[h].staged \in Pendings
    BY StepFields DEF Actors
  <1>2. ASSUME NEW c \in Connections, CompleteSend(h, c)
        PROVE  TypeInv'
    <2> DEFINE q == complete_send(session[c])
    <2>1. session[c] \in Sessions /\ session[c].outbound # <<>>
      BY <1>2 DEF CompleteSend, TypeInv, TypeOK
    <2>2. /\ q \in Sessions /\ Len(q.outbound) = Len(session[c].outbound) - 1 /\ ~q.lease
      BY <2>1, SentSession
    <2>3. session' = [session EXCEPT ![c] = q]
      BY <1>2 DEF CompleteSend
    <2>4. /\ Len(session[c].outbound) <= max_queued_batches
          /\ Len(session[c].outbound) \in Nat
      BY <2>1, SessionFields DEF TypeInv, TypeOK
    <2> HIDE DEF q
    <2>5. Len(q.outbound) <= max_queued_batches
      BY <2>2, <2>4 DEF ExecutorAssumption
    <2>6. SessionsTyped'
      BY <2>2, <2>3, <2>5, SessionsTypedBy
    <2>7. StepsTyped'
      BY <1>1, <1>2, FreshStep, StepsTypedBy DEF CompleteSend
    <2>8. SlotsTyped' /\ ConnectionsTyped' /\ TasksTyped'
      BY <1>1, <1>2, LockTyped, TypeParts
      DEF CompleteSend, SlotsTyped, ConnectionsTyped, TasksTyped, lifetime, executor
    <2>9. QED
      BY <2>6, <2>7, <2>8, TypeFromParts
  <1>3. ASSUME NEW c \in Connections, FailSend(h, c)
        PROVE  TypeInv'
    <2>1. StepsTyped'
      BY <1>1, <1>3, FreshStep, StepsTypedBy DEF FailSend
    <2>2. SessionsTyped'
      BY <1>3, ClosedTyped DEF FailSend
    <2>3. SlotsTyped' /\ ConnectionsTyped' /\ TasksTyped'
      BY <1>1, <1>3, LockTyped, TypeParts
      DEF FailSend, SlotsTyped, ConnectionsTyped, TasksTyped, lifetime, executor
    <2>4. QED
      BY <2>1, <2>2, <2>3, TypeFromParts
  <1>4. CASE StopAfterFailure(h)
    <2>1. step[h].connection \in Connections
      BY <1>1, <1>4 DEF StopAfterFailure, StepTyped, Unconnected
    <2>2. StepsTyped'
      BY <1>1, <1>4, <2>1, HandoffStep, StepsTypedBy DEF StopAfterFailure
    <2>3. ConnectionsTyped'
      BY <1>4, <2>1, UnlockTyped, StopTyped DEF StopAfterFailure, ConnectionsTyped
    <2>4. SlotsTyped' /\ TasksTyped' /\ SessionsTyped'
      BY <1>4, TypeParts
      DEF StopAfterFailure, SlotsTyped, TasksTyped, SessionsTyped, lifetime, executor
    <2>5. QED
      BY <2>2, <2>3, <2>4, TypeFromParts
  <1>5. CASE RetrySkip(h)
    <2> DEFINE q == [step[h] EXCEPT !.scan = @ \ {Lowest(step[h].scan)}]
    <2>1. Become(h, q)
      BY <1>1, <1>5 DEF RetrySkip, Become, TypeInv
    <2>2. q \in Steps /\ StepTyped(q)
      BY <1>1, <1>5 DEF RetrySkip, Steps, StepTyped, Unconnected, Holds, Submits, Runs, Retries
    <2> HIDE DEF q
    <2>3. StepsTyped'
      BY <1>1, <2>1, <2>2, StepsTypedBy
    <2>4. QED
      BY <1>5, <2>3, MoveTyped DEF RetrySkip, executor
  <1>6. CASE RetryTake(h)
    <2> DEFINE i == Lowest(step[h].scan)
               q == [step[h] EXCEPT !.at = "retry_publish", !.slot = i,
                         !.scan = @ \ {i}, !.staged = slot[i].pending,
                         !.timestamp = slot[i].timestamp, !.task = slot[i].task]
    <2>1. i \in Slots
      BY <1>1, <1>6, LowestIsIn DEF RetryTake
    <2>2. /\ slot[i].pending \in Pendings \ {"none"} /\ slot[i].timestamp \in Timestamps
          /\ slot[i].task \in Tasks
      BY <1>6, <2>1, SlotFields DEF RetryTake, Retryable
    <2>3. step[h].connection \in Connections
      BY <1>1, <1>6 DEF RetryTake, StepTyped, Unconnected
    <2>4. Become(h, q) /\ slot' = [slot EXCEPT ![i].pending = "none"]
      BY <1>6 DEF RetryTake
    <2> HIDE DEF i
    <2>5. /\ q \in Steps /\ q.at = "retry_publish" /\ q.connection = step[h].connection
          /\ q.slot = i /\ q.timestamp \in Timestamps /\ q.task \in Tasks /\ q.staged # "none"
      <3>1. "retry_publish" \in Places
        BY DEF Places, Holds, Retries
      <3>2. QED
        BY <1>1, <2>1, <2>2, <3>1 DEF Steps
    <2> HIDE DEF q
    <2>6. StepTyped(q)
      BY <2>1, <2>3, <2>5 DEF StepTyped
    <2>7. StepsTyped'
      BY <1>1, <2>4, <2>5, <2>6, StepsTypedBy
    <2>8. SlotsTyped'
      BY <1>6, <2>1, <2>4, PendingTyped, TypeParts DEF RetryTake, SlotsTyped, Pendings
    <2>9. ConnectionsTyped' /\ TasksTyped' /\ SessionsTyped'
      BY <1>6, TypeParts DEF RetryTake, ConnectionsTyped, TasksTyped, SessionsTyped, lifetime
    <2>10. QED
      BY <2>7, <2>8, <2>9, TypeFromParts
  <1>7. CASE RetryPublish(h)
    <2> DEFINE c == step[h].connection
               t == step[h].timestamp
    <2>1. /\ c \in Connections /\ t \in Timestamps /\ step[h].task \in Tasks
          /\ step[h].slot \in Slots /\ step[h].staged # "none"
      BY <1>1, <1>7 DEF RetryPublish, StepTyped, Unconnected, Holds, Retries
    <2>2. PICK x \in {"published", "retry", "close"} :
             step' = [step EXCEPT ![h].outcome = x, ![h].at = "retry_settle"]
      BY <1>7 DEF RetryPublish, Disposition
    <2> DEFINE q == [step[h] EXCEPT !.outcome = x, !.at = "retry_settle"]
    <2>3. /\ q \in Steps /\ SameHand(q, step[h]) /\ q.at = "retry_settle"
          /\ q.staged = step[h].staged
      <3>1. "retry_settle" \in Places
        BY DEF Places, Holds, Retries
      <3>2. QED
        BY <1>1, <3>1 DEF Steps, SameHand
    <2>4. Become(h, q)
      BY <1>1, <2>2, OutcomeKept
    <2> HIDE DEF q
    <2>5. StepTyped(q)
      BY <2>1, <2>3 DEF StepTyped, SameHand
    <2>6. StepsTyped'
      BY <1>1, <2>3, <2>4, <2>5, StepsTypedBy
    <2>7. SessionsTyped'
      <3>1. CASE session' = session
        BY <3>1, TypeParts DEF SessionsTyped
      <3>2. CASE /\ PublishError(session[c], t, step[h].task, step[h].staged) = "none"
                 /\ session' = [session EXCEPT ![c] = publish(@, t, step[h].task, step[h].staged)]
        <4>1. step[h].staged \in {"progress"} \cup Pendings
          BY <1>1
        <4> HIDE DEF c, t
        <4>2. QED
          BY <2>1, <3>2, <4>1, PublishTyped
      <3>3. QED
        BY <1>7, <3>1, <3>2 DEF RetryPublish
    <2>8. SlotsTyped' /\ ConnectionsTyped' /\ TasksTyped'
      BY <1>7, TypeParts
      DEF RetryPublish, SlotsTyped, ConnectionsTyped, TasksTyped, lifetime, executor
    <2>9. QED
      BY <2>6, <2>7, <2>8, TypeFromParts
  <1>8. CASE RetrySettle(h)
    <2> DEFINE c == step[h].connection
               i == step[h].slot
               q == [Retrying(c) EXCEPT !.scan = step[h].scan,
                        !.must_close = step[h].must_close \/ step[h].outcome = "close"]
    <2>1. c \in Connections /\ i \in Slots /\ step[h].must_close \in BOOLEAN
      BY <1>1, <1>8, StepFields DEF RetrySettle, StepTyped, Unconnected, Holds, Retries
    <2>2. Become(h, q)
      BY <1>8 DEF RetrySettle
    <2>3. q \in Steps /\ StepTyped(q)
      <3>1. q \in Steps /\ q.at = "retry" /\ q.connection = c
        <4>1. Retrying(c) \in Steps /\ Retrying(c).at = "retry" /\ Retrying(c).connection = c
          BY <2>1, FreshStep
        <4> HIDE DEF c
        <4>2. QED
          BY <1>1, <2>1, <4>1 DEF Steps
      <3> HIDE DEF q, c
      <3>2. QED
        BY <2>1, <3>1 DEF StepTyped, Holds, Submits, Runs, Retries
    <2> HIDE DEF q
    <2>4. StepsTyped'
      BY <1>1, <2>2, <2>3, StepsTypedBy
    <2>5. SlotsTyped'
      <3>1. CASE Release(i, {"completed"})
        BY <1>8, <2>1, <3>1, ReleaseTyped, TypeParts DEF RetrySettle, SlotsTyped
      <3>2. CASE slot' = [slot EXCEPT ![i].pending = step[h].staged] /\ UNCHANGED count
        BY <1>1, <1>8, <2>1, <3>2, PendingTyped, TypeParts DEF RetrySettle, SlotsTyped
      <3>3. QED
        BY <1>8, <3>1, <3>2 DEF RetrySettle
    <2>6. ConnectionsTyped'
      <3>1. /\ operation_mutex' = operation_mutex
            /\ \/ connection' = connection
               \/ connection' = [connection EXCEPT ![c].close_required = TRUE]
        BY <1>8 DEF RetrySettle
      <3> HIDE DEF c
      <3>2. QED
        BY <2>1, <3>1, TypeParts DEF ConnectionsTyped
    <2>7. TasksTyped' /\ SessionsTyped'
      BY <1>8, TypeParts DEF RetrySettle, TasksTyped, SessionsTyped, lifetime
    <2>8. QED
      BY <2>4, <2>5, <2>6, <2>7, TypeFromParts
  <1>9. CASE RetryDone(h)
    <2> DEFINE c == step[h].connection
    <2>1. c \in Connections
      BY <1>1, <1>9 DEF RetryDone, StepTyped, Unconnected
    <2>2. \/ /\ Stop(c) /\ Become(h, [Idle EXCEPT !.at = "close_session", !.connection = c])
             /\ UNCHANGED operation_mutex
          \/ Unlock(c) /\ Become(h, Idle) /\ UNCHANGED connection
      BY <1>9 DEF RetryDone
    <2> HIDE DEF c
    <2>3. StepsTyped'
      <3>1. CASE Become(h, Idle)
        BY <1>1, <3>1, IdleTyped, StepsTypedBy
      <3>2. CASE Become(h, [Idle EXCEPT !.at = "close_session", !.connection = c])
        <4> DEFINE r == [Idle EXCEPT !.at = "close_session", !.connection = c]
        <4>1. r \in Steps /\ StepTyped(r)
          BY <2>1, FreshStep
        <4> HIDE DEF r
        <4>2. QED
          BY <1>1, <3>2, <4>1, StepsTypedBy DEF r
      <3>3. QED
        BY <2>2, <3>1, <3>2
    <2>4. ConnectionsTyped'
      BY <2>1, <2>2, StopTyped, UnlockTyped, TypeParts DEF ConnectionsTyped
    <2>5. SlotsTyped' /\ TasksTyped' /\ SessionsTyped'
      BY <1>9, TypeParts
      DEF RetryDone, SlotsTyped, TasksTyped, SessionsTyped, lifetime, executor
    <2>6. QED
      BY <2>3, <2>4, <2>5, TypeFromParts
  <1>10. QED
    BY <1>2, <1>3, <1>4, <1>5, <1>6, <1>7, <1>8, <1>9 DEF SendStep, Resending

LEMMA TypeStep ==
    ASSUME ExecutorAssumption, RetriesFollowSends, TypeInv, SlotInv, CountInv, [Next]_vars
    PROVE  TypeInv'
  <1>1. CASE Next
    BY <1>1, StepsOfNext, SubmitTyped, WorkTyped, SendTyped, CancelTyped, CloseTyped,
       DetachTyped, ShutdownTyped, BeginSendTyped
  <1>2. CASE UNCHANGED vars
    BY <1>2, TypeParts, TypeFromParts
    DEF vars, executor, SlotsTyped, ConnectionsTyped, TasksTyped, SessionsTyped, StepsTyped,
        lifetime
  <1>3. QED
    BY <1>1, <1>2

-----------------------------------------------------------------------------
(* What the steps of one actor come to *)

OnlyStep(a) == \A b \in Actors \ {a} : step'[b] = step[b]
OnlySlot(i) == \A j \in Slots \ {i} : slot'[j] = slot[j]

LEMMA GoneTo ==
    ASSUME TypeInv, NEW a \in Actors, NEW x \in Places, Goto(a, x)
    PROVE  /\ step'[a].at = x /\ SameHand(step'[a], step[a]) /\ OnlyStep(a)
           /\ step'[a].staged = step[a].staged /\ step'[a].outcome = step[a].outcome
  <1> DEFINE q == [step[a] EXCEPT !.at = x]
  <1>1. step'[a] = q /\ OnlyStep(a)
    BY Went, Became DEF OnlyStep
  <1>2. /\ SameHand(q, step[a]) /\ q.at = x
        /\ q.staged = step[a].staged /\ q.outcome = step[a].outcome
    BY StepFields, MovedOn
  <1>3. QED
    BY <1>1, <1>2

LEMMA StagedTo ==
    ASSUME TypeInv, NEW a \in Actors, NEW x, NEW y, Staged(a, y, x)
    PROVE  /\ step'[a].at = x /\ SameHand(step'[a], step[a]) /\ OnlyStep(a)
           /\ step'[a].staged = y /\ step'[a].outcome = step[a].outcome
  <1> DEFINE q == [step[a] EXCEPT !.staged = y, !.at = x]
  <1>1. step'[a] = q /\ OnlyStep(a)
    BY StagedIt, Became DEF OnlyStep
  <1>2. /\ SameHand(q, step[a]) /\ q.at = x
        /\ q.staged = y /\ q.outcome = step[a].outcome
    BY StepFields DEF Steps, SameHand
  <1>3. QED
    BY <1>1, <1>2

LEMMA OutcomeTo ==
    ASSUME TypeInv, NEW a \in Actors, NEW x, NEW z,
           step' = [step EXCEPT ![a].outcome = z, ![a].at = x]
    PROVE  /\ step'[a].at = x /\ SameHand(step'[a], step[a]) /\ OnlyStep(a)
           /\ step'[a].staged = step[a].staged /\ step'[a].outcome = z
  <1> DEFINE q == [step[a] EXCEPT !.outcome = z, !.at = x]
  <1>1. step'[a] = q /\ OnlyStep(a)
    BY OutcomeKept, Became DEF OnlyStep
  <1>2. /\ SameHand(q, step[a]) /\ q.at = x
        /\ q.staged = step[a].staged /\ q.outcome = z
    BY StepFields DEF Steps, SameHand
  <1>3. QED
    BY <1>1, <1>2

LEMMA IdleAgain ==
    ASSUME TypeInv, NEW a \in Actors, Become(a, Idle)
    PROVE  step'[a] = Idle /\ step'[a].at = "idle" /\ OnlyStep(a)
  BY Became, IdleTyped DEF OnlyStep

LEMMA SlotSet ==
    ASSUME TypeInv, NEW i \in Slots, NEW s, slot' = [slot EXCEPT ![i] = s]
    PROVE  slot'[i] = s /\ OnlySlot(i)
  BY DEF TypeInv, TypeOK, OnlySlot

LEMMA Released ==
    ASSUME TypeInv, NEW i \in Slots, NEW fields, Release(i, fields)
    PROVE  slot'[i] = FreeSlot /\ OnlySlot(i) /\ slot'[i].state = "free"
  BY ReleaseTyped, SlotSet DEF FreeSlot

LEMMA ReserveEffect ==
    ASSUME ExecutorAssumption, TypeInv, NEW h \in Hosts, NEW c \in Connections,
           NEW t \in Timestamps, SubmitReserve(h, c, t)
    PROVE  \E i \in Slots :
              /\ slot[i].state = "free" /\ OnlySlot(i)
              /\ slot'[i].state = "reserved" /\ slot'[i].connection = c
              /\ slot'[i].timestamp = t /\ slot'[i].task = next_task
              /\ step[h].at = "idle" /\ OnlyStep(h)
              /\ step'[h].at = "admit" /\ step'[h].connection = c /\ step'[h].timestamp = t
              /\ step'[h].slot = i /\ step'[h].task = next_task
  <1> DEFINE i == Lowest(In("free"))
             r == [Idle EXCEPT !.at = "admit", !.connection = c, !.timestamp = t,
                               !.slot = i, !.task = next_task]
             s == [FreeSlot EXCEPT !.state = "reserved", !.connection = c, !.timestamp = t,
                                   !.task = next_task]
  <1>1. i \in Slots /\ slot[i].state = "free"
    BY LowestIsIn DEF SubmitReserve, Reservable, In
  <1>2. Become(h, r) /\ slot' = [slot EXCEPT ![i] = s] /\ step[h].at = "idle"
    BY DEF SubmitReserve, At
  <1>3. /\ s.state = "reserved" /\ s.connection = c /\ s.timestamp = t /\ s.task = next_task
        /\ r.at = "admit" /\ r.connection = c /\ r.timestamp = t /\ r.slot = i
        /\ r.task = next_task
    BY DEF FreeSlot, Idle
  <1> HIDE DEF i, r, s
  <1>4. step'[h] = r /\ OnlyStep(h)
    BY <1>2, Became DEF OnlyStep, Actors
  <1>5. slot'[i] = s /\ OnlySlot(i)
    BY <1>1, <1>2, SlotSet
  <1>6. QED
    BY <1>1, <1>2, <1>3, <1>4, <1>5

LEMMA TakeEffect ==
    ASSUME TypeInv, CountInv, NEW w \in Workers, Take(w)
    PROVE  LET i == Head(queue) IN
           /\ i \in Slots /\ slot[i].state = "queued" /\ OnlySlot(i)
           /\ slot'[i].state = "running" /\ slot'[i].connection = slot[i].connection
           /\ slot'[i].timestamp = slot[i].timestamp /\ slot'[i].task = slot[i].task
           /\ step[w].at = "idle" /\ OnlyStep(w)
           /\ step'[w].at = "dispatch" /\ step'[w].connection = slot[i].connection
           /\ step'[w].timestamp = slot[i].timestamp /\ step'[w].slot = i
           /\ step'[w].task = slot[i].task
  <1> DEFINE i == Head(queue)
             r == [Idle EXCEPT !.at = "dispatch", !.connection = slot[i].connection,
                       !.timestamp = slot[i].timestamp, !.slot = i, !.task = slot[i].task]
  <1>1. i \in Slots /\ slot[i].state = "queued"
    BY HeadQueued DEF Take
  <1>2. Become(w, r) /\ slot' = [slot EXCEPT ![i].state = "running"] /\ step[w].at = "idle"
    BY DEF Take, At
  <1>3. /\ r.at = "dispatch" /\ r.connection = slot[i].connection
        /\ r.timestamp = slot[i].timestamp /\ r.slot = i /\ r.task = slot[i].task
    BY DEF Idle
  <1> HIDE DEF i, r
  <1>4. step'[w] = r /\ OnlyStep(w)
    BY <1>2, Became DEF OnlyStep, Actors
  <1>5. OnlySlot(i) /\ slot'[i] = [slot[i] EXCEPT !.state = "running"]
    BY <1>1, <1>2 DEF TypeInv, TypeOK, OnlySlot
  <1>6. /\ slot'[i].state = "running" /\ slot'[i].connection = slot[i].connection
        /\ slot'[i].timestamp = slot[i].timestamp /\ slot'[i].task = slot[i].task
    <2>1. slot[i] \in SlotRecords
      BY <1>1 DEF TypeInv, TypeOK, SlotRecords
    <2>2. QED
      BY <1>5, <2>1 DEF SlotRecords
  <1>7. QED
    BY <1>1, <1>2, <1>3, <1>4, <1>5, <1>6 DEF i

LEMMA RetryTakeEffect ==
    ASSUME TypeInv, NEW h \in Hosts, RetryTake(h)
    PROVE  \E i \in Slots :
              /\ slot[i].state = "completed" /\ slot[i].connection = step[h].connection
              /\ slot[i].pending # "none" /\ OnlySlot(i)
              /\ slot'[i].state = "completed" /\ slot'[i].pending = "none"
              /\ slot'[i].connection = slot[i].connection
              /\ slot'[i].timestamp = slot[i].timestamp /\ slot'[i].task = slot[i].task
              /\ step[h].at = "retry" /\ OnlyStep(h)
              /\ step'[h].at = "retry_publish" /\ step'[h].connection = step[h].connection
              /\ step'[h].timestamp = slot[i].timestamp /\ step'[h].slot = i
              /\ step'[h].task = slot[i].task
  <1> DEFINE i == Lowest(step[h].scan)
             q == [step[h] EXCEPT !.at = "retry_publish", !.slot = i,
                       !.scan = @ \ {i}, !.staged = slot[i].pending,
                       !.timestamp = slot[i].timestamp, !.task = slot[i].task]
  <1>1. i \in Slots
    BY StepFields, LowestIsIn DEF RetryTake, Actors
  <1>2. /\ Become(h, q) /\ slot' = [slot EXCEPT ![i].pending = "none"] /\ step[h].at = "retry"
        /\ slot[i].state = "completed" /\ slot[i].connection = step[h].connection
        /\ slot[i].pending # "none"
    BY DEF RetryTake, Retryable, At
  <1>3. /\ q.at = "retry_publish" /\ q.connection = step[h].connection /\ q.slot = i
        /\ q.timestamp = slot[i].timestamp /\ q.task = slot[i].task
    <2>1. step[h] \in Steps
      BY StepFields DEF Actors
    <2> HIDE DEF i
    <2>2. QED
      BY <2>1 DEF Steps
  <1> HIDE DEF i, q
  <1>4. step'[h] = q /\ OnlyStep(h)
    BY <1>2, Became DEF OnlyStep, Actors
  <1>5. OnlySlot(i) /\ slot'[i] = [slot[i] EXCEPT !.pending = "none"]
    BY <1>1, <1>2 DEF TypeInv, TypeOK, OnlySlot
  <1>6. /\ slot'[i].state = slot[i].state /\ slot'[i].connection = slot[i].connection
        /\ slot'[i].timestamp = slot[i].timestamp /\ slot'[i].task = slot[i].task
        /\ slot'[i].pending = "none"
    <2>1. slot[i] \in SlotRecords
      BY <1>1 DEF TypeInv, TypeOK, SlotRecords
    <2>2. QED
      BY <1>5, <2>1 DEF SlotRecords
  <1>7. QED
    BY <1>1, <1>2, <1>3, <1>4, <1>5, <1>6

LEMMA RetrySettleEffect ==
    ASSUME TypeInv, NEW h \in Hosts, RetrySettle(h)
    PROVE  /\ step[h].at = "retry_settle" /\ OnlyStep(h)
           /\ step'[h].at = "retry" /\ step'[h].connection = step[h].connection
  <1> DEFINE c == step[h].connection
             q == [Retrying(c) EXCEPT !.scan = step[h].scan,
                      !.must_close = step[h].must_close \/ step[h].outcome = "close"]
  <1>1. Become(h, q) /\ step[h].at = "retry_settle"
    BY DEF RetrySettle, At
  <1>2. q.at = "retry" /\ q.connection = c
    BY DEF Retrying, Idle
  <1> HIDE DEF q
  <1>3. QED
    BY <1>1, <1>2, Became DEF OnlyStep, Actors

-----------------------------------------------------------------------------
(* LockInv: who is where in an operation mutex *)

LockedRight(r, a) ==
    /\ r.at \in Locked => operation_mutex[r.connection] = a
    /\ r.at \in Retries \cup {"retry", "commit"} => ~session[r.connection].closed
    /\ r.at \in {"send_failed", "handoff", "await_idle"} => session[r.connection].closed

ClosedRight(c) == session[c].closed =>
    /\ session[c] = close_locked(session[c])
    /\ \/ ~connection[c].accepting
       \/ \E a \in Actors : step[a].at = "send_failed" /\ step[a].connection = c

LEMMA LockParts ==
    LockInv <=> /\ \A a \in Actors : LockedRight(step[a], a)
                /\ \A c \in Connections : ClosedRight(c)
  BY DEF LockInv, LockedRight, ClosedRight

LEMMA LockFromParts ==
    ASSUME \A a \in Actors : LockedRight(step[a], a)', \A c \in Connections : ClosedRight(c)'
    PROVE  LockInv'
  BY DEF LockInv, LockedRight, ClosedRight

\* What a step keeps of a connection whose operation mutex its actor does not hold.
KeepsLock(a) == \A c \in Connections :
    operation_mutex[c] \notin {a, Nobody} => operation_mutex'[c] = operation_mutex[c]
KeepsClosed(a) == \A c \in Connections :
    /\ session[c].closed => session'[c].closed
    /\ session'[c].closed => session[c].closed \/ operation_mutex[c] \in {a, Nobody}

LEMMA OthersLocked ==
    ASSUME ExecutorAssumption, TypeInv, LockInv, NEW a \in Actors, KeepsLock(a), KeepsClosed(a),
           \A b \in Actors \ {a} : step'[b] = step[b], LockedRight(step[a], a)'
    PROVE  \A b \in Actors : LockedRight(step[b], b)'
  <1> SUFFICES ASSUME NEW b \in Actors \ {a}
               PROVE  LockedRight(step[b], b)'
    OBVIOUS
  <1> USE DEF Locked, Submits, Retries, Unconnected
  <1> DEFINE c == step[b].connection
  <1>1. LockedRight(step[b], b) /\ StepTyped(step[b]) /\ step'[b] = step[b]
    BY LockParts DEF TypeInv
  <1>2. Nobody # b
    BY DEF ExecutorAssumption
  <1>3. CASE step[b].at \in Locked \cup {"send_failed", "handoff", "await_idle"}
    <2>1. c \in Connections
      BY <1>1, <1>3 DEF StepTyped
    <2>2. step[b].at \in Locked => operation_mutex[c] = b /\ operation_mutex'[c] = b
      BY <1>1, <1>2, <2>1 DEF LockedRight, KeepsLock
    <2>3. session[c].closed => session'[c].closed
      BY <2>1 DEF KeepsClosed
    <2>4. step[b].at \in Locked /\ ~session[c].closed => ~session'[c].closed
      BY <1>2, <2>1, <2>2 DEF KeepsClosed
    <2>5. QED
      BY <1>1, <2>2, <2>3, <2>4 DEF LockedRight
  <1>4. CASE step[b].at \notin Locked \cup {"send_failed", "handoff", "await_idle"}
    BY <1>1, <1>4 DEF LockedRight
  <1>5. QED
    BY <1>3, <1>4

LEMMA LockHeld ==
    ASSUME TypeInv, NEW a \in Actors, NEW c \in Connections, Lock(a, c)
    PROVE  KeepsLock(a) /\ operation_mutex'[c] = a /\ operation_mutex[c] = Nobody
  BY DEF TypeInv, TypeOK, Lock, KeepsLock

LEMMA LockGiven ==
    ASSUME TypeInv, NEW a \in Actors, NEW c \in Connections, operation_mutex[c] = a, Unlock(c)
    PROVE  KeepsLock(a)
  BY DEF TypeInv, TypeOK, Unlock, KeepsLock

\* Open sessions stay open and closed ones are left alone.
SessionsMove == \A c \in Connections :
    session'[c] = session[c] \/ (~session[c].closed /\ ~session'[c].closed)

LEMMA SessionMoves ==
    ASSUME TypeInv, NEW c \in Connections, NEW s, session' = [session EXCEPT ![c] = s],
           ~session[c].closed, ~s.closed
    PROVE  SessionsMove
  BY DEF TypeInv, SessionsMove

\* No connection starts to accept again.
StopsOnly == \A c \in Connections : connection'[c].accepting => connection[c].accepting

LEMMA StopStops ==
    ASSUME TypeInv, NEW c \in Connections, Stop(c)
    PROVE  StopsOnly /\ ~connection'[c].accepting
  BY DEF TypeInv, TypeOK, Stop, StopsOnly

LEMMA LockFrame ==
    ASSUME ExecutorAssumption, TypeInv, LockInv, NEW a \in Actors, OnlyStep(a), KeepsLock(a),
           SessionsMove, StopsOnly, step[a].at # "send_failed", LockedRight(step[a], a)'
    PROVE  LockInv'
  <1>1. KeepsClosed(a)
    BY DEF KeepsClosed, SessionsMove
  <1>2. \A b \in Actors : LockedRight(step[b], b)'
    BY <1>1, OthersLocked DEF OnlyStep
  <1>3. ASSUME NEW c \in Connections
        PROVE  ClosedRight(c)'
    <2>1. CASE session'[c] = session[c] /\ session[c].closed
      <3>1. ClosedRight(c)
        BY LockParts
      <3>2. CASE connection[c].accepting
        <4>1. PICK b \in Actors : step[b].at = "send_failed" /\ step[b].connection = c
          BY <2>1, <3>1, <3>2 DEF ClosedRight
        <4>2. step'[b] = step[b]
          BY <4>1 DEF OnlyStep
        <4>3. QED
          BY <2>1, <3>1, <4>1, <4>2 DEF ClosedRight
      <3>3. CASE ~connection[c].accepting
        BY <2>1, <3>1, <3>3 DEF ClosedRight, StopsOnly
      <3>4. QED
        BY <3>2, <3>3
    <2>2. CASE ~session'[c].closed
      BY <2>2 DEF ClosedRight
    <2>3. QED
      BY <2>1, <2>2 DEF SessionsMove
  <1>4. QED
    BY <1>2, <1>3, LockFromParts

\* A step into a place outside every operation mutex.
LEMMA OutsideLocked ==
    ASSUME NEW r, NEW a, r.at \notin Locked \cup {"handoff", "await_idle"}
    PROVE  /\ r.at \notin Retries \cup {"retry", "commit", "send_failed"}
           /\ LockedRight(r, a)
  BY DEF LockedRight, Locked, Submits, Retries

LEMMA Unmoved ==
    /\ UNCHANGED session => SessionsMove
    /\ UNCHANGED connection => StopsOnly
    /\ \A a \in Actors : UNCHANGED operation_mutex => KeepsLock(a)
  BY DEF SessionsMove, StopsOnly, KeepsLock

LEMMA SubmitLocked ==
    ASSUME ExecutorAssumption, TypeInv, LockInv, NEW h \in Hosts, SubmitStep(h)
    PROVE  LockInv'
  <1> USE DEF At
  <1>1. h \in Actors /\ LockedRight(step[h], h) /\ StepTyped(step[h]) /\ step[h] \in Steps
    BY LockParts, StepFields DEF Actors
  <1>2. ASSUME NEW c \in Connections, NEW t \in Timestamps, SubmitReserve(h, c, t)
        PROVE  LockInv'
    <2>1. Lock(h, c) /\ UNCHANGED <<connection, session>> /\ step[h].at = "idle"
      BY <1>2 DEF SubmitReserve
    <2>2. KeepsLock(h) /\ operation_mutex'[c] = h
      BY <1>1, <2>1, LockHeld
    <2>3. step'[h].at = "admit" /\ step'[h].connection = c /\ OnlyStep(h)
      BY <1>2, ReserveEffect
    <2>4. LockedRight(step[h], h)'
      BY <2>2, <2>3 DEF LockedRight, Retries
    <2>5. QED
      BY <1>1, <2>1, <2>2, <2>3, <2>4, LockFrame, Unmoved
  <1>3. CASE SubmitAdmit(h)
    <2> DEFINE c == step[h].connection
               q == admit(session[c], step[h].timestamp, step[h].task)
    <2>1. /\ c \in Connections /\ step[h].timestamp \in Timestamps /\ step[h].task \in Tasks
          /\ UNCHANGED <<connection, operation_mutex>> /\ step[h].at = "admit"
          /\ session' = [session EXCEPT ![c] = q] /\ ~session[c].closed
      BY <1>1, <1>3 DEF SubmitAdmit, StepTyped, Holds, Submits, Unconnected, Admissible
    <2>2. ~q.closed
      BY <2>1, AdmitSession DEF TypeInv
    <2>3. SessionsMove
      BY <2>1, <2>2, SessionMoves
    <2>4. step'[h].at = "commit" /\ step'[h].connection = c /\ OnlyStep(h)
      BY <1>1, <1>3, GoneTo DEF SubmitAdmit, SameHand, Places, Holds, Submits
    <2>5. operation_mutex[c] = h
      BY <1>1, <2>1 DEF LockedRight, Locked, Submits
    <2>6. ~session'[c].closed
      BY <2>1, <2>2 DEF TypeInv
    <2>7. LockedRight(step[h], h)'
      BY <2>1, <2>4, <2>5, <2>6 DEF LockedRight
    <2>8. QED
      BY <1>1, <2>1, <2>3, <2>4, <2>7, LockFrame, Unmoved
  <1>4. CASE SubmitRejected(h) \/ SubmitCommit(h) \/ SubmitRollback(h)
    <2> DEFINE c == step[h].connection
               q == rollback(session[c], step[h].timestamp)
    <2>1. /\ c \in Connections /\ step[h].timestamp \in Timestamps
          /\ Unlock(c) /\ step[h].at \in Submits /\ Become(h, Idle) /\ UNCHANGED connection
      BY <1>1, <1>4 DEF SubmitRejected, SubmitCommit, SubmitRollback, StepTyped, Holds, Submits,
                        Unconnected
    <2>2. SessionsMove
      <3>1. CASE UNCHANGED session
        BY <3>1, Unmoved
      <3>2. CASE session' = [session EXCEPT ![c] = q] /\ step[h].at = "commit"
        <4>1. ~session[c].closed
          BY <1>1, <3>2 DEF LockedRight
        <4>2. ~q.closed
          BY <2>1, <4>1, RollbackSession DEF TypeInv
        <4>3. QED
          BY <2>1, <3>2, <4>1, <4>2, SessionMoves
      <3>3. QED
        BY <1>4, <3>1, <3>2 DEF SubmitRejected, SubmitCommit, SubmitRollback
    <2>3. step'[h].at = "idle" /\ OnlyStep(h)
      BY <1>1, <2>1, Became, IdleTyped DEF OnlyStep
    <2>4. KeepsLock(h)
      BY <1>1, <2>1, LockGiven DEF LockedRight, Locked
    <2>5. LockedRight(step[h], h)'
      BY <2>3 DEF LockedRight, Locked, Submits, Retries
    <2>6. QED
      BY <1>1, <2>1, <2>2, <2>3, <2>4, <2>5, LockFrame, Unmoved DEF Submits
  <1>5. QED
    BY <1>2, <1>3, <1>4 DEF SubmitStep, Submitting

\* A running task goes from one point of its worker to the next.
LEMMA RunEffect ==
    ASSUME TypeInv, NEW w \in Workers,
           \/ StartStopped(w) \/ StartHandler(w) \/ HandlerReturns(w) \/ Settle(w)
           \/ PublishTerminal(w) \/ ClaimTerminal(w)
    PROVE  /\ step[w].at \in Runs /\ step'[w].at \in Runs /\ OnlyStep(w)
           /\ step[w].at # "finish" /\ SameHand(step'[w], step[w])
           /\ step'[w].at = "finish" <=> (PublishTerminal(w) /\ step'[w].at = "finish")
           /\ UNCHANGED <<slot, queue, count, connection, operation_mutex, stop_requested,
                          next_task, stopping, registry_close_complete, shutdown_stop_sources>>
  <1> USE DEF Runs, At
  <1>1. /\ w \in Actors /\ "handler" \in Places /\ "settle" \in Places /\ "publish" \in Places
    BY DEF Actors, Places, Holds
  <1>2. UNCHANGED <<slot, queue, count, connection, operation_mutex, stop_requested, next_task,
                    stopping, registry_close_complete, shutdown_stop_sources>>
    BY DEF StartStopped, StartHandler, HandlerReturns, Settle, PublishTerminal, ClaimTerminal,
           executor, lifetime
  <1>3. CASE StartHandler(w)
    BY <1>1, <1>2, <1>3, GoneTo DEF StartHandler
  <1>4. CASE StartStopped(w) \/ HandlerReturns(w) \/ Settle(w) \/ ClaimTerminal(w)
    <2>1. \E x \in {"settle", "publish"} : \E y \in Pendings : Staged(w, y, x)
      BY <1>1, <1>4, StepFields
      DEF StartStopped, HandlerReturns, Settle, ClaimTerminal, Pendings
    <2>2. step[w].at \in Runs /\ step[w].at # "finish"
      BY <1>4 DEF StartStopped, HandlerReturns, Settle, ClaimTerminal
    <2>3. QED
      BY <1>1, <1>2, <2>1, <2>2, StagedTo
  <1>5. CASE PublishTerminal(w)
    <2>1. \/ Staged(w, "cancelled", "publish")
          \/ \E z \in {"published", "retry", "close"} :
                step' = [step EXCEPT ![w].outcome = z, ![w].at = "finish"]
      BY <1>5 DEF PublishTerminal, Disposition
    <2>2. step[w].at = "publish"
      BY <1>5 DEF PublishTerminal
    <2>3. CASE Staged(w, "cancelled", "publish")
      BY <1>1, <1>2, <1>5, <2>2, <2>3, StagedTo
    <2>4. CASE ~Staged(w, "cancelled", "publish")
      BY <1>1, <1>2, <1>5, <2>1, <2>2, <2>4, OutcomeTo
    <2>5. QED
      BY <2>3, <2>4
  <1>6. QED
    BY <1>3, <1>4, <1>5

\* A worker publishes and claims only on the session of its task, and only while it is open.
LEMMA WorkSessions ==
    ASSUME ExecutorAssumption, TypeInv, NEW w \in Workers, WorkStep(w)
    PROVE  SessionsMove /\ StopsOnly
  <1> USE DEF At
  <1> DEFINE c == step[w].connection
             t == step[w].timestamp
             task == step[w].task
             q == claim_irrevocable_terminal(session[c], t)
  <1>1. w \in Actors /\ StepTyped(step[w]) /\ step[w].staged \in Pendings
    BY StepFields DEF Actors
  <1>2. CASE Progress(w) \/ ClaimTerminal(w) \/ PublishTerminal(w)
    <2>1. /\ c \in Connections /\ t \in Timestamps /\ task \in Tasks
          /\ session[c] \in Sessions /\ connection' = connection
      BY <1>1, <1>2 DEF Progress, ClaimTerminal, PublishTerminal, StepTyped, Holds, Runs,
                        Unconnected, TypeInv
    <2>2. \/ session' = session
          \/ session' = [session EXCEPT ![c] = q] /\ ~session[c].closed
          \/ \E y \in {"progress"} \cup Pendings : ~session[c].closed
                /\ session' = [session EXCEPT ![c] = publish(session[c], t, task, y)]
      BY <1>1, <1>2 DEF Progress, ClaimTerminal, PublishTerminal, PublishError, Receivable,
                        Claimable
    <2>3. q.closed = session[c].closed
      BY <2>1, ClaimSession
    <2>4. \A y \in {"progress"} \cup Pendings :
             publish(session[c], t, task, y).closed = session[c].closed
      BY <2>1, PublishSession
    <2> HIDE DEF c, t, task, q
    <2>5. SessionsMove
      BY <2>1, <2>2, <2>3, <2>4, SessionMoves, Unmoved
    <2>6. QED
      BY <2>1, <2>5, Unmoved
  <1>3. CASE FinishRelease(w)
    <2>1. c \in Connections /\ session' = session
      BY <1>1, <1>3 DEF FinishRelease, StepTyped, Holds, Runs, Unconnected
    <2>2. StopsOnly
      BY <1>3, <2>1 DEF FinishRelease, StopsOnly, TypeInv, TypeOK
    <2>3. QED
      BY <2>1, <2>2, Unmoved
  <1>4. CASE UNCHANGED <<connection, session>>
    BY <1>4, Unmoved
  <1>5. QED
    BY <1>2, <1>3, <1>4
    DEF WorkStep, Working, Take, DropQueued, Exit, StartStopped, StartHandler, HandlerReturns,
        Settle, FinishRetain

\* A worker is never inside an operation mutex.
LEMMA WorkPlaces ==
    ASSUME TypeInv, CountInv, NEW w \in Workers, WorkStep(w)
    PROVE  /\ step[w].at \in Runs \cup {"idle"}
           /\ step'[w].at \in Runs \cup {"idle", "exited", "force_close"}
           /\ OnlyStep(w) /\ UNCHANGED operation_mutex
  <1> USE DEF At
  <1>1. w \in Actors
    BY DEF Actors
  <1>2. CASE \/ StartStopped(w) \/ StartHandler(w) \/ HandlerReturns(w) \/ Settle(w)
             \/ PublishTerminal(w) \/ ClaimTerminal(w)
    BY <1>2, RunEffect
  <1>3. CASE Take(w)
    BY <1>3, TakeEffect DEF Take, Runs
  <1>4. CASE DropQueued(w) \/ Progress(w)
    BY <1>4 DEF DropQueued, Progress, Runs, OnlyStep
  <1>5. CASE Exit(w)
    BY <1>1, <1>5, GoneTo DEF Exit, Places, Unconnected
  <1>6. CASE FinishRetain(w) \/ FinishRelease(w)
    <2> DEFINE r == [Idle EXCEPT !.at = "force_close", !.connection = step[w].connection]
    <2>1. /\ step[w].at = "finish" /\ UNCHANGED operation_mutex
          /\ Become(w, Idle) \/ Become(w, r)
      BY <1>6 DEF FinishRetain, FinishRelease
    <2>2. r.at = "force_close" /\ Idle.at = "idle"
      BY DEF Idle
    <2> HIDE DEF r
    <2>3. QED
      BY <1>1, <2>1, <2>2, Became DEF OnlyStep, Runs
  <1>7. QED
    BY <1>2, <1>3, <1>4, <1>5, <1>6 DEF WorkStep, Working

LEMMA WorkLocked ==
    ASSUME ExecutorAssumption, TypeInv, CountInv, LockInv, NEW w \in Workers, WorkStep(w)
    PROVE  LockInv'
  <1>1. w \in Actors /\ SessionsMove /\ StopsOnly /\ KeepsLock(w) /\ OnlyStep(w)
    BY WorkSessions, WorkPlaces, Unmoved DEF Actors
  <1>2. step[w].at # "send_failed" /\ LockedRight(step'[w], w)
    BY WorkPlaces, OutsideLocked DEF Runs, Locked, Submits, Retries
  <1>3. LockedRight(step[w], w)'
    BY WorkPlaces DEF LockedRight, Runs, Locked, Submits, Retries
  <1>4. QED
    BY <1>1, <1>2, <1>3, LockFrame

\* Closing a session inside its operation mutex.
LEMMA CloseFrame ==
    ASSUME ExecutorAssumption, TypeInv, LockInv, NEW a \in Actors, NEW c \in Connections,
           OnlyStep(a), KeepsLock(a), operation_mutex[c] \in {a, Nobody},
           session' = [session EXCEPT ![c] = close_locked(@)], UNCHANGED connection,
           step[a].at # "send_failed", LockedRight(step[a], a)',
           \/ ~connection[c].accepting
           \/ step'[a].at = "send_failed" /\ step'[a].connection = c
    PROVE  LockInv'
  <1> DEFINE q == close_locked(session[c])
  <1>1. q.closed /\ q = close_locked(q)
    BY ClosedSession
  <1>2. /\ session'[c] = q /\ \A d \in Connections \ {c} : session'[d] = session[d]
    BY DEF TypeInv
  <1> HIDE DEF q
  <1>3. KeepsClosed(a)
    BY <1>1, <1>2 DEF KeepsClosed
  <1>4. \A b \in Actors : LockedRight(step[b], b)'
    BY <1>3, OthersLocked DEF OnlyStep
  <1>5. ClosedRight(c)'
    BY <1>1, <1>2 DEF ClosedRight
  <1>6. ASSUME NEW d \in Connections \ {c}, session'[d].closed
        PROVE  ClosedRight(d)'
    <2>1. ClosedRight(d) /\ session'[d] = session[d]
      BY <1>2, LockParts
    <2>2. CASE ~connection[d].accepting
      BY <1>6, <2>1, <2>2 DEF ClosedRight
    <2>3. CASE connection[d].accepting
      <3>1. PICK b \in Actors : step[b].at = "send_failed" /\ step[b].connection = d
        BY <1>6, <2>1, <2>3 DEF ClosedRight
      <3>2. step'[b] = step[b]
        BY <3>1 DEF OnlyStep
      <3>3. QED
        BY <1>6, <2>1, <3>1, <3>2 DEF ClosedRight
    <2>4. QED
      BY <2>2, <2>3
  <1>7. QED
    <2>1. \A d \in Connections : ClosedRight(d)'
      BY <1>5, <1>6 DEF ClosedRight
    <2>2. QED
      BY <1>4, <2>1, LockFromParts

\* A send under way belongs to an open session.
LEMMA LeasedIsOpen ==
    ASSUME TypeInv, LockInv, NEW c \in Connections, session[c].lease
    PROVE  ~session[c].closed /\ session[c].outbound # <<>> /\ session[c] \in Sessions
  <1>1. ~close_locked(session[c]).lease
    BY ClosedSession
  <1>2. session[c].closed => session[c] = close_locked(session[c])
    BY LockParts DEF ClosedRight
  <1>3. session[c].outbound # <<>> /\ session[c] \in Sessions
    BY DEF TypeInv, TypeOK
  <1>4. QED
    BY <1>1, <1>2, <1>3

LEMMA SkipEffect ==
    ASSUME TypeInv, NEW h \in Hosts, RetrySkip(h)
    PROVE  /\ step[h].at = "retry" /\ OnlyStep(h)
           /\ step'[h].at = "retry" /\ step'[h].connection = step[h].connection
  <1> DEFINE q == [step[h] EXCEPT !.scan = @ \ {Lowest(step[h].scan)}]
  <1>1. h \in Actors /\ step[h].at = "retry"
    BY DEF Actors, RetrySkip, At
  <1>2. step' = [step EXCEPT ![h].scan = @ \ {Lowest(step[h].scan)}]
    BY DEF RetrySkip
  <1>3. step'[h] = q /\ OnlyStep(h)
    BY <1>1, <1>2 DEF TypeInv, OnlyStep
  <1>4. q.at = "retry" /\ q.connection = step[h].connection
    BY <1>1, StepFields DEF Steps
  <1>5. QED
    BY <1>1, <1>3, <1>4

LEMMA RetryPublishEffect ==
    ASSUME TypeInv, NEW h \in Hosts, RetryPublish(h)
    PROVE  LET c == step[h].connection  t == step[h].timestamp IN
           /\ step[h].at = "retry_publish" /\ step'[h].at = "retry_settle"
           /\ SameHand(step'[h], step[h]) /\ OnlyStep(h)
           /\ c \in Connections /\ t \in Timestamps /\ step[h].task \in Tasks
           /\ session[c] \in Sessions /\ step[h].staged \in Pendings \ {"none"}
           /\ step'[h].outcome \in {"published", "retry", "close"}
           /\ \/ /\ PublishError(session[c], t, step[h].task, step[h].staged) = "none"
                 /\ session' = [session EXCEPT ![c] =
                                   publish(session[c], t, step[h].task, step[h].staged)]
                 /\ step'[h].outcome = "published"
              \/ session' = session /\ step'[h].outcome # "published"
           /\ UNCHANGED <<slot, queue, count, connection, operation_mutex, stop_requested,
                          next_task, stopping, registry_close_complete, shutdown_stop_sources>>
  <1>1. /\ h \in Actors /\ StepTyped(step[h]) /\ step[h].staged \in Pendings
        /\ step[h].at = "retry_publish"
    BY StepFields DEF Actors, RetryPublish, At
  <1>2. UNCHANGED <<slot, queue, count, connection, operation_mutex, stop_requested,
                    next_task, stopping, registry_close_complete, shutdown_stop_sources>>
    BY DEF RetryPublish, executor, lifetime
  <1>3. /\ step[h].connection \in Connections /\ step[h].timestamp \in Timestamps
        /\ step[h].task \in Tasks /\ step[h].staged # "none"
    BY <1>1 DEF StepTyped, Holds, Retries, Unconnected
  <1>4. session[step[h].connection] \in Sessions
    BY <1>3 DEF TypeInv
  <1>6. PICK z \in {"published", "retry", "close"} :
           /\ step' = [step EXCEPT ![h].outcome = z, ![h].at = "retry_settle"]
           /\ \/ /\ PublishError(session[step[h].connection], step[h].timestamp,
                                 step[h].task, step[h].staged) = "none"
                 /\ session' = [session EXCEPT ![step[h].connection] =
                       publish(session[step[h].connection], step[h].timestamp,
                               step[h].task, step[h].staged)]
                 /\ z = "published"
              \/ session' = session /\ z # "published"
    BY DEF RetryPublish, Disposition
  <1>7. /\ step'[h].at = "retry_settle" /\ SameHand(step'[h], step[h]) /\ OnlyStep(h)
        /\ step'[h].outcome = z
    BY <1>1, <1>6, OutcomeTo
  <1>8. QED
    BY <1>1, <1>2, <1>3, <1>4, <1>6, <1>7

LEMMA SendLocked ==
    ASSUME ExecutorAssumption, TypeInv, LockInv, NEW h \in Hosts, SendStep(h)
    PROVE  LockInv'
  <1> USE DEF At
  <1>1. h \in Actors /\ LockedRight(step[h], h) /\ StepTyped(step[h]) /\ step[h] \in Steps
    BY LockParts, StepFields DEF Actors
  <1>2. ASSUME NEW c \in Connections, CompleteSend(h, c)
        PROVE  LockInv'
    <2> DEFINE q == complete_send(session[c])
    <2>1. /\ Lock(h, c) /\ session[c].lease /\ session' = [session EXCEPT ![c] = q]
          /\ Become(h, Retrying(c)) /\ UNCHANGED connection /\ step[h].at = "idle"
      BY <1>2 DEF CompleteSend
    <2>2. ~session[c].closed /\ ~q.closed
      BY <2>1, LeasedIsOpen, SentSession
    <2> HIDE DEF q
    <2>3. SessionsMove /\ ~session'[c].closed
      BY <2>1, <2>2, SessionMoves DEF TypeInv
    <2>4. step'[h].at = "retry" /\ step'[h].connection = c /\ OnlyStep(h)
      <3>1. step'[h] = Retrying(c) /\ OnlyStep(h)
        BY <1>1, <2>1, Became DEF OnlyStep
      <3>2. Retrying(c).at = "retry" /\ Retrying(c).connection = c
        BY DEF Retrying, Idle
      <3>3. QED
        BY <3>1, <3>2
    <2>5. KeepsLock(h) /\ operation_mutex'[c] = h
      BY <1>1, <2>1, LockHeld
    <2>6. LockedRight(step[h], h)'
      BY <2>3, <2>4, <2>5 DEF LockedRight
    <2>7. QED
      BY <1>1, <2>1, <2>3, <2>4, <2>5, <2>6, LockFrame, Unmoved
  <1>3. ASSUME NEW c \in Connections, FailSend(h, c)
        PROVE  LockInv'
    <2> DEFINE r == [Idle EXCEPT !.at = "send_failed", !.connection = c]
    <2>1. /\ Lock(h, c) /\ session' = [session EXCEPT ![c] = close_locked(@)]
          /\ Become(h, r) /\ UNCHANGED connection /\ step[h].at = "idle"
      BY <1>3 DEF FailSend
    <2>2. r.at = "send_failed" /\ r.connection = c
      BY DEF Idle
    <2> HIDE DEF r
    <2>3. step'[h] = r /\ OnlyStep(h)
      BY <1>1, <2>1, Became DEF OnlyStep
    <2>4. KeepsLock(h) /\ operation_mutex'[c] = h /\ operation_mutex[c] = Nobody
      BY <1>1, <2>1, LockHeld
    <2>5. session'[c].closed
      BY <2>1, ClosedSession DEF TypeInv
    <2>6. LockedRight(step[h], h)'
      BY <2>2, <2>3, <2>4, <2>5 DEF LockedRight, Retries
    <2>7. QED
      BY <1>1, <2>1, <2>2, <2>3, <2>4, <2>6, CloseFrame
  <1>4. CASE RetrySkip(h) \/ RetrySettle(h)
    <2>1. /\ step[h].at \in {"retry", "retry_settle"} /\ OnlyStep(h)
          /\ step'[h].at = "retry" /\ step'[h].connection = step[h].connection
      BY <1>4, SkipEffect, RetrySettleEffect
    <2>2. UNCHANGED <<operation_mutex, session>>
      BY <1>4 DEF RetrySkip, RetrySettle
    <2>3. StopsOnly
      <3>1. step[h].connection \in Connections
        BY <1>1, <2>1 DEF StepTyped, Unconnected
      <3>2. \/ connection' = connection
            \/ connection' = [connection EXCEPT ![step[h].connection].close_required = TRUE]
        BY <1>4 DEF RetrySkip, RetrySettle
      <3>3. connection \in [Connections -> [accepting : BOOLEAN, close_required : BOOLEAN]]
        BY DEF TypeInv, TypeOK
      <3>4. QED
        BY <3>1, <3>2, <3>3 DEF StopsOnly
    <2>4. LockedRight(step[h], h)'
      BY <1>1, <2>1, <2>2 DEF LockedRight, Locked, Retries
    <2>5. QED
      BY <1>1, <2>1, <2>2, <2>3, <2>4, LockFrame, Unmoved
  <1>5. CASE RetryTake(h)
    <2>1. /\ step[h].at = "retry" /\ OnlyStep(h)
          /\ step'[h].at = "retry_publish" /\ step'[h].connection = step[h].connection
      BY <1>5, RetryTakeEffect
    <2>2. UNCHANGED <<operation_mutex, session, connection>>
      BY <1>5 DEF RetryTake
    <2>3. LockedRight(step[h], h)'
      BY <1>1, <2>1, <2>2 DEF LockedRight, Locked, Retries
    <2>4. QED
      BY <1>1, <2>1, <2>2, <2>3, LockFrame, Unmoved
  <1>6. CASE RetryPublish(h)
    <2> DEFINE c == step[h].connection
               q == publish(session[c], step[h].timestamp, step[h].task, step[h].staged)
    <2>1. /\ step[h].at = "retry_publish" /\ OnlyStep(h)
          /\ step'[h].at = "retry_settle" /\ step'[h].connection = c
          /\ c \in Connections /\ session[c] \in Sessions
          /\ UNCHANGED <<operation_mutex, connection>>
      BY <1>6, RetryPublishEffect DEF SameHand
    <2>2. ~session[c].closed /\ operation_mutex[c] = h
      BY <1>1, <2>1 DEF LockedRight, Locked, Retries
    <2>3. SessionsMove /\ ~session'[c].closed
      <3>1. CASE session' = session
        BY <2>2, <3>1, Unmoved
      <3>2. CASE session' = [session EXCEPT ![c] = q]
        <4>1. ~q.closed
          <5>1. q.closed = session[c].closed
            BY <2>1 DEF publish, Sessions
          <5>2. QED
            BY <2>2, <5>1
        <4> HIDE DEF q
        <4>2. QED
          BY <2>1, <2>2, <3>2, <4>1, SessionMoves DEF TypeInv
      <3>3. QED
        BY <1>6, <3>1, <3>2, RetryPublishEffect
    <2>4. LockedRight(step[h], h)'
      BY <2>1, <2>2, <2>3 DEF LockedRight
    <2>5. QED
      BY <1>1, <2>1, <2>3, <2>4, LockFrame, Unmoved
  <1>7. CASE RetryDone(h)
    <2> DEFINE c == step[h].connection
               r == [Idle EXCEPT !.at = "close_session", !.connection = c]
    <2>1. /\ step[h].at = "retry" /\ c \in Connections /\ operation_mutex[c] = h
          /\ UNCHANGED session
      BY <1>1, <1>7 DEF RetryDone, StepTyped, Unconnected, LockedRight, Locked
    <2>2. r.at = "close_session" /\ r.connection = c /\ Idle.at = "idle"
      BY DEF Idle
    <2> HIDE DEF r
    <2>3. CASE Stop(c) /\ Become(h, r) /\ UNCHANGED operation_mutex
      <3>1. step'[h] = r /\ OnlyStep(h) /\ StopsOnly
        BY <1>1, <2>1, <2>3, Became, StopStops DEF OnlyStep
      <3>2. LockedRight(step[h], h)'
        BY <2>1, <2>2, <2>3, <3>1 DEF LockedRight, Retries
      <3>3. QED
        BY <1>1, <2>1, <2>3, <3>1, <3>2, LockFrame, Unmoved
    <2>4. CASE Unlock(c) /\ Become(h, Idle) /\ UNCHANGED connection
      <3>1. step'[h].at = "idle" /\ OnlyStep(h) /\ KeepsLock(h)
        BY <1>1, <2>1, <2>4, IdleAgain, LockGiven
      <3>2. LockedRight(step[h], h)'
        BY <3>1 DEF LockedRight, Locked, Submits, Retries
      <3>3. QED
        BY <1>1, <2>1, <2>4, <3>1, <3>2, LockFrame, Unmoved
    <2>5. QED
      BY <1>7, <2>3, <2>4 DEF RetryDone, r
  <1>8. CASE StopAfterFailure(h)
    <2> DEFINE c == step[h].connection
    <2>1. /\ step[h].at = "send_failed" /\ c \in Connections /\ operation_mutex[c] = h
          /\ session[c].closed /\ Stop(c) /\ Unlock(c) /\ Become(h, Handoff(step[h]))
          /\ UNCHANGED session
      BY <1>1, <1>8 DEF StopAfterFailure, StepTyped, Unconnected, LockedRight, Locked
    <2>2. step'[h].at = "handoff" /\ step'[h].connection = c /\ OnlyStep(h)
      BY <1>1, <2>1, Became, HandoffStep DEF OnlyStep
    <2>3. /\ KeepsLock(h) /\ KeepsClosed(h) /\ StopsOnly /\ ~connection'[c].accepting
      BY <1>1, <2>1, LockGiven, StopStops DEF KeepsClosed
    <2>4. LockedRight(step[h], h)'
      BY <2>1, <2>2 DEF LockedRight, Locked, Submits, Retries
    <2>5. \A b \in Actors : LockedRight(step[b], b)'
      BY <1>1, <2>2, <2>3, <2>4, OthersLocked DEF OnlyStep
    <2>6. ASSUME NEW d \in Connections, session[d].closed
          PROVE  ClosedRight(d)'
      <3>1. ClosedRight(d)
        BY LockParts
      <3>2. CASE ~connection'[d].accepting
        BY <2>1, <2>6, <3>1, <3>2 DEF ClosedRight
      <3>3. CASE connection'[d].accepting
        <4>1. PICK b \in Actors : step[b].at = "send_failed" /\ step[b].connection = d
          BY <2>3, <2>6, <3>1, <3>3 DEF ClosedRight, StopsOnly
        <4>2. step'[b] = step[b]
          BY <2>2, <2>3, <3>3, <4>1 DEF OnlyStep
        <4>3. QED
          BY <2>1, <2>6, <3>1, <4>1, <4>2 DEF ClosedRight
      <3>4. QED
        BY <3>2, <3>3
    <2>7. \A d \in Connections : ClosedRight(d)'
      BY <2>1, <2>6 DEF ClosedRight
    <2>8. QED
      BY <2>5, <2>7, LockFromParts
  <1>9. QED
    BY <1>2, <1>3, <1>4, <1>5, <1>6, <1>7, <1>8 DEF SendStep, Resending

LEMMA HandoffEffect ==
    ASSUME TypeInv, NEW a \in Actors, CancelHandoff(a)
    PROVE  LET c == step[a].connection  i == Lowest(step[a].scan) IN
           /\ step[a].at = "handoff" /\ OnlyStep(a) /\ c \in Connections /\ i \in step[a].scan
           /\ i \in Slots
           /\ \/ /\ step[a].scan # {i} /\ step'[a].at = "handoff" /\ step'[a].connection = c
                 /\ step'[a].scan = step[a].scan \ {i} /\ step'[a].raise = step[a].raise
                 /\ step'[a].then = step[a].then
              \/ /\ step[a].scan = {i} /\ step[a].then # "idle" /\ step'[a].at = step[a].then
                 /\ step'[a].connection = c
              \/ step[a].scan = {i} /\ step[a].then = "idle" /\ step'[a].at = "idle"
           /\ UNCHANGED <<queue, connection, operation_mutex, session, next_task, stopping,
                          registry_close_complete, shutdown_stop_sources>>
  <1> DEFINE c == step[a].connection
             i == Lowest(step[a].scan)
             q == [step[a] EXCEPT !.scan = @ \ {i}]
             r == [Idle EXCEPT !.at = step[a].then, !.connection = c, !.registry = step[a].registry]
  <1>1. /\ step[a].at = "handoff" /\ StepTyped(step[a]) /\ step[a] \in Steps
        /\ step[a].scan \in SUBSET Slots
    BY StepFields DEF CancelHandoff, At
  <1>2. step[a].scan # {} /\ c \in Connections
    BY <1>1 DEF StepTyped, Unconnected
  <1>3. i \in step[a].scan /\ i \in Slots
    BY <1>1, <1>2, LowestIsIn
  <1>4. Become(a, IF step[a].scan # {i} THEN q ELSE IF step[a].then = "idle" THEN Idle ELSE r)
    BY DEF CancelHandoff
  <1>5. /\ q.at = "handoff" /\ q.connection = c /\ q.raise = step[a].raise
        /\ q.then = step[a].then /\ q.scan = step[a].scan \ {i}
    <2> HIDE DEF i
    <2>1. QED
      BY <1>1 DEF Steps
  <1>6. r.at = step[a].then /\ r.connection = c /\ Idle.at = "idle"
    BY DEF Idle
  <1>7. UNCHANGED <<queue, connection, operation_mutex, session, next_task, stopping,
                    registry_close_complete, shutdown_stop_sources>>
    BY DEF CancelHandoff, lifetime
  <1> HIDE DEF q, r
  <1>8. /\ step'[a] = IF step[a].scan # {i} THEN q
                      ELSE IF step[a].then = "idle" THEN Idle ELSE r
        /\ OnlyStep(a)
    BY <1>4, Became DEF OnlyStep
  <1>9. QED
    BY <1>1, <1>2, <1>3, <1>5, <1>6, <1>7, <1>8

\* Where the calls that cancel one command go on.
LEMMA CancelEffect ==
    ASSUME TypeInv, NEW h \in Hosts, Cancelling(h) \/ ReplaceCompleted(h)
    PROVE  /\ step[h].at \in {"find_target", "raise_stop", "replace"} /\ OnlyStep(h)
           /\ step'[h].at \in {"idle", "raise_stop", "replace"}
           /\ UNCHANGED <<queue, count, connection, session, next_task, stopping,
                          registry_close_complete, shutdown_stop_sources>>
           /\ operation_mutex' # operation_mutex =>
                 step[h].at = "find_target" /\ Unlock(step[h].connection)
  <1> USE DEF At
  <1>1. h \in Actors /\ step[h] \in Steps
    BY StepFields DEF Actors
  <1>2. CASE FindStopTarget(h)
    <2> DEFINE i == Lowest(Targets(step[h].connection, step[h].timestamp))
               q == [step[h] EXCEPT !.at = "raise_stop", !.slot = i, !.task = slot[i].task]
    <2>1. Become(h, Idle) \/ Become(h, q)
      BY <1>2 DEF FindStopTarget
    <2>2. q.at = "raise_stop" /\ Idle.at = "idle"
      <3> HIDE DEF i
      <3>1. QED
        BY <1>1 DEF Steps, Idle
    <2> HIDE DEF q
    <2>3. step'[h].at \in {"idle", "raise_stop"} /\ OnlyStep(h)
      BY <1>1, <2>1, <2>2, Became DEF OnlyStep
    <2>4. QED
      BY <1>2, <2>3 DEF FindStopTarget, executor, lifetime
  <1>3. CASE RaiseStop(h)
    <2>1. Goto(h, "replace") /\ "replace" \in Places
      BY <1>3 DEF RaiseStop, Places
    <2>2. QED
      BY <1>1, <1>3, <2>1, GoneTo DEF RaiseStop, executor, lifetime
  <1>4. CASE ReplaceCompleted(h)
    BY <1>1, <1>4, IdleAgain DEF ReplaceCompleted, lifetime
  <1>5. QED
    BY <1>2, <1>3, <1>4 DEF Cancelling

LEMMA RequestEffect ==
    ASSUME TypeInv, NEW h \in Hosts, NEW c \in Connections, NEW t \in Timestamps,
           RequestCancel(h, c, t)
    PROVE  /\ Cancellable(session[c], t) /\ step[h].at = "idle" /\ OnlyStep(h)
           /\ session' = [session EXCEPT ![c] = request_cancel(session[c], t)]
           /\ Lock(h, c) /\ step'[h].at = "find_target" /\ step'[h].connection = c
           /\ UNCHANGED <<slot, queue, count, connection, stop_requested, next_task, stopping,
                          registry_close_complete, shutdown_stop_sources>>
  <1> DEFINE r == [Idle EXCEPT !.at = "find_target", !.connection = c, !.timestamp = t]
  <1>1. /\ Cancellable(session[c], t) /\ step[h].at = "idle" /\ Become(h, r) /\ Lock(h, c)
        /\ session' = [session EXCEPT ![c] = request_cancel(session[c], t)]
        /\ UNCHANGED <<slot, queue, count, connection, stop_requested, next_task, stopping,
                       registry_close_complete, shutdown_stop_sources>>
    BY DEF RequestCancel, executor, lifetime, At
  <1>2. r.at = "find_target" /\ r.connection = c
    BY DEF Idle
  <1> HIDE DEF r
  <1>3. QED
    BY <1>1, <1>2, Became DEF OnlyStep, Actors

LEMMA CancelLocked ==
    ASSUME ExecutorAssumption, TypeInv, LockInv, NEW h \in Hosts, CancelStep(h)
    PROVE  LockInv'
  <1>1. h \in Actors /\ LockedRight(step[h], h) /\ StepTyped(step[h])
    BY LockParts, StepFields DEF Actors
  <1>2. ASSUME NEW c \in Connections, NEW t \in Timestamps, RequestCancel(h, c, t)
        PROVE  LockInv'
    <2> DEFINE q == request_cancel(session[c], t)
    <2>1. /\ Lock(h, c) /\ session' = [session EXCEPT ![c] = q] /\ ~session[c].closed
          /\ step'[h].at = "find_target" /\ step'[h].connection = c /\ OnlyStep(h)
          /\ step[h].at = "idle" /\ UNCHANGED connection
      BY <1>2, RequestEffect DEF Cancellable
    <2>2. ~q.closed
      BY <2>1, CancelSession DEF TypeInv
    <2> HIDE DEF q
    <2>3. KeepsLock(h) /\ operation_mutex'[c] = h /\ SessionsMove
      BY <1>1, <2>1, <2>2, LockHeld, SessionMoves
    <2>4. LockedRight(step[h], h)'
      BY <2>1, <2>3 DEF LockedRight, Retries
    <2>5. QED
      BY <1>1, <2>1, <2>3, <2>4, LockFrame, Unmoved
  <1>3. CASE Cancelling(h) \/ ReplaceCompleted(h)
    <2>1. /\ step[h].at \in {"find_target", "raise_stop", "replace"} /\ OnlyStep(h)
          /\ step'[h].at \in {"idle", "raise_stop", "replace"}
          /\ UNCHANGED <<connection, session>>
          /\ operation_mutex' # operation_mutex =>
                step[h].at = "find_target" /\ Unlock(step[h].connection)
      BY <1>3, CancelEffect
    <2>2. LockedRight(step[h], h)'
      BY <2>1 DEF LockedRight, Locked, Submits, Retries
    <2>3. KeepsLock(h)
      BY <1>1, <2>1, LockGiven, Unmoved
      DEF LockedRight, Locked, StepTyped, Unconnected
    <2>4. QED
      BY <1>1, <2>1, <2>2, <2>3, LockFrame, Unmoved
  <1>4. QED
    BY <1>2, <1>3 DEF CancelStep

LEMMA ForceEffect ==
    ASSUME TypeInv, NEW a \in Actors, ForceClose(a)
    PROVE  /\ step[a].at = "force_close" /\ OnlyStep(a) /\ step[a].connection \in Connections
           /\ step'[a].at = "close_session" /\ SameHand(step'[a], step[a])
           /\ Lock(a, step[a].connection) /\ StopsOnly
           /\ ~connection'[step[a].connection].accepting
           /\ \A c \in Connections \ {step[a].connection} : connection'[c] = connection[c]
           /\ UNCHANGED <<slot, queue, count, session, stop_requested, next_task, stopping,
                          registry_close_complete, shutdown_stop_sources>>
  <1>1. step[a].at = "force_close" /\ StepTyped(step[a])
    BY StepFields DEF ForceClose, At
  <1>2. step[a].connection \in Connections
    BY <1>1 DEF StepTyped, Unconnected
  <1>3. "close_session" \in Places
    BY DEF Places, Closes
  <1>4. step'[a].at = "close_session" /\ SameHand(step'[a], step[a]) /\ OnlyStep(a)
    BY <1>3, GoneTo DEF ForceClose
  <1>5. /\ StopsOnly /\ ~connection'[step[a].connection].accepting
        /\ \A c \in Connections \ {step[a].connection} : connection'[c] = connection[c]
    BY <1>2 DEF ForceClose, StopsOnly, TypeInv, TypeOK
  <1>6. QED
    BY <1>1, <1>2, <1>4, <1>5 DEF ForceClose, executor, lifetime

LEMMA CloseSessionEffect ==
    ASSUME ExecutorAssumption, TypeInv, NEW a \in Actors, CloseSession(a)
    PROVE  /\ step[a].at = "close_session" /\ OnlyStep(a) /\ step[a].connection \in Connections
           /\ step'[a].at = "handoff" /\ step'[a].scan = Slots
           /\ step'[a].connection = step[a].connection /\ step'[a].raise = step[a].raise
           /\ step'[a].then = step[a].then
           /\ session' = [session EXCEPT ![step[a].connection] = close_locked(@)]
           /\ Unlock(step[a].connection)
           /\ UNCHANGED <<slot, queue, count, connection, stop_requested, next_task, stopping,
                          registry_close_complete, shutdown_stop_sources>>
  <1>1. step[a].at = "close_session" /\ StepTyped(step[a]) /\ step[a] \in Steps
    BY StepFields DEF CloseSession, At
  <1>2. step[a].connection \in Connections
    BY <1>1 DEF StepTyped, Unconnected
  <1>3. Become(a, Handoff(step[a]))
    BY DEF CloseSession
  <1>4. step'[a] = Handoff(step[a]) /\ OnlyStep(a)
    BY <1>3, Became DEF OnlyStep
  <1>5. QED
    BY <1>1, <1>2, <1>4, HandoffStep DEF CloseSession, executor, lifetime

LEMMA CloseLocked ==
    ASSUME ExecutorAssumption, TypeInv, LockInv, CloseInv, NEW a \in Actors, CloseStep(a)
    PROVE  LockInv'
  <1>1. LockedRight(step[a], a) /\ StepTyped(step[a])
    BY LockParts, StepFields
  <1>2. CASE ForceClose(a)
    <2> DEFINE c == step[a].connection
    <2>1. /\ step[a].at = "force_close" /\ OnlyStep(a) /\ c \in Connections
          /\ step'[a].at = "close_session" /\ step'[a].connection = c
          /\ Lock(a, c) /\ StopsOnly /\ UNCHANGED session
      BY <1>2, ForceEffect DEF SameHand
    <2>2. KeepsLock(a) /\ operation_mutex'[c] = a
      BY <2>1, LockHeld
    <2>3. LockedRight(step[a], a)'
      BY <2>1, <2>2 DEF LockedRight, Retries
    <2>4. QED
      BY <2>1, <2>2, <2>3, LockFrame, Unmoved
  <1>3. CASE CloseSession(a)
    <2> DEFINE c == step[a].connection
    <2>1. /\ step[a].at = "close_session" /\ OnlyStep(a) /\ c \in Connections
          /\ step'[a].at = "handoff" /\ step'[a].connection = c
          /\ session' = [session EXCEPT ![c] = close_locked(@)]
          /\ Unlock(c) /\ UNCHANGED connection
      BY <1>3, CloseSessionEffect
    <2>2. operation_mutex[c] = a /\ ~connection[c].accepting
      BY <1>1, <2>1 DEF LockedRight, Locked, CloseInv
    <2>3. KeepsLock(a)
      BY <2>1, <2>2, LockGiven
    <2>4. session'[c].closed
      BY <2>1, ClosedSession DEF TypeInv
    <2>5. LockedRight(step[a], a)'
      BY <2>1, <2>4 DEF LockedRight, Locked, Submits, Retries
    <2> HIDE DEF c
    <2>6. QED
      BY <2>1, <2>2, <2>3, <2>5, CloseFrame
  <1>4. CASE CancelHandoff(a)
    <2>1. /\ step[a].at = "handoff" /\ OnlyStep(a) /\ step[a].connection \in Connections
          /\ step'[a].at \in {"handoff", "idle", "await_idle", "close_registry"}
          /\ step'[a].at \in {"handoff", "await_idle"} =>
                step'[a].connection = step[a].connection
          /\ UNCHANGED <<connection, operation_mutex, session>>
      BY <1>4, HandoffEffect, StepFields
    <2>2. session[step[a].connection].closed
      BY <1>1, <2>1 DEF LockedRight
    <2>3. LockedRight(step[a], a)'
      BY <2>1, <2>2 DEF LockedRight, Locked, Submits, Retries
    <2>4. QED
      BY <2>1, <2>3, LockFrame, Unmoved
  <1>5. QED
    BY <1>2, <1>3, <1>4 DEF CloseStep, Closing

LEMMA DetachEffect ==
    ASSUME TypeInv, NEW h \in Hosts, DetachStep(h)
    PROVE  /\ step[h].at \in {"idle", "await_idle"} /\ OnlyStep(h) /\ StopsOnly
           /\ UNCHANGED <<slot, queue, count, session, stop_requested, next_task, stopping,
                          registry_close_complete, shutdown_stop_sources>>
           /\ \/ /\ step[h].at = "await_idle" /\ step'[h].at = "idle"
                 /\ UNCHANGED <<connection, operation_mutex>>
              \/ \E c \in Connections :
                    /\ step[h].at = "idle" /\ Lock(h, c) /\ Stop(c) /\ ~connection'[c].accepting
                    /\ \A d \in Connections \ {c} : connection'[d] = connection[d]
                    /\ step'[h].at = "close_session" /\ step'[h].connection = c
                    /\ step'[h].raise /\ step'[h].then # "close_registry"
  <1> USE DEF At
  <1>1. h \in Actors
    BY DEF Actors
  <1>2. CASE ConnectionIdle(h)
    <2>1. step'[h].at = "idle" /\ OnlyStep(h)
      BY <1>1, <1>2, IdleAgain DEF ConnectionIdle
    <2>2. /\ step[h].at = "await_idle"
          /\ UNCHANGED <<slot, queue, count, session, stop_requested, next_task, stopping,
                          registry_close_complete, shutdown_stop_sources, connection,
                          operation_mutex>>
      BY <1>2 DEF ConnectionIdle, executor, lifetime
    <2>3. QED
      BY <2>1, <2>2, Unmoved
  <1>3. ASSUME NEW c \in Connections, Close(h, c)
        PROVE  /\ step[h].at = "idle" /\ Lock(h, c) /\ Stop(c) /\ ~connection'[c].accepting
               /\ step'[h].at = "close_session" /\ step'[h].connection = c
               /\ step'[h].raise /\ step'[h].then # "close_registry"
               /\ OnlyStep(h) /\ StopsOnly
               /\ \A d \in Connections \ {c} : connection'[d] = connection[d]
               /\ UNCHANGED <<slot, queue, count, session, stop_requested, next_task, stopping,
                              registry_close_complete, shutdown_stop_sources>>
    <2>1. PICK x \in {"idle", "await_idle"} :
             Become(h, [Idle EXCEPT !.at = "close_session", !.connection = c, !.then = x])
      BY <1>3 DEF Close
    <2> DEFINE r == [Idle EXCEPT !.at = "close_session", !.connection = c, !.then = x]
    <2>2. r.at = "close_session" /\ r.connection = c /\ r.raise /\ r.then # "close_registry"
      BY DEF Idle
    <2>3. step'[h] = r /\ OnlyStep(h)
      BY <1>1, <2>1, Became DEF OnlyStep
    <2> HIDE DEF r
    <2>4. /\ step[h].at = "idle" /\ Lock(h, c) /\ Stop(c)
          /\ UNCHANGED <<slot, queue, count, session, stop_requested, next_task, stopping,
                         registry_close_complete, shutdown_stop_sources>>
      BY <1>3 DEF Close, executor, lifetime
    <2>5. \A d \in Connections \ {c} : connection'[d] = connection[d]
      BY <2>4 DEF Stop, TypeInv, TypeOK
    <2>6. QED
      BY <2>2, <2>3, <2>4, <2>5, StopStops
  <1>4. QED
    BY <1>2, <1>3 DEF DetachStep

LEMMA ShutdownEffect ==
    ASSUME TypeInv, NEW h \in Hosts, ShutdownStep(h)
    PROVE  /\ step[h].at \in {"idle", "close_registry", "raise_stops", "await_registry"}
           /\ step'[h].at \in {"force_close", "idle", "close_registry", "raise_stops",
                               "await_registry"}
           /\ OnlyStep(h)
           /\ UNCHANGED <<slot, queue, count, connection, operation_mutex, session, next_task>>
  <1> USE DEF At
  <1>1. h \in Actors
    BY DEF Actors
  <1>2. /\ UNCHANGED <<slot, queue, count, connection, operation_mutex, session, next_task>>
        /\ step[h].at \in {"idle", "close_registry", "raise_stops", "await_registry"}
    BY DEF ShutdownStep, ShutdownBegin, ShutdownJoin, ShuttingDown, CloseRegistry, RegistryClosed,
           RaiseShutdownStops, ShutdownReturns, executor
  <1>3. CASE ShutdownJoin(h)
    <2>1. Goto(h, "await_registry") /\ "await_registry" \in Places
      BY <1>3 DEF ShutdownJoin, Places, Unconnected
    <2>2. QED
      BY <1>1, <1>2, <2>1, GoneTo
  <1>4. CASE RaiseShutdownStops(h)
    <2>1. \/ UNCHANGED step
          \/ Goto(h, "await_registry")
      BY <1>4 DEF RaiseShutdownStops
    <2>2. "await_registry" \in Places
      BY DEF Places, Unconnected
    <2>3. CASE UNCHANGED step
      BY <1>2, <2>3 DEF OnlyStep
    <2>4. CASE Goto(h, "await_registry")
      BY <1>1, <1>2, <2>2, <2>4, GoneTo
    <2>5. QED
      BY <2>1, <2>3, <2>4
  <1>5. CASE ShutdownBegin(h) \/ CloseRegistry(h) \/ RegistryClosed(h) \/ ShutdownReturns(h)
    <2>1. PICK r : Become(h, r) /\ r.at \in {"close_registry", "force_close", "raise_stops", "idle"}
      <3>1. CASE ShutdownBegin(h)
        <4> DEFINE q == [Idle EXCEPT !.at = "close_registry", !.registry = Connections]
        <4>1. Become(h, q)
          BY <3>1 DEF ShutdownBegin
        <4>2. q.at = "close_registry"
          BY DEF Idle
        <4>3. QED
          BY <4>1, <4>2
      <3>2. CASE CloseRegistry(h)
        <4>1. PICK c \in step[h].registry :
                 Become(h, [Idle EXCEPT !.at = "force_close", !.connection = c, !.raise = FALSE,
                                !.then = "close_registry", !.registry = step[h].registry \ {c}])
          BY <3>2 DEF CloseRegistry
        <4> DEFINE q == [Idle EXCEPT !.at = "force_close", !.connection = c, !.raise = FALSE,
                             !.then = "close_registry", !.registry = step[h].registry \ {c}]
        <4>2. q.at = "force_close"
          BY DEF Idle
        <4>3. QED
          BY <4>1, <4>2
      <3>3. CASE RegistryClosed(h) \/ ShutdownReturns(h)
        BY <3>3 DEF RegistryClosed, ShutdownReturns, Idle
      <3>4. QED
        BY <1>5, <3>1, <3>2, <3>3
    <2>2. step'[h] = r /\ OnlyStep(h)
      BY <1>1, <2>1, Became DEF OnlyStep
    <2>3. QED
      BY <1>2, <2>1, <2>2
  <1>6. QED
    BY <1>3, <1>4, <1>5 DEF ShutdownStep, ShuttingDown

LEMMA DetachLocked ==
    ASSUME ExecutorAssumption, TypeInv, LockInv, NEW h \in Hosts, DetachStep(h)
    PROVE  LockInv'
  <1>1. /\ h \in Actors /\ OnlyStep(h) /\ StopsOnly /\ UNCHANGED session
        /\ step[h].at # "send_failed"
    BY DetachEffect DEF Actors
  <1>2. CASE step'[h].at = "idle" /\ UNCHANGED operation_mutex
    <2>1. LockedRight(step[h], h)'
      BY <1>2 DEF LockedRight, Locked, Submits, Retries
    <2>2. QED
      BY <1>1, <1>2, <2>1, LockFrame, Unmoved
  <1>3. ASSUME NEW c \in Connections, Lock(h, c), step'[h].at = "close_session",
               step'[h].connection = c
        PROVE  LockInv'
    <2>1. KeepsLock(h) /\ operation_mutex'[c] = h
      BY <1>1, <1>3, LockHeld
    <2>2. LockedRight(step[h], h)'
      BY <1>3, <2>1 DEF LockedRight, Retries
    <2>3. QED
      BY <1>1, <2>1, <2>2, LockFrame, Unmoved
  <1>4. QED
    BY <1>2, <1>3, DetachEffect

LEMMA ShutdownLocked ==
    ASSUME ExecutorAssumption, TypeInv, LockInv, NEW h \in Hosts, ShutdownStep(h)
    PROVE  LockInv'
  <1>1. /\ h \in Actors /\ OnlyStep(h) /\ UNCHANGED <<connection, operation_mutex, session>>
        /\ step[h].at # "send_failed"
    BY ShutdownEffect DEF Actors
  <1>2. LockedRight(step[h], h)'
    BY ShutdownEffect DEF LockedRight, Locked, Submits, Retries
  <1>3. QED
    BY <1>1, <1>2, LockFrame, Unmoved

\* A step of no actor leaves each where it is.
LEMMA NobodyMoves ==
    ASSUME TypeInv, LockInv, SessionsMove, UNCHANGED <<step, operation_mutex, connection>>
    PROVE  LockInv'
  <1>1. ASSUME NEW a \in Actors
        PROVE  LockedRight(step[a], a)'
    <2>1. LockedRight(step[a], a) /\ step'[a] = step[a] /\ operation_mutex' = operation_mutex
      BY LockParts
    <2>2. step[a].at \notin Unconnected => step[a].connection \in Connections
      BY StepFields DEF StepTyped
    <2>3. CASE step[a].at \in Unconnected
      BY <2>1, <2>3 DEF LockedRight, Unconnected, Retries, Locked, Submits
    <2>4. CASE step[a].at \notin Unconnected
      <3>1. session'[step[a].connection].closed <=> session[step[a].connection].closed
        BY <2>2, <2>4 DEF SessionsMove
      <3>2. QED
        BY <2>1, <3>1 DEF LockedRight
    <2>5. QED
      BY <2>3, <2>4
  <1>2. ASSUME NEW c \in Connections
        PROVE  ClosedRight(c)'
    <2>1. ClosedRight(c)
      BY LockParts
    <2>2. session'[c] = session[c] \/ ~session'[c].closed
      BY DEF SessionsMove
    <2>3. QED
      BY <2>1, <2>2 DEF ClosedRight
  <1>3. QED
    BY <1>1, <1>2, LockFromParts

LEMMA LockStep ==
    ASSUME ExecutorAssumption, RetriesFollowSends, TypeInv, LockInv, CountInv, CloseInv,
           [Next]_vars
    PROVE  LockInv'
  <1>1. ASSUME NEW c \in Connections, BeginSend(c)
        PROVE  LockInv'
    <2> DEFINE q == begin_send(session[c])
    <2>1. /\ ~session[c].closed /\ session' = [session EXCEPT ![c] = q]
          /\ UNCHANGED <<step, operation_mutex, connection>>
      BY <1>1 DEF BeginSend, Sendable
    <2>2. ~q.closed
      BY <2>1, LeaseSession DEF TypeInv
    <2> HIDE DEF q
    <2>3. QED
      BY <2>1, <2>2, SessionMoves, NobodyMoves
  <1>2. CASE Next
    BY <1>1, <1>2, StepsOfNext, SubmitLocked, WorkLocked, SendLocked, CancelLocked, CloseLocked,
       DetachLocked, ShutdownLocked
  <1>3. CASE UNCHANGED vars
    BY <1>3, Unmoved, NobodyMoves DEF vars
  <1>4. QED
    BY <1>2, <1>3

-----------------------------------------------------------------------------
(* SlotInv: a slot is in one actor's hands at most *)

\* What an actor has in hand stays what it is.
HandKept(a) ==
    /\ step'[a].at \in Holds <=> step[a].at \in Holds
    /\ step[a].at \in Holds =>
          /\ SameHand(step'[a], step[a])
          /\ \/ step[a].at \in Submits /\ step'[a].at \in Submits
             \/ step[a].at \in Runs /\ step'[a].at \in Runs
             \/ step[a].at \in Retries /\ step'[a].at \in Retries

HandsRight == \A a \in Actors : step[a].at \in Holds => InHand(step[a], slot[step[a].slot])
OneHolder ==
    \A a, b \in Actors : (/\ step[a].at \in Holds /\ step[b].at \in Holds
                          /\ step[a].slot = step[b].slot) => a = b
SlotRight(i) ==
    /\ slot[i].state = "free" => slot[i] = FreeSlot
    /\ slot[i].state # "free" =>
          /\ slot[i].connection \in Connections /\ slot[i].timestamp \in Timestamps
          /\ slot[i].task \in Tasks /\ slot[i].task < next_task
    /\ slot[i].state = "reserved" =>
          \E a \in Actors : step[a].at \in Submits /\ step[a].slot = i
    /\ slot[i].state = "completed" /\ slot[i].pending = "none" =>
          \E a \in Actors : step[a].at \in Retries /\ step[a].slot = i
TasksDiffer ==
    \A i, j \in Slots : (/\ slot[i].state # "free" /\ slot[j].state # "free"
                         /\ slot[i].task = slot[j].task) => i = j

LEMMA SlotParts ==
    SlotInv <=> /\ HandsRight /\ OneHolder /\ TasksDiffer
                /\ \A i \in Slots : SlotRight(i)
  BY DEF SlotInv, HandsRight, OneHolder, SlotRight, TasksDiffer

LEMMA SlotFromParts ==
    ASSUME HandsRight', OneHolder', TasksDiffer', \A i \in Slots : SlotRight(i)'
    PROVE  SlotInv'
  BY DEF SlotInv, HandsRight, OneHolder, SlotRight, TasksDiffer

\* The places of the three kinds of hands are apart.
LEMMA HandsApart ==
    /\ Submits \subseteq Holds /\ Runs \subseteq Holds /\ Retries \subseteq Holds
    /\ \A x \in Holds : x \in Submits \/ x \in Runs \/ x \in Retries
    /\ \A x \in Submits : x \notin Runs /\ x \notin Retries /\ StateHeld(x) = "reserved"
    /\ \A x \in Runs : x \notin Submits /\ x \notin Retries /\ StateHeld(x) = "running"
    /\ \A x \in Retries : x \notin Runs /\ x \notin Submits /\ StateHeld(x) = "completed"
    /\ \A x \in Holds : StateHeld(x) \in {"reserved", "running", "completed"}
  BY DEF Holds, Submits, Runs, Retries, StateHeld

LEMMA SlotFrame ==
    ASSUME TypeInv, SlotInv, NEW a \in Actors, OnlyStep(a), HandKept(a),
           UNCHANGED <<slot, next_task>>
    PROVE  SlotInv'
  <1>1. \A b \in Actors : HandKept(b)
    BY HandsApart DEF OnlyStep, HandKept, SameHand
  <1>2. \A b \in Actors : step[b].at \in Holds <=> step'[b].at \in Holds
    BY <1>1 DEF HandKept
  <1>3. \A b \in Actors : step[b].at \in Holds => step'[b].slot = step[b].slot
    BY <1>1 DEF HandKept, SameHand
  <1>4. HandsRight'
    <2> SUFFICES ASSUME NEW b \in Actors, step'[b].at \in Holds
                 PROVE  InHand(step[b], slot[step[b].slot])'
      BY DEF HandsRight
    <2>1. InHand(step[b], slot[step[b].slot]) /\ HandKept(b) /\ step[b].at \in Holds
      BY <1>1, <1>2, SlotParts DEF HandsRight
    <2>2. StateHeld(step'[b].at) = StateHeld(step[b].at)
      BY <2>1, HandsApart DEF HandKept
    <2>3. step'[b].at \in Retries => step[b].at \in Retries
      BY <2>1, HandsApart DEF HandKept
    <2>4. QED
      BY <2>1, <2>2, <2>3 DEF HandKept, SameHand, InHand
  <1>5. OneHolder'
    BY <1>2, <1>3, SlotParts DEF OneHolder
  <1>6. TasksDiffer'
    BY SlotParts DEF TasksDiffer
  <1>7. ASSUME NEW i \in Slots
        PROVE  SlotRight(i)'
    <2>1. SlotRight(i)
      BY SlotParts
    <2>2. \A b \in Actors : step[b].at \in Submits /\ step[b].slot = i =>
                                step'[b].at \in Submits /\ step'[b].slot = i
      BY <1>1, HandsApart DEF HandKept, SameHand
    <2>3. \A b \in Actors : step[b].at \in Retries /\ step[b].slot = i =>
                                step'[b].at \in Retries /\ step'[b].slot = i
      BY <1>1, HandsApart DEF HandKept, SameHand
    <2>4. QED
      BY <2>1, <2>2, <2>3 DEF SlotRight
  <1>8. QED
    BY <1>4, <1>5, <1>6, <1>7, SlotFromParts

\* A slot changes in the hands of one actor.
LEMMA SlotChange ==
    ASSUME TypeInv, TypeInv', SlotInv, NEW a \in Actors, NEW i \in Slots,
           OnlyStep(a), OnlySlot(i), next_task <= next_task',
           \A b \in Actors \ {a} : step[b].at \in Holds => step[b].slot # i,
           step[a].at \in Holds => step[a].slot = i,
           step'[a].at \in Holds => step'[a].slot = i /\ InHand(step'[a], slot'[i]),
           SlotRight(i)',
           slot'[i].state # "free" =>
              \/ slot[i].state # "free" /\ slot'[i].task = slot[i].task
              \/ slot'[i].task = next_task
    PROVE  SlotInv'
  <1>1. next_task \in Int /\ next_task' \in Int
    BY DEF TypeInv, TypeOK
  <1>2. \A b \in Actors \ {a} : step'[b] = step[b]
    BY DEF OnlyStep
  <1>3. \A j \in Slots \ {i} : slot'[j] = slot[j]
    BY DEF OnlySlot
  <1>4. HandsRight'
    <2> SUFFICES ASSUME NEW b \in Actors, step'[b].at \in Holds
                 PROVE  InHand(step[b], slot[step[b].slot])'
      BY DEF HandsRight
    <2>1. CASE b = a
      BY <2>1
    <2>2. CASE b # a
      <3>1. /\ step'[b] = step[b] /\ InHand(step[b], slot[step[b].slot]) /\ step[b].slot # i
            /\ step[b].slot \in Slots
        BY <1>2, <2>2, SlotParts, StepFields DEF HandsRight, StepTyped
      <3>2. slot'[step[b].slot] = slot[step[b].slot]
        BY <1>3, <3>1
      <3>3. QED
        BY <3>1, <3>2 DEF InHand
    <2>3. QED
      BY <2>1, <2>2
  <1>5. OneHolder'
    BY <1>2, SlotParts DEF OneHolder
  <1>6. TasksDiffer'
    <2>1. \A j \in Slots : slot[j].state # "free" =>
             slot[j].task \in Int /\ slot[j].task < next_task
      BY SlotParts DEF SlotRight, Tasks
    <2>2. ASSUME NEW j \in Slots \ {i}, slot'[i].state # "free", slot'[j].state # "free"
          PROVE  slot'[i].task # slot'[j].task
      <3>1. slot'[j] = slot[j]
        BY <1>3
      <3>2. CASE slot'[i].task = next_task
        BY <1>1, <2>1, <2>2, <3>1, <3>2
      <3>3. CASE slot[i].state # "free" /\ slot'[i].task = slot[i].task
        BY <2>2, <3>1, <3>3, SlotParts DEF TasksDiffer
      <3>4. QED
        BY <2>2, <3>2, <3>3
    <2>3. \A j, k \in Slots \ {i} : (/\ slot'[j].state # "free" /\ slot'[k].state # "free"
                                     /\ slot'[j].task = slot'[k].task) => j = k
      BY <1>3, SlotParts DEF TasksDiffer
    <2>4. QED
      BY <2>2, <2>3 DEF TasksDiffer
  <1>7. ASSUME NEW j \in Slots \ {i}
        PROVE  SlotRight(j)'
    <2>1. SlotRight(j) /\ slot'[j] = slot[j]
      BY <1>3, SlotParts
    <2>2. slot[j].state # "free" => slot[j].task \in Int
      BY <2>1 DEF SlotRight, Tasks
    <2>3. \A b \in Actors : step[b].at \in Holds /\ step[b].slot = j => step'[b] = step[b]
      BY <1>2
    <2>4. slot[j].state = "reserved" =>
             \E b \in Actors : step'[b].at \in Submits /\ step'[b].slot = j
      BY <2>1, <2>3, HandsApart DEF SlotRight
    <2>5. slot[j].state = "completed" /\ slot[j].pending = "none" =>
             \E b \in Actors : step'[b].at \in Retries /\ step'[b].slot = j
      BY <2>1, <2>3, HandsApart DEF SlotRight
    <2>6. slot[j].state # "free" => slot[j].task < next_task'
      BY <1>1, <2>1, <2>2 DEF SlotRight
    <2>7. QED
      BY <2>1, <2>4, <2>5, <2>6 DEF SlotRight
  <1>8. QED
    <2>1. \A j \in Slots : SlotRight(j)'
      BY <1>7 DEF SlotRight
    <2>2. QED
      BY <1>4, <1>5, <1>6, <2>1, SlotFromParts

LEMMA EmptyHanded ==
    ASSUME TypeInv, SlotInv, NEW a \in Actors, OnlyStep(a), step[a].at \notin Holds,
           step'[a].at \notin Holds, UNCHANGED <<slot, next_task>>
    PROVE  SlotInv'
  BY SlotFrame DEF HandKept

\* Whose slot it is, and what it is then.
LEMMA InHands ==
    ASSUME TypeInv, SlotInv, NEW a \in Actors, step[a].at \in Holds
    PROVE  LET i == step[a].slot IN
           /\ i \in Slots /\ slot[i].state = StateHeld(step[a].at)
           /\ slot[i].connection = step[a].connection /\ slot[i].timestamp = step[a].timestamp
           /\ slot[i].task = step[a].task
           /\ step[a].connection \in Connections /\ step[a].timestamp \in Timestamps
           /\ step[a].task \in Tasks
           /\ \A b \in Actors \ {a} : step[b].at \in Holds => step[b].slot # i
  <1>1. InHand(step[a], slot[step[a].slot]) /\ StepTyped(step[a])
    BY SlotParts, StepFields DEF HandsRight
  <1>2. step[a].at \notin Unconnected
    BY DEF Holds, Submits, Runs, Retries, Unconnected
  <1>3. QED
    BY <1>1, <1>2, SlotParts DEF InHand, StepTyped, OneHolder

\* A slot that no actor can have in hand.
LEMMA InNoHands ==
    ASSUME TypeInv, SlotInv, NEW i \in Slots,
           \/ slot[i].state \in {"free", "queued"}
           \/ slot[i].state = "completed" /\ slot[i].pending # "none"
    PROVE  \A b \in Actors : step[b].at \in Holds => step[b].slot # i
  <1> SUFFICES ASSUME NEW b \in Actors, step[b].at \in Holds, step[b].slot = i
               PROVE  FALSE
    OBVIOUS
  <1>1. InHand(step[b], slot[i])
    BY SlotParts DEF HandsRight
  <1>2. QED
    BY <1>1, HandsApart DEF InHand

LEMMA ReleaseSlots ==
    ASSUME TypeInv, TypeInv', SlotInv, NEW a \in Actors, NEW i \in Slots, NEW fields,
           OnlyStep(a), Release(i, fields), UNCHANGED next_task,
           \A b \in Actors \ {a} : step[b].at \in Holds => step[b].slot # i,
           step[a].at \in Holds => step[a].slot = i, step'[a].at \notin Holds
    PROVE  SlotInv'
  <1>1. slot'[i] = FreeSlot /\ OnlySlot(i) /\ slot'[i].state = "free"
    BY Released
  <1>2. SlotRight(i)'
    BY <1>1 DEF SlotRight
  <1>3. next_task <= next_task'
    BY DEF TypeInv, TypeOK
  <1>4. QED
    BY <1>1, <1>2, <1>3, SlotChange

SameTask(i) ==
    /\ slot'[i].connection = slot[i].connection /\ slot'[i].timestamp = slot[i].timestamp
    /\ slot'[i].task = slot[i].task

\* What happens to a slot that its task keeps.
LEMMA KeptSlots ==
    ASSUME TypeInv, TypeInv', SlotInv, NEW a \in Actors, NEW i \in Slots,
           OnlyStep(a), OnlySlot(i), UNCHANGED next_task, SameTask(i),
           slot[i].state # "free", slot'[i].state # "free",
           \A b \in Actors \ {a} : step[b].at \in Holds => step[b].slot # i,
           step[a].at \in Holds => step[a].slot = i,
           step'[a].at \in Holds =>
              step'[a].slot = i /\ InHand(step'[a], slot'[i]),
           slot'[i].state = "reserved" => step'[a].at \in Submits /\ step'[a].slot = i,
           slot'[i].state = "completed" /\ slot'[i].pending = "none" =>
              step'[a].at \in Retries /\ step'[a].slot = i
    PROVE  SlotInv'
  <1>1. SlotRight(i)
    BY SlotParts
  <1>2. SlotRight(i)'
    BY <1>1 DEF SlotRight, SameTask
  <1>3. next_task <= next_task'
    BY DEF TypeInv, TypeOK
  <1>4. QED
    BY <1>2, <1>3, SlotChange DEF SameTask

LEMMA SlotRestated ==
    ASSUME TypeInv, NEW i \in Slots, NEW x, slot' = [slot EXCEPT ![i].state = x]
    PROVE  /\ OnlySlot(i) /\ SameTask(i) /\ slot'[i].state = x
           /\ slot'[i].pending = slot[i].pending
  <1>1. slot[i] \in SlotRecords /\ slot'[i] = [slot[i] EXCEPT !.state = x] /\ OnlySlot(i)
    BY DEF TypeInv, TypeOK, SlotRecords, OnlySlot
  <1>2. QED
    BY <1>1 DEF SlotRecords, SameTask

LEMMA SlotRepended ==
    ASSUME TypeInv, NEW i \in Slots, NEW x, slot' = [slot EXCEPT ![i].pending = x]
    PROVE  /\ OnlySlot(i) /\ SameTask(i) /\ slot'[i].state = slot[i].state
           /\ slot'[i].pending = x
  <1>1. slot[i] \in SlotRecords /\ slot'[i] = [slot[i] EXCEPT !.pending = x] /\ OnlySlot(i)
    BY DEF TypeInv, TypeOK, SlotRecords, OnlySlot
  <1>2. QED
    BY <1>1 DEF SlotRecords, SameTask

\* A submit gives its reservation back or commits it.
LEMMA SubmitEnds ==
    ASSUME TypeInv, SlotInv, NEW h \in Hosts,
           SubmitRejected(h) \/ SubmitCommit(h) \/ SubmitRollback(h)
    PROVE  LET i == step[h].slot IN
           /\ step[h].at \in Submits /\ step'[h].at = "idle" /\ OnlyStep(h)
           /\ step[h].at = "admit" <=> SubmitRejected(h)
           /\ Unlock(step[h].connection)
           /\ i \in Slots /\ slot[i].state = "reserved" /\ UNCHANGED next_task
           /\ UNCHANGED <<connection, stop_requested, stopping, registry_close_complete,
                          shutdown_stop_sources>>
           /\ \/ SubmitCommit(h) /\ slot' = [slot EXCEPT ![i].state = "queued"]
              \/ ~SubmitCommit(h) /\ Release(i, {}) /\ UNCHANGED queue
  <1>1. h \in Actors
    BY DEF Actors
  <1>2. step[h].at \in Submits /\ Become(h, Idle)
    BY DEF SubmitRejected, SubmitCommit, SubmitRollback, Submits, At
  <1>3. step'[h].at = "idle" /\ OnlyStep(h)
    BY <1>1, <1>2, IdleAgain
  <1>4. step[h].slot \in Slots /\ slot[step[h].slot].state = "reserved"
    BY <1>1, <1>2, HandsApart, InHands
  <1>5. /\ UNCHANGED <<connection, next_task, stop_requested, stopping, registry_close_complete,
                       shutdown_stop_sources>>
        /\ Unlock(step[h].connection)
        /\ step[h].at = "admit" <=> SubmitRejected(h)
    BY DEF SubmitRejected, SubmitCommit, SubmitRollback, lifetime, At
  <1>6. /\ SubmitCommit(h) => slot' = [slot EXCEPT ![step[h].slot].state = "queued"]
        /\ ~SubmitCommit(h) => Release(step[h].slot, {}) /\ UNCHANGED queue
    BY DEF SubmitRejected, SubmitCommit, SubmitRollback
  <1>7. QED
    BY <1>2, <1>3, <1>4, <1>5, <1>6

LEMMA AdmitEffect ==
    ASSUME TypeInv, NEW h \in Hosts, SubmitAdmit(h)
    PROVE  LET c == step[h].connection  t == step[h].timestamp IN
           /\ step[h].at = "admit" /\ step'[h].at = "commit"
           /\ SameHand(step'[h], step[h]) /\ OnlyStep(h)
           /\ Admissible(session[c], t)
           /\ session' = [session EXCEPT ![c] = admit(session[c], t, step[h].task)]
           /\ UNCHANGED <<slot, queue, count, connection, operation_mutex, stop_requested,
                          next_task, stopping, registry_close_complete, shutdown_stop_sources>>
  <1>1. h \in Actors /\ "commit" \in Places
    BY DEF Actors, Places, Holds, Submits
  <1>2. Goto(h, "commit")
    BY DEF SubmitAdmit
  <1>3. step'[h].at = "commit" /\ SameHand(step'[h], step[h]) /\ OnlyStep(h)
    BY <1>1, <1>2, GoneTo
  <1>4. QED
    BY <1>3 DEF SubmitAdmit, executor, lifetime, At

LEMMA SubmitSlots ==
    ASSUME ExecutorAssumption, TypeInv, TypeInv', SlotInv, NEW h \in Hosts, SubmitStep(h)
    PROVE  SlotInv'
  <1>1. h \in Actors
    BY DEF Actors
  <1>2. ASSUME NEW c \in Connections, NEW t \in Timestamps, SubmitReserve(h, c, t)
        PROVE  SlotInv'
    <2>1. PICK i \in Slots :
              /\ slot[i].state = "free" /\ OnlySlot(i)
              /\ slot'[i].state = "reserved" /\ slot'[i].connection = c
              /\ slot'[i].timestamp = t /\ slot'[i].task = next_task
              /\ step[h].at = "idle" /\ OnlyStep(h)
              /\ step'[h].at = "admit" /\ step'[h].connection = c /\ step'[h].timestamp = t
              /\ step'[h].slot = i /\ step'[h].task = next_task
      BY <1>2, ReserveEffect
    <2>2. next_task' = next_task + 1 /\ next_task \in Tasks /\ next_task \in Int
      BY <1>2 DEF SubmitReserve, Tasks
    <2>3. SlotRight(i)'
      BY <1>1, <2>1, <2>2 DEF SlotRight, Submits
    <2>4. InHand(step'[h], slot'[i])
      BY <2>1 DEF InHand, StateHeld, Submits, Retries
    <2>5. step[h].at \notin Holds
      BY <2>1 DEF Holds, Submits, Runs, Retries
    <2>6. next_task <= next_task'
      BY <2>2
    <2>7. \A b \in Actors : step[b].at \in Holds => step[b].slot # i
      BY <2>1, InNoHands
    <2>8. QED
      BY <1>1, <2>1, <2>3, <2>4, <2>5, <2>6, <2>7, SlotChange
  <1>3. CASE SubmitAdmit(h)
    <2>1. HandKept(h) /\ OnlyStep(h) /\ UNCHANGED <<slot, next_task>>
      BY <1>3, AdmitEffect, HandsApart DEF HandKept, Submits
    <2>2. QED
      BY <1>1, <2>1, SlotFrame
  <1>4. CASE SubmitRejected(h) \/ SubmitCommit(h) \/ SubmitRollback(h)
    <2> DEFINE i == step[h].slot
    <2>1. /\ step[h].at \in Holds /\ step'[h].at \notin Holds /\ OnlyStep(h)
          /\ i \in Slots /\ slot[i].state = "reserved" /\ UNCHANGED next_task
          /\ \/ slot' = [slot EXCEPT ![i].state = "queued"]
             \/ Release(i, {})
      BY <1>4, SubmitEnds, HandsApart DEF Holds, Submits, Runs, Retries
    <2>2. \A b \in Actors \ {h} : step[b].at \in Holds => step[b].slot # i
      BY <1>1, <2>1, InHands
    <2>3. step[h].slot = i
      OBVIOUS
    <2> HIDE DEF i
    <2>4. CASE Release(i, {})
      BY <1>1, <2>1, <2>2, <2>3, <2>4, ReleaseSlots
    <2>5. CASE slot' = [slot EXCEPT ![i].state = "queued"]
      <3>1. OnlySlot(i) /\ SameTask(i) /\ slot'[i].state = "queued"
        BY <2>1, <2>5, SlotRestated
      <3>2. QED
        BY <1>1, <2>1, <2>2, <2>3, <3>1, KeptSlots
    <2>6. QED
      BY <2>1, <2>4, <2>5
  <1>5. QED
    BY <1>2, <1>3, <1>4 DEF SubmitStep, Submitting

LEMMA DropEffect ==
    ASSUME TypeInv, CountInv, NEW w \in Workers, DropQueued(w)
    PROVE  LET i == Head(queue) IN
           /\ i \in Slots /\ slot[i].state = "queued" /\ Release(i, {"queued"})
           /\ step[w].at = "idle" /\ OnlyStep(w) /\ stopping /\ queue # <<>>
           /\ queue' = Tail(queue)
           /\ UNCHANGED <<connection, operation_mutex, session, stop_requested, next_task,
                          stopping, registry_close_complete, shutdown_stop_sources, step>>
  BY HeadQueued DEF DropQueued, At, OnlyStep, lifetime

LEMMA RetainEffect ==
    ASSUME TypeInv, SlotInv, NEW w \in Workers, FinishRetain(w)
    PROVE  LET i == step[w].slot IN
           /\ i \in Slots /\ slot[i].state = "running" /\ OnlySlot(i) /\ SameTask(i)
           /\ slot'[i].state = "completed" /\ slot'[i].pending # "none"
           /\ step[w].at = "finish" /\ step'[w].at = "idle" /\ OnlyStep(w)
           /\ slot[i].connection = step[w].connection
           /\ ~stopping /\ Open(step[w].connection)
           /\ count.completed < max_pending_responses \/ step[w].outcome # "retry"
           /\ step[w].outcome = "retry"
           /\ count' = Moved("running", "completed")
           /\ UNCHANGED <<queue, connection, operation_mutex, session, stop_requested, next_task,
                          stopping, registry_close_complete, shutdown_stop_sources>>
  <1> DEFINE i == step[w].slot
             s == [slot[i] EXCEPT !.state = "completed", !.pending = Retained(w)]
  <1>1. w \in Actors /\ StepTyped(step[w]) /\ step[w].at = "finish" /\ step[w].at \in Holds
    BY StepFields DEF Actors, FinishRetain, At, Holds, Runs
  <1>2. /\ i \in Slots /\ slot[i].state = "running" /\ slot[i].connection = step[w].connection
    BY <1>1, InHands DEF StateHeld, Submits, Runs
  <1>3. Retained(w) # "none"
    BY <1>1 DEF Retained, StepTyped
  <1>4. slot[i] \in SlotRecords /\ slot'[i] = s /\ OnlySlot(i)
    BY <1>2 DEF FinishRetain, TypeInv, TypeOK, SlotRecords, OnlySlot
  <1>5. s.state = "completed" /\ s.pending = Retained(w) /\ s.connection = slot[i].connection
        /\ s.timestamp = slot[i].timestamp /\ s.task = slot[i].task
    BY <1>4 DEF SlotRecords
  <1>6. step'[w].at = "idle" /\ OnlyStep(w)
    BY <1>1, IdleAgain DEF FinishRetain
  <1>7. /\ step[w].outcome = "retry" /\ ~stopping /\ Open(step[w].connection)
        /\ ~(count.completed >= max_pending_responses)
        /\ count' = Moved("running", "completed")
        /\ UNCHANGED <<queue, connection, operation_mutex, session, stop_requested, next_task,
                       stopping, registry_close_complete, shutdown_stop_sources>>
    BY DEF FinishRetain, MustClose, CompletionForbidden, lifetime
  <1>8. count.completed \in Int
    BY DEF TypeInv, Counters
  <1>9. count.completed < max_pending_responses \/ step[w].outcome # "retry"
    BY <1>7, <1>8, ExecutorAssumption DEF ExecutorAssumption
  <1> HIDE DEF s
  <1>10. QED
    BY <1>1, <1>2, <1>3, <1>4, <1>5, <1>6, <1>7, <1>9 DEF SameTask

LEMMA FinishEffect ==
    ASSUME TypeInv, SlotInv, NEW w \in Workers, FinishRelease(w)
    PROVE  LET i == step[w].slot  c == step[w].connection IN
           /\ i \in Slots /\ slot[i].state = "running" /\ Release(i, {"running"})
           /\ step[w].at = "finish" /\ OnlyStep(w) /\ c \in Connections
           /\ slot[i].connection = c
           /\ \/ /\ ~connection'[c].accepting /\ connection'[c].close_required
                 /\ \A d \in Connections \ {c} : connection'[d] = connection[d]
                 /\ step'[w].at = "force_close" /\ step'[w].connection = c
                 /\ step'[w].raise /\ step'[w].then = "idle"
              \/ /\ step[w].outcome = "published" \/ stopping \/ ~Open(c)
                 /\ step'[w].at = "idle" /\ UNCHANGED connection
           /\ UNCHANGED <<queue, operation_mutex, session, stop_requested, next_task,
                          stopping, registry_close_complete, shutdown_stop_sources>>
  <1> DEFINE i == step[w].slot
             c == step[w].connection
             r == [Idle EXCEPT !.at = "force_close", !.connection = c]
  <1>1. w \in Actors /\ step[w].at = "finish" /\ step[w].at \in Holds
    BY DEF Actors, FinishRelease, At, Holds, Runs
  <1>2. i \in Slots /\ slot[i].state = "running" /\ c \in Connections /\ slot[i].connection = c
    BY <1>1, InHands DEF StateHeld, Submits, Runs
  <1>3. /\ r.at = "force_close" /\ r.connection = c /\ r.raise /\ r.then = "idle"
        /\ Idle.at = "idle"
    BY DEF Idle
  <1>4. /\ Release(i, {"running"})
        /\ UNCHANGED <<queue, operation_mutex, session, stop_requested, next_task,
                       stopping, registry_close_complete, shutdown_stop_sources>>
    BY DEF FinishRelease, lifetime
  <1>5. \/ /\ connection' = [connection EXCEPT ![c] =
                                [accepting |-> FALSE, close_required |-> TRUE]]
           /\ Become(w, r)
        \/ /\ step[w].outcome = "published" \/ stopping \/ ~Open(c)
           /\ Become(w, Idle) /\ UNCHANGED connection
    BY DEF FinishRelease, CompletionForbidden
  <1> HIDE DEF r
  <1>6. CASE /\ connection' = [connection EXCEPT ![c] =
                                [accepting |-> FALSE, close_required |-> TRUE]]
             /\ Become(w, r)
    <2>1. step'[w] = r /\ OnlyStep(w)
      BY <1>1, <1>6, Became DEF OnlyStep
    <2>2. /\ ~connection'[c].accepting /\ connection'[c].close_required
          /\ \A d \in Connections \ {c} : connection'[d] = connection[d]
      BY <1>2, <1>6 DEF TypeInv, TypeOK
    <2>3. QED
      BY <1>1, <1>2, <1>3, <1>4, <2>1, <2>2
  <1>7. CASE Become(w, Idle) /\ UNCHANGED connection
             /\ (step[w].outcome = "published" \/ stopping \/ ~Open(c))
    BY <1>1, <1>2, <1>4, <1>7, IdleAgain
  <1>8. QED
    BY <1>5, <1>6, <1>7

LEMMA WorkSlots ==
    ASSUME TypeInv, TypeInv', SlotInv, CountInv, NEW w \in Workers, WorkStep(w)
    PROVE  SlotInv'
  <1> USE DEF At
  <1>1. w \in Actors
    BY DEF Actors
  <1>2. CASE \/ StartStopped(w) \/ StartHandler(w) \/ HandlerReturns(w) \/ Settle(w)
             \/ PublishTerminal(w) \/ ClaimTerminal(w)
    <2>1. HandKept(w) /\ OnlyStep(w) /\ UNCHANGED <<slot, next_task>>
      BY <1>2, RunEffect, HandsApart DEF HandKept
    <2>2. QED
      BY <1>1, <2>1, SlotFrame
  <1>3. CASE Progress(w)
    <2>1. HandKept(w) /\ OnlyStep(w) /\ UNCHANGED <<slot, next_task>>
      BY <1>3 DEF Progress, executor, HandKept, OnlyStep, SameHand, Holds, Runs
    <2>2. QED
      BY <1>1, <2>1, SlotFrame
  <1>4. CASE Exit(w)
    <2>1. step[w].at = "idle" /\ UNCHANGED <<slot, next_task>> /\ Goto(w, "exited")
      BY <1>4 DEF Exit, executor
    <2>2. step'[w].at = "exited" /\ OnlyStep(w)
      <3>1. "exited" \in Places
        BY DEF Places, Unconnected
      <3>2. QED
        BY <1>1, <2>1, <3>1, GoneTo
    <2>3. QED
      BY <1>1, <2>1, <2>2, EmptyHanded DEF Holds, Submits, Runs, Retries
  <1>5. CASE Take(w)
    <2> DEFINE i == Head(queue)
    <2>1. /\ i \in Slots /\ slot[i].state = "queued" /\ OnlySlot(i)
          /\ slot'[i].state = "running" /\ SameTask(i)
          /\ step[w].at = "idle" /\ OnlyStep(w)
          /\ step'[w].at = "dispatch" /\ step'[w].connection = slot[i].connection
          /\ step'[w].timestamp = slot[i].timestamp /\ step'[w].slot = i
          /\ step'[w].task = slot[i].task
      BY <1>5, TakeEffect DEF SameTask
    <2>2. UNCHANGED next_task /\ InHand(step'[w], slot'[i])
      BY <1>5, <2>1 DEF Take, InHand, StateHeld, Submits, Runs, Retries, SameTask
    <2>3. \A b \in Actors : step[b].at \in Holds => step[b].slot # i
      BY <2>1, InNoHands
    <2>4. step[w].at \notin Holds
      BY <2>1 DEF Holds, Submits, Runs, Retries
    <2> HIDE DEF i
    <2>5. QED
      BY <1>1, <2>1, <2>2, <2>3, <2>4, KeptSlots
  <1>6. CASE DropQueued(w)
    <2> DEFINE i == Head(queue)
    <2>1. /\ i \in Slots /\ slot[i].state = "queued" /\ Release(i, {"queued"})
          /\ step[w].at = "idle" /\ OnlyStep(w) /\ UNCHANGED <<next_task, step>>
      BY <1>6, DropEffect
    <2>2. \A b \in Actors : step[b].at \in Holds => step[b].slot # i
      BY <2>1, InNoHands
    <2>3. step[w].at \notin Holds /\ step'[w].at \notin Holds
      BY <2>1 DEF Holds, Submits, Runs, Retries
    <2> HIDE DEF i
    <2>4. QED
      BY <1>1, <2>1, <2>2, <2>3, ReleaseSlots
  <1>7. CASE FinishRetain(w)
    <2> DEFINE i == step[w].slot
    <2>1. /\ i \in Slots /\ slot[i].state = "running" /\ OnlySlot(i) /\ SameTask(i)
          /\ slot'[i].state = "completed" /\ slot'[i].pending # "none"
          /\ step[w].at = "finish" /\ step'[w].at = "idle" /\ OnlyStep(w)
          /\ UNCHANGED next_task
      BY <1>7, RetainEffect
    <2>2. step[w].at \in Holds /\ step'[w].at \notin Holds
      BY <2>1 DEF Holds, Submits, Runs, Retries
    <2>3. \A b \in Actors \ {w} : step[b].at \in Holds => step[b].slot # i
      BY <1>1, <2>2, InHands
    <2>4. step[w].slot = i
      OBVIOUS
    <2> HIDE DEF i
    <2>5. QED
      BY <1>1, <2>1, <2>2, <2>3, <2>4, KeptSlots
  <1>8. CASE FinishRelease(w)
    <2> DEFINE i == step[w].slot
    <2>1. /\ i \in Slots /\ Release(i, {"running"}) /\ step[w].at = "finish" /\ OnlyStep(w)
          /\ step'[w].at \in {"force_close", "idle"} /\ UNCHANGED next_task
      BY <1>8, FinishEffect
    <2>2. step[w].at \in Holds /\ step'[w].at \notin Holds
      BY <2>1 DEF Holds, Submits, Runs, Retries
    <2>3. \A b \in Actors \ {w} : step[b].at \in Holds => step[b].slot # i
      BY <1>1, <2>2, InHands
    <2>4. step[w].slot = i
      OBVIOUS
    <2> HIDE DEF i
    <2>5. QED
      BY <1>1, <2>1, <2>2, <2>3, <2>4, ReleaseSlots
  <1>9. QED
    BY <1>2, <1>3, <1>4, <1>5, <1>6, <1>7, <1>8 DEF WorkStep, Working

LEMMA SettleEffect ==
    ASSUME TypeInv, SlotInv, NEW h \in Hosts, RetrySettle(h)
    PROVE  LET i == step[h].slot  c == step[h].connection IN
           /\ i \in Slots /\ slot[i].state = "completed" /\ slot[i].pending = "none"
           /\ slot[i].connection = c /\ c \in Connections
           /\ step[h].at \in Holds /\ step'[h].at \notin Holds /\ OnlyStep(h)
           /\ \/ /\ step[h].outcome = "retry" /\ OnlySlot(i) /\ SameTask(i) /\ UNCHANGED count
                 /\ slot'[i].state = "completed" /\ slot'[i].pending # "none"
              \/ step[h].outcome # "retry" /\ Release(i, {"completed"})
           /\ step[h].outcome = "close" => connection'[c].close_required
           /\ \A d \in Connections : connection'[d].accepting = connection[d].accepting
           /\ \A d \in Connections : connection[d].close_required => connection'[d].close_required
           /\ UNCHANGED <<queue, operation_mutex, session, stop_requested, next_task,
                          stopping, registry_close_complete, shutdown_stop_sources>>
  <1> DEFINE i == step[h].slot
             c == step[h].connection
  <1>1. /\ h \in Actors /\ step[h].at = "retry_settle" /\ StepTyped(step[h])
        /\ step[h].at \in Holds /\ step'[h].at \notin Holds /\ OnlyStep(h)
    BY RetrySettleEffect, StepFields DEF Actors, Holds, Submits, Runs, Retries
  <1>2. /\ i \in Slots /\ slot[i].state = "completed" /\ slot[i].pending = "none"
        /\ slot[i].connection = c /\ c \in Connections
    BY <1>1, InHands, SlotParts DEF HandsRight, InHand, StateHeld, Submits, Runs, Retries
  <1>3. step[h].staged # "none"
    BY <1>1 DEF StepTyped, Retries
  <1>4. \/ /\ step[h].outcome = "retry" /\ UNCHANGED count
           /\ slot' = [slot EXCEPT ![i].pending = step[h].staged]
        \/ step[h].outcome # "retry" /\ Release(i, {"completed"})
    BY DEF RetrySettle
  <1>5. /\ step[h].outcome = "close" => connection'[c].close_required
        /\ \A d \in Connections : connection'[d].accepting = connection[d].accepting
        /\ \A d \in Connections : connection[d].close_required => connection'[d].close_required
    BY <1>2 DEF RetrySettle, TypeInv, TypeOK
  <1>6. UNCHANGED <<queue, operation_mutex, session, stop_requested, next_task,
                    stopping, registry_close_complete, shutdown_stop_sources>>
    BY DEF RetrySettle, lifetime
  <1> HIDE DEF i, c
  <1>7. slot' = [slot EXCEPT ![i].pending = step[h].staged] =>
           /\ OnlySlot(i) /\ SameTask(i) /\ slot'[i].state = "completed"
           /\ slot'[i].pending # "none"
    BY <1>2, <1>3, SlotRepended
  <1>8. QED
    BY <1>1, <1>2, <1>4, <1>5, <1>6, <1>7 DEF i, c

\* The rest of the calls of a sender, which leave the slots alone.
LEMMA SenderEffect ==
    ASSUME ExecutorAssumption, TypeInv, NEW h \in Hosts,
           \/ \E c \in Connections : CompleteSend(h, c) \/ FailSend(h, c)
           \/ RetrySkip(h) \/ RetryDone(h) \/ StopAfterFailure(h)
    PROVE  /\ step[h].at \in {"idle", "retry", "send_failed"} /\ OnlyStep(h)
           /\ step'[h].at \in {"idle", "retry", "send_failed", "close_session", "handoff"}
           /\ UNCHANGED <<slot, queue, count, stop_requested, next_task, stopping,
                          registry_close_complete, shutdown_stop_sources>>
  <1> USE DEF At
  <1>1. /\ h \in Actors /\ step[h] \in Steps
        /\ UNCHANGED <<slot, queue, count, stop_requested, next_task, stopping,
                       registry_close_complete, shutdown_stop_sources>>
    BY StepFields
    DEF Actors, CompleteSend, FailSend, RetrySkip, RetryDone, StopAfterFailure, executor, lifetime
  <1>2. ASSUME NEW c \in Connections, CompleteSend(h, c)
        PROVE  step[h].at = "idle" /\ step'[h].at = "retry" /\ OnlyStep(h)
    <2>1. Become(h, Retrying(c)) /\ step[h].at = "idle"
      BY <1>2 DEF CompleteSend
    <2>2. Retrying(c).at = "retry"
      BY DEF Retrying, Idle
    <2>3. QED
      BY <1>1, <2>1, <2>2, Became DEF OnlyStep
  <1>3. ASSUME NEW c \in Connections, FailSend(h, c)
        PROVE  step[h].at = "idle" /\ step'[h].at = "send_failed" /\ OnlyStep(h)
    <2> DEFINE r == [Idle EXCEPT !.at = "send_failed", !.connection = c]
    <2>1. Become(h, r) /\ step[h].at = "idle"
      BY <1>3 DEF FailSend
    <2>2. r.at = "send_failed"
      BY DEF Idle
    <2> HIDE DEF r
    <2>3. QED
      BY <1>1, <2>1, <2>2, Became DEF OnlyStep
  <1>4. CASE RetryDone(h)
    <2> DEFINE r == [Idle EXCEPT !.at = "close_session", !.connection = step[h].connection]
    <2>1. step[h].at = "retry" /\ (Become(h, r) \/ Become(h, Idle))
      BY <1>4 DEF RetryDone
    <2>2. r.at = "close_session" /\ Idle.at = "idle"
      BY DEF Idle
    <2> HIDE DEF r
    <2>3. step'[h].at \in {"idle", "close_session"} /\ OnlyStep(h)
      BY <1>1, <2>1, <2>2, Became DEF OnlyStep
    <2>4. QED
      BY <1>1, <2>1, <2>3
  <1>5. CASE StopAfterFailure(h)
    <2>1. step[h].at = "send_failed" /\ Become(h, Handoff(step[h]))
      BY <1>5 DEF StopAfterFailure
    <2>2. Handoff(step[h]).at = "handoff"
      BY <1>1 DEF Handoff, Steps
    <2>3. QED
      BY <1>1, <2>1, <2>2, Became DEF OnlyStep
  <1>6. CASE RetrySkip(h)
    BY <1>1, <1>6, SkipEffect
  <1>7. QED
    BY <1>1, <1>2, <1>3, <1>4, <1>5, <1>6

LEMMA SendSlots ==
    ASSUME ExecutorAssumption, TypeInv, TypeInv', SlotInv, NEW h \in Hosts, SendStep(h)
    PROVE  SlotInv'
  <1>1. h \in Actors
    BY DEF Actors
  <1>2. CASE \/ \E c \in Connections : CompleteSend(h, c) \/ FailSend(h, c)
             \/ RetrySkip(h) \/ RetryDone(h) \/ StopAfterFailure(h)
    <2>1. /\ OnlyStep(h) /\ UNCHANGED <<slot, next_task>>
          /\ step[h].at \notin Holds /\ step'[h].at \notin Holds
      BY <1>2, SenderEffect DEF Holds, Submits, Runs, Retries
    <2>2. QED
      BY <1>1, <2>1, EmptyHanded
  <1>3. CASE RetryPublish(h)
    <2>1. HandKept(h) /\ OnlyStep(h) /\ UNCHANGED <<slot, next_task>>
      BY <1>3, RetryPublishEffect DEF HandKept, Holds, Retries
    <2>2. QED
      BY <1>1, <2>1, SlotFrame
  <1>4. CASE RetryTake(h)
    <2>1. PICK i \in Slots :
              /\ slot[i].state = "completed" /\ slot[i].connection = step[h].connection
              /\ slot[i].pending # "none" /\ OnlySlot(i)
              /\ slot'[i].state = "completed" /\ slot'[i].pending = "none"
              /\ SameTask(i)
              /\ step[h].at = "retry" /\ OnlyStep(h)
              /\ step'[h].at = "retry_publish" /\ step'[h].connection = step[h].connection
              /\ step'[h].timestamp = slot[i].timestamp /\ step'[h].slot = i
              /\ step'[h].task = slot[i].task
      BY <1>4, RetryTakeEffect DEF SameTask
    <2>2. \A b \in Actors : step[b].at \in Holds => step[b].slot # i
      BY <2>1, InNoHands
    <2>3. InHand(step'[h], slot'[i])
      BY <2>1 DEF InHand, StateHeld, Submits, Runs, Retries, SameTask
    <2>4. step[h].at \notin Holds /\ step'[h].at \in Retries /\ UNCHANGED next_task
      BY <1>4, <2>1 DEF Holds, Submits, Runs, Retries, RetryTake
    <2>5. QED
      BY <1>1, <2>1, <2>2, <2>3, <2>4, KeptSlots
  <1>5. CASE RetrySettle(h)
    <2> DEFINE i == step[h].slot
    <2>1. /\ i \in Slots /\ slot[i].state = "completed"
          /\ step[h].at \in Holds /\ step'[h].at \notin Holds /\ OnlyStep(h)
          /\ \/ /\ OnlySlot(i) /\ SameTask(i) /\ slot'[i].state = "completed"
                /\ slot'[i].pending # "none"
             \/ Release(i, {"completed"})
          /\ UNCHANGED next_task
      BY <1>5, SettleEffect
    <2>2. \A b \in Actors \ {h} : step[b].at \in Holds => step[b].slot # i
      BY <1>1, <2>1, InHands
    <2>3. step[h].slot = i
      OBVIOUS
    <2> HIDE DEF i
    <2>4. CASE Release(i, {"completed"})
      BY <1>1, <2>1, <2>2, <2>3, <2>4, ReleaseSlots
    <2>5. CASE OnlySlot(i) /\ SameTask(i) /\ slot'[i].state = "completed"
                 /\ slot'[i].pending # "none"
      BY <1>1, <2>1, <2>2, <2>3, <2>5, KeptSlots
    <2>6. QED
      BY <2>1, <2>4, <2>5
  <1>6. QED
    BY <1>2, <1>3, <1>4, <1>5 DEF SendStep, Resending

LEMMA ReplaceEffect ==
    ASSUME ExecutorAssumption, TypeInv, LockInv, SlotInv, NEW h \in Hosts, ReplaceCompleted(h)
    PROVE  /\ UNCHANGED <<queue, count, connection, operation_mutex, session, stop_requested,
                          next_task, stopping, registry_close_complete, shutdown_stop_sources>>
           /\ step[h].at = "replace" /\ step'[h].at = "idle" /\ OnlyStep(h)
           /\ \/ UNCHANGED slot
              \/ \E i \in Slots :
                    /\ OnlySlot(i) /\ SameTask(i)
                    /\ slot[i].state = "completed" /\ slot'[i].state = "completed"
                    /\ slot'[i].pending # "none"
                    /\ \A b \in Actors : step[b].at \in Holds => step[b].slot # i
  <1> DEFINE i == step[h].slot
             c == step[h].connection
  <1>1. h \in Actors /\ step[h].at = "replace" /\ StepTyped(step[h]) /\ Become(h, Idle)
    BY StepFields DEF Actors, ReplaceCompleted, At
  <1>2. i \in Slots /\ c \in Connections /\ operation_mutex[c] = Nobody
    BY <1>1 DEF StepTyped, Unconnected, ReplaceCompleted
  <1>3. /\ UNCHANGED <<queue, count, connection, operation_mutex, session, stop_requested,
                       next_task, stopping, registry_close_complete, shutdown_stop_sources>>
        /\ step'[h].at = "idle" /\ OnlyStep(h)
    BY <1>1, IdleAgain DEF ReplaceCompleted, lifetime
  <1>4. \/ UNCHANGED slot
        \/ /\ slot' = [slot EXCEPT ![i].pending = "cancelled"]
           /\ slot[i].state = "completed" /\ slot[i].connection = c
    BY DEF ReplaceCompleted
  <1> HIDE DEF i, c
  <1>5. ASSUME slot[i].state = "completed", slot[i].connection = c
        PROVE  \A b \in Actors : step[b].at \in Holds => step[b].slot # i
    <2> SUFFICES ASSUME NEW b \in Actors, step[b].at \in Holds, step[b].slot = i
                 PROVE  FALSE
      OBVIOUS
    <2>1. InHand(step[b], slot[i]) /\ LockedRight(step[b], b)
      BY SlotParts, LockParts DEF HandsRight
    <2>2. step[b].at \in Retries /\ step[b].connection = c
      BY <1>5, <2>1, HandsApart DEF InHand
    <2>3. operation_mutex[c] = b
      BY <2>1, <2>2 DEF LockedRight, Locked
    <2>4. QED
      BY <1>2, <2>3 DEF ExecutorAssumption
  <1>6. ASSUME slot' = [slot EXCEPT ![i].pending = "cancelled"]
        PROVE  /\ OnlySlot(i) /\ SameTask(i) /\ slot'[i].state = slot[i].state
               /\ slot'[i].pending # "none"
    BY <1>2, <1>6, SlotRepended
  <1>7. QED
    BY <1>1, <1>2, <1>3, <1>4, <1>5, <1>6

LEMMA CancelSlots ==
    ASSUME ExecutorAssumption, TypeInv, TypeInv', LockInv, SlotInv, NEW h \in Hosts,
           CancelStep(h)
    PROVE  SlotInv'
  <1> USE DEF Holds, Submits, Runs, Retries
  <1>1. h \in Actors
    BY DEF Actors
  <1>2. CASE (\E c \in Connections, t \in Timestamps : RequestCancel(h, c, t)) \/ Cancelling(h)
    <2>1. UNCHANGED <<slot, next_task>>
      BY <1>2 DEF RequestCancel, Cancelling, FindStopTarget, RaiseStop, executor
    <2>2. step[h].at \notin Holds /\ step'[h].at \notin Holds /\ OnlyStep(h)
      BY <1>2, RequestEffect, CancelEffect
    <2>3. QED
      BY <1>1, <2>1, <2>2, EmptyHanded
  <1>3. CASE ReplaceCompleted(h)
    <2>1. /\ step[h].at \notin Holds /\ step'[h].at \notin Holds /\ OnlyStep(h)
          /\ UNCHANGED next_task
      BY <1>3, ReplaceEffect
    <2>2. CASE UNCHANGED slot
      BY <1>1, <2>1, <2>2, EmptyHanded
    <2>3. CASE ~UNCHANGED slot
      <3>1. PICK i \in Slots :
                    /\ OnlySlot(i) /\ SameTask(i)
                    /\ slot[i].state = "completed" /\ slot'[i].state = "completed"
                    /\ slot'[i].pending # "none"
                    /\ \A b \in Actors : step[b].at \in Holds => step[b].slot # i
        BY <1>3, <2>3, ReplaceEffect
      <3>2. QED
        BY <1>1, <2>1, <3>1, KeptSlots
    <2>4. QED
      BY <2>2, <2>3
  <1>4. QED
    BY <1>2, <1>3 DEF CancelStep

LEMMA HandoffSlots ==
    ASSUME TypeInv, LockInv, SlotInv, NEW a \in Actors, CancelHandoff(a)
    PROVE  LET c == step[a].connection  i == Lowest(step[a].scan) IN
           \/ UNCHANGED <<slot, count>> /\ ~(i \in Owned(c) /\ slot[i].state = "completed")
           \/ /\ i \in Owned(c) /\ slot[i].state = "completed" /\ Release(i, {"completed"})
              /\ \A b \in Actors : step[b].at \in Holds => step[b].slot # i
  <1> DEFINE c == step[a].connection
             i == Lowest(step[a].scan)
  <1>1. LockedRight(step[a], a) /\ step[a].at = "handoff"
    BY LockParts, HandoffEffect
  <1>2. session[c].closed
    BY <1>1 DEF LockedRight
  <1>3. \/ UNCHANGED <<slot, count>> /\ ~(i \in Owned(c) /\ slot[i].state = "completed")
        \/ i \in Owned(c) /\ slot[i].state = "completed" /\ Release(i, {"completed"})
    BY DEF CancelHandoff
  <1> HIDE DEF i, c
  <1>4. ASSUME i \in Owned(c), slot[i].state = "completed"
        PROVE  \A b \in Actors : step[b].at \in Holds => step[b].slot # i
    <2> SUFFICES ASSUME NEW b \in Actors, step[b].at \in Holds, step[b].slot = i
                 PROVE  FALSE
      OBVIOUS
    <2>1. InHand(step[b], slot[i]) /\ LockedRight(step[b], b) /\ slot[i].connection = c
      BY <1>4, SlotParts, LockParts DEF HandsRight, Owned
    <2>2. step[b].at \in Retries /\ step[b].connection = c
      BY <1>4, <2>1, HandsApart DEF InHand
    <2>3. QED
      BY <1>2, <2>1, <2>2 DEF LockedRight
  <1>5. QED
    BY <1>3, <1>4 DEF i, c

LEMMA CloseSlots ==
    ASSUME ExecutorAssumption, TypeInv, TypeInv', LockInv, SlotInv, NEW a \in Actors, CloseStep(a)
    PROVE  SlotInv'
  <1> USE DEF Holds, Submits, Runs, Retries
  <1>1. CASE ForceClose(a) \/ CloseSession(a)
    <2>1. /\ step[a].at \notin Holds /\ step'[a].at \notin Holds /\ OnlyStep(a)
          /\ UNCHANGED <<slot, next_task>>
      BY <1>1, ForceEffect, CloseSessionEffect
    <2>2. QED
      BY <2>1, EmptyHanded
  <1>2. CASE CancelHandoff(a)
    <2> DEFINE i == Lowest(step[a].scan)
    <2>1. /\ step[a].at = "handoff" /\ OnlyStep(a) /\ i \in Slots /\ UNCHANGED next_task
          /\ step'[a].at \in {"handoff", "idle", "await_idle", "close_registry"}
      BY <1>2, HandoffEffect, StepFields
    <2>2. \/ UNCHANGED slot
          \/ /\ Release(i, {"completed"})
             /\ \A b \in Actors : step[b].at \in Holds => step[b].slot # i
      BY <1>2, HandoffSlots
    <2>3. step[a].at \notin Holds /\ step'[a].at \notin Holds
      BY <2>1
    <2> HIDE DEF i
    <2>4. QED
      BY <2>1, <2>2, <2>3, EmptyHanded, ReleaseSlots
  <1>3. QED
    BY <1>1, <1>2 DEF CloseStep, Closing

LEMMA SlotStep ==
    ASSUME ExecutorAssumption, RetriesFollowSends, TypeInv, TypeInv', LockInv, SlotInv, CountInv,
           [Next]_vars
    PROVE  SlotInv'
  <1>1. ASSUME UNCHANGED <<slot, step, next_task>>
        PROVE  SlotInv'
    BY <1>1 DEF SlotInv, InHand
  <1>2. ASSUME NEW h \in Hosts, DetachStep(h) \/ ShutdownStep(h)
        PROVE  SlotInv'
    <2>1. h \in Actors
      BY DEF Actors
    <2>2. /\ step[h].at \notin Holds /\ step'[h].at \notin Holds /\ OnlyStep(h)
          /\ UNCHANGED <<slot, next_task>>
      BY <1>2, DetachEffect, ShutdownEffect DEF Holds, Submits, Runs, Retries
    <2>3. QED
      BY <2>1, <2>2, EmptyHanded
  <1>3. ASSUME NEW c \in Connections, BeginSend(c)
        PROVE  SlotInv'
    BY <1>1, <1>3 DEF BeginSend, executor
  <1>4. CASE Next
    BY <1>2, <1>3, <1>4, StepsOfNext, SubmitSlots, WorkSlots, SendSlots, CancelSlots, CloseSlots
  <1>5. CASE UNCHANGED vars
    BY <1>1, <1>5 DEF vars, executor
  <1>6. QED
    BY <1>4, <1>5

-----------------------------------------------------------------------------
(* CountInv: the counters and the ring agree with the slots *)

Busy == {"reserved", "queued", "running", "completed"}

CountsRight ==
    /\ \A f \in Busy : count[f] = Cardinality(In(f))
    /\ count.active = Cardinality(Slots \ In("free"))
QueueRight ==
    /\ Len(queue) = count.queued
    /\ {queue[n] : n \in 1..Len(queue)} = In("queued")
    /\ \A m, n \in 1..Len(queue) : queue[m] = queue[n] => m = n
InBounds ==
    /\ count.queued + count.reserved <= max_queued_tasks
    /\ count.completed <= max_pending_responses

LEMMA CountParts ==
    CountInv <=> TypeOK /\ CountsRight /\ QueueRight /\ InBounds
  BY DEF CountInv, SlotAccounting, CountsRight, QueueRight, InBounds, Busy

LEMMA CountFromParts ==
    ASSUME TypeInv', CountsRight', QueueRight', InBounds'
    PROVE  CountInv'
  BY DEF TypeInv, CountInv, SlotAccounting, CountsRight, QueueRight, InBounds, Busy

LEMMA SlotsFinite ==
    ASSUME ExecutorAssumption
    PROVE  /\ IsFiniteSet(Slots)
           /\ \A S \in SUBSET Slots : IsFiniteSet(S) /\ Cardinality(S) \in Nat
  <1>1. IsFiniteSet(Slots)
    BY FS_Interval DEF Slots, ExecutorAssumption
  <1>2. \A S \in SUBSET Slots : IsFiniteSet(S) /\ Cardinality(S) \in Nat
    BY <1>1, FS_Subset, FS_CardinalityType
  <1>3. QED
    BY <1>1, <1>2

LEMMA OneMore ==
    ASSUME ExecutorAssumption, NEW S \in SUBSET Slots, NEW i \in Slots \ S
    PROVE  Cardinality(S \cup {i}) = Cardinality(S) + 1
  BY SlotsFinite, FS_AddElement

LEMMA OneFewer ==
    ASSUME ExecutorAssumption, NEW S \in SUBSET Slots, NEW i \in S
    PROVE  Cardinality(S \ {i}) = Cardinality(S) - 1 /\ Cardinality(S) >= 1
  <1>1. Cardinality(S \ {i}) = Cardinality(S) - 1
    BY SlotsFinite, FS_RemoveElement
  <1>2. Cardinality(S) \in Nat /\ Cardinality(S \ {i}) \in Nat
    <2>1. S \ {i} \in SUBSET Slots
      OBVIOUS
    <2>2. QED
      BY <2>1, SlotsFinite
  <1>3. QED
    BY <1>1, <1>2

\* A slot that changes its state moves from one set of slots to another.
LEMMA StateMoves ==
    ASSUME NEW i \in Slots, OnlySlot(i), NEW x, NEW y, x # y,
           slot[i].state = x, slot'[i].state = y
    PROVE  /\ In(x)' = In(x) \ {i} /\ i \in In(x)
           /\ In(y)' = In(y) \cup {i} /\ i \notin In(y)
           /\ \A z : z # x /\ z # y => In(z)' = In(z)
  BY DEF OnlySlot, In

LEMMA StatesStay ==
    ASSUME \A i \in Slots : slot'[i].state = slot[i].state
    PROVE  \A z : In(z)' = In(z)
  BY DEF In

LEMMA CountFields ==
    ASSUME TypeInv
    PROVE  \A f \in Counters : count[f] \in Int
  BY DEF TypeInv

LEMMA MoveCounts ==
    ASSUME ExecutorAssumption, TypeInv, CountsRight, NEW i \in Slots, OnlySlot(i),
           NEW x \in Busy, NEW y \in Busy, x # y, slot[i].state = x, slot'[i].state = y,
           count' = Moved(x, y)
    PROVE  /\ CountsRight' /\ count'[x] = count[x] - 1 /\ count'[y] = count[y] + 1
           /\ \A f \in Busy \ {x, y} : count'[f] = count[f]
  <1>1. /\ In(x)' = In(x) \ {i} /\ i \in In(x)
        /\ In(y)' = In(y) \cup {i} /\ i \notin In(y)
        /\ \A z : z # x /\ z # y => In(z)' = In(z)
    BY StateMoves
  <1>2. "free" # x /\ "free" # y
    BY DEF Busy
  <1>3. /\ Cardinality(In(x)') = Cardinality(In(x)) - 1
        /\ Cardinality(In(y)') = Cardinality(In(y)) + 1
    BY <1>1, OneMore, OneFewer DEF In
  <1>4. In("free")' = In("free")
    BY <1>1, <1>2
  <1>5. /\ count'[x] = count[x] - 1 /\ count'[y] = count[y] + 1
        /\ \A f \in Counters \ {x, y} : count'[f] = count[f]
    BY DEF Moved, TypeInv, Busy, Counters
  <1>6. count'.active = count.active
    BY <1>5 DEF Busy, Counters
  <1>7. \A f \in Busy \ {x, y} : count'[f] = count[f]
    BY <1>5 DEF Busy, Counters
  <1>8. ASSUME NEW f \in Busy
        PROVE  count'[f] = Cardinality(In(f)')
    <2>1. CASE f = x
      BY <1>3, <1>5, <2>1 DEF CountsRight
    <2>2. CASE f = y
      BY <1>3, <1>5, <2>2 DEF CountsRight
    <2>3. CASE f # x /\ f # y
      BY <1>1, <1>7, <2>3 DEF CountsRight
    <2>4. QED
      BY <2>1, <2>2, <2>3
  <1>9. CountsRight'
    BY <1>4, <1>6, <1>8 DEF CountsRight
  <1>10. QED
    BY <1>5, <1>7, <1>9

LEMMA ReleaseCounts ==
    ASSUME ExecutorAssumption, TypeInv, CountsRight, NEW i \in Slots, NEW x \in Busy,
           slot[i].state = x, Release(i, {x} \ {"reserved"})
    PROVE  /\ CountsRight' /\ count'[x] = count[x] - 1
           /\ \A f \in Busy \ {x} : count'[f] = count[f]
           /\ In(x)' = In(x) \ {i} /\ \A z \in Busy \ {x} : In(z)' = In(z)
  <1>1. slot'[i].state = "free" /\ OnlySlot(i) /\ "free" # x
    BY Released DEF Busy
  <1>2. /\ In(x)' = In(x) \ {i} /\ i \in In(x)
        /\ In("free")' = In("free") \cup {i} /\ i \notin In("free")
        /\ \A z : z # x /\ z # "free" => In(z)' = In(z)
    BY <1>1, StateMoves
  <1>3. Cardinality(In(x)') = Cardinality(In(x)) - 1
    BY <1>2, OneFewer DEF In
  <1>4. /\ Cardinality(Slots \ In("free")') = Cardinality(Slots \ In("free")) - 1
        /\ Cardinality(Slots \ In("free")) >= 1
    <2>1. Slots \ In("free")' = (Slots \ In("free")) \ {i} /\ i \in Slots \ In("free")
      BY <1>2
    <2>2. QED
      BY <2>1, OneFewer
  <1>5. count.active >= 1 /\ count.active # 0
    BY <1>4, CountFields DEF CountsRight, Counters
  <1>6. count' = [f \in DOMAIN count |->
                    count[f] - (IF f \in {x} \ {"reserved"} THEN 1 ELSE 0)
                             - (IF f = "reserved" /\ x = "reserved" THEN 1 ELSE 0)
                             - (IF f = "active" /\ count[f] # 0 THEN 1 ELSE 0)]
    BY DEF Release
  <1>7. DOMAIN count = Counters
    BY DEF TypeInv
  <1>8. count'.active = count.active - 1
    BY <1>5, <1>6, <1>7, CountFields DEF Busy, Counters
  <1>9. \A f \in Busy : f \in Counters /\ f # "active"
    BY DEF Busy, Counters
  <1>10. \A f \in Busy : count'[f] = IF f = x THEN count[f] - 1 ELSE count[f]
    BY <1>6, <1>7, <1>9, CountFields
  <1>11. ASSUME NEW f \in Busy
         PROVE  count'[f] = Cardinality(In(f)')
    <2>1. CASE f = x
      BY <1>3, <1>10, <2>1 DEF CountsRight
    <2>2. CASE f # x
      <3>1. In(f)' = In(f)
        BY <1>2, <2>2 DEF Busy
      <3>2. QED
        BY <1>10, <2>2, <3>1 DEF CountsRight
    <2>3. QED
      BY <2>1, <2>2
  <1>12. CountsRight'
    BY <1>4, <1>8, <1>11 DEF CountsRight
  <1>13. \A z \in Busy \ {x} : In(z)' = In(z)
    BY <1>2 DEF Busy
  <1>14. QED
    BY <1>2, <1>10, <1>12, <1>13

LEMMA ReserveCounts ==
    ASSUME ExecutorAssumption, TypeInv, CountsRight, NEW i \in Slots, OnlySlot(i),
           slot[i].state = "free", slot'[i].state = "reserved",
           count' = [count EXCEPT !.reserved = @ + 1, !.active = @ + 1]
    PROVE  /\ CountsRight' /\ count'.reserved = count.reserved + 1
           /\ \A f \in Busy \ {"reserved"} : count'[f] = count[f]
           /\ \A z \in Busy \ {"reserved"} : In(z)' = In(z)
  <1>1. /\ In("free")' = In("free") \ {i} /\ i \in In("free")
        /\ In("reserved")' = In("reserved") \cup {i} /\ i \notin In("reserved")
        /\ \A z : z # "free" /\ z # "reserved" => In(z)' = In(z)
    BY StateMoves
  <1>2. Cardinality(In("reserved")') = Cardinality(In("reserved")) + 1
    BY <1>1, OneMore DEF In
  <1>3. Cardinality(Slots \ In("free")') = Cardinality(Slots \ In("free")) + 1
    <2>1. Slots \ In("free")' = (Slots \ In("free")) \cup {i} /\ i \notin Slots \ In("free")
      BY <1>1
    <2>2. QED
      BY <2>1, OneMore
  <1>4. /\ count'.reserved = count.reserved + 1 /\ count'.active = count.active + 1
        /\ \A f \in Busy \ {"reserved"} : count'[f] = count[f]
    BY DEF TypeInv, Counters, Busy
  <1>5. \A z \in Busy \ {"reserved"} : In(z)' = In(z)
    BY <1>1 DEF Busy
  <1>6. ASSUME NEW f \in Busy
        PROVE  count'[f] = Cardinality(In(f)')
    <2>1. CASE f = "reserved"
      BY <1>2, <1>4, <2>1 DEF CountsRight, Busy
    <2>2. CASE f # "reserved"
      <3>1. In(f)' = In(f)
        BY <1>5, <2>2
      <3>2. QED
        BY <1>4, <2>2, <3>1 DEF CountsRight
    <2>3. QED
      BY <2>1, <2>2
  <1>7. CountsRight'
    BY <1>3, <1>4, <1>6 DEF CountsRight
  <1>8. QED
    BY <1>4, <1>5, <1>7

\* Nothing is counted anew while no slot changes its state.
LEMMA SameCounts ==
    ASSUME TypeInv', CountInv, \A i \in Slots : slot'[i].state = slot[i].state,
           UNCHANGED <<queue, count>>
    PROVE  CountInv'
  <1>1. \A z : In(z)' = In(z)
    BY StatesStay
  <1>2. CountsRight'
    BY <1>1, CountParts DEF CountsRight
  <1>3. QueueRight' /\ InBounds'
    BY <1>1, CountParts DEF QueueRight, InBounds
  <1>4. QED
    BY <1>2, <1>3, CountFromParts

LEMMA QueueKept ==
    ASSUME QueueRight, UNCHANGED queue, In("queued")' = In("queued"), count'.queued = count.queued
    PROVE  QueueRight'
  BY DEF QueueRight

LEMMA QueueGrows ==
    ASSUME TypeInv, QueueRight, NEW i \in Slots, i \notin In("queued"), queue' = Append(queue, i),
           In("queued")' = In("queued") \cup {i}, count'.queued = count.queued + 1
    PROVE  QueueRight'
  <1>1. queue \in Seq(Slots) /\ Len(queue) \in Nat
    BY DEF TypeInv, TypeOK
  <1>2. /\ Len(queue') = Len(queue) + 1 /\ queue'[Len(queue) + 1] = i
        /\ \A n \in 1..Len(queue) : queue'[n] = queue[n]
    BY <1>1, Appended
  <1>3. 1..Len(queue') = 1..Len(queue) \cup {Len(queue) + 1}
    BY <1>1, <1>2
  <1>4. \A n \in 1..Len(queue) : queue[n] # i
    BY DEF QueueRight
  <1>5. {queue'[n] : n \in 1..Len(queue')} = {queue[n] : n \in 1..Len(queue)} \cup {i}
    BY <1>2, <1>3
  <1>6. \A m, n \in 1..Len(queue') : queue'[m] = queue'[n] => m = n
    BY <1>2, <1>3, <1>4 DEF QueueRight
  <1>7. QED
    BY <1>2, <1>5, <1>6 DEF QueueRight

LEMMA QueueShrinks ==
    ASSUME TypeInv, QueueRight, queue # <<>>, queue' = Tail(queue),
           In("queued")' = In("queued") \ {Head(queue)}, count'.queued = count.queued - 1
    PROVE  QueueRight'
  <1>1. queue \in Seq(Slots)
    BY DEF TypeInv, TypeOK
  <1>2. /\ Len(queue) \in Nat \ {0} /\ Head(queue) = queue[1]
        /\ Len(queue') = Len(queue) - 1
        /\ \A n \in 1..Len(queue') : n + 1 \in 1..Len(queue) /\ queue'[n] = queue[n + 1]
    BY <1>1, HeadAndTail
  <1>3. \A n \in 1..Len(queue) : n = 1 \/ (n - 1 \in 1..Len(queue') /\ queue'[n - 1] = queue[n])
    BY <1>2
  <1>4. \A n \in 1..Len(queue) : queue[n] = Head(queue) <=> n = 1
    BY <1>2 DEF QueueRight
  <1>5. {queue'[n] : n \in 1..Len(queue')} = {queue[n] : n \in 1..Len(queue)} \ {Head(queue)}
    <2>1. ASSUME NEW n \in 1..Len(queue')
          PROVE  queue'[n] \in {queue[k] : k \in 1..Len(queue)} \ {Head(queue)}
      BY <1>2, <1>4
    <2>2. ASSUME NEW n \in 1..Len(queue), queue[n] # Head(queue)
          PROVE  queue[n] \in {queue'[k] : k \in 1..Len(queue')}
      BY <1>3, <1>4, <2>2
    <2>3. QED
      BY <2>1, <2>2
  <1>6. ASSUME NEW m \in 1..Len(queue'), NEW n \in 1..Len(queue'), queue'[m] = queue'[n]
        PROVE  m = n
    <2>1. /\ m + 1 \in 1..Len(queue) /\ n + 1 \in 1..Len(queue) /\ queue[m + 1] = queue[n + 1]
      BY <1>2, <1>6
    <2>2. m + 1 = n + 1
      BY <2>1 DEF QueueRight
    <2>3. QED
      BY <2>2
  <1>7. QED
    <2>1. Len(queue') = count'.queued
      BY <1>2 DEF QueueRight
    <2>2. QED
      BY <1>5, <1>6, <2>1 DEF QueueRight

LEMMA SubmitCounted ==
    ASSUME ExecutorAssumption, TypeInv, TypeInv', SlotInv, CountInv, NEW h \in Hosts, SubmitStep(h)
    PROVE  CountInv'
  <1>1. /\ CountsRight /\ QueueRight /\ InBounds
        /\ "reserved" \in Busy /\ "queued" \in Busy /\ "completed" \in Busy
        /\ count.reserved \in Int /\ count.queued \in Int /\ max_queued_tasks \in Int
    BY CountParts, CountFields DEF Busy, Counters, ExecutorAssumption
  <1>2. ASSUME NEW c \in Connections, NEW t \in Timestamps, SubmitReserve(h, c, t)
        PROVE  CountInv'
    <2>1. PICK i \in Slots :
             OnlySlot(i) /\ slot[i].state = "free" /\ slot'[i].state = "reserved"
      BY <1>2, ReserveEffect
    <2>2. /\ count' = [count EXCEPT !.reserved = @ + 1, !.active = @ + 1]
          /\ count.queued + count.reserved < max_queued_tasks /\ UNCHANGED queue
      BY <1>2 DEF SubmitReserve, Reservable
    <2>3. /\ CountsRight' /\ count'.reserved = count.reserved + 1
          /\ count'.queued = count.queued /\ count'.completed = count.completed
          /\ In("queued")' = In("queued")
      <3>1. /\ CountsRight' /\ count'.reserved = count.reserved + 1
            /\ \A f \in Busy \ {"reserved"} : count'[f] = count[f]
            /\ \A z \in Busy \ {"reserved"} : In(z)' = In(z)
        BY <1>1, <2>1, <2>2, ReserveCounts
      <3>2. QED
        BY <1>1, <3>1
    <2>4. QueueRight'
      BY <1>1, <2>2, <2>3, QueueKept
    <2>5. InBounds'
      BY <1>1, <2>2, <2>3 DEF InBounds
    <2>6. QED
      BY <2>3, <2>4, <2>5, CountFromParts
  <1>3. CASE SubmitAdmit(h)
    BY <1>3, AdmitEffect, SameCounts
  <1>4. CASE SubmitRejected(h) \/ SubmitCommit(h) \/ SubmitRollback(h)
    <2> DEFINE i == step[h].slot
    <2>1. /\ i \in Slots /\ slot[i].state = "reserved"
          /\ \/ SubmitCommit(h) /\ slot' = [slot EXCEPT ![i].state = "queued"]
             \/ Release(i, {}) /\ UNCHANGED queue
      BY <1>4, SubmitEnds
    <2>2. SubmitCommit(h) => count' = Moved("reserved", "queued") /\ queue' = Append(queue, i)
      BY DEF SubmitCommit
    <2> HIDE DEF i
    <2>3. CASE Release(i, {}) /\ UNCHANGED queue
      <3>1. {"reserved"} \ {"reserved"} = {}
        OBVIOUS
      <3>2. /\ CountsRight' /\ count'.reserved = count.reserved - 1
            /\ \A f \in Busy \ {"reserved"} : count'[f] = count[f]
            /\ \A z \in Busy \ {"reserved"} : In(z)' = In(z)
        BY <1>1, <2>1, <2>3, <3>1, ReleaseCounts
      <3>3. count'.queued = count.queued /\ count'.completed = count.completed
        BY <1>1, <3>2
      <3>4. QueueRight'
        BY <1>1, <2>3, <3>2, <3>3, QueueKept
      <3>5. InBounds'
        BY <1>1, <3>2, <3>3 DEF InBounds
      <3>6. QED
        BY <3>2, <3>4, <3>5, CountFromParts
    <2>4. CASE SubmitCommit(h) /\ slot' = [slot EXCEPT ![i].state = "queued"]
      <3>1. OnlySlot(i) /\ slot'[i].state = "queued"
        BY <2>1, <2>4, SlotRestated
      <3>2. /\ CountsRight' /\ count'.reserved = count.reserved - 1
            /\ count'.queued = count.queued + 1
            /\ \A f \in Busy \ {"reserved", "queued"} : count'[f] = count[f]
        BY <1>1, <2>1, <2>2, <2>4, <3>1, MoveCounts
      <3>3. count'.completed = count.completed
        BY <1>1, <3>2
      <3>4. QueueRight'
        <4>1. i \notin In("queued") /\ In("queued")' = In("queued") \cup {i}
          BY <2>1, <3>1, StateMoves
        <4>2. QED
          BY <1>1, <2>1, <2>2, <2>4, <3>2, <4>1, QueueGrows
      <3>5. InBounds'
        BY <1>1, <3>2, <3>3 DEF InBounds
      <3>6. QED
        BY <3>2, <3>4, <3>5, CountFromParts
    <2>5. QED
      BY <2>1, <2>3, <2>4
  <1>5. QED
    BY <1>2, <1>3, <1>4 DEF SubmitStep, Submitting

LEMMA WorkCounted ==
    ASSUME ExecutorAssumption, TypeInv, TypeInv', SlotInv, CountInv, NEW w \in Workers, WorkStep(w)
    PROVE  CountInv'
  <1>1. /\ CountsRight /\ QueueRight /\ InBounds
        /\ "reserved" \in Busy /\ "queued" \in Busy /\ "completed" \in Busy /\ "running" \in Busy
        /\ count.reserved \in Int /\ count.queued \in Int /\ max_queued_tasks \in Int
        /\ count.completed \in Int /\ max_pending_responses \in Int
    BY CountParts, CountFields DEF Busy, Counters, ExecutorAssumption
  <1>2. CASE UNCHANGED <<slot, queue, count>>
    BY <1>2, SameCounts
  <1>3. CASE Take(w)
    <2> DEFINE i == Head(queue)
    <2>1. /\ i \in Slots /\ slot[i].state = "queued" /\ OnlySlot(i)
          /\ slot'[i].state = "running"
      BY <1>3, TakeEffect
    <2>2. count' = Moved("queued", "running") /\ queue' = Tail(queue) /\ queue # <<>>
      BY <1>3 DEF Take
    <2>3. In("queued")' = In("queued") \ {i}
      <3> HIDE DEF i
      <3>1. QED
        BY <2>1, StateMoves
    <2>4. /\ CountsRight' /\ count'.queued = count.queued - 1
          /\ \A f \in Busy \ {"queued", "running"} : count'[f] = count[f]
      <3> HIDE DEF i
      <3>1. QED
        BY <1>1, <2>1, <2>2, MoveCounts
    <2>5. count'.reserved = count.reserved /\ count'.completed = count.completed
      BY <1>1, <2>4
    <2>6. QueueRight'
      BY <1>1, <2>2, <2>3, <2>4, QueueShrinks
    <2>7. InBounds'
      BY <1>1, <2>4, <2>5 DEF InBounds
    <2>8. QED
      BY <2>4, <2>6, <2>7, CountFromParts
  <1>4. CASE DropQueued(w)
    <2> DEFINE i == Head(queue)
    <2>1. /\ i \in Slots /\ slot[i].state = "queued" /\ Release(i, {"queued"})
          /\ queue' = Tail(queue) /\ queue # <<>>
      BY <1>4, DropEffect
    <2>2. {"queued"} \ {"reserved"} = {"queued"}
      OBVIOUS
    <2>3. /\ CountsRight' /\ count'.queued = count.queued - 1
          /\ \A f \in Busy \ {"queued"} : count'[f] = count[f]
          /\ In("queued")' = In("queued") \ {i}
      <3> HIDE DEF i
      <3>1. "queued" \in Busy /\ CountsRight /\ i \in Slots /\ slot[i].state = "queued"
            /\ Release(i, {"queued"} \ {"reserved"})
        BY <1>1, <2>1, <2>2
      <3>2. QED
        BY <3>1, ReleaseCounts
    <2>4. count'.reserved = count.reserved /\ count'.completed = count.completed
      BY <1>1, <2>3
    <2>5. QueueRight'
      BY <1>1, <2>1, <2>3, QueueShrinks
    <2>6. InBounds'
      BY <1>1, <2>3, <2>4 DEF InBounds
    <2>7. QED
      BY <2>3, <2>5, <2>6, CountFromParts
  <1>5. CASE FinishRetain(w)
    <2> DEFINE i == step[w].slot
    <2>1. /\ i \in Slots /\ slot[i].state = "running" /\ OnlySlot(i)
          /\ slot'[i].state = "completed" /\ count' = Moved("running", "completed")
          /\ count.completed < max_pending_responses /\ UNCHANGED queue
      BY <1>5, RetainEffect
    <2> HIDE DEF i
    <2>2. /\ CountsRight' /\ count'.completed = count.completed + 1
          /\ \A f \in Busy \ {"running", "completed"} : count'[f] = count[f]
          /\ In("queued")' = In("queued")
      <3>1. \A z : z # "running" /\ z # "completed" => In(z)' = In(z)
        BY <2>1, StateMoves
      <3>2. QED
        BY <1>1, <2>1, <3>1, MoveCounts
    <2>3. count'.reserved = count.reserved /\ count'.queued = count.queued
      BY <1>1, <2>2
    <2>4. QueueRight'
      BY <1>1, <2>1, <2>2, <2>3, QueueKept
    <2>5. InBounds'
      BY <1>1, <2>1, <2>2, <2>3 DEF InBounds
    <2>6. QED
      BY <2>2, <2>4, <2>5, CountFromParts
  <1>6. CASE FinishRelease(w)
    <2> DEFINE i == step[w].slot
    <2>1. /\ i \in Slots /\ slot[i].state = "running" /\ Release(i, {"running"})
          /\ UNCHANGED queue
      BY <1>6, FinishEffect
    <2>2. {"running"} \ {"reserved"} = {"running"}
      OBVIOUS
    <2> HIDE DEF i
    <2>3. /\ CountsRight' /\ \A f \in Busy \ {"running"} : count'[f] = count[f]
          /\ \A z \in Busy \ {"running"} : In(z)' = In(z)
      BY <1>1, <2>1, <2>2, ReleaseCounts
    <2>4. /\ count'.reserved = count.reserved /\ count'.queued = count.queued
          /\ count'.completed = count.completed /\ In("queued")' = In("queued")
      BY <1>1, <2>3
    <2>5. QueueRight'
      BY <1>1, <2>1, <2>4, QueueKept
    <2>6. InBounds'
      BY <1>1, <2>4 DEF InBounds
    <2>7. QED
      BY <2>3, <2>5, <2>6, CountFromParts
  <1>7. QED
    BY <1>2, <1>3, <1>4, <1>5, <1>6
    DEF WorkStep, Working, Progress, ClaimTerminal, Exit, StartStopped, StartHandler,
        HandlerReturns, Settle, PublishTerminal, executor

\* A retained response that is settled or handed back leaves no more of them counted.
LEMMA CompletedReleased ==
    ASSUME ExecutorAssumption, TypeInv, TypeInv', CountInv, NEW i \in Slots,
           slot[i].state = "completed", Release(i, {"completed"}), UNCHANGED queue
    PROVE  CountInv'
  <1>1. /\ CountsRight /\ QueueRight /\ InBounds
        /\ "reserved" \in Busy /\ "queued" \in Busy /\ "completed" \in Busy
        /\ count.completed \in Int /\ max_pending_responses \in Int
    BY CountParts, CountFields DEF Busy, Counters, ExecutorAssumption
  <1>2. {"completed"} \ {"reserved"} = {"completed"}
    OBVIOUS
  <1>3. /\ CountsRight' /\ count'.completed = count.completed - 1
        /\ \A f \in Busy \ {"completed"} : count'[f] = count[f]
        /\ \A z \in Busy \ {"completed"} : In(z)' = In(z)
    BY <1>1, <1>2, ReleaseCounts
  <1>4. /\ count'.reserved = count.reserved /\ count'.queued = count.queued
        /\ In("queued")' = In("queued")
    BY <1>1, <1>3
  <1>5. QueueRight'
    BY <1>1, <1>4, QueueKept
  <1>6. InBounds'
    BY <1>1, <1>3, <1>4 DEF InBounds
  <1>7. QED
    BY <1>3, <1>5, <1>6, CountFromParts

LEMMA SendCounted ==
    ASSUME ExecutorAssumption, TypeInv, TypeInv', SlotInv, CountInv, NEW h \in Hosts, SendStep(h)
    PROVE  CountInv'
  <1>1. CASE \/ \E c \in Connections : CompleteSend(h, c) \/ FailSend(h, c)
             \/ RetrySkip(h) \/ RetryDone(h) \/ StopAfterFailure(h)
    BY <1>1, SenderEffect, SameCounts
  <1>2. CASE RetryPublish(h)
    BY <1>2, RetryPublishEffect, SameCounts
  <1>3. CASE RetryTake(h)
    <2>1. PICK i \in Slots : /\ slot[i].state = "completed" /\ OnlySlot(i)
                             /\ slot'[i].state = "completed"
      BY <1>3, RetryTakeEffect
    <2>2. \A j \in Slots : slot'[j].state = slot[j].state
      BY <2>1 DEF OnlySlot
    <2>3. UNCHANGED <<queue, count>>
      BY <1>3 DEF RetryTake
    <2>4. QED
      BY <2>2, <2>3, SameCounts
  <1>4. CASE RetrySettle(h)
    <2> DEFINE i == step[h].slot
    <2>1. /\ i \in Slots /\ slot[i].state = "completed" /\ UNCHANGED queue
          /\ \/ OnlySlot(i) /\ UNCHANGED count /\ slot'[i].state = "completed"
             \/ Release(i, {"completed"})
      BY <1>4, SettleEffect
    <2> HIDE DEF i
    <2>2. CASE OnlySlot(i) /\ UNCHANGED count /\ slot'[i].state = "completed"
      <3>1. \A j \in Slots : slot'[j].state = slot[j].state
        BY <2>1, <2>2 DEF OnlySlot
      <3>2. QED
        BY <2>1, <2>2, <3>1, SameCounts
    <2>3. CASE Release(i, {"completed"})
      BY <2>1, <2>3, CompletedReleased
    <2>4. QED
      BY <2>1, <2>2, <2>3
  <1>5. QED
    BY <1>1, <1>2, <1>3, <1>4 DEF SendStep, Resending

LEMMA CountStep ==
    ASSUME ExecutorAssumption, RetriesFollowSends, TypeInv, TypeInv', LockInv, SlotInv, CountInv,
           [Next]_vars
    PROVE  CountInv'
  <1>1. ASSUME UNCHANGED <<slot, queue, count>>
        PROVE  CountInv'
    BY <1>1, SameCounts
  <1>2. ASSUME NEW h \in Hosts, CancelStep(h)
        PROVE  CountInv'
    <2>1. CASE ReplaceCompleted(h)
      <3>1. UNCHANGED <<queue, count>> /\ \A j \in Slots : slot'[j].state = slot[j].state
        BY <2>1, ReplaceEffect DEF OnlySlot
      <3>2. QED
        BY <3>1, SameCounts
    <2>2. CASE ~ReplaceCompleted(h)
      BY <1>1, <1>2, <2>2
      DEF CancelStep, Cancelling, RequestCancel, FindStopTarget, RaiseStop, executor
    <2>3. QED
      BY <2>1, <2>2
  <1>3. ASSUME NEW h \in Hosts, DetachStep(h) \/ ShutdownStep(h)
        PROVE  CountInv'
    BY <1>1, <1>3, DetachEffect, ShutdownEffect
  <1>4. ASSUME NEW a \in Actors, CloseStep(a)
        PROVE  CountInv'
    <2>1. CASE ForceClose(a) \/ CloseSession(a)
      BY <1>1, <2>1, ForceEffect, CloseSessionEffect
    <2>2. CASE CancelHandoff(a)
      <3> DEFINE i == Lowest(step[a].scan)
      <3>1. i \in Slots /\ UNCHANGED queue
        BY <2>2, HandoffEffect
      <3>2. \/ UNCHANGED <<slot, count>>
            \/ slot[i].state = "completed" /\ Release(i, {"completed"})
        BY <2>2, HandoffSlots
      <3> HIDE DEF i
      <3>3. QED
        BY <1>1, <3>1, <3>2, CompletedReleased
    <2>3. QED
      BY <1>4, <2>1, <2>2 DEF CloseStep, Closing
  <1>5. ASSUME NEW c \in Connections, BeginSend(c)
        PROVE  CountInv'
    BY <1>1, <1>5 DEF BeginSend, executor
  <1>6. CASE Next
    BY <1>2, <1>3, <1>4, <1>5, <1>6, StepsOfNext, SubmitCounted, WorkCounted, SendCounted
  <1>7. CASE UNCHANGED vars
    BY <1>1, <1>7 DEF vars, executor
  <1>8. QED
    BY <1>6, <1>7

-----------------------------------------------------------------------------
(* SessionInv: admitted commands are answered or owned, and cancels win *)

SoundFor(s, n) ==
    /\ \A t \in Timestamps : s.entries[t].task < n
    /\ \A b \in Carried(s) :
          /\ b.task < n
          /\ s.entries[b.timestamp].task = b.task =>
                /\ Terminal(b.status) => s.entries[b.timestamp].terminal_queued
                /\ s.entries[b.timestamp].cancel_requested => b.status \in {"progress", "cancelled"}

LEMMA SoundIs == \A s : SessionSound(s) <=> SoundFor(s, next_task)
  BY DEF SessionSound, SoundFor

\* How a step may change a session: it ends entries, or does what it wants with the
\* entries and batches of the task m, whose timestamp is u.
SessionMove(s, q, m, u) ==
    /\ \A t \in Timestamps :
          \/ q.entries[t].task \in {NoTask, m}
          \/ /\ q.entries[t].task = s.entries[t].task
             /\ q.entries[t].terminal_queued = s.entries[t].terminal_queued
    /\ \A x \in Carried(q) : x \in Carried(s) \/ x.task = m
    /\ ~q.closed => ~s.closed /\ \A t \in Timestamps :
          q.entries[t].task # NoTask /\ ~q.entries[t].terminal_queued =>
             \/ s.entries[t].task = q.entries[t].task /\ ~s.entries[t].terminal_queued
             \/ q.entries[t].task = m /\ t = u

\* What a step outside the operation mutex leaves alone besides.
SessionLeaves(s, q, m) ==
    \A t \in Timestamps : s.entries[t].task # m =>
       /\ q.entries[t].task = s.entries[t].task
       /\ q.entries[t].terminal_queued = s.entries[t].terminal_queued

LEMMA EntryFields ==
    ASSUME NEW s \in Sessions
    PROVE  /\ \A t \in Timestamps : /\ s.entries[t].task \in Tasks \cup {NoTask}
                                    /\ s.entries[t].task \in Nat
                                    /\ s.entries[t].terminal_queued \in BOOLEAN
                                    /\ s.entries[t].cancel_requested \in BOOLEAN
           /\ \A b \in Carried(s) : /\ b.task \in Tasks /\ b.timestamp \in Timestamps
                                    /\ b.task # NoTask
                                    /\ b.status \in {"progress"} \cup Pendings
  <1>1. \A e \in Entries : /\ e.task \in Tasks \cup {NoTask} /\ e.task \in Nat
                           /\ e.terminal_queued \in BOOLEAN /\ e.cancel_requested \in BOOLEAN
    BY DEF Entries, Tasks, NoTask
  <1>2. \A b \in Batches : /\ b.task \in Tasks /\ b.timestamp \in Timestamps /\ b.task # NoTask
                           /\ b.status \in {"progress"} \cup Pendings
    BY DEF Batches, Tasks, NoTask
  <1>3. QED
    BY <1>1, <1>2, SessionFields

LEMMA SoundLater ==
    ASSUME NEW s \in Sessions, NEW n \in Int, NEW m \in Int, n <= m, SoundFor(s, n)
    PROVE  SoundFor(s, m)
  <1>1. \A t \in Timestamps : s.entries[t].task \in Int /\ s.entries[t].task < n
    BY EntryFields DEF SoundFor
  <1>2. \A b \in Carried(s) : b.task \in Int /\ b.task < n
    BY EntryFields DEF SoundFor, Tasks
  <1>3. QED
    BY <1>1, <1>2 DEF SoundFor

LEMMA MoveAdmit ==
    ASSUME NEW s \in Sessions, NEW t \in Timestamps, NEW task \in Tasks, NEW n \in Nat,
           SoundFor(s, n), task < n, \A b \in Carried(s) : b.task # task
    PROVE  LET q == admit(s, t, task) IN
           SoundFor(q, n) /\ SessionMove(s, q, task, t)
  <1> DEFINE q == admit(s, t, task)
  <1>1. /\ q \in Sessions /\ q.closed = s.closed /\ Carried(q) = Carried(s)
        /\ q.entries[t].task = task
        /\ \A u \in Timestamps \ {t} : q.entries[u] = s.entries[u]
    BY AdmitSession
  <1> HIDE DEF q
  <1>2. SoundFor(q, n)
    BY <1>1, EntryFields DEF SoundFor
  <1>3. SessionMove(s, q, task, t)
    BY <1>1 DEF SessionMove
  <1>4. QED
    BY <1>2, <1>3 DEF q

LEMMA MoveRollback ==
    ASSUME NEW s \in Sessions, NEW t \in Timestamps, NEW n \in Nat \ {0}, SoundFor(s, n)
    PROVE  LET q == rollback(s, t) IN
           SoundFor(q, n) /\ SessionMove(s, q, NoTask, t)
  <1> DEFINE q == rollback(s, t)
  <1>1. /\ q \in Sessions /\ q.closed = s.closed /\ Carried(q) = Carried(s)
        /\ q.entries[t] = NoEntry
        /\ \A u \in Timestamps \ {t} : q.entries[u] = s.entries[u]
    BY RollbackSession
  <1>2. NoEntry.task = NoTask /\ NoTask < n
    BY DEF NoEntry, NoTask
  <1> HIDE DEF q
  <1>3. SoundFor(q, n)
    BY <1>1, <1>2, EntryFields DEF SoundFor
  <1>4. SessionMove(s, q, NoTask, t)
    BY <1>1, <1>2 DEF SessionMove
  <1>5. QED
    BY <1>3, <1>4 DEF q

LEMMA MoveCancel ==
    ASSUME NEW s \in Sessions, NEW t \in Timestamps, NEW n, SoundFor(s, n),
           Cancellable(s, t)
    PROVE  LET q == request_cancel(s, t) IN
           SoundFor(q, n) /\ SessionMove(s, q, NoTask, t)
  <1> DEFINE q == request_cancel(s, t)
  <1>1. /\ q \in Sessions /\ q.closed = s.closed /\ Carried(q) = Carried(s)
        /\ q.entries[t].task = s.entries[t].task
        /\ q.entries[t].terminal_queued = s.entries[t].terminal_queued
        /\ \A u \in Timestamps \ {t} : q.entries[u] = s.entries[u]
    BY CancelSession
  <1>2. ~s.entries[t].terminal_queued
    BY DEF Cancellable
  <1> HIDE DEF q
  <1>3. SoundFor(q, n)
    BY <1>1, <1>2, EntryFields DEF SoundFor, Terminal
  <1>4. SessionMove(s, q, NoTask, t)
    BY <1>1 DEF SessionMove
  <1>5. QED
    BY <1>3, <1>4 DEF q

LEMMA MoveClaim ==
    ASSUME NEW s \in Sessions, NEW t \in Timestamps, NEW n, SoundFor(s, n)
    PROVE  LET q == claim_irrevocable_terminal(s, t) IN
           SoundFor(q, n) /\ SessionMove(s, q, NoTask, t) /\ SessionLeaves(s, q, NoTask)
  <1> DEFINE q == claim_irrevocable_terminal(s, t)
  <1>1. /\ q \in Sessions /\ q.closed = s.closed /\ Carried(q) = Carried(s)
        /\ q.entries[t].task = s.entries[t].task
        /\ q.entries[t].terminal_queued = s.entries[t].terminal_queued
        /\ q.entries[t].cancel_requested = s.entries[t].cancel_requested
        /\ \A u \in Timestamps \ {t} : q.entries[u] = s.entries[u]
    BY ClaimSession
  <1> HIDE DEF q
  <1>2. SoundFor(q, n)
    BY <1>1, EntryFields DEF SoundFor
  <1>3. SessionMove(s, q, NoTask, t)
    BY <1>1 DEF SessionMove
  <1>4. SessionLeaves(s, q, NoTask)
    BY <1>1 DEF SessionLeaves
  <1>5. QED
    BY <1>2, <1>3, <1>4 DEF q

LEMMA MovePublish ==
    ASSUME NEW s \in Sessions, NEW t \in Timestamps, NEW task \in Tasks, NEW n,
           NEW status \in {"progress"} \cup Pendings, SoundFor(s, n),
           PublishError(s, t, task, status) = "none"
    PROVE  LET q == publish(s, t, task, status) IN
           /\ SoundFor(q, n) /\ SessionMove(s, q, task, t) /\ SessionLeaves(s, q, task)
           /\ q.entries[t].task = task
           /\ status # "progress" => q.entries[t].terminal_queued
  <1> DEFINE q == publish(s, t, task, status)
             b == Batch(t, task, status)
  <1>1. /\ q \in Sessions /\ q.closed = s.closed
        /\ Carried(q) = Carried(s) \cup {b}
        /\ q.entries[t].task = s.entries[t].task
        /\ q.entries[t].cancel_requested = s.entries[t].cancel_requested
        /\ q.entries[t].terminal_queued = Terminal(status)
        /\ \A u \in Timestamps \ {t} : q.entries[u] = s.entries[u]
    BY PublishSession
  <1>2. b.timestamp = t /\ b.task = task /\ b.status = status
    BY DEF Batch
  <1>3. /\ ~s.closed /\ s.entries[t].task = task /\ ~s.entries[t].terminal_queued
        /\ s.entries[t].cancel_requested => status = "cancelled"
    BY DEF PublishError, Receivable
  <1> HIDE DEF q, b
  <1>4. SoundFor(q, n)
    <2>1. \A u \in Timestamps : q.entries[u].task = s.entries[u].task
                                /\ q.entries[u].cancel_requested = s.entries[u].cancel_requested
      BY <1>1
    <2>2. \A u \in Timestamps : q.entries[u].task < n
      BY <2>1 DEF SoundFor
    <2>3. ASSUME NEW x \in Carried(s)
          PROVE  /\ x.task < n
                 /\ q.entries[x.timestamp].task = x.task =>
                       /\ Terminal(x.status) => q.entries[x.timestamp].terminal_queued
                       /\ q.entries[x.timestamp].cancel_requested =>
                             x.status \in {"progress", "cancelled"}
      <3>1. x.timestamp \in Timestamps /\ x.task < n
        BY EntryFields DEF SoundFor
      <3>2. CASE x.timestamp = t
        BY <1>1, <1>3, <2>1, <3>1, <3>2 DEF SoundFor, Terminal
      <3>3. CASE x.timestamp # t
        BY <1>1, <3>1, <3>3 DEF SoundFor
      <3>4. QED
        BY <3>2, <3>3
    <2>4. /\ b.task < n
          /\ Terminal(b.status) => q.entries[b.timestamp].terminal_queued
          /\ q.entries[b.timestamp].cancel_requested => b.status \in {"progress", "cancelled"}
      BY <1>1, <1>2, <1>3 DEF SoundFor
    <2>5. QED
      BY <1>1, <2>2, <2>3, <2>4 DEF SoundFor
  <1>5. SessionMove(s, q, task, t)
    BY <1>1, <1>2, <1>3 DEF SessionMove
  <1>6. SessionLeaves(s, q, task)
    BY <1>1, <1>3 DEF SessionLeaves
  <1>7. QED
    BY <1>1, <1>3, <1>4, <1>5, <1>6 DEF q, Terminal

LEMMA MoveLease ==
    ASSUME NEW s \in Sessions, NEW n, NEW u, SoundFor(s, n)
    PROVE  LET q == begin_send(s) IN
           SoundFor(q, n) /\ SessionMove(s, q, NoTask, u) /\ SessionLeaves(s, q, NoTask)
  <1> DEFINE q == begin_send(s)
  <1>1. q.closed = s.closed /\ Carried(q) = Carried(s) /\ q.entries = s.entries
    BY LeaseSession
  <1> HIDE DEF q
  <1>2. QED
    BY <1>1 DEF SoundFor, SessionMove, SessionLeaves, q

LEMMA MoveSent ==
    ASSUME NEW s \in Sessions, NEW n \in Nat \ {0}, NEW u, SoundFor(s, n), s.outbound # <<>>
    PROVE  LET q == complete_send(s) IN SoundFor(q, n) /\ SessionMove(s, q, NoTask, u)
  <1> DEFINE q == complete_send(s)
  <1>1. /\ q.closed = s.closed /\ Carried(q) \subseteq Carried(s)
        /\ \A t \in Timestamps : q.entries[t] \in {s.entries[t], NoEntry}
    BY SentSession
  <1>2. NoEntry.task = NoTask /\ NoTask < n
    BY DEF NoEntry, NoTask
  <1> HIDE DEF q
  <1>3. SoundFor(q, n)
    <2>1. \A t \in Timestamps : q.entries[t].task < n
      BY <1>1, <1>2 DEF SoundFor
    <2>2. ASSUME NEW x \in Carried(q)
          PROVE  /\ x.task < n
                 /\ q.entries[x.timestamp].task = x.task =>
                       /\ Terminal(x.status) => q.entries[x.timestamp].terminal_queued
                       /\ q.entries[x.timestamp].cancel_requested =>
                             x.status \in {"progress", "cancelled"}
      <3>1. /\ x \in Carried(s) /\ x.timestamp \in Timestamps /\ x.task # NoTask
        BY <1>1, EntryFields
      <3>2. q.entries[x.timestamp].task = x.task => q.entries[x.timestamp] = s.entries[x.timestamp]
        BY <1>1, <1>2, <3>1
      <3>3. QED
        BY <3>1, <3>2 DEF SoundFor
    <2>3. QED
      BY <2>1, <2>2 DEF SoundFor
  <1>4. SessionMove(s, q, NoTask, u)
    BY <1>1, <1>2 DEF SessionMove
  <1>5. QED
    BY <1>3, <1>4 DEF q

LEMMA MoveClosed ==
    ASSUME NEW s, NEW n \in Nat \ {0}, NEW u
    PROVE  LET q == close_locked(s) IN SoundFor(q, n) /\ SessionMove(s, q, NoTask, u)
  <1> DEFINE q == close_locked(s)
  <1>1. /\ q.closed /\ Carried(q) = {} /\ q.entries = [t \in Timestamps |-> NoEntry]
    BY ClosedSession
  <1>2. NoEntry.task = NoTask /\ NoTask < n
    BY DEF NoEntry, NoTask
  <1> HIDE DEF q
  <1>3. QED
    BY <1>1, <1>2 DEF SoundFor, SessionMove, q

\* What a step of an actor does to the session of a connection.
Moves(a, c, m, u) ==
    /\ session'[c] \in Sessions
    /\ SoundFor(session'[c], next_task) /\ SessionMove(session[c], session'[c], m, u)
    /\ operation_mutex[c] \in {a, Nobody} \/ SessionLeaves(session[c], session'[c], m)
    /\ \/ m = NoTask
       \/ /\ step[a].at \in Holds /\ m = step[a].task /\ u = step[a].timestamp
          /\ c = step[a].connection
SessionsFor(a) == \A c \in Connections :
    session'[c] = session[c] \/ (\E m, u : Moves(a, c, m, u))

KeptTask(i) == slot'[i].state # "free" /\ SameTask(i)
Unneeded(i) ==
    \/ stopping' \/ session'[slot[i].connection].closed
    \/ \E c \in Connections : slot[i].connection = c /\ ~Open(c)'
    \/ session'[slot[i].connection].entries[slot[i].timestamp].task # slot[i].task
    \/ session'[slot[i].connection].entries[slot[i].timestamp].terminal_queued
SlotsServe == \A i \in Slots : slot[i].state # "free" => KeptTask(i) \/ Unneeded(i)
OpensKept ==
    /\ stopping => stopping'
    /\ \A c \in Connections : Open(c)' => Open(c)

LEMMA SoundSessions ==
    ASSUME TypeInv, TypeInv', NEW a \in Actors, SessionsFor(a), next_task <= next_task',
           \A c \in Connections : SessionSound(session[c])
    PROVE  \A c \in Connections : SessionSound(session[c])'
  <1> SUFFICES ASSUME NEW c \in Connections
               PROVE  SessionSound(session[c])'
    OBVIOUS
  <1>1. next_task \in Int /\ next_task' \in Int /\ session[c] \in Sessions /\ session'[c] \in Sessions
    BY DEF TypeInv, TypeOK
  <1>2. SoundFor(session'[c], next_task)
    BY SoundIs DEF SessionsFor, Moves
  <1>3. SoundFor(session'[c], next_task')
    BY <1>1, <1>2, SoundLater
  <1>4. QED
    BY <1>3 DEF SessionSound, SoundFor

LEMMA OthersAnswered ==
    ASSUME ExecutorAssumption, TypeInv, LockInv, SlotInv, SessionInv, NEW a \in Actors,
           OnlyStep(a), SessionsFor(a), NEW b \in Actors, b # a
    PROVE  StepAnswered(step[b])'
  <1>1. step'[b] = step[b] /\ StepAnswered(step[b]) /\ LockedRight(step[b], b)
    BY LockParts DEF OnlyStep, SessionInv
  <1>2. ASSUME step[b].at \in Holds, NEW c \in Connections, NEW m, NEW u, Moves(a, c, m, u)
        PROVE  step[b].task # m /\ step[b].task # NoTask
    <2>1. step[b].slot # step[a].slot \/ step[a].at \notin Holds
      BY <1>2, SlotParts DEF OneHolder
    <2>2. /\ step[b].slot \in Slots /\ slot[step[b].slot].state # "free"
          /\ slot[step[b].slot].task = step[b].task /\ step[b].task \in Tasks
      BY <1>2, InHands, HandsApart
    <2>3. step[a].at \in Holds =>
             /\ step[a].slot \in Slots /\ slot[step[a].slot].state # "free"
             /\ slot[step[a].slot].task = step[a].task
      BY InHands, HandsApart
    <2>4. step[a].at \in Holds => step[a].task # step[b].task
      BY <2>1, <2>2, <2>3, SlotParts DEF TasksDiffer
    <2>5. QED
      BY <1>2, <2>2, <2>4 DEF Moves, Tasks, NoTask
  <1>3. CASE step[b].at = "admit"
    <2>1. step[b].at \in Holds
      BY <1>3 DEF Holds, Submits
    <2>2. ASSUME NEW c \in Connections
          PROVE  /\ \A t \in Timestamps : session'[c].entries[t].task # step[b].task
                 /\ \A x \in Carried(session'[c]) : x.task # step[b].task
      <3>1. /\ \A t \in Timestamps : session[c].entries[t].task # step[b].task
            /\ \A x \in Carried(session[c]) : x.task # step[b].task
        BY <1>1, <1>3 DEF StepAnswered
      <3>2. CASE session'[c] = session[c]
        BY <3>1, <3>2
      <3>3. ASSUME NEW m, NEW u, Moves(a, c, m, u)
            PROVE  /\ \A t \in Timestamps : session'[c].entries[t].task # step[b].task
                   /\ \A x \in Carried(session'[c]) : x.task # step[b].task
        <4>1. step[b].task # m /\ step[b].task # NoTask
          BY <1>2, <2>1, <3>3
        <4>2. SessionMove(session[c], session'[c], m, u)
          BY <3>3 DEF Moves
        <4>3. \A t \in Timestamps : session'[c].entries[t].task # step[b].task
          BY <3>1, <4>1, <4>2 DEF SessionMove
        <4>4. \A x \in Carried(session'[c]) : x.task # step[b].task
          BY <3>1, <4>1, <4>2 DEF SessionMove
        <4>5. QED
          BY <4>3, <4>4
      <3>4. QED
        BY <3>2, <3>3 DEF SessionsFor
    <2>3. QED
      BY <1>1, <1>3, <2>2 DEF StepAnswered, Carried
  <1>4. CASE step[b].at = "commit"
    <2> DEFINE c == step[b].connection
               t == step[b].timestamp
    <2>1. step[b].at \in Holds /\ step[b].at \in Locked
      BY <1>4 DEF Holds, Locked, Submits
    <2>2. /\ c \in Connections /\ t \in Timestamps /\ operation_mutex[c] = b
          /\ b # Nobody
      BY <1>1, <2>1, InHands DEF LockedRight, ExecutorAssumption
    <2>3. session[c].entries[t].task = step[b].task /\ ~session[c].entries[t].terminal_queued
      BY <1>1, <1>4 DEF StepAnswered
    <2>4. session'[c].entries[t].task = step[b].task /\ ~session'[c].entries[t].terminal_queued
      <3> HIDE DEF c, t
      <3>1. CASE session'[c] = session[c]
        BY <2>3, <3>1
      <3>2. ASSUME NEW m, NEW u, Moves(a, c, m, u)
            PROVE  session'[c].entries[t].task = step[b].task
                   /\ ~session'[c].entries[t].terminal_queued
        <4>1. step[b].task # m
          BY <1>2, <2>1, <2>2, <3>2
        <4>2. SessionLeaves(session[c], session'[c], m)
          BY <2>2, <3>2 DEF Moves
        <4>3. QED
          BY <2>2, <2>3, <4>1, <4>2 DEF SessionLeaves
      <3>3. QED
        BY <2>2, <3>1, <3>2 DEF SessionsFor
    <2>5. QED
      BY <1>1, <1>4, <2>4 DEF StepAnswered
  <1>5. CASE step[b].at \in {"finish", "retry_settle"}
    <2> DEFINE c == step[b].connection
               t == step[b].timestamp
    <2>1. step[b].at \in Holds /\ c \in Connections /\ t \in Timestamps
      <3>1. step[b].at \in Holds
        BY <1>5 DEF Holds, Runs, Retries
      <3>2. QED
        BY <3>1, InHands
    <2>2. /\ step[b].outcome # "none"
          /\ step[b].outcome = "published" =>
                (session[c].entries[t].task = step[b].task => session[c].entries[t].terminal_queued)
      BY <1>1, <1>5 DEF StepAnswered
    <2>3. step[b].outcome = "published" =>
                (session'[c].entries[t].task = step[b].task
                    => session'[c].entries[t].terminal_queued)
      <3> HIDE DEF c, t
      <3>1. CASE session'[c] = session[c]
        BY <2>2, <3>1
      <3>2. ASSUME NEW m, NEW u, Moves(a, c, m, u), step[b].outcome = "published",
                   session'[c].entries[t].task = step[b].task
            PROVE  session'[c].entries[t].terminal_queued
        <4>1. step[b].task # m /\ step[b].task # NoTask
          BY <1>2, <2>1, <3>2
        <4>2. QED
          BY <2>1, <2>2, <3>2, <4>1 DEF Moves, SessionMove
      <3>3. QED
        BY <2>1, <3>1, <3>2 DEF SessionsFor
    <2>4. QED
      BY <1>1, <1>5, <2>2, <2>3 DEF StepAnswered
  <1>6. CASE step[b].at \notin {"admit", "commit", "finish", "retry_settle"}
    BY <1>1, <1>6 DEF StepAnswered
  <1>7. QED
    BY <1>3, <1>4, <1>5, <1>6

LEMMA OwnedStill ==
    ASSUME ExecutorAssumption, TypeInv, SlotInv, SessionInv, NEW a \in Actors, SessionsFor(a),
           SlotsServe, OpensKept
    PROVE  AnsweredOrOwned'
  <1> SUFFICES ASSUME NEW c \in Connections, NEW t \in Timestamps, ~stopping', Open(c)',
                      ~session'[c].closed, session'[c].entries[t].task # NoTask,
                      ~session'[c].entries[t].terminal_queued
               PROVE  \E i \in Slots : /\ slot'[i].state # "free" /\ slot'[i].connection = c
                                       /\ slot'[i].task = session'[c].entries[t].task
                                       /\ slot'[i].timestamp = t
    BY DEF AnsweredOrOwned, Owned
  <1>1. ASSUME NEW i \in Slots, slot[i].state # "free", slot[i].connection = c,
               slot[i].timestamp = t, slot[i].task = session'[c].entries[t].task
        PROVE  /\ slot'[i].state # "free" /\ slot'[i].connection = c
               /\ slot'[i].task = session'[c].entries[t].task /\ slot'[i].timestamp = t
    <2>1. ~Unneeded(i)
      <3>1. ~ \E d \in Connections : slot[i].connection = d /\ ~Open(d)'
        BY <1>1 DEF Open
      <3>2. QED
        BY <1>1, <3>1 DEF Unneeded
    <2>2. QED
      BY <1>1, <2>1 DEF SlotsServe, KeptTask, SameTask
  <1>2. ASSUME ~session[c].closed, session[c].entries[t].task = session'[c].entries[t].task,
               ~session[c].entries[t].terminal_queued
        PROVE  \E i \in Slots : /\ slot[i].state # "free" /\ slot[i].connection = c
                                /\ slot[i].timestamp = t
                                /\ slot[i].task = session'[c].entries[t].task
    BY <1>2 DEF OpensKept, SessionInv, AnsweredOrOwned, Owned
  <1>3. CASE session'[c] = session[c]
    BY <1>1, <1>2, <1>3
  <1>4. ASSUME NEW m, NEW u, Moves(a, c, m, u), session'[c].entries[t].task = m, t = u
        PROVE  \E i \in Slots : /\ slot[i].state # "free" /\ slot[i].connection = c
                                /\ slot[i].timestamp = t
                                /\ slot[i].task = session'[c].entries[t].task
    <2>1. /\ step[a].at \in Holds /\ m = step[a].task /\ u = step[a].timestamp
          /\ c = step[a].connection
      BY <1>4 DEF Moves
    <2>2. QED
      BY <1>4, <2>1, InHands, HandsApart
  <1>5. ASSUME NEW m, NEW u, Moves(a, c, m, u)
        PROVE  \/ /\ ~session[c].closed /\ ~session[c].entries[t].terminal_queued
                  /\ session[c].entries[t].task = session'[c].entries[t].task
               \/ session'[c].entries[t].task = m /\ t = u
    BY <1>5 DEF Moves, SessionMove
  <1>6. \E i \in Slots : /\ slot[i].state # "free" /\ slot[i].connection = c
                         /\ slot[i].timestamp = t /\ slot[i].task = session'[c].entries[t].task
    BY <1>2, <1>3, <1>4, <1>5 DEF SessionsFor
  <1>7. QED
    BY <1>1, <1>6

LEMMA SessionFrame ==
    ASSUME ExecutorAssumption, TypeInv, TypeInv', LockInv, SlotInv, SessionInv, NEW a \in Actors,
           OnlyStep(a), SessionsFor(a), SlotsServe, OpensKept, next_task <= next_task',
           StepAnswered(step[a])'
    PROVE  SessionInv'
  <1>1. \A c \in Connections : SessionSound(session[c])'
    BY SoundSessions DEF SessionInv
  <1>2. \A b \in Actors : StepAnswered(step[b])'
    BY OthersAnswered
  <1>3. QED
    BY <1>1, <1>2, OwnedStill DEF SessionInv

LEMMA Quiet ==
    /\ \A a \in Actors : UNCHANGED session => SessionsFor(a)
    /\ UNCHANGED slot => SlotsServe
    /\ UNCHANGED <<stopping, connection>> => OpensKept
  BY DEF SessionsFor, SlotsServe, KeptTask, SameTask, OpensKept, Open

LEMMA SlotServes ==
    ASSUME NEW i \in Slots, OnlySlot(i),
           \/ slot[i].state = "free" \/ Unneeded(i)
           \/ SameTask(i) /\ slot'[i].state # "free"
    PROVE  SlotsServe
  BY DEF OnlySlot, SlotsServe, KeptTask, SameTask

LEMMA OneSession ==
    ASSUME TypeInv, TypeInv', NEW a \in Actors, NEW c \in Connections, NEW q, NEW m, NEW u,
           session' = [session EXCEPT ![c] = q],
           SoundFor(q, next_task), SessionMove(session[c], q, m, u),
           operation_mutex[c] \in {a, Nobody} \/ SessionLeaves(session[c], q, m),
           \/ m = NoTask
           \/ /\ step[a].at \in Holds /\ m = step[a].task /\ u = step[a].timestamp
              /\ c = step[a].connection
    PROVE  SessionsFor(a)
  <1>1. session'[c] = q /\ \A d \in Connections \ {c} : session'[d] = session[d]
    BY DEF TypeInv
  <1>2. session'[c] \in Sessions
    BY DEF TypeInv
  <1>3. Moves(a, c, m, u)
    BY <1>1, <1>2 DEF Moves
  <1>4. QED
    BY <1>1, <1>3 DEF SessionsFor

LEMMA AnsweredElsewhere ==
    ASSUME NEW a \in Actors, step'[a].at \notin {"admit", "commit", "finish", "retry_settle"}
    PROVE  StepAnswered(step[a])'
  BY DEF StepAnswered

LEMMA SessionNow ==
    ASSUME TypeInv, SessionInv
    PROVE  /\ next_task \in Nat \ {0}
           /\ \A c \in Connections : session[c] \in Sessions /\ SoundFor(session[c], next_task)
           /\ \A a \in Actors : StepAnswered(step[a])
  BY SoundIs DEF TypeInv, TypeOK, SessionInv

LEMMA SubmitAnswered ==
    ASSUME ExecutorAssumption, TypeInv, TypeInv', LockInv, SlotInv, SessionInv, NEW h \in Hosts,
           SubmitStep(h)
    PROVE  SessionInv'
  <1>1. h \in Actors /\ StepAnswered(step[h]) /\ LockedRight(step[h], h)
    BY SessionNow, LockParts DEF Actors
  <1>2. ASSUME NEW c \in Connections, NEW t \in Timestamps, SubmitReserve(h, c, t)
        PROVE  SessionInv'
    <2>1. PICK i \in Slots :
              /\ slot[i].state = "free" /\ OnlySlot(i) /\ OnlyStep(h)
              /\ step'[h].at = "admit" /\ step'[h].task = next_task
      BY <1>2, ReserveEffect
    <2>2. UNCHANGED <<session, connection, stopping>> /\ next_task' = next_task + 1
      BY <1>2 DEF SubmitReserve, lifetime
    <2>3. ASSUME NEW d \in Connections
          PROVE  /\ \A u \in Timestamps : session[d].entries[u].task # next_task
                 /\ \A b \in Carried(session[d]) : b.task # next_task
      BY SessionNow, EntryFields DEF SoundFor, Tasks
    <2>4. StepAnswered(step[h])'
      BY <2>1, <2>2, <2>3 DEF StepAnswered, Carried
    <2>5. SlotsServe /\ SessionsFor(h) /\ OpensKept /\ next_task <= next_task'
      BY <1>1, <2>1, <2>2, SlotServes, Quiet, SessionNow
    <2>6. QED
      BY <1>1, <2>1, <2>4, <2>5, SessionFrame
  <1>3. CASE SubmitAdmit(h)
    <2> DEFINE c == step[h].connection
               t == step[h].timestamp
               task == step[h].task
               q == admit(session[c], t, task)
    <2>1. /\ step[h].at = "admit" /\ step'[h].at = "commit" /\ step[h].at \in Holds
          /\ step'[h].connection = c /\ step'[h].timestamp = t /\ step'[h].task = task
          /\ OnlyStep(h) /\ session' = [session EXCEPT ![c] = q]
          /\ UNCHANGED <<slot, connection, operation_mutex, next_task, stopping>>
      BY <1>3, AdmitEffect DEF SameHand, Holds, Submits
    <2>2. /\ c \in Connections /\ t \in Timestamps /\ task \in Tasks
          /\ session[c] \in Sessions /\ task < next_task /\ operation_mutex[c] = h
      BY <1>1, <2>1, InHands, HandsApart, SessionNow, SlotParts
      DEF SlotRight, LockedRight, Locked, Submits
    <2>3. \A b \in Carried(session[c]) : b.task # task
      BY <1>1, <2>1, <2>2 DEF StepAnswered
    <2>4. SoundFor(q, next_task) /\ SessionMove(session[c], q, task, t)
      BY <2>2, <2>3, SessionNow, MoveAdmit
    <2>5. session'[c] = q /\ q.entries[t].task = task /\ ~q.entries[t].terminal_queued
      BY <2>1, <2>2, AdmitSession DEF TypeInv
    <2>6. StepAnswered(step[h])'
      BY <2>1, <2>5 DEF StepAnswered
    <2> HIDE DEF q
    <2>7. SessionsFor(h)
      BY <1>1, <2>1, <2>2, <2>4, OneSession
    <2>8. SlotsServe /\ OpensKept /\ next_task <= next_task'
      BY <2>1, Quiet, SessionNow
    <2>9. QED
      BY <1>1, <2>1, <2>6, <2>7, <2>8, SessionFrame
  <1>4. CASE SubmitRejected(h) \/ SubmitCommit(h) \/ SubmitRollback(h)
    <2> DEFINE i == step[h].slot
               c == step[h].connection
               t == step[h].timestamp
               q == rollback(session[c], t)
    <2>1. /\ step[h].at \in Submits /\ step'[h].at = "idle" /\ OnlyStep(h)
          /\ step[h].at = "admit" <=> SubmitRejected(h)
          /\ UNCHANGED <<next_task, connection, stopping>>
          /\ \/ SubmitCommit(h) /\ slot' = [slot EXCEPT ![i].state = "queued"]
             \/ ~SubmitCommit(h) /\ Release(i, {})
      BY <1>4, SubmitEnds
    <2>2. /\ i \in Slots /\ slot[i].connection = c /\ slot[i].timestamp = t
          /\ slot[i].task = step[h].task /\ c \in Connections /\ t \in Timestamps
          /\ step[h].task \in Tasks /\ session[c] \in Sessions /\ operation_mutex[c] = h
      BY <1>1, <2>1, HandsApart, InHands, SessionNow DEF LockedRight, Locked
    <2>3. SessionsFor(h)
      <3>1. CASE SubmitRollback(h)
        <4>1. session' = [session EXCEPT ![c] = q]
          BY <3>1 DEF SubmitRollback
        <4>2. SoundFor(q, next_task) /\ SessionMove(session[c], q, NoTask, t)
          BY <2>2, SessionNow, MoveRollback
        <4> HIDE DEF q
        <4>3. QED
          BY <1>1, <2>2, <4>1, <4>2, OneSession
      <3>2. CASE ~SubmitRollback(h)
        BY <1>1, <1>4, <3>2, Quiet DEF SubmitRejected, SubmitCommit
      <3>3. QED
        BY <3>1, <3>2
    <2>4. SlotsServe
      <3>1. CASE SubmitRejected(h)
        <4>1. session' = session
          BY <3>1 DEF SubmitRejected
        <4>2. session[c].entries[t].task # step[h].task
          BY <1>1, <2>1, <2>2, <3>1 DEF StepAnswered
        <4>3. Unneeded(i)
          BY <2>2, <4>1, <4>2 DEF Unneeded
        <4>4. OnlySlot(i)
          <5>1. Release(i, {})
            BY <3>1 DEF SubmitRejected
          <5>2. QED
            BY <2>2, <5>1, Released
        <4> HIDE DEF i
        <4>5. QED
          BY <2>2, <4>3, <4>4, SlotServes
      <3>2. CASE SubmitRollback(h)
        <4>1. session'[c] = q
          BY <2>2, <3>2 DEF SubmitRollback, TypeInv
        <4>2. q.entries[t].task # step[h].task
          BY <2>2, RollbackSession DEF NoEntry, NoTask, Tasks
        <4>3. Unneeded(i)
          BY <2>2, <4>1, <4>2 DEF Unneeded
        <4>4. OnlySlot(i)
          <5>1. Release(i, {})
            BY <3>2 DEF SubmitRollback
          <5>2. QED
            BY <2>2, <5>1, Released
        <4> HIDE DEF i
        <4>5. QED
          BY <2>2, <4>3, <4>4, SlotServes
      <3>3. CASE slot' = [slot EXCEPT ![i].state = "queued"]
        <4> HIDE DEF i
        <4>1. OnlySlot(i) /\ SameTask(i) /\ slot'[i].state # "free"
          BY <2>2, <3>3, SlotRestated
        <4>2. QED
          BY <2>2, <4>1, SlotServes
      <3>4. QED
        BY <1>4, <2>1, <3>1, <3>2, <3>3
    <2>5. OpensKept /\ next_task <= next_task' /\ StepAnswered(step[h])'
      BY <1>1, <2>1, Quiet, SessionNow, AnsweredElsewhere
    <2>6. QED
      BY <1>1, <2>1, <2>3, <2>4, <2>5, SessionFrame
  <1>5. QED
    BY <1>2, <1>3, <1>4 DEF SubmitStep, Submitting

\* A step that changes neither sessions nor slots.
LEMMA IdleAnswered ==
    ASSUME ExecutorAssumption, TypeInv, TypeInv', LockInv, SlotInv, SessionInv, NEW a \in Actors,
           OnlyStep(a), UNCHANGED <<slot, session, next_task>>, OpensKept,
           step'[a].at \notin {"admit", "commit", "finish", "retry_settle"}
    PROVE  SessionInv'
  <1>1. SlotsServe /\ SessionsFor(a) /\ StepAnswered(step[a])'
    BY Quiet, AnsweredElsewhere
  <1>2. next_task <= next_task'
    BY SessionNow
  <1>3. QED
    BY <1>1, <1>2, SessionFrame

\* A worker publishes a progress response or claims the terminal.
LEMMA HandlerAnswered ==
    ASSUME ExecutorAssumption, TypeInv, TypeInv', LockInv, SlotInv, SessionInv, NEW w \in Workers,
           Progress(w) \/ ClaimTerminal(w)
    PROVE  SessionInv'
  <1> DEFINE c == step[w].connection
             t == step[w].timestamp
             task == step[w].task
             p == publish(session[c], t, task, "progress")
             q == claim_irrevocable_terminal(session[c], t)
  <1>1. w \in Actors /\ step[w].at = "handler" /\ step[w].at \in Holds
    BY DEF Actors, Progress, ClaimTerminal, At, Holds, Runs
  <1>2. /\ c \in Connections /\ t \in Timestamps /\ task \in Tasks /\ session[c] \in Sessions
        /\ SoundFor(session[c], next_task)
    BY <1>1, InHands, SessionNow
  <1>3. UNCHANGED <<slot, next_task, stopping, connection, operation_mutex>>
    BY DEF Progress, ClaimTerminal, executor, lifetime
  <1>4. SlotsServe /\ OpensKept /\ next_task <= next_task'
    BY <1>3, Quiet, SessionNow
  <1>5. CASE Progress(w)
    <2>1. /\ PublishError(session[c], t, task, "progress") = "none"
          /\ session' = [session EXCEPT ![c] = p] /\ step' = step
      BY <1>5 DEF Progress
    <2>2. /\ SoundFor(p, next_task) /\ SessionMove(session[c], p, task, t)
          /\ SessionLeaves(session[c], p, task)
      BY <1>2, <2>1, MovePublish
    <2> HIDE DEF p
    <2>3. SessionsFor(w)
      BY <1>1, <1>2, <2>1, <2>2, OneSession
    <2>4. OnlyStep(w) /\ StepAnswered(step[w])'
      BY <1>1, <2>1, AnsweredElsewhere DEF OnlyStep
    <2>5. QED
      BY <1>1, <1>4, <2>3, <2>4, SessionFrame
  <1>6. CASE ClaimTerminal(w)
    <2>1. session' = [session EXCEPT ![c] = q]
      BY <1>6 DEF ClaimTerminal
    <2>2. /\ SoundFor(q, next_task) /\ SessionMove(session[c], q, NoTask, t)
          /\ SessionLeaves(session[c], q, NoTask)
      BY <1>2, MoveClaim
    <2> HIDE DEF q
    <2>3. SessionsFor(w)
      BY <1>1, <1>2, <2>1, <2>2, OneSession
    <2>4. Staged(w, "irrevocable", "settle")
      BY <1>6 DEF ClaimTerminal
    <2>5. OnlyStep(w) /\ step'[w].at = "settle"
      BY <1>1, <2>4, StagedTo
    <2>6. StepAnswered(step[w])'
      BY <1>1, <2>5, AnsweredElsewhere
    <2>7. QED
      BY <1>1, <1>4, <2>3, <2>5, <2>6, SessionFrame
  <1>7. QED
    BY <1>5, <1>6

\* A worker publishes the terminal of its task, or learns that it cannot.
LEMMA TerminalAnswered ==
    ASSUME ExecutorAssumption, TypeInv, TypeInv', LockInv, SlotInv, SessionInv, NEW w \in Workers,
           PublishTerminal(w)
    PROVE  SessionInv'
  <1> DEFINE c == step[w].connection
             t == step[w].timestamp
             task == step[w].task
             staged == step[w].staged
             error == PublishError(session[c], t, task, staged)
             q == publish(session[c], t, task, staged)
  <1>1. w \in Actors /\ step[w].at = "publish" /\ step[w].at \in Holds
    BY DEF Actors, PublishTerminal, At, Holds, Runs
  <1>2. /\ c \in Connections /\ t \in Timestamps /\ task \in Tasks /\ session[c] \in Sessions
        /\ SoundFor(session[c], next_task)
    BY <1>1, InHands, SessionNow
  <1>3. OnlyStep(w) /\ SameHand(step'[w], step[w])
        /\ UNCHANGED <<slot, next_task, stopping, connection, operation_mutex>>
    BY RunEffect
  <1>4. SlotsServe /\ OpensKept /\ next_task <= next_task'
    BY <1>3, Quiet, SessionNow
  <1>5. staged \in Pendings /\ staged # "none" /\ staged # "progress"
    BY <1>1, StepFields DEF StepTyped, Steps, Pendings
  <1>6. CASE error = "none"
    <2>1. /\ session' = [session EXCEPT ![c] = q]
          /\ step' = [step EXCEPT ![w].outcome = "published", ![w].at = "finish"]
      BY <1>6 DEF PublishTerminal
    <2>2. step'[w].at = "finish" /\ step'[w].outcome = "published"
      BY <1>1, <2>1, OutcomeTo
    <2>3. /\ SoundFor(q, next_task) /\ SessionMove(session[c], q, task, t)
          /\ SessionLeaves(session[c], q, task)
          /\ q.entries[t].terminal_queued
      BY <1>2, <1>5, <1>6, MovePublish
    <2>4. session'[c] = q
      BY <1>2, <2>1 DEF TypeInv
    <2> HIDE DEF q
    <2>5. SessionsFor(w)
      BY <1>1, <1>2, <2>1, <2>3, OneSession
    <2>6. StepAnswered(step[w])'
      BY <1>3, <2>2, <2>3, <2>4 DEF StepAnswered, SameHand
    <2>7. QED
      BY <1>1, <1>3, <1>4, <2>5, <2>6, SessionFrame
  <1>7. CASE error # "none"
    <2>1. session' = session
      BY <1>7 DEF PublishTerminal
    <2>2. StepAnswered(step[w])'
      <3>1. CASE Staged(w, "cancelled", "publish")
        BY <1>1, <3>1, StagedTo, AnsweredElsewhere
      <3>2. CASE step' = [step EXCEPT ![w].outcome = Disposition(error), ![w].at = "finish"]
        <4> DEFINE z == Disposition(error)
        <4>1. z # "none" /\ z # "published"
          BY DEF Disposition
        <4>2. step' = [step EXCEPT ![w].outcome = z, ![w].at = "finish"]
          BY <3>2
        <4> HIDE DEF z
        <4>3. step'[w].at = "finish" /\ step'[w].outcome = z
          BY <1>1, <4>2, OutcomeTo
        <4>4. QED
          BY <4>1, <4>3 DEF StepAnswered
      <3>3. QED
        BY <1>7, <3>1, <3>2 DEF PublishTerminal
    <2>3. QED
      BY <1>1, <1>3, <1>4, <2>1, <2>2, Quiet, SessionFrame
  <1>8. QED
    BY <1>6, <1>7

LEMMA WorkAnswered ==
    ASSUME ExecutorAssumption, TypeInv, TypeInv', LockInv, SlotInv, CountInv, SessionInv,
           NEW w \in Workers, WorkStep(w)
    PROVE  SessionInv'
  <1>1. w \in Actors /\ StepAnswered(step[w]) /\ OnlyStep(w)
    BY SessionNow, WorkPlaces DEF Actors
  <1>2. CASE StartStopped(w) \/ StartHandler(w) \/ HandlerReturns(w) \/ Settle(w)
    <2>1. /\ step'[w].at \in Runs
          /\ UNCHANGED <<slot, next_task, stopping, connection>>
          /\ step'[w].at = "finish" <=> (PublishTerminal(w) /\ step'[w].at = "finish")
      BY <1>2, RunEffect
    <2>2. ~PublishTerminal(w) \/ step[w].at = "publish"
      BY DEF PublishTerminal, At
    <2>3. step[w].at # "publish" /\ session' = session
      BY <1>2 DEF StartStopped, StartHandler, HandlerReturns, Settle, At
    <2>4. step'[w].at \notin {"admit", "commit", "finish", "retry_settle"}
      BY <2>1, <2>2, <2>3 DEF Runs
    <2>5. QED
      BY <1>1, <2>1, <2>3, <2>4, Quiet, IdleAnswered
  <1>3. CASE Take(w)
    <2> DEFINE i == Head(queue)
    <2>1. i \in Slots /\ OnlySlot(i) /\ SameTask(i) /\ slot'[i].state # "free"
          /\ step'[w].at = "dispatch"
      BY <1>3, TakeEffect DEF SameTask
    <2>2. UNCHANGED <<session, next_task, stopping, connection>>
      BY <1>3 DEF Take, lifetime
    <2> HIDE DEF i
    <2>3. SlotsServe
      BY <2>1, SlotServes
    <2>4. SessionsFor(w) /\ OpensKept /\ next_task <= next_task' /\ StepAnswered(step[w])'
      BY <1>1, <2>1, <2>2, Quiet, SessionNow, AnsweredElsewhere
    <2>5. QED
      BY <1>1, <2>3, <2>4, SessionFrame
  <1>4. CASE DropQueued(w)
    <2> DEFINE i == Head(queue)
    <2>1. i \in Slots /\ OnlySlot(i) /\ stopping' /\ step'[w].at = "idle"
          /\ UNCHANGED <<session, next_task, stopping, connection>>
      BY <1>4, DropEffect, Released
    <2>2. Unneeded(i)
      BY <2>1 DEF Unneeded
    <2> HIDE DEF i
    <2>3. SlotsServe
      BY <2>1, <2>2, SlotServes
    <2>4. SessionsFor(w) /\ OpensKept
      BY <1>1, <2>1, Quiet
    <2>5. next_task <= next_task'
      BY <2>1, SessionNow
    <2>6. StepAnswered(step[w])'
      BY <1>1, <2>1, AnsweredElsewhere
    <2>7. QED
      BY <1>1, <2>3, <2>4, <2>5, <2>6, SessionFrame
  <1>5. CASE Exit(w)
    <2>1. step'[w].at = "exited"
      BY <1>1, <1>5, GoneTo DEF Exit, Places, Unconnected
    <2>2. UNCHANGED <<slot, session, next_task, stopping, connection>>
      BY <1>5 DEF Exit, executor, lifetime
    <2>3. QED
      BY <1>1, <2>1, <2>2, Quiet, IdleAnswered
  <1>6. CASE FinishRetain(w)
    <2> DEFINE i == step[w].slot
    <2>1. /\ i \in Slots /\ OnlySlot(i) /\ SameTask(i) /\ slot'[i].state # "free"
          /\ step'[w].at = "idle" /\ UNCHANGED <<session, next_task, stopping, connection>>
      BY <1>6, RetainEffect
    <2> HIDE DEF i
    <2>2. SlotsServe
      BY <2>1, SlotServes
    <2>3. SessionsFor(w) /\ OpensKept /\ next_task <= next_task' /\ StepAnswered(step[w])'
      BY <1>1, <2>1, Quiet, SessionNow, AnsweredElsewhere
    <2>4. QED
      BY <1>1, <2>2, <2>3, SessionFrame
  <1>7. CASE FinishRelease(w)
    <2> DEFINE i == step[w].slot
               c == step[w].connection
    <2>1. /\ i \in Slots /\ OnlySlot(i) /\ slot[i].connection = c /\ c \in Connections
          /\ step[w].at = "finish" /\ step'[w].at \in {"idle", "force_close"}
          /\ UNCHANGED <<session, next_task, stopping>>
      BY <1>7, FinishEffect, Released
    <2>2. slot[i].timestamp = step[w].timestamp /\ slot[i].task = step[w].task
      BY <1>1, <2>1, InHands, HandsApart DEF Runs
    <2>3. step[w].outcome = "published" =>
             (session'[c].entries[step[w].timestamp].task = step[w].task
                 => session'[c].entries[step[w].timestamp].terminal_queued)
      BY <1>1, <2>1 DEF StepAnswered
    <2>4. \/ ~connection'[c].accepting
          \/ UNCHANGED connection /\ (step[w].outcome = "published" \/ stopping \/ ~Open(c))
      BY <1>7, FinishEffect
    <2>5. step[w].outcome = "published" \/ stopping' \/ ~connection'[c].accepting
              \/ connection'[c].close_required
      BY <2>1, <2>4 DEF Open
    <2>6. Unneeded(i)
      BY <2>1, <2>2, <2>3, <2>5 DEF Unneeded, Open
    <2>7. OpensKept
      <3>1. CASE UNCHANGED connection
        BY <2>1, <3>1, Quiet
      <3>2. CASE ~connection'[c].accepting
                 /\ \A d \in Connections \ {c} : connection'[d] = connection[d]
        BY <2>1, <3>2 DEF OpensKept, Open
      <3>3. QED
        BY <1>7, <3>1, <3>2, FinishEffect
    <2> HIDE DEF i
    <2>8. SlotsServe
      BY <2>1, <2>6, SlotServes
    <2>9. SessionsFor(w) /\ next_task <= next_task' /\ StepAnswered(step[w])'
      BY <1>1, <2>1, Quiet, SessionNow, AnsweredElsewhere
    <2>10. QED
      BY <1>1, <2>7, <2>8, <2>9, SessionFrame
  <1>8. QED
    BY <1>2, <1>3, <1>4, <1>5, <1>6, <1>7, HandlerAnswered, TerminalAnswered
    DEF WorkStep, Working

LEMMA OpenEnds ==
    ASSUME UNCHANGED stopping, StopsOnly,
           \A d \in Connections : connection[d].close_required => connection'[d].close_required
    PROVE  OpensKept
  BY DEF OpensKept, Open, StopsOnly

LEMMA StopEnds ==
    ASSUME TypeInv, NEW c \in Connections, Stop(c), UNCHANGED stopping
    PROVE  OpensKept
  <1>1. \A d \in Connections : connection'[d].close_required = connection[d].close_required
    BY DEF TypeInv, TypeOK, Stop
  <1>2. QED
    BY <1>1, StopStops, OpenEnds

\* A send ends, and the batch it carried leaves the session or the session closes.
LEMMA SentAnswered ==
    ASSUME ExecutorAssumption, TypeInv, TypeInv', LockInv, SlotInv, SessionInv, NEW h \in Hosts,
           NEW c \in Connections, CompleteSend(h, c) \/ FailSend(h, c)
    PROVE  SessionInv'
  <1> DEFINE q == complete_send(session[c])
             z == close_locked(session[c])
  <1>1. h \in Actors
    BY DEF Actors
  <1>2. /\ Lock(h, c) /\ session[c].lease
        /\ session' = [session EXCEPT ![c] = q] \/ session' = [session EXCEPT ![c] = z]
        /\ UNCHANGED <<slot, next_task, stopping, connection>>
    BY DEF CompleteSend, FailSend, executor, lifetime
  <1>3. /\ operation_mutex[c] = Nobody
        /\ session[c] \in Sessions /\ session[c].outbound # <<>> /\ next_task \in Nat \ {0}
        /\ SoundFor(session[c], next_task)
    BY <1>1, <1>2, LockHeld, LeasedIsOpen, SessionNow
  <1>4. /\ SoundFor(q, next_task) /\ SessionMove(session[c], q, NoTask, 0)
        /\ SoundFor(z, next_task) /\ SessionMove(session[c], z, NoTask, 0)
    BY <1>3, MoveSent, MoveClosed
  <1>5. SlotsServe /\ OpensKept /\ next_task <= next_task'
    BY <1>2, Quiet, SessionNow
  <1>6. OnlyStep(h) /\ step'[h].at \in {"idle", "retry", "send_failed", "close_session", "handoff"}
    BY SenderEffect
  <1>7. StepAnswered(step[h])'
    BY <1>1, <1>6, AnsweredElsewhere
  <1> HIDE DEF q, z
  <1>8. SessionsFor(h)
    BY <1>1, <1>2, <1>3, <1>4, OneSession
  <1>9. QED
    BY <1>1, <1>5, <1>6, <1>7, <1>8, SessionFrame

\* A retained response is published, and its outcome settled.
LEMMA ResentAnswered ==
    ASSUME ExecutorAssumption, TypeInv, TypeInv', LockInv, SlotInv, SessionInv, NEW h \in Hosts,
           RetryPublish(h) \/ RetrySettle(h)
    PROVE  SessionInv'
  <1>1. h \in Actors /\ StepAnswered(step[h]) /\ LockedRight(step[h], h)
    BY SessionNow, LockParts DEF Actors
  <1>2. CASE RetryPublish(h)
    <2> DEFINE c == step[h].connection
               t == step[h].timestamp
               task == step[h].task
               staged == step[h].staged
               q == publish(session[c], t, task, staged)
    <2>1. /\ step[h].at = "retry_publish" /\ step'[h].at = "retry_settle"
          /\ SameHand(step'[h], step[h]) /\ OnlyStep(h)
          /\ c \in Connections /\ t \in Timestamps /\ task \in Tasks
          /\ session[c] \in Sessions /\ staged \in Pendings \ {"none"}
          /\ step'[h].outcome \in {"published", "retry", "close"}
          /\ \/ /\ PublishError(session[c], t, task, staged) = "none"
                /\ session' = [session EXCEPT ![c] = q]
                /\ step'[h].outcome = "published"
             \/ session' = session /\ step'[h].outcome # "published"
          /\ UNCHANGED <<slot, connection, operation_mutex, next_task, stopping>>
      BY <1>2, RetryPublishEffect
    <2>2. step[h].at \in Holds /\ SoundFor(session[c], next_task)
      BY <2>1, SessionNow DEF Holds, Retries
    <2>3. SlotsServe /\ OpensKept /\ next_task <= next_task'
      BY <2>1, Quiet, SessionNow
    <2>4. CASE session' = [session EXCEPT ![c] = q]
               /\ PublishError(session[c], t, task, staged) = "none"
      <3>1. staged # "progress" /\ staged \in {"progress"} \cup Pendings
        BY <2>1 DEF Pendings
      <3>2. /\ SoundFor(q, next_task) /\ SessionMove(session[c], q, task, t)
            /\ SessionLeaves(session[c], q, task)
            /\ q.entries[t].terminal_queued
        <4>1. /\ session[c] \in Sessions /\ t \in Timestamps /\ task \in Tasks
              /\ staged \in {"progress"} \cup Pendings /\ SoundFor(session[c], next_task)
              /\ PublishError(session[c], t, task, staged) = "none"
          BY <2>1, <2>2, <2>4, <3>1
        <4> HIDE DEF c, t, task, staged
        <4>2. QED
          BY <3>1, <4>1, MovePublish
      <3>3. session'[c] = q
        BY <2>1, <2>4 DEF TypeInv
      <3> HIDE DEF q
      <3>4. SessionsFor(h)
        BY <1>1, <2>1, <2>2, <2>4, <3>2, OneSession
      <3>5. StepAnswered(step[h])'
        BY <2>1, <3>2, <3>3 DEF StepAnswered, SameHand
      <3>6. QED
        BY <1>1, <2>1, <2>3, <3>4, <3>5, SessionFrame
    <2>5. CASE session' = session /\ step'[h].outcome # "published"
      <3>1. StepAnswered(step[h])'
        BY <2>1, <2>5 DEF StepAnswered
      <3>2. SessionsFor(h)
        BY <1>1, <2>5, Quiet
      <3>3. QED
        BY <1>1, <2>1, <2>3, <3>1, <3>2, SessionFrame
    <2>6. QED
      BY <2>1, <2>4, <2>5
  <1>3. CASE RetrySettle(h)
    <2> DEFINE i == step[h].slot
               c == step[h].connection
               t == step[h].timestamp
    <2>1. /\ i \in Slots /\ slot[i].connection = c /\ c \in Connections
          /\ step[h].at \in Holds /\ OnlyStep(h)
          /\ \/ step[h].outcome = "retry" /\ OnlySlot(i) /\ SameTask(i)
                /\ slot'[i].state = "completed"
             \/ step[h].outcome # "retry" /\ Release(i, {"completed"})
          /\ step[h].outcome = "close" => connection'[c].close_required
          /\ \A d \in Connections : connection'[d].accepting = connection[d].accepting
          /\ \A d \in Connections : connection[d].close_required => connection'[d].close_required
          /\ UNCHANGED <<operation_mutex, session, next_task, stopping>>
      BY <1>3, SettleEffect
    <2>2. step[h].at = "retry_settle" /\ step'[h].at = "retry"
      BY <1>3, RetrySettleEffect
    <2>3. slot[i].timestamp = t /\ slot[i].task = step[h].task
      BY <1>1, <2>1, InHands
    <2>4. step[h].outcome \in {"published", "retry", "close"}
      <3>1. step[h].outcome \in {"none", "published", "retry", "close"}
        BY <1>1, StepFields DEF Steps
      <3>2. QED
        BY <1>1, <2>2, <3>1 DEF StepAnswered
    <2>5. SlotsServe
      <3>1. CASE step[h].outcome = "retry"
        <4>1. OnlySlot(i) /\ SameTask(i) /\ slot'[i].state # "free"
          BY <2>1, <3>1
        <4> HIDE DEF i
        <4>2. QED
          BY <2>1, <4>1, SlotServes
      <3>2. CASE step[h].outcome # "retry"
        <4>1. OnlySlot(i)
          BY <2>1, <3>2, Released
        <4>2. CASE step[h].outcome = "close"
          <5>1. Unneeded(i)
            BY <2>1, <4>2 DEF Unneeded, Open
          <5> HIDE DEF i
          <5>2. QED
            BY <2>1, <4>1, <5>1, SlotServes
        <4>3. CASE step[h].outcome = "published"
          <5>1. session'[c].entries[t].task = step[h].task
                    => session'[c].entries[t].terminal_queued
            BY <1>1, <2>1, <2>2, <4>3 DEF StepAnswered
          <5>2. Unneeded(i)
            BY <2>1, <2>3, <5>1 DEF Unneeded
          <5> HIDE DEF i
          <5>3. QED
            BY <2>1, <4>1, <5>2, SlotServes
        <4>4. QED
          BY <2>4, <3>2, <4>2, <4>3
      <3>3. QED
        BY <3>1, <3>2
    <2>6. OpensKept
      BY <2>1, OpenEnds DEF StopsOnly
    <2>7. SessionsFor(h) /\ next_task <= next_task' /\ StepAnswered(step[h])'
      BY <1>1, <2>1, <2>2, Quiet, SessionNow, AnsweredElsewhere
    <2>8. QED
      BY <1>1, <2>1, <2>5, <2>6, <2>7, SessionFrame
  <1>4. QED
    BY <1>2, <1>3

LEMMA SendAnswered ==
    ASSUME ExecutorAssumption, TypeInv, TypeInv', LockInv, SlotInv, SessionInv, NEW h \in Hosts,
           SendStep(h)
    PROVE  SessionInv'
  <1>1. h \in Actors /\ StepTyped(step[h])
    BY StepFields DEF Actors
  <1>2. CASE RetrySkip(h) \/ RetryDone(h) \/ StopAfterFailure(h)
    <2>1. /\ step[h].at \in {"retry", "send_failed"} /\ OnlyStep(h)
          /\ step'[h].at \in {"idle", "retry", "send_failed", "close_session", "handoff"}
          /\ UNCHANGED <<slot, next_task, stopping>>
      BY <1>2, SenderEffect DEF RetrySkip, RetryDone, StopAfterFailure, At
    <2>2. step[h].connection \in Connections
      BY <1>1, <2>1 DEF StepTyped, Unconnected
    <2>3. UNCHANGED session /\ (UNCHANGED connection \/ Stop(step[h].connection))
      BY <1>2 DEF RetrySkip, RetryDone, StopAfterFailure
    <2>4. OpensKept
      BY <2>1, <2>2, <2>3, StopEnds, Quiet
    <2>5. QED
      BY <1>1, <2>1, <2>3, <2>4, IdleAnswered
  <1>3. CASE RetryTake(h)
    <2>1. PICK i \in Slots :
             /\ OnlySlot(i) /\ slot'[i].state = "completed" /\ SameTask(i)
             /\ OnlyStep(h) /\ step'[h].at = "retry_publish"
      BY <1>3, RetryTakeEffect DEF SameTask
    <2>2. UNCHANGED <<session, next_task, stopping, connection>>
      BY <1>3 DEF RetryTake, lifetime
    <2>3. SlotsServe
      BY <2>1, SlotServes
    <2>4. SessionsFor(h) /\ OpensKept /\ next_task <= next_task' /\ StepAnswered(step[h])'
      BY <1>1, <2>1, <2>2, Quiet, SessionNow, AnsweredElsewhere
    <2>5. QED
      BY <1>1, <2>1, <2>3, <2>4, SessionFrame
  <1>4. QED
    BY <1>2, <1>3, SentAnswered, ResentAnswered DEF SendStep, Resending

LEMMA CancelAnswered ==
    ASSUME ExecutorAssumption, TypeInv, TypeInv', LockInv, SlotInv, SessionInv, NEW h \in Hosts,
           CancelStep(h)
    PROVE  SessionInv'
  <1>1. h \in Actors
    BY DEF Actors
  <1>2. ASSUME NEW c \in Connections, NEW t \in Timestamps, RequestCancel(h, c, t)
        PROVE  SessionInv'
    <2> DEFINE q == request_cancel(session[c], t)
    <2>1. /\ Cancellable(session[c], t) /\ OnlyStep(h) /\ Lock(h, c)
          /\ session' = [session EXCEPT ![c] = q] /\ step'[h].at = "find_target"
          /\ UNCHANGED <<slot, connection, next_task, stopping>>
      BY <1>2, RequestEffect
    <2>2. /\ operation_mutex[c] = Nobody /\ session[c] \in Sessions
          /\ SoundFor(session[c], next_task)
      BY <1>1, <2>1, LockHeld, SessionNow
    <2>3. SoundFor(q, next_task) /\ SessionMove(session[c], q, NoTask, t)
      BY <2>1, <2>2, MoveCancel
    <2> HIDE DEF q
    <2>4. SessionsFor(h)
      BY <1>1, <2>1, <2>2, <2>3, OneSession
    <2>5. SlotsServe /\ OpensKept /\ next_task <= next_task' /\ StepAnswered(step[h])'
      BY <1>1, <2>1, Quiet, SessionNow, AnsweredElsewhere
    <2>6. QED
      BY <1>1, <2>1, <2>4, <2>5, SessionFrame
  <1>3. CASE Cancelling(h) \/ ReplaceCompleted(h)
    <2>1. /\ OnlyStep(h) /\ step'[h].at \in {"idle", "raise_stop", "replace"}
          /\ UNCHANGED <<connection, session, next_task, stopping>>
      BY <1>3, CancelEffect
    <2>2. SlotsServe
      <3>1. CASE UNCHANGED slot
        BY <3>1, Quiet
      <3>2. ASSUME NEW i \in Slots, OnlySlot(i), SameTask(i), slot'[i].state = "completed"
            PROVE  SlotsServe
        BY <3>2, SlotServes
      <3>3. CASE Cancelling(h)
        BY <1>3, <3>1, <3>3 DEF Cancelling, FindStopTarget, RaiseStop, executor
      <3>4. CASE ReplaceCompleted(h)
        BY <3>1, <3>2, <3>4, ReplaceEffect
      <3>5. QED
        BY <1>3, <3>3, <3>4
    <2>3. SessionsFor(h) /\ OpensKept /\ next_task <= next_task' /\ StepAnswered(step[h])'
      BY <1>1, <2>1, Quiet, SessionNow, AnsweredElsewhere
    <2>4. QED
      BY <1>1, <2>1, <2>2, <2>3, SessionFrame
  <1>4. QED
    BY <1>2, <1>3 DEF CancelStep

LEMMA CloseAnswered ==
    ASSUME ExecutorAssumption, TypeInv, TypeInv', LockInv, SlotInv, SessionInv, NEW a \in Actors,
           CloseStep(a)
    PROVE  SessionInv'
  <1> DEFINE c == step[a].connection
             z == close_locked(session[c])
  <1>1. LockedRight(step[a], a) /\ next_task \in Nat \ {0}
    BY LockParts, SessionNow
  <1>2. CASE ForceClose(a)
    <2>1. /\ OnlyStep(a) /\ step'[a].at = "close_session" /\ StopsOnly
          /\ UNCHANGED <<slot, session, next_task, stopping>>
      BY <1>2, ForceEffect
    <2>2. \A d \in Connections : connection[d].close_required => connection'[d].close_required
      BY <1>2 DEF ForceClose, TypeInv, TypeOK
    <2>3. OpensKept
      BY <2>1, <2>2, OpenEnds
    <2>4. QED
      BY <2>1, <2>3, IdleAnswered
  <1>3. CASE CloseSession(a)
    <2>1. /\ step[a].at = "close_session" /\ OnlyStep(a) /\ c \in Connections
          /\ step'[a].at = "handoff" /\ session' = [session EXCEPT ![c] = z]
          /\ UNCHANGED <<slot, connection, next_task, stopping>>
      BY <1>3, CloseSessionEffect
    <2>2. operation_mutex[c] = a
      BY <1>1, <2>1 DEF LockedRight, Locked
    <2>3. SoundFor(z, next_task) /\ SessionMove(session[c], z, NoTask, 0)
      BY <1>1, MoveClosed
    <2> HIDE DEF z
    <2>4. SessionsFor(a)
      BY <2>1, <2>2, <2>3, OneSession
    <2>5. SlotsServe /\ OpensKept /\ next_task <= next_task' /\ StepAnswered(step[a])'
      BY <1>1, <2>1, Quiet, SessionNow, AnsweredElsewhere
    <2>6. QED
      BY <2>1, <2>4, <2>5, SessionFrame
  <1>4. CASE CancelHandoff(a)
    <2> DEFINE i == Lowest(step[a].scan)
    <2>1. /\ step[a].at = "handoff" /\ OnlyStep(a) /\ c \in Connections /\ i \in Slots
          /\ step'[a].at = "handoff" \/ step'[a].at = step[a].then \/ step'[a].at = "idle"
          /\ UNCHANGED <<connection, session, next_task, stopping>>
      BY <1>4, HandoffEffect
    <2>2. session'[c].closed
      BY <1>1, <2>1 DEF LockedRight
    <2>3. step[a].then \in {"idle", "await_idle", "close_registry"}
      BY StepFields DEF Steps
    <2>4. SlotsServe
      <3>1. CASE UNCHANGED slot
        BY <3>1, Quiet
      <3>2. CASE i \in Owned(c) /\ Release(i, {"completed"})
        <4>1. OnlySlot(i) /\ Unneeded(i)
          BY <2>1, <2>2, <3>2, Released DEF Owned, Unneeded
        <4> HIDE DEF i
        <4>2. QED
          BY <2>1, <4>1, SlotServes
      <3>3. QED
        BY <1>4, <3>1, <3>2, HandoffSlots
    <2>5. SessionsFor(a) /\ OpensKept /\ next_task <= next_task'
      BY <1>1, <2>1, Quiet, SessionNow
    <2>6. StepAnswered(step[a])'
      BY <2>1, <2>3, AnsweredElsewhere
    <2>7. QED
      BY <2>1, <2>4, <2>5, <2>6, SessionFrame
  <1>5. QED
    BY <1>2, <1>3, <1>4 DEF CloseStep, Closing

LEMMA DetachAnswered ==
    ASSUME ExecutorAssumption, TypeInv, TypeInv', LockInv, SlotInv, SessionInv, NEW h \in Hosts,
           DetachStep(h) \/ ShutdownStep(h)
    PROVE  SessionInv'
  <1>1. h \in Actors
    BY DEF Actors
  <1>2. CASE DetachStep(h)
    <2>1. /\ OnlyStep(h) /\ UNCHANGED <<slot, session, next_task, stopping>>
          /\ step'[h].at \in {"idle", "close_session"}
      BY <1>2, DetachEffect
    <2>2. OpensKept
      BY <1>2, <2>1, DetachEffect, StopEnds, Quiet
    <2>3. QED
      BY <1>1, <2>1, <2>2, IdleAnswered
  <1>3. CASE ShutdownStep(h)
    <2>1. /\ OnlyStep(h) /\ UNCHANGED <<slot, connection, session, next_task>>
          /\ step'[h].at \in {"force_close", "idle", "close_registry", "raise_stops",
                              "await_registry"}
      BY <1>3, ShutdownEffect
    <2>2. stopping => stopping'
      BY <1>3 DEF ShutdownStep, ShutdownBegin, ShutdownJoin, ShuttingDown, CloseRegistry,
                  RegistryClosed, RaiseShutdownStops, ShutdownReturns, lifetime
    <2>3. OpensKept
      BY <2>1, <2>2 DEF OpensKept, Open
    <2>4. QED
      BY <1>1, <2>1, <2>3, IdleAnswered
  <1>4. QED
    BY <1>2, <1>3

\* A step of no actor: the head of a session is leased, or nothing happens.
LEMMA LeaseAnswered ==
    ASSUME TypeInv, TypeInv', SlotInv, SessionInv,
           \/ UNCHANGED vars
           \/ \E c \in Connections : BeginSend(c)
    PROVE  SessionInv'
  <1> DEFINE Alike == /\ UNCHANGED <<slot, step, connection, next_task, stopping>>
                      /\ \A d \in Connections :
                            /\ session'[d].entries = session[d].entries
                            /\ session'[d].closed = session[d].closed
                            /\ Carried(session'[d]) = Carried(session[d])
  <1>1. Alike
    <2>1. CASE UNCHANGED vars
      BY <2>1 DEF vars, executor, lifetime
    <2>2. ASSUME NEW c \in Connections, BeginSend(c)
          PROVE  Alike
      <3> DEFINE q == begin_send(session[c])
      <3>1. /\ session' = [session EXCEPT ![c] = q]
            /\ UNCHANGED <<slot, step, connection, next_task, stopping>>
        BY <2>2 DEF BeginSend, executor, lifetime
      <3>2. /\ q.entries = session[c].entries /\ q.closed = session[c].closed
            /\ Carried(q) = Carried(session[c])
        BY SessionNow, LeaseSession
      <3> HIDE DEF q
      <3>3. QED
        BY <3>1, <3>2 DEF TypeInv
    <2>3. QED
      BY <2>1, <2>2
  <1>2. \A c \in Connections : SessionSound(session[c])'
    BY <1>1 DEF SessionInv, SessionSound, Carried
  <1>3. ASSUME NEW a \in Actors
        PROVE  StepAnswered(step[a])'
    <2>1. StepAnswered(step[a]) /\ StepTyped(step[a])
      BY StepFields, SessionNow
    <2>2. CASE step[a].at \in {"admit", "commit", "finish", "retry_settle"}
      <3>1. step[a].connection \in Connections
        BY <2>1, <2>2 DEF StepTyped, Unconnected
      <3>2. QED
        BY <1>1, <2>1, <3>1 DEF StepAnswered, Carried
    <2>3. CASE step[a].at \notin {"admit", "commit", "finish", "retry_settle"}
      BY <1>1, <2>3 DEF StepAnswered
    <2>4. QED
      BY <2>2, <2>3
  <1>4. AnsweredOrOwned'
    BY <1>1 DEF SessionInv, AnsweredOrOwned, Owned, Open
  <1>5. QED
    BY <1>2, <1>3, <1>4 DEF SessionInv

\* SessionInv is kept by every step.
LEMMA SessionStep ==
    ASSUME ExecutorAssumption, RetriesFollowSends, TypeInv, TypeInv', LockInv, SlotInv, CountInv,
           SessionInv, [Next]_vars
    PROVE  SessionInv'
  <1>1. CASE Next
    BY <1>1, StepsOfNext, SubmitAnswered, WorkAnswered, SendAnswered, CancelAnswered,
       CloseAnswered, DetachAnswered, LeaseAnswered
  <1>2. CASE UNCHANGED vars
    BY <1>2, LeaseAnswered
  <1>3. QED
    BY <1>1, <1>2

-----------------------------------------------------------------------------
(* CloseInv: a connection that stopped is drained *)

Shuts == Closes \cup {"send_failed"}

\* What an actor knows of the connection it closes.
CloseRight(r) ==
    /\ r.at \in {"close_registry", "raise_stops"} => stopping
    /\ r.at \in Shuts /\ (~r.raise \/ r.then = "close_registry") => stopping
    /\ r.at \in {"close_session", "handoff"} => ~connection[r.connection].accepting
    /\ r.at = "handoff" =>
          \A i \in Owned(r.connection) \ r.scan :
             slot[i].state \in {"queued", "running"} /\ slot[i].task \in Stoppable
NoneReserved(c) == session[c].closed => \A i \in Owned(c) : slot[i].state # "reserved"
AllStoppable == stopping => \A i \in Slots \ In("free") : slot[i].task \in Stoppable
Drained(c) == \A i \in Owned(c) : /\ slot[i].state \in {"queued", "running"}
                                  /\ slot[i].task \in Stoppable
ClosingBy(r, c) == r.connection = c /\ r.at \in Shuts

LEMMA CloseParts ==
    CloseInv <=> /\ \A c \in Connections : NoneReserved(c)
                 /\ \A a \in Actors : CloseRight(step[a])
                 /\ AllStoppable
                 /\ \A c \in Connections : ~connection[c].accepting =>
                       Drained(c) \/ \E a \in Actors : ClosingBy(step[a], c)
  <1>1. \A c \in Connections : BeingClosed(c) <=> \E a \in Actors : ClosingBy(step[a], c)
    BY DEF BeingClosed, ClosingBy, Shuts, Closes
  <1>2. ClosedIsDrained <=>
           \A c \in Connections : ~connection[c].accepting /\ ~BeingClosed(c) => Drained(c)
    BY DEF ClosedIsDrained, Drained, Stoppable
  <1>3. CloseInv <=> /\ \A c \in Connections : NoneReserved(c)
                     /\ \A a \in Actors : CloseRight(step[a])
                     /\ AllStoppable /\ ClosedIsDrained
    BY DEF CloseInv, NoneReserved, CloseRight, AllStoppable, Shuts
  <1>4. QED
    BY <1>1, <1>2, <1>3

LEMMA CloseFromParts ==
    ASSUME \A c \in Connections : NoneReserved(c)', \A a \in Actors : CloseRight(step[a])',
           AllStoppable',
           \A c \in Connections : ~connection'[c].accepting =>
              Drained(c)' \/ \E a \in Actors : ClosingBy(step'[a], c)
    PROVE  CloseInv'
  <1>1. \A c \in Connections : BeingClosed(c)' <=> \E a \in Actors : ClosingBy(step'[a], c)
    BY DEF BeingClosed, ClosingBy, Shuts, Closes
  <1>2. \A c \in Connections : ~connection'[c].accepting /\ ~BeingClosed(c)' => Drained(c)'
    BY <1>1
  <1>3. ClosedIsDrained'
    BY <1>2 DEF ClosedIsDrained, Drained, Stoppable
  <1>4. QED
    BY <1>3 DEF CloseInv, NoneReserved, CloseRight, AllStoppable, Shuts

\* A slot keeps its task and gets no further from its end, unless it is reserved anew
\* while nothing has stopped.
Stays(i) ==
    /\ slot[i].state # "free" /\ SameTask(i)
    /\ slot'[i].state = "reserved" => slot[i].state = "reserved"
    /\ slot[i].state \in {"queued", "running"} =>
          \/ slot'[i].state \in {"queued", "running"}
          \/ connection[slot[i].connection].accepting
Taken(i) == \E c \in Connections :
    /\ ~stopping /\ ~stopping' /\ slot'[i].connection = c
    /\ connection[c].accepting /\ ~session'[c].closed
SlotsDrain == \A i \in Slots : slot'[i].state # "free" => Stays(i) \/ Taken(i)

\* Stops are only ever added.
StopsGrow ==
    /\ stopping => stopping'
    /\ StopsOnly
    /\ \A i \in Slots : slot[i].state # "free" /\ slot[i].task \in Stoppable =>
                           slot[i].task \in Stoppable'

\* Sessions close, and connections are done with, by who is closing them.
ClosesHere(a) == \A c \in Connections :
    session'[c].closed => \/ session[c].closed
                          \/ operation_mutex[c] \in {a, Nobody} /\ step[a].at \notin Submits
KeepsClosing(a) == \A c \in Connections :
    ~connection'[c].accepting =>
       \/ Drained(c)' \/ ClosingBy(step'[a], c)
       \/ ~connection[c].accepting /\ ~ClosingBy(step[a], c)

LEMMA DrainFrame ==
    ASSUME ExecutorAssumption, TypeInv, LockInv, SlotInv, CloseInv, NEW a \in Actors,
           OnlyStep(a), SlotsDrain, StopsGrow, ClosesHere(a), KeepsClosing(a),
           stopping' => stopping \/ AllStoppable', CloseRight(step[a])'
    PROVE  CloseInv'
  <1>1. ASSUME NEW c \in Connections
        PROVE  NoneReserved(c)'
    <2> SUFFICES ASSUME session'[c].closed, NEW i \in Slots, slot'[i].connection = c,
                        slot'[i].state = "reserved"
                 PROVE  FALSE
      BY DEF NoneReserved, Owned
    <2>1. ~Taken(i) /\ slot'[i].state # "free"
      BY DEF Taken
    <2>2. slot[i].state = "reserved" /\ slot[i].connection = c
      BY <2>1 DEF SlotsDrain, Stays, SameTask
    <2>3. PICK b \in Actors : step[b].at \in Submits /\ step[b].slot = i
      BY <2>2, SlotParts DEF SlotRight
    <2>4. step[b].connection = c /\ operation_mutex[c] = b
      BY <2>2, <2>3, InHands, HandsApart, LockParts DEF LockedRight, Locked
    <2>5. ~session[c].closed
      BY <2>2, CloseParts DEF NoneReserved, Owned
    <2>6. QED
      BY <2>3, <2>4, <2>5 DEF ClosesHere, ExecutorAssumption
  <1>2. ASSUME NEW c \in Connections, ~connection[c].accepting, NEW i \in Slots,
               slot'[i].state # "free", slot'[i].connection = c
        PROVE  /\ slot[i].state # "free" /\ slot[i].connection = c
               /\ slot[i].state \in {"queued", "running"} /\ slot[i].task \in Stoppable =>
                     slot'[i].state \in {"queued", "running"} /\ slot'[i].task \in Stoppable'
    <2>1. Stays(i)
      BY <1>2 DEF SlotsDrain, Taken
    <2>2. QED
      BY <1>2, <2>1 DEF Stays, SameTask, StopsGrow
  <1>3. ASSUME NEW b \in Actors
        PROVE  CloseRight(step[b])'
    <2>1. CASE b = a
      BY <2>1
    <2>2. CASE b # a
      <3>1. step'[b] = step[b] /\ CloseRight(step[b]) /\ StepTyped(step[b])
        BY <2>2, CloseParts, StepFields DEF OnlyStep
      <3>2. CASE step[b].at \in Shuts
        <4> DEFINE c == step[b].connection
        <4>1. c \in Connections
          BY <3>1, <3>2 DEF StepTyped, Unconnected, Shuts, Closes
        <4>2. /\ step[b].at \in {"close_session", "handoff"} =>
                    ~connection[c].accepting /\ ~connection'[c].accepting
              /\ ~step[b].raise \/ step[b].then = "close_registry" => stopping'
          BY <3>1, <3>2, <4>1 DEF CloseRight, StopsGrow, StopsOnly
        <4>3. ASSUME step[b].at = "handoff", NEW i \in Slots, i \notin step[b].scan,
                     slot'[i].state # "free", slot'[i].connection = c
              PROVE  slot'[i].state \in {"queued", "running"} /\ slot'[i].task \in Stoppable'
          <5>1. slot[i].state # "free" /\ slot[i].connection = c
            BY <1>2, <4>1, <4>2, <4>3
          <5>2. slot[i].state \in {"queued", "running"} /\ slot[i].task \in Stoppable
            BY <3>1, <4>3, <5>1 DEF CloseRight, Owned
          <5>3. QED
            BY <1>2, <4>1, <4>2, <4>3, <5>2
        <4>4. step[b].at \notin {"close_registry", "raise_stops"}
          BY <3>2 DEF Shuts, Closes
        <4>5. QED
          BY <3>1, <4>2, <4>3, <4>4 DEF CloseRight, Owned
      <3>3. CASE step[b].at \notin Shuts
        BY <3>1, <3>3 DEF CloseRight, Shuts, Closes, StopsGrow
      <3>4. QED
        BY <3>2, <3>3
    <2>3. QED
      BY <2>1, <2>2
  <1>4. AllStoppable'
    <2>1. ASSUME stopping, stopping', NEW i \in Slots, slot'[i].state # "free"
          PROVE  slot'[i].task \in Stoppable'
      <3>1. Stays(i)
        BY <2>1 DEF SlotsDrain, Taken
      <3>2. slot[i].task \in Stoppable
        BY <2>1, <3>1, CloseParts DEF AllStoppable, Stays, In
      <3>3. QED
        BY <3>1, <3>2 DEF Stays, SameTask, StopsGrow
    <2>2. QED
      BY <2>1 DEF AllStoppable, In
  <1>5. ASSUME NEW c \in Connections, ~connection'[c].accepting
        PROVE  Drained(c)' \/ \E b \in Actors : ClosingBy(step'[b], c)
    <2>1. CASE Drained(c)' \/ ClosingBy(step'[a], c)
      BY <2>1
    <2>2. CASE ~connection[c].accepting /\ ~ClosingBy(step[a], c)
      <3>1. CASE \E b \in Actors : ClosingBy(step[b], c)
        BY <2>2, <3>1 DEF OnlyStep
      <3>2. CASE Drained(c)
        BY <1>2, <2>2, <3>2 DEF Drained, Owned
      <3>3. QED
        BY <2>2, <3>1, <3>2, CloseParts
    <2>3. QED
      BY <1>5, <2>1, <2>2 DEF KeepsClosing
  <1>6. QED
    BY <1>1, <1>3, <1>4, <1>5, CloseFromParts

LEMMA Undrained ==
    /\ UNCHANGED slot => SlotsDrain
    /\ UNCHANGED <<stopping, connection, stop_requested, shutdown_stop_sources>> => StopsGrow
    /\ \A a \in Actors : SessionsMove => ClosesHere(a)
    /\ \A a \in Actors : UNCHANGED connection /\ step[a].at \notin Shuts => KeepsClosing(a)
    /\ \A a \in Actors : step'[a].at \notin Shuts \cup {"close_registry", "raise_stops"}
                            => CloseRight(step[a])'
  BY DEF SlotsDrain, Stays, SameTask, StopsGrow, StopsOnly, Stoppable, SessionsMove, ClosesHere,
         KeepsClosing, ClosingBy, CloseRight, Shuts, Closes

LEMMA SlotDrains ==
    ASSUME NEW i \in Slots, OnlySlot(i), slot'[i].state # "free" => Stays(i) \/ Taken(i)
    PROVE  SlotsDrain
  BY DEF OnlySlot, SlotsDrain, Stays, SameTask

\* A step that stops nothing and closes nothing.
LEMMA StillDrained ==
    ASSUME ExecutorAssumption, TypeInv, LockInv, SlotInv, CloseInv, NEW a \in Actors,
           OnlyStep(a), SlotsDrain, SessionsMove \/ ClosesHere(a),
           UNCHANGED <<stopping, connection, stop_requested, shutdown_stop_sources>>,
           step[a].at \notin Shuts,
           step'[a].at \notin Shuts \cup {"close_registry", "raise_stops"}
    PROVE  CloseInv'
  <1>1. StopsGrow /\ ClosesHere(a)
    BY Undrained
  <1>2. KeepsClosing(a)
    BY Undrained
  <1>3. CloseRight(step[a])'
    BY Undrained
  <1>4. QED
    BY <1>1, <1>2, <1>3, DrainFrame

LEMMA ElsewhereThanShuts ==
    /\ \A x \in Holds \cup {"idle", "exited", "retry", "find_target", "raise_stop", "replace",
                            "await_idle", "await_registry"} :
          x \notin Shuts \cup {"close_registry", "raise_stops"}
    /\ \A x \in Runs : x \in Holds
  BY DEF Holds, Submits, Runs, Retries, Shuts, Closes

LEMMA SubmitDrained ==
    ASSUME ExecutorAssumption, TypeInv, LockInv, SlotInv, CloseInv, NEW h \in Hosts, SubmitStep(h)
    PROVE  CloseInv'
  <1>1. h \in Actors
    BY DEF Actors
  <1>2. ASSUME NEW c \in Connections, NEW t \in Timestamps, SubmitReserve(h, c, t)
        PROVE  CloseInv'
    <2>1. PICK i \in Slots :
              /\ OnlySlot(i) /\ slot'[i].connection = c
              /\ step[h].at = "idle" /\ OnlyStep(h) /\ step'[h].at = "admit"
      BY <1>2, ReserveEffect
    <2>2. /\ ~stopping /\ connection[c].accepting /\ Lock(h, c)
          /\ UNCHANGED <<session, stopping, connection, stop_requested, shutdown_stop_sources>>
      BY <1>2 DEF SubmitReserve, Reservable, lifetime
    <2>3. ~session[c].closed
      <3>1. ASSUME NEW b \in Actors, step[b].at = "send_failed", step[b].connection = c
            PROVE  FALSE
        <4>1. operation_mutex[c] = b
          BY <3>1, LockParts DEF LockedRight, Locked
        <4>2. QED
          BY <1>1, <2>2, <4>1, LockHeld DEF ExecutorAssumption
      <3>2. QED
        BY <2>2, <3>1, LockParts DEF ClosedRight
    <2>4. Taken(i)
      BY <2>1, <2>2, <2>3 DEF Taken
    <2>5. SlotsDrain
      BY <2>1, <2>4, SlotDrains
    <2>6. SessionsMove
      BY <2>2, Unmoved
    <2>7. QED
      BY <1>1, <2>1, <2>2, <2>5, <2>6, StillDrained DEF Shuts, Closes
  <1>3. CASE SubmitAdmit(h)
    <2> DEFINE c == step[h].connection
               t == step[h].timestamp
               q == admit(session[c], t, step[h].task)
    <2>1. /\ step[h].at = "admit" /\ step'[h].at = "commit" /\ OnlyStep(h)
          /\ Admissible(session[c], t) /\ session' = [session EXCEPT ![c] = q]
          /\ UNCHANGED <<slot, stopping, connection, stop_requested, shutdown_stop_sources>>
      BY <1>3, AdmitEffect
    <2>2. step[h].at \in Holds
      BY <2>1 DEF Holds, Submits
    <2>3. c \in Connections /\ t \in Timestamps /\ step[h].task \in Tasks
          /\ session[c] \in Sessions /\ ~session[c].closed
      BY <1>1, <2>1, <2>2, InHands DEF Admissible, TypeInv
    <2>4. ~q.closed
      BY <2>3, AdmitSession
    <2> HIDE DEF q
    <2>5. SessionsMove /\ SlotsDrain
      BY <2>1, <2>3, <2>4, SessionMoves, Undrained
    <2>6. QED
      BY <1>1, <2>1, <2>5, StillDrained DEF Shuts, Closes
  <1>4. CASE SubmitRejected(h) \/ SubmitCommit(h) \/ SubmitRollback(h)
    <2> DEFINE i == step[h].slot
               c == step[h].connection
               q == rollback(session[c], step[h].timestamp)
    <2>1. /\ step[h].at \in Submits /\ step'[h].at = "idle" /\ OnlyStep(h)
          /\ i \in Slots /\ slot[i].state = "reserved"
          /\ UNCHANGED <<connection, stop_requested, stopping, shutdown_stop_sources>>
          /\ \/ SubmitCommit(h) /\ slot' = [slot EXCEPT ![i].state = "queued"]
             \/ ~SubmitCommit(h) /\ Release(i, {})
      BY <1>4, SubmitEnds
    <2>2. SlotsDrain
      <3>1. CASE slot' = [slot EXCEPT ![i].state = "queued"]
        <4> HIDE DEF i
        <4>1. OnlySlot(i) /\ SameTask(i) /\ slot'[i].state = "queued"
          BY <2>1, <3>1, SlotRestated
        <4>2. QED
          BY <2>1, <4>1, SlotDrains DEF Stays
      <3>2. CASE Release(i, {})
        <4> HIDE DEF i
        <4>1. OnlySlot(i) /\ slot'[i].state = "free"
          BY <2>1, <3>2, Released
        <4>2. QED
          BY <2>1, <4>1, SlotDrains
      <3>3. QED
        BY <2>1, <3>1, <3>2
    <2>3. SessionsMove
      <3>1. CASE SubmitRollback(h)
        <4>1. step[h].at = "commit" /\ session' = [session EXCEPT ![c] = q]
          BY <3>1 DEF SubmitRollback, At
        <4>2. step[h].at \in Holds
          BY <2>1, HandsApart
        <4>3. /\ c \in Connections /\ step[h].timestamp \in Timestamps /\ session[c] \in Sessions
              /\ ~session[c].closed
          BY <1>1, <4>1, <4>2, InHands, LockParts DEF LockedRight, TypeInv
        <4>4. ~q.closed
          BY <4>3, RollbackSession
        <4> HIDE DEF q
        <4>5. QED
          BY <4>1, <4>3, <4>4, SessionMoves
      <3>2. CASE ~SubmitRollback(h)
        BY <1>4, <3>2, Unmoved DEF SubmitRejected, SubmitCommit
      <3>3. QED
        BY <3>1, <3>2
    <2>4. step[h].at \notin Shuts /\ step'[h].at \notin Shuts \cup {"close_registry", "raise_stops"}
      BY <2>1, HandsApart, ElsewhereThanShuts
    <2>5. QED
      BY <1>1, <2>1, <2>2, <2>3, <2>4, StillDrained
  <1>5. QED
    BY <1>2, <1>3, <1>4 DEF SubmitStep, Submitting

LEMMA WorkDrained ==
    ASSUME ExecutorAssumption, TypeInv, LockInv, SlotInv, CountInv, CloseInv, NEW w \in Workers,
           WorkStep(w)
    PROVE  CloseInv'
  <1>1. /\ w \in Actors /\ step[w].at \in Runs \cup {"idle"} /\ OnlyStep(w)
        /\ step'[w].at \in Runs \cup {"idle", "exited", "force_close"}
        /\ SessionsMove /\ StopsOnly
    BY WorkPlaces, WorkSessions DEF Actors
  <1>2. step[w].at \notin Shuts
    BY <1>1, ElsewhereThanShuts
  <1>3. ASSUME SlotsDrain, UNCHANGED connection, step'[w].at # "force_close",
               UNCHANGED <<stopping, stop_requested, shutdown_stop_sources>>
        PROVE  CloseInv'
    <2>1. step'[w].at \notin Shuts \cup {"close_registry", "raise_stops"}
      BY <1>1, <1>3, ElsewhereThanShuts
    <2>2. QED
      BY <1>1, <1>2, <1>3, <2>1, StillDrained
  <1>4. CASE \/ StartStopped(w) \/ StartHandler(w) \/ HandlerReturns(w) \/ Settle(w)
             \/ PublishTerminal(w) \/ ClaimTerminal(w)
    <2>1. step'[w].at \in Runs
          /\ UNCHANGED <<slot, connection, stopping, stop_requested, shutdown_stop_sources>>
      BY <1>4, RunEffect
    <2>2. QED
      BY <1>3, <2>1, Undrained DEF Runs
  <1>5. CASE Progress(w) \/ Exit(w)
    <2>1. UNCHANGED <<slot, connection, stopping, stop_requested, shutdown_stop_sources>>
      BY <1>5 DEF Progress, Exit, executor, lifetime
    <2>2. step'[w].at # "force_close"
      <3>1. CASE Progress(w)
        BY <3>1 DEF Progress, At
      <3>2. CASE Exit(w)
        BY <1>1, <3>2, GoneTo DEF Exit, Places, Unconnected
      <3>3. QED
        BY <1>5, <3>1, <3>2
    <2>3. QED
      BY <1>3, <2>1, <2>2, Undrained
  <1>6. CASE Take(w)
    <2> DEFINE i == Head(queue)
    <2>1. /\ i \in Slots /\ OnlySlot(i) /\ SameTask(i) /\ slot'[i].state = "running"
          /\ slot[i].state = "queued" /\ step'[w].at = "dispatch"
      BY <1>6, TakeEffect DEF SameTask
    <2>2. UNCHANGED <<connection, stopping, stop_requested, shutdown_stop_sources>>
      BY <1>6 DEF Take, lifetime
    <2> HIDE DEF i
    <2>3. SlotsDrain
      BY <2>1, SlotDrains DEF Stays
    <2>4. QED
      BY <1>3, <2>1, <2>2, <2>3
  <1>7. CASE DropQueued(w)
    <2> DEFINE i == Head(queue)
    <2>1. /\ i \in Slots /\ OnlySlot(i) /\ slot'[i].state = "free" /\ step'[w].at = "idle"
          /\ UNCHANGED <<connection, stopping, stop_requested, shutdown_stop_sources>>
      BY <1>7, DropEffect, Released
    <2> HIDE DEF i
    <2>2. SlotsDrain
      BY <2>1, SlotDrains
    <2>3. QED
      BY <1>3, <2>1, <2>2
  <1>8. CASE FinishRetain(w)
    <2> DEFINE i == step[w].slot
    <2>1. /\ i \in Slots /\ OnlySlot(i) /\ SameTask(i) /\ slot'[i].state = "completed"
          /\ slot[i].state = "running" /\ step'[w].at = "idle"
          /\ slot[i].connection = step[w].connection /\ Open(step[w].connection)
          /\ UNCHANGED <<connection, stopping, stop_requested, shutdown_stop_sources>>
      BY <1>8, RetainEffect
    <2>2. Stays(i)
      BY <2>1 DEF Stays, Open
    <2> HIDE DEF i
    <2>3. SlotsDrain
      BY <2>1, <2>2, SlotDrains
    <2>4. QED
      BY <1>3, <2>1, <2>3
  <1>9. CASE FinishRelease(w)
    <2> DEFINE i == step[w].slot
               c == step[w].connection
    <2>1. /\ i \in Slots /\ OnlySlot(i) /\ slot'[i].state = "free" /\ c \in Connections
          /\ UNCHANGED <<stopping, stop_requested, shutdown_stop_sources>>
      BY <1>9, FinishEffect, Released
    <2> HIDE DEF i
    <2>2. SlotsDrain
      BY <2>1, SlotDrains
    <2>3. CASE step'[w].at = "idle" /\ UNCHANGED connection
      BY <1>3, <2>1, <2>2, <2>3
    <2>4. CASE /\ \A d \in Connections \ {c} : connection'[d] = connection[d]
               /\ step'[w].at = "force_close" /\ step'[w].connection = c
               /\ step'[w].raise /\ step'[w].then = "idle"
      <3>1. StopsGrow
        BY <1>1, <2>1 DEF StopsGrow, Stoppable
      <3>2. ClosesHere(w)
        BY <1>1, Undrained
      <3>3. KeepsClosing(w)
        BY <1>2, <2>4 DEF KeepsClosing, ClosingBy, Shuts, Closes
      <3>4. CloseRight(step[w])'
        BY <2>4 DEF CloseRight
      <3>5. QED
        BY <1>1, <2>1, <2>2, <3>1, <3>2, <3>3, <3>4, DrainFrame
    <2>5. QED
      BY <1>9, <2>3, <2>4, FinishEffect
  <1>10. QED
    BY <1>4, <1>5, <1>6, <1>7, <1>8, <1>9 DEF WorkStep, Working

LEMMA ClosesOne ==
    ASSUME TypeInv, NEW a \in Actors, NEW c \in Connections, NEW q,
           session' = [session EXCEPT ![c] = q], operation_mutex[c] \in {a, Nobody},
           step[a].at \notin Submits
    PROVE  ClosesHere(a)
  BY DEF TypeInv, ClosesHere

\* A connection that stops is being closed by whoever stopped it.
LEMMA StopCloses ==
    ASSUME NEW a \in Actors, NEW c \in Connections,
           \A d \in Connections \ {c} : connection'[d] = connection[d], ClosingBy(step'[a], c),
           step[a].at \in Shuts => step[a].connection = c
    PROVE  KeepsClosing(a)
  BY DEF KeepsClosing, ClosingBy

LEMMA StopGrows ==
    ASSUME StopsOnly, UNCHANGED <<stopping, stop_requested, shutdown_stop_sources>>
    PROVE  StopsGrow
  BY DEF StopsGrow, Stoppable

LEMMA OthersAccept ==
    ASSUME TypeInv, NEW c \in Connections, Stop(c)
    PROVE  \A d \in Connections \ {c} : connection'[d] = connection[d]
  BY DEF TypeInv, TypeOK, Stop

LEMMA SendDrained ==
    ASSUME ExecutorAssumption, TypeInv, LockInv, SlotInv, CloseInv, NEW h \in Hosts, SendStep(h)
    PROVE  CloseInv'
  <1>1. /\ h \in Actors /\ LockedRight(step[h], h) /\ StepTyped(step[h]) /\ step[h] \in Steps
        /\ CloseRight(step[h])
    BY LockParts, StepFields, CloseParts DEF Actors
  <1>2. ASSUME NEW c \in Connections, CompleteSend(h, c)
        PROVE  CloseInv'
    <2> DEFINE q == complete_send(session[c])
    <2>1. /\ Lock(h, c) /\ session' = [session EXCEPT ![c] = q] /\ step[h].at = "idle"
          /\ Become(h, Retrying(c))
          /\ UNCHANGED <<slot, connection, stopping, stop_requested, shutdown_stop_sources>>
      BY <1>2 DEF CompleteSend, At, executor, lifetime
    <2>2. OnlyStep(h) /\ step'[h].at = "retry"
      <3>1. step'[h] = Retrying(c) /\ OnlyStep(h)
        BY <1>1, <2>1, Became DEF OnlyStep
      <3>2. Retrying(c).at = "retry"
        BY DEF Retrying, Idle
      <3>3. QED
        BY <3>1, <3>2
    <2> HIDE DEF q
    <2>3. ClosesHere(h)
      BY <1>1, <2>1, LockHeld, ClosesOne DEF Submits
    <2>4. QED
      BY <1>1, <2>1, <2>2, <2>3, Undrained, ElsewhereThanShuts, StillDrained
  <1>3. ASSUME NEW c \in Connections, FailSend(h, c)
        PROVE  CloseInv'
    <2> DEFINE q == close_locked(session[c])
               r == [Idle EXCEPT !.at = "send_failed", !.connection = c]
    <2>1. /\ Lock(h, c) /\ session' = [session EXCEPT ![c] = q] /\ step[h].at = "idle"
          /\ Become(h, r)
          /\ UNCHANGED <<slot, connection, stopping, stop_requested, shutdown_stop_sources>>
      BY <1>3 DEF FailSend, At, executor, lifetime
    <2>2. r.at = "send_failed" /\ r.connection = c /\ r.raise /\ r.then = "idle"
      BY DEF Idle
    <2> HIDE DEF q, r
    <2>3. step'[h] = r /\ OnlyStep(h)
      BY <1>1, <2>1, Became DEF OnlyStep
    <2>4. ClosesHere(h)
      BY <1>1, <2>1, LockHeld, ClosesOne DEF Submits
    <2>5. SlotsDrain /\ StopsGrow
      BY <2>1, Undrained
    <2>6. KeepsClosing(h)
      BY <1>1, <2>1, Undrained DEF Shuts, Closes
    <2>7. CloseRight(step[h])'
      BY <2>2, <2>3 DEF CloseRight
    <2>8. QED
      BY <1>1, <2>1, <2>3, <2>4, <2>5, <2>6, <2>7, DrainFrame
  <1>4. CASE RetrySkip(h)
    <2>1. /\ step[h].at = "retry" /\ step'[h].at = "retry" /\ OnlyStep(h)
          /\ UNCHANGED <<slot, session, connection, stopping, stop_requested,
                         shutdown_stop_sources>>
      BY <1>4, SkipEffect DEF RetrySkip, executor, lifetime
    <2>2. SessionsMove
      BY <2>1, Unmoved
    <2>3. QED
      BY <1>1, <2>1, <2>2, Undrained, ElsewhereThanShuts, StillDrained
  <1>5. CASE RetryTake(h)
    <2>1. PICK i \in Slots :
             /\ slot[i].state = "completed" /\ slot'[i].state = "completed"
             /\ OnlySlot(i) /\ SameTask(i)
             /\ step[h].at = "retry" /\ OnlyStep(h) /\ step'[h].at = "retry_publish"
      BY <1>5, RetryTakeEffect DEF SameTask
    <2>2. UNCHANGED <<session, connection, stopping, stop_requested, shutdown_stop_sources>>
      BY <1>5 DEF RetryTake, lifetime
    <2>3. SlotsDrain
      BY <2>1, SlotDrains DEF Stays
    <2>4. SessionsMove
      BY <2>2, Unmoved
    <2>5. QED
      BY <1>1, <2>1, <2>2, <2>3, <2>4, StillDrained DEF Shuts, Closes
  <1>6. CASE RetryPublish(h)
    <2> DEFINE c == step[h].connection
               q == publish(session[c], step[h].timestamp, step[h].task, step[h].staged)
    <2>1. /\ step[h].at = "retry_publish" /\ step'[h].at = "retry_settle" /\ OnlyStep(h)
          /\ c \in Connections
          /\ session' = session \/ session' = [session EXCEPT ![c] = q]
          /\ UNCHANGED <<slot, connection, stopping, stop_requested, shutdown_stop_sources>>
      BY <1>6, RetryPublishEffect
    <2>2. operation_mutex[c] = h
      BY <1>1, <2>1 DEF LockedRight, Locked, Retries
    <2> HIDE DEF q
    <2>3. SessionsMove \/ ClosesHere(h)
      BY <1>1, <2>1, <2>2, Unmoved, ClosesOne DEF Submits
    <2>4. QED
      BY <1>1, <2>1, <2>3, Undrained, StillDrained DEF Shuts, Closes
  <1>7. CASE RetrySettle(h)
    <2> DEFINE i == step[h].slot
    <2>1. /\ i \in Slots /\ slot[i].state = "completed" /\ OnlyStep(h)
          /\ \/ OnlySlot(i) /\ SameTask(i) /\ slot'[i].state = "completed"
             \/ Release(i, {"completed"})
          /\ \A d \in Connections : connection'[d].accepting = connection[d].accepting
          /\ UNCHANGED <<session, stopping, stop_requested, shutdown_stop_sources>>
      BY <1>7, SettleEffect
    <2>2. step[h].at = "retry_settle" /\ step'[h].at = "retry"
      BY <1>7, RetrySettleEffect
    <2>3. SlotsDrain
      <3> HIDE DEF i
      <3>1. OnlySlot(i) /\ (slot'[i].state # "free" => Stays(i))
        BY <2>1, Released DEF Stays
      <3>2. QED
        BY <2>1, <3>1, SlotDrains
    <2>4. StopsGrow
      BY <2>1, StopGrows DEF StopsOnly
    <2>5. ClosesHere(h)
      BY <1>1, <2>1, Unmoved, Undrained
    <2>6. KeepsClosing(h)
      BY <2>1, <2>2 DEF KeepsClosing, ClosingBy, Shuts, Closes
    <2>7. CloseRight(step[h])'
      BY <1>1, <2>2, ElsewhereThanShuts, Undrained
    <2>8. QED
      BY <1>1, <2>1, <2>3, <2>4, <2>5, <2>6, <2>7, DrainFrame
  <1>8. CASE RetryDone(h)
    <2> DEFINE c == step[h].connection
               r == [Idle EXCEPT !.at = "close_session", !.connection = c]
    <2>1. /\ step[h].at = "retry" /\ c \in Connections
          /\ UNCHANGED <<slot, session, stopping, stop_requested, shutdown_stop_sources>>
      BY <1>1, <1>8 DEF RetryDone, At, StepTyped, Unconnected, executor, lifetime
    <2>2. r.at = "close_session" /\ r.connection = c /\ r.raise /\ r.then = "idle"
      BY DEF Idle
    <2> HIDE DEF r
    <2>3. SlotsDrain /\ SessionsMove /\ ClosesHere(h)
      BY <1>1, <2>1, Unmoved, Undrained
    <2>4. CASE Stop(c) /\ Become(h, r)
      <3>1. step'[h] = r /\ OnlyStep(h)
        BY <1>1, <2>4, Became DEF OnlyStep
      <3>2. StopsOnly /\ ~connection'[c].accepting
        BY <2>1, <2>4, StopStops
      <3>3. StopsGrow
        BY <2>1, <3>2, StopGrows
      <3>4. KeepsClosing(h)
        <4>1. ClosingBy(step'[h], c)
          BY <2>2, <3>1 DEF ClosingBy, Shuts, Closes
        <4>2. step[h].at \notin Shuts
          BY <2>1 DEF Shuts, Closes
        <4> HIDE DEF c
        <4>3. QED
          BY <1>1, <2>1, <2>4, <4>1, <4>2, OthersAccept, StopCloses
      <3>5. CloseRight(step[h])'
        BY <2>2, <3>1, <3>2 DEF CloseRight
      <3>6. QED
        BY <1>1, <2>1, <2>3, <3>1, <3>3, <3>4, <3>5, DrainFrame
    <2>5. CASE Become(h, Idle) /\ UNCHANGED connection
      <3>1. step'[h].at = "idle" /\ OnlyStep(h)
        BY <1>1, <2>5, IdleAgain
      <3>2. QED
        BY <1>1, <2>1, <2>3, <2>5, <3>1, ElsewhereThanShuts, StillDrained
    <2>6. QED
      BY <1>8, <2>4, <2>5 DEF RetryDone, r
  <1>9. CASE StopAfterFailure(h)
    <2> DEFINE c == step[h].connection
    <2>1. /\ step[h].at = "send_failed" /\ c \in Connections
          /\ Stop(c) /\ Become(h, Handoff(step[h]))
          /\ UNCHANGED <<slot, session, stopping, stop_requested, shutdown_stop_sources>>
      BY <1>1, <1>9 DEF StopAfterFailure, At, StepTyped, Unconnected, executor, lifetime
    <2>2. /\ step'[h].at = "handoff" /\ step'[h].connection = c /\ step'[h].scan = Slots
          /\ step'[h].raise = step[h].raise /\ step'[h].then = step[h].then /\ OnlyStep(h)
      BY <1>1, <2>1, Became, HandoffStep DEF OnlyStep
    <2>3. SlotsDrain /\ ClosesHere(h)
      BY <1>1, <2>1, Unmoved, Undrained
    <2>4. StopsOnly /\ ~connection'[c].accepting
      BY <2>1, StopStops
    <2>5. StopsGrow
      BY <2>1, <2>4, StopGrows
    <2>6. KeepsClosing(h)
      <3>1. ClosingBy(step'[h], c)
        BY <2>2 DEF ClosingBy, Shuts, Closes
      <3>2. QED
        BY <1>1, <2>1, <3>1, OthersAccept, StopCloses
    <2>7. CloseRight(step[h])'
      <3>1. ~step[h].raise \/ step[h].then = "close_registry" => stopping
        BY <1>1, <2>1 DEF CloseRight, Shuts
      <3>2. QED
        BY <2>1, <2>2, <2>4, <3>1 DEF CloseRight, Owned
    <2>8. QED
      BY <1>1, <2>1, <2>2, <2>3, <2>5, <2>6, <2>7, DrainFrame
  <1>10. QED
    BY <1>2, <1>3, <1>4, <1>5, <1>6, <1>7, <1>8, <1>9 DEF SendStep, Resending

LEMMA CancelDrained ==
    ASSUME ExecutorAssumption, TypeInv, LockInv, SlotInv, CloseInv, NEW h \in Hosts, CancelStep(h)
    PROVE  CloseInv'
  <1>1. h \in Actors
    BY DEF Actors
  <1>2. ASSUME NEW c \in Connections, NEW t \in Timestamps, RequestCancel(h, c, t)
        PROVE  CloseInv'
    <2> DEFINE q == request_cancel(session[c], t)
    <2>1. /\ Lock(h, c) /\ step[h].at = "idle" /\ OnlyStep(h) /\ step'[h].at = "find_target"
          /\ session' = [session EXCEPT ![c] = q]
          /\ UNCHANGED <<slot, connection, stopping, stop_requested, shutdown_stop_sources>>
      BY <1>2, RequestEffect
    <2> HIDE DEF q
    <2>2. ClosesHere(h)
      BY <1>1, <2>1, LockHeld, ClosesOne DEF Submits
    <2>3. QED
      BY <1>1, <2>1, <2>2, Undrained, ElsewhereThanShuts, StillDrained
  <1>3. CASE Cancelling(h) \/ ReplaceCompleted(h)
    <2>1. /\ step[h].at \in {"find_target", "raise_stop", "replace"} /\ OnlyStep(h)
          /\ step'[h].at \in {"idle", "raise_stop", "replace"}
          /\ UNCHANGED <<connection, session, stopping, shutdown_stop_sources>>
      BY <1>3, CancelEffect
    <2>2. SlotsDrain
      <3>1. CASE Cancelling(h)
        BY <3>1, Undrained DEF Cancelling, FindStopTarget, RaiseStop, executor
      <3>2. CASE ReplaceCompleted(h)
        <4>1. ASSUME NEW i \in Slots, OnlySlot(i), SameTask(i), slot[i].state = "completed",
                     slot'[i].state = "completed"
              PROVE  SlotsDrain
          BY <4>1, SlotDrains DEF Stays
        <4>2. QED
          BY <3>2, <4>1, ReplaceEffect, Undrained
      <3>3. QED
        BY <1>3, <3>1, <3>2
    <2>3. stop_requested \subseteq stop_requested'
      BY <1>3 DEF Cancelling, FindStopTarget, RaiseStop, ReplaceCompleted
    <2>4. StopsGrow
      BY <2>1, <2>3 DEF StopsGrow, StopsOnly, Stoppable
    <2>5. ClosesHere(h)
      BY <1>1, <2>1, Unmoved, Undrained
    <2>6. step[h].at \notin Shuts /\ step'[h].at \notin Shuts \cup {"close_registry", "raise_stops"}
      BY <2>1, ElsewhereThanShuts
    <2>7. KeepsClosing(h) /\ CloseRight(step[h])'
      BY <1>1, <2>1, <2>6, Undrained
    <2>8. QED
      BY <1>1, <2>1, <2>2, <2>4, <2>5, <2>7, DrainFrame
  <1>4. QED
    BY <1>2, <1>3 DEF CancelStep

\* What cancel_handoff has passed is told to stop, and retains nothing.
LEMMA Passed ==
    ASSUME TypeInv, LockInv, SlotInv, CloseInv, NEW a \in Actors, CancelHandoff(a)
    PROVE  LET c == step[a].connection  i == Lowest(step[a].scan) IN
           /\ SlotsDrain /\ StopsGrow
           /\ \A j \in Slots : (/\ slot'[j].state # "free" /\ slot'[j].connection = c
                                /\ j \notin step[a].scan \ {i}) =>
                 slot'[j].state \in {"queued", "running"} /\ slot'[j].task \in Stoppable'
  <1> DEFINE c == step[a].connection
             i == Lowest(step[a].scan)
  <1>1. /\ step[a].at = "handoff" /\ c \in Connections /\ i \in Slots
        /\ UNCHANGED <<connection, stopping, shutdown_stop_sources>>
    BY HandoffEffect
  <1>2. session[c].closed /\ CloseRight(step[a])
    BY <1>1, LockParts, CloseParts DEF LockedRight
  <1>3. stop_requested' = IF i \in Owned(c) /\ step[a].raise
                          THEN stop_requested \cup {slot[i].task} ELSE stop_requested
    BY DEF CancelHandoff
  <1>4. \/ UNCHANGED slot /\ ~(i \in Owned(c) /\ slot[i].state = "completed")
        \/ OnlySlot(i) /\ slot'[i].state = "free"
    BY <1>1, HandoffSlots, Released
  <1>5. StopsGrow
    BY <1>1, <1>3 DEF StopsGrow, StopsOnly, Stoppable
  <1> HIDE DEF i, c
  <1>6. SlotsDrain
    BY <1>1, <1>4, Undrained, SlotDrains
  <1>7. ASSUME NEW j \in Slots, slot'[j].state # "free", slot'[j].connection = c,
               j \notin step[a].scan \ {i}
        PROVE  slot'[j].state \in {"queued", "running"} /\ slot'[j].task \in Stoppable'
    <2>1. slot'[j] = slot[j] /\ j \in Owned(c)
      BY <1>4, <1>7 DEF OnlySlot, Owned
    <2>2. CASE j \notin step[a].scan
      BY <1>1, <1>2, <1>5, <2>1, <2>2 DEF CloseRight, StopsGrow, Owned, c
    <2>3. CASE j = i
      <3>1. slot[i].state # "completed" /\ i \in Owned(c)
        BY <1>4, <1>7, <2>1, <2>3
      <3>2. slot[i].state \in {"queued", "running"}
        <4>1. slot[i].state # "reserved"
          BY <1>1, <1>2, <3>1, CloseParts DEF NoneReserved
        <4>2. QED
          BY <3>1, <4>1, SlotFields DEF Owned, States
      <3>3. slot[i].task \in Stoppable'
        <4>1. CASE step[a].raise
          BY <1>3, <3>1, <4>1 DEF Stoppable
        <4>2. CASE ~step[a].raise
          <5>1. stopping
            BY <1>1, <1>2, <4>2 DEF CloseRight, Shuts, Closes
          <5>2. slot[i].task \in Stoppable
            BY <3>1, <5>1, CloseParts DEF AllStoppable, Owned, In
          <5>3. QED
            BY <1>1, <1>5, <3>1, <5>2 DEF StopsGrow, Owned
        <4>3. QED
          BY <4>1, <4>2
      <3>4. QED
        BY <2>1, <2>3, <3>2, <3>3
    <2>4. QED
      BY <1>7, <2>2, <2>3
  <1>8. QED
    BY <1>5, <1>6, <1>7 DEF i, c

LEMMA CloseDrained ==
    ASSUME ExecutorAssumption, TypeInv, LockInv, SlotInv, CloseInv, NEW a \in Actors, CloseStep(a)
    PROVE  CloseInv'
  <1> DEFINE c == step[a].connection
  <1>1. CloseRight(step[a]) /\ LockedRight(step[a], a) /\ step[a] \in Steps
    BY LockParts, CloseParts, StepFields
  <1>2. CASE ForceClose(a)
    <2>1. /\ step[a].at = "force_close" /\ OnlyStep(a) /\ c \in Connections
          /\ step'[a].at = "close_session" /\ SameHand(step'[a], step[a])
          /\ StopsOnly /\ ~connection'[c].accepting
          /\ \A d \in Connections \ {c} : connection'[d] = connection[d]
          /\ UNCHANGED <<slot, session, stopping, stop_requested, shutdown_stop_sources>>
      BY <1>2, ForceEffect
    <2>2. step'[a].connection = c
      BY <2>1 DEF SameHand
    <2>3. SlotsDrain /\ StopsGrow /\ ClosesHere(a)
      BY <2>1, Unmoved, Undrained, StopGrows
    <2>4. KeepsClosing(a)
      <3>1. ClosingBy(step'[a], c)
        BY <2>1, <2>2 DEF ClosingBy, Shuts, Closes
      <3>2. QED
        BY <2>1, <3>1, StopCloses
    <2>5. CloseRight(step[a])'
      <3>1. step'[a].raise = step[a].raise /\ step'[a].then = step[a].then
        BY <1>1, <1>2, <2>1 DEF ForceClose, Goto, Steps, TypeInv
      <3>2. QED
        BY <1>1, <2>1, <2>2, <3>1 DEF CloseRight, Shuts, Closes
    <2>6. QED
      BY <2>1, <2>3, <2>4, <2>5, DrainFrame
  <1>3. CASE CloseSession(a)
    <2> DEFINE q == close_locked(session[c])
    <2>1. /\ step[a].at = "close_session" /\ OnlyStep(a) /\ c \in Connections
          /\ step'[a].at = "handoff" /\ step'[a].scan = Slots
          /\ step'[a].connection = c /\ step'[a].raise = step[a].raise
          /\ step'[a].then = step[a].then
          /\ session' = [session EXCEPT ![c] = q]
          /\ UNCHANGED <<slot, connection, stopping, stop_requested, shutdown_stop_sources>>
      BY <1>3, CloseSessionEffect
    <2>2. operation_mutex[c] = a
      BY <1>1, <2>1 DEF LockedRight, Locked
    <2> HIDE DEF q
    <2>3. SlotsDrain /\ StopsGrow
      BY <2>1, Undrained
    <2>4. ClosesHere(a)
      BY <2>1, <2>2, ClosesOne DEF Submits
    <2>5. KeepsClosing(a)
      <3>1. ClosingBy(step'[a], c)
        BY <2>1 DEF ClosingBy, Shuts, Closes
      <3>2. QED
        BY <2>1, <3>1, StopCloses
    <2>6. CloseRight(step[a])'
      BY <1>1, <2>1 DEF CloseRight, Shuts, Closes, Owned
    <2>7. QED
      BY <2>1, <2>3, <2>4, <2>5, <2>6, DrainFrame
  <1>4. CASE CancelHandoff(a)
    <2> DEFINE i == Lowest(step[a].scan)
    <2>1. /\ step[a].at = "handoff" /\ OnlyStep(a) /\ c \in Connections
          /\ \/ /\ step[a].scan # {i} /\ step'[a].at = "handoff" /\ step'[a].connection = c
                /\ step'[a].scan = step[a].scan \ {i} /\ step'[a].raise = step[a].raise
                /\ step'[a].then = step[a].then
             \/ step[a].scan = {i} /\ step[a].then # "idle" /\ step'[a].at = step[a].then
             \/ step[a].scan = {i} /\ step[a].then = "idle" /\ step'[a].at = "idle"
          /\ UNCHANGED <<connection, session, stopping, shutdown_stop_sources>>
      BY <1>4, HandoffEffect
    <2>2. /\ SlotsDrain /\ StopsGrow
          /\ \A j \in Slots : (/\ slot'[j].state # "free" /\ slot'[j].connection = c
                               /\ j \notin step[a].scan \ {i}) =>
                slot'[j].state \in {"queued", "running"} /\ slot'[j].task \in Stoppable'
      BY <1>4, Passed
    <2>3. ClosesHere(a)
      BY <2>1, Unmoved, Undrained
    <2> HIDE DEF i, c
    <2>4. CASE step[a].scan # {i}
      <3>1. KeepsClosing(a)
        <4>1. ClosingBy(step'[a], c) /\ step[a].connection = c
          BY <2>1, <2>4 DEF ClosingBy, Shuts, Closes, c
        <4>2. QED
          BY <2>1, <4>1, StopCloses
      <3>2. CloseRight(step[a])'
        BY <1>1, <2>1, <2>2, <2>4 DEF CloseRight, Shuts, Closes, Owned, c
      <3>3. QED
        BY <2>1, <2>2, <2>3, <3>1, <3>2, DrainFrame
    <2>5. CASE step[a].scan = {i}
      <3>1. ASSUME NEW d \in Connections, ~connection'[d].accepting
            PROVE  Drained(d)' \/ (~connection[d].accepting /\ ~ClosingBy(step[a], d))
        <4>1. CASE d = c
          <5>1. \A j \in Slots : slot'[j].state # "free" /\ slot'[j].connection = d =>
                   slot'[j].state \in {"queued", "running"} /\ slot'[j].task \in Stoppable'
            BY <2>2, <2>5, <4>1
          <5>2. QED
            BY <5>1 DEF Drained, Owned
        <4>2. CASE d # c
          BY <2>1, <3>1, <4>2 DEF ClosingBy, c
        <4>3. QED
          BY <4>1, <4>2
      <3>2. KeepsClosing(a)
        BY <3>1 DEF KeepsClosing
      <3>3. step'[a].at \in {"idle", "await_idle", "close_registry"}
        BY <1>1, <2>1, <2>5 DEF Steps
      <3>4. step'[a].at = "close_registry" => stopping'
        BY <1>1, <2>1, <2>5 DEF CloseRight, Shuts, Closes
      <3>5. CloseRight(step[a])'
        BY <3>3, <3>4 DEF CloseRight, Shuts, Closes
      <3>6. QED
        BY <2>1, <2>2, <2>3, <3>2, <3>5, DrainFrame
    <2>6. QED
      BY <2>4, <2>5
  <1>5. QED
    BY <1>2, <1>3, <1>4 DEF CloseStep, Closing

LEMMA DetachDrained ==
    ASSUME ExecutorAssumption, TypeInv, LockInv, SlotInv, CloseInv, NEW h \in Hosts, DetachStep(h)
    PROVE  CloseInv'
  <1>1. h \in Actors
    BY DEF Actors
  <1>2. /\ step[h].at \in {"idle", "await_idle"} /\ OnlyStep(h) /\ StopsOnly
        /\ UNCHANGED <<slot, session, stopping, stop_requested, shutdown_stop_sources>>
    BY DetachEffect
  <1>3. SlotsDrain /\ StopsGrow /\ SessionsMove /\ ClosesHere(h)
    BY <1>1, <1>2, Unmoved, Undrained, StopGrows
  <1>4. step[h].at \notin Shuts
    BY <1>2, ElsewhereThanShuts
  <1>5. CASE step'[h].at = "idle" /\ UNCHANGED connection
    BY <1>1, <1>2, <1>3, <1>4, <1>5, ElsewhereThanShuts, StillDrained
  <1>6. ASSUME NEW c \in Connections, ~connection'[c].accepting,
               \A d \in Connections \ {c} : connection'[d] = connection[d],
               step'[h].at = "close_session", step'[h].connection = c,
               step'[h].raise, step'[h].then # "close_registry"
        PROVE  CloseInv'
    <2>1. KeepsClosing(h)
      <3>1. ClosingBy(step'[h], c)
        BY <1>6 DEF ClosingBy, Shuts, Closes
      <3>2. QED
        BY <1>1, <1>4, <1>6, <3>1, StopCloses
    <2>2. CloseRight(step[h])'
      BY <1>6 DEF CloseRight
    <2>3. QED
      BY <1>1, <1>2, <1>3, <2>1, <2>2, DrainFrame
  <1>7. QED
    BY <1>5, <1>6, DetachEffect

LEMMA ShutdownDrained ==
    ASSUME ExecutorAssumption, TypeInv, LockInv, SlotInv, CloseInv, NEW h \in Hosts,
           ShutdownStep(h)
    PROVE  CloseInv'
  <1> USE DEF At
  <1>1. h \in Actors /\ CloseRight(step[h]) /\ step[h] \in Steps
    BY CloseParts, StepFields DEF Actors
  <1>2. /\ step[h].at \in {"idle", "close_registry", "raise_stops", "await_registry"}
        /\ OnlyStep(h) /\ UNCHANGED <<slot, connection, session>>
    BY ShutdownEffect
  <1>3. step[h].at \notin Shuts
    BY <1>2 DEF Shuts, Closes
  <1>4. SlotsDrain /\ ClosesHere(h) /\ KeepsClosing(h)
    BY <1>1, <1>2, <1>3, Unmoved, Undrained
  <1>5. CASE ShutdownBegin(h)
    <2> DEFINE r == [Idle EXCEPT !.at = "close_registry", !.registry = Connections]
    <2>1. /\ ~stopping /\ stopping' /\ stop_requested' = stop_requested
          /\ shutdown_stop_sources' = {slot[i].task : i \in Slots \ In("free")} /\ Become(h, r)
      BY <1>5 DEF ShutdownBegin
    <2>2. r.at = "close_registry"
      BY DEF Idle
    <2> HIDE DEF r
    <2>3. step'[h] = r
      BY <1>1, <2>1, Became
    <2>4. \A i \in Slots : slot[i].state # "free" => slot[i].task \in Stoppable'
      BY <2>1 DEF Stoppable, In
    <2>5. AllStoppable'
      BY <1>2, <2>4 DEF AllStoppable, In
    <2>6. StopsGrow
      BY <1>2, <2>1, <2>4 DEF StopsGrow, StopsOnly
    <2>7. CloseRight(step[h])'
      BY <2>1, <2>2, <2>3 DEF CloseRight, Shuts, Closes
    <2>8. QED
      BY <1>1, <1>2, <1>4, <2>5, <2>6, <2>7, DrainFrame
  <1>6. CASE ~ShutdownBegin(h)
    <2>1. UNCHANGED stopping /\ Stoppable' = Stoppable
      <3>1. CASE RaiseShutdownStops(h)
        BY <3>1 DEF RaiseShutdownStops, Stoppable
      <3>2. CASE ~RaiseShutdownStops(h)
        BY <1>6, <3>2 DEF ShutdownStep, ShutdownJoin, ShuttingDown, CloseRegistry, RegistryClosed,
                          ShutdownReturns, lifetime, Stoppable
      <3>3. QED
        BY <3>1, <3>2
    <2>2. StopsGrow
      BY <1>2, <2>1 DEF StopsGrow, StopsOnly
    <2>3. CloseRight(step[h])'
      <3>1. CASE ShutdownJoin(h)
        <4>1. step'[h].at = "await_registry"
          BY <1>1, <3>1, GoneTo DEF ShutdownJoin, Places, Unconnected
        <4>2. QED
          BY <1>1, <4>1, ElsewhereThanShuts, Undrained
      <3>2. CASE ShutdownReturns(h)
        <4>1. step'[h].at = "idle"
          BY <1>1, <3>2, IdleAgain DEF ShutdownReturns
        <4>2. QED
          BY <1>1, <4>1, ElsewhereThanShuts, Undrained
      <3>3. CASE CloseRegistry(h)
        <4>1. PICK c \in step[h].registry :
                 Become(h, [Idle EXCEPT !.at = "force_close", !.connection = c, !.raise = FALSE,
                                !.then = "close_registry",
                                !.registry = step[h].registry \ {c}])
          BY <3>3 DEF CloseRegistry
        <4> DEFINE r == [Idle EXCEPT !.at = "force_close", !.connection = c, !.raise = FALSE,
                                !.then = "close_registry",
                                !.registry = step[h].registry \ {c}]
        <4>2. r.at = "force_close"
          BY DEF Idle
        <4>3. Become(h, r)
          BY <4>1
        <4> HIDE DEF r
        <4>4. step'[h].at = "force_close"
          BY <1>1, <4>2, <4>3, Became
        <4>5. stopping
          BY <1>1, <3>3 DEF CloseRegistry, CloseRight
        <4>6. QED
          BY <2>1, <4>4, <4>5 DEF CloseRight
      <3>4. CASE RegistryClosed(h)
        <4> DEFINE r == [Idle EXCEPT !.at = "raise_stops"]
        <4>1. r.at = "raise_stops" /\ Become(h, r)
          BY <3>4 DEF RegistryClosed, Idle
        <4> HIDE DEF r
        <4>2. step'[h].at = "raise_stops"
          BY <1>1, <4>1, Became
        <4>3. stopping
          BY <1>1, <3>4 DEF RegistryClosed, CloseRight
        <4>4. QED
          BY <2>1, <4>2, <4>3 DEF CloseRight, Shuts, Closes
      <3>5. CASE RaiseShutdownStops(h)
        <4>1. CASE UNCHANGED step
          BY <1>1, <1>3, <2>1, <3>5, <4>1 DEF RaiseShutdownStops, CloseRight, Shuts, Closes
        <4>2. CASE Goto(h, "await_registry")
          <5>1. step'[h].at = "await_registry"
            BY <1>1, <4>2, GoneTo DEF Places, Unconnected
          <5>2. QED
            BY <1>1, <5>1, ElsewhereThanShuts, Undrained
        <4>3. QED
          BY <3>5, <4>1, <4>2 DEF RaiseShutdownStops
      <3>6. QED
        BY <1>6, <3>1, <3>2, <3>3, <3>4, <3>5 DEF ShutdownStep, ShuttingDown
    <2>4. QED
      BY <1>1, <1>2, <1>4, <2>1, <2>2, <2>3, DrainFrame
  <1>7. QED
    BY <1>5, <1>6

\* A step of no actor closes nothing.
LEMMA NobodyDrains ==
    ASSUME CloseInv,
           UNCHANGED <<slot, step, connection, stopping, stop_requested, shutdown_stop_sources>>,
           \A c \in Connections : session'[c].closed => session[c].closed
    PROVE  CloseInv'
  <1>1. \A c \in Connections : NoneReserved(c)'
    BY CloseParts DEF NoneReserved, Owned
  <1>2. \A a \in Actors : CloseRight(step[a])'
    BY CloseParts DEF CloseRight, Owned, Stoppable
  <1>3. AllStoppable'
    BY CloseParts DEF AllStoppable, In, Stoppable
  <1>4. \A c \in Connections : ~connection'[c].accepting =>
           Drained(c)' \/ \E a \in Actors : ClosingBy(step'[a], c)
    BY CloseParts DEF Drained, Owned, Stoppable
  <1>5. QED
    BY <1>1, <1>2, <1>3, <1>4, CloseFromParts

\* CloseInv is kept by every step.
LEMMA DrainStep ==
    ASSUME ExecutorAssumption, RetriesFollowSends, TypeInv, LockInv, SlotInv, CountInv, CloseInv,
           [Next]_vars
    PROVE  CloseInv'
  <1>1. ASSUME NEW c \in Connections, BeginSend(c)
        PROVE  CloseInv'
    <2> DEFINE q == begin_send(session[c])
    <2>1. /\ session[c] \in Sessions /\ session' = [session EXCEPT ![c] = q]
          /\ UNCHANGED <<slot, step, connection, stopping, stop_requested, shutdown_stop_sources>>
      BY <1>1 DEF BeginSend, executor, lifetime, TypeInv
    <2>2. q.closed = session[c].closed
      BY <2>1, LeaseSession
    <2> HIDE DEF q
    <2>3. \A d \in Connections : session'[d].closed => session[d].closed
      BY <2>1, <2>2 DEF TypeInv
    <2>4. QED
      BY <2>1, <2>3, NobodyDrains
  <1>2. CASE Next
    BY <1>1, <1>2, StepsOfNext, SubmitDrained, WorkDrained, SendDrained, CancelDrained,
       CloseDrained, DetachDrained, ShutdownDrained
  <1>3. CASE UNCHANGED vars
    BY <1>3, NobodyDrains DEF vars, executor, lifetime
  <1>4. QED
    BY <1>2, <1>3

-----------------------------------------------------------------------------
(* The invariant *)

LEMMA InitType ==
    ASSUME ExecutorAssumption, Init
    PROVE  TypeInv
  <1>1. SlotsTyped
    BY FreeTyped DEF Init, SlotsTyped, Counters
  <1>2. ConnectionsTyped
    BY DEF Init, ConnectionsTyped
  <1>3. TasksTyped
    <2>1. 1 \in 1..(MaxTasks + 1)
      BY DEF ExecutorAssumption
    <2>2. QED
      BY <2>1 DEF Init, TasksTyped
  <1>4. SessionsTyped
    <2>1. max_queued_batches \in Nat
      BY DEF ExecutorAssumption
    <2>2. \A c \in Connections : session[c] = NewSession
      BY DEF Init
    <2>3. session \in [Connections -> Sessions]
      BY NewSessionFields DEF Init
    <2>4. QED
      BY <2>1, <2>2, <2>3, NewSessionFields DEF SessionsTyped
  <1>5. StepsTyped
    BY IdleTyped DEF Init, StepsTyped
  <1>6. QED
    BY <1>1, <1>2, <1>3, <1>4, <1>5, TypeParts

LEMMA InitInv ==
    ASSUME ExecutorAssumption, Init
    PROVE  ExecutorInv
  <1>1. TypeInv
    BY InitType
  <1>2. /\ \A a \in Actors : step[a].at = "idle"
        /\ \A c \in Connections : session[c] = NewSession /\ connection[c].accepting
        /\ \A i \in Slots : slot[i] = FreeSlot /\ slot[i].state = "free"
        /\ queue = <<>> /\ ~stopping
    BY IdleTyped DEF Init, FreeSlot
  <1>3. /\ \A c \in Connections : ~session[c].closed /\ Carried(session[c]) = {}
        /\ \A c \in Connections, t \in Timestamps : session[c].entries[t] = NoEntry
    BY <1>2, NewSessionFields
  <1>4. LockInv
    BY <1>2, <1>3 DEF LockInv, Locked, Submits, Retries
  <1>5. SlotInv
    BY <1>2 DEF SlotInv, Holds, Submits, Runs, Retries
  <1>6. CountInv
    <2>1. In("free") = Slots /\ \A f \in Busy : In(f) = {}
      BY <1>2 DEF In, Busy
    <2>2. Cardinality({}) = 0
      BY FS_EmptySet
    <2>3. \A f \in Counters : count[f] = 0
      BY DEF Init, Counters
    <2>4. CountsRight
      BY <2>1, <2>2, <2>3 DEF CountsRight, Busy, Counters
    <2>5. QueueRight
      <3>1. Len(queue) = 0 /\ 1..Len(queue) = {} /\ In("queued") = {}
        BY <1>2, <2>1 DEF Busy
      <3>2. QED
        BY <2>3, <3>1 DEF QueueRight, Counters
    <2>6. InBounds
      BY <2>3 DEF InBounds, Counters, ExecutorAssumption
    <2>7. QED
      BY <1>1, <2>4, <2>5, <2>6, CountParts DEF TypeInv
  <1>7. SessionInv
    <2>1. NoEntry.task = NoTask /\ NoTask < next_task /\ next_task = 1
      BY DEF Init, NoEntry, NoTask
    <2>2. \A c \in Connections : SessionSound(session[c])
      BY <1>3, <2>1 DEF SessionSound
    <2>3. \A a \in Actors : StepAnswered(step[a])
      BY <1>2 DEF StepAnswered
    <2>4. AnsweredOrOwned
      BY <1>3, <2>1 DEF AnsweredOrOwned
    <2>5. QED
      BY <2>2, <2>3, <2>4 DEF SessionInv
  <1>8. CloseInv
    <2>1. \A c \in Connections : NoneReserved(c)
      BY <1>3 DEF NoneReserved
    <2>2. \A a \in Actors : CloseRight(step[a])
      BY <1>2 DEF CloseRight, Shuts, Closes
    <2>3. QED
      BY <1>2, <2>1, <2>2, CloseParts DEF AllStoppable
  <1>9. QED
    BY <1>1, <1>4, <1>5, <1>6, <1>7, <1>8 DEF ExecutorInv

LEMMA StepInv ==
    ASSUME ExecutorAssumption, RetriesFollowSends, ExecutorInv, [Next]_vars
    PROVE  ExecutorInv'
  <1>1. TypeInv /\ LockInv /\ SlotInv /\ CountInv /\ SessionInv /\ CloseInv
    BY DEF ExecutorInv
  <1>2. TypeInv'
    BY <1>1, TypeStep
  <1>3. LockInv' /\ SlotInv' /\ CountInv' /\ CloseInv'
    BY <1>1, <1>2, LockStep, SlotStep, CountStep, DrainStep
  <1>4. SessionInv'
    BY <1>1, <1>2, SessionStep
  <1>5. QED
    BY <1>2, <1>3, <1>4 DEF ExecutorInv

\* The inductive invariant: every variable keeps its type, operation mutexes exclude,
\* slots are in one hand, counters and ring follow the slots, sessions agree with their
\* tasks and stopped connections are drained, whatever the interleaving of hosts and
\* workers (TriggerExecutor.cpp as a whole).
THEOREM ExecutorSound == RetriesFollowSends => (Spec => []ExecutorInv)
  <1> SUFFICES ASSUME RetriesFollowSends
               PROVE  Spec => []ExecutorInv
    OBVIOUS
  <1>1. Init => ExecutorInv
    BY InitInv, ExecutorAssumption
  <1>2. ExecutorInv /\ [Next]_vars => ExecutorInv'
    BY StepInv, ExecutorAssumption
  <1>3. QED
    BY <1>1, <1>2, PTL DEF Spec

-----------------------------------------------------------------------------
(* What it means *)

LEMMA CancelsWin ==
    ASSUME SessionInv
    PROVE  CancelWins
  BY DEF SessionInv, SessionSound, Carried, CancelWins

LEMMA AllAsLeft ==
    ASSUME ExecutorAssumption, TypeInv, LockInv, SlotInv, SessionInv, CloseInv
    PROVE  FoundAsLeft
  <1>1. \A a \in Actors : LockedRight(step[a], a) /\ StepAnswered(step[a]) /\ StepTyped(step[a])
    BY LockParts, SessionNow, StepFields
  <1>2. \A h \in Hosts : h \in Actors
    BY DEF Actors
  <1>3. PendingHeld
    <2>1. ASSUME NEW i \in In("completed"), slot[i].pending = "none"
          PROVE  operation_mutex[slot[i].connection] # Nobody
      <3>1. i \in Slots /\ slot[i].state = "completed"
        BY DEF In
      <3>2. PICK a \in Actors : step[a].at \in Retries /\ step[a].slot = i
        BY <2>1, <3>1, SlotParts DEF SlotRight
      <3>3. step[a].connection = slot[i].connection /\ step[a].at \in Locked
        BY <3>2, InHands, HandsApart DEF Locked
      <3>4. QED
        BY <1>1, <3>3 DEF LockedRight, ExecutorAssumption
    <2>2. ASSUME NEW h \in Hosts, step[h].at \in Retries
          PROVE  slot[step[h].slot].state = "completed" /\ slot[step[h].slot].task = step[h].task
      BY <1>2, <2>2, InHands, HandsApart
    <2>3. QED
      BY <2>1, <2>2 DEF PendingHeld, Retries
  <1>4. RollbackSucceeds
    <2> SUFFICES ASSUME NEW h \in Hosts, step[h].at = "commit"
                 PROVE  LET s == session[step[h].connection]  e == s.entries[step[h].timestamp] IN
                        ~s.closed /\ e.task = step[h].task /\ ~e.terminal_queued
      BY DEF RollbackSucceeds, At
    <2>1. QED
      BY <1>1, <1>2 DEF LockedRight, StepAnswered
  <1>5. NoSilentRelease
    <2> SUFFICES ASSUME NEW h \in Hosts, step[h].at = "await_idle"
                 PROVE  \A i \in Owned(step[h].connection) : slot[i].state # "reserved"
      BY DEF NoSilentRelease, At
    <2>1. step[h].connection \in Connections /\ session[step[h].connection].closed
      BY <1>1, <1>2 DEF LockedRight, StepTyped, Unconnected
    <2>2. QED
      BY <2>1, CloseParts DEF NoneReserved
  <1>6. QED
    BY <1>3, <1>4, <1>5 DEF FoundAsLeft

\* The counters that submit checks its limits against agree with the slots, whichever
\* way each task ended, and the ring holds every queued slot once.
THEOREM SlotAccountingAlways == RetriesFollowSends => (Spec => []SlotAccounting)
  <1>1. ExecutorInv => SlotAccounting
    BY DEF ExecutorInv, CountInv
  <1>2. QED
    BY <1>1, ExecutorSound, PTL

\* While its connection is open, a command that was admitted and has no terminal
\* response queued belongs to a slot: submit, run_worker and retry_pending lose none.
THEOREM AnsweredOrOwnedAlways == RetriesFollowSends => (Spec => []AnsweredOrOwned)
  <1>1. ExecutorInv => AnsweredOrOwned
    BY DEF ExecutorInv, SessionInv
  <1>2. QED
    BY <1>1, ExecutorSound, PTL

\* Once request_cancel accepted a cancel, the command ends with a cancelled response.
THEOREM CancelWinsAlways == RetriesFollowSends => (Spec => []CancelWins)
  <1>1. ExecutorInv => CancelWins
    BY CancelsWin DEF ExecutorInv
  <1>2. QED
    BY <1>1, ExecutorSound, PTL

\* A connection that nobody is closing any more after it stopped retains no response,
\* and its tasks were told to stop or are about to be: cancel_handoff misses none.
THEOREM ClosedIsDrainedAlways == RetriesFollowSends => (Spec => []ClosedIsDrained)
  <1>1. ExecutorInv => ClosedIsDrained
    BY DEF ExecutorInv, CloseInv
  <1>2. QED
    BY <1>1, ExecutorSound, PTL

\* A call that gave up the executor's mutex for another finds its slot, its admission and
\* its response as it left them, and nobody waits for a slot whose release is silent.
THEOREM FoundAsLeftAlways == RetriesFollowSends => (Spec => []FoundAsLeft)
  <1>1. ExecutorInv => FoundAsLeft
    BY AllAsLeft, ExecutorAssumption DEF ExecutorInv
  <1>2. QED
    BY <1>1, ExecutorSound, PTL
====
