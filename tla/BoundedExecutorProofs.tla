---- MODULE BoundedExecutorProofs ----
(***************************************************************************)
(* Each task has one outcome, a cancel's answer is true, a shutdown returns*)
(* only when everything is settled, and the executor keeps TaskPromises,   *)
(* for any number of tasks, workers, callers and places in the queue:      *)
(* because a task is in one pair of hands at a time and is claimed by one  *)
(* compare-and-swap, and because one caller chooses how to close.          *)
(***************************************************************************)
EXTENDS BoundedExecutor, TLAPS

-----------------------------------------------------------------------------
(* Sequences without repetition *)

Items(q) == {q[n] : n \in 1..Len(q)}
Distinct(q) == \A m, n \in 1..Len(q) : q[m] = q[n] => m = n

LEMMA EmptyItems == Items(<<>>) = {} /\ Distinct(<<>>)
  BY DEF Items, Distinct

LEMMA AppendItems ==
    ASSUME NEW S, NEW q \in Seq(S), NEW e \in S
    PROVE  /\ Append(q, e) \in Seq(S)
           /\ Items(Append(q, e)) = Items(q) \cup {e}
           /\ (Distinct(q) /\ e \notin Items(q)) => Distinct(Append(q, e))
  <1>1. /\ Append(q, e) \in Seq(S) /\ Len(q) \in Nat /\ Len(Append(q, e)) = Len(q) + 1
        /\ \A n \in 1..Len(q) : Append(q, e)[n] = q[n]
        /\ Append(q, e)[Len(q) + 1] = e
    OBVIOUS
  <1>2. 1..(Len(q) + 1) = 1..Len(q) \cup {Len(q) + 1}
    BY <1>1
  <1> DEFINE a == Append(q, e)
  <1> HIDE DEF a
  <1>3. Len(a) = Len(q) + 1 /\ (\A n \in 1..Len(q) : a[n] = q[n]) /\ a[Len(q) + 1] = e
    BY <1>1 DEF a
  <1>4. Items(a) = Items(q) \cup {e}
    BY <1>1, <1>2, <1>3 DEF Items
  <1>5. ASSUME Distinct(q), e \notin Items(q)
        PROVE  Distinct(a)
    BY <1>1, <1>2, <1>3, <1>5 DEF Items, Distinct
  <1>6. QED
    BY <1>1, <1>4, <1>5 DEF a

LEMMA TailItems ==
    ASSUME NEW S, NEW q \in Seq(S), q # <<>>
    PROVE  /\ Head(q) \in S /\ Head(q) \in Items(q)
           /\ Tail(q) \in Seq(S)
           /\ Items(q) = Items(Tail(q)) \cup {Head(q)}
           /\ Distinct(q) => Distinct(Tail(q)) /\ Head(q) \notin Items(Tail(q))
  <1>1. /\ Len(q) \in Nat \ {0} /\ Head(q) \in S /\ Head(q) = q[1]
        /\ Tail(q) \in Seq(S) /\ Len(Tail(q)) = Len(q) - 1
        /\ \A n \in 1..Len(Tail(q)) : Tail(q)[n] = q[n + 1]
    OBVIOUS
  <1> DEFINE r == Tail(q)
  <1> HIDE DEF r
  <1>2. Len(r) = Len(q) - 1 /\ \A n \in 1..Len(r) : r[n] = q[n + 1]
    BY <1>1 DEF r
  <1>3. q[1] \in Items(q)
    BY <1>1 DEF Items
  <1>4. Items(q) = Items(r) \cup {q[1]}
    <2>1. ASSUME NEW n \in 1..Len(q)
          PROVE  q[n] \in Items(r) \cup {q[1]}
      <3>1. CASE n = 1
        BY <3>1
      <3>2. CASE n # 1
        <4>1. n - 1 \in 1..Len(r) /\ r[n - 1] = q[n]
          BY <1>1, <1>2, <3>2
        <4>2. QED
          BY <4>1 DEF Items
      <3>3. QED
        BY <3>1, <3>2
    <2>2. ASSUME NEW n \in 1..Len(r)
          PROVE  r[n] \in Items(q)
      <3>1. n + 1 \in 1..Len(q) /\ r[n] = q[n + 1]
        BY <1>1, <1>2
      <3>2. QED
        BY <3>1 DEF Items
    <2>3. QED
      BY <1>3, <2>1, <2>2 DEF Items
  <1>5. ASSUME Distinct(q)
        PROVE  Distinct(r) /\ q[1] \notin Items(r)
    <2>1. \A n \in 1..Len(r) : n + 1 \in 1..Len(q) /\ n + 1 # 1
      BY <1>1, <1>2
    <2>2. 1 \in 1..Len(q)
      BY <1>1
    <2>3. QED
      BY <1>2, <1>5, <2>1, <2>2 DEF Items, Distinct
  <1>6. QED
    BY <1>1, <1>3, <1>4, <1>5 DEF r

LEMMA WithoutItems ==
    ASSUME NEW S, NEW q \in Seq(S), NEW t \in Items(q), Distinct(q)
    PROVE  /\ Without(q, t) \in Seq(S)
           /\ Items(Without(q, t)) = Items(q) \ {t}
           /\ Distinct(Without(q, t))
  <1> DEFINE k == CHOOSE n \in 1..Len(q) : q[n] = t
             r == [n \in 1..(Len(q) - 1) |-> IF n < k THEN q[n] ELSE q[n + 1]]
  <1>1. Len(q) \in Nat /\ \A n \in 1..Len(q) : q[n] \in S
    OBVIOUS
  <1>2. k \in 1..Len(q) /\ q[k] = t
    BY DEF Items
  <1>3. r = Without(q, t)
    BY DEF Without
  <1> HIDE DEF k
  <1>4. Len(q) - 1 \in Nat
    BY <1>1, <1>2
  <1>5. r \in Seq(S) /\ Len(r) = Len(q) - 1
    BY <1>1, <1>2, <1>4
  <1>6. \A n \in 1..(Len(q) - 1) : r[n] = IF n < k THEN q[n] ELSE q[n + 1]
    OBVIOUS
  <1> HIDE DEF r
  <1>7. Items(r) = Items(q) \ {t}
    <2>1. ASSUME NEW n \in 1..Len(r)
          PROVE  r[n] \in Items(q) /\ r[n] # t
      <3>1. CASE n < k
        <4>1. r[n] = q[n] /\ n \in 1..Len(q) /\ n # k
          BY <1>1, <1>2, <1>5, <1>6, <3>1
        <4>2. QED
          BY <1>2, <4>1 DEF Items, Distinct
      <3>2. CASE ~(n < k)
        <4>1. r[n] = q[n + 1] /\ n + 1 \in 1..Len(q) /\ n + 1 # k
          BY <1>1, <1>2, <1>5, <1>6, <3>2
        <4>2. QED
          BY <1>2, <4>1 DEF Items, Distinct
      <3>3. QED
        BY <3>1, <3>2
    <2>2. ASSUME NEW n \in 1..Len(q), q[n] # t
          PROVE  q[n] \in Items(r)
      <3>1. CASE n < k
        <4>1. n \in 1..Len(r) /\ r[n] = q[n]
          BY <1>1, <1>2, <1>5, <1>6, <3>1
        <4>2. QED
          BY <4>1 DEF Items
      <3>2. CASE ~(n < k)
        <4>1. n # k
          BY <1>2, <2>2
        <4>2. n - 1 \in 1..Len(r) /\ r[n - 1] = q[n]
          BY <1>1, <1>2, <1>5, <1>6, <3>2, <4>1
        <4>3. QED
          BY <4>2 DEF Items
      <3>3. QED
        BY <3>1, <3>2
    <2>3. QED
      BY <2>1, <2>2 DEF Items
  <1>8. Distinct(r)
    <2> SUFFICES ASSUME NEW m \in 1..Len(r), NEW n \in 1..Len(r), r[m] = r[n]
                 PROVE  m = n
      BY DEF Distinct
    <2> DEFINE at(i) == IF i < k THEN i ELSE i + 1
    <2>1. /\ at(m) \in 1..Len(q) /\ at(n) \in 1..Len(q)
          /\ r[m] = q[at(m)] /\ r[n] = q[at(n)]
      BY <1>1, <1>2, <1>5, <1>6
    <2>2. at(m) = at(n)
      BY <2>1 DEF Distinct
    <2>3. QED
      BY <1>2, <1>5, <2>2
  <1>9. QED
    BY <1>3, <1>5, <1>7, <1>8

-----------------------------------------------------------------------------
(* The invariant *)

Busy(w) == worker[w].at \in {"popped", "taken", "running", "fulfilled"}
Runs(w) == worker[w].at \in {"running", "fulfilled"}

InHand(t) == t \in Tasks /\ Accepted(t) /\ t \notin Items(queue) /\ ~cancel[t].removed

\* A task that nobody has begun, or somebody is running, is in one pair of hands: in the
\* queue once, with one worker, or with the canceller that took it off the queue.
OnePlace ==
    /\ Distinct(queue)
    /\ \A t \in Items(queue) : Accepted(t) /\ ~cancel[t].removed
    /\ \A w \in Workers : Busy(w) => InHand(worker[w].task)
    /\ \A v, w \in Workers : (Busy(v) /\ Busy(w) /\ worker[v].task = worker[w].task) => v = w
    /\ \A t \in Tasks : cancel[t].removed => Accepted(t)
    /\ \A t \in Tasks : cancel[t].at = "idle" => ~cancel[t].removed

ClaimedBy(w) ==
    /\ worker[w].at = "running" =>
          phase[worker[w].task] = "Running" /\ promise[worker[w].task] = "empty"
    /\ worker[w].at = "fulfilled" =>
          phase[worker[w].task] = "Running" /\ promise[worker[w].task] = "value"
SettledBy(c, t) == caller[c].at = "settle" /\ Head(caller[c].pending) = t
Consistent(t) ==
    /\ phase[t] = "Queued" => promise[t] = "empty"
    /\ phase[t] = "Running" => \E w \in Workers : Runs(w) /\ worker[w].task = t
    /\ phase[t] = "Finished" => promise[t] = "value"
    /\ phase[t] = "Cancelled" => promise[t] # "value"
    /\ (phase[t] = "Cancelled" /\ promise[t] = "empty") =>
          cancel[t].at = "settle" \/ \E c \in Callers : SettledBy(c, t)
    /\ cancel[t].at = "settle" => phase[t] = "Cancelled"
Settling(c) == caller[c].at = "settle" =>
    caller[c].pending # <<>> /\ phase[Head(caller[c].pending)] = "Cancelled"

\* The phase of a task and its promise say the same, but for a cancellation under way.
OneClaim == /\ \A w \in Workers : ClaimedBy(w)
            /\ \A t \in Tasks : Consistent(t)
            /\ \A c \in Callers : Settling(c)

\* A stop is requested of a task that began, by a call of its own handle that answered yes;
\* no call answers yes after another did.
Stopped(t) ==
    /\ stop[t] => phase[t] \in {"Running", "Finished"} /\ (cancel[t].before \/ cancel[t].reply)
    /\ cancel[t].before => phase[t] = "Cancelled" \/ stop[t]
    /\ cancel[t].reply => cancel[t].at \in {"notify", "done"}
    /\ cancel[t].at = "settle" => ~cancel[t].before
    /\ cancel[t].at = "stop" => phase[t] \in {"Running", "Finished"}
OneStop == \A t \in Tasks : Stopped(t)

\* Workers leave only when nothing can come, closers only when the workers have left.
LeftForGood ==
    /\ stopping => ~accepting
    /\ \A w \in Workers : worker[w].at = "exited" => stopping /\ queue = <<>>
    /\ \A c \in Callers : caller[c].at = "idle" => caller[c].pending = <<>>
    /\ \A c \in Closers : caller[c].at = "returned" =>
          \A w \in Workers : worker[w].at = "exited"

ExecutorInv ==
    TypeOK /\ OnePlace /\ OneClaim /\ OneStop /\ CancelAnswers /\ NoTaskLost /\ LeftForGood

LEMMA QueuedItems ==
    /\ \A t : Queued(t) <=> t \in Items(queue)
    /\ \A c : Pending(c) = Items(caller[c].pending)
  BY DEF Queued, Pending, Items

-----------------------------------------------------------------------------
(* Types *)

WorkerStates == [at : {"looking", "waiting", "popped", "taken", "running", "fulfilled", "exited"},
                 task : Tasks \cup {NoTask}]
ClientStates == {"new", "until", "waiting", "notify", "accepted", "full", "timeout", "shutdown"}
CancelStates == [at : {"idle", "claim", "settle", "stop", "notify", "done"},
                 removed : BOOLEAN, reply : BOOLEAN, before : BOOLEAN]
CallerStates == [at : {"idle", "cancel", "settle", "join", "joining", "returned"},
                 mode : Modes, chose : BOOLEAN, pending : Seq(Tasks), took : BOOLEAN]
TaskTyped ==
    /\ phase \in [Tasks -> {"Queued", "Running", "Finished", "Cancelled"}]
    /\ promise \in [Tasks -> {"empty", "value", "cancelled"}]
    /\ stop \in [Tasks -> BOOLEAN]
WorkerTyped == worker \in [Workers -> WorkerStates]
ClientTyped == client \in [Tasks -> ClientStates]
CancelTyped == cancel \in [Tasks -> CancelStates]
CallerTyped == caller \in [Callers -> CallerStates]
QueueTyped == queue \in Seq(Tasks) /\ accepting \in BOOLEAN /\ stopping \in BOOLEAN
ThreadsTyped == threads \in {"held", "taken", "detached"}

LEMMA TypedParts ==
    TypeOK <=> /\ QueueTyped /\ ThreadsTyped /\ TaskTyped
               /\ WorkerTyped /\ ClientTyped /\ CancelTyped /\ CallerTyped
  BY DEF TypeOK, QueueTyped, ThreadsTyped, TaskTyped, WorkerTyped, ClientTyped, CancelTyped,
     CallerTyped,
         WorkerStates, ClientStates, CancelStates, CallerStates

LEMMA NotifySpaceTyped ==
    ASSUME ClientTyped, NotifySpace
    PROVE  ClientTyped'
  BY DEF NotifySpace, ClientTyped, ClientStates

LEMMA NotifyWorkerTyped ==
    ASSUME WorkerTyped, NotifyWorker
    PROVE  WorkerTyped'
  BY DEF NotifyWorker, WorkerTyped, WorkerStates

LEMMA CancelEndsTyped ==
    ASSUME CancelTyped, NEW t \in Tasks, NEW reply \in BOOLEAN, CancelEnds(t, reply)
    PROVE  CancelTyped'
  BY DEF CancelEnds, CancelTyped, CancelStates

LEMMA TypeStep ==
    ASSUME TypeOK, OnePlace, OneClaim, [Next]_vars
    PROVE  TypeOK'
  <1> USE DEF state, task
  <1>a. /\ QueueTyped /\ ThreadsTyped /\ TaskTyped
        /\ WorkerTyped /\ ClientTyped /\ CancelTyped /\ CallerTyped
    BY TypedParts
  <1>b. /\ UNCHANGED state => QueueTyped'
        /\ UNCHANGED threads => ThreadsTyped'
        /\ UNCHANGED task => TaskTyped'
        /\ UNCHANGED worker => WorkerTyped'
        /\ UNCHANGED client => ClientTyped'
        /\ UNCHANGED cancel => CancelTyped'
        /\ UNCHANGED caller => CallerTyped'
    BY <1>a
       DEF QueueTyped, ThreadsTyped, TaskTyped, WorkerTyped, ClientTyped, CancelTyped,
           CallerTyped
  <1> DEFINE Parts == /\ QueueTyped /\ ThreadsTyped /\ TaskTyped
                      /\ WorkerTyped /\ ClientTyped /\ CancelTyped /\ CallerTyped
  <1> SUFFICES Parts'
    BY DEF TypeOK, QueueTyped, ThreadsTyped, TaskTyped, WorkerTyped, ClientTyped, CancelTyped,
       CallerTyped,
           WorkerStates, ClientStates, CancelStates, CallerStates
  <1>1. CASE UNCHANGED vars
    BY <1>1, <1>b DEF vars
  <1>2. ASSUME NEW t \in Tasks, TrySubmit(t) \/ SubmitUntil(t) \/ DeadlinePasses(t)
        PROVE  Parts'
    <2>1. UNCHANGED <<threads, task, worker, cancel, caller>>
      BY <1>2 DEF TrySubmit, SubmitUntil, DeadlinePasses
    <2>2. Push(t) \/ (\E why \in ClientStates : Refused(t, why))
      BY <1>2 DEF TrySubmit, SubmitUntil, DeadlinePasses, ClientStates
    <2>3. CASE Push(t)
      <3>1. QueueTyped'
        BY <1>a, <2>3, AppendItems DEF Push, QueueTyped
      <3>2. ClientTyped'
        BY <1>a, <2>3 DEF Push, ClientTyped, ClientStates
      <3>3. QED
        BY <1>b, <2>1, <3>1, <3>2
    <2>4. CASE \E why \in ClientStates : Refused(t, why)
      <3>1. ClientTyped' /\ UNCHANGED state
        BY <1>a, <2>4 DEF Refused, ClientTyped
      <3>2. QED
        BY <1>b, <2>1, <3>1
    <2>5. QED
      BY <2>2, <2>3, <2>4
  <1>3. ASSUME NEW t \in Tasks, Submitted(t)
        PROVE  Parts'
    <2>1. WorkerTyped'
      BY <1>3, <1>a, NotifyWorkerTyped DEF Submitted
    <2>2. ClientTyped'
      BY <1>3, <1>a DEF Submitted, ClientTyped, ClientStates
    <2>3. QED
      BY <1>3, <1>b, <2>1, <2>2 DEF Submitted
  <1>4. ASSUME NEW w \in Workers, Pop(w)
        PROVE  Parts'
    <2>1. Head(queue) \in Tasks /\ Tail(queue) \in Seq(Tasks)
      BY <1>4, <1>a, TailItems DEF Pop, QueueTyped
    <2>2. QueueTyped'
      BY <1>4, <1>a, <2>1 DEF Pop, QueueTyped
    <2>3. WorkerTyped'
      BY <1>4, <1>a, <2>1 DEF Pop, WorkerTyped, WorkerStates
    <2>4. QED
      BY <1>4, <1>b, <2>2, <2>3 DEF Pop
  <1>5. ASSUME NEW w \in Workers, Sleep(w) \/ Exit(w)
        PROVE  Parts'
    <2>1. WorkerTyped'
      BY <1>5, <1>a DEF Sleep, Exit, WorkerTyped, WorkerStates
    <2>2. QED
      BY <1>5, <1>b, <2>1 DEF Sleep, Exit
  <1>6. ASSUME NEW w \in Workers, Popped(w)
        PROVE  Parts'
    <2>1. WorkerTyped'
      BY <1>6, <1>a DEF Popped, WorkerTyped, WorkerStates
    <2>2. ClientTyped'
      BY <1>6, <1>a, NotifySpaceTyped DEF Popped
    <2>3. QED
      BY <1>6, <1>b, <2>1, <2>2 DEF Popped
  <1>7. ASSUME NEW w \in Workers, BeginExecution(w) \/ Fulfil(w) \/ FinishExecution(w)
        PROVE  Parts'
    <2>1. WorkerTyped'
      BY <1>7, <1>a DEF BeginExecution, Fulfil, FinishExecution, WorkerTyped, WorkerStates
    <2>2. TaskTyped'
      <3>1. CASE BeginExecution(w) \/ FinishExecution(w)
        BY <3>1, <1>a DEF BeginExecution, FinishExecution, TaskTyped
      <3>2. CASE Fulfil(w)
        <4>1. worker[w].task \in Tasks
          BY <3>2 DEF Fulfil, OnePlace, InHand, Busy
        <4>2. QED
          BY <3>2, <1>a, <4>1 DEF Fulfil, TaskTyped
      <3>3. QED
        BY <1>7, <3>1, <3>2
    <2>3. UNCHANGED <<state, threads, client, cancel, caller>>
      BY <1>7 DEF BeginExecution, Fulfil, FinishExecution
    <2>4. QED
      BY <1>a, <1>b, <2>1, <2>2, <2>3
  <1>8. ASSUME NEW t \in Tasks, Cancel(t)
        PROVE  Parts'
    <2>1. QueueTyped'
      <3>1. queue' \in Seq(Tasks)
        BY <1>8, <1>a, QueuedItems, WithoutItems DEF Cancel, QueueTyped, OnePlace
      <3>2. QED
        BY <1>8, <1>a, <3>1 DEF Cancel, QueueTyped
    <2>2. CancelTyped'
      <3>1. Queued(t) \in BOOLEAN
        BY DEF Queued
      <3>2. QED
        BY <1>8, <1>a, <3>1 DEF Cancel, CancelTyped, CancelStates
    <2>3. QED
      BY <1>8, <1>b, <2>1, <2>2 DEF Cancel
  <1>9. ASSUME NEW t \in Tasks, CancelClaims(t)
        PROVE  Parts'
    <2>1. TaskTyped' /\ UNCHANGED <<state, threads, worker, client, caller>>
      BY <1>9, <1>a DEF CancelClaims, TaskTyped
    <2>2. CancelTyped'
      <3>1. CASE CancelEnds(t, FALSE)
        BY <1>a, <3>1, CancelEndsTyped
      <3>2. CASE \E there \in {"settle", "stop"} : cancel' = [cancel EXCEPT ![t].at = there]
        BY <1>a, <3>2 DEF CancelTyped, CancelStates
      <3>3. QED
        BY <1>9, <3>1, <3>2 DEF CancelClaims
    <2>3. QED
      BY <1>b, <2>1, <2>2
  <1>10. ASSUME NEW t \in Tasks, CancelSettles(t) \/ RequestStop(t)
         PROVE  Parts'
    <2>1. TaskTyped' /\ UNCHANGED <<state, threads, worker, client, caller>>
      BY <1>10, <1>a DEF CancelSettles, RequestStop, SetCancelledException, TaskTyped
    <2>2. CancelTyped'
      <3>1. (~stop[t]) \in BOOLEAN
        OBVIOUS
      <3>2. QED
        BY <1>10, <1>a, <3>1, CancelEndsTyped DEF CancelSettles, RequestStop
    <2>3. QED
      BY <1>b, <2>1, <2>2
  <1>11. ASSUME NEW t \in Tasks, CancelNotifies(t)
         PROVE  Parts'
    <2>1. CancelTyped'
      BY <1>11, <1>a DEF CancelNotifies, CancelTyped, CancelStates
    <2>2. ClientTyped'
      BY <1>11, <1>a, NotifySpaceTyped DEF CancelNotifies
    <2>3. QED
      BY <1>11, <1>b, <2>1, <2>2 DEF CancelNotifies
  <1>12. ASSUME NEW c \in Callers, NEW m \in Modes, BeginShutdown(c, m)
         PROVE  Parts'
    <2>1. QueueTyped' /\ UNCHANGED <<threads, task, worker, client, cancel>>
      <3>1. <<>> \in Seq(Tasks)
        OBVIOUS
      <3>2. queue' \in {queue, <<>>} /\ accepting' \in {accepting, FALSE} /\ stopping' \in {stopping, TRUE}
        BY <1>12 DEF BeginShutdown
      <3>3. UNCHANGED <<threads, task, worker, client, cancel>>
        BY <1>12 DEF BeginShutdown
      <3>4. QED
        BY <1>a, <3>1, <3>2, <3>3 DEF QueueTyped
    <2>2. CallerTyped'
      <3>1. CASE caller' = [caller EXCEPT ![c].at = "join"]
        BY <1>a, <3>1 DEF CallerTyped, CallerStates
      <3>2. ASSUME NEW q \in Seq(Tasks),
                   caller' = [caller EXCEPT ![c] = [@ EXCEPT !.at = "cancel", !.mode = m,
                                                             !.chose = TRUE, !.pending = q]]
            PROVE  CallerTyped'
        <4>1. [caller[c] EXCEPT !.at = "cancel", !.mode = m, !.chose = TRUE, !.pending = q] \in CallerStates
          BY <1>a DEF CallerTyped, CallerStates
        <4>2. QED
          BY <1>a, <3>2, <4>1 DEF CallerTyped
      <3>3. queue \in Seq(Tasks) /\ <<>> \in Seq(Tasks)
        BY <1>a DEF QueueTyped
      <3>4. CASE m = "CancelPending"
        BY <1>12, <3>1, <3>2, <3>3, <3>4 DEF BeginShutdown
      <3>5. CASE m # "CancelPending"
        BY <1>12, <3>1, <3>2, <3>3, <3>5 DEF BeginShutdown
      <3>6. QED
        BY <3>4, <3>5
    <2>3. QED
      BY <1>b, <2>1, <2>2
  <1>13. ASSUME NEW c \in Callers, ShutdownClaims(c) \/ ShutdownSettles(c)
         PROVE  Parts'
    <2>1. caller[c].pending \in Seq(Tasks) /\ caller[c].pending # <<>>
      BY <1>13, <1>a
         DEF CallerTyped, CallerStates, OneClaim, Settling, ShutdownClaims, ShutdownSettles
    <2>2. Head(caller[c].pending) \in Tasks /\ Tail(caller[c].pending) \in Seq(Tasks)
      BY <2>1, TailItems
    <2>3. TaskTyped' /\ UNCHANGED <<state, threads, worker, client, cancel>>
      BY <1>13, <1>a, <2>2 DEF ShutdownClaims, ShutdownSettles, SetCancelledException, TaskTyped
    <2>4. CallerTyped'
      <3>1. caller[c] \in CallerStates
        BY <1>a DEF CallerTyped
      <3>2. /\ [caller[c] EXCEPT !.at = "settle"] \in CallerStates
            /\ [caller[c] EXCEPT !.pending = Tail(caller[c].pending)] \in CallerStates
            /\ [caller[c] EXCEPT !.at = "cancel", !.pending = Tail(caller[c].pending)] \in CallerStates
        BY <2>2, <3>1 DEF CallerStates
      <3>3. CASE ShutdownSettles(c)
        <4>1. caller' = [caller EXCEPT ![c] = [caller[c] EXCEPT !.at = "cancel",
                                                                !.pending = Tail(caller[c].pending)]]
          BY <3>1, <3>3 DEF ShutdownSettles, CallerStates
        <4>2. QED
          BY <1>a, <3>2, <4>1 DEF CallerTyped
      <3>4. CASE ShutdownClaims(c)
        <4>1. CASE caller' = [caller EXCEPT ![c].at = "settle"]
          BY <1>a, <3>2, <4>1 DEF CallerTyped
        <4>2. CASE caller' = [caller EXCEPT ![c].pending = Tail(@)]
          BY <1>a, <3>2, <4>2 DEF CallerTyped
        <4>3. QED
          BY <3>4, <4>1, <4>2 DEF ShutdownClaims
      <3>5. QED
        BY <1>13, <3>3, <3>4
    <2>5. QED
      BY <1>b, <2>3, <2>4
  <1>14. ASSUME NEW c \in Callers, ShutdownNotifies(c)
         PROVE  Parts'
    <2>1. WorkerTyped'
      BY <1>14, <1>a DEF ShutdownNotifies, WorkerTyped, WorkerStates
    <2>2. ClientTyped'
      BY <1>14, <1>a DEF ShutdownNotifies, ClientTyped, ClientStates
    <2>3. CallerTyped'
      BY <1>14, <1>a DEF ShutdownNotifies, CallerTyped, CallerStates
    <2>4. QED
      BY <1>14, <1>b, <2>1, <2>2, <2>3 DEF ShutdownNotifies
  <1>15. ASSUME NEW c \in Callers, JoinAll(c) \/ WaitForWorkers(c)
         PROVE  Parts'
    <2>1. ThreadsTyped' /\ UNCHANGED <<state, task, worker, client, cancel>>
      BY <1>15, <1>a DEF JoinAll, WaitForWorkers, ThreadsTyped
    <2>2. CallerTyped'
      <3>1. CASE caller' = [caller EXCEPT ![c].at = "returned"]
        BY <1>a, <3>1 DEF CallerTyped, CallerStates
      <3>2. CASE caller' = [caller EXCEPT ![c] = [@ EXCEPT !.at = "joining", !.took = (threads = "held")]]
        BY <1>a, <3>2 DEF CallerTyped, CallerStates
      <3>3. QED
        BY <1>15, <3>1, <3>2 DEF JoinAll, WaitForWorkers
    <2>3. QED
      BY <1>b, <2>1, <2>2
  <1>16. CASE SpuriousWakeup
    <2>1. WorkerTyped' /\ ClientTyped'
      <3>1. CASE \E t \in Tasks : client' = [client EXCEPT ![t] = "until"] /\ UNCHANGED worker
        BY <1>a, <1>b, <3>1 DEF ClientTyped, ClientStates
      <3>2. CASE \E w \in Workers : worker' = [worker EXCEPT ![w].at = "looking"] /\ UNCHANGED client
        BY <1>a, <1>b, <3>2 DEF WorkerTyped, WorkerStates
      <3>3. QED
        BY <1>16, <3>1, <3>2 DEF SpuriousWakeup
    <2>2. QED
      BY <1>16, <1>b, <2>1 DEF SpuriousWakeup
  <1>17. CASE Finished
    BY <1>17, <1>b DEF Finished, vars
  <1>18. QED
    BY <1>1, <1>2, <1>3, <1>4, <1>5, <1>6, <1>7, <1>8, <1>9, <1>10, <1>11, <1>12, <1>13, <1>14,
       <1>15, <1>16, <1>17 DEF Next, Client, Worker, Cancelling, Closing

-----------------------------------------------------------------------------
(* What the notifications leave alone *)

WokenWorkers == \A w \in Workers : \/ worker'[w] = worker[w]
                                   \/ worker[w].at = "waiting" /\ worker'[w].at = "looking"
WokenClients == \A t \in Tasks : \/ client'[t] = client[t]
                                 \/ client[t] = "waiting" /\ client'[t] = "until"

LEMMA NotifyWakes ==
    ASSUME TypeOK
    PROVE  /\ NotifyWorker => WokenWorkers
           /\ NotifySpace => WokenClients
           /\ UNCHANGED worker => WokenWorkers
           /\ UNCHANGED client => WokenClients
           /\ SpuriousWakeup => WokenWorkers /\ WokenClients
           /\ \A c \in Callers : ShutdownNotifies(c) => WokenWorkers /\ WokenClients
  <1>1. WorkerTyped /\ ClientTyped
    BY TypedParts
  <1>2. ASSUME NEW w \in Workers, worker[w].at = "waiting", worker' = [worker EXCEPT ![w].at = "looking"]
        PROVE  WokenWorkers
    BY <1>1, <1>2 DEF WokenWorkers, WorkerTyped, WorkerStates
  <1>3. ASSUME NEW t \in Tasks, client[t] = "waiting", client' = [client EXCEPT ![t] = "until"]
        PROVE  WokenClients
    BY <1>1, <1>3 DEF WokenClients, ClientTyped
  <1>4. UNCHANGED worker => WokenWorkers
    BY DEF WokenWorkers
  <1>5. UNCHANGED client => WokenClients
    BY DEF WokenClients
  <1>6. NotifyWorker => WokenWorkers
    BY <1>2, <1>4 DEF NotifyWorker
  <1>7. NotifySpace => WokenClients
    BY <1>3, <1>5 DEF NotifySpace
  <1>8. SpuriousWakeup => WokenWorkers /\ WokenClients
    BY <1>2, <1>3, <1>4, <1>5 DEF SpuriousWakeup
  <1>9. ASSUME NEW c \in Callers, ShutdownNotifies(c)
        PROVE  WokenWorkers /\ WokenClients
    <2>1. WokenWorkers
      BY <1>1, <1>9 DEF ShutdownNotifies, WokenWorkers, WorkerTyped, WorkerStates
    <2>2. WokenClients
      BY <1>1, <1>9 DEF ShutdownNotifies, WokenClients
    <2>3. QED
      BY <2>1, <2>2
  <1>10. QED
    BY <1>4, <1>5, <1>6, <1>7, <1>8, <1>9

-----------------------------------------------------------------------------
(* One pair of hands *)

\* A step that takes nothing into anybody's hands.
NothingTaken ==
    /\ UNCHANGED queue
    /\ \A t \in Tasks : Accepted(t) => Accepted(t)'
    /\ \A t \in Tasks : /\ cancel'[t].removed = cancel[t].removed
                        /\ cancel'[t].at = "idle" => cancel[t].at = "idle"
    /\ \A w \in Workers : Busy(w)' => Busy(w) /\ worker'[w].task = worker[w].task

LEMMA NothingTakenOnePlace ==
    ASSUME TypeOK, OnePlace, NothingTaken
    PROVE  OnePlace'
  <1>1. \A t \in Items(queue) : t \in Tasks
    BY DEF TypeOK, Items
  <1>2. Items(queue)' = Items(queue) /\ Distinct(queue)' = Distinct(queue)
    BY DEF NothingTaken, Items, Distinct
  <1>3. /\ Distinct(queue)'
        /\ \A t \in Items(queue)' : Accepted(t)' /\ ~cancel'[t].removed
    BY <1>1, <1>2 DEF NothingTaken, OnePlace
  <1>4. ASSUME NEW w \in Workers, Busy(w)', NEW u, u = worker'[w].task
        PROVE  InHand(u)'
    BY <1>2, <1>4 DEF NothingTaken, OnePlace, InHand
  <1>5. \A v, w \in Workers : (Busy(v)' /\ Busy(w)' /\ worker'[v].task = worker'[w].task) => v = w
    BY DEF NothingTaken, OnePlace
  <1>6. \A t \in Tasks : /\ cancel'[t].removed => Accepted(t)'
                         /\ cancel'[t].at = "idle" => ~cancel'[t].removed
    BY DEF NothingTaken, OnePlace
  <1>7. QED
    BY <1>3, <1>4, <1>5, <1>6 DEF OnePlace

LEMMA PlaceStep ==
    ASSUME TypeOK, OnePlace, [Next]_vars
    PROVE  OnePlace'
  <1> USE DEF state, task
  <1>a. QueueTyped /\ WorkerTyped /\ ClientTyped /\ CancelTyped
    BY TypedParts
  <1>b. SUFFICES ASSUME ~NothingTaken
                 PROVE  OnePlace'
    BY NothingTakenOnePlace
  <1>c. /\ WokenClients => \A t \in Tasks : Accepted(t) => Accepted(t)'
        /\ WokenWorkers => \A w \in Workers : Busy(w)' => Busy(w) /\ worker'[w].task = worker[w].task
        /\ UNCHANGED cancel => \A t \in Tasks : /\ cancel'[t].removed = cancel[t].removed
                                                /\ cancel'[t].at = "idle" => cancel[t].at = "idle"
    BY DEF WokenClients, WokenWorkers, Accepted, Busy
  <1>d. /\ UNCHANGED worker => WokenWorkers
        /\ UNCHANGED client => WokenClients
    BY NotifyWakes
  <1>1. CASE UNCHANGED vars \/ Finished \/ SpuriousWakeup
    <2>1. UNCHANGED <<queue, cancel>> /\ WokenClients /\ WokenWorkers
      BY <1>1, <1>d, NotifyWakes DEF vars, Finished, SpuriousWakeup
    <2>2. QED
      BY <1>b, <1>c, <2>1 DEF NothingTaken
  <1>2. ASSUME NEW t \in Tasks, TrySubmit(t) \/ SubmitUntil(t) \/ DeadlinePasses(t)
        PROVE  OnePlace'
    <2>1. UNCHANGED <<worker, cancel>> /\ ~Accepted(t)
      BY <1>2 DEF TrySubmit, SubmitUntil, DeadlinePasses, Accepted
    <2>2. Push(t) \/ (\E why \in ClientStates : Refused(t, why))
      BY <1>2 DEF TrySubmit, SubmitUntil, DeadlinePasses, ClientStates
    <2>3. CASE Push(t)
      <3>1. \A u \in Tasks : Accepted(u)' <=> (Accepted(u) \/ u = t)
        BY <1>a, <2>3 DEF Push, Accepted, ClientTyped
      <3>2. t \notin Items(queue)
        BY <2>1 DEF OnePlace
      <3>3. Items(queue)' = Items(queue) \cup {t} /\ Distinct(queue)'
        <4>1. Items(Append(queue, t)) = Items(queue) \cup {t} /\ Distinct(Append(queue, t))
          BY <1>a, <3>2, AppendItems DEF QueueTyped, OnePlace
        <4>2. QED
          BY <2>3, <4>1 DEF Push, Items, Distinct
      <3>4. ~cancel[t].removed
        BY <2>1 DEF OnePlace
      <3>5. \A w \in Workers : (Busy(w)' <=> Busy(w)) /\ worker'[w].task = worker[w].task
        BY <2>1 DEF Busy
      <3>6. Items(queue) \subseteq Tasks
        BY <1>a DEF QueueTyped, Items
      <3>7. /\ \A u \in Items(queue)' : Accepted(u)' /\ ~cancel'[u].removed
            /\ \A u \in Tasks : cancel'[u].removed => Accepted(u)'
            /\ \A u \in Tasks : cancel'[u].at = "idle" => ~cancel'[u].removed
        BY <2>1, <3>1, <3>3, <3>4, <3>6 DEF OnePlace
      <3>8. ASSUME NEW w \in Workers, Busy(w)', NEW u, u = worker'[w].task
            PROVE  InHand(u)'
        BY <2>1, <3>1, <3>3, <3>5, <3>8 DEF OnePlace, InHand
      <3>9. \A v, w \in Workers : (Busy(v)' /\ Busy(w)' /\ worker'[v].task = worker'[w].task) => v = w
        BY <3>5 DEF OnePlace
      <3>10. QED
        BY <3>3, <3>7, <3>8, <3>9 DEF OnePlace
    <2>4. CASE \E why \in ClientStates : Refused(t, why)
      <3>1. UNCHANGED queue /\ \A u \in Tasks : Accepted(u) => Accepted(u)'
        BY <1>a, <2>1, <2>4 DEF Refused, Accepted, ClientTyped
      <3>2. QED
        BY <1>b, <1>c, <1>d, <2>1, <3>1 DEF NothingTaken
    <2>5. QED
      BY <2>2, <2>3, <2>4
  <1>3. ASSUME NEW t \in Tasks, Submitted(t)
        PROVE  OnePlace'
    <2>1. \A u \in Tasks : Accepted(u) => Accepted(u)'
      BY <1>a, <1>3 DEF Submitted, Accepted, ClientTyped
    <2>2. UNCHANGED <<queue, cancel>> /\ WokenWorkers
      BY <1>3, NotifyWakes DEF Submitted
    <2>3. QED
      BY <1>b, <1>c, <2>1, <2>2 DEF NothingTaken
  <1>4. ASSUME NEW w \in Workers, Pop(w)
        PROVE  OnePlace'
    <2> DEFINE t == Head(queue)
    <2>1. /\ t \in Tasks /\ t \in Items(queue)
          /\ Items(queue) = Items(Tail(queue)) \cup {t}
          /\ Distinct(Tail(queue)) /\ t \notin Items(Tail(queue))
      BY <1>4, <1>a, TailItems DEF Pop, QueueTyped, OnePlace
    <2>2. Items(queue)' = Items(Tail(queue)) /\ Distinct(queue)' = Distinct(Tail(queue))
      BY <1>4 DEF Pop, Items, Distinct
    <2> HIDE DEF t
    <2>3. UNCHANGED <<client, cancel>> /\ \A u \in Tasks : Accepted(u)' <=> Accepted(u)
      BY <1>4 DEF Pop, Accepted
    <2>4. worker'[w].task = t /\ \A v \in Workers \ {w} : worker'[v] = worker[v]
      BY <1>4, <1>a DEF Pop, WorkerTyped, t
    <2>5. Items(queue) \subseteq Tasks
      BY <1>a DEF QueueTyped, Items
    <2>6. /\ Distinct(queue)'
          /\ \A u \in Items(queue)' : Accepted(u)' /\ ~cancel'[u].removed
          /\ \A u \in Tasks : cancel'[u].removed => Accepted(u)'
          /\ \A u \in Tasks : cancel'[u].at = "idle" => ~cancel'[u].removed
      BY <2>1, <2>2, <2>3, <2>5 DEF OnePlace
    <2>7. Accepted(t) /\ ~cancel[t].removed /\ \A v \in Workers : Busy(v) => worker[v].task # t
      BY <2>1 DEF OnePlace, InHand
    <2>8. \A v \in Workers \ {w} : Busy(v)' => Busy(v) /\ worker'[v].task = worker[v].task
      BY <2>4 DEF Busy
    <2>9. ASSUME NEW v \in Workers, Busy(v)', NEW u, u = worker'[v].task
          PROVE  InHand(u)'
      <3>1. CASE v = w
        BY <2>1, <2>2, <2>3, <2>4, <2>7, <2>9, <3>1 DEF InHand
      <3>2. CASE v # w
        BY <2>1, <2>2, <2>3, <2>8, <2>9, <3>2 DEF OnePlace, InHand
      <3>3. QED
        BY <3>1, <3>2
    <2>10. \A u, v \in Workers : (Busy(u)' /\ Busy(v)' /\ worker'[u].task = worker'[v].task) => u = v
      BY <2>4, <2>7, <2>8 DEF OnePlace
    <2>11. QED
      BY <2>6, <2>9, <2>10 DEF OnePlace
  <1>5. ASSUME NEW w \in Workers,
               Sleep(w) \/ Exit(w) \/ Popped(w) \/ BeginExecution(w) \/ Fulfil(w) \/ FinishExecution(w)
        PROVE  OnePlace'
    <2>1. UNCHANGED <<queue, cancel>> /\ WokenClients
      BY <1>5, <1>d, NotifyWakes DEF Sleep, Exit, Popped, BeginExecution, Fulfil, FinishExecution
    <2>2. \A v \in Workers : Busy(v)' => Busy(v) /\ worker'[v].task = worker[v].task
      BY <1>5, <1>a DEF Sleep, Exit, Popped, BeginExecution, Fulfil, FinishExecution, Busy,
                       WorkerTyped, WorkerStates
    <2>3. QED
      BY <1>b, <1>c, <2>1, <2>2 DEF NothingTaken
  <1>6. ASSUME NEW t \in Tasks, Cancel(t)
        PROVE  OnePlace'
    <2>1. /\ UNCHANGED <<worker, client>> /\ Accepted(t)
          /\ \A u \in Tasks : Accepted(u)' <=> Accepted(u)
          /\ \A w \in Workers : (Busy(w)' <=> Busy(w)) /\ worker'[w].task = worker[w].task
      BY <1>6 DEF Cancel, Accepted, Busy, OnePlace
    <2>2. /\ \A u \in Tasks : u # t => cancel'[u] = cancel[u]
          /\ cancel'[t].at = "claim" /\ cancel'[t].removed = Queued(t)
      BY <1>6, <1>a DEF Cancel, CancelTyped, CancelStates
    <2>3. Items(queue) \subseteq Tasks
      BY <1>a DEF QueueTyped, Items
    <2>4. Distinct(queue)' /\ Items(queue)' = Items(queue) \ {t}
      <3>1. CASE Queued(t)
        <4>1. Distinct(Without(queue, t)) /\ Items(Without(queue, t)) = Items(queue) \ {t}
          BY <1>a, <3>1, QueuedItems, WithoutItems DEF QueueTyped, OnePlace
        <4>2. queue' = Without(queue, t)
          BY <1>6, <3>1 DEF Cancel
        <4>3. QED
          BY <4>1, <4>2 DEF Items, Distinct
      <3>2. CASE ~Queued(t)
        <4>1. queue' = queue /\ t \notin Items(queue) /\ Distinct(queue)
          BY <1>6, <3>2, QueuedItems DEF Cancel, OnePlace
        <4>2. QED
          BY <4>1 DEF Items, Distinct
      <3>3. QED
        BY <3>1, <3>2
    <2>5. /\ \A u \in Items(queue)' : Accepted(u)' /\ ~cancel'[u].removed
          /\ \A u \in Tasks : cancel'[u].removed => Accepted(u)'
          /\ \A u \in Tasks : cancel'[u].at = "idle" => ~cancel'[u].removed
      BY <2>1, <2>2, <2>3, <2>4 DEF OnePlace
    <2>6. ASSUME NEW w \in Workers, Busy(w)', NEW u, u = worker'[w].task
          PROVE  InHand(u)'
      <3>1. InHand(u)
        BY <2>1, <2>6 DEF OnePlace
      <3>2. QED
        BY <2>1, <2>2, <2>4, <3>1, QueuedItems DEF InHand
    <2>7. \A v, w \in Workers : (Busy(v)' /\ Busy(w)' /\ worker'[v].task = worker'[w].task) => v = w
      BY <2>1 DEF OnePlace
    <2>8. QED
      BY <2>4, <2>5, <2>6, <2>7 DEF OnePlace
  <1>7. ASSUME NEW t \in Tasks,
               CancelClaims(t) \/ CancelSettles(t) \/ RequestStop(t) \/ CancelNotifies(t)
        PROVE  OnePlace'
    <2>1. UNCHANGED <<queue, worker>> /\ WokenClients
      BY <1>7, <1>d, NotifyWakes DEF CancelClaims, CancelSettles, RequestStop, CancelNotifies
    <2>2. \A u \in Tasks : /\ cancel'[u].removed = cancel[u].removed
                           /\ cancel'[u].at = "idle" => cancel[u].at = "idle"
      BY <1>7, <1>a DEF CancelClaims, CancelSettles, RequestStop, CancelNotifies, CancelEnds,
                       CancelTyped, CancelStates
    <2>3. QED
      BY <1>b, <1>c, <1>d, <2>1, <2>2 DEF NothingTaken
  <1>8. ASSUME NEW c \in Callers, NEW m \in Modes, BeginShutdown(c, m)
        PROVE  OnePlace'
    <2>1. UNCHANGED <<worker, client, cancel>> /\ queue' \in {queue, <<>>}
      BY <1>8 DEF BeginShutdown
    <2>2. CASE queue' = queue
      BY <1>b, <1>c, <1>d, <2>1, <2>2 DEF NothingTaken
    <2>3. CASE queue' = <<>>
      <3>1. Items(queue)' = {} /\ Distinct(queue)'
        BY <2>3, EmptyItems DEF Items, Distinct
      <3>2. QED
        BY <2>1, <3>1 DEF OnePlace, InHand, Accepted, Busy
    <2>4. QED
      BY <2>1, <2>2, <2>3
  <1>9. ASSUME NEW c \in Callers, ShutdownClaims(c) \/ ShutdownSettles(c) \/ ShutdownNotifies(c)
                                  \/ JoinAll(c) \/ WaitForWorkers(c)
        PROVE  OnePlace'
    <2>1. UNCHANGED <<queue, cancel>> /\ WokenClients /\ WokenWorkers
      BY <1>9, <1>d, NotifyWakes
         DEF ShutdownClaims, ShutdownSettles, ShutdownNotifies, JoinAll, WaitForWorkers
    <2>2. QED
      BY <1>b, <1>c, <2>1 DEF NothingTaken
  <1>10. QED
    BY <1>1, <1>2, <1>3, <1>4, <1>5, <1>6, <1>7, <1>8, <1>9
       DEF Next, Client, Worker, Cancelling, Closing

-----------------------------------------------------------------------------
(* One claim *)

\* A step that claims, settles and finishes no task.
NothingClaimed ==
    /\ UNCHANGED <<phase, promise>>
    /\ \A w \in Workers : /\ Runs(w)' <=> Runs(w)
                          /\ Runs(w) => worker'[w] = worker[w]
    /\ \A t \in Tasks : (cancel'[t].at = "settle") <=> (cancel[t].at = "settle")
    /\ \A c \in Callers : /\ (caller'[c].at = "settle") <=> (caller[c].at = "settle")
                          /\ caller[c].at = "settle" => caller'[c].pending = caller[c].pending

LEMMA NothingClaimedOneClaim ==
    ASSUME OneClaim, NothingClaimed
    PROVE  OneClaim'
  <1>1. ASSUME NEW w \in Workers
        PROVE  ClaimedBy(w)'
    <2>1. ClaimedBy(w)
      BY DEF OneClaim
    <2>2. QED
      BY <2>1 DEF NothingClaimed, ClaimedBy, Runs
  <1>2. ASSUME NEW t \in Tasks
        PROVE  Consistent(t)'
    <2>1. Consistent(t)
      BY DEF OneClaim
    <2>2. \A c \in Callers : SettledBy(c, t) => SettledBy(c, t)'
      BY DEF NothingClaimed, SettledBy
    <2>3. \A w \in Workers : (Runs(w) /\ worker[w].task = t) => (Runs(w)' /\ worker'[w].task = t)
      BY DEF NothingClaimed
    <2>4. QED
      BY <2>1, <2>2, <2>3 DEF NothingClaimed, Consistent
  <1>3. ASSUME NEW c \in Callers
        PROVE  Settling(c)'
    <2>1. Settling(c)
      BY DEF OneClaim
    <2>2. QED
      BY <2>1 DEF NothingClaimed, Settling
  <1>4. QED
    BY <1>1, <1>2, <1>3 DEF OneClaim

LEMMA ClaimStep ==
    ASSUME TypeOK, OnePlace, OneClaim, [Next]_vars
    PROVE  OneClaim'
  <1> USE DEF state, task
  <1>a. TaskTyped /\ WorkerTyped /\ CancelTyped /\ CallerTyped
    BY TypedParts
  <1>b. SUFFICES ASSUME ~NothingClaimed
                 PROVE  OneClaim'
    BY NothingClaimedOneClaim
  <1>c. WokenWorkers => \A w \in Workers : /\ Runs(w)' <=> Runs(w)
                                           /\ Runs(w) => worker'[w] = worker[w]
    BY DEF WokenWorkers, Runs
  <1>d. /\ UNCHANGED worker => WokenWorkers
        /\ UNCHANGED cancel => \A t \in Tasks : (cancel'[t].at = "settle") <=> (cancel[t].at = "settle")
        /\ UNCHANGED caller =>
              \A c \in Callers : /\ (caller'[c].at = "settle") <=> (caller[c].at = "settle")
                                 /\ caller[c].at = "settle" => caller'[c].pending = caller[c].pending
    BY NotifyWakes
  <1>e. \A w \in Workers : Runs(w) => worker[w].task \in Tasks
    BY DEF OnePlace, InHand, Busy, Runs
  <1>f. \A t \in Tasks, w \in Workers : (Runs(w) /\ worker[w].task = t) => phase[t] = "Running"
    BY DEF OneClaim, ClaimedBy, Runs
  <1>1. ASSUME UNCHANGED <<phase, promise, cancel, caller>>, WokenWorkers
        PROVE  OneClaim'
    BY <1>b, <1>c, <1>d, <1>1 DEF NothingClaimed
  <1>2. CASE UNCHANGED vars \/ Finished \/ SpuriousWakeup
    <2>1. UNCHANGED <<phase, promise, cancel, caller>> /\ WokenWorkers
      BY <1>2, <1>d, NotifyWakes DEF vars, Finished, SpuriousWakeup
    <2>2. QED
      BY <1>1, <2>1
  <1>3. ASSUME NEW t \in Tasks, TrySubmit(t) \/ SubmitUntil(t) \/ DeadlinePasses(t) \/ Submitted(t)
        PROVE  OneClaim'
    <2>1. UNCHANGED <<phase, promise, cancel, caller>> /\ WokenWorkers
      BY <1>3, <1>d, NotifyWakes DEF TrySubmit, SubmitUntil, DeadlinePasses, Submitted
    <2>2. QED
      BY <1>1, <2>1
  <1>4. ASSUME NEW w \in Workers, Pop(w) \/ Sleep(w) \/ Exit(w) \/ Popped(w)
        PROVE  OneClaim'
    <2>1. UNCHANGED <<phase, promise, cancel, caller>>
      BY <1>4 DEF Pop, Sleep, Exit, Popped
    <2>2. \A v \in Workers : (Runs(v)' <=> Runs(v)) /\ (Runs(v) => worker'[v] = worker[v])
      BY <1>4, <1>a DEF Pop, Sleep, Exit, Popped, Runs, WorkerTyped, WorkerStates
    <2>3. QED
      BY <1>b, <1>d, <2>1, <2>2 DEF NothingClaimed
  <1>5. ASSUME NEW w \in Workers, NEW t, t = worker[w].task, NEW p, Busy(w), t \in Tasks,
               UNCHANGED <<cancel, caller>>,
               \A v \in Workers \ {w} : worker'[v] = worker[v],
               ClaimedBy(w)', Consistent(t)',
               phase' = [phase EXCEPT ![t] = p], phase[t] = "Cancelled" => p = "Cancelled",
               \A u \in Tasks : u # t => promise'[u] = promise[u]
        PROVE  OneClaim'
    <2>1. \A v \in Workers : Busy(v) /\ worker[v].task = t => v = w
      BY <1>5 DEF OnePlace
    <2>2. /\ \A u \in Tasks : u # t => phase'[u] = phase[u]
          /\ phase'[t] = p
      BY <1>5, <1>a DEF TaskTyped
    <2>3. ASSUME NEW v \in Workers
          PROVE  ClaimedBy(v)'
      <3>1. CASE v = w
        BY <1>5, <3>1
      <3>2. CASE v # w
        <4>1. worker'[v] = worker[v] /\ ClaimedBy(v)
          BY <1>5, <3>2 DEF OneClaim
        <4>2. CASE ~Runs(v)
          BY <4>1, <4>2 DEF Runs, ClaimedBy
        <4>3. CASE Runs(v)
          <5>1. worker[v].task \in Tasks /\ worker[v].task # t
            BY <1>e, <2>1, <3>2, <4>3 DEF Runs, Busy
          <5>2. QED
            BY <1>5, <2>2, <4>1, <5>1 DEF ClaimedBy
        <4>4. QED
          BY <4>2, <4>3
      <3>3. QED
        BY <3>1, <3>2
    <2>4. ASSUME NEW u \in Tasks
          PROVE  Consistent(u)'
      <3>1. CASE u = t
        BY <1>5, <3>1
      <3>2. CASE u # t
        <4>1. \A c \in Callers : SettledBy(c, u) => SettledBy(c, u)'
          BY <1>5 DEF SettledBy
        <4>2. \A v \in Workers : (Runs(v) /\ worker[v].task = u) => (Runs(v)' /\ worker'[v].task = u)
          BY <1>5, <3>2 DEF Runs
        <4>3. Consistent(u) /\ phase'[u] = phase[u] /\ promise'[u] = promise[u] /\ cancel' = cancel
          BY <1>5, <2>2, <3>2 DEF OneClaim
        <4>4. QED
          BY <4>1, <4>2, <4>3 DEF Consistent
      <3>3. QED
        BY <3>1, <3>2
    <2>5. ASSUME NEW c \in Callers
          PROVE  Settling(c)'
      <3>1. CASE caller[c].at = "settle"
        <4>1. Head(caller[c].pending) \in Tasks
          BY <1>a, <3>1, TailItems DEF CallerTyped, CallerStates, OneClaim, Settling
        <4>2. phase'[Head(caller[c].pending)] = "Cancelled" /\ caller[c].pending # <<>>
          BY <1>5, <2>2, <3>1, <4>1 DEF OneClaim, Settling
        <4>3. QED
          BY <1>5, <4>2 DEF Settling
      <3>2. CASE caller[c].at # "settle"
        BY <1>5, <3>2 DEF Settling
      <3>3. QED
        BY <3>1, <3>2
    <2>6. QED
      BY <2>3, <2>4, <2>5 DEF OneClaim
  <1>6. ASSUME NEW w \in Workers, BeginExecution(w) \/ Fulfil(w) \/ FinishExecution(w)
        PROVE  OneClaim'
    <2>0. PICK t : t = worker[w].task
      OBVIOUS
    <2>1. /\ Busy(w) /\ UNCHANGED <<cancel, caller>>
          /\ \A v \in Workers \ {w} : worker'[v] = worker[v]
      BY <1>6, <1>a DEF BeginExecution, Fulfil, FinishExecution, Busy, WorkerTyped
    <2>2. t \in Tasks
      BY <2>0, <2>1 DEF OnePlace, InHand
    <2>3. Consistent(t) /\ ClaimedBy(w)
      BY <2>2 DEF OneClaim
    <2>4. CASE BeginExecution(w)
      <3>1. CASE phase[t] = "Queued"
        <4>1. /\ phase' = [phase EXCEPT ![t] = "Running"] /\ phase'[t] = "Running"
              /\ worker'[w].at = "running" /\ worker'[w].task = t /\ UNCHANGED promise
          BY <1>a, <2>0, <2>2, <2>4, <3>1 DEF BeginExecution, TaskTyped, WorkerTyped, WorkerStates
        <4>2. promise[t] = "empty" /\ cancel[t].at # "settle"
          BY <2>3, <3>1 DEF Consistent
        <4>3. ClaimedBy(w)'
          BY <2>0, <4>1, <4>2 DEF ClaimedBy
        <4>4. Consistent(t)'
          BY <2>0, <2>1, <4>1, <4>2 DEF Consistent, Runs
        <4>5. QED
          BY <1>5, <2>0, <2>1, <2>2, <3>1, <4>1, <4>3, <4>4
      <3>2. CASE phase[t] # "Queued"
        <4>1. /\ UNCHANGED <<phase, promise>> /\ worker'[w].at = "looking" /\ worker[w].at = "taken"
          BY <1>a, <2>0, <2>4, <3>2 DEF BeginExecution, WorkerTyped
        <4>2. \A v \in Workers : (Runs(v)' <=> Runs(v)) /\ (Runs(v) => worker'[v] = worker[v])
          BY <2>1, <4>1 DEF Runs
        <4>3. QED
          BY <1>b, <1>d, <2>1, <4>1, <4>2 DEF NothingClaimed
      <3>3. QED
        BY <3>1, <3>2
    <2>5. CASE Fulfil(w)
      <3>1. /\ phase[t] = "Running" /\ promise[t] = "empty" /\ UNCHANGED phase
        BY <2>0, <2>3, <2>5 DEF Fulfil, ClaimedBy
      <3>2. /\ promise'[t] = "value" /\ worker'[w].at = "fulfilled" /\ worker'[w].task = t
            /\ \A u \in Tasks : u # t => promise'[u] = promise[u]
        BY <1>a, <2>0, <2>2, <2>5, <3>1 DEF Fulfil, TaskTyped, WorkerTyped, WorkerStates
      <3>3. phase' = [phase EXCEPT ![t] = "Running"]
        BY <1>a, <2>0, <2>2, <3>1 DEF TaskTyped
      <3>4. ClaimedBy(w)'
        BY <2>0, <3>1, <3>2 DEF ClaimedBy
      <3>5. Consistent(t)'
        BY <2>0, <2>1, <2>3, <3>1, <3>2 DEF Consistent, Runs
      <3>6. QED
        BY <1>5, <2>0, <2>1, <2>2, <3>1, <3>2, <3>3, <3>4, <3>5
    <2>6. CASE FinishExecution(w)
      <3>1. /\ phase[t] = "Running" /\ promise[t] = "value" /\ UNCHANGED promise
        BY <2>0, <2>3, <2>6 DEF FinishExecution, ClaimedBy
      <3>2. /\ phase' = [phase EXCEPT ![t] = "Finished"] /\ phase'[t] = "Finished"
            /\ worker'[w].at = "looking"
        BY <1>a, <2>0, <2>2, <2>6 DEF FinishExecution, TaskTyped, WorkerTyped
      <3>3. ClaimedBy(w)'
        BY <3>2 DEF ClaimedBy
      <3>4. Consistent(t)'
        <4>1. cancel'[t].at # "settle" /\ promise'[t] = "value"
          BY <2>1, <2>3, <3>1 DEF Consistent
        <4>2. QED
          BY <3>2, <4>1 DEF Consistent
      <3>5. /\ phase[t] = "Cancelled" => "Finished" = "Cancelled"
            /\ \A u \in Tasks : u # t => promise'[u] = promise[u]
        BY <3>1
      <3>6. QED
        BY <1>5, <2>0, <2>1, <2>2, <3>2, <3>3, <3>4, <3>5
    <2>7. QED
      BY <1>6, <2>4, <2>5, <2>6
  <1>7. ASSUME NEW t \in Tasks, UNCHANGED worker, phase[t] \in {"Queued", "Cancelled"},
               phase' = [phase EXCEPT ![t] = "Cancelled"], Consistent(t)',
               \A u \in Tasks : u # t => /\ promise'[u] = promise[u]
                                         /\ cancel'[u] = cancel[u]
                                         /\ \A c \in Callers : SettledBy(c, u) => SettledBy(c, u)',
               \A c \in Callers : Settling(c)'
        PROVE  OneClaim'
    <2>1. /\ \A u \in Tasks : u # t => phase'[u] = phase[u]
          /\ phase'[t] = "Cancelled"
      BY <1>7, <1>a DEF TaskTyped
    <2>2. ASSUME NEW v \in Workers
          PROVE  ClaimedBy(v)'
      <3>1. CASE ~Runs(v)
        BY <1>7, <3>1 DEF Runs, ClaimedBy
      <3>2. CASE Runs(v)
        <4>1. worker[v].task \in Tasks /\ worker[v].task # t /\ ClaimedBy(v)
          BY <1>7, <1>e, <1>f, <3>2 DEF OneClaim
        <4>2. QED
          BY <1>7, <2>1, <4>1 DEF ClaimedBy
      <3>3. QED
        BY <3>1, <3>2
    <2>3. ASSUME NEW u \in Tasks
          PROVE  Consistent(u)'
      <3>1. CASE u = t
        BY <1>7, <3>1
      <3>2. CASE u # t
        <4>1. Consistent(u) /\ phase'[u] = phase[u] /\ promise'[u] = promise[u] /\ cancel'[u] = cancel[u]
          BY <1>7, <2>1, <3>2 DEF OneClaim
        <4>2. \A c \in Callers : SettledBy(c, u) => SettledBy(c, u)'
          BY <1>7, <3>2
        <4>3. \A v \in Workers : (Runs(v) /\ worker[v].task = u) => (Runs(v)' /\ worker'[v].task = u)
          BY <1>7 DEF Runs
        <4>4. QED
          BY <4>1, <4>2, <4>3 DEF Consistent
      <3>3. QED
        BY <3>1, <3>2
    <2>4. QED
      BY <1>7, <2>2, <2>3 DEF OneClaim
  <1>8. ASSUME NEW t \in Tasks, Cancel(t) \/ RequestStop(t) \/ CancelNotifies(t)
        PROVE  OneClaim'
    <2>1. UNCHANGED <<phase, promise, caller, worker>>
      BY <1>8 DEF Cancel, RequestStop, CancelNotifies
    <2>2. \A u \in Tasks : (cancel'[u].at = "settle") <=> (cancel[u].at = "settle")
      BY <1>8, <1>a DEF Cancel, RequestStop, CancelNotifies, CancelEnds, CancelTyped, CancelStates
    <2>3. QED
      BY <1>b, <1>c, <1>d, <2>1, <2>2 DEF NothingClaimed
  <1>9. ASSUME NEW t \in Tasks, CancelClaims(t)
        PROVE  OneClaim'
    <2>1. CASE phase[t] = "Queued"
      <3>1. /\ phase' = [phase EXCEPT ![t] = "Cancelled"] /\ phase'[t] = "Cancelled"
            /\ cancel' = [cancel EXCEPT ![t].at = "settle"] /\ cancel'[t].at = "settle"
            /\ UNCHANGED <<promise, worker, caller>>
        BY <1>9, <1>a, <2>1 DEF CancelClaims, TaskTyped, CancelTyped, CancelStates
      <3>2. Consistent(t)'
        <4>1. promise[t] = "empty"
          BY <2>1 DEF OneClaim, Consistent
        <4>2. QED
          BY <3>1, <4>1 DEF Consistent
      <3>3. ASSUME NEW c \in Callers
            PROVE  Settling(c)'
        BY <3>1, <1>a, TailItems DEF OneClaim, Settling, CallerTyped, CallerStates, TaskTyped
      <3>4. \A u \in Tasks : u # t => /\ promise'[u] = promise[u]
                                      /\ cancel'[u] = cancel[u]
                                      /\ \A c \in Callers : SettledBy(c, u) => SettledBy(c, u)'
        BY <3>1, <1>a DEF CancelTyped, SettledBy
      <3>5. QED
        BY <1>7, <2>1, <3>1, <3>2, <3>3, <3>4
    <2>2. CASE phase[t] # "Queued"
      <3>1. UNCHANGED <<phase, promise, caller, worker>>
        BY <1>9, <2>2 DEF CancelClaims
      <3>2. \A u \in Tasks : (cancel'[u].at = "settle") <=> (cancel[u].at = "settle")
        BY <1>9, <1>a, <2>2 DEF CancelClaims, CancelEnds, CancelTyped, CancelStates
      <3>3. QED
        BY <1>b, <1>c, <1>d, <3>1, <3>2 DEF NothingClaimed
    <2>3. QED
      BY <2>1, <2>2
  <1>10. ASSUME NEW t \in Tasks, CancelSettles(t)
         PROVE  OneClaim'
    <2>1. phase[t] = "Cancelled" /\ promise[t] # "value" /\ UNCHANGED <<phase, worker, caller>>
      BY <1>10 DEF CancelSettles, OneClaim, Consistent
    <2>2. /\ promise'[t] = "cancelled" /\ cancel'[t].at # "settle"
          /\ \A u \in Tasks : u # t => promise'[u] = promise[u] /\ cancel'[u] = cancel[u]
      BY <1>10, <1>a, <2>1
         DEF CancelSettles, SetCancelledException, CancelEnds, TaskTyped, CancelTyped,
             CancelStates
    <2>3. Consistent(t)'
      BY <2>1, <2>2 DEF Consistent
    <2>4. phase' = [phase EXCEPT ![t] = "Cancelled"]
      BY <1>a, <2>1 DEF TaskTyped
    <2>5. ASSUME NEW c \in Callers
          PROVE  Settling(c)'
      BY <2>1 DEF OneClaim, Settling
    <2>6. \A u \in Tasks : u # t => /\ promise'[u] = promise[u]
                                    /\ cancel'[u] = cancel[u]
                                    /\ \A c \in Callers : SettledBy(c, u) => SettledBy(c, u)'
      BY <2>1, <2>2 DEF SettledBy
    <2>7. QED
      BY <1>7, <2>1, <2>3, <2>4, <2>5, <2>6
  <1>11. ASSUME NEW c \in Callers, NEW m \in Modes, BeginShutdown(c, m)
         PROVE  OneClaim'
    <2>1. UNCHANGED <<phase, promise, cancel, worker>> /\ caller[c].at # "settle"
      BY <1>11 DEF BeginShutdown
    <2>2. caller'[c].at # "settle" /\ \A d \in Callers : d # c => caller'[d] = caller[d]
      BY <1>11, <1>a DEF BeginShutdown, CallerTyped, CallerStates
    <2>3. QED
      BY <1>b, <1>c, <1>d, <2>1, <2>2 DEF NothingClaimed
  <1>12. ASSUME NEW c \in Callers, ShutdownClaims(c)
         PROVE  OneClaim'
    <2>0. PICK t : t = Head(caller[c].pending)
      OBVIOUS
    <2>1. t \in Tasks
      BY <1>12, <1>a, <2>0, TailItems DEF ShutdownClaims, CallerTyped, CallerStates
    <2>2. CASE phase[t] = "Queued"
      <3>1. /\ phase' = [phase EXCEPT ![t] = "Cancelled"] /\ phase'[t] = "Cancelled"
            /\ caller'[c].at = "settle" /\ caller'[c].pending = caller[c].pending
            /\ caller[c].pending # <<>>
            /\ \A d \in Callers : d # c => caller'[d] = caller[d]
            /\ UNCHANGED <<promise, worker, cancel>>
        BY <1>12, <1>a, <2>0, <2>1, <2>2 DEF ShutdownClaims, TaskTyped, CallerTyped, CallerStates
      <3>2. Consistent(t)'
        <4>1. promise[t] = "empty" /\ SettledBy(c, t)'
          BY <2>0, <2>1, <2>2, <3>1 DEF OneClaim, Consistent, SettledBy
        <4>2. QED
          BY <3>1, <4>1 DEF Consistent
      <3>3. ASSUME NEW d \in Callers
            PROVE  Settling(d)'
        <4>1. CASE d = c
          BY <2>0, <3>1, <4>1 DEF Settling
        <4>2. CASE d # c
          BY <3>1, <4>2, <1>a, TailItems
             DEF OneClaim, Settling, CallerTyped, CallerStates, TaskTyped
        <4>3. QED
          BY <4>1, <4>2
      <3>4. \A u \in Tasks : u # t => /\ promise'[u] = promise[u]
                                      /\ cancel'[u] = cancel[u]
                                      /\ \A d \in Callers : SettledBy(d, u) => SettledBy(d, u)'
        BY <3>1 DEF SettledBy
      <3>5. QED
        BY <1>7, <2>1, <2>2, <3>1, <3>2, <3>3, <3>4
    <2>3. CASE phase[t] # "Queued"
      <3>1. UNCHANGED <<phase, promise, cancel, worker>> /\ caller[c].at # "settle"
        BY <1>12, <2>0, <2>3 DEF ShutdownClaims
      <3>2. caller'[c].at # "settle" /\ \A d \in Callers : d # c => caller'[d] = caller[d]
        BY <1>12, <1>a, <2>0, <2>3 DEF ShutdownClaims, CallerTyped, CallerStates
      <3>3. QED
        BY <1>b, <1>c, <1>d, <3>1, <3>2 DEF NothingClaimed
    <2>4. QED
      BY <2>2, <2>3
  <1>13. ASSUME NEW c \in Callers, ShutdownSettles(c)
         PROVE  OneClaim'
    <2>0. PICK t : t = Head(caller[c].pending)
      OBVIOUS
    <2>1. caller[c].pending # <<>> /\ phase[t] = "Cancelled" /\ UNCHANGED <<phase, worker, cancel>>
      BY <1>13, <2>0 DEF ShutdownSettles, OneClaim, Settling
    <2>2. t \in Tasks
      BY <1>a, <2>0, <2>1, TailItems DEF CallerTyped, CallerStates
    <2>3. promise[t] # "value"
      BY <2>1, <2>2 DEF OneClaim, Consistent
    <2>4. /\ promise'[t] = "cancelled" /\ caller'[c].at # "settle"
          /\ \A u \in Tasks : u # t => promise'[u] = promise[u]
          /\ \A d \in Callers : d # c => caller'[d] = caller[d]
      <3>1. promise' = [promise EXCEPT ![t] = IF @ = "empty" THEN "cancelled" ELSE @]
        BY <1>13, <2>0 DEF ShutdownSettles, SetCancelledException
      <3>2. caller'[c].at # "settle" /\ \A d \in Callers : d # c => caller'[d] = caller[d]
        BY <1>13, <1>a DEF ShutdownSettles, CallerTyped, CallerStates
      <3>3. QED
        BY <1>a, <2>2, <2>3, <3>1, <3>2 DEF TaskTyped
    <2>5. Consistent(t)'
      <3>1. cancel[t].at = "settle" => phase[t] = "Cancelled"
        BY <2>2 DEF OneClaim, Consistent
      <3>2. QED
        BY <2>1, <2>4, <3>1 DEF Consistent
    <2>6. phase' = [phase EXCEPT ![t] = "Cancelled"]
      BY <1>a, <2>1 DEF TaskTyped
    <2>7. ASSUME NEW d \in Callers
          PROVE  Settling(d)'
      BY <2>1, <2>4 DEF OneClaim, Settling
    <2>8. \A u \in Tasks : u # t => /\ promise'[u] = promise[u]
                                    /\ cancel'[u] = cancel[u]
                                    /\ \A d \in Callers : SettledBy(d, u) => SettledBy(d, u)'
      BY <2>0, <2>1, <2>4 DEF SettledBy
    <2>9. QED
      BY <1>7, <2>1, <2>2, <2>5, <2>6, <2>7, <2>8
  <1>14. ASSUME NEW c \in Callers, ShutdownNotifies(c) \/ JoinAll(c) \/ WaitForWorkers(c)
         PROVE  OneClaim'
    <2>1. UNCHANGED <<phase, promise, cancel>> /\ WokenWorkers
      BY <1>14, <1>d, NotifyWakes DEF ShutdownNotifies, JoinAll, WaitForWorkers
    <2>2. /\ caller[c].at # "settle" /\ caller'[c].at # "settle"
          /\ \A d \in Callers : d # c => caller'[d] = caller[d]
      BY <1>14, <1>a DEF ShutdownNotifies, JoinAll, WaitForWorkers, CallerTyped, CallerStates
    <2>3. QED
      BY <1>b, <1>c, <1>d, <2>1, <2>2 DEF NothingClaimed
  <1>15. QED
    BY <1>2, <1>3, <1>4, <1>6, <1>8, <1>9, <1>10, <1>11, <1>12, <1>13, <1>14
       DEF Next, Client, Worker, Cancelling, Closing

-----------------------------------------------------------------------------
(* What Cancel answers *)

LEMMA PhaseMoves ==
    ASSUME TypeOK, OneClaim, [Next]_vars, NEW t \in Tasks
    PROVE  /\ phase'[t] = "Queued" => phase[t] = "Queued"
           /\ phase[t] = "Cancelled" => phase'[t] = "Cancelled"
           /\ phase[t] = "Finished" => phase'[t] = "Finished"
           /\ phase[t] = "Running" => phase'[t] \in {"Running", "Finished"}
  <1> USE DEF state, task
  <1>a. TaskTyped
    BY TypedParts
  <1>1. CASE UNCHANGED phase
    BY <1>1
  <1>2. ASSUME NEW w \in Workers, BeginExecution(w) \/ FinishExecution(w)
        PROVE  /\ phase'[t] = "Queued" => phase[t] = "Queued"
               /\ phase[t] = "Cancelled" => phase'[t] = "Cancelled"
               /\ phase[t] = "Finished" => phase'[t] = "Finished"
               /\ phase[t] = "Running" => phase'[t] \in {"Running", "Finished"}
    BY <1>a, <1>2 DEF BeginExecution, FinishExecution, TaskTyped, OneClaim, ClaimedBy
  <1>3. ASSUME NEW u \in Tasks, CancelClaims(u)
        PROVE  /\ phase'[t] = "Queued" => phase[t] = "Queued"
               /\ phase[t] = "Cancelled" => phase'[t] = "Cancelled"
               /\ phase[t] = "Finished" => phase'[t] = "Finished"
               /\ phase[t] = "Running" => phase'[t] \in {"Running", "Finished"}
    BY <1>a, <1>3 DEF CancelClaims, TaskTyped
  <1>4. ASSUME NEW c \in Callers, ShutdownClaims(c)
        PROVE  /\ phase'[t] = "Queued" => phase[t] = "Queued"
               /\ phase[t] = "Cancelled" => phase'[t] = "Cancelled"
               /\ phase[t] = "Finished" => phase'[t] = "Finished"
               /\ phase[t] = "Running" => phase'[t] \in {"Running", "Finished"}
    BY <1>a, <1>4 DEF ShutdownClaims, TaskTyped
  <1>5. \/ UNCHANGED phase
        \/ \E w \in Workers : BeginExecution(w) \/ FinishExecution(w)
        \/ \E u \in Tasks : CancelClaims(u)
        \/ \E c \in Callers : ShutdownClaims(c)
    <2>1. CASE UNCHANGED vars \/ Finished \/ SpuriousWakeup
      BY <2>1 DEF vars, Finished, SpuriousWakeup
    <2>2. ASSUME NEW u \in Tasks, TrySubmit(u) \/ DeadlinePasses(u) \/ Client(u) \/ Cancel(u) \/ Cancelling(u)
          PROVE  UNCHANGED phase \/ CancelClaims(u)
      BY <2>2 DEF TrySubmit, DeadlinePasses, Client, SubmitUntil, Submitted, Cancel, Cancelling,
                  CancelSettles, RequestStop, CancelNotifies
    <2>3. ASSUME NEW w \in Workers, Worker(w)
          PROVE  UNCHANGED phase \/ BeginExecution(w) \/ FinishExecution(w)
      BY <2>3 DEF Worker, Pop, Sleep, Exit, Popped, Fulfil
    <2>4. ASSUME NEW c \in Callers, Closing(c) \/ (\E m \in Modes : BeginShutdown(c, m))
          PROVE  UNCHANGED phase \/ ShutdownClaims(c)
      BY <2>4 DEF Closing, BeginShutdown, ShutdownSettles, ShutdownNotifies, JoinAll, WaitForWorkers
    <2>5. QED
      BY <2>1, <2>2, <2>3, <2>4 DEF Next
  <1>6. QED
    BY <1>1, <1>2, <1>3, <1>4, <1>5

Answered(t) == cancel[t].at \in {"notify", "done"} =>
    IF cancel[t].reply
    THEN ~cancel[t].before /\ (phase[t] = "Cancelled" \/ stop[t])
    ELSE phase[t] \in {"Finished", "Cancelled"} \/ (cancel[t].before /\ stop[t])

LEMMA AnswerStep ==
    ASSUME TypeOK, OnePlace, OneClaim, OneStop, CancelAnswers, [Next]_vars
    PROVE  OneStop' /\ CancelAnswers'
  <1> USE DEF state, task
  <1>a. TaskTyped /\ CancelTyped
    BY TypedParts
  <1> SUFFICES ASSUME NEW t \in Tasks
               PROVE  Stopped(t)' /\ Answered(t)'
    BY DEF OneStop, CancelAnswers, Answered
  <1>b. Stopped(t) /\ Answered(t)
    BY DEF OneStop, CancelAnswers, Answered
  <1>c. /\ phase[t] = "Cancelled" => phase'[t] = "Cancelled"
        /\ phase[t] = "Finished" => phase'[t] = "Finished"
        /\ phase[t] = "Running" => phase'[t] \in {"Running", "Finished"}
    BY PhaseMoves
  <1>1. ASSUME stop'[t] = stop[t], cancel'[t] = cancel[t]
        PROVE  Stopped(t)' /\ Answered(t)'
    BY <1>1, <1>b, <1>c DEF Stopped, Answered
  <1>2. CASE UNCHANGED <<stop, cancel>>
    BY <1>1, <1>2
  <1>3. ASSUME NEW u \in Tasks, Cancel(u) \/ Cancelling(u)
        PROVE  Stopped(t)' /\ Answered(t)'
    <2>1. CASE u # t
      <3>1. stop'[t] = stop[t] /\ cancel'[t] = cancel[t]
        BY <1>3, <1>a, <2>1 DEF Cancel, Cancelling, CancelClaims, CancelSettles, RequestStop,
              CancelNotifies, CancelEnds, TaskTyped, CancelTyped
      <3>2. QED
        BY <1>1, <3>1
    <2>2. CASE u = t
      <3>1. CASE Cancel(t)
        <4>1. /\ cancel'[t].at = "claim" /\ ~cancel'[t].reply
              /\ cancel'[t].before = (cancel[t].before \/ cancel[t].reply)
              /\ cancel[t].at \in {"idle", "done"} /\ UNCHANGED <<stop, phase>>
          BY <1>a, <3>1 DEF Cancel, CancelTyped, CancelStates
        <4>2. cancel[t].before \/ cancel[t].reply => phase[t] = "Cancelled" \/ stop[t]
          BY <1>b, <4>1 DEF Stopped, Answered
        <4>3. QED
          BY <1>b, <4>1, <4>2 DEF Stopped, Answered
      <3>2. CASE CancelClaims(t)
        <4>1. /\ cancel[t].at = "claim" /\ ~cancel[t].reply /\ UNCHANGED stop
              /\ cancel'[t].before = cancel[t].before /\ ~cancel'[t].reply
          BY <1>a, <1>b, <3>2 DEF CancelClaims, CancelEnds, CancelTyped, CancelStates, Stopped
        <4>2. CASE phase[t] = "Queued"
          <5>1. cancel'[t].at = "settle" /\ phase'[t] = "Cancelled"
            BY <1>a, <3>2, <4>2 DEF CancelClaims, TaskTyped, CancelTyped, CancelStates
          <5>2. ~stop[t] /\ ~cancel[t].before
            BY <1>b, <4>2 DEF Stopped
          <5>3. QED
            BY <4>1, <5>1, <5>2 DEF Stopped, Answered
        <4>3. CASE phase[t] = "Running" /\ ~cancel[t].removed
          <5>1. cancel'[t].at = "stop" /\ UNCHANGED phase
            BY <1>a, <3>2, <4>3 DEF CancelClaims, CancelTyped, CancelStates
          <5>2. QED
            BY <1>b, <4>1, <4>3, <5>1 DEF Stopped, Answered
        <4>4. CASE phase[t] # "Queued" /\ (phase[t] = "Running" => cancel[t].removed)
          <5>1. cancel'[t].at \in {"notify", "done"} /\ UNCHANGED phase
            BY <1>a, <3>2, <4>4 DEF CancelClaims, CancelEnds, CancelTyped, CancelStates
          <5>2. phase[t] # "Running"
            <6>1. phase[t] = "Running" => \E w \in Workers : Runs(w) /\ worker[w].task = t
              BY DEF OneClaim, Consistent
            <6>2. \A w \in Workers : Runs(w) => ~cancel[worker[w].task].removed
              BY DEF OnePlace, InHand, Runs, Busy
            <6>3. QED
              BY <4>4, <6>1, <6>2
          <5>3. phase[t] \in {"Finished", "Cancelled"}
            BY <1>a, <4>4, <5>2 DEF TaskTyped
          <5>4. QED
            BY <1>b, <4>1, <5>1, <5>3 DEF Stopped, Answered
        <4>5. QED
          BY <4>2, <4>3, <4>4
      <3>3. CASE CancelSettles(t)
        <4>1. /\ cancel'[t].reply /\ cancel'[t].before = cancel[t].before
              /\ cancel'[t].at \in {"notify", "done"} /\ UNCHANGED <<stop, phase>>
          BY <1>a, <3>3 DEF CancelSettles, CancelEnds, CancelTyped, CancelStates
        <4>2. phase[t] = "Cancelled" /\ ~cancel[t].before
          BY <1>b, <3>3 DEF CancelSettles, OneClaim, Consistent, Stopped
        <4>3. QED
          BY <1>b, <4>1, <4>2 DEF Stopped, Answered
      <3>4. CASE RequestStop(t)
        <4>1. /\ stop'[t] /\ cancel'[t].reply = ~stop[t] /\ cancel'[t].before = cancel[t].before
              /\ cancel'[t].at \in {"notify", "done"} /\ UNCHANGED phase
          BY <1>a, <3>4 DEF RequestStop, CancelEnds, TaskTyped, CancelTyped, CancelStates
        <4>2. cancel[t].at = "stop" /\ phase[t] \in {"Running", "Finished"} /\ ~cancel[t].reply
          BY <1>a, <1>b, <3>4 DEF RequestStop, Stopped, CancelTyped, CancelStates
        <4>3. stop[t] <=> cancel[t].before
          BY <1>b, <4>2 DEF Stopped
        <4>4. QED
          BY <1>b, <4>1, <4>2, <4>3 DEF Stopped, Answered
      <3>5. CASE CancelNotifies(t)
        <4>1. /\ cancel[t].at = "notify" /\ cancel'[t].at = "done"
              /\ cancel'[t].reply = cancel[t].reply /\ cancel'[t].before = cancel[t].before
              /\ UNCHANGED <<stop, phase>>
          BY <1>a, <3>5 DEF CancelNotifies, CancelTyped, CancelStates
        <4>2. QED
          BY <1>b, <4>1 DEF Stopped, Answered
      <3>6. QED
        BY <1>3, <2>2, <3>1, <3>2, <3>3, <3>4, <3>5 DEF Cancelling
    <2>3. QED
      BY <2>1, <2>2
  <1>4. UNCHANGED <<stop, cancel>> \/ \E u \in Tasks : Cancel(u) \/ Cancelling(u)
    <2>1. CASE UNCHANGED vars \/ Finished \/ SpuriousWakeup
      BY <2>1 DEF vars, Finished, SpuriousWakeup
    <2>2. ASSUME NEW u \in Tasks, TrySubmit(u) \/ DeadlinePasses(u) \/ Client(u)
          PROVE  UNCHANGED <<stop, cancel>>
      BY <2>2 DEF TrySubmit, DeadlinePasses, Client, SubmitUntil, Submitted
    <2>3. ASSUME NEW w \in Workers, Worker(w)
          PROVE  UNCHANGED <<stop, cancel>>
      BY <2>3 DEF Worker, Pop, Sleep, Exit, Popped, Fulfil, BeginExecution, FinishExecution
    <2>4. ASSUME NEW c \in Callers, Closing(c) \/ (\E m \in Modes : BeginShutdown(c, m))
          PROVE  UNCHANGED <<stop, cancel>>
      BY <2>4
         DEF Closing, BeginShutdown, ShutdownClaims, ShutdownSettles, ShutdownNotifies, JoinAll,
             WaitForWorkers
    <2>5. QED
      BY <2>1, <2>2, <2>3, <2>4 DEF Next
  <1>5. QED
    BY <1>2, <1>3, <1>4

-----------------------------------------------------------------------------
(* No task is lost *)

Kept(t) == \/ t \in Items(queue)
           \/ \E w \in Workers : Busy(w) /\ worker[w].task = t
           \/ \E c \in Callers : t \in Items(caller[c].pending)
           \/ cancel[t].at = "claim" /\ cancel[t].removed

LEMMA NoTaskLostKept ==
    NoTaskLost <=> \A t \in Tasks : (Accepted(t) /\ phase[t] = "Queued") => Kept(t)
  BY QueuedItems DEF NoTaskLost, Kept, Hold, Busy

LEMMA LostStep ==
    ASSUME ExecutorInv, [Next]_vars
    PROVE  NoTaskLost'
  <1> USE DEF state, task
  <1>a. /\ TypeOK /\ OnePlace /\ OneClaim /\ LeftForGood
        /\ QueueTyped /\ TaskTyped /\ WorkerTyped /\ ClientTyped /\ CancelTyped /\ CallerTyped
    BY TypedParts DEF ExecutorInv
  <1> SUFFICES ASSUME NEW t \in Tasks, Accepted(t)', phase'[t] = "Queued"
               PROVE  Kept(t)'
    <2>1. NoTaskLost' <=> \A t \in Tasks : (Accepted(t)' /\ phase'[t] = "Queued") => Kept(t)'
      BY QueuedItems DEF NoTaskLost, Kept, Hold, Busy, Queued, Pending, Items, Accepted
    <2>2. QED
      BY <2>1
  <1>b. phase[t] = "Queued"
    BY <1>a, PhaseMoves
  <1>c. Accepted(t) => Kept(t)
    BY <1>b, NoTaskLostKept DEF ExecutorInv
  <1>d. /\ WokenClients => Accepted(t)
        /\ WokenWorkers => \A w \in Workers : Busy(w) => worker'[w] = worker[w]
        /\ UNCHANGED worker => WokenWorkers
        /\ UNCHANGED client => WokenClients
    BY <1>a, NotifyWakes DEF WokenClients, WokenWorkers, Accepted, Busy
  <1>e. UNCHANGED queue => Items(queue)' = Items(queue)
    BY DEF Items
  <1>1. ASSUME Accepted(t),
               \/ UNCHANGED queue
               \/ t \in Items(queue) => Kept(t)',
               \A w \in Workers : (Busy(w) /\ worker[w].task = t) => worker'[w].task = t /\ Busy(w)',
               \A c \in Callers : t \in Items(caller[c].pending) => t \in Items(caller'[c].pending),
               (cancel[t].at = "claim" /\ cancel[t].removed) => cancel'[t] = cancel[t]
        PROVE  Kept(t)'
    <2>1. CASE t \in Items(queue)
      BY <1>1, <1>e, <2>1 DEF Kept
    <2>2. CASE \E w \in Workers : Busy(w) /\ worker[w].task = t
      BY <1>1, <2>2 DEF Kept
    <2>3. CASE \E c \in Callers : t \in Items(caller[c].pending)
      <3>1. \E c \in Callers : t \in Items(caller'[c].pending)
        BY <1>1, <2>3
      <3>2. QED
        BY <3>1 DEF Kept, Items
    <2>4. CASE cancel[t].at = "claim" /\ cancel[t].removed
      BY <1>1, <2>4 DEF Kept
    <2>5. QED
      BY <1>c, <1>1, <2>1, <2>2, <2>3, <2>4 DEF Kept
  <1>2. CASE UNCHANGED vars \/ Finished \/ SpuriousWakeup
    <2>1. UNCHANGED <<queue, cancel, caller>> /\ WokenClients /\ WokenWorkers
      BY <1>2, <1>a, <1>d, NotifyWakes DEF vars, Finished, SpuriousWakeup
    <2>2. QED
      BY <1>1, <1>d, <2>1 DEF Busy
  <1>3. ASSUME NEW u \in Tasks, TrySubmit(u) \/ SubmitUntil(u) \/ DeadlinePasses(u)
        PROVE  Kept(t)'
    <2>1. UNCHANGED <<worker, cancel, caller>>
      BY <1>3 DEF TrySubmit, SubmitUntil, DeadlinePasses
    <2>2. Push(u) \/ (\E why \in ClientStates \ {"notify", "accepted"} : Refused(u, why))
      BY <1>3 DEF TrySubmit, SubmitUntil, DeadlinePasses, ClientStates
    <2>3. CASE Push(u)
      <3>1. Items(queue)' = Items(queue) \cup {u}
        <4>1. Items(Append(queue, u)) = Items(queue) \cup {u}
          BY <1>a, AppendItems DEF QueueTyped
        <4>2. QED
          BY <2>3, <4>1 DEF Push, Items
      <3>2. CASE t = u
        BY <3>1, <3>2 DEF Kept
      <3>3. CASE t # u
        <4>1. Accepted(t)
          BY <2>3, <1>a, <3>3 DEF Push, Accepted, ClientTyped
        <4>2. t \in Items(queue) => Kept(t)'
          BY <3>1 DEF Kept
        <4>3. QED
          BY <1>1, <2>1, <4>1, <4>2 DEF Busy
      <3>4. QED
        BY <3>2, <3>3
    <2>4. CASE \E why \in ClientStates \ {"notify", "accepted"} : Refused(u, why)
      <3>1. UNCHANGED queue /\ Accepted(t)
        BY <2>4, <1>a DEF Refused, Accepted, ClientTyped
      <3>2. QED
        BY <1>1, <2>1, <3>1 DEF Busy
    <2>5. QED
      BY <2>2, <2>3, <2>4
  <1>4. ASSUME NEW u \in Tasks, Submitted(u)
        PROVE  Kept(t)'
    <2>1. Accepted(t)
      BY <1>4, <1>a DEF Submitted, Accepted, ClientTyped
    <2>2. UNCHANGED <<queue, cancel, caller>> /\ WokenWorkers
      BY <1>4, <1>a, NotifyWakes DEF Submitted
    <2>3. QED
      BY <1>1, <1>d, <2>1, <2>2 DEF Busy
  <1>5. ASSUME NEW w \in Workers, Pop(w)
        PROVE  Kept(t)'
    <2>1. UNCHANGED <<cancel, caller>> /\ Accepted(t)
      BY <1>5, <1>d DEF Pop
    <2>2. Items(queue) = Items(Tail(queue)) \cup {Head(queue)}
      BY <1>5, <1>a, TailItems DEF Pop, QueueTyped
    <2>3. Items(queue)' = Items(Tail(queue))
      BY <1>5 DEF Pop, Items
    <2>4. /\ worker'[w].task = Head(queue) /\ worker'[w].at = "popped" /\ ~Busy(w)
          /\ \A v \in Workers : v # w => worker'[v] = worker[v]
      BY <1>5, <1>a DEF Pop, WorkerTyped, Busy
    <2>5. t \in Items(queue) => Kept(t)'
      BY <2>2, <2>3, <2>4 DEF Kept, Busy
    <2>6. QED
      BY <1>1, <2>1, <2>4, <2>5 DEF Busy
  <1>6. ASSUME NEW w \in Workers, Sleep(w) \/ Exit(w) \/ Popped(w) \/ Fulfil(w)
        PROVE  Kept(t)'
    <2>1. UNCHANGED <<queue, cancel, caller>> /\ WokenClients
      BY <1>6, <1>a, <1>d, NotifyWakes DEF Sleep, Exit, Popped, Fulfil
    <2>2. \A v \in Workers : (Busy(v) /\ worker[v].task = t) => worker'[v].task = t /\ Busy(v)'
      BY <1>6, <1>a DEF Sleep, Exit, Popped, Fulfil, Busy, WorkerTyped, WorkerStates
    <2>3. QED
      BY <1>1, <1>d, <2>1, <2>2
  <1>7. ASSUME NEW w \in Workers, BeginExecution(w) \/ FinishExecution(w)
        PROVE  Kept(t)'
    <2>1. UNCHANGED <<queue, cancel, caller>> /\ Accepted(t)
      BY <1>7, <1>d DEF BeginExecution, FinishExecution
    <2>2. worker[w].task # t /\ \A v \in Workers : v # w => worker'[v] = worker[v]
      BY <1>7, <1>a, <1>b DEF BeginExecution, FinishExecution, TaskTyped, WorkerTyped
    <2>3. QED
      BY <1>1, <2>1, <2>2 DEF Busy
  <1>8. ASSUME NEW u \in Tasks, Cancel(u)
        PROVE  Kept(t)'
    <2>1. UNCHANGED <<worker, caller>> /\ Accepted(t)
      BY <1>8, <1>d DEF Cancel
    <2>2. /\ t # u => cancel'[t] = cancel[t]
          /\ cancel[u].at # "claim"
          /\ cancel'[u].at = "claim" /\ cancel'[u].removed = Queued(u)
      BY <1>8, <1>a DEF Cancel, CancelTyped, CancelStates
    <2>3. t \in Items(queue) => Kept(t)'
      <3>1. CASE t = u
        BY <2>2, <3>1, QueuedItems DEF Kept
      <3>2. CASE t # u /\ Queued(u)
        <4>1. queue' = Without(queue, u) /\ Items(Without(queue, u)) = Items(queue) \ {u}
          BY <1>8, <1>a, <3>2, QueuedItems, WithoutItems DEF Cancel, QueueTyped, OnePlace
        <4>2. Items(queue)' = Items(queue) \ {u}
          BY <4>1 DEF Items
        <4>3. QED
          BY <3>2, <4>2 DEF Kept
      <3>3. CASE ~Queued(u)
        BY <1>8, <1>e, <3>3 DEF Cancel, Kept
      <3>4. QED
        BY <3>1, <3>2, <3>3
    <2>4. QED
      BY <1>1, <2>1, <2>2, <2>3 DEF Busy
  <1>9. ASSUME NEW u \in Tasks, Cancelling(u)
        PROVE  Kept(t)'
    <2>1. UNCHANGED <<queue, worker, caller>> /\ WokenClients
      BY <1>9, <1>a, <1>d, NotifyWakes
         DEF Cancelling, CancelClaims, CancelSettles, RequestStop, CancelNotifies
    <2>2. (cancel[t].at = "claim" /\ cancel[t].removed) => cancel'[t] = cancel[t]
      <3>1. CASE CancelClaims(u)
        <4>1. u # t
          BY <1>a, <1>b, <3>1 DEF CancelClaims, TaskTyped
        <4>2. QED
          BY <1>a, <3>1, <4>1 DEF CancelClaims, CancelEnds, CancelTyped
      <3>2. CASE ~CancelClaims(u)
        BY <1>9, <1>a, <3>2
           DEF Cancelling, CancelSettles, RequestStop, CancelNotifies, CancelEnds, CancelTyped
      <3>3. QED
        BY <3>1, <3>2
    <2>3. QED
      BY <1>1, <1>d, <2>1, <2>2 DEF Busy
  <1>10. ASSUME NEW c \in Callers, NEW m \in Modes, BeginShutdown(c, m)
         PROVE  Kept(t)'
    <2>1. UNCHANGED <<worker, cancel>> /\ Accepted(t)
      BY <1>10, <1>d DEF BeginShutdown
    <2>2. /\ caller[c].pending = <<>>
          /\ \A d \in Callers : d # c => caller'[d] = caller[d]
      BY <1>10, <1>a DEF BeginShutdown, LeftForGood, CallerTyped
    <2>3. \A d \in Callers : t \in Items(caller[d].pending) => t \in Items(caller'[d].pending)
      BY <2>2, EmptyItems
    <2>4. UNCHANGED queue \/ caller'[c].pending = queue
      BY <1>10, <1>a DEF BeginShutdown, CallerTyped, CallerStates
    <2>5. caller'[c].pending = queue /\ t \in Items(queue) => Kept(t)'
      BY DEF Kept, Items
    <2>6. QED
      BY <1>1, <2>1, <2>3, <2>4, <2>5 DEF Busy
  <1>11. ASSUME NEW c \in Callers, ShutdownClaims(c) \/ ShutdownSettles(c)
         PROVE  Kept(t)'
    <2>1. UNCHANGED <<queue, worker, cancel>> /\ Accepted(t)
      BY <1>11, <1>d DEF ShutdownClaims, ShutdownSettles
    <2>2. /\ caller[c].pending \in Seq(Tasks) /\ caller[c].pending # <<>>
          /\ \A d \in Callers : d # c => caller'[d] = caller[d]
          /\ caller'[c].pending \in {caller[c].pending, Tail(caller[c].pending)}
      BY <1>11, <1>a
         DEF ShutdownClaims, ShutdownSettles, OneClaim, Settling, CallerTyped, CallerStates
    <2>3. Head(caller[c].pending) # t \/ caller'[c].pending = caller[c].pending
      BY <1>11, <1>a, <1>b
         DEF ShutdownClaims, ShutdownSettles, OneClaim, Settling, CallerTyped, CallerStates
    <2>4. Items(caller[c].pending) = Items(Tail(caller[c].pending)) \cup {Head(caller[c].pending)}
      BY <2>2, TailItems
    <2>5. \A d \in Callers : t \in Items(caller[d].pending) => t \in Items(caller'[d].pending)
      BY <2>2, <2>3, <2>4
    <2>6. QED
      BY <1>1, <2>1, <2>5 DEF Busy
  <1>12. ASSUME NEW c \in Callers, ShutdownNotifies(c) \/ JoinAll(c) \/ WaitForWorkers(c)
         PROVE  Kept(t)'
    <2>1. UNCHANGED <<queue, cancel>> /\ WokenClients /\ WokenWorkers
      BY <1>12, <1>a, <1>d, NotifyWakes DEF ShutdownNotifies, JoinAll, WaitForWorkers
    <2>2. \A d \in Callers : caller'[d].pending = caller[d].pending
      <3>1. ASSUME NEW d \in Callers
            PROVE  caller'[d].pending = caller[d].pending
        <4>1. CASE d # c
          BY <1>12, <1>a, <4>1 DEF ShutdownNotifies, JoinAll, WaitForWorkers, CallerTyped
        <4>2. CASE d = c /\ (ShutdownNotifies(c) \/ WaitForWorkers(c))
          BY <1>a, <4>2 DEF ShutdownNotifies, WaitForWorkers, CallerTyped, CallerStates
        <4>3. CASE d = c /\ JoinAll(c)
          BY <1>a, <4>3 DEF JoinAll, CallerTyped, CallerStates
        <4>4. QED
          BY <1>12, <4>1, <4>2, <4>3
      <3>2. QED
        BY <3>1
    <2>3. QED
      BY <1>1, <1>d, <2>1, <2>2 DEF Busy
  <1>13. QED
    BY <1>2, <1>3, <1>4, <1>5, <1>6, <1>7, <1>8, <1>9, <1>10, <1>11, <1>12
       DEF Next, Client, Worker, Closing

-----------------------------------------------------------------------------
(* Who has left *)

LEMMA LeftStep ==
    ASSUME ExecutorInv, [Next]_vars
    PROVE  LeftForGood'
  <1> USE DEF state, task
  <1>a. /\ TypeOK /\ LeftForGood
        /\ QueueTyped /\ WorkerTyped /\ CallerTyped
    BY TypedParts DEF ExecutorInv
  <1> DEFINE QueueLeft == stopping' => ~accepting' /\ (stopping /\ queue = <<>> => queue' = <<>>)
             WorkersLeft == \A w \in Workers : worker'[w].at = "exited" =>
                               worker[w].at = "exited" \/ (stopping' /\ queue' = <<>>)
             WorkersStay == \A w \in Workers : worker[w].at = "exited" => worker'[w].at = "exited"
             CallersLeft == /\ \A c \in Callers : caller'[c].at = "idle" => caller'[c].pending = <<>>
                            /\ \A c \in Closers : caller'[c].at = "returned" =>
                                  \/ caller[c].at = "returned"
                                  \/ \A w \in Workers : worker[w].at = "exited"
  <1>1. ASSUME QueueLeft, stopping => stopping', WorkersLeft, WorkersStay, CallersLeft
        PROVE  LeftForGood'
    BY <1>1, <1>a DEF LeftForGood
  <1>b. /\ UNCHANGED state => QueueLeft /\ (stopping => stopping')
        /\ WokenWorkers => WorkersLeft /\ WorkersStay
        /\ UNCHANGED worker => WokenWorkers
        /\ UNCHANGED caller => CallersLeft
    BY <1>a, NotifyWakes DEF LeftForGood, WokenWorkers
  <1> HIDE DEF QueueLeft, WorkersLeft, WorkersStay, CallersLeft
  <1>2. CASE UNCHANGED vars \/ Finished \/ SpuriousWakeup
    <2>1. UNCHANGED <<state, caller>> /\ WokenWorkers
      BY <1>2, <1>a, <1>b, NotifyWakes DEF vars, Finished, SpuriousWakeup
    <2>2. QED
      BY <1>1, <1>b, <2>1
  <1>3. ASSUME NEW t \in Tasks, TrySubmit(t) \/ DeadlinePasses(t) \/ Client(t) \/ Cancelling(t)
        PROVE  LeftForGood'
    <2>1. UNCHANGED caller /\ WokenWorkers
      BY <1>3, <1>a, <1>b, NotifyWakes
         DEF TrySubmit, DeadlinePasses, Client, SubmitUntil, Submitted,
            Cancelling, CancelClaims, CancelSettles, RequestStop, CancelNotifies
    <2>2. UNCHANGED state \/ (accepting /\ UNCHANGED <<accepting, stopping>>)
      BY <1>3 DEF TrySubmit, DeadlinePasses, Client, SubmitUntil, Submitted, Push, Refused,
            Cancelling, CancelClaims, CancelSettles, RequestStop, CancelNotifies
    <2>3. QueueLeft /\ (stopping => stopping')
      BY <1>a, <1>b, <2>2 DEF QueueLeft, LeftForGood
    <2>4. QED
      BY <1>1, <1>b, <2>1, <2>3
  <1>4. ASSUME NEW w \in Workers, Pop(w)
        PROVE  LeftForGood'
    <2>1. UNCHANGED caller /\ QueueLeft /\ (stopping => stopping')
      BY <1>4, <1>a DEF Pop, QueueLeft, LeftForGood
    <2>2. WorkersLeft /\ WorkersStay
      BY <1>4, <1>a DEF Pop, WorkersLeft, WorkersStay, WorkerTyped
    <2>3. QED
      BY <1>1, <1>b, <2>1, <2>2
  <1>5. ASSUME NEW w \in Workers, Worker(w), ~Pop(w)
        PROVE  LeftForGood'
    <2>1. UNCHANGED <<state, caller>>
      BY <1>5 DEF Worker, Sleep, Exit, Popped, BeginExecution, Fulfil, FinishExecution
    <2>2. WorkersLeft /\ WorkersStay
      <3>1. CASE Exit(w)
        BY <1>a, <3>1 DEF Exit, WorkersLeft, WorkersStay, WorkerTyped, WorkerStates
      <3>2. CASE ~Exit(w)
        BY <1>5, <1>a, <3>2 DEF Worker, Sleep, Popped, BeginExecution, Fulfil, FinishExecution,
              WorkersLeft, WorkersStay, WorkerTyped, WorkerStates
      <3>3. QED
        BY <3>1, <3>2
    <2>3. QED
      BY <1>1, <1>b, <2>1, <2>2
  <1>6. ASSUME NEW t \in Tasks, Cancel(t)
        PROVE  LeftForGood'
    <2>1. UNCHANGED <<worker, caller, accepting, stopping>>
      BY <1>6 DEF Cancel
    <2>2. queue = <<>> => queue' = <<>>
      BY <1>6 DEF Cancel, Queued
    <2>3. QueueLeft /\ (stopping => stopping')
      BY <1>a, <2>1, <2>2 DEF QueueLeft, LeftForGood
    <2>4. QED
      BY <1>1, <1>b, <2>1, <2>3
  <1>7. ASSUME NEW c \in Callers, NEW m \in Modes, BeginShutdown(c, m)
        PROVE  LeftForGood'
    <2>1. UNCHANGED worker /\ QueueLeft /\ (stopping => stopping')
      BY <1>7, <1>a DEF BeginShutdown, QueueLeft, LeftForGood
    <2>2. /\ caller'[c].at \in {"join", "cancel"}
          /\ \A d \in Callers : d # c => caller'[d] = caller[d]
      <3>1. CASE stopping
        BY <1>7, <1>a, <3>1 DEF BeginShutdown, CallerTyped, CallerStates
      <3>2. CASE ~stopping
        <4>1. PICK r : r.at = "cancel" /\ caller' = [caller EXCEPT ![c] = r]
          <5>1. \A q : [caller[c] EXCEPT !.at = "cancel", !.mode = m, !.chose = TRUE, !.pending = q].at
                       = "cancel"
            BY <1>a DEF CallerTyped, CallerStates
          <5>2. QED
            BY <1>7, <3>2, <5>1 DEF BeginShutdown
        <4>2. QED
          BY <1>a, <4>1 DEF CallerTyped
      <3>3. QED
        BY <3>1, <3>2
    <2>3. CallersLeft
      BY <1>a, <2>2, BoundedExecutorAssumption DEF CallersLeft, LeftForGood, Callers
    <2>4. QED
      BY <1>1, <1>b, <2>1, <2>3
  <1>8. ASSUME NEW c \in Callers, Closing(c)
        PROVE  LeftForGood'
    <2>1. UNCHANGED state /\ WokenWorkers
      BY <1>8, <1>a, <1>b, NotifyWakes
         DEF Closing, ShutdownClaims, ShutdownSettles, ShutdownNotifies,
            JoinAll, WaitForWorkers
    <2>2. /\ caller'[c].at # "idle"
          /\ \A d \in Callers : d # c => caller'[d] = caller[d]
          /\ (caller'[c].at = "returned" /\ c \in Closers) => \A w \in Workers : worker[w].at = "exited"
      <3> USE DEF CallerTyped, CallerStates
      <3>1. CASE ShutdownClaims(c)
        BY <1>a, <3>1 DEF ShutdownClaims
      <3>2. CASE ShutdownSettles(c)
        BY <1>a, <3>2 DEF ShutdownSettles
      <3>3. CASE ShutdownNotifies(c)
        BY <1>a, <3>3 DEF ShutdownNotifies
      <3>4. CASE JoinAll(c)
        BY <1>a, <3>4, BoundedExecutorAssumption DEF JoinAll, Callers
      <3>5. CASE WaitForWorkers(c)
        BY <1>a, <3>5 DEF WaitForWorkers
      <3>6. QED
        BY <1>8, <3>1, <3>2, <3>3, <3>4, <3>5 DEF Closing
    <2>3. CallersLeft
      BY <1>a, <2>2 DEF CallersLeft, LeftForGood, Callers
    <2>4. QED
      BY <1>1, <1>b, <2>1, <2>3
  <1>9. QED
    BY <1>2, <1>3, <1>4, <1>5, <1>6, <1>7, <1>8 DEF Next

-----------------------------------------------------------------------------
(* What is left when the workers are gone *)

LEMMA Settled ==
    ASSUME ExecutorInv, \A w \in Workers : worker[w].at = "exited",
           NEW t \in Tasks, Accepted(t), promise[t] = "empty"
    PROVE  BeingCancelled(t) \/ \E d \in Callers : t \in Pending(d)
  <1>1. \A w \in Workers : ~Busy(w) /\ ~Runs(w)
    BY DEF Busy, Runs
  <1>2. Items(queue) = {}
    BY BoundedExecutorAssumption, EmptyItems DEF ExecutorInv, LeftForGood
  <1>3. Consistent(t) /\ phase[t] \in {"Queued", "Running", "Finished", "Cancelled"}
    BY TypedParts DEF ExecutorInv, OneClaim, TaskTyped
  <1>4. CASE phase[t] = "Queued"
    <2>1. Kept(t)
      BY <1>4, NoTaskLostKept DEF ExecutorInv
    <2>2. QED
      BY <1>1, <1>2, <2>1, QueuedItems DEF Kept, BeingCancelled
  <1>5. CASE phase[t] = "Cancelled"
    <2>1. cancel[t].at = "settle" \/ \E d \in Callers : SettledBy(d, t)
      BY <1>3, <1>5 DEF Consistent
    <2>2. ASSUME NEW d \in Callers, SettledBy(d, t)
          PROVE  t \in Pending(d)
      <3>1. caller[d].pending # <<>> /\ caller[d].pending \in Seq(Tasks)
        BY <2>2, TypedParts
           DEF ExecutorInv, OneClaim, Settling, SettledBy, CallerTyped, CallerStates
      <3>2. Head(caller[d].pending) \in Items(caller[d].pending)
        BY <3>1, TailItems
      <3>3. QED
        BY <2>2, <3>2, QueuedItems DEF SettledBy
    <2>3. QED
      BY <2>1, <2>2 DEF BeingCancelled
  <1>6. CASE phase[t] \in {"Running", "Finished"}
    BY <1>1, <1>3, <1>6 DEF Consistent
  <1>7. QED
    BY <1>3, <1>4, <1>5, <1>6

-----------------------------------------------------------------------------
(* The theorems *)

LEMMA InitInv == Init => ExecutorInv
  <1> SUFFICES ASSUME Init
               PROVE  ExecutorInv
    OBVIOUS
  <1>1. TypeOK
    <2>1. QueueTyped /\ ThreadsTyped /\ TaskTyped
      <3>1. <<>> \in Seq(Tasks)
        OBVIOUS
      <3>2. QED
        BY <3>1 DEF Init, QueueTyped, ThreadsTyped, TaskTyped
    <2>2. WorkerTyped
      BY DEF Init, WorkerTyped, WorkerStates
    <2>3. ClientTyped /\ CancelTyped
      BY DEF Init, ClientTyped, ClientStates, CancelTyped, CancelStates
    <2>4. CallerTyped
      BY DEF Init, CallerTyped, CallerStates, Modes
    <2>5. QED
      BY <2>1, <2>2, <2>3, <2>4, TypedParts
  <1>2. OnePlace
    BY EmptyItems DEF Init, OnePlace, Busy
  <1>3. OneClaim
    BY DEF Init, OneClaim, ClaimedBy, Consistent, Settling
  <1>4. OneStop /\ CancelAnswers /\ NoTaskLost
    BY DEF Init, OneStop, Stopped, CancelAnswers, NoTaskLost, Accepted
  <1>5. LeftForGood
    BY DEF Init, LeftForGood, Callers
  <1>6. QED
    BY <1>1, <1>2, <1>3, <1>4, <1>5 DEF ExecutorInv

\* Whoever submits, cancels and shuts down at once: a task is in one pair of hands, is
\* claimed once, and is never dropped (TryEnqueue, RunWorker, Cancel, BeginShutdown).
THEOREM ExecutorSound == Spec => []ExecutorInv
  <1>1. ExecutorInv /\ [Next]_vars => ExecutorInv'
    <2> SUFFICES ASSUME ExecutorInv, [Next]_vars
                 PROVE  ExecutorInv'
      OBVIOUS
    <2>1. TypeOK /\ OnePlace /\ OneClaim /\ OneStop /\ CancelAnswers
      BY DEF ExecutorInv
    <2>2. TypeOK'
      BY <2>1, TypeStep
    <2>3. OnePlace'
      BY <2>1, PlaceStep
    <2>4. OneClaim'
      BY <2>1, ClaimStep
    <2>5. OneStop' /\ CancelAnswers'
      BY <2>1, AnswerStep
    <2>6. NoTaskLost' /\ LeftForGood'
      BY LostStep, LeftStep
    <2>7. QED
      BY <2>2, <2>3, <2>4, <2>5, <2>6 DEF ExecutorInv
  <1>2. QED
    BY InitInv, <1>1, PTL DEF Spec

\* A body runs only under its own worker's claim and the promise says what the phase says
\* (BeginExecution, CancelQueued, RequestCancel, FinishExecution).
THEOREM OneOutcomeAlways == Spec => []OneOutcome
  <1>1. ExecutorInv => OneOutcome
    <2> SUFFICES ASSUME ExecutorInv
                 PROVE  OneOutcome
      OBVIOUS
    <2>1. OnePlace /\ OneClaim
      BY DEF ExecutorInv
    <2>2. \A w \in Workers : LET t == worker[w].task IN
            /\ worker[w].at = "running" => phase[t] = "Running" /\ promise[t] = "empty"
            /\ worker[w].at = "fulfilled" => phase[t] = "Running" /\ promise[t] = "value"
      BY <2>1 DEF OneClaim, ClaimedBy
    <2>3. \A v, w \in Workers : (Hold(v) # {} /\ Hold(v) = Hold(w)) => v = w
      BY <2>1 DEF OnePlace, Hold, Busy
    <2>4. \A t \in Tasks :
            /\ phase[t] = "Queued" => promise[t] = "empty"
            /\ phase[t] = "Finished" => promise[t] = "value"
            /\ phase[t] = "Cancelled" => promise[t] # "value"
            /\ (phase[t] = "Cancelled" /\ promise[t] = "empty") =>
                  \/ cancel[t].at = "settle"
                  \/ \E c \in Callers : caller[c].at = "settle" /\ Head(caller[c].pending) = t
      BY <2>1 DEF OneClaim, Consistent, SettledBy
    <2>5. QED
      BY <2>2, <2>3, <2>4 DEF OneOutcome
  <1>2. QED
    BY <1>1, ExecutorSound, PTL

\* What Cancel answers stays true, however often it is called: "yes" is answered once and
\* means never run or told to stop, "no" means that the task is over or that an earlier
\* "yes" told it to stop (TaskHandle::Cancel, RequestCancel).
THEOREM CancelAnswersAlways == Spec => []CancelAnswers
  <1>1. ExecutorInv => CancelAnswers
    BY DEF ExecutorInv
  <1>2. QED
    BY <1>1, ExecutorSound, PTL

\* A thread returns from Shutdown only when the workers have left, and then only a
\* canceller may still be about to settle a task (Shutdown, JoinAll, WaitForWorkers).
THEOREM ShutdownSettlesAllAlways == Spec => []ShutdownSettlesAll
  <1>1. ExecutorInv => ShutdownSettlesAll
    BY Settled DEF ShutdownSettlesAll, ExecutorInv, LeftForGood
  <1>2. QED
    BY <1>1, ExecutorSound, PTL

-----------------------------------------------------------------------------
(* The promises *)

\* Who closed the executor is known, is the only one that cancels what was pending, and
\* whatever is settled, pending or asked for was accepted.
ChoiceInv ==
    /\ stopping <=> \E c \in Callers : caller[c].chose
    /\ \A c, d \in Callers : caller[c].chose /\ caller[d].chose => c = d
    /\ \A c \in Callers : caller[c].pending # <<>> =>
          /\ caller[c].chose /\ caller[c].mode = "CancelPending"
          /\ caller[c].at \in {"cancel", "settle"}
          /\ \A t \in Items(caller[c].pending) : Accepted(t)
    /\ \A t \in Tasks : promise[t] # "empty" \/ cancel[t].at # "idle" => Accepted(t)

\* A step in which nobody chooses, and nothing becomes pending.
NothingChosen ==
    /\ UNCHANGED stopping
    /\ \A t \in Tasks : Accepted(t) => Accepted(t)'
    /\ \A c \in Callers : /\ caller'[c].chose = caller[c].chose
                          /\ caller'[c].mode = caller[c].mode
                          /\ \/ caller'[c].pending = <<>>
                             \/ caller'[c] = caller[c]
                             \/ /\ caller'[c].at \in {"cancel", "settle"}
                                /\ caller[c].pending # <<>>
                                /\ Items(caller'[c].pending) \subseteq Items(caller[c].pending)
    /\ \A t \in Tasks : promise'[t] # "empty" \/ cancel'[t].at # "idle" =>
          promise[t] # "empty" \/ cancel[t].at # "idle" \/ Accepted(t)

LEMMA NothingChosenInv ==
    ASSUME TypeOK, ChoiceInv, NothingChosen
    PROVE  ChoiceInv'
  <1>1. stopping' <=> \E c \in Callers : caller'[c].chose
    BY DEF ChoiceInv, NothingChosen
  <1>2. \A c, d \in Callers : caller'[c].chose /\ caller'[d].chose => c = d
    BY DEF ChoiceInv, NothingChosen
  <1>3. ASSUME NEW c \in Callers, caller'[c].pending # <<>>
        PROVE  /\ caller'[c].chose /\ caller'[c].mode = "CancelPending"
               /\ caller'[c].at \in {"cancel", "settle"}
               /\ \A t \in Items(caller'[c].pending) : Accepted(t)'
    <2>1. /\ caller[c].pending # <<>>
          /\ Items(caller'[c].pending) \subseteq Items(caller[c].pending)
          /\ caller'[c].at \in {"cancel", "settle"}
      BY <1>3 DEF NothingChosen, ChoiceInv
    <2>2. \A t \in Items(caller[c].pending) : t \in Tasks /\ Accepted(t)
      <3>1. caller[c].pending \in Seq(Tasks)
        BY TypedParts DEF CallerTyped, CallerStates
      <3>2. QED
        BY <2>1, <3>1 DEF ChoiceInv, Items
    <2>3. QED
      BY <2>1, <2>2 DEF NothingChosen, ChoiceInv
  <1>4. \A t \in Tasks : promise'[t] # "empty" \/ cancel'[t].at # "idle" => Accepted(t)'
    BY DEF ChoiceInv, NothingChosen
  <1>5. QED
    BY <1>1, <1>2, <1>3, <1>4 DEF ChoiceInv, Items

LEMMA ChoiceStep ==
    ASSUME ExecutorInv, ChoiceInv, [Next]_vars
    PROVE  ChoiceInv'
  <1> USE DEF state, task
  <1>a. /\ TypeOK /\ OnePlace /\ OneClaim /\ LeftForGood
        /\ QueueTyped /\ TaskTyped /\ WorkerTyped /\ ClientTyped /\ CancelTyped /\ CallerTyped
    BY TypedParts DEF ExecutorInv
  <1>b. SUFFICES ASSUME ~NothingChosen
                 PROVE  ChoiceInv'
    BY <1>a, NothingChosenInv
  <1>c. /\ WokenClients => \A t \in Tasks : Accepted(t) => Accepted(t)'
        /\ UNCHANGED client => WokenClients
    BY <1>a, NotifyWakes DEF WokenClients, Accepted
  <1>1. ASSUME UNCHANGED <<promise, stopping, caller>>,
               \A t \in Tasks : Accepted(t) => Accepted(t)',
               \A t \in Tasks : cancel'[t].at # "idle" => cancel[t].at # "idle" \/ Accepted(t)
        PROVE  ChoiceInv'
    BY <1>1, <1>b DEF NothingChosen
  <1>2. CASE UNCHANGED vars \/ Finished \/ SpuriousWakeup
    <2>1. UNCHANGED <<promise, stopping, caller, cancel>> /\ WokenClients
      BY <1>2, <1>a, <1>c, NotifyWakes DEF vars, Finished, SpuriousWakeup
    <2>2. QED
      BY <1>1, <1>c, <2>1
  <1>3. ASSUME NEW u \in Tasks, TrySubmit(u) \/ DeadlinePasses(u) \/ Client(u)
        PROVE  ChoiceInv'
    <2>1. UNCHANGED <<promise, stopping, caller, cancel>>
      BY <1>3 DEF TrySubmit, DeadlinePasses, Client, SubmitUntil, Submitted, Push, Refused
    <2>2. \A t \in Tasks : Accepted(t) => Accepted(t)'
      BY <1>3, <1>a DEF TrySubmit, DeadlinePasses, Client, SubmitUntil, Submitted, Push, Refused,
            Accepted, ClientTyped
    <2>3. QED
      BY <1>1, <2>1, <2>2
  <1>4. ASSUME NEW w \in Workers, Worker(w)
        PROVE  ChoiceInv'
    <2>1. UNCHANGED <<stopping, caller, cancel>> /\ WokenClients
      BY <1>4, <1>a, <1>c, NotifyWakes
         DEF Worker, Pop, Sleep, Exit, Popped, BeginExecution, Fulfil, FinishExecution
    <2>2. CASE Fulfil(w)
      <3>1. worker[w].task \in Tasks /\ Accepted(worker[w].task)
        BY <2>2, <1>a DEF Fulfil, OnePlace, InHand, Busy
      <3>2. \A t \in Tasks : promise'[t] # "empty" => promise[t] # "empty" \/ Accepted(t)
        BY <2>2, <1>a, <3>1 DEF Fulfil, TaskTyped
      <3>3. QED
        BY <1>b, <1>c, <2>1, <3>2 DEF NothingChosen
    <2>3. CASE ~Fulfil(w)
      <3>1. UNCHANGED promise
        BY <1>4, <2>3 DEF Worker, Pop, Sleep, Exit, Popped, BeginExecution, FinishExecution
      <3>2. QED
        BY <1>1, <1>c, <2>1, <3>1
    <2>4. QED
      BY <2>2, <2>3
  <1>5. ASSUME NEW u \in Tasks, Cancel(u) \/ Cancelling(u)
        PROVE  ChoiceInv'
    <2>1. UNCHANGED <<stopping, caller>> /\ WokenClients
      BY <1>5, <1>a, <1>c, NotifyWakes
         DEF Cancel, Cancelling, CancelClaims, CancelSettles, RequestStop, CancelNotifies
    <2>2. Accepted(u)
      BY <1>5
         DEF Cancel, Cancelling, CancelClaims, CancelSettles, RequestStop, CancelNotifies,
             ChoiceInv, Accepted
    <2>3. \A t \in Tasks : t # u => promise'[t] = promise[t] /\ cancel'[t] = cancel[t]
      BY <1>5, <1>a
         DEF Cancel, Cancelling, CancelClaims, CancelSettles, RequestStop, CancelNotifies,
            CancelEnds, SetCancelledException, TaskTyped, CancelTyped
    <2>4. QED
      BY <1>b, <1>c, <2>1, <2>2, <2>3 DEF NothingChosen
  <1>6. ASSUME NEW c \in Callers, NEW m \in Modes, BeginShutdown(c, m)
        PROVE  ChoiceInv'
    <2>1. UNCHANGED <<promise, cancel, client>> /\ caller[c].pending = <<>>
      BY <1>6, <1>a DEF BeginShutdown, LeftForGood
    <2>2. \A t : Accepted(t)' <=> Accepted(t)
      BY <2>1 DEF Accepted
    <2>3. CASE stopping
      <3>1. /\ UNCHANGED stopping
            /\ \A d \in Callers : d # c => caller'[d] = caller[d]
            /\ caller'[c].chose = caller[c].chose /\ caller'[c].mode = caller[c].mode
            /\ caller'[c].pending = <<>>
        BY <1>6, <1>a, <2>1, <2>3 DEF BeginShutdown, CallerTyped, CallerStates
      <3>2. QED
        BY <1>b, <2>1, <2>2, <3>1 DEF NothingChosen
    <2>4. CASE ~stopping
      <3>1. /\ stopping'
            /\ \A d \in Callers : d # c => caller'[d] = caller[d] /\ ~caller'[d].chose
            /\ caller'[c].chose /\ caller'[c].at = "cancel" /\ caller'[c].mode = m
            /\ caller'[c].pending = IF m = "CancelPending" THEN queue ELSE <<>>
        <4> DEFINE q == IF m = "CancelPending" THEN queue ELSE <<>>
                   r == [caller[c] EXCEPT !.at = "cancel", !.mode = m, !.chose = TRUE, !.pending = q]
        <4>1. caller' = [caller EXCEPT ![c] = r] /\ stopping'
          BY <1>6, <2>4 DEF BeginShutdown
        <4> HIDE DEF q
        <4>2. r.chose /\ r.at = "cancel" /\ r.mode = m /\ r.pending = q
          BY <1>a DEF CallerTyped, CallerStates
        <4> HIDE DEF r
        <4>3. caller'[c] = r /\ \A d \in Callers : d # c => caller'[d] = caller[d]
          BY <1>a, <4>1 DEF CallerTyped
        <4>4. QED
          BY <2>4, <4>1, <4>2, <4>3 DEF ChoiceInv, q
      <3>2. \A t \in Items(queue) : Accepted(t)
        BY <1>a DEF OnePlace
      <3>3. ASSUME NEW d \in Callers, caller'[d].pending # <<>>
            PROVE  /\ caller'[d].chose /\ caller'[d].mode = "CancelPending"
                   /\ caller'[d].at \in {"cancel", "settle"}
                   /\ \A t \in Items(caller'[d].pending) : Accepted(t)'
        <4>1. d = c
          BY <2>4, <3>1, <3>3 DEF ChoiceInv
        <4>2. m = "CancelPending" /\ caller'[d].pending = queue
          BY <3>1, <3>3, <4>1
        <4>3. QED
          BY <2>2, <3>1, <3>2, <4>1, <4>2
      <3>4. \A t \in Tasks : promise'[t] # "empty" \/ cancel'[t].at # "idle" => Accepted(t)'
        BY <2>1, <2>2 DEF ChoiceInv
      <3>5. QED
        BY <3>1, <3>3, <3>4 DEF ChoiceInv, Items
    <2>5. QED
      BY <2>3, <2>4
  <1>7. ASSUME NEW c \in Callers, ShutdownClaims(c) \/ ShutdownSettles(c)
        PROVE  ChoiceInv'
    <2>1. UNCHANGED <<stopping, cancel, client>> /\ \A t : Accepted(t)' <=> Accepted(t)
      BY <1>7 DEF ShutdownClaims, ShutdownSettles, Accepted
    <2>2. caller[c].pending # <<>> /\ caller[c].pending \in Seq(Tasks)
      BY <1>7, <1>a
         DEF ShutdownClaims, ShutdownSettles, OneClaim, Settling, CallerTyped, CallerStates
    <2>3. Accepted(Head(caller[c].pending)) /\ Head(caller[c].pending) \in Tasks
          /\ Items(Tail(caller[c].pending)) \subseteq Items(caller[c].pending)
      BY <2>2, TailItems DEF ChoiceInv
    <2>4. /\ \A d \in Callers : d # c => caller'[d] = caller[d]
          /\ caller'[c].chose = caller[c].chose /\ caller'[c].mode = caller[c].mode
          /\ caller'[c].at \in {"cancel", "settle"}
          /\ caller'[c].pending \in {caller[c].pending, Tail(caller[c].pending)}
      BY <1>7, <1>a DEF ShutdownClaims, ShutdownSettles, CallerTyped, CallerStates
    <2>5. \A t \in Tasks : promise'[t] # "empty" => promise[t] # "empty" \/ Accepted(t)
      BY <1>7, <1>a, <2>3 DEF ShutdownClaims, ShutdownSettles, SetCancelledException, TaskTyped
    <2>6. QED
      BY <1>b, <2>1, <2>2, <2>3, <2>4, <2>5 DEF NothingChosen
  <1>8. ASSUME NEW c \in Callers, ShutdownNotifies(c) \/ JoinAll(c) \/ WaitForWorkers(c)
        PROVE  ChoiceInv'
    <2>1. UNCHANGED <<stopping, promise, cancel>> /\ WokenClients
      BY <1>8, <1>a, <1>c, NotifyWakes DEF ShutdownNotifies, JoinAll, WaitForWorkers
    <2>2. caller[c].pending = <<>>
      BY <1>8 DEF ShutdownNotifies, JoinAll, WaitForWorkers, ChoiceInv
    <2>3. /\ \A d \in Callers : d # c => caller'[d] = caller[d]
          /\ caller'[c].chose = caller[c].chose /\ caller'[c].mode = caller[c].mode
          /\ caller'[c].pending = caller[c].pending
      <3>1. CASE ShutdownNotifies(c) \/ WaitForWorkers(c)
        BY <1>a, <3>1 DEF ShutdownNotifies, WaitForWorkers, CallerTyped, CallerStates
      <3>2. CASE JoinAll(c)
        BY <1>a, <3>2 DEF JoinAll, CallerTyped, CallerStates
      <3>3. QED
        BY <1>8, <3>1, <3>2
    <2>4. QED
      BY <1>b, <1>c, <2>1, <2>2, <2>3 DEF NothingChosen
  <1>9. QED
    BY <1>2, <1>3, <1>4, <1>5, <1>6, <1>7, <1>8 DEF Next, Closing

-----------------------------------------------------------------------------
(* The refinement *)

outcomes == [t \in Tasks |-> Outcome(t)]
asking == {t \in Tasks : cancel[t].at # "idle"}
closing == IF ~stopping THEN "open" ELSE caller[CHOOSE c \in Callers : caller[c].chose].mode
closed == \E c \in Closers : caller[c].chose /\ caller[c].at = "returned"

PromisedStep == Promises!Next \/ UNCHANGED <<outcomes, asking, closing, closed>>

Unsent == {"new", "until", "waiting"}
RefusedFor == {"full", "timeout", "shutdown"}

LEMMA OutcomeIs ==
    ASSUME ClientTyped, NEW t \in Tasks
    PROVE  /\ client[t] \in Unsent => Outcome(t) = "unsent"
           /\ client[t] \in RefusedFor => Outcome(t) = "refused"
           /\ Accepted(t) /\ promise[t] = "value" => Outcome(t) = "ran"
           /\ Accepted(t) /\ promise[t] = "cancelled" => Outcome(t) = "cancelled"
           /\ Accepted(t) /\ promise[t] = "empty" => Outcome(t) = "accepted"
  BY DEF Outcome, Accepted, Unsent, RefusedFor

LEMMA OutcomeIsNext ==
    ASSUME ClientTyped', NEW t \in Tasks
    PROVE  /\ client'[t] \in Unsent => Outcome(t)' = "unsent"
           /\ client'[t] \in RefusedFor => Outcome(t)' = "refused"
           /\ Accepted(t)' /\ promise'[t] = "value" => Outcome(t)' = "ran"
           /\ Accepted(t)' /\ promise'[t] = "cancelled" => Outcome(t)' = "cancelled"
           /\ Accepted(t)' /\ promise'[t] = "empty" => Outcome(t)' = "accepted"
  BY DEF Outcome, Accepted, Unsent, RefusedFor

LEMMA OutcomeKept ==
    ASSUME ClientTyped, NEW t \in Tasks, promise'[t] = promise[t],
           \/ client'[t] = client[t]
           \/ client[t] \in Unsent /\ client'[t] \in Unsent
           \/ Accepted(t) /\ Accepted(t)'
    PROVE  Outcome(t)' = Outcome(t)
  BY DEF Outcome, Accepted, Unsent, ClientTyped, ClientStates

LEMMA TheChosen ==
    ASSUME NEW f, NEW c \in Callers, f[c].chose, \A d \in Callers : f[d].chose => d = c
    PROVE  (CHOOSE d \in Callers : f[d].chose) = c
  OBVIOUS

\* Nobody chooses, and who chose is where he was, or is no thread of his own.
LEMMA ClosingKept ==
    ASSUME ChoiceInv, UNCHANGED stopping,
           \A c \in Callers : /\ caller'[c].chose = caller[c].chose
                              /\ caller'[c].mode = caller[c].mode,
           \A c \in Closers : caller[c].chose =>
              ((caller'[c].at = "returned") <=> (caller[c].at = "returned"))
    PROVE  UNCHANGED <<closing, closed>>
  <1>1. closed' = closed
    BY DEF closed, Callers
  <1>2. CASE ~stopping
    BY <1>1, <1>2 DEF closing
  <1>3. CASE stopping
    <2>1. PICK c \in Callers : caller[c].chose
      BY <1>3 DEF ChoiceInv
    <2>2. \A d \in Callers : caller[d].chose => d = c
      BY <2>1 DEF ChoiceInv
    <2>3. (CHOOSE d \in Callers : caller[d].chose) = c
      BY <2>1, <2>2, TheChosen
    <2>4. (CHOOSE d \in Callers : caller'[d].chose) = c
      BY <2>1, <2>2, TheChosen
    <2>5. QED
      BY <1>1, <1>3, <2>1, <2>3, <2>4 DEF closing
  <1>4. QED
    BY <1>2, <1>3

\* One task gets another outcome; everything else the promises speak of is as it was.
LEMMA OneBecomes ==
    ASSUME NEW u \in Tasks, NEW o, \A t \in Tasks \ {u} : Outcome(t)' = Outcome(t), Outcome(u)' = o
    PROVE  outcomes' = [outcomes EXCEPT ![u] = o]
  BY DEF outcomes

LEMMA PromisedSteps ==
    ASSUME NEW u \in Tasks, NEW o, outcomes' = [outcomes EXCEPT ![u] = o],
           UNCHANGED <<asking, closing, closed>>,
           \/ outcomes[u] = o
           \/ outcomes[u] = "unsent" /\ o = "accepted" /\ ~stopping
           \/ outcomes[u] = "unsent" /\ o = "refused"
           \/ outcomes[u] = "accepted" /\ o = "ran"
           \/ outcomes[u] = "accepted" /\ o = "cancelled" /\ (u \in asking \/ closing = "CancelPending")
    PROVE  PromisedStep
  <1>1. CASE outcomes[u] = o
    BY <1>1 DEF PromisedStep, outcomes
  <1>2. CASE outcomes[u] = "unsent" /\ o = "accepted" /\ ~stopping
    <2>1. Promises!Accept(u)
      BY <1>2 DEF Promises!Accept, Promises!Becomes, outcomes, asking, closing, closed
    <2>2. QED
      BY <2>1 DEF PromisedStep, Promises!Next
  <1>3. CASE outcomes[u] = "unsent" /\ o = "refused"
    <2>1. Promises!Refuse(u)
      BY <1>3 DEF Promises!Refuse, Promises!Becomes, outcomes, asking, closing, closed
    <2>2. QED
      BY <2>1 DEF PromisedStep, Promises!Next
  <1>4. CASE outcomes[u] = "accepted" /\ o = "ran"
    <2>1. Promises!Run(u)
      BY <1>4 DEF Promises!Run, Promises!Becomes, outcomes, asking, closing, closed
    <2>2. QED
      BY <2>1 DEF PromisedStep, Promises!Next
  <1>5. CASE outcomes[u] = "accepted" /\ o = "cancelled" /\ (u \in asking \/ closing = "CancelPending")
    <2>1. Promises!Cancel(u)
      BY <1>5 DEF Promises!Cancel, Promises!Becomes, outcomes, asking, closing, closed
    <2>2. QED
      BY <2>1 DEF PromisedStep, Promises!Next
  <1>6. QED
    BY <1>1, <1>2, <1>3, <1>4, <1>5

Same(t) == /\ promise'[t] = promise[t]
           /\ \/ client'[t] = client[t]
              \/ client[t] \in Unsent /\ client'[t] \in Unsent
              \/ Accepted(t) /\ Accepted(t)'
SameChoice ==
    /\ UNCHANGED stopping
    /\ \A c \in Callers : caller'[c].chose = caller[c].chose /\ caller'[c].mode = caller[c].mode
    /\ \A c \in Closers : caller[c].chose =>
          ((caller'[c].at = "returned") <=> (caller[c].at = "returned"))
SameAsking == \A t \in Tasks : (cancel'[t].at # "idle") <=> (cancel[t].at # "idle")

LEMMA NothingNew ==
    ASSUME ClientTyped, ChoiceInv, \A t \in Tasks : Same(t), SameChoice, SameAsking
    PROVE  PromisedStep
  <1>1. outcomes' = outcomes
    BY OutcomeKept DEF outcomes, Same
  <1>2. asking' = asking
    BY DEF asking, SameAsking
  <1>3. UNCHANGED <<closing, closed>>
    BY ClosingKept DEF SameChoice
  <1>4. QED
    BY <1>1, <1>2, <1>3 DEF PromisedStep

\* The step of one task.
LEMMA OneNew ==
    ASSUME ClientTyped, ClientTyped', ChoiceInv, NEW u \in Tasks,
           \A t \in Tasks : t # u => Same(t), SameChoice, SameAsking,
           \/ client[u] \in Unsent /\ Accepted(u)' /\ promise'[u] = "empty" /\ ~stopping
           \/ client[u] \in Unsent /\ client'[u] \in RefusedFor
           \/ /\ Accepted(u) /\ promise[u] = "empty" /\ Accepted(u)'
              /\ \/ promise'[u] = "value"
                 \/ promise'[u] = "cancelled" /\ (u \in asking \/ closing = "CancelPending")
    PROVE  PromisedStep
  <1>1. /\ outcomes[u] = Outcome(u)
        /\ \A t \in Tasks \ {u} : Outcome(t)' = Outcome(t)
    BY OutcomeKept DEF outcomes, Same
  <1>2. outcomes' = [outcomes EXCEPT ![u] = Outcome(u)']
    BY <1>1 DEF outcomes
  <1>3. asking' = asking
    BY DEF asking, SameAsking
  <1>4. UNCHANGED <<closing, closed>>
    BY ClosingKept DEF SameChoice
  <1>5. CASE client[u] \in Unsent /\ Accepted(u)' /\ promise'[u] = "empty" /\ ~stopping
    <2>1. Outcome(u) = "unsent" /\ Outcome(u)' = "accepted"
      BY <1>5, OutcomeIs, OutcomeIsNext
    <2>2. outcomes' = [outcomes EXCEPT ![u] = "accepted"] /\ outcomes[u] = "unsent"
      BY <1>1, <1>2, <2>1
    <2>3. QED
      BY <1>3, <1>4, <1>5, <2>2, PromisedSteps
  <1>6. CASE client[u] \in Unsent /\ client'[u] \in RefusedFor
    <2>1. Outcome(u) = "unsent" /\ Outcome(u)' = "refused"
      BY <1>6, OutcomeIs, OutcomeIsNext
    <2>2. outcomes' = [outcomes EXCEPT ![u] = "refused"] /\ outcomes[u] = "unsent"
      BY <1>1, <1>2, <2>1
    <2>3. QED
      BY <1>3, <1>4, <2>2, PromisedSteps
  <1>7. CASE Accepted(u) /\ promise[u] = "empty" /\ Accepted(u)' /\ promise'[u] = "value"
    <2>1. Outcome(u) = "accepted" /\ Outcome(u)' = "ran"
      BY <1>7, OutcomeIs, OutcomeIsNext
    <2>2. outcomes' = [outcomes EXCEPT ![u] = "ran"] /\ outcomes[u] = "accepted"
      BY <1>1, <1>2, <2>1
    <2>3. QED
      BY <1>3, <1>4, <2>2, PromisedSteps
  <1>8. CASE /\ Accepted(u) /\ promise[u] = "empty" /\ Accepted(u)' /\ promise'[u] = "cancelled"
             /\ u \in asking \/ closing = "CancelPending"
    <2>1. Outcome(u) = "accepted" /\ Outcome(u)' = "cancelled"
      BY <1>8, OutcomeIs, OutcomeIsNext
    <2>2. outcomes' = [outcomes EXCEPT ![u] = "cancelled"] /\ outcomes[u] = "accepted"
      BY <1>1, <1>2, <2>1
    <2>3. QED
      BY <1>3, <1>4, <1>8, <2>2, PromisedSteps
  <1>9. QED
    BY <1>5, <1>6, <1>7, <1>8

LEMMA PromiseStep ==
    ASSUME ExecutorInv, ChoiceInv, [Next]_vars
    PROVE  PromisedStep
  <1> USE DEF state, task
  <1>a. /\ TypeOK /\ OnePlace /\ OneClaim /\ LeftForGood
        /\ QueueTyped /\ TaskTyped /\ WorkerTyped /\ ClientTyped /\ CancelTyped /\ CallerTyped
    BY TypedParts DEF ExecutorInv
  <1>b. ClientTyped'
    <2>1. TypeOK'
      BY <1>a, TypeStep
    <2>2. QED
      BY <2>1 DEF TypeOK, ClientTyped, ClientStates
  <1>c. /\ WokenClients => \A t \in Tasks : promise'[t] = promise[t] => Same(t)
        /\ UNCHANGED client => WokenClients
    BY <1>a, NotifyWakes DEF WokenClients, Same, Unsent
  <1>d. UNCHANGED <<stopping, caller>> => SameChoice
    BY DEF SameChoice
  <1>e. UNCHANGED cancel => SameAsking
    BY DEF SameAsking
  <1>1. CASE UNCHANGED vars \/ Finished \/ SpuriousWakeup
    <2>1. UNCHANGED <<promise, stopping, caller, cancel>> /\ WokenClients
      BY <1>1, <1>a, <1>c, NotifyWakes DEF vars, Finished, SpuriousWakeup
    <2>2. QED
      BY <1>a, <1>c, <1>d, <1>e, <2>1, NothingNew
  <1>2. ASSUME NEW u \in Tasks, TrySubmit(u) \/ DeadlinePasses(u) \/ Client(u)
        PROVE  PromisedStep
    <2>1. UNCHANGED <<promise, stopping, caller, cancel>> /\ \A t \in Tasks : t # u => Same(t)
      BY <1>2, <1>a DEF TrySubmit, DeadlinePasses, Client, SubmitUntil, Submitted, Push, Refused,
            ClientTyped, Same
    <2>2. CASE Submitted(u)
      <3>1. Same(u)
        BY <1>a, <2>1, <2>2 DEF Submitted, Same, Accepted, ClientTyped
      <3>2. QED
        BY <1>a, <1>d, <1>e, <2>1, <3>1, NothingNew
    <2>3. CASE ~Submitted(u)
      <3>1. /\ client[u] \in Unsent
            /\ \/ accepting /\ client'[u] = "notify"
               \/ client'[u] \in RefusedFor
               \/ client'[u] = "waiting"
        BY <1>2, <1>a, <2>3 DEF TrySubmit, DeadlinePasses, Client, SubmitUntil, Push, Refused,
              ClientTyped, Unsent, RefusedFor
      <3>2. CASE accepting /\ client'[u] = "notify"
        <4>1. promise[u] = "empty" /\ ~stopping
          BY <1>a, <3>1, <3>2 DEF ChoiceInv, LeftForGood, Accepted, Unsent
        <4>2. Accepted(u)' /\ promise'[u] = "empty"
          BY <2>1, <3>2, <4>1 DEF Accepted
        <4>3. QED
          BY <1>a, <1>b, <1>d, <1>e, <2>1, <3>1, <4>1, <4>2, OneNew
      <3>3. CASE client'[u] \in RefusedFor
        BY <1>a, <1>b, <1>d, <1>e, <2>1, <3>1, <3>3, OneNew
      <3>4. CASE client'[u] = "waiting"
        <4>1. Same(u)
          BY <2>1, <3>1, <3>4 DEF Same, Unsent
        <4>2. QED
          BY <1>a, <1>d, <1>e, <2>1, <4>1, NothingNew
      <3>5. QED
        BY <3>1, <3>2, <3>3, <3>4
    <2>4. QED
      BY <2>2, <2>3
  <1>3. ASSUME NEW w \in Workers, Worker(w)
        PROVE  PromisedStep
    <2>1. UNCHANGED <<stopping, caller, cancel>> /\ WokenClients
      BY <1>3, <1>a, <1>c, NotifyWakes
         DEF Worker, Pop, Sleep, Exit, Popped, BeginExecution, Fulfil, FinishExecution
    <2>2. CASE Fulfil(w)
      <3>1. PICK u \in Tasks : u = worker[w].task /\ Accepted(u) /\ promise[u] = "empty"
        BY <2>2, <1>a DEF Fulfil, OnePlace, InHand, Busy, OneClaim, ClaimedBy
      <3>2. promise'[u] = "value" /\ \A t \in Tasks : t # u => promise'[t] = promise[t]
        BY <2>2, <1>a, <3>1 DEF Fulfil, TaskTyped
      <3>3. Accepted(u)' /\ \A t \in Tasks : t # u => Same(t)
        BY <1>c, <2>1, <2>2, <3>1, <3>2 DEF Fulfil, Accepted
      <3>4. QED
        BY <1>a, <1>b, <1>d, <1>e, <2>1, <3>1, <3>2, <3>3, OneNew
    <2>3. CASE ~Fulfil(w)
      <3>1. UNCHANGED promise
        BY <1>3, <2>3 DEF Worker, Pop, Sleep, Exit, Popped, BeginExecution, FinishExecution
      <3>2. QED
        BY <1>a, <1>c, <1>d, <1>e, <2>1, <3>1, NothingNew
    <2>4. QED
      BY <2>2, <2>3
  <1>4. ASSUME NEW u \in Tasks, Cancel(u)
        PROVE  PromisedStep
    <2>1. UNCHANGED <<promise, stopping, caller, client>> /\ Accepted(u)
      BY <1>4 DEF Cancel, Accepted
    <2>2. asking' = asking \cup {u}
      BY <1>4, <1>a DEF Cancel, asking, CancelTyped, CancelStates
    <2>3. UNCHANGED <<closing, closed>>
      BY <1>d, <2>1, ClosingKept DEF SameChoice
    <2>4. outcomes' = outcomes
      BY <1>a, <2>1, OutcomeKept DEF outcomes
    <2>5. outcomes[u] \notin {"unsent", "refused"}
      <3>1. promise[u] \in {"empty", "value", "cancelled"}
        BY <1>a DEF TaskTyped
      <3>2. QED
        BY <1>a, <2>1, <3>1, OutcomeIs DEF outcomes
    <2>6. Promises!Ask(u)
      BY <2>2, <2>3, <2>4, <2>5 DEF Promises!Ask, outcomes, asking, closing, closed
    <2>7. QED
      BY <2>6 DEF PromisedStep, Promises!Next
  <1>5. ASSUME NEW u \in Tasks, Cancelling(u)
        PROVE  PromisedStep
    <2>1. UNCHANGED <<stopping, caller>> /\ WokenClients /\ cancel[u].at # "idle"
      BY <1>5, <1>a, <1>c, NotifyWakes
         DEF Cancelling, CancelClaims, CancelSettles, RequestStop, CancelNotifies
    <2>2. SameAsking
      BY <1>5, <1>a DEF Cancelling, CancelClaims, CancelSettles, RequestStop, CancelNotifies,
            CancelEnds, CancelTyped, CancelStates, SameAsking
    <2>3. CASE CancelSettles(u) /\ promise[u] = "empty"
      <3>1. Accepted(u) /\ u \in asking
        BY <2>1 DEF ChoiceInv, asking
      <3>2. promise'[u] = "cancelled" /\ \A t \in Tasks : t # u => promise'[t] = promise[t]
        BY <2>3, <1>a DEF CancelSettles, SetCancelledException, TaskTyped
      <3>3. Accepted(u)' /\ \A t \in Tasks : t # u => Same(t)
        BY <1>c, <2>1, <2>3, <3>1, <3>2 DEF CancelSettles, Accepted
      <3>4. QED
        BY <1>a, <1>b, <1>d, <2>1, <2>2, <2>3, <3>1, <3>2, <3>3, OneNew
    <2>4. CASE ~(CancelSettles(u) /\ promise[u] = "empty")
      <3>1. \A t \in Tasks : promise'[t] = promise[t]
        BY <1>5, <1>a, <2>4
           DEF Cancelling, CancelClaims, CancelSettles, RequestStop, CancelNotifies,
              SetCancelledException, TaskTyped
      <3>2. QED
        BY <1>a, <1>c, <1>d, <2>1, <2>2, <3>1, NothingNew
    <2>5. QED
      BY <2>3, <2>4
  <1>6. ASSUME NEW c \in Callers, NEW m \in Modes, BeginShutdown(c, m)
        PROVE  PromisedStep
    <2>1. UNCHANGED <<promise, cancel, client>> /\ caller[c].at = "idle"
      BY <1>6 DEF BeginShutdown
    <2>2. CASE stopping
      <3>1. SameChoice
        BY <1>6, <1>a, <2>1, <2>2 DEF BeginShutdown, CallerTyped, CallerStates, SameChoice, Callers
      <3>2. QED
        BY <1>a, <1>c, <1>e, <2>1, <3>1, NothingNew
    <2>3. CASE ~stopping
      <3>1. /\ stopping' /\ ~caller[c].chose
            /\ \A d \in Callers : d # c => caller'[d] = caller[d] /\ ~caller'[d].chose
            /\ caller'[c].chose /\ caller'[c].at = "cancel" /\ caller'[c].mode = m
        <4> DEFINE q == IF m = "CancelPending" THEN queue ELSE <<>>
                   r == [caller[c] EXCEPT !.at = "cancel", !.mode = m, !.chose = TRUE, !.pending = q]
        <4>1. caller' = [caller EXCEPT ![c] = r] /\ stopping'
          BY <1>6, <2>3 DEF BeginShutdown
        <4> HIDE DEF q
        <4>2. r.chose /\ r.at = "cancel" /\ r.mode = m
          BY <1>a DEF CallerTyped, CallerStates
        <4> HIDE DEF r
        <4>3. caller'[c] = r /\ \A d \in Callers : d # c => caller'[d] = caller[d]
          BY <1>a, <4>1 DEF CallerTyped
        <4>4. QED
          BY <2>3, <4>1, <4>2, <4>3 DEF ChoiceInv
      <3>2. closing = "open"
        BY <2>3 DEF closing
      <3>3. (CHOOSE d \in Callers : caller'[d].chose) = c
        BY <3>1, TheChosen
      <3>4. closing' = m
        BY <3>1, <3>3 DEF closing
      <3>5. closed' = closed
        BY <2>3, <3>1 DEF closed, ChoiceInv, Callers
      <3>6. UNCHANGED <<outcomes, asking>>
        BY <1>a, <2>1, OutcomeKept DEF outcomes, asking
      <3>7. Promises!Close(m)
        BY <3>2, <3>4, <3>5, <3>6 DEF Promises!Close, outcomes, asking, closing, closed
      <3>8. QED
        BY <3>7 DEF PromisedStep, Promises!Next, Modes
    <2>4. QED
      BY <2>2, <2>3
  <1>7. ASSUME NEW c \in Callers, ShutdownClaims(c) \/ ShutdownNotifies(c) \/ JoinAll(c)
        PROVE  PromisedStep
    <2>1. UNCHANGED <<stopping, promise, cancel>> /\ WokenClients
      BY <1>7, <1>a, <1>c, NotifyWakes DEF ShutdownClaims, ShutdownNotifies, JoinAll
    <2>2. SameChoice
      <3>1. /\ \A d \in Callers : d # c => caller'[d] = caller[d]
            /\ caller'[c].chose = caller[c].chose /\ caller'[c].mode = caller[c].mode
            /\ caller[c].at # "returned"
        <4>1. CASE ShutdownClaims(c)
          BY <1>a, <4>1 DEF ShutdownClaims, CallerTyped, CallerStates
        <4>2. CASE ShutdownNotifies(c)
          BY <1>a, <4>2 DEF ShutdownNotifies, CallerTyped, CallerStates
        <4>3. CASE JoinAll(c)
          BY <1>a, <4>3 DEF JoinAll, CallerTyped, CallerStates
        <4>4. QED
          BY <1>7, <4>1, <4>2, <4>3
      <3>2. c \in Closers => caller'[c].at # "returned"
        <4>1. CASE ShutdownClaims(c)
          BY <1>a, <4>1 DEF ShutdownClaims, CallerTyped, CallerStates
        <4>2. CASE ShutdownNotifies(c)
          BY <1>a, <4>2 DEF ShutdownNotifies, CallerTyped, CallerStates
        <4>3. CASE JoinAll(c)
          BY <1>a, <4>3, BoundedExecutorAssumption DEF JoinAll, CallerTyped, CallerStates
        <4>4. QED
          BY <1>7, <4>1, <4>2, <4>3
      <3>3. QED
        BY <2>1, <3>1, <3>2 DEF SameChoice, Callers
    <2>3. QED
      BY <1>a, <1>c, <1>e, <2>1, <2>2, NothingNew
  <1>8. ASSUME NEW c \in Callers, ShutdownSettles(c)
        PROVE  PromisedStep
    <2>1. UNCHANGED <<stopping, cancel, client>>
      BY <1>8 DEF ShutdownSettles
    <2>2. SameChoice
      BY <1>8, <1>a DEF ShutdownSettles, CallerTyped, CallerStates, SameChoice, Callers
    <2>3. caller[c].pending # <<>> /\ caller[c].pending \in Seq(Tasks)
      BY <1>8, <1>a DEF ShutdownSettles, OneClaim, Settling, CallerTyped, CallerStates
    <2>4. PICK u \in Tasks : u = Head(caller[c].pending) /\ u \in Items(caller[c].pending)
      BY <2>3, TailItems
    <2>5. Accepted(u) /\ caller[c].chose /\ caller[c].mode = "CancelPending"
      BY <2>3, <2>4 DEF ChoiceInv
    <2>6. closing = "CancelPending"
      <3>1. stopping /\ \A d \in Callers : caller[d].chose => d = c
        BY <2>5 DEF ChoiceInv
      <3>2. (CHOOSE d \in Callers : caller[d].chose) = c
        BY <2>5, <3>1, TheChosen
      <3>3. QED
        BY <2>5, <3>1, <3>2 DEF closing
    <2>7. CASE promise[u] = "empty"
      <3>1. promise'[u] = "cancelled" /\ \A t \in Tasks : t # u => promise'[t] = promise[t]
        BY <1>8, <1>a, <2>4, <2>7 DEF ShutdownSettles, SetCancelledException, TaskTyped
      <3>2. Accepted(u)' /\ \A t \in Tasks : t # u => Same(t)
        BY <1>c, <2>1, <2>5, <3>1 DEF Accepted
      <3>3. QED
        BY <1>a, <1>b, <1>e, <2>1, <2>2, <2>5, <2>6, <2>7, <3>1, <3>2, OneNew
    <2>8. CASE promise[u] # "empty"
      <3>1. \A t \in Tasks : promise'[t] = promise[t]
        BY <1>8, <1>a, <2>4, <2>8 DEF ShutdownSettles, SetCancelledException, TaskTyped
      <3>2. QED
        BY <1>a, <1>c, <1>e, <2>1, <2>2, <3>1, NothingNew
    <2>9. QED
      BY <2>7, <2>8
  <1>9. ASSUME NEW c \in Callers, WaitForWorkers(c)
        PROVE  PromisedStep
    <2>1. /\ UNCHANGED <<stopping, promise, cancel, client>>
          /\ caller[c].at = "joining" /\ \A w \in Workers : worker[w].at = "exited"
      BY <1>9 DEF WaitForWorkers
    <2>2. /\ \A d \in Callers : caller'[d].chose = caller[d].chose /\ caller'[d].mode = caller[d].mode
          /\ \A d \in Callers : d # c => caller'[d] = caller[d]
          /\ caller'[c].at = "returned"
      BY <1>9, <1>a DEF WaitForWorkers, CallerTyped, CallerStates
    <2>3. CASE ~(caller[c].chose /\ c \in Closers)
      <3>1. SameChoice
        BY <2>1, <2>2, <2>3 DEF SameChoice, Callers
      <3>2. QED
        BY <1>a, <1>c, <1>e, <2>1, <3>1, NothingNew
    <2>4. CASE caller[c].chose /\ c \in Closers
      <3>1. stopping /\ \A d \in Callers : caller[d].chose => d = c
        BY <2>4 DEF ChoiceInv
      <3>2. (CHOOSE d \in Callers : caller[d].chose) = c
        BY <2>4, <3>1, TheChosen
      <3>3. (CHOOSE d \in Callers : caller'[d].chose) = c
        BY <2>2, <2>4, <3>1, TheChosen
      <3>4. closing' = closing /\ closing = caller[c].mode /\ closing # "open"
        <4>1. caller[c].mode \in Modes
          BY <1>a DEF CallerTyped, CallerStates
        <4>2. QED
          BY <2>1, <2>2, <3>1, <3>2, <3>3, <4>1 DEF closing, Modes
      <3>5. closed' = TRUE
        BY <2>2, <2>4 DEF closed
      <3>6. UNCHANGED <<outcomes, asking>>
        BY <1>a, <2>1, OutcomeKept DEF outcomes, asking
      <3>7. ASSUME NEW t \in Tasks, outcomes[t] = "accepted"
            PROVE  t \in asking
        <4>1. Accepted(t) /\ promise[t] = "empty"
          <5>1. promise[t] \in {"empty", "value", "cancelled"}
            BY <1>a DEF TaskTyped
          <5>2. client[t] \in Unsent \cup RefusedFor \/ Accepted(t)
            BY <1>a DEF ClientTyped, ClientStates, Unsent, RefusedFor, Accepted
          <5>3. QED
            BY <1>a, <3>7, <5>1, <5>2, OutcomeIs DEF outcomes
        <4>2. BeingCancelled(t) \/ \E d \in Callers : t \in Pending(d)
          BY <2>1, <4>1, Settled
        <4>3. ASSUME NEW d \in Callers, t \in Pending(d)
              PROVE  FALSE
          <5>1. caller[d].pending # <<>>
            BY <4>3, QueuedItems, EmptyItems
          <5>2. d = c /\ caller[d].at \in {"cancel", "settle"}
            BY <3>1, <5>1 DEF ChoiceInv
          <5>3. QED
            BY <2>1, <5>2
        <4>4. QED
          BY <4>2, <4>3 DEF BeingCancelled, asking
      <3>8. Promises!Return
        BY <3>4, <3>5, <3>6, <3>7 DEF Promises!Return, outcomes, asking, closing, closed
      <3>9. QED
        BY <3>8 DEF PromisedStep, Promises!Next
    <2>5. QED
      BY <2>3, <2>4
  <1>10. QED
    BY <1>1, <1>2, <1>3, <1>4, <1>5, <1>6, <1>7, <1>8, <1>9 DEF Next, Closing

\* What the executor does for those who submit is what TaskPromises says: one outcome per
\* accepted task, cancelled only on request, all of them before the closing caller returns
\* (Submit, RunWorker, TaskHandle::Cancel and Shutdown together).
THEOREM PromisesKept == Spec => ImplementsTaskPromises
  <1>1. Init => ChoiceInv /\ Promises!Init
    <2> SUFFICES ASSUME Init
                 PROVE  ChoiceInv /\ Promises!Init
      OBVIOUS
    <2>1. ChoiceInv
      BY DEF Init, ChoiceInv, Accepted
    <2>2. ClientTyped
      BY DEF Init, ClientTyped, ClientStates
    <2>3. \A t \in Tasks : Outcome(t) = "unsent"
      BY <2>2, OutcomeIs DEF Init, Unsent
    <2>4. Promises!Init
      <3>1. outcomes = [t \in Tasks |-> "unsent"]
        BY <2>3 DEF outcomes
      <3>2. asking = {} /\ closing = "open" /\ closed = FALSE
        BY DEF Init, asking, closing, closed, Callers
      <3>3. QED
        BY <3>1, <3>2 DEF Promises!Init, outcomes, asking, closing, closed
    <2>5. QED
      BY <2>1, <2>4
  <1>2. ExecutorInv /\ ChoiceInv /\ [Next]_vars => ChoiceInv' /\ [Promises!Next]_(Promises!vars)
    <2>1. PromisedStep => [Promises!Next]_(Promises!vars)
      BY DEF PromisedStep, Promises!vars, outcomes, asking, closing, closed
    <2>2. QED
      BY <2>1, ChoiceStep, PromiseStep
  <1>3. QED
    BY <1>1, <1>2, ExecutorSound, PTL DEF Spec, ImplementsTaskPromises, Promises!Spec
====
