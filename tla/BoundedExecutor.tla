---- MODULE BoundedExecutor ----
(***************************************************************************)
(* The script runtime's executor (src/script/runtime/BoundedExecutor.cpp,  *)
(* its header for Task and TaskHandle): a bounded queue, a fixed set of    *)
(* worker threads, cancellation by handle and two modes of shutdown. Each  *)
(* action is one critical section of the mutex, one compare-and-swap of a  *)
(* task's phase, one use of a promise or one notification, so a condition  *)
(* variable may be notified late and a task may change under a canceller   *)
(* that has left the mutex. Every task has a thread of its own that submits*)
(* it and, once it holds the handle, may cancel it, again and again, but   *)
(* one call at a time: a handle is moved, not copied.                      *)
(***************************************************************************)
EXTENDS Integers, Sequences

CONSTANTS
    Tasks, Workers,
    Closers,         \* threads, not workers, that call Shutdown once each
    Handles,         \* bound: the tasks whose handle is used
    capacity,
    NoTask

ASSUME BoundedExecutorAssumption ==
    /\ capacity \in Nat \ {0}
    /\ NoTask \notin Tasks
    /\ Workers # {} /\ Workers \cap Closers = {} /\ Handles \subseteq Tasks

Callers == Closers \cup Workers
Modes == {"Drain", "CancelPending"}

VARIABLES
    queue, accepting, stopping,
    threads,         \* "held" by the worker set, "taken" by a joiner, or "detached"
    phase, promise, stop,   \* of each task
    worker,          \* where each worker is and the task it took
    client,          \* where each task's submission is
    cancel,          \* where each handle's Cancel is; history: what it answered before
    caller           \* where each call of Shutdown is

state == <<queue, accepting, stopping>>
task == <<phase, promise, stop>>
vars == <<state, threads, task, worker, client, cancel, caller>>

Init ==
    /\ queue = <<>> /\ accepting = TRUE /\ stopping = FALSE
    /\ threads = "held"
    /\ phase = [t \in Tasks |-> "Queued"]
    /\ promise = [t \in Tasks |-> "empty"]
    /\ stop = [t \in Tasks |-> FALSE]
    /\ worker = [w \in Workers |-> [at |-> "looking", task |-> NoTask]]
    /\ client = [t \in Tasks |-> "new"]
    /\ cancel = [t \in Tasks |-> [at |-> "idle", removed |-> FALSE, reply |-> FALSE,
                               before |-> FALSE]]
    /\ caller = [c \in Callers |->
          [at |-> "idle", mode |-> "Drain", chose |-> FALSE, pending |-> <<>>, took |-> FALSE]]

Queued(t) == \E n \in 1..Len(queue) : queue[n] = t
Without(s, t) ==
    LET k == CHOOSE n \in 1..Len(s) : s[n] = t
    IN  [n \in 1..(Len(s) - 1) |-> IF n < k THEN s[n] ELSE s[n + 1]]

-----------------------------------------------------------------------------
(* The condition variables: their waiters are the clients and workers at     *)
(* "waiting".                                                                *)

NotifySpace ==
    \/ \E t \in Tasks : client[t] = "waiting" /\ client' = [client EXCEPT ![t] = "until"]
    \/ (\A t \in Tasks : client[t] # "waiting") /\ UNCHANGED client

NotifyWorker ==
    \/ \E w \in Workers : worker[w].at = "waiting"
                          /\ worker' = [worker EXCEPT ![w].at = "looking"]
    \/ (\A w \in Workers : worker[w].at # "waiting") /\ UNCHANGED worker

SpuriousWakeup ==
    /\ \/ \E t \in Tasks : /\ client[t] = "waiting"
                           /\ client' = [client EXCEPT ![t] = "until"]
                           /\ UNCHANGED worker
       \/ \E w \in Workers : /\ worker[w].at = "waiting"
                             /\ worker' = [worker EXCEPT ![w].at = "looking"]
                             /\ UNCHANGED client
    /\ UNCHANGED <<state, threads, task, cancel, caller>>

-----------------------------------------------------------------------------
(* Submission. A client at "until" holds the mutex next; "notify" is past it. *)

Push(t) ==
    /\ queue' = Append(queue, t)
    /\ client' = [client EXCEPT ![t] = "notify"]
    /\ UNCHANGED <<accepting, stopping>>

Refused(t, why) == client' = [client EXCEPT ![t] = why] /\ UNCHANGED state

TrySubmit(t) ==
    /\ client[t] = "new"
    /\ \/ ~accepting /\ Refused(t, "shutdown")
       \/ accepting /\ Len(queue) >= capacity /\ Refused(t, "full")
       \/ accepting /\ Len(queue) < capacity /\ Push(t)
    /\ UNCHANGED <<threads, task, worker, cancel, caller>>

SubmitUntil(t) ==
    /\ client[t] \in {"new", "until"}
    /\ \/ ~accepting /\ Refused(t, "shutdown")
       \/ accepting /\ Len(queue) >= capacity /\ Refused(t, "waiting")
       \/ accepting /\ Len(queue) < capacity /\ Push(t)
    /\ UNCHANGED <<threads, task, worker, cancel, caller>>

\* The deadline passes; wait_until still answers by the predicate.
DeadlinePasses(t) ==
    /\ client[t] \in {"until", "waiting"}
    /\ \/ ~accepting /\ Refused(t, "shutdown")
       \/ accepting /\ Len(queue) >= capacity /\ Refused(t, "timeout")
       \/ accepting /\ Len(queue) < capacity /\ Push(t)
    /\ UNCHANGED <<threads, task, worker, cancel, caller>>

\* Mutant: a submission tells no worker.
Submitted_Silent(t) ==
    /\ client[t] = "notify"
    /\ client' = [client EXCEPT ![t] = "accepted"]
    /\ UNCHANGED <<state, threads, task, worker, cancel, caller>>

Submitted(t) ==
    /\ client[t] = "notify"
    /\ client' = [client EXCEPT ![t] = "accepted"]
    /\ NotifyWorker
    /\ UNCHANGED <<state, threads, task, cancel, caller>>

-----------------------------------------------------------------------------
(* The workers *)

Pop(w) ==
    /\ worker[w].at = "looking" /\ queue # <<>>
    /\ worker' = [worker EXCEPT ![w] = [at |-> "popped", task |-> Head(queue)]]
    /\ queue' = Tail(queue)
    /\ UNCHANGED <<accepting, stopping, threads, task, client, cancel, caller>>

Sleep(w) ==
    /\ worker[w].at = "looking" /\ queue = <<>> /\ ~stopping
    /\ worker' = [worker EXCEPT ![w].at = "waiting"]
    /\ UNCHANGED <<state, threads, task, client, cancel, caller>>

Exit(w) ==
    /\ worker[w].at = "looking" /\ queue = <<>> /\ stopping
    /\ worker' = [worker EXCEPT ![w].at = "exited"]
    /\ UNCHANGED <<state, threads, task, client, cancel, caller>>

Popped(w) ==
    /\ worker[w].at = "popped"
    /\ worker' = [worker EXCEPT ![w].at = "taken"]
    /\ NotifySpace
    /\ UNCHANGED <<state, threads, task, cancel, caller>>

\* Mutant: a worker runs the task it took without claiming it.
BeginExecution_Unclaimed(w) ==
    /\ worker[w].at = "taken"
    /\ phase' = [phase EXCEPT ![worker[w].task] = "Running"]
    /\ worker' = [worker EXCEPT ![w].at = "running"]
    /\ UNCHANGED <<state, threads, promise, stop, client, cancel, caller>>

BeginExecution(w) ==
    LET t == worker[w].task IN
    /\ worker[w].at = "taken"
    /\ \/ /\ phase[t] = "Queued"
          /\ phase' = [phase EXCEPT ![t] = "Running"]
          /\ worker' = [worker EXCEPT ![w].at = "running"]
       \/ /\ phase[t] # "Queued"
          /\ worker' = [worker EXCEPT ![w] = [at |-> "looking", task |-> NoTask]]
          /\ UNCHANGED phase
    /\ UNCHANGED <<state, threads, promise, stop, client, cancel, caller>>

\* The callable returns or throws, either way into the promise.
Fulfil(w) ==
    LET t == worker[w].task IN
    /\ worker[w].at = "running" /\ caller[w].at \in {"idle", "returned"}
    /\ promise' = [promise EXCEPT ![t] = IF @ = "empty" THEN "value" ELSE @]
    /\ worker' = [worker EXCEPT ![w].at = "fulfilled"]
    /\ UNCHANGED <<state, threads, phase, stop, client, cancel, caller>>

FinishExecution(w) ==
    /\ worker[w].at = "fulfilled"
    /\ phase' = [phase EXCEPT ![worker[w].task] = "Finished"]
    /\ worker' = [worker EXCEPT ![w] = [at |-> "looking", task |-> NoTask]]
    /\ UNCHANGED <<state, threads, promise, stop, client, cancel, caller>>

-----------------------------------------------------------------------------
(* TaskHandle::Cancel *)

SetCancelledException(t) ==
    promise' = [promise EXCEPT ![t] = IF @ = "empty" THEN "cancelled" ELSE @]

\* "before" keeps whether an earlier call of this handle answered yes.
Cancel(t) ==
    /\ t \in Handles /\ client[t] = "accepted" /\ cancel[t].at \in {"idle", "done"}
    /\ cancel' = [cancel EXCEPT ![t] = [at |-> "claim", removed |-> Queued(t), reply |-> FALSE,
                                        before |-> cancel[t].before \/ cancel[t].reply]]
    /\ queue' = IF Queued(t) THEN Without(queue, t) ELSE queue
    /\ UNCHANGED <<accepting, stopping, threads, task, worker, client, caller>>

CancelEnds(t, reply) ==
    cancel' = [cancel EXCEPT ![t].reply = reply,
                             ![t].at = IF cancel[t].removed THEN "notify" ELSE "done"]

\* CancelQueued for a task taken off the queue, RequestCancel for any other.
CancelClaims(t) ==
    /\ cancel[t].at = "claim"
    /\ \/ /\ phase[t] = "Queued"
          /\ phase' = [phase EXCEPT ![t] = "Cancelled"]
          /\ cancel' = [cancel EXCEPT ![t].at = "settle"]
       \/ /\ phase[t] = "Running" /\ ~cancel[t].removed
          /\ cancel' = [cancel EXCEPT ![t].at = "stop"]
          /\ UNCHANGED phase
       \/ /\ phase[t] # "Queued" /\ (phase[t] = "Running" => cancel[t].removed)
          /\ CancelEnds(t, FALSE)
          /\ UNCHANGED phase
    /\ UNCHANGED <<state, threads, promise, stop, worker, client, caller>>

CancelSettles(t) ==
    /\ cancel[t].at = "settle"
    /\ SetCancelledException(t)
    /\ CancelEnds(t, TRUE)
    /\ UNCHANGED <<state, threads, phase, stop, worker, client, caller>>

\* Mutant: every call on a running task answers yes.
RequestStop_Yes(t) ==
    /\ cancel[t].at = "stop"
    /\ stop' = [stop EXCEPT ![t] = TRUE]
    /\ CancelEnds(t, TRUE)
    /\ UNCHANGED <<state, threads, phase, promise, worker, client, caller>>

RequestStop(t) ==
    /\ cancel[t].at = "stop"
    /\ stop' = [stop EXCEPT ![t] = TRUE]
    /\ CancelEnds(t, ~stop[t])
    /\ UNCHANGED <<state, threads, phase, promise, worker, client, caller>>

CancelNotifies(t) ==
    /\ cancel[t].at = "notify"
    /\ cancel' = [cancel EXCEPT ![t].at = "done"]
    /\ NotifySpace
    /\ UNCHANGED <<state, threads, task, worker, caller>>

-----------------------------------------------------------------------------
(* Shutdown, by a thread of its own or from the body of a running task *)

BeginShutdown(c, mode) ==
    /\ caller[c].at = "idle"
    /\ c \in Workers => worker[c].at = "running"
    /\ \/ /\ stopping
          /\ caller' = [caller EXCEPT ![c].at = "join"]
          /\ UNCHANGED state
       \/ /\ ~stopping
          /\ accepting' = FALSE /\ stopping' = TRUE
          /\ caller' = [caller EXCEPT ![c] = [@ EXCEPT !.at = "cancel", !.mode = mode,
                !.chose = TRUE, !.pending = IF mode = "CancelPending" THEN queue ELSE <<>>]]
          /\ queue' = IF mode = "CancelPending" THEN <<>> ELSE queue
    /\ UNCHANGED <<threads, task, worker, client, cancel>>

\* Mutant: what is still to be cancelled is left unsettled.
ShutdownClaims_Skips(c) ==
    /\ caller[c].at = "cancel" /\ caller[c].pending # <<>>
    /\ caller' = [caller EXCEPT ![c].pending = <<>>]
    /\ UNCHANGED <<state, threads, task, worker, client, cancel>>

\* CancelQueued on the first of the pending tasks.
ShutdownClaims(c) ==
    /\ caller[c].at = "cancel" /\ caller[c].pending # <<>>
    /\ LET t == Head(caller[c].pending) IN
       \/ /\ phase[t] = "Queued"
          /\ phase' = [phase EXCEPT ![t] = "Cancelled"]
          /\ caller' = [caller EXCEPT ![c].at = "settle"]
       \/ /\ phase[t] # "Queued"
          /\ caller' = [caller EXCEPT ![c].pending = Tail(@)]
          /\ UNCHANGED phase
    /\ UNCHANGED <<state, threads, promise, stop, worker, client, cancel>>

ShutdownSettles(c) ==
    /\ caller[c].at = "settle"
    /\ SetCancelledException(Head(caller[c].pending))
    /\ caller' = [caller EXCEPT ![c].at = "cancel", ![c].pending = Tail(@)]
    /\ UNCHANGED <<state, threads, phase, stop, worker, client, cancel>>

\* Mutant: only the workers are notified.
ShutdownNotifies_Workers(c) ==
    /\ caller[c].at = "cancel" /\ caller[c].pending = <<>>
    /\ worker' = [w \in Workers |-> IF worker[w].at = "waiting"
                                    THEN [worker[w] EXCEPT !.at = "looking"] ELSE worker[w]]
    /\ caller' = [caller EXCEPT ![c].at = "join"]
    /\ UNCHANGED <<state, threads, task, client, cancel>>

\* Both notify_all.
ShutdownNotifies(c) ==
    /\ caller[c].at = "cancel" /\ caller[c].pending = <<>>
    /\ worker' = [w \in Workers |-> IF worker[w].at = "waiting"
                                    THEN [worker[w] EXCEPT !.at = "looking"] ELSE worker[w]]
    /\ client' = [t \in Tasks |-> IF client[t] = "waiting" THEN "until" ELSE client[t]]
    /\ caller' = [caller EXCEPT ![c].at = "join"]
    /\ UNCHANGED <<state, threads, task, cancel>>

JoinAll(c) ==
    /\ caller[c].at = "join"
    /\ \/ /\ c \in Workers
          /\ threads' = IF threads = "held" THEN "detached" ELSE threads
          /\ caller' = [caller EXCEPT ![c].at = "returned"]
       \/ /\ c \in Closers
          /\ threads' = IF threads = "held" THEN "taken" ELSE threads
          /\ caller' = [caller EXCEPT ![c] = [@ EXCEPT !.at = "joining",
                                                        !.took = (threads = "held")]]
    /\ UNCHANGED <<state, task, worker, client, cancel>>

\* Mutant: a caller that found the threads taken does not wait for them.
WaitForWorkers_Taken(c) ==
    /\ caller[c].at = "joining"
    /\ caller[c].took => \A w \in Workers : worker[w].at = "exited"
    /\ caller' = [caller EXCEPT ![c].at = "returned"]
    /\ UNCHANGED <<state, threads, task, worker, client, cancel>>

\* Joining the threads it took, then WaitForWorkers whichever threads those were.
WaitForWorkers(c) ==
    /\ caller[c].at = "joining"
    /\ \A w \in Workers : worker[w].at = "exited"
    /\ caller' = [caller EXCEPT ![c].at = "returned"]
    /\ UNCHANGED <<state, threads, task, worker, client, cancel>>

-----------------------------------------------------------------------------
Client(t) == SubmitUntil(t) \/ Submitted(t)
Worker(w) == \/ Pop(w) \/ Sleep(w) \/ Exit(w) \/ Popped(w)
             \/ BeginExecution(w) \/ Fulfil(w) \/ FinishExecution(w)
Cancelling(t) == CancelClaims(t) \/ CancelSettles(t) \/ RequestStop(t) \/ CancelNotifies(t)
Closing(c) == \/ ShutdownClaims(c) \/ ShutdownSettles(c) \/ ShutdownNotifies(c)
              \/ JoinAll(c) \/ WaitForWorkers(c)

\* Everybody has gone home: the executor is shut down and nobody is in a call.
Finished ==
    /\ \A w \in Workers : worker[w].at = "exited"
    /\ \A c \in Closers : caller[c].at = "returned"
    /\ \A t \in Tasks : client[t] \notin {"new", "until", "waiting", "notify"}
    /\ UNCHANGED vars

Next ==
    \/ \E t \in Tasks : TrySubmit(t) \/ DeadlinePasses(t) \/ Client(t) \/ Cancel(t) \/ Cancelling(t)
    \/ \E w \in Workers : Worker(w)
    \/ \E c \in Callers : Closing(c) \/ (\E m \in Modes : BeginShutdown(c, m))
    \/ SpuriousWakeup
    \/ Finished

Spec == Init /\ [][Next]_vars

\* Threads keep running and callables return. Nobody has to submit, cancel or shut
\* down, no deadline has to pass and no wakeup is owed that was not notified.
FairSpec ==
    /\ Spec
    /\ \A w \in Workers : WF_vars(Worker(w))
    /\ \A t \in Tasks : /\ WF_vars(client[t] # "new" /\ Client(t))
                        /\ WF_vars(Cancelling(t))
    /\ \A c \in Callers : WF_vars(Closing(c))

-----------------------------------------------------------------------------
(* Properties *)

\* Type: every variable keeps its range.
TypeOK ==
    /\ queue \in Seq(Tasks) /\ accepting \in BOOLEAN /\ stopping \in BOOLEAN
    /\ threads \in {"held", "taken", "detached"}
    /\ phase \in [Tasks -> {"Queued", "Running", "Finished", "Cancelled"}]
    /\ promise \in [Tasks -> {"empty", "value", "cancelled"}]
    /\ stop \in [Tasks -> BOOLEAN]
    /\ worker \in [Workers -> [at : {"looking", "waiting", "popped", "taken", "running",
                                     "fulfilled", "exited"}, task : Tasks \cup {NoTask}]]
    /\ client \in [Tasks -> {"new", "until", "waiting", "notify", "accepted", "full",
                             "timeout", "shutdown"}]
    /\ cancel \in [Tasks -> [at : {"idle", "claim", "settle", "stop", "notify", "done"},
                             removed : BOOLEAN, reply : BOOLEAN, before : BOOLEAN]]
    /\ caller \in [Callers -> [at : {"idle", "cancel", "settle", "join", "joining", "returned"},
                               mode : Modes, chose : BOOLEAN, pending : Seq(Tasks),
                               took : BOOLEAN]]

Accepted(t) == client[t] \in {"notify", "accepted"}
Hold(w) == IF worker[w].at \in {"popped", "taken", "running", "fulfilled"}
           THEN {worker[w].task} ELSE {}
Pending(c) == {caller[c].pending[n] : n \in 1..Len(caller[c].pending)}
BeingCancelled(t) == cancel[t].at = "settle" \/ (cancel[t].at = "claim" /\ cancel[t].removed)

\* An accepted task that nobody has claimed is in the queue, in a worker's hands, among
\* the tasks a shutdown took off the queue, or its canceller took it off (RunWorker,
\* Cancel and BeginShutdown, each of which leaves the mutex with a task in its hands).
NoTaskLost ==
    \A t \in Tasks : (Accepted(t) /\ phase[t] = "Queued") =>
        \/ Queued(t)
        \/ \E w \in Workers : t \in Hold(w)
        \/ \E c \in Callers : t \in Pending(c)
        \/ cancel[t].at = "claim" /\ cancel[t].removed

\* One compare-and-swap decides: a body runs only under the claim of its own worker,
\* whoever cancels meanwhile, and the promise of a task says what its phase says
\* (BeginExecution, CancelQueued, RequestCancel, FinishExecution).
OneOutcome ==
    /\ \A w \in Workers : LET t == worker[w].task IN
          /\ worker[w].at = "running" => phase[t] = "Running" /\ promise[t] = "empty"
          /\ worker[w].at = "fulfilled" => phase[t] = "Running" /\ promise[t] = "value"
    /\ \A v, w \in Workers : (Hold(v) # {} /\ Hold(v) = Hold(w)
          /\ worker[v].at \in {"running", "fulfilled"}) =>
              v = w \/ worker[w].at \in {"popped", "taken"}
    /\ \A t \in Tasks :
          /\ phase[t] = "Queued" => promise[t] = "empty"
          /\ phase[t] = "Finished" => promise[t] = "value"
          /\ phase[t] = "Cancelled" => promise[t] # "value"
          /\ (phase[t] = "Cancelled" /\ promise[t] = "empty") =>
                \/ cancel[t].at = "settle"
                \/ \E c \in Callers : caller[c].at = "settle" /\ Head(caller[c].pending) = t

\* What Cancel answers is true whatever raced it, however often it is called: it says yes
\* once, to the call after which the body never runs or that raised the stop token; after
\* no the task is over, or an earlier yes had raised the token (Cancel, RequestCancel).
CancelAnswers ==
    \A t \in Tasks : cancel[t].at \in {"notify", "done"} =>
        IF cancel[t].reply
        THEN ~cancel[t].before /\ (phase[t] = "Cancelled" \/ stop[t])
        ELSE phase[t] \in {"Finished", "Cancelled"} \/ (cancel[t].before /\ stop[t])

\* "all callers return only after workers have exited (except a calling worker itself...)",
\* and by then only the caller that chose CancelPending, or a handle, may still be
\* settling a task (Shutdown, JoinAll, WaitForWorkers).
ShutdownSettlesAll ==
    \A c \in Closers : caller[c].at = "returned" =>
        /\ \A w \in Workers : worker[w].at = "exited"
        /\ \A t \in Tasks : (Accepted(t) /\ promise[t] = "empty") =>
              BeingCancelled(t) \/ \E d \in Callers : t \in Pending(d)

\* The executor keeps its promises (TaskPromises): each task one outcome, cancelled only
\* if its handle or CancelPending asked, all settled when the closing caller returns.
Outcome(t) ==
    CASE client[t] \in {"new", "until", "waiting"} -> "unsent"
      [] client[t] \in {"full", "timeout", "shutdown"} -> "refused"
      [] Accepted(t) /\ promise[t] = "value" -> "ran"
      [] Accepted(t) /\ promise[t] = "cancelled" -> "cancelled"
      [] OTHER -> "accepted"
Promises == INSTANCE TaskPromises WITH
    outcome <- [t \in Tasks |-> Outcome(t)],
    asked <- {t \in Tasks : cancel[t].at # "idle"},
    mode <- IF ~stopping THEN "open"
            ELSE caller[CHOOSE c \in Callers : caller[c].chose].mode,
    returned <- \E c \in Closers : caller[c].chose /\ caller[c].at = "returned"
ImplementsTaskPromises == Promises!Spec

\* No wakeup is lost: a task that was accepted gets its outcome, even if the executor is
\* never shut down (TryEnqueue and EnqueueUntil notify after leaving the mutex).
AcceptedSettles == \A t \in Tasks : Accepted(t) ~> promise[t] # "empty"

\* Nobody is left in a call: a submitter leaves the wait for space without its deadline
\* passing, and a shutdown returns, also when workers and others shut down at once.
CallsReturn ==
    /\ \A t \in Tasks : client[t] = "waiting" ~> client[t] \notin {"until", "waiting"}
    /\ \A c \in Callers : caller[c].at # "idle" ~> caller[c].at = "returned"
====
