---- MODULE TriggerChannel ----
(***************************************************************************)
(* The trigger channel of one connection                                   *)
(* (src/service/channels/TriggerHandler.cpp): its output pump, the         *)
(* completion of a send, the admission of commands and shutdown, over the  *)
(* session's outbound queue and the connection owner of TriggerExecutor.   *)
(*                                                                         *)
(* The pump runs on whichever thread finds work: an executor thread that   *)
(* published, or the thread a sink completes a write on, which may be the  *)
(* pumping thread itself, inside emit_batch. So a thread carries the stack *)
(* of the calls it is in, innermost first; each frame is where that call   *)
(* continues, and each action is one critical section of state_mutex_, of  *)
(* the session, or of the connection's operation mutex.                    *)
(*                                                                         *)
(* Closing the connection and dropping what the executor retained for it   *)
(* is one step here, and the executor's limits on what it retains, which   *)
(* close the connection, are left to TriggerExecutor.                      *)
(***************************************************************************)
EXTENDS Integers, Sequences

CONSTANTS
    Publishers,      \* executor threads, each running a task of this connection or none
    Closers,         \* other threads, each of which calls shutdown() once
    Writer,          \* the thread that completes asynchronous writes
    Nobody,
    max_queued_batches,
    MaxBatches       \* bound: no response is begun once so many are queued or retained

Threads == Publishers \cup Closers \cup {Writer}

ASSUME TriggerChannelAssumption ==
    /\ max_queued_batches \in Nat \ {0} /\ MaxBatches \in Nat
    /\ Publishers \cap Closers = {} /\ Writer \notin Publishers \cup Closers
    /\ Nobody \notin Threads

VARIABLES
    closed, failed,                         \* closed_, failed_
    pump_active, pump_requested,            \* pump_active_, pump_requested_
    completion_pending, sink_calls,         \* completion_pending_, sink_calls_
    subscribed,                             \* subscription_ is active
    session,         \* of the session: closed, how much is queued, whether it is leased
    retained,        \* responses the executor holds until the queue has room
    operation_mutex, \* of the connection owner: who holds it
    task,            \* publishers that run a task
    completion,      \* the SendCompletion of the last send: "none", "open" or "done"
    result,          \* and what it was completed with
    writing,         \* whether an asynchronous write is under way
    stack,           \* the calls each thread is in
    called,          \* closers that have called shutdown
    made, emitted    \* history: responses queued or retained, and batches handed to the sink

flags == <<closed, failed, pump_active, pump_requested, completion_pending, sink_calls>>
owner == <<session, retained, operation_mutex>>
sending == <<completion, result, writing>>
vars == <<flags, subscribed, owner, task, sending, stack, called, made, emitted>>

Init ==
    /\ closed = FALSE /\ failed = FALSE
    /\ pump_active = FALSE /\ pump_requested = FALSE
    /\ completion_pending = FALSE /\ sink_calls = 0
    /\ subscribed = TRUE
    /\ session = [closed |-> FALSE, outbound |-> 0, lease |-> FALSE]
    /\ retained = 0 /\ operation_mutex = Nobody
    /\ task = {}
    /\ completion = "none" /\ result = "written" /\ writing = FALSE
    /\ stack = [t \in Threads |-> <<>>]
    /\ called = {}
    /\ made = 0 /\ emitted = 0

At(t, here) == stack[t] # <<>> /\ Head(stack[t]) = here
Within(t, here) == \E n \in 2..Len(stack[t]) : stack[t][n] = here
Idle(t) == stack[t] = <<>>
Enter(t, there) == stack' = [stack EXCEPT ![t] = <<there>>]
Goto(t, there) == stack' = [stack EXCEPT ![t] = <<there>> \o Tail(@)]
Call(t, there, back) == stack' = [stack EXCEPT ![t] = <<there, back>> \o Tail(@)]
Return(t) == stack' = [stack EXCEPT ![t] = Tail(@)]

Unheld == operation_mutex = Nobody

-----------------------------------------------------------------------------
(* Commands and responses *)

\* input(): the gate of admission_mutex_, then the owner's submit.
Submit(p) ==
    /\ Idle(p) /\ p \notin task
    /\ ~closed /\ ~failed
    /\ Unheld /\ ~session.closed
    /\ task' = task \cup {p}
    /\ UNCHANGED <<flags, subscribed, owner, sending, stack, called, made, emitted>>

FinishTask(p) ==
    /\ Idle(p) /\ p \in task
    /\ task' = task \ {p}
    /\ UNCHANGED <<flags, subscribed, owner, sending, stack, called, made, emitted>>

\* A batch that finds the queue empty notifies the observer, outside the session's mutex.
Publish(p) ==
    /\ Idle(p) /\ p \in task /\ made < MaxBatches
    /\ ~session.closed /\ session.outbound < max_queued_batches
    /\ session' = [session EXCEPT !.outbound = @ + 1]
    /\ made' = made + 1
    /\ IF session.outbound = 0 THEN Enter(p, "notify") ELSE UNCHANGED stack
    /\ UNCHANGED <<flags, subscribed, retained, operation_mutex, task, sending, called, emitted>>

\* A terminal response that finds the queue full goes back to the executor.
Refuse(p) ==
    /\ Idle(p) /\ p \in task /\ made < MaxBatches
    /\ ~session.closed /\ session.outbound >= max_queued_batches
    /\ Enter(p, "retain")
    /\ UNCHANGED <<flags, subscribed, owner, task, sending, called, made, emitted>>

\* And the executor, under its own mutex, retains it for a later retry, unless the
\* connection is closed by then. Sends that complete in between retry nothing.
Retain(p) ==
    /\ At(p, "retain")
    /\ IF session.closed
       THEN UNCHANGED <<retained, made>>
       ELSE retained' = retained + 1 /\ made' = made + 1
    /\ task' = task \ {p}
    /\ Return(p)
    /\ UNCHANGED <<flags, subscribed, session, operation_mutex, sending, called, emitted>>

Notify(t) ==
    /\ At(t, "notify")
    /\ IF subscribed THEN Goto(t, "pump") ELSE Return(t)
    /\ UNCHANGED <<flags, subscribed, owner, task, sending, called, made, emitted>>

-----------------------------------------------------------------------------
(* pump() *)

\* Mutant: a second thread pumps beside the first.
PumpEnter_Beside(t) ==
    /\ At(t, "pump")
    /\ \/ (closed \/ failed) /\ Return(t) /\ UNCHANGED pump_active
       \/ ~closed /\ ~failed /\ pump_active' = TRUE /\ Goto(t, "loop")
    /\ UNCHANGED <<closed, failed, pump_requested, completion_pending, sink_calls, subscribed,
                    owner, task, sending, called, made, emitted>>

PumpEnter(t) ==
    /\ At(t, "pump")
    /\ \/ (closed \/ failed) /\ Return(t) /\ UNCHANGED <<pump_active, pump_requested>>
       \/ /\ ~closed /\ ~failed /\ pump_active
          /\ pump_requested' = TRUE
          /\ Return(t) /\ UNCHANGED pump_active
       \/ /\ ~closed /\ ~failed /\ ~pump_active
          /\ pump_active' = TRUE
          /\ Goto(t, "loop") /\ UNCHANGED pump_requested
    /\ UNCHANGED <<closed, failed, completion_pending, sink_calls, subscribed, owner, task,
                    sending, called, made, emitted>>

Resting == closed \/ failed \/ completion_pending

PumpLoop(t) ==
    /\ At(t, "loop")
    /\ \/ Resting /\ pump_active' = FALSE /\ Return(t) /\ UNCHANGED pump_requested
       \/ ~Resting /\ pump_requested' = FALSE /\ Goto(t, "begin") /\ UNCHANGED pump_active
    /\ UNCHANGED <<closed, failed, completion_pending, sink_calls, subscribed, owner, task,
                    sending, called, made, emitted>>

BeginSend(t) ==
    /\ At(t, "begin")
    /\ \/ /\ ~session.closed /\ session.lease
          /\ Goto(t, "busy") /\ UNCHANGED session
       \/ /\ session.closed \/ (~session.lease /\ session.outbound = 0)
          /\ Goto(t, "nothing") /\ UNCHANGED session
       \/ /\ ~session.closed /\ ~session.lease /\ session.outbound > 0
          /\ session' = [session EXCEPT !.lease = TRUE]
          /\ Goto(t, "leased")
    /\ UNCHANGED <<flags, subscribed, retained, operation_mutex, task, sending, called, made,
                    emitted>>

\* Mutant: what was requested while the queue was being looked at is forgotten.
NothingToSend_Unrequested(t) ==
    /\ At(t, "nothing") \/ At(t, "busy")
    /\ failed' = (failed \/ At(t, "busy"))
    /\ pump_active' = FALSE
    /\ Return(t)
    /\ UNCHANGED <<closed, pump_requested, completion_pending, sink_calls, subscribed, owner,
                    task, sending, called, made, emitted>>

NothingToSend(t) ==
    /\ At(t, "nothing") \/ At(t, "busy")
    /\ \/ /\ pump_requested /\ ~closed /\ ~failed
          /\ Goto(t, "loop") /\ UNCHANGED <<pump_active, failed>>
       \/ /\ ~(pump_requested /\ ~closed /\ ~failed)
          /\ failed' = (failed \/ At(t, "busy"))
          /\ pump_active' = FALSE
          /\ Return(t)
    /\ UNCHANGED <<closed, pump_requested, completion_pending, sink_calls, subscribed, owner,
                    task, sending, called, made, emitted>>

\* No memory for the messages or their completion: fail_send, then mark_failed.
Abandon(t) ==
    /\ At(t, "leased") /\ Unheld
    /\ session' = [closed |-> TRUE, outbound |-> 0, lease |-> FALSE]
    /\ retained' = 0
    /\ Goto(t, "mark_failed")
    /\ UNCHANGED <<flags, subscribed, operation_mutex, task, sending, called, made, emitted>>

MarkFailed(t) ==
    /\ At(t, "mark_failed")
    /\ failed' = (failed \/ ~closed)
    /\ pump_active' = FALSE
    /\ Return(t)
    /\ UNCHANGED <<closed, pump_requested, completion_pending, sink_calls, subscribed, owner,
                    task, sending, called, made, emitted>>

StartSinkCall(t) ==
    /\ At(t, "leased")
    /\ \/ /\ closed
          /\ pump_active' = FALSE
          /\ Return(t)
          /\ UNCHANGED <<completion_pending, sink_calls, completion, emitted>>
       \/ /\ ~closed
          /\ completion_pending' = TRUE
          /\ sink_calls' = sink_calls + 1
          /\ completion' = "open"
          /\ emitted' = emitted + 1
          /\ Goto(t, "emit") /\ UNCHANGED pump_active
    /\ UNCHANGED <<closed, failed, pump_requested, subscribed, owner, task, result, writing,
                    called, made>>

\* emit_batch: the write is left to the writer, or done here and completed here, or the
\* call throws; or, before any of these, the sink shuts this very channel down.
Emit(t) ==
    /\ At(t, "emit")
    /\ \/ writing' = TRUE /\ Goto(t, "accepted")
       \/ UNCHANGED writing /\ Call(t, "complete_written", "accepted")
       \/ UNCHANGED writing /\ Call(t, "complete_failed", "refused")
       \/ UNCHANGED writing /\ Goto(t, "refused")
       \/ UNCHANGED writing /\ ~closed /\ Call(t, "shutdown", "emit")
    /\ UNCHANGED <<flags, subscribed, owner, task, completion, result, called, made, emitted>>

SinkReturns(t) ==
    /\ At(t, "accepted") \/ At(t, "refused")
    /\ sink_calls' = sink_calls - 1
    /\ IF At(t, "accepted") THEN Goto(t, "again") ELSE Call(t, "complete_failed", "again")
    /\ UNCHANGED <<closed, failed, pump_active, pump_requested, completion_pending, subscribed,
                    owner, task, sending, called, made, emitted>>

PumpAgain(t) ==
    /\ At(t, "again")
    /\ \/ Resting /\ pump_active' = FALSE /\ Return(t)
       \/ ~Resting /\ Goto(t, "loop") /\ UNCHANGED pump_active
    /\ UNCHANGED <<closed, failed, pump_requested, completion_pending, sink_calls, subscribed,
                    owner, task, sending, called, made, emitted>>

-----------------------------------------------------------------------------
(* SendCompletion::complete and send_completed *)

WriterCompletes ==
    /\ writing /\ Idle(Writer)
    /\ writing' = FALSE
    /\ \E r \in {"complete_written", "complete_failed"} : Enter(Writer, r)
    /\ UNCHANGED <<flags, subscribed, owner, task, completion, result, called, made, emitted>>

\* Mutant: the next send is allowed before this one is taken off the session's queue.
Complete_Early(t) ==
    /\ At(t, "complete_written") \/ At(t, "complete_failed")
    /\ IF completion = "open"
       THEN /\ completion' = "done"
            /\ completion_pending' = FALSE
            /\ result' = IF At(t, "complete_written") THEN "written" ELSE "failed"
            /\ IF closed THEN Return(t) ELSE Goto(t, "settle")
       ELSE Return(t) /\ UNCHANGED <<completion, completion_pending, result>>
    /\ UNCHANGED <<closed, failed, pump_active, pump_requested, sink_calls, subscribed, owner,
                    task, writing, called, made, emitted>>

\* Only the first completion counts, and none does once the channel is closed.
Complete(t) ==
    /\ At(t, "complete_written") \/ At(t, "complete_failed")
    /\ IF completion = "open"
       THEN /\ completion' = "done"
            /\ result' = IF At(t, "complete_written") THEN "written" ELSE "failed"
            /\ IF closed THEN Return(t) ELSE Goto(t, "settle")
       ELSE Return(t) /\ UNCHANGED <<completion, result>>
    /\ UNCHANGED <<flags, subscribed, owner, task, writing, called, made, emitted>>

\* complete_send retries what the executor retained, and a batch published so notifies
\* the observer under the operation mutex; fail_send closes the session.
Settle(t) ==
    /\ At(t, "settle") /\ Unheld
    /\ \/ /\ session.closed
          /\ Goto(t, "record_failure")
          /\ UNCHANGED owner
       \/ /\ ~session.closed /\ result = "failed"
          /\ session' = [closed |-> TRUE, outbound |-> 0, lease |-> FALSE]
          /\ retained' = 0
          /\ Goto(t, "record")
          /\ UNCHANGED operation_mutex
       \/ /\ ~session.closed /\ result = "written"
          /\ LET left == session.outbound - 1
                 room == max_queued_batches - left
                 retried == IF retained < room THEN retained ELSE room
             IN  /\ session' = [session EXCEPT !.outbound = left + retried, !.lease = FALSE]
                 /\ retained' = retained - retried
                 /\ IF left = 0 /\ retried > 0
                    THEN operation_mutex' = t /\ Call(t, "notify", "unlock")
                    ELSE UNCHANGED operation_mutex /\ Goto(t, "record")
    /\ UNCHANGED <<flags, subscribed, task, sending, called, made, emitted>>

Unlock(t) ==
    /\ At(t, "unlock")
    /\ operation_mutex' = Nobody
    /\ Goto(t, "record")
    /\ UNCHANGED <<flags, subscribed, session, retained, task, sending, called, made, emitted>>

Record(t) ==
    /\ At(t, "record") \/ At(t, "record_failure")
    /\ completion_pending' = FALSE
    /\ failed' = (failed \/ At(t, "record_failure") \/ result = "failed")
    /\ Goto(t, "pump")
    /\ UNCHANGED <<closed, pump_active, pump_requested, sink_calls, subscribed, owner, task,
                    sending, called, made, emitted>>

-----------------------------------------------------------------------------
(* shutdown() *)

CallShutdown(c) ==
    /\ c \notin called
    /\ called' = called \cup {c}
    /\ Enter(c, "shutdown")
    /\ UNCHANGED <<flags, subscribed, owner, task, sending, made, emitted>>

\* closed_ under the admission gate and state_mutex_.
Shutdown(t) ==
    /\ At(t, "shutdown")
    /\ closed' = TRUE
    /\ IF closed THEN Goto(t, "close_owner") ELSE Goto(t, "unsubscribe")
    /\ UNCHANGED <<failed, pump_active, pump_requested, completion_pending, sink_calls,
                    subscribed, owner, task, sending, called, made, emitted>>

Unsubscribe(t) ==
    /\ At(t, "unsubscribe")
    /\ subscribed' = FALSE
    /\ Goto(t, "close_owner")
    /\ UNCHANGED <<flags, owner, task, sending, called, made, emitted>>

CloseOwner(t) ==
    /\ At(t, "close_owner") /\ Unheld
    /\ session' = [closed |-> TRUE, outbound |-> 0, lease |-> FALSE]
    /\ retained' = 0
    /\ Goto(t, "drain")
    /\ UNCHANGED <<flags, subscribed, operation_mutex, task, sending, called, made, emitted>>

\* wait_connection_idle, but never on an executor thread.
Drain(t) ==
    /\ At(t, "drain")
    /\ t \in Publishers \/ task = {}
    /\ Goto(t, "await_sink")
    /\ UNCHANGED <<flags, subscribed, owner, task, sending, called, made, emitted>>

\* Mutant: it does not wait for a call of the sink.
AwaitSink_Never(t) ==
    /\ At(t, "await_sink")
    /\ Return(t)
    /\ UNCHANGED <<flags, subscribed, owner, task, sending, called, made, emitted>>

\* Mutant: it waits for the call of the sink it is in, too.
AwaitSink_Own(t) ==
    /\ At(t, "await_sink")
    /\ sink_calls = 0
    /\ Return(t)
    /\ UNCHANGED <<flags, subscribed, owner, task, sending, called, made, emitted>>

\* sink_idle_, but never inside this channel's own call of the sink.
AwaitSink(t) ==
    /\ At(t, "await_sink")
    /\ Within(t, "emit") \/ sink_calls = 0
    /\ Return(t)
    /\ UNCHANGED <<flags, subscribed, owner, task, sending, called, made, emitted>>

-----------------------------------------------------------------------------
Pump(t) == \/ PumpEnter(t) \/ PumpLoop(t) \/ BeginSend(t) \/ NothingToSend(t) \/ MarkFailed(t)
           \/ StartSinkCall(t) \/ Emit(t) \/ SinkReturns(t) \/ PumpAgain(t)
Completing(t) == Complete(t) \/ Settle(t) \/ Unlock(t) \/ Record(t)
ShuttingDown(t) == Shutdown(t) \/ Unsubscribe(t) \/ CloseOwner(t) \/ Drain(t) \/ AwaitSink(t)
Continue(t) == Retain(t) \/ Notify(t) \/ Pump(t) \/ Completing(t) \/ ShuttingDown(t)

\* The channel is down, its closers have returned and its tasks are over.
Finished ==
    /\ closed /\ called = Closers /\ task = {}
    /\ \A t \in Threads : Idle(t)
    /\ ~writing
    /\ UNCHANGED vars

Next ==
    \/ \E p \in Publishers : Submit(p) \/ FinishTask(p) \/ Publish(p) \/ Refuse(p)
    \/ \E t \in Threads : Continue(t) \/ Abandon(t)
    \/ \E c \in Closers : CallShutdown(c)
    \/ WriterCompletes
    \/ Finished

Spec == Init /\ [][Next]_vars

\* Threads keep running, tasks end, and the sink completes every write it accepted.
FairSpec ==
    /\ Spec
    /\ \A t \in Threads : WF_vars(Continue(t))
    /\ \A p \in Publishers : WF_vars(FinishTask(p))
    /\ WF_vars(WriterCompletes)

-----------------------------------------------------------------------------
(* Properties *)

Frames == {"retain", "notify", "pump", "loop", "begin", "busy", "nothing", "leased", "mark_failed",
           "emit", "accepted", "refused", "again", "complete_written", "complete_failed",
           "settle", "unlock", "record", "record_failure",
           "shutdown", "unsubscribe", "close_owner", "drain", "await_sink"}
Body == {"loop", "begin", "busy", "nothing", "leased", "mark_failed", "emit", "accepted",
         "refused", "again"}
InSink == {"emit", "accepted", "refused"}
Has(t, S) == \E n \in 1..Len(stack[t]) : stack[t][n] \in S

\* Type: every variable keeps its range.
TypeOK ==
    /\ closed \in BOOLEAN /\ failed \in BOOLEAN /\ subscribed \in BOOLEAN
    /\ pump_active \in BOOLEAN /\ pump_requested \in BOOLEAN
    /\ completion_pending \in BOOLEAN /\ sink_calls \in 0..1
    /\ session \in [closed : BOOLEAN, outbound : 0..max_queued_batches, lease : BOOLEAN]
    /\ retained \in Nat /\ operation_mutex \in Threads \cup {Nobody}
    /\ task \subseteq Publishers /\ called \subseteq Closers
    /\ completion \in {"none", "open", "done"} /\ result \in {"written", "failed"}
    /\ writing \in BOOLEAN
    /\ stack \in [Threads -> Seq(Frames)]
    /\ made \in Nat /\ emitted \in Nat

\* One send at a time, whichever threads pump, and the flags say where it is: the pump has
\* one runner, the sink at most one call, while the session is open its lease lasts until
\* the completion of that send is recorded, and the pump never finds the previous lease
\* still out, which would fail the connection (pump, send_completed, begin_send).
OneSendAtATime ==
    /\ TypeOK
    /\ \A t, u \in Threads : Has(t, Body) /\ Has(u, Body) => t = u
    /\ pump_active <=> \E t \in Threads : Has(t, Body)
    /\ sink_calls = 1 <=> \E t \in Threads : Has(t, InSink)
    /\ completion = "open" => completion_pending
    /\ (session.lease /\ ~closed) =>
          completion_pending \/ \E t \in Threads : At(t, "leased")
    /\ \A t \in Threads : ~At(t, "busy")

\* Whoever retries retained responses holds the operation mutex, and the batch it publishes
\* calls the observer, that is the pump, on the spot. A sink that completes its write
\* inside emit_batch would then take that mutex again, so the pump must not send from
\* there (send_completed clears completion_pending_ after complete_send, not before).
NoSendUnderOperation == \A t \in Threads : At(t, "emit") => operation_mutex # t

\* Once a caller of shutdown is back the channel is quiet for good: no call of the sink
\* is under way or starts, and no task of the connection runs (shutdown, pump, input).
QuietAfterShutdown ==
    \A c \in called : Idle(c) =>
        /\ sink_calls = 0
        /\ task = {}
        /\ \A t \in Threads : At(t, "begin") => session.closed

\* No wakeup of the pump is lost: a queue that holds a batch is sent until it is empty and
\* nothing is left of what the executor retained meanwhile, unless the channel closes or
\* fails (pump_requested_, and the pump() that ends send_completed). A response that is
\* retained once the queue is empty has no send left to retry it and is promised nothing.
QueuedIsSent ==
    session.outbound > 0 ~> ((session.outbound = 0 /\ retained = 0) \/ closed \/ failed)

\* Shutdown returns, from any thread at any time, also when several call it at once and
\* from inside the sink.
ShutdownReturns ==
    \A t \in Threads : At(t, "shutdown") ~> ~Has(t, {"shutdown", "unsubscribe", "close_owner",
                                                     "drain", "await_sink"})

-----------------------------------------------------------------------------
(* Why the safety properties hold: an inductive invariant *)

Searching == {"begin", "busy", "nothing", "leased", "mark_failed"}
Interrupted == {"accepted", "refused", "again"}
Completions == {"complete_written", "complete_failed"}
Settling == {"settle", "unlock", "record", "record_failure"}
Settled == Settling \ {"settle"}
Closing == {"shutdown", "unsubscribe", "close_owner", "drain", "await_sink"}

\* The calls a frame may interrupt: a completion the sink's call it is made in, the
\* observer a retry of retained responses, and shutdown the call of the sink.
Under(here) ==
    {<<>>}
    \cup (IF here \in Completions \cup Settling \cup {"pump"}
          THEN {<<b>> : b \in Interrupted} ELSE {})
    \cup (IF here \in {"notify", "pump", "loop"} THEN {<<"unlock">>} ELSE {})
    \cup (IF here \in {"notify", "pump"} THEN {<<"unlock", b>> : b \in Interrupted} ELSE {})
    \cup (IF here \in Closing THEN {<<"emit">>} ELSE {})

Nested(s) == s = <<>> \/ (Head(s) \in Frames /\ Tail(s) \in Under(Head(s)))

\* What a thread is in the middle of.
StackInv ==
    /\ \A t \in Threads : Nested(stack[t])
    /\ \A c \in Closers :
          /\ stack[c] = <<>> \/ \E x \in Closing : stack[c] = <<x>>
          /\ c \notin called => stack[c] = <<>>

\* Who pumps, who settles a send, and who holds the operation mutex, is on some stack.
RunnerInv ==
    /\ \A t, u \in Threads : Has(t, Body) /\ Has(u, Body) => t = u
    /\ \A t, u \in Threads : Has(t, Settling) /\ Has(u, Settling) => t = u
    /\ pump_active <=> \E t \in Threads : Has(t, Body)
    /\ sink_calls = 1 <=> \E t \in Threads : Has(t, InSink)
    /\ \A t \in Threads : operation_mutex = t <=> Has(t, {"unlock"})

\* Where the send is: its lease, its completion and the settling of it follow each other.
SendInv ==
    /\ completion = "open" => completion_pending
    /\ \A t \in Threads : Has(t, Settling) => completion = "done" /\ completion_pending
    /\ \A t \in Threads : Has(t, Settled) => ~session.lease
    /\ \A t \in Threads : At(t, "settle") => session.closed \/ session.lease
    /\ completion = "open" => session.closed \/ session.lease
    /\ \A t \in Threads : Has(t, Searching) => ~completion_pending
    /\ \A t \in Threads : At(t, "begin") => ~session.lease
    /\ \A t \in Threads : ~At(t, "busy")
    /\ \A t \in Threads : At(t, "leased") => closed \/ session.lease
    /\ session.lease /\ ~closed => completion_pending \/ \E t \in Threads : At(t, "leased")

\* Every response is queued, retained, dropped or handed to the sink once; the one being
\* sent is still queued.
QueueInv ==
    /\ session.closed => session.outbound = 0 /\ ~session.lease
    /\ session.lease => session.outbound > 0
    /\ emitted + session.outbound + retained
          <= made + (IF completion_pending /\ session.lease THEN 1 ELSE 0)

\* How far a shutdown is, and what has become quiet by then.
CloseInv ==
    /\ \A t \in Threads : Has(t, Closing \ {"shutdown"}) => closed
    /\ \A c \in called : stack[c] \in {<<>>, <<"drain">>, <<"await_sink">>} =>
                            closed /\ session.closed
    /\ \A c \in called : stack[c] \in {<<>>, <<"await_sink">>} => task = {}
    /\ \A c \in called : stack[c] = <<>> => sink_calls = 0

ChannelInv == TypeOK /\ StackInv /\ RunnerInv /\ SendInv /\ QueueInv /\ CloseInv
====
