---- MODULE TriggerSession ----
(***************************************************************************)
(* The response side of one trigger connection, as operators on its state  *)
(* (src/service/protocol/TriggerSession.cpp). Every operator is what one   *)
(* method does under mutex_. The caller of the session holds a task        *)
(* number, which stands for the admission receipt: a receipt is valid if   *)
(* the entry of its timestamp still holds that number.                     *)
(***************************************************************************)
EXTENDS Naturals, Sequences, FiniteSets

CONSTANTS
    Timestamps,         \* the correlation ids of commands
    max_in_flight,      \* TriggerSessionLimits::max_in_flight
    max_queued_batches  \* TriggerSessionLimits::max_queued_batches

NoTask == 0

NoEntry == [task |-> NoTask, cancel_requested |-> FALSE,
            terminal_queued |-> FALSE, irrevocable_terminal_claimed |-> FALSE]

\* outbound holds batches in FIFO order; lease: a send of its head is under way.
NewSession ==
    [closed |-> FALSE, entries |-> [t \in Timestamps |-> NoEntry],
     outbound |-> <<>>, lease |-> FALSE]

Batch(t, task, status) == [timestamp |-> t, task |-> task, status |-> status]
Terminal(status) == status # "progress"

InFlight(s) == {t \in Timestamps : s.entries[t].task # NoTask}

Admissible(s, t) ==
    /\ ~s.closed
    /\ t \notin InFlight(s)
    /\ Cardinality(InFlight(s)) < max_in_flight
admit(s, t, task) == [s EXCEPT !.entries[t] = [NoEntry EXCEPT !.task = task]]

rollback(s, t) == [s EXCEPT !.entries[t] = NoEntry]

\* request_cancel decides `requested` or `already_requested`.
Cancellable(s, t) ==
    /\ ~s.closed
    /\ t \in InFlight(s)
    /\ ~s.entries[t].terminal_queued
    /\ ~s.entries[t].irrevocable_terminal_claimed
request_cancel(s, t) == [s EXCEPT !.entries[t].cancel_requested = TRUE]

\* A receipt whose correlation can still take a terminal.
Receivable(s, t, task) ==
    /\ ~s.closed
    /\ s.entries[t].task = task
    /\ ~s.entries[t].terminal_queued

Claimable(s, t, task) ==
    /\ Receivable(s, t, task)
    /\ ~s.entries[t].irrevocable_terminal_claimed
    /\ ~s.entries[t].cancel_requested
claim_irrevocable_terminal(s, t) ==
    [s EXCEPT !.entries[t].irrevocable_terminal_claimed = TRUE]

\* Mutant: a cancelled command may still answer with its result.
PublishError_IgnoresCancel(s, t, task, status) ==
    IF ~Receivable(s, t, task) THEN "rejected"
    ELSE IF Len(s.outbound) >= max_queued_batches THEN "queue_full" ELSE "none"

\* Why publish refuses a batch ("rejected" when the receipt or session is dead).
PublishError(s, t, task, status) ==
    IF ~Receivable(s, t, task) THEN "rejected"
    ELSE IF s.entries[t].cancel_requested /\ status # "cancelled"
    THEN "cancellation_response_required"
    ELSE IF Len(s.outbound) >= max_queued_batches THEN "queue_full" ELSE "none"
publish(s, t, task, status) ==
    [s EXCEPT !.outbound = Append(@, Batch(t, task, status)),
              !.entries[t].terminal_queued = Terminal(status)]

\* begin_send leases the head; complete_send drops it and ends its correlation.
Sendable(s) == ~s.closed /\ ~s.lease /\ s.outbound # <<>>
begin_send(s) == [s EXCEPT !.lease = TRUE]

complete_send(s) ==
    LET sent == Head(s.outbound) IN
    [s EXCEPT !.outbound = Tail(@), !.lease = FALSE,
              !.entries = IF Terminal(sent.status)
                          THEN [@ EXCEPT ![sent.timestamp] = NoEntry] ELSE @]

\* close and fail_send: the commands in flight are handed back to be cancelled.
close_locked(s) == [NewSession EXCEPT !.closed = TRUE]
====
