\* One connection, two tasks and two timestamps on two slots, with cancellation.
SPECIFICATION Spec
CONSTANTS
    Connections = {c1}
    Hosts = {h1, h2}
    Workers = {w1, w2}
    Timestamps = {1, 2}
    max_in_flight = 2
    max_queued_batches = 1
    max_tasks = 2
    max_queued_tasks = 1
    max_tasks_per_connection = 2
    max_pending_responses = 1
    MaxTasks = 2
    HostCalls = {"cancel"}
    Nobody = Nobody
    NoConnection = NoConnection
SYMMETRY Interchangeable
INVARIANT SlotAccounting
INVARIANT AnsweredOrOwned
INVARIANT CancelWins
INVARIANT ClosedIsDrained
INVARIANT FoundAsLeft
