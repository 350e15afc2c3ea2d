\* Two tasks in turn on one slot, two hosts, retry_pending and the whole of shutdown.
SPECIFICATION FairSpec
CONSTANTS
    Connections = {c1}
    Hosts = {h1, h2}
    Workers = {w1}
    Timestamps = {1}
    max_in_flight = 1
    max_queued_batches = 1
    max_tasks = 1
    max_queued_tasks = 1
    max_tasks_per_connection = 1
    max_pending_responses = 1
    MaxTasks = 2
    HostCalls = {"retry"}
    Nobody = Nobody
    NoConnection = NoConnection
PROPERTIES ConnectionDrains ShutdownCompletes
