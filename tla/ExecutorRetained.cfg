\* One task that reports progress, on a connection whose writer keeps sending.
SPECIFICATION SendingSpec
CONSTANTS
    Connections = {c1}
    Hosts = {h1}
    Workers = {w1}
    Timestamps = {1}
    max_in_flight = 1
    max_queued_batches = 1
    max_tasks = 1
    max_queued_tasks = 1
    max_tasks_per_connection = 2
    max_pending_responses = 1
    MaxTasks = 1
    HostCalls = {}
    Nobody = Nobody
    NoConnection = NoConnection
PROPERTY RetainedIsSent
