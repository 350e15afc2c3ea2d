\* A client, the watcher and one subscription.
SPECIFICATION FairSpec
CONSTANTS
    Clients = {c1}
    Watcher = Watcher
    Subscribers = {s1}
    Docs = {d1, d2}
    MaxChanges = 1
    None = None
    Nobody = Nobody
    NoSubscriber = NoSubscriber
    NoJob = NoJob
PROPERTY ReplayConverges
