\* A client and the watcher, two subscriptions, one document or none, two changes.
SPECIFICATION FairSpec
CONSTANTS
    Clients = {c1}
    Watcher = Watcher
    Subscribers = {s1, s2}
    Docs = {d1}
    MaxChanges = 2
    None = None
    Nobody = Nobody
    NoSubscriber = NoSubscriber
    NoJob = NoJob
INVARIANT ReturnedIsDone
PROPERTY InOrderWithoutGap
PROPERTY CallsReturn
