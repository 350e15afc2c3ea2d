\* Two tasks, one with its handle used, one place in the queue, two workers and a closer.
SPECIFICATION FairSpec
CONSTANTS
    Tasks = {t1, t2}
    Workers = {w1, w2}
    Closers = {c1}
    Handles = {t1}
    capacity = 1
    NoTask = NoTask
INVARIANT OneOutcome
INVARIANT CancelAnswers
INVARIANT ShutdownSettlesAll
PROPERTY ImplementsTaskPromises
PROPERTY AcceptedSettles
PROPERTY CallsReturn
