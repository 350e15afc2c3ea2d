\* Two executor threads, one closer, three responses through a queue of one.
SPECIFICATION FairSpec
CONSTANTS
    Publishers = {p1, p2}
    Closers = {c1}
    Writer = Writer
    Nobody = Nobody
    max_queued_batches = 1
    MaxBatches = 3
INVARIANT OneSendAtATime
INVARIANT NoSendUnderOperation
INVARIANT QuietAfterShutdown
PROPERTY QueuedIsSent
PROPERTY ShutdownReturns
