\* Steps fail and are retried, compensations fail; nothing is redelivered
\* because of a lost worker.
SPECIFICATION FairPipelineSpec
CONSTANTS
    Uploads = {u1, u2}
    Workers = {w1, w2}
    Slots = {1, 2, 3, 4}
    None = None
    MaxFiles = 1
    MaxRetry = 1
    MaxRuns = 1
    MaxFaults = 0
    Faults = {"error"}
INVARIANTS
    FailedLeavesNothing
    OneHopAtATime
PROPERTIES
    ImplementsLifecycle
