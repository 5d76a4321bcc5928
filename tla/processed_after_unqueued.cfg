\* saga.Start enqueues the message and reports an error.
SPECIFICATION ServiceSpec
CONSTANTS
    Uploads = {u1}
    Workers = {w1}
    Slots = {1, 2, 3, 4}
    None = None
    MaxFiles = 2
    MaxRetry = 0
    MaxRuns = 1
    MaxFaults = 0
    Faults = {}
    ApiFaults = {"queue_unconfirmed"}
INVARIANTS
    UnqueuedIsNeverProcessed
