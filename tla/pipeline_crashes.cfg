\* Steps fail, workers are killed; no hop outlives its lease and the failed
\* status is always written.
SPECIFICATION FairFaultsSpec
CONSTANTS
    Uploads = {u1}
    Workers = {w1, w2}
    Slots = {1, 2, 3, 4}
    None = None
    MaxFiles = 1
    MaxRetry = 1
    MaxRuns = 1
    MaxFaults = 1
    Faults = {"error", "lost_reply", "crash"}
INVARIANTS
    CarrierInv
    NoStrandedRun
    CompletedUnlessFailed
PROPERTIES
    EventuallySettles
