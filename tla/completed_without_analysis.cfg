\* A worker dies after mark_completed pivoted and before its message is
\* acknowledged.
SPECIFICATION PipelineSpec
CONSTANTS
    Uploads = {u1}
    Workers = {w1, w2}
    Slots = {1, 2, 3, 4}
    None = None
    MaxFiles = 1
    MaxRetry = 1
    MaxRuns = 1
    MaxFaults = 1
    Faults = {"error", "crash"}
SYMMETRY MCSymmetry
INVARIANTS
    CompletedHasAnalysis
