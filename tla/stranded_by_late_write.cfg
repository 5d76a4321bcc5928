\* A hop outlives its lease and its worker then dies.
SPECIFICATION PipelineSpec
CONSTANTS
    Uploads = {u1}
    Workers = {w1, w2}
    Slots = {1, 2, 3, 4}
    None = None
    MaxFiles = 1
    MaxRetry = 1
    MaxRuns = 1
    MaxFaults = 2
    Faults = {"crash", "stall"}
SYMMETRY MCSymmetry
INVARIANTS
    NoStrandedRun
