\* Every kind of fault at once.
SPECIFICATION PipelineSpec
CONSTANTS
    Uploads = {u1}
    Workers = {w1, w2}
    Slots = {1, 2, 3, 4}
    None = None
    MaxFiles = 2
    MaxRetry = 1
    MaxRuns = 1
    MaxFaults = 1
    Faults = {"error", "lost_reply", "unrecorded", "crash", "stall"}
    Letters = {"a", "."}
    MinSecret = 2
    MaxErrorMessageBytes = 5
    MaxSecrets = 2
    MaxItems = 4
SYMMETRY MCSymmetry
INVARIANTS
    TypeOK
    OCRGuaranteed
    AnalysisIsWhole
    Scrubbed
    NoFragments
