\* Everything that can go wrong in the API, and workers are killed.
SPECIFICATION ServiceSpec
CONSTANTS
    Uploads = {u1}
    Workers = {w1, w2}
    Slots = {1, 2, 3, 4}
    None = None
    MaxFiles = 2
    MaxRetry = 0
    MaxRuns = 1
    MaxFaults = 1
    Faults = {"error", "crash"}
    ApiFaults = {"bad_file", "blob_error", "blob_unconfirmed", "cleanup_error", "db_error", "db_unconfirmed", "queue_error", "queue_unconfirmed", "cancelled", "killed"}
SYMMETRY MCSymmetry
INVARIANTS
    RowsHaveBlobs
    AcceptedIsKept
