\* Calls of the API and of the steps fail without effect, requests are
\* cancelled, their process dies.
SPECIFICATION FairServiceSpec
CONSTANTS
    Uploads = {u1}
    Workers = {w1, w2}
    Slots = {1, 2, 3, 4}
    None = None
    MaxFiles = 2
    MaxRetry = 1
    MaxRuns = 1
    MaxFaults = 0
    Faults = {"error"}
    ApiFaults = {"bad_file", "blob_error", "db_error", "queue_error", "cancelled", "killed"}
INVARIANTS
    ApiTypeOK
    NothingLeaked
    OnlyCutLeavesPending
    UnqueuedIsNeverProcessed
    CompletedIsServed
PROPERTIES
    AnswersAreFinal
    AcceptedIsAnswered
