----------------------------- MODULE UploadApi ------------------------------
(***************************************************************************)
(* The upload and status handlers of internal/http, composed with the      *)
(* pipeline.                                                               *)
(*                                                                         *)
(* create streams each file of the request into the blob store, records    *)
(* the upload and its files in one transaction, and enqueues the run: three *)
(* systems and no transaction across them.  Every call is made under the   *)
(* request's context, which a client that hangs up or a SIGTERM to the     *)
(* process (the server's BaseContext) cancels; from then on every call     *)
(* fails, the ones that clean up included.                                 *)
(*                                                                         *)
(* status reads the upload row and, when it says completed, the analysis   *)
(* row, in two queries.                                                    *)
(***************************************************************************)
EXTENDS Pipeline, BlobStore

CONSTANT ApiFaults    \* what can go wrong in the API, see ApiFaultKinds

ApiFaultKinds == {
    "bad_file",             \* a part is not a PDF, has no name, is too large
    "blob_error",           \* a write to the blob store fails
    "blob_unconfirmed",     \* it takes effect but reports an error
    "cleanup_error",        \* a blob cannot be deleted (only logged)
    "db_error",             \* the recording transaction fails
    "db_unconfirmed",       \* it commits but reports an error
    "queue_error",          \* saga.Start fails
    "queue_unconfirmed",    \* it enqueues the message but reports an error
    "cancelled",            \* the request's context is cancelled
    "killed"}               \* the process dies in the middle of a request

ASSUME ApiAssumption == ApiFaults \subseteq ApiFaultKinds

VARIABLES
    parts,     \* how many files the client's request carries
    req,       \* where the handler stands, or what it answered
    read,      \* length of the handler's list of stored files
    trash,     \* blobs the handler has still to delete
    dead,      \* the request's context is cancelled
    looking,   \* a status request has read "completed" and not the analysis
    seen       \* the last answer of the status endpoint

createVars == <<parts, req, read, trash, dead, blobs>>
statusVars == <<looking, seen>>
apiVars == <<createVars, statusVars>>
serviceVars == <<pipelineVars, apiVars>>

Running == {"reading", "recording", "enqueueing", "unqueued", "discarding"}

\* 202, 503, any other error, or no answer at all.
Answered == {"accepted", "unavailable", "refused", "gone"}

Answers == UploadStatus \cup {"none", "completed, no analysis"}

ApiTypeOK ==
    /\ TypeOK
    /\ parts \in [Uploads -> 0 .. MaxFiles + 1]
    /\ req \in [Uploads -> Running \cup Answered]
    /\ read \in [Uploads -> 0 .. MaxFiles]
    /\ trash \in [Uploads -> SUBSET Positions]
    /\ dead \in [Uploads -> BOOLEAN]
    /\ blobs \subseteq Uploads \X Positions
    /\ looking \in [Uploads -> BOOLEAN]
    /\ seen \in [Uploads -> Answers]

ServiceInit ==
    /\ StoreEmpty
    /\ QueueEmpty
    /\ WorkersIdle
    /\ starts = [u \in Uploads |-> 0]
    /\ faults = 0
    /\ parts \in [Uploads -> 0 .. MaxFiles + 1]
    /\ req = [u \in Uploads |-> "reading"]
    /\ read = [u \in Uploads |-> 0]
    /\ trash = [u \in Uploads |-> {}]
    /\ dead = [u \in Uploads |-> FALSE]
    /\ blobs = {}
    /\ looking = [u \in Uploads |-> FALSE]
    /\ seen = [u \in Uploads |-> "none"]

----------------------------------------------------------------------------
(* create.                                                                 *)

\* A call made under the request's context fails.
Fails(u, fault) == dead[u] \/ fault \in ApiFaults

Proceed(u, next) ==
    /\ req' = [req EXCEPT ![u] = next]
    /\ UNCHANGED <<parts, dead>>

\* The files stored so far will not be recorded.
Discarding(u, leftover) ==
    /\ Proceed(u, "discarding")
    /\ trash' = [trash EXCEPT ![u] = leftover]
    /\ UNCHANGED read

\* The positions of the files stored so far.
Listed(u) == 1 .. read[u]

\* MUTANT of StoreBlob: the limit on the number of files is off by one.
StoreBlobPastLimit(u) ==
    LET p == read[u] + 1 IN
    /\ req[u] = "reading"
    /\ read[u] < parts[u]
    /\ read[u] <= MaxFiles
    /\ ~ dead[u]
    /\ PutBlob(<<u, p>>)
    /\ read' = [read EXCEPT ![u] = p]
    /\ UNCHANGED <<parts, req, trash, dead>>

\* readOneFile stores the next part and adds it to the list.
StoreBlob(u) ==
    LET p == read[u] + 1 IN
    /\ req[u] = "reading"
    /\ read[u] < parts[u]
    /\ read[u] < MaxFiles
    /\ ~ dead[u]
    /\ PutBlob(<<u, p>>)
    /\ read' = [read EXCEPT ![u] = p]
    /\ UNCHANGED <<parts, req, trash, dead>>

\* readOneFile refuses a part before it stored anything.
RefusePart(u) ==
    /\ req[u] = "reading"
    /\ read[u] < parts[u]
    /\ \/ read[u] = MaxFiles
       \/ Fails(u, "bad_file")
       \/ Fails(u, "blob_error")
    /\ Discarding(u, Listed(u))
    /\ UNCHANGED blobs

\* MUTANT of RefuseStored: an oversized file's blob is left in the store.
RefuseStoredKept(u) ==
    LET p == read[u] + 1 IN
    /\ req[u] = "reading"
    /\ read[u] < parts[u]
    /\ read[u] < MaxFiles
    /\ ~ dead[u]
    /\ PutBlob(<<u, p>>)
    /\ "bad_file" \in ApiFaults /\ Discarding(u, Listed(u))

\* readOneFile refuses a part whose blob is already in the store: it outgrew
\* MaxFileBytes and is deleted with the others, or Put reported an error for
\* it, and then nobody knows of it.
RefuseStored(u) ==
    LET p == read[u] + 1 IN
    /\ req[u] = "reading"
    /\ read[u] < parts[u]
    /\ read[u] < MaxFiles
    /\ ~ dead[u]
    /\ PutBlob(<<u, p>>)
    /\ \/ "bad_file" \in ApiFaults /\ Discarding(u, Listed(u) \cup {p})
       \/ "blob_unconfirmed" \in ApiFaults /\ Discarding(u, Listed(u))

\* The whole body has been read.
EndOfBody(u) ==
    /\ req[u] = "reading"
    /\ read[u] = parts[u]
    /\ Proceed(u, IF read[u] = 0 THEN "refused" ELSE "recording")
    /\ UNCHANGED <<read, trash, blobs>>

Record(u) ==
    /\ req[u] = "recording"
    /\ \/ /\ ~ dead[u]
          /\ CreateUploadWithFiles(u, Listed(u))
          /\ Proceed(u, "enqueueing")
          /\ UNCHANGED <<read, trash>>
       \/ /\ Fails(u, "db_error")
          /\ UNCHANGED storeVars
          /\ Discarding(u, Listed(u))
       \/ /\ "db_unconfirmed" \in ApiFaults
          /\ CreateUploadWithFiles(u, Listed(u))
          /\ Discarding(u, Listed(u))
    /\ UNCHANGED blobs

\* discard and deleteBlob: one deletion, whose failure is logged and dropped.
DeleteBlob(u) ==
    /\ req[u] = "discarding"
    /\ \E p \in trash[u] :
          /\ trash' = [trash EXCEPT ![u] = @ \ {p}]
          /\ \/ ~ dead[u] /\ RemoveBlob(<<u, p>>)
             \/ Fails(u, "cleanup_error") /\ UNCHANGED blobs
    /\ UNCHANGED <<parts, req, read, dead>>

Refuse(u) ==
    /\ req[u] = "discarding"
    /\ trash[u] = {}
    /\ Proceed(u, "refused")
    /\ UNCHANGED <<read, trash, blobs>>

\* MUTANT of EnqueueUpload: the error of saga.Start is not looked at.
EnqueueUnchecked(u) ==
    /\ req[u] = "enqueueing"
    /\ \/ ~ dead[u] /\ Enqueue(u)
       \/ Fails(u, "queue_error") /\ UNCHANGED pipelineVars
    /\ Proceed(u, "accepted")
    /\ UNCHANGED <<read, trash, blobs>>

\* MUTANT of EnqueueUpload: the test of saga.Start's error is inverted.
EnqueueInverted(u) ==
    /\ req[u] = "enqueueing"
    /\ \/ ~ dead[u] /\ Enqueue(u) /\ Proceed(u, "unqueued")
       \/ Fails(u, "queue_error") /\ UNCHANGED pipelineVars /\ Proceed(u, "accepted")
    /\ UNCHANGED <<read, trash, blobs>>

\* saga.Start, on taskQ's own connection.
EnqueueUpload(u) ==
    /\ req[u] = "enqueueing"
    /\ \/ ~ dead[u] /\ Enqueue(u) /\ Proceed(u, "accepted")
       \/ "queue_unconfirmed" \in ApiFaults /\ Enqueue(u) /\ Proceed(u, "unqueued")
       \/ Fails(u, "queue_error") /\ UNCHANGED pipelineVars /\ Proceed(u, "unqueued")
    /\ UNCHANGED <<read, trash, blobs>>

\* MUTANT of MarkUnqueued: the handler answers 503 and leaves the row alone.
AnswerUnavailable(u) ==
    /\ req[u] = "unqueued"
    /\ UNCHANGED storeVars
    /\ Proceed(u, "unavailable")
    /\ UNCHANGED <<read, trash, blobs>>

\* MUTANT of MarkUnqueued: the blobs are discarded as well.
DiscardUnqueued(u) ==
    /\ req[u] = "unqueued"
    /\ \/ ~ dead[u] /\ SetUploadStatus(u, "failed", "not queued")
       \/ dead[u] /\ UNCHANGED storeVars
    /\ Discarding(u, Listed(u))
    /\ UNCHANGED blobs

\* markUnqueued, whose own error is only logged, then the answer 503.
MarkUnqueued(u) ==
    /\ req[u] = "unqueued"
    /\ \/ ~ dead[u] /\ SetUploadStatus(u, "failed", "not queued")
       \/ (dead[u] \/ "unrecorded" \in Faults) /\ UNCHANGED storeVars
    /\ Proceed(u, "unavailable")
    /\ UNCHANGED <<read, trash, blobs>>

----------------------------------------------------------------------------
(* Cancellation and death of the process.                                  *)

Cancel(u) ==
    /\ "cancelled" \in ApiFaults
    /\ req[u] \in Running
    /\ ~ dead[u]
    /\ dead' = [dead EXCEPT ![u] = TRUE]
    /\ UNCHANGED <<parts, req, read, trash, blobs>>

Die(u) ==
    /\ "killed" \in ApiFaults
    /\ req[u] \in Running
    /\ req' = [req EXCEPT ![u] = "gone"]
    /\ trash' = [trash EXCEPT ![u] = {}]
    /\ UNCHANGED <<parts, read, dead, blobs>>

----------------------------------------------------------------------------
(* status.                                                                 *)

GetUpload(u) ==
    /\ ~ looking[u]
    /\ looking' = [looking EXCEPT ![u] = status[u] = "completed"]
    /\ seen' = IF status[u] = "completed" THEN seen
               ELSE [seen EXCEPT ![u] = status[u]]

GetAnalysisID(u) ==
    /\ looking[u]
    /\ looking' = [looking EXCEPT ![u] = FALSE]
    /\ seen' = [seen EXCEPT ![u] = IF HasAnalysis(u) THEN "completed"
                                   ELSE "completed, no analysis"]

\* The second read fails: the answer is 500, which says nothing of the upload.
\* A first read that fails leaves everything as it was.
StatusFails(u) ==
    /\ "db_error" \in ApiFaults
    /\ looking[u]
    /\ looking' = [looking EXCEPT ![u] = FALSE]
    /\ UNCHANGED seen

----------------------------------------------------------------------------

\* Calls of create that touch neither the database nor the queue.
CreateLocal(u) ==
    \/ StoreBlob(u)
    \/ RefusePart(u)
    \/ RefuseStored(u)
    \/ EndOfBody(u)
    \/ DeleteBlob(u)
    \/ Refuse(u)

CreateShared(u) ==
    \/ /\ Record(u) \/ MarkUnqueued(u)
       /\ UNCHANGED <<taskqVars, workerVars, starts, faults>>
    \/ EnqueueUpload(u)

Create(u) ==
    \/ CreateLocal(u) /\ UNCHANGED <<pipelineVars, statusVars>>
    \/ CreateShared(u) /\ UNCHANGED statusVars

\* A client asks for the status, or the handler goes on answering it.
PollStatus(u) ==
    /\ GetUpload(u) \/ GetAnalysisID(u) \/ StatusFails(u)
    /\ UNCHANGED <<pipelineVars, createVars>>

ServiceNext ==
    \/ \E u \in Uploads : Create(u)
    \/ \E u \in Uploads :
          (Cancel(u) \/ Die(u)) /\ UNCHANGED <<pipelineVars, statusVars>>
    \/ \E u \in Uploads : PollStatus(u)
    \/ PipelineStep /\ UNCHANGED apiVars

ServiceSpec == ServiceInit /\ [][ServiceNext]_serviceVars

\* The workers keep running, and so does a client that polls; a query it makes
\* the handler repeat is answered sooner or later.
FairServiceSpec ==
    /\ ServiceSpec
    /\ \A w \in Workers : WF_serviceVars(Work(w) /\ UNCHANGED apiVars)
    /\ \A u \in Uploads :
          /\ WF_serviceVars(PollStatus(u))
          /\ SF_serviceVars(GetAnalysisID(u) /\ UNCHANGED <<pipelineVars, createVars>>)

----------------------------------------------------------------------------
(* Properties.                                                             *)

\* Every file an upload has a row for is in the blob store, so the ocr step
\* finds what it lists.  Only create may have deleted it, on its way to refuse
\* the request, and then it has not enqueued the run and never will.
RowsHaveBlobs ==
    \A u \in Uploads :
        \/ {u} \X files[u] \subseteq blobs
        \/ req[u] \in {"discarding", "refused", "gone"} /\ starts[u] = 0

\* A refused request has no rows, and "without an upload row nothing will ever
\* reference these blobs, so they go now rather than becoming orphans"
\* (uploads.go, create): no blob is left unless the request's context was
\* cancelled, under which the deletions fail too.
NothingLeaked ==
    \A u \in Uploads :
        req[u] = "refused" =>
            /\ files[u] = {}
            /\ dead[u] \/ \A p \in Positions : <<u, p>> \notin blobs

\* The client was told 202: the whole request was recorded, and the run is
\* going on or has ended in a terminal status.
AcceptedIsKept ==
    \A u \in Uploads :
        req[u] = "accepted" =>
            /\ files[u] = 1 .. parts[u]
            /\ Settled(u) \/ WorkRemains(u)

\* create has ended and nothing will ever move its upload.
LeftPending(u) ==
    /\ req[u] \in Answered
    /\ status[u] \in {"pending", "processing"}
    /\ ~ WorkRemains(u)

\* However create ended, it did not leave an upload "pending forever" "with no
\* queued work" (uploads.go, create and markUnqueued).
NotLeftPending == \A u \in Uploads : ~ LeftPending(u)

\* Only a request whose context was cancelled, or whose process died in the
\* middle of it, can leave an upload like that: the window that create closes
\* "by recording the failure" stays open for those alone (uploads.go).
OnlyCutLeavesPending ==
    \A u \in Uploads : LeftPending(u) => dead[u] \/ req[u] = "gone"

\* markUnqueued "records that an upload will never be processed".
UnqueuedIsNeverProcessed ==
    \A u \in Uploads : reason[u] = "not queued" => ~ WorkRemains(u)

\* A terminal answer of the status endpoint is the last word: a client that
\* polls may stop at it.
AnswersAreFinal ==
    [][\A u \in Uploads :
          seen[u] \in {"completed", "failed"} => seen'[u] = seen[u]]_serviceVars

\* A client that was told 202 and keeps polling ends up with a terminal answer
\* (uploads.go, status), however often steps fail.
AcceptedIsAnswered ==
    \A u \in Uploads :
        req[u] = "accepted" ~> [] (seen[u] \in {"completed", "failed"})

\* A status answer of "completed" carries an analysis id: "Completed with no
\* analysis row should not happen" (uploads.go, status).
CompletedIsServed == \A u \in Uploads : seen[u] # "completed, no analysis"
=============================================================================
