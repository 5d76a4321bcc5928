----------------------------- MODULE ApiProofs -----------------------------
(***************************************************************************)
(* What create keeps among the request, the blob store and the database,   *)
(* for any number of uploads, files, workers and retries, while the        *)
(* pipeline runs and requests are cancelled or their processes killed.     *)
(***************************************************************************)
EXTENDS UploadApi, LifecycleProofs

(***************************************************************************)
(* Types.                                                                  *)
(***************************************************************************)

CreateTypes ==
    /\ parts \in [Uploads -> 0 .. MaxFiles + 1]
    /\ req \in [Uploads -> Running \cup Answered]
    /\ read \in [Uploads -> 0 .. MaxFiles]
    /\ trash \in [Uploads -> SUBSET Positions]
    /\ dead \in [Uploads -> BOOLEAN]
    /\ blobs \subseteq Uploads \X Positions

StatusTypes ==
    /\ looking \in [Uploads -> BOOLEAN]
    /\ seen \in [Uploads -> Answers]

LEMMA ListedFiles ==
    ASSUME CreateTypes, NEW u \in Uploads
    PROVE  /\ read[u] \in 0 .. MaxFiles
           /\ Listed(u) \subseteq Positions
           /\ read[u] < MaxFiles => read[u] + 1 \in Positions
<1>1. read[u] \in 0 .. MaxFiles /\ MaxFiles \in Nat
  BY StoreAssumption DEF CreateTypes
<1> QED
  BY <1>1 DEF Listed, Positions

\* The handler goes to another place; the rest of what it knows stays.
LEMMA ProceedTypes ==
    ASSUME CreateTypes, NEW u \in Uploads, NEW r \in Running \cup Answered,
           Proceed(u, r)
    PROVE  /\ req' \in [Uploads -> Running \cup Answered]
           /\ parts' \in [Uploads -> 0 .. MaxFiles + 1]
           /\ dead' \in [Uploads -> BOOLEAN]
           /\ req'[u] = r
BY DEF CreateTypes, Proceed

LEMMA DiscardingTypes ==
    ASSUME CreateTypes, NEW u \in Uploads, NEW L \in SUBSET Positions,
           Discarding(u, L), blobs' \subseteq Uploads \X Positions
    PROVE  CreateTypes'
<1>1. Proceed(u, "discarding") /\ "discarding" \in Running \cup Answered
  BY DEF Discarding, Running
<1>2. /\ trash' \in [Uploads -> SUBSET Positions]
      /\ read' \in [Uploads -> 0 .. MaxFiles]
  BY DEF Discarding, CreateTypes
<1> QED
  BY <1>1, <1>2, ProceedTypes DEF CreateTypes

LEMMA PutTypes ==
    ASSUME CreateTypes, NEW u \in Uploads, read[u] < MaxFiles,
           PutBlob(<<u, read[u] + 1>>)
    PROVE  blobs' \subseteq Uploads \X Positions
BY ListedFiles DEF PutBlob, CreateTypes

LEMMA CreateTypesStep ==
    ASSUME CreateTypes, NEW u \in Uploads, CreateLocal(u) \/ CreateShared(u)
    PROVE  CreateTypes'
<1>0. blobs \subseteq Uploads \X Positions /\ Listed(u) \subseteq Positions
  BY ListedFiles DEF CreateTypes
<1>1. CASE StoreBlob(u)
  <2>1. blobs' \subseteq Uploads \X Positions /\ read[u] + 1 \in 0 .. MaxFiles
    BY <1>1, PutTypes, ListedFiles DEF StoreBlob, Positions
  <2> QED
    BY <1>1, <2>1 DEF StoreBlob, CreateTypes
<1>2. CASE RefusePart(u)
  BY <1>0, <1>2, DiscardingTypes DEF RefusePart
<1>3. CASE RefuseStored(u)
  <2>1. /\ blobs' \subseteq Uploads \X Positions
        /\ Listed(u) \cup {read[u] + 1} \subseteq Positions
    BY <1>3, PutTypes, ListedFiles DEF RefuseStored
  <2> QED
    BY <1>0, <1>3, <2>1, DiscardingTypes DEF RefuseStored
<1>4. CASE EndOfBody(u)
  <2>1. (IF read[u] = 0 THEN "refused" ELSE "recording") \in Running \cup Answered
    BY DEF Running, Answered
  <2> QED
    BY <1>4, <2>1, ProceedTypes DEF EndOfBody, CreateTypes
<1>5. CASE DeleteBlob(u)
  BY <1>5 DEF DeleteBlob, RemoveBlob, CreateTypes
<1>6. CASE Refuse(u)
  BY <1>6, ProceedTypes DEF Refuse, Answered, CreateTypes
<1>7. CASE Record(u)
  <2>1. CASE Proceed(u, "enqueueing") /\ UNCHANGED <<read, trash, blobs>>
    BY <2>1, ProceedTypes DEF Running, CreateTypes
  <2>2. CASE Discarding(u, Listed(u)) /\ UNCHANGED blobs
    BY <1>0, <2>2, DiscardingTypes
  <2> QED
    BY <1>7, <2>1, <2>2 DEF Record
<1>8. CASE MarkUnqueued(u)
  BY <1>8, ProceedTypes DEF MarkUnqueued, Answered, CreateTypes
<1>9. CASE EnqueueUpload(u)
  BY <1>9, ProceedTypes DEF EnqueueUpload, Answered, Running, CreateTypes
<1> QED
  BY <1>1, <1>2, <1>3, <1>4, <1>5, <1>6, <1>7, <1>8, <1>9
     DEF CreateLocal, CreateShared

LEMMA EndTypesStep ==
    ASSUME CreateTypes, NEW u \in Uploads, Cancel(u) \/ Die(u)
    PROVE  CreateTypes'
BY DEF Cancel, Die, CreateTypes, Running, Answered

LEMMA StatusTypesStep ==
    ASSUME TypeOK, StatusTypes, NEW u \in Uploads,
           GetUpload(u) \/ GetAnalysisID(u) \/ StatusFails(u)
    PROVE  StatusTypes'
<1>1. status[u] \in UploadStatus
  BY DEF TypeOK, StoreTypeOK
<1> QED
  BY <1>1 DEF GetUpload, GetAnalysisID, StatusFails, StatusTypes, Answers,
     UploadStatus, Status

\* A transaction of the handler's own.
LEMMA StoreStepTypes ==
    ASSUME TypeOK, StoreTypeOK', UNCHANGED <<taskqVars, workerVars, starts, faults>>
    PROVE  TypeOK'
BY DEF TypeOK, taskqVars, workerVars

LEMMA CreatedTypes ==
    ASSUME StoreTypeOK, NEW u \in Uploads, NEW F \in SUBSET Positions,
           CreateUploadWithFiles(u, F)
    PROVE  StoreTypeOK'
BY DEF CreateUploadWithFiles, StoreTypeOK, UploadStatus, Status

LEMMA SharedTypes ==
    ASSUME TypeOK, CreateTypes, NEW u \in Uploads, CreateShared(u)
    PROVE  TypeOK'
<1>1. StoreTypeOK /\ Listed(u) \in SUBSET Positions
  BY ListedFiles DEF TypeOK
<1>2. CASE Record(u) /\ UNCHANGED <<taskqVars, workerVars, starts, faults>>
  <2>1. CreateUploadWithFiles(u, Listed(u)) \/ UNCHANGED storeVars
    BY <1>2 DEF Record
  <2>2. StoreTypeOK'
    BY <1>1, <2>1, CreatedTypes, StoreTypes
  <2> QED
    BY <1>2, <2>2, StoreStepTypes
<1>3. CASE MarkUnqueued(u) /\ UNCHANGED <<taskqVars, workerVars, starts, faults>>
  <2>1. SetUploadStatus(u, "failed", "not queued") \/ UNCHANGED storeVars
    BY <1>3 DEF MarkUnqueued
  <2>2. "failed" \in UploadStatus /\ "not queued" \in Reason
    BY DEF UploadStatus, Status, Reason
  <2>3. StoreTypeOK'
    BY <1>1, <2>1, <2>2, StoreTypes
  <2> QED
    BY <1>3, <2>3, StoreStepTypes
<1>4. CASE EnqueueUpload(u)
  <2>1. Enqueue(u) \/ UNCHANGED pipelineVars
    BY <1>4 DEF EnqueueUpload
  <2>2. [PipelineNext]_pipelineVars
    BY <2>1 DEF PipelineNext
  <2> QED
    BY <2>2, TypeStep
<1> QED
  BY <1>2, <1>3, <1>4 DEF CreateShared

AllTypes == TypeOK /\ CreateTypes /\ StatusTypes

LEMMA AllTypesStep ==
    ASSUME AllTypes, [ServiceNext]_serviceVars
    PROVE  AllTypes'
<1>0. TypeOK /\ CreateTypes /\ StatusTypes
  BY DEF AllTypes
<1>1. ASSUME [PipelineNext]_pipelineVars PROVE TypeOK'
  BY <1>0, <1>1, TypeStep
<1>2. ASSUME UNCHANGED createVars PROVE CreateTypes'
  BY <1>0, <1>2 DEF createVars, CreateTypes
<1>3. ASSUME UNCHANGED statusVars PROVE StatusTypes'
  BY <1>0, <1>3 DEF statusVars, StatusTypes
<1>4. ASSUME NEW u \in Uploads, Create(u) PROVE AllTypes'
  <2>1. CreateTypes' /\ StatusTypes'
    BY <1>0, <1>3, <1>4, CreateTypesStep DEF Create
  <2>2. TypeOK'
    BY <1>0, <1>1, <1>4, SharedTypes DEF Create
  <2> QED
    BY <2>1, <2>2 DEF AllTypes
<1>5. ASSUME NEW u \in Uploads, Cancel(u) \/ Die(u),
             UNCHANGED <<pipelineVars, statusVars>>
      PROVE  AllTypes'
  BY <1>0, <1>1, <1>3, <1>5, EndTypesStep DEF AllTypes
<1>6. ASSUME NEW u \in Uploads, PollStatus(u) PROVE AllTypes'
  BY <1>0, <1>1, <1>2, <1>6, StatusTypesStep DEF PollStatus, AllTypes
<1>7. ASSUME PipelineStep, UNCHANGED apiVars PROVE AllTypes'
  BY <1>1, <1>2, <1>3, <1>7 DEF PipelineNext, apiVars, AllTypes
<1>8. ASSUME UNCHANGED serviceVars PROVE AllTypes'
  BY <1>1, <1>2, <1>3, <1>8 DEF serviceVars, apiVars, AllTypes
<1> QED
  BY <1>4, <1>5, <1>6, <1>7, <1>8 DEF ServiceNext

LEMMA AllTypesInit == ServiceInit => AllTypes
<1> SUFFICES ASSUME ServiceInit PROVE AllTypes
  OBVIOUS
<1>1. StoreTypeOK
  BY DEF ServiceInit, StoreEmpty, StoreTypeOK, UploadStatus, Reason
<1>2. /\ msgs \in [Slots -> Job \cup {None}]
      /\ lease \in [Slots -> Workers \cup {None}]
  BY DEF ServiceInit, QueueEmpty
<1>3. /\ pc \in [Workers -> PCs]
      /\ held \in [Workers -> Slots \cup {None}]
      /\ job \in [Workers -> Job \cup {None}]
      /\ batch \in [Workers -> SUBSET Positions]
      /\ \A w \in Workers : pc[w] = "idle"
  BY DEF ServiceInit, WorkersIdle, PCs
<1>4. starts \in [Uploads -> 0 .. MaxRuns] /\ faults \in 0 .. MaxFaults
  BY PipelineAssumption DEF ServiceInit
<1>5. CreateTypes /\ StatusTypes
  BY StoreAssumption
     DEF ServiceInit, CreateTypes, StatusTypes, Running, Answers
<1> QED
  BY <1>1, <1>2, <1>3, <1>4, <1>5 DEF AllTypes, TypeOK

\* The variables of the handlers, and those of the pipeline beside them, hold
\* what the code puts there.
THEOREM ServiceTypes == ServiceSpec => []ApiTypeOK
<1>1. AllTypes /\ [ServiceNext]_serviceVars => AllTypes'
  BY AllTypesStep
<1>2. AllTypes => ApiTypeOK
  BY DEF AllTypes, CreateTypes, StatusTypes, ApiTypeOK
<1> QED
  BY AllTypesInit, <1>1, <1>2, PTL DEF ServiceSpec

(***************************************************************************)
(* Rows and blobs.                                                         *)
(***************************************************************************)

Stored(u) == {p \in Positions : <<u, p>> \in blobs}

\* Until its transaction commits an upload has no rows, and what the handler has
\* listed is in the store; the rows are what it listed.  Rows whose blobs are
\* being deleted are those of a request that has not enqueued its run.
RowInv(u) ==
    /\ \/ files[u] \subseteq Stored(u)
       \/ req[u] \in {"discarding", "refused", "gone"} /\ starts[u] = 0
    /\ req[u] \in {"reading", "recording", "discarding"} => starts[u] = 0
    /\ req[u] \in {"reading", "recording"}
          => files[u] = {} /\ Listed(u) \subseteq Stored(u)

\* Everything an unrecorded request has stored is on its list, or among what it
\* will delete, unless its context is cancelled.
LeakInv(u) ==
    /\ req[u] \in {"reading", "recording"} => Stored(u) \subseteq Listed(u)
    /\ req[u] \in {"discarding", "refused"} => files[u] = {}
    /\ req[u] = "discarding" => dead[u] \/ Stored(u) \subseteq trash[u]
    /\ req[u] = "refused" => dead[u] \/ Stored(u) = {}

\* What has to be known for the clean-up to leave nothing.
Tidy == {"db_unconfirmed", "blob_unconfirmed", "cleanup_error"}
           \cap ApiFaults = {}

\* What a step of another upload's request, or of the pipeline, leaves of u.
Untouched(u) ==
    /\ files'[u] = files[u] /\ req'[u] = req[u] /\ read'[u] = read[u]
    /\ trash'[u] = trash[u] /\ dead'[u] = dead[u] /\ Stored(u)' = Stored(u)
    /\ starts'[u] = starts[u]

LEMMA UntouchedKeeps ==
    ASSUME NEW u \in Uploads, Untouched(u)
    PROVE  (RowInv(u) => RowInv(u)') /\ (LeakInv(u) => LeakInv(u)')
<1>1. Listed(u)' = Listed(u)
  BY DEF Untouched, Listed
<1> QED
  BY <1>1 DEF Untouched, RowInv, LeakInv

\* The blob store forgets nothing of one upload when it writes another's.
LEMMA StoredElsewhere ==
    ASSUME NEW u \in Uploads, NEW v \in Uploads \ {u}, NEW p,
           PutBlob(<<v, p>>) \/ RemoveBlob(<<v, p>>) \/ UNCHANGED blobs
    PROVE  Stored(u)' = Stored(u)
<1>1. ASSUME NEW q \in Positions
      PROVE  (<<u, q>> \in blobs') = (<<u, q>> \in blobs)
  BY DEF PutBlob, RemoveBlob
<1> QED
  BY <1>1 DEF Stored

LEMMA FilesKept ==
    ASSUME TypeOK, PipelineStep \/ (\E u \in Uploads : Enqueue(u))
                                \/ UNCHANGED pipelineVars
    PROVE  files' = files
<1>1. [PipelineNext]_pipelineVars
  BY DEF PipelineNext
<1> QED
  BY <1>1, OCRGrows

LEMMA LocalFiles ==
    ASSUME NEW u \in Uploads, CreateLocal(u), UNCHANGED pipelineVars
    PROVE  files' = files
BY DEF pipelineVars, storeVars

\* What the handler's own transactions make of a status.
LEMMA HandlerWrites ==
    ASSUME AllTypes, NEW u \in Uploads, NEW v \in Uploads, Create(u)
    PROVE  /\ v # u => status'[v] = status[v] /\ starts'[v] = starts[v]
           /\ ~ EnqueueUpload(u) => starts' = starts /\ UNCHANGED taskqVars
                                    /\ UNCHANGED workerVars
<1>0. TypeOK /\ StoreTypeOK /\ starts \in [Uploads -> 0 .. MaxRuns]
  BY DEF AllTypes, TypeOK
<1>1. CASE Record(u) /\ UNCHANGED <<taskqVars, workerVars, starts, faults>>
  BY <1>0, <1>1 DEF Record, CreateUploadWithFiles, storeVars, StoreTypeOK
<1>2. CASE MarkUnqueued(u) /\ UNCHANGED <<taskqVars, workerVars, starts, faults>>
  BY <1>0, <1>2 DEF MarkUnqueued, SetUploadStatus, storeVars, StoreTypeOK
<1>3. CASE EnqueueUpload(u)
  BY <1>0, <1>3 DEF EnqueueUpload, Enqueue, pipelineVars, storeVars
<1>4. CASE UNCHANGED pipelineVars
  BY <1>4 DEF pipelineVars, storeVars
<1> QED
  BY <1>1, <1>2, <1>3, <1>4 DEF Create, CreateShared

\* Only create starts runs.
LEMMA StartsKept ==
    ASSUME TypeOK, PipelineStep \/ UNCHANGED pipelineVars
    PROVE  starts' = starts
<1>1. ASSUME NEW w \in Workers, StepAction(w) PROVE starts' = starts
  BY <1>1, StepFrame DEF StepKeeps
<1>2. ASSUME NEW w \in Workers, SagaAction(w) PROVE starts' = starts
  BY <1>2, SagaFrame
<1>3. ASSUME NEW w \in Workers, Dequeue(w) \/ Crash(w) \/ Stall(w)
      PROVE  starts' = starts
  BY <1>3 DEF Dequeue, Crash, Stall
<1> QED
  BY <1>1, <1>2, <1>3 DEF PipelineStep, Work, pipelineVars

\* A step of u's request touches nothing of v's.
LEMMA CreateElsewhere ==
    ASSUME AllTypes, NEW u \in Uploads, NEW v \in Uploads \ {u},
           Create(u) \/ ((Cancel(u) \/ Die(u)) /\ UNCHANGED pipelineVars)
    PROVE  Untouched(v)
<1>0. TypeOK /\ CreateTypes /\ StoreTypeOK
  BY DEF AllTypes, TypeOK
<1>1. files'[v] = files[v]
  <2>1. CASE Record(u)
    BY <1>0, <2>1 DEF Record, CreateUploadWithFiles, storeVars, StoreTypeOK
  <2>2. CASE MarkUnqueued(u)
    BY <1>0, <2>2 DEF MarkUnqueued, SetUploadStatus, storeVars
  <2>3. CASE EnqueueUpload(u)
    BY <1>0, <2>3, FilesKept DEF EnqueueUpload
  <2>4. CASE UNCHANGED pipelineVars
    BY <1>0, <2>4, FilesKept
  <2> QED
    BY <2>1, <2>2, <2>3, <2>4 DEF Create, CreateShared
<1>2. /\ req'[v] = req[v] /\ read'[v] = read[v]
      /\ trash'[v] = trash[v] /\ dead'[v] = dead[v]
  BY <1>0 DEF Create, CreateLocal, CreateShared, StoreBlob, RefusePart,
     RefuseStored, EndOfBody, DeleteBlob, Refuse, Record, MarkUnqueued,
     EnqueueUpload, Cancel, Die, Proceed, Discarding, CreateTypes
<1>3. \E p : PutBlob(<<u, p>>) \/ RemoveBlob(<<u, p>>) \/ UNCHANGED blobs
  BY DEF Create, CreateLocal, CreateShared, StoreBlob, RefusePart,
     RefuseStored, EndOfBody, DeleteBlob, Refuse, Record, MarkUnqueued,
     EnqueueUpload, Cancel, Die
<1>4. Stored(v)' = Stored(v)
  BY <1>3, StoredElsewhere
<1>5. starts'[v] = starts[v]
  BY <1>0, HandlerWrites, StartsKept
<1> QED
  BY <1>1, <1>2, <1>4, <1>5 DEF Untouched

LEMMA PutStores ==
    ASSUME CreateTypes, NEW u \in Uploads, NEW p \in Positions, PutBlob(<<u, p>>)
    PROVE  Stored(u)' = Stored(u) \cup {p}
BY DEF PutBlob, Stored

LEMMA RemoveUnstores ==
    ASSUME NEW u \in Uploads, NEW p \in Positions, RemoveBlob(<<u, p>>)
    PROVE  Stored(u)' = Stored(u) \ {p}
BY DEF RemoveBlob, Stored

LEMMA SameStored ==
    ASSUME NEW u, UNCHANGED blobs
    PROVE  Stored(u)' = Stored(u)
BY DEF Stored

LEMMA NextListed ==
    ASSUME CreateTypes, NEW u \in Uploads, read[u] < MaxFiles
    PROVE  1 .. (read[u] + 1) = Listed(u) \cup {read[u] + 1}
BY StoreAssumption DEF CreateTypes, Listed

\* create's steps before the transaction.
LEMMA LocalKeeps ==
    ASSUME AllTypes, NEW u \in Uploads, RowInv(u), CreateLocal(u),
           UNCHANGED pipelineVars
    PROVE  /\ RowInv(u)'
           /\ LeakInv(u) /\ Tidy => LeakInv(u)'
<1>0. TypeOK /\ CreateTypes /\ files' = files /\ starts' = starts
  BY LocalFiles, StartsKept DEF AllTypes
<1>1. CASE StoreBlob(u)
  <2>1. /\ req[u] = "reading" /\ req' = req /\ read[u] < MaxFiles
        /\ PutBlob(<<u, read[u] + 1>>) /\ read'[u] = read[u] + 1
    BY <1>0, <1>1 DEF StoreBlob, CreateTypes
  <2>2. /\ Stored(u)' = Stored(u) \cup {read[u] + 1}
        /\ Listed(u)' = Listed(u) \cup {read[u] + 1}
    BY <1>0, <2>1, PutStores, ListedFiles, NextListed DEF Listed
  <2> QED
    BY <1>0, <2>1, <2>2 DEF RowInv, LeakInv, Tidy
<1>2. CASE RefusePart(u)
  <2>1. /\ req[u] = "reading" /\ req'[u] = "discarding"
        /\ trash'[u] = Listed(u) /\ blobs' = blobs
    BY <1>0, <1>2 DEF RefusePart, Discarding, Proceed, CreateTypes
  <2> QED
    BY <1>0, <2>1, SameStored DEF RowInv, LeakInv, Tidy
<1>3. CASE RefuseStored(u)
  <2>1. /\ req[u] = "reading" /\ req'[u] = "discarding" /\ read[u] < MaxFiles
        /\ PutBlob(<<u, read[u] + 1>>)
        /\ "blob_unconfirmed" \in ApiFaults
              \/ trash'[u] = Listed(u) \cup {read[u] + 1}
    BY <1>0, <1>3 DEF RefuseStored, Discarding, Proceed, CreateTypes
  <2>2. Stored(u)' = Stored(u) \cup {read[u] + 1}
    BY <1>0, <2>1, PutStores, ListedFiles
  <2> QED
    BY <1>0, <2>1, <2>2 DEF RowInv, LeakInv, Tidy
<1>4. CASE EndOfBody(u)
  <2>1. /\ req[u] = "reading" /\ blobs' = blobs /\ read' = read
        /\ req'[u] = IF read[u] = 0 THEN "refused" ELSE "recording"
    BY <1>0, <1>4 DEF EndOfBody, Proceed, CreateTypes
  <2>2. Listed(u)' = Listed(u) /\ (read[u] = 0 => Listed(u) = {})
    BY <2>1 DEF Listed
  <2> QED
    BY <1>0, <2>1, <2>2, SameStored DEF RowInv, LeakInv, Tidy
<1>5. CASE DeleteBlob(u)
  <2>1. PICK p \in trash[u] :
           /\ trash' = [trash EXCEPT ![u] = @ \ {p}]
           /\ \/ RemoveBlob(<<u, p>>)
              \/ Fails(u, "cleanup_error") /\ UNCHANGED blobs
    BY <1>5 DEF DeleteBlob
  <2>2. /\ req[u] = "discarding" /\ req' = req /\ dead' = dead
        /\ p \in Positions /\ trash'[u] = trash[u] \ {p}
    BY <1>0, <1>5, <2>1 DEF DeleteBlob, CreateTypes
  <2>3. \/ Stored(u)' = Stored(u) \ {p}
        \/ (dead[u] \/ "cleanup_error" \in ApiFaults) /\ Stored(u)' = Stored(u)
    BY <2>1, <2>2, RemoveUnstores, SameStored DEF Fails
  <2> QED
    BY <1>0, <2>2, <2>3 DEF RowInv, LeakInv, Tidy
<1>6. CASE Refuse(u)
  <2>1. /\ req[u] = "discarding" /\ req'[u] = "refused" /\ trash[u] = {}
        /\ blobs' = blobs /\ dead' = dead
    BY <1>0, <1>6 DEF Refuse, Proceed, CreateTypes
  <2> QED
    BY <1>0, <2>1, SameStored DEF RowInv, LeakInv, Tidy
<1> QED
  BY <1>1, <1>2, <1>3, <1>4, <1>5, <1>6 DEF CreateLocal

\* The transaction records exactly the files on the list, or nothing.
LEMMA SharedKeeps ==
    ASSUME AllTypes, NEW u \in Uploads, RowInv(u), CreateShared(u)
    PROVE  RowInv(u)' /\ (LeakInv(u) /\ Tidy => LeakInv(u)')
<1>0. TypeOK /\ CreateTypes /\ StoreTypeOK
  BY DEF AllTypes, TypeOK
<1>1. CASE Record(u)
  <2>1. req[u] = "recording" /\ blobs' = blobs /\ read' = read
    BY <1>1 DEF Record, Discarding
  <2>2. Stored(u)' = Stored(u) /\ Listed(u)' = Listed(u)
    BY <2>1, SameStored DEF Listed
  <2>0. starts' = starts
    BY <1>1 DEF CreateShared, Record, EnqueueUpload
  <2>3. CASE /\ CreateUploadWithFiles(u, Listed(u))
             /\ Proceed(u, "enqueueing")
    <3>1. files'[u] = Listed(u) /\ req'[u] = "enqueueing"
      BY <1>0, <2>3 DEF CreateUploadWithFiles, Proceed, StoreTypeOK, CreateTypes
    <3> QED
      BY <2>0, <2>1, <2>2, <3>1 DEF RowInv, LeakInv
  <2>4. CASE UNCHANGED storeVars /\ Discarding(u, Listed(u))
    <3>1. /\ files' = files /\ req'[u] = "discarding"
          /\ trash'[u] = Listed(u)
      BY <1>0, <2>4 DEF storeVars, Discarding, Proceed, CreateTypes
    <3> QED
      BY <2>0, <2>1, <2>2, <3>1 DEF RowInv, LeakInv
  <2>5. CASE /\ "db_unconfirmed" \in ApiFaults
             /\ CreateUploadWithFiles(u, Listed(u))
             /\ Discarding(u, Listed(u))
    <3>1. files'[u] = Listed(u) /\ req'[u] = "discarding"
      BY <1>0, <2>5
         DEF CreateUploadWithFiles, Discarding, Proceed, StoreTypeOK, CreateTypes
    <3> QED
      BY <2>0, <2>1, <2>2, <2>5, <3>1 DEF RowInv, Tidy
  <2> QED
    BY <1>1, <2>3, <2>4, <2>5 DEF Record
<1>2. CASE MarkUnqueued(u) \/ EnqueueUpload(u)
  <2>1. /\ req[u] \in {"unqueued", "enqueueing"} /\ blobs' = blobs
        /\ req'[u] \in {"unqueued", "accepted", "unavailable"}
    BY <1>0, <1>2 DEF MarkUnqueued, EnqueueUpload, Proceed, CreateTypes
  <2>2. files' = files
    BY <1>0, <1>2, FilesKept
       DEF MarkUnqueued, EnqueueUpload, SetUploadStatus, storeVars
  <2> QED
    BY <2>1, <2>2, SameStored DEF RowInv, LeakInv
<1> QED
  BY <1>1, <1>2 DEF CreateShared

LEMMA CutKeeps ==
    ASSUME AllTypes, NEW u \in Uploads, RowInv(u), Cancel(u) \/ Die(u),
           UNCHANGED pipelineVars
    PROVE  RowInv(u)' /\ (LeakInv(u) => LeakInv(u)')
<1>0. /\ TypeOK /\ CreateTypes
      /\ files' = files /\ blobs' = blobs /\ read' = read /\ starts' = starts
  BY FilesKept, StartsKept DEF AllTypes, Cancel, Die
<1>1. Stored(u)' = Stored(u) /\ Listed(u)' = Listed(u)
  BY <1>0, SameStored DEF Listed
<1>2. \/ req'[u] = "gone"
      \/ req' = req /\ dead'[u] = TRUE
  BY <1>0 DEF Cancel, Die, CreateTypes
<1> QED
  BY <1>0, <1>1, <1>2 DEF RowInv, LeakInv

LEMMA RowsStep ==
    ASSUME AllTypes, \A u \in Uploads : RowInv(u), [ServiceNext]_serviceVars
    PROVE  /\ \A u \in Uploads : RowInv(u)'
           /\ (\A u \in Uploads : LeakInv(u)) /\ Tidy
                => \A u \in Uploads : LeakInv(u)'
<1>0. TypeOK
  BY DEF AllTypes
<1>1. ASSUME NEW u \in Uploads,
             Create(u) \/ ((Cancel(u) \/ Die(u)) /\ UNCHANGED pipelineVars)
      PROVE  /\ \A v \in Uploads : RowInv(v)'
             /\ (\A v \in Uploads : LeakInv(v)) /\ Tidy
                  => \A v \in Uploads : LeakInv(v)'
  <2>1. /\ RowInv(u)'
        /\ LeakInv(u) /\ Tidy => LeakInv(u)'
    BY <1>1, LocalKeeps, SharedKeeps, CutKeeps DEF Create
  <2>2. \A v \in Uploads \ {u} :
           (RowInv(v) => RowInv(v)') /\ (LeakInv(v) => LeakInv(v)')
    BY <1>1, CreateElsewhere, UntouchedKeeps
  <2> QED
    BY <2>1, <2>2
<1>2. ASSUME UNCHANGED createVars, files' = files, starts' = starts
      PROVE  \A u \in Uploads :
                (RowInv(u) => RowInv(u)') /\ (LeakInv(u) => LeakInv(u)')
  <2>1. \A u \in Uploads : Untouched(u)
    BY <1>2, SameStored DEF createVars, Untouched
  <2> QED
    BY <2>1, UntouchedKeeps
<1>3. CASE \/ \E u \in Uploads : PollStatus(u)
           \/ PipelineStep /\ UNCHANGED apiVars
           \/ UNCHANGED serviceVars
  <2>1. UNCHANGED createVars /\ files' = files /\ starts' = starts
    BY <1>0, <1>3, FilesKept, StartsKept DEF PollStatus, apiVars, serviceVars
  <2> QED
    BY <1>2, <2>1
<1> QED
  BY <1>1, <1>3 DEF ServiceNext

LEMMA RowsInit == ServiceInit => \A u \in Uploads : RowInv(u) /\ LeakInv(u)
<1> SUFFICES ASSUME ServiceInit, NEW u \in Uploads
             PROVE  RowInv(u) /\ LeakInv(u)
  OBVIOUS
<1>1. /\ files[u] = {} /\ req[u] = "reading" /\ read[u] = 0 /\ blobs = {}
      /\ starts[u] = 0
  BY DEF ServiceInit, StoreEmpty
<1>2. Stored(u) = {} /\ Listed(u) = {}
  BY <1>1 DEF Stored, Listed
<1> QED
  BY <1>1, <1>2 DEF RowInv, LeakInv

\* Whatever fails, is cancelled or is killed, no run is ever enqueued for an
\* upload of which a file has a row and no blob (uploads.go, create).
THEOREM RowsHaveTheirBlobs == ServiceSpec => []RowsHaveBlobs
<1> DEFINE Inv == AllTypes /\ \A u \in Uploads : RowInv(u)
<1>0. ServiceInit => Inv
  BY AllTypesInit, RowsInit
<1>1. Inv /\ [ServiceNext]_serviceVars => Inv'
  BY AllTypesStep, RowsStep
<1>2. Inv => RowsHaveBlobs
  <2>1. ASSUME NEW u \in Uploads, files[u] \subseteq Stored(u)
        PROVE  {u} \X files[u] \subseteq blobs
    BY <2>1 DEF Stored
  <2> QED
    BY <2>1 DEF RowInv, RowsHaveBlobs
<1> QED
  BY <1>0, <1>1, <1>2, PTL DEF ServiceSpec

\* A refused request leaves no rows, and no blobs unless its context was
\* cancelled, as long as calls that take effect say so and a blob can be deleted
\* (uploads.go, create and discard).
THEOREM RefusedLeavesNothing ==
    ASSUME Tidy
    PROVE  ServiceSpec => []NothingLeaked
<1> DEFINE Inv == AllTypes /\ (\A u \in Uploads : RowInv(u))
                           /\ (\A u \in Uploads : LeakInv(u))
<1>0. ServiceInit => Inv
  BY AllTypesInit, RowsInit
<1>1. Inv /\ [ServiceNext]_serviceVars => Inv'
  BY AllTypesStep, RowsStep
<1>2. Inv => NothingLeaked
  BY DEF RowInv, LeakInv, Stored, NothingLeaked
<1> QED
  BY <1>0, <1>1, <1>2, PTL DEF ServiceSpec

(***************************************************************************)
(* Requests and runs: what was answered 202 goes on, and only a request    *)
(* that was cut off leaves an upload for nobody.                           *)
(***************************************************************************)

\* Before the run is enqueued.
Unqueued == {"reading", "recording", "discarding", "refused", "enqueueing"}

\* The run is enqueued after the transaction, which records the whole request.
KeepInv(u) ==
    /\ req[u] \in Unqueued => starts[u] = 0
    /\ req[u] = "recording" => read[u] = parts[u]
    /\ req[u] \in {"enqueueing", "accepted"}
         => files[u] = 1 .. parts[u] /\ status[u] # "absent"
    /\ req[u] = "accepted" => starts[u] > 0

\* An upload without a run is one nobody has recorded, one on its way to the
\* queue, or one whose failure is recorded, unless its request was cut off.
PendInv(u) ==
    /\ req[u] \in Unqueued \ {"enqueueing"} => status[u] = "absent"
    /\ req[u] = "unavailable" => dead[u] \/ status[u] = "failed" \/ starts[u] > 0

\* What a worker can make of a status: nothing without a run, and never "absent".
LEMMA WorkerWrites ==
    ASSUME TypeOK, LeaseInv, PipelineStep, NEW u \in Uploads
    PROVE  /\ starts' = starts
           /\ status[u] # "absent" => status'[u] # "absent"
           /\ Originated /\ starts[u] = 0 => status'[u] = status[u]
<1>0. status \in [Uploads -> UploadStatus]
  BY DEF TypeOK, StoreTypeOK
<1>1. ASSUME NEW w \in Workers, StepAction(w) \/ SagaAction(w)
      PROVE  /\ pc[w] # "idle"
             /\ starts' = starts
             /\ \/ status' = status
                \/ \E s \in Status : status' = [status EXCEPT ![job[w].upload] = s]
  <2>1. CASE StepAction(w)
    BY <2>1, StepFrame
       DEF StepKeeps, StepAction, MarkProcessing, ListForOCR, ExtractOne, FinishOCR,
           ListForAnalysis, AskModel, CommitAnalysis, MarkCompleted, DeleteAnalysis,
           CallFails, Committed, SetUploadStatus, SetUploadFileOCR, ReplaceAnalysis,
           DeleteAnalysisByUpload, storeVars, Status
  <2>2. CASE SagaAction(w)
    BY <2>2, SagaFrame, SagaWrites DEF SetUploadStatus, storeVars, Status
  <2> QED
    BY <1>1, <2>1, <2>2
<1>2. ASSUME NEW w \in Workers, StepAction(w) \/ SagaAction(w)
      PROVE  /\ status[u] # "absent" => status'[u] # "absent"
             /\ Originated /\ starts[u] = 0 => status'[u] = status[u]
  <2>1. /\ held[w] \in Slots /\ job[w] \in Job
        /\ msgs[held[w]] = job[w] /\ job[w].upload \in Uploads
    BY <1>1, <1>2 DEF LeaseInv, TypeOK, Job
  <2>2. Originated => starts[job[w].upload] > 0
    BY <2>1, JobAssumption DEF Originated, Queued
  <2>3. Originated /\ starts[u] = 0 => job[w].upload # u
    BY <2>2
  <2> QED
    BY <1>0, <1>1, <1>2, <2>1, <2>3 DEF Status
<1>3. ASSUME NEW w \in Workers, Dequeue(w) \/ Crash(w) \/ Stall(w)
      PROVE  starts' = starts /\ status' = status
  BY <1>3 DEF Dequeue, Crash, Stall, storeVars
<1> QED
  BY <1>1, <1>2, <1>3 DEF PipelineStep, Work

\* A step of u's request keeps u's own invariants.
LEMMA CreateKeeps ==
    ASSUME AllTypes, NEW u \in Uploads, KeepInv(u), Create(u)
    PROVE  /\ KeepInv(u)'
           /\ PendInv(u) /\ "unrecorded" \notin Faults
              /\ "db_unconfirmed" \notin ApiFaults => PendInv(u)'
<1>0. /\ CreateTypes /\ StoreTypeOK /\ TypeOK
      /\ starts \in [Uploads -> 0 .. MaxRuns] /\ MaxRuns \in Nat
  BY PipelineAssumption DEF AllTypes, TypeOK
<1>1. CASE CreateLocal(u) /\ UNCHANGED pipelineVars
  <2>1. UNCHANGED <<status, starts, files>>
    BY <1>1 DEF pipelineVars, storeVars
  <2>2. /\ req[u] \in {"reading", "discarding"} /\ parts' = parts
        /\ req'[u] \in {"reading", "recording", "discarding", "refused"}
        /\ req'[u] = "recording" => read'[u] = parts[u]
    BY <1>0, <1>1 DEF CreateLocal, StoreBlob, RefusePart, RefuseStored, EndOfBody,
       DeleteBlob, Refuse, Proceed, Discarding, CreateTypes
  <2> QED
    BY <2>1, <2>2 DEF KeepInv, PendInv, Unqueued
<1>2. CASE Record(u) /\ UNCHANGED <<taskqVars, workerVars, starts, faults>>
  <2>1. req[u] = "recording" /\ parts' = parts
    BY <1>2 DEF Record, Proceed, Discarding
  <2>2. CASE CreateUploadWithFiles(u, Listed(u)) /\ Proceed(u, "enqueueing")
    <3>1. /\ req'[u] = "enqueueing" /\ status'[u] = "pending"
          /\ files'[u] = 1 .. read[u]
      BY <1>0, <2>2 DEF CreateUploadWithFiles, Proceed, Listed, StoreTypeOK,
         CreateTypes
    <3> QED
      BY <1>2, <2>1, <3>1 DEF KeepInv, PendInv, Unqueued
  <2>3. CASE Discarding(u, Listed(u))
             /\ (UNCHANGED storeVars \/ "db_unconfirmed" \in ApiFaults)
    <3>1. req'[u] = "discarding"
      BY <1>0, <2>3 DEF Discarding, Proceed, CreateTypes
    <3> QED
      BY <1>2, <2>1, <2>3, <3>1 DEF KeepInv, PendInv, Unqueued, storeVars
  <2> QED
    BY <1>2, <2>2, <2>3 DEF Record
<1>3. CASE MarkUnqueued(u) /\ UNCHANGED <<taskqVars, workerVars, starts, faults>>
  <2>1. req'[u] = "unavailable" /\ dead' = dead
    BY <1>0, <1>3 DEF MarkUnqueued, Proceed, CreateTypes
  <2>2. dead[u] \/ "unrecorded" \in Faults \/ status'[u] = "failed"
    BY <1>0, <1>3 DEF MarkUnqueued, SetUploadStatus, StoreTypeOK
  <2> QED
    BY <2>1, <2>2 DEF KeepInv, PendInv, Unqueued
<1>4. CASE EnqueueUpload(u)
  <2>1. /\ req[u] = "enqueueing" /\ parts' = parts
        /\ \/ req'[u] = "accepted" /\ Enqueue(u)
           \/ req'[u] = "unqueued" /\ (Enqueue(u) \/ UNCHANGED pipelineVars)
    BY <1>0, <1>4 DEF EnqueueUpload, Proceed, CreateTypes
  <2>2. Enqueue(u) => starts'[u] > 0 /\ UNCHANGED <<files, status>>
    BY <1>0 DEF Enqueue, storeVars
  <2>3. UNCHANGED pipelineVars => UNCHANGED <<files, status>>
    BY DEF pipelineVars, storeVars
  <2> QED
    BY <2>1, <2>2, <2>3 DEF KeepInv, PendInv, Unqueued
<1> QED
  BY <1>1, <1>2, <1>3, <1>4 DEF Create, CreateShared

\* What a step leaves alone of an upload's request and run.
LEMMA ElsewhereKeeps ==
    ASSUME NEW u \in Uploads, UNCHANGED parts, Untouched(u),
           status'[u] = status[u], starts'[u] = starts[u]
    PROVE  (KeepInv(u) => KeepInv(u)') /\ (PendInv(u) => PendInv(u)')
BY DEF Untouched, KeepInv, PendInv

\* A worker's step: it settles, or goes on with, runs that were enqueued.
LEMMA WorkKeeps ==
    ASSUME AllTypes, LeaseInv, NEW u \in Uploads, PipelineStep, UNCHANGED apiVars
    PROVE  /\ KeepInv(u) => KeepInv(u)'
           /\ KeepInv(u) /\ PendInv(u) /\ Originated => PendInv(u)'
<1>1. TypeOK /\ starts \in [Uploads -> 0 .. MaxRuns] /\ MaxRuns \in Nat
  BY PipelineAssumption DEF AllTypes, TypeOK
<1>2. /\ starts' = starts
      /\ status[u] # "absent" => status'[u] # "absent"
      /\ Originated /\ starts[u] = 0 => status'[u] = status[u]
  BY <1>1, WorkerWrites
<1>3. files' = files /\ UNCHANGED <<parts, req, read, dead>>
  BY <1>1, FilesKept DEF apiVars, createVars
<1>4. starts[u] = 0 \/ starts[u] > 0
  BY <1>1
<1> QED
  BY <1>2, <1>3, <1>4 DEF KeepInv, PendInv, Unqueued

LEMMA CutLeaves ==
    ASSUME AllTypes, NEW u \in Uploads, Cancel(u) \/ Die(u),
           UNCHANGED pipelineVars
    PROVE  (KeepInv(u) => KeepInv(u)') /\ (PendInv(u) => PendInv(u)')
<1>1. UNCHANGED <<files, status, starts, parts, read>>
  BY DEF pipelineVars, storeVars, Cancel, Die
<1>2. \/ req'[u] = "gone"
      \/ req' = req /\ dead'[u] = TRUE
  BY DEF Cancel, Die, AllTypes, CreateTypes
<1> QED
  BY <1>1, <1>2 DEF KeepInv, PendInv, Unqueued

\* Requests and runs, whatever is written.
RunsInv ==
    /\ AllTypes
    /\ LeaseInv
    /\ Originated
    /\ \A u \in Uploads : KeepInv(u)

\* What the rest of the composition does to an upload's request.
LEMMA RequestMoves ==
    ASSUME RunsInv, [ServiceNext]_serviceVars
    PROVE  \/ \E u \in Uploads :
                 /\ Create(u)
                 /\ \A v \in Uploads \ {u} :
                       (KeepInv(v) => KeepInv(v)') /\ (PendInv(v) => PendInv(v)')
           \/ /\ PipelineStep /\ UNCHANGED apiVars
              /\ \A v \in Uploads : KeepInv(v)' /\ (PendInv(v) => PendInv(v)')
           \/ /\ UNCHANGED pipelineVars
              /\ \A v \in Uploads :
                    (KeepInv(v) => KeepInv(v)') /\ (PendInv(v) => PendInv(v)')
<1>0. /\ AllTypes /\ LeaseInv /\ Originated /\ \A u \in Uploads : KeepInv(u)
  BY DEF RunsInv
<1>1. ASSUME NEW u \in Uploads, Create(u), NEW v \in Uploads \ {u}
      PROVE  (KeepInv(v) => KeepInv(v)') /\ (PendInv(v) => PendInv(v)')
  <2>1. parts' = parts
    BY <1>1 DEF Create, CreateLocal, CreateShared, StoreBlob, RefusePart,
       RefuseStored, EndOfBody, DeleteBlob, Refuse, Record, MarkUnqueued,
       EnqueueUpload, Proceed, Discarding
  <2>2. Untouched(v) /\ status'[v] = status[v] /\ starts'[v] = starts[v]
    BY <1>0, <1>1, CreateElsewhere, HandlerWrites
  <2> QED
    BY <2>1, <2>2, ElsewhereKeeps
<1>2. ASSUME NEW u \in Uploads, Cancel(u) \/ Die(u), UNCHANGED pipelineVars,
             NEW v \in Uploads
      PROVE  (KeepInv(v) => KeepInv(v)') /\ (PendInv(v) => PendInv(v)')
  <2>1. CASE v = u
    BY <1>0, <1>2, <2>1, CutLeaves
  <2>2. CASE v # u
    <3>1. /\ Untouched(v) /\ parts' = parts
          /\ status'[v] = status[v] /\ starts'[v] = starts[v]
      BY <1>0, <1>2, <2>2, CreateElsewhere DEF Cancel, Die, pipelineVars, storeVars
    <3> QED
      BY <3>1, ElsewhereKeeps
  <2> QED
    BY <2>1, <2>2
<1>3. ASSUME UNCHANGED <<pipelineVars, createVars>>, NEW v \in Uploads
      PROVE  (KeepInv(v) => KeepInv(v)') /\ (PendInv(v) => PendInv(v)')
  BY <1>3 DEF pipelineVars, storeVars, createVars, KeepInv, PendInv
<1>4. CASE (\E u \in Uploads : PollStatus(u)) \/ UNCHANGED serviceVars
  <2>1. UNCHANGED <<pipelineVars, createVars>>
    BY <1>4 DEF PollStatus, serviceVars, apiVars
  <2> QED
    BY <1>3, <2>1
<1>5. CASE PipelineStep /\ UNCHANGED apiVars
  BY <1>0, <1>5, WorkKeeps
<1>6. CASE \E u \in Uploads : Create(u)
  BY <1>1, <1>6
<1>7. CASE \E u \in Uploads :
              (Cancel(u) \/ Die(u)) /\ UNCHANGED <<pipelineVars, statusVars>>
  BY <1>2, <1>7
<1> QED
  BY <1>4, <1>5, <1>6, <1>7 DEF ServiceNext

\* A transaction of create's is one of the pipeline's, or leaves its queue alone.
LEMMA HandlerQueue ==
    ASSUME AllTypes, NEW u \in Uploads, Create(u)
    PROVE  \/ Enqueue(u)
           \/ UNCHANGED <<taskqVars, workerVars, starts>>
BY HandlerWrites DEF EnqueueUpload, pipelineVars

LEMMA RunsStep ==
    ASSUME "stall" \notin Faults, RunsInv, [ServiceNext]_serviceVars
    PROVE  RunsInv'
<1>0. /\ AllTypes /\ AllTypes' /\ TypeOK /\ LeaseInv /\ Originated
      /\ \A u \in Uploads : KeepInv(u)
  BY AllTypesStep DEF RunsInv, AllTypes
<1>1. ASSUME PipelineStep \/ (\E u \in Uploads : Enqueue(u))
                          \/ UNCHANGED pipelineVars
      PROVE  LeaseInv' /\ Originated'
  <2>1. [PipelineNext]_pipelineVars
    BY <1>1 DEF PipelineNext
  <2> QED
    BY <1>0, <1>1, <2>1, LeaseStep, OriginatedStep
<1>2. ASSUME NEW u \in Uploads, Create(u) PROVE LeaseInv' /\ Originated' /\ KeepInv(u)'
  <2>1. CASE Enqueue(u)
    BY <1>0, <1>1, <1>2, <2>1, CreateKeeps
  <2>2. CASE UNCHANGED <<taskqVars, workerVars, starts>>
    <3>1. LeaseInv' /\ Originated'
      BY <1>0, <2>2 DEF LeaseInv, Originated, Queued, taskqVars, workerVars
    <3> QED
      BY <1>0, <1>2, <3>1, CreateKeeps
  <2> QED
    BY <1>0, <1>2, <2>1, <2>2, HandlerQueue
<1> QED
  BY <1>0, <1>1, <1>2, RequestMoves DEF RunsInv

\* A transaction of create's takes no carrier away: it makes an upload pending
\* only before the run is enqueued.
LEMMA HandlerCarries ==
    ASSUME RunsInv, CarrierInv, NEW u \in Uploads, Create(u), ~ EnqueueUpload(u)
    PROVE  CarrierInv'
<1>0. AllTypes /\ CarrierInv /\ KeepInv(u) /\ TypeOK /\ StoreTypeOK
  BY DEF RunsInv, AllTypes, TypeOK
<1>1. UNCHANGED <<starts, msgs, lease, pc, held, job>>
  BY <1>0, HandlerWrites DEF taskqVars, workerVars
<1>2. LeaseInv'
  BY <1>0, <1>1 DEF CarrierInv, LeaseInv
<1>3. \A v \in Uploads, m \in Slots : Carries(m, v) => Carries(m, v)'
  BY <1>1 DEF Carries, Queued, Spent, At
<1>4. ASSUME NEW v \in Uploads, starts'[v] > 0,
             status'[v] \in {"pending", "processing"}
      PROVE  status[v] \in {"pending", "processing"}
  <2>1. CASE v # u
    BY <1>0, <1>4, <2>1, HandlerWrites
  <2>2. CASE v = u
    <3>1. ~ Record(u)
      <4> SUFFICES ASSUME Record(u) PROVE FALSE
        OBVIOUS
      <4>1. req[u] = "recording" /\ starts[u] = 0
        BY <1>0 DEF Record, KeepInv, Unqueued
      <4> QED
        BY <1>1, <1>4, <2>2, <4>1
    <3>2. MarkUnqueued(u) \/ UNCHANGED pipelineVars
      BY <3>1 DEF Create, CreateShared
    <3> QED
      BY <1>0, <1>4, <2>2, <3>2
         DEF MarkUnqueued, SetUploadStatus, StoreTypeOK, pipelineVars, storeVars
  <2> QED
    BY <2>1, <2>2
<1> QED
  BY <1>0, <1>1, <1>2, <1>3, <1>4 DEF CarrierInv

\* The carriers, and how the requests that were not cut off end.
LEMMA RequestStep ==
    ASSUME "stall" \notin Faults, "unrecorded" \notin Faults,
           RunsInv, CarrierInv, [ServiceNext]_serviceVars
    PROVE  /\ CarrierInv'
           /\ (\A u \in Uploads : PendInv(u)) /\ "db_unconfirmed" \notin ApiFaults
                => \A u \in Uploads : PendInv(u)'
<1>0. AllTypes /\ TypeOK /\ \A u \in Uploads : KeepInv(u)
  BY DEF RunsInv, AllTypes
<1>1. ASSUME PipelineStep \/ (\E u \in Uploads : Enqueue(u))
                          \/ UNCHANGED pipelineVars
      PROVE  CarrierInv'
  BY <1>0, <1>1, CarrierStep DEF PipelineNext
<1>2. ASSUME NEW u \in Uploads, Create(u)
      PROVE  /\ CarrierInv'
             /\ PendInv(u) /\ "db_unconfirmed" \notin ApiFaults => PendInv(u)'
  <2>1. CarrierInv'
    BY <1>1, <1>2, HandlerCarries DEF EnqueueUpload
  <2> QED
    BY <1>0, <1>2, <2>1, CreateKeeps
<1> QED
  BY <1>1, <1>2, RequestMoves

LEMMA RequestInit ==
    ServiceInit => RunsInv /\ CarrierInv /\ \A u \in Uploads : PendInv(u)
<1> SUFFICES ASSUME ServiceInit
             PROVE  RunsInv /\ CarrierInv /\ \A u \in Uploads : PendInv(u)
  OBVIOUS
<1>1. /\ \A u \in Uploads : /\ starts[u] = 0 /\ req[u] = "reading"
                            /\ status[u] = "absent"
      /\ \A m \in Slots : msgs[m] = None /\ lease[m] = None
      /\ \A w \in Workers : pc[w] = "idle"
  BY DEF ServiceInit, StoreEmpty, QueueEmpty, WorkersIdle
<1> QED
  BY <1>1, AllTypesInit DEF RunsInv, CarrierInv, LeaseInv, Originated, Queued,
     KeepInv, PendInv

\* A 202 is kept: the request was recorded as a whole, and its run is going on or
\* has ended in a terminal status, whatever fails, is cancelled or is killed, as
\* long as no hop outlives its lease and the failed status can be written
\* (uploads.go, create; pipeline.go, markFailed).
THEOREM AcceptedIsKeptCorrect ==
    ASSUME "stall" \notin Faults, "unrecorded" \notin Faults
    PROVE  ServiceSpec => []AcceptedIsKept
<1> DEFINE Inv == RunsInv /\ CarrierInv
<1>1. Inv /\ [ServiceNext]_serviceVars => Inv'
  BY RunsStep, RequestStep
<1>2. ServiceInit => Inv
  BY RequestInit
<1>3. Inv => AcceptedIsKept
  <2> SUFFICES ASSUME Inv, NEW u \in Uploads, req[u] = "accepted"
               PROVE  files[u] = 1 .. parts[u] /\ (Settled(u) \/ WorkRemains(u))
    BY DEF AcceptedIsKept
  <2>1. /\ files[u] = 1 .. parts[u] /\ starts[u] > 0 /\ status[u] \in Status
    BY DEF RunsInv, KeepInv, AllTypes, TypeOK, StoreTypeOK, UploadStatus
  <2>2. status[u] \in {"pending", "processing"} => WorkRemains(u)
    BY <2>1 DEF CarrierInv, Carries, WorkRemains
  <2> QED
    BY <2>1, <2>2 DEF Settled, Status
<1> QED
  BY <1>1, <1>2, <1>3, PTL DEF ServiceSpec

\* However create ends, nobody's upload is left pending unless the request was
\* cancelled or its process killed, under the same conditions and as long as a
\* transaction that commits says so (uploads.go, create and markUnqueued).
THEOREM OnlyCutCorrect ==
    ASSUME "stall" \notin Faults, "unrecorded" \notin Faults,
           "db_unconfirmed" \notin ApiFaults
    PROVE  ServiceSpec => []OnlyCutLeavesPending
<1> DEFINE Inv == RunsInv /\ CarrierInv /\ \A u \in Uploads : PendInv(u)
<1>1. Inv /\ [ServiceNext]_serviceVars => Inv'
  BY RunsStep, RequestStep
<1>2. ServiceInit => Inv
  BY RequestInit
<1>3. Inv => OnlyCutLeavesPending
  <2> SUFFICES ASSUME Inv, NEW u \in Uploads, LeftPending(u)
               PROVE  dead[u] \/ req[u] = "gone"
    BY DEF OnlyCutLeavesPending
  <2>1. ~ starts[u] > 0
    BY DEF LeftPending, CarrierInv, Carries, WorkRemains
  <2>2. req[u] \in {"unavailable", "gone"}
    BY <2>1 DEF LeftPending, RunsInv, KeepInv, PendInv, Answered, Unqueued
  <2> QED
    BY <2>1, <2>2 DEF LeftPending, PendInv
<1> QED
  BY <1>1, <1>2, <1>3, PTL DEF ServiceSpec

\* An upload is recorded as never queued only if no run of it was enqueued, and
\* none will be.
UnqueuedInv(u) ==
    /\ req[u] = "unqueued" => starts[u] = 0
    /\ reason[u] = "not queued" => starts[u] = 0 /\ req[u] = "unavailable"

\* The request stays where it is, or goes on, but not to a failed enqueue.
NotUnqueued(u) ==
    \/ req'[u] = req[u]
    \/ req[u] \in Running /\ req'[u] # "unqueued"

\* Only the API gives that reason.
LEMMA WorkerReasons ==
    ASSUME TypeOK, PipelineStep, NEW u \in Uploads, reason'[u] = "not queued"
    PROVE  reason[u] = "not queued"
<1>0. reason \in [Uploads -> Reason]
  BY DEF TypeOK, StoreTypeOK
<1>1. ASSUME NEW w \in Workers, Work(w) \/ Crash(w) \/ Stall(w)
      PROVE  \/ reason' = reason
             \/ \E v, r : /\ r # "not queued"
                          /\ reason' = [reason EXCEPT ![v] = r]
  <2>1. CASE StepAction(w)
    BY <2>1
       DEF StepAction, MarkProcessing, ListForOCR, ExtractOne, FinishOCR,
           ListForAnalysis, AskModel, CommitAnalysis, MarkCompleted, DeleteAnalysis,
           CallFails, Committed, SetUploadStatus, SetUploadFileOCR, ReplaceAnalysis,
           DeleteAnalysisByUpload, storeVars
  <2>2. CASE OnFailed(w)
    <3>1. job[w].hop \in Hops
      BY <2>2 DEF OnFailed, TypeOK, Job
    <3>2. FailedStep(job[w].hop) # "not queued"
      BY <3>1 DEF FailedStep, Hops, Steps
    <3> QED
      BY <2>2, <3>2 DEF OnFailed, MarkFailed, SetUploadStatus, storeVars
  <2>3. CASE OnCompensationFailed(w)
    BY <2>3 DEF OnCompensationFailed, MarkFailed, SetUploadStatus, storeVars
  <2>4. CASE SendNext(w) \/ RunCompleted(w) \/ RunUnwound(w) \/ Retry(w)
             \/ Pivot(w) \/ Ack(w) \/ Dequeue(w) \/ Crash(w) \/ Stall(w)
    BY <2>4 DEF SendNext, RunCompleted, RunUnwound, Retry, Pivot, Ack, Dequeue,
       Crash, Stall, storeVars
  <2> QED
    BY <1>1, <2>1, <2>2, <2>3, <2>4 DEF Work, SagaAction
<1> QED
  BY <1>0, <1>1 DEF PipelineStep

LEMMA UnqueuedStep ==
    ASSUME "queue_unconfirmed" \notin ApiFaults, AllTypes,
           \A u \in Uploads : KeepInv(u) /\ UnqueuedInv(u), [ServiceNext]_serviceVars
    PROVE  \A u \in Uploads : KeepInv(u)' => UnqueuedInv(u)'
<1>0. /\ TypeOK /\ CreateTypes /\ StoreTypeOK
      /\ starts \in [Uploads -> 0 .. MaxRuns]
  BY DEF AllTypes, TypeOK
<1> SUFFICES ASSUME NEW u \in Uploads PROVE UnqueuedInv(u)'
  OBVIOUS
<1>1. KeepInv(u) /\ UnqueuedInv(u)
  OBVIOUS
<1>2. CASE UNCHANGED <<starts, reason>>
           /\ NotUnqueued(u)
  BY <1>1, <1>2 DEF UnqueuedInv, NotUnqueued, Running
<1>3. ASSUME NEW v \in Uploads, Create(v) PROVE UnqueuedInv(u)'
  <2>1. CASE CreateLocal(v) /\ UNCHANGED pipelineVars
    <3>1. NotUnqueued(u)
      BY <1>0, <2>1 DEF CreateLocal, StoreBlob, RefusePart, RefuseStored, EndOfBody,
         DeleteBlob, Refuse, Proceed, Discarding, CreateTypes, Running, NotUnqueued
    <3> QED
      BY <1>2, <2>1, <3>1 DEF pipelineVars, storeVars
  <2>2. CASE Record(v) /\ UNCHANGED <<taskqVars, workerVars, starts, faults>>
    <3>1. NotUnqueued(u)
      BY <1>0, <2>2 DEF Record, Proceed, Discarding, CreateTypes, Running, NotUnqueued
    <3> QED
      BY <1>2, <2>2, <3>1 DEF Record, CreateUploadWithFiles, storeVars
  <2>3. CASE MarkUnqueued(v) /\ UNCHANGED <<taskqVars, workerVars, starts, faults>>
    <3>1. /\ req[v] = "unqueued" /\ req' = [req EXCEPT ![v] = "unavailable"]
          /\ \A x \in Uploads \ {v} : reason'[x] = reason[x]
      BY <1>0, <2>3 DEF MarkUnqueued, Proceed, SetUploadStatus, storeVars,
         StoreTypeOK
    <3> QED
      BY <1>0, <1>1, <2>3, <3>1 DEF UnqueuedInv, CreateTypes
  <2>4. CASE EnqueueUpload(v)
    <3>1. /\ req[v] = "enqueueing" /\ reason' = reason
          /\ \A x \in Uploads \ {v} : starts'[x] = starts[x] /\ req'[x] = req[x]
          /\ \/ req'[v] = "accepted"
             \/ req'[v] = "unqueued" /\ starts'[v] = starts[v]
      BY <1>0, <2>4 DEF EnqueueUpload, Proceed, Enqueue, pipelineVars, storeVars,
         CreateTypes
    <3>2. starts[v] = 0 /\ reason[v] # "not queued"
      BY <3>1 DEF KeepInv, UnqueuedInv, Unqueued
    <3> QED
      BY <1>1, <3>1, <3>2 DEF UnqueuedInv
  <2> QED
    BY <1>3, <2>1, <2>2, <2>3, <2>4 DEF Create, CreateShared
<1>4. ASSUME NEW v \in Uploads, Cancel(v) \/ Die(v), UNCHANGED pipelineVars
      PROVE  UnqueuedInv(u)'
  <2>1. NotUnqueued(u)
    BY <1>0, <1>4 DEF Cancel, Die, CreateTypes, NotUnqueued
  <2> QED
    BY <1>2, <1>4, <2>1 DEF pipelineVars, storeVars
<1>5. CASE (\E v \in Uploads : PollStatus(v)) \/ UNCHANGED serviceVars
  <2>1. UNCHANGED <<pipelineVars, createVars>>
    BY <1>5 DEF PollStatus, serviceVars, apiVars
  <2> QED
    BY <1>2, <2>1 DEF pipelineVars, storeVars, createVars, NotUnqueued
<1>6. CASE PipelineStep /\ UNCHANGED apiVars
  <2>1. starts' = starts /\ req' = req
    <3>1. ASSUME NEW w \in Workers, Work(w) \/ Crash(w) \/ Stall(w)
          PROVE  starts' = starts
      BY <1>0, <3>1, StepFrame, SagaFrame
         DEF Work, Dequeue, Crash, Stall, StepKeeps
    <3> QED
      BY <1>6, <3>1 DEF PipelineStep, apiVars, createVars
  <2>2. reason'[u] = "not queued" => reason[u] = "not queued"
    BY <1>0, <1>6, WorkerReasons
  <2> QED
    BY <1>1, <2>1, <2>2 DEF UnqueuedInv
<1> QED
  BY <1>3, <1>4, <1>5, <1>6 DEF ServiceNext

\* An upload recorded as one that "will never be processed" never is, as long as
\* no hop outlives its lease and an enqueue that takes effect says so (uploads.go,
\* markUnqueued).
THEOREM UnqueuedCorrect ==
    ASSUME "stall" \notin Faults, "queue_unconfirmed" \notin ApiFaults
    PROVE  ServiceSpec => []UnqueuedIsNeverProcessed
<1> DEFINE Inv == RunsInv /\ \A u \in Uploads : UnqueuedInv(u)
<1>1. Inv /\ [ServiceNext]_serviceVars => Inv'
  BY RunsStep, UnqueuedStep DEF RunsInv
<1>2. ServiceInit => Inv
  BY RequestInit DEF ServiceInit, StoreEmpty, UnqueuedInv
<1>3. Inv => UnqueuedIsNeverProcessed
  BY NoRunNoWork DEF RunsInv, AllTypes, UnqueuedInv, UnqueuedIsNeverProcessed
<1> QED
  BY <1>1, <1>2, <1>3, PTL DEF ServiceSpec

(***************************************************************************)
(* What a client is told: the service implements UploadLifecycle too, and  *)
(* its answers are those of that life.                                     *)
(***************************************************************************)

\* An upload on its way to the queue, or back from it, is pending and has no run.
WaitInv(u) == req[u] \in {"enqueueing", "unqueued"} => status[u] = "pending"

\* What the status endpoint has read, or answered, is still so.
SeenInv(u) ==
    /\ looking[u] => status[u] = "completed"
    /\ seen[u] = "completed" => status[u] = "completed"
    /\ seen[u] = "failed" => status[u] = "failed"
    /\ seen[u] # "completed, no analysis"

Served(u) == UnqueuedInv(u) /\ WaitInv(u) /\ SeenInv(u)

ServiceInv == RunsInv /\ LifeInv /\ \A u \in Uploads : Served(u)

\* A settled upload stays as it is.
Final(u) == status[u] \in {"completed", "failed"} => status'[u] = status[u]

\* A transaction on an upload without a run says nothing about any run.
LEMMA NoRunLife ==
    ASSUME LifeInv, NEW u \in Uploads, starts[u] = 0, TypeOK',
           UNCHANGED <<taskqVars, workerVars, starts>>,
           \A v \in Uploads \ {u} : Same(v),
           HasAnalysis(u)' = HasAnalysis(u), status'[u] # "completed",
           reason'[u] # "analyze: rollback failed"
    PROVE  LifeInv' /\ UNCHANGED Lifecycle!lifecycleVars
<1>0. /\ TypeOK /\ LeaseInv /\ Originated /\ OneLive /\ StageInv
      /\ \A v \in Uploads : EndInv(v)
  BY DEF LifeInv, TokenInv
<1>1. LeaseInv' /\ Originated' /\ OneLive'
  BY <1>0 DEF LeaseInv, Originated, OneLive, Live, Queued, Place, taskqVars, workerVars
<1>2. ASSUME NEW m \in Slots, Live(m)' PROVE StageOf(m)'
  <2>1. /\ Live(m) /\ msgs' = msgs /\ Place(m)' = Place(m)
        /\ msgs[m].upload \in Uploads
    BY <1>0, <1>2 DEF Live, Queued, Place, taskqVars, workerVars, TypeOK, Job
  <2>2. msgs[m].upload # u
    BY <1>0, <2>1, NoRunNoWork DEF WorkRemains, Live
  <2> QED
    BY <1>0, <2>1, <2>2 DEF StageInv, StageOf, Same
<1>3. EndInv(u)'
  BY <1>0 DEF EndInv
<1>4. ASSUME NEW v \in Uploads \ {u} PROVE EndInv(v)'
  BY <1>0, EndKept
<1>5. LifeInv'
  BY <1>1, <1>2, <1>3, <1>4 DEF LifeInv, TokenInv, StageInv
<1>6. \A v \in Uploads : PhaseOf(v)' = PhaseOf(v) /\ HasAnalysis(v)' = HasAnalysis(v)
  <2>1. ASSUME NEW v \in Uploads \ {u}
        PROVE  PhaseOf(v)' = PhaseOf(v) /\ HasAnalysis(v)' = HasAnalysis(v)
    BY PhaseSame
  <2>2. starts'[u] = 0
    OBVIOUS
  <2>3. PhaseOf(u) = "new"
    BY <1>0, PhaseIs
  <2>4. PhaseOf(u)' = "new"
    BY Zenon, <2>2 DEF PhaseOf
  <2> QED
    BY <2>1, <2>3, <2>4
<1> QED
  BY <1>5, <1>6 DEF Lifecycle!lifecycleVars

\* What create does to the runs: nothing, a write for an upload without one, or
\* the enqueue of one.
LEMMA HandlerLife ==
    ASSUME Reported, "queue_unconfirmed" \notin ApiFaults, ServiceInv, TypeOK',
           NEW u \in Uploads, Create(u)
    PROVE  /\ LifeInv' /\ [Lifecycle!LifecycleNext]_Lifecycle!lifecycleVars
           /\ \A v \in Uploads : Final(v)
           /\ WaitInv(u)'
           /\ \A v \in Uploads \ {u} : Same(v) /\ req'[v] = req[v]
           /\ UNCHANGED statusVars
<1>0. /\ TypeOK /\ StoreTypeOK /\ CreateTypes /\ LifeInv
      /\ KeepInv(u) /\ UnqueuedInv(u) /\ WaitInv(u) /\ EndInv(u)
  BY DEF ServiceInv, Served, RunsInv, AllTypes, TypeOK, LifeInv
<1>1. UNCHANGED statusVars
  BY DEF Create
<1>2. CASE CreateLocal(u) /\ UNCHANGED pipelineVars
  <2>1. /\ \A v \in Uploads \ {u} : req'[v] = req[v]
        /\ req'[u] \notin {"enqueueing", "unqueued"}
    BY <1>0, <1>2 DEF CreateLocal, StoreBlob, RefusePart, RefuseStored, EndOfBody,
       DeleteBlob, Refuse, Proceed, Discarding, CreateTypes
  <2>2. \A v \in Uploads : Same(v) /\ Final(v)
    BY <1>2, RowsSame DEF pipelineVars, storeVars, Final, Same
  <2> QED
    BY <1>0, <1>1, <1>2, <2>1, <2>2, LifeStep, LifeRefines DEF WaitInv
<1>3. CASE Record(u) /\ UNCHANGED <<taskqVars, workerVars, starts, faults>>
  <2>1. /\ req[u] = "recording" /\ \A v \in Uploads \ {u} : req'[v] = req[v]
        /\ \/ req'[u] = "discarding"
           \/ req'[u] = "enqueueing" /\ CreateUploadWithFiles(u, Listed(u))
        /\ CreateUploadWithFiles(u, Listed(u)) \/ UNCHANGED storeVars
    BY <1>0, <1>3 DEF Record, Proceed, Discarding, CreateTypes
  <2>2. starts[u] = 0
    BY <1>0, <2>1 DEF KeepInv, Unqueued
  <2>3. CASE CreateUploadWithFiles(u, Listed(u))
    <3>1. /\ status' = [status EXCEPT ![u] = "pending"] /\ status[u] = "absent"
          /\ UNCHANGED <<reason, analyses>>
      BY <2>3 DEF CreateUploadWithFiles
    <3>2. \A v \in Uploads : HasAnalysis(v)' = HasAnalysis(v)
      BY <3>1 DEF HasAnalysis
    <3>3. /\ \A v \in Uploads \ {u} : Same(v)
          /\ status'[u] = "pending" /\ reason'[u] # "analyze: rollback failed"
          /\ \A v \in Uploads : Final(v)
      BY <1>0, <2>2, <3>1, <3>2 DEF Same, Final, StoreTypeOK, EndInv
    <3> QED
      BY <1>0, <1>1, <1>3, <2>1, <2>2, <3>2, <3>3, NoRunLife DEF WaitInv
  <2>4. CASE UNCHANGED storeVars /\ req'[u] = "discarding"
    <3>1. UNCHANGED pipelineVars
      BY <1>3, <2>4 DEF pipelineVars
    <3>2. \A v \in Uploads : Same(v) /\ Final(v)
      BY <2>4, RowsSame DEF storeVars, Final, Same
    <3> QED
      BY <1>0, <1>1, <2>1, <2>4, <3>1, <3>2, LifeStep, LifeRefines DEF WaitInv
  <2> QED
    BY <2>1, <2>3, <2>4
<1>4. CASE MarkUnqueued(u) /\ UNCHANGED <<taskqVars, workerVars, starts, faults>>
  <2>1. /\ req[u] = "unqueued" /\ req' = [req EXCEPT ![u] = "unavailable"]
        /\ SetUploadStatus(u, "failed", "not queued") \/ UNCHANGED storeVars
    BY <1>4 DEF MarkUnqueued, Proceed
  <2>2. /\ starts[u] = 0 /\ status[u] = "pending" /\ req'[u] = "unavailable"
        /\ \A v \in Uploads \ {u} : req'[v] = req[v]
    BY <1>0, <2>1 DEF UnqueuedInv, WaitInv, CreateTypes
  <2>3. CASE SetUploadStatus(u, "failed", "not queued")
    <3>1. /\ status'[u] = "failed" /\ reason'[u] = "not queued"
          /\ HasAnalysis(u)' = HasAnalysis(u) /\ \A v \in Uploads \ {u} : Same(v)
      BY <1>0, <2>3, StatusEffect DEF Status, Reason
    <3>2. \A v \in Uploads : Final(v)
      BY <2>2, <3>1 DEF Final, Same
    <3> QED
      BY <1>0, <1>1, <1>4, <2>2, <3>1, <3>2, NoRunLife DEF WaitInv
  <2>4. CASE UNCHANGED storeVars
    <3>1. UNCHANGED pipelineVars
      BY <1>4, <2>4 DEF pipelineVars
    <3>2. \A v \in Uploads : Same(v) /\ Final(v)
      BY <2>4, RowsSame DEF storeVars, Final, Same
    <3> QED
      BY <1>0, <1>1, <2>2, <3>1, <3>2, LifeStep, LifeRefines DEF WaitInv
  <2> QED
    BY <2>1, <2>3, <2>4
<1>5. CASE EnqueueUpload(u)
  <2>1. /\ req[u] = "enqueueing" /\ \A v \in Uploads \ {u} : req'[v] = req[v]
        /\ \/ Enqueue(u) /\ req'[u] = "accepted"
           \/ UNCHANGED pipelineVars /\ req'[u] = "unqueued"
    BY <1>0, <1>5 DEF EnqueueUpload, Proceed, CreateTypes
  <2>2. starts[u] = 0 /\ status[u] = "pending"
    BY <1>0, <2>1 DEF KeepInv, Unqueued, WaitInv
  <2>3. /\ \A v \in Uploads : Same(v) /\ Final(v)
    BY <2>1, RowsSame DEF Enqueue, pipelineVars, storeVars, Final, Same
  <2> QED
    BY <1>0, <1>1, <2>1, <2>2, <2>3, LifeStep, LifeRefines DEF WaitInv, Same
<1> QED
  BY <1>2, <1>3, <1>4, <1>5 DEF Create, CreateShared

\* What was read of a final status is still so.
LEMMA SeenKept ==
    ASSUME NEW u \in Uploads, SeenInv(u), Final(u), UNCHANGED statusVars
    PROVE  SeenInv(u)'
BY DEF SeenInv, Final, statusVars

\* An answer of the status endpoint: an upload read as completed has its
\* analysis when that is looked up, and a terminal answer is given again.
LEMMA AnswerEffect ==
    ASSUME StatusTypes, \A v \in Uploads : SeenInv(v) /\ EndInv(v),
           NEW u \in Uploads, PollStatus(u), StoreTypeOK
    PROVE  \A v \in Uploads :
              /\ SeenInv(v)'
              /\ seen[v] \in {"completed", "failed"} => seen'[v] = seen[v]
<1>1. UNCHANGED status
  BY DEF PollStatus, pipelineVars, storeVars
<1>2. status[u] # "completed, no analysis"
  BY DEF StoreTypeOK, UploadStatus, Status
<1>3. SUFFICES ASSUME NEW v \in Uploads
               PROVE  /\ SeenInv(v)'
                      /\ seen[v] \in {"completed", "failed"} => seen'[v] = seen[v]
  OBVIOUS
<1>4. CASE GetUpload(u)
  BY <1>1, <1>2, <1>4 DEF GetUpload, SeenInv, StatusTypes
<1>5. CASE GetAnalysisID(u)
  <2>1. status[u] = "completed" /\ HasAnalysis(u)
    BY <1>5 DEF GetAnalysisID, SeenInv, EndInv
  <2> QED
    BY <1>1, <1>5, <2>1 DEF GetAnalysisID, SeenInv, StatusTypes
<1>6. CASE StatusFails(u)
  BY <1>1, <1>6 DEF StatusFails, SeenInv, StatusTypes
<1> QED
  BY <1>4, <1>5, <1>6 DEF PollStatus

\* What the pool does to an upload: a settled one stays so, and one without a
\* run stays as it is.
LEMMA PoolFinal ==
    ASSUME Reported, LifeInv, PipelineStep, NEW v \in Uploads
    PROVE  Final(v) /\ (starts[v] = 0 => status'[v] = status[v])
<1>1. CASE \A u \in Uploads : Same(u)
  BY <1>1 DEF Same, Final
<1>2. ASSUME NEW u \in Uploads, starts[u] > 0, Progress(u)
      PROVE  Final(v) /\ (starts[v] = 0 => status'[v] = status[v])
  <2>1. starts[u] # 0
    BY <1>2
  <2>2. CASE v = u
    BY <1>2, <2>1, <2>2 DEF Progress, Advances, Turns, Same, Final
  <2>3. CASE v # u
    BY <1>2, <2>3 DEF Progress, Same, Final
  <2> QED
    BY <2>2, <2>3
<1> QED
  BY <1>1, <1>2, PoolEffect

\* Every step of the service: the life of each upload goes on as
\* UploadLifecycle allows, or stands still, and a settled upload stays so.
LEMMA ServiceLife ==
    ASSUME Reported, "queue_unconfirmed" \notin ApiFaults, ServiceInv,
           [ServiceNext]_serviceVars
    PROVE  /\ LifeInv' /\ [Lifecycle!LifecycleNext]_Lifecycle!lifecycleVars
           /\ \A u \in Uploads : Final(u) /\ WaitInv(u)'
           /\ \/ UNCHANGED statusVars
              \/ \E u \in Uploads : PollStatus(u)
<1>0. /\ AllTypes /\ LifeInv
      /\ \A u \in Uploads : KeepInv(u) /\ UnqueuedInv(u) /\ WaitInv(u)
  BY DEF ServiceInv, Served, RunsInv
<1>1. TypeOK'
  BY <1>0, AllTypesStep DEF AllTypes
<1>2. ASSUME NEW u \in Uploads, Create(u)
      PROVE  /\ LifeInv' /\ [Lifecycle!LifecycleNext]_Lifecycle!lifecycleVars
             /\ \A v \in Uploads : Final(v) /\ WaitInv(v)'
             /\ UNCHANGED statusVars
  <2>1. /\ LifeInv' /\ [Lifecycle!LifecycleNext]_Lifecycle!lifecycleVars
        /\ \A v \in Uploads : Final(v)
        /\ WaitInv(u)' /\ UNCHANGED statusVars
        /\ \A v \in Uploads \ {u} : Same(v) /\ req'[v] = req[v]
    BY <1>1, <1>2, HandlerLife
  <2>2. \A v \in Uploads \ {u} : WaitInv(v)'
    BY <1>0, <2>1 DEF WaitInv, Same
  <2> QED
    BY <2>1, <2>2
<1>3. CASE PipelineStep /\ UNCHANGED apiVars
  <2>1. UNCHANGED <<req, statusVars>>
    BY <1>3 DEF apiVars, createVars
  <2>2. ASSUME NEW v \in Uploads PROVE Final(v) /\ WaitInv(v)'
    <3>1. req[v] \in {"enqueueing", "unqueued"} => starts[v] = 0
      BY <1>0 DEF KeepInv, UnqueuedInv, Unqueued
    <3> QED
      BY <1>0, <1>3, <2>1, <3>1, PoolFinal DEF WaitInv
  <2> QED
    BY <1>0, <1>3, <2>1, <2>2, LifeStep, LifeRefines
<1>4. ASSUME UNCHANGED pipelineVars,
             \/ \E u \in Uploads : (Cancel(u) \/ Die(u)) /\ UNCHANGED statusVars
             \/ \E u \in Uploads : PollStatus(u)
             \/ UNCHANGED serviceVars
      PROVE  /\ LifeInv' /\ [Lifecycle!LifecycleNext]_Lifecycle!lifecycleVars
             /\ \A v \in Uploads : Final(v) /\ WaitInv(v)'
             /\ \/ UNCHANGED statusVars
                \/ \E u \in Uploads : PollStatus(u)
  <2>1. \A v \in Uploads : Final(v) /\ status'[v] = status[v]
    BY <1>4 DEF pipelineVars, storeVars, Final
  <2>2. \A v \in Uploads : req'[v] = req[v] \/ req'[v] = "gone"
    BY <1>0, <1>4 DEF Cancel, Die, PollStatus, serviceVars, apiVars, createVars,
       AllTypes, CreateTypes
  <2> QED
    BY <1>0, <1>4, <2>1, <2>2, LifeStep, LifeRefines DEF WaitInv, serviceVars, apiVars
<1> QED
  BY <1>2, <1>3, <1>4 DEF ServiceNext, PollStatus, serviceVars

LEMMA ServiceStep ==
    ASSUME Reported, "queue_unconfirmed" \notin ApiFaults, ServiceInv,
           [ServiceNext]_serviceVars
    PROVE  /\ ServiceInv'
           /\ [Lifecycle!LifecycleNext]_Lifecycle!lifecycleVars
           /\ \A u \in Uploads :
                 seen[u] \in {"completed", "failed"} => seen'[u] = seen[u]
<1>0. /\ RunsInv /\ AllTypes /\ StatusTypes /\ StoreTypeOK
      /\ \A u \in Uploads : /\ KeepInv(u) /\ UnqueuedInv(u) /\ SeenInv(u)
                            /\ EndInv(u)
  BY DEF ServiceInv, Served, RunsInv, AllTypes, TypeOK, LifeInv
<1>1. RunsInv' /\ \A u \in Uploads : KeepInv(u)'
  BY <1>0, RunsStep DEF Reported, RunsInv
<1>2. \A u \in Uploads : UnqueuedInv(u)'
  BY <1>0, <1>1, UnqueuedStep
<1>3. /\ LifeInv' /\ [Lifecycle!LifecycleNext]_Lifecycle!lifecycleVars
      /\ \A u \in Uploads : Final(u) /\ WaitInv(u)'
      /\ UNCHANGED statusVars \/ \E u \in Uploads : PollStatus(u)
  BY ServiceLife
<1>4. \A u \in Uploads :
         /\ SeenInv(u)'
         /\ seen[u] \in {"completed", "failed"} => seen'[u] = seen[u]
  <2>1. CASE UNCHANGED statusVars
    BY <1>0, <1>3, <2>1, SeenKept DEF statusVars
  <2>2. CASE \E u \in Uploads : PollStatus(u)
    BY <1>0, <2>2, AnswerEffect
  <2> QED
    BY <1>3, <2>1, <2>2
<1> QED
  BY <1>1, <1>2, <1>3, <1>4 DEF ServiceInv, Served
LEMMA ServiceStarts == ServiceInit => ServiceInv /\ Lifecycle!LifecycleInit
<1> SUFFICES ASSUME ServiceInit PROVE ServiceInv /\ Lifecycle!LifecycleInit
  OBVIOUS
<1>1. RunsInv /\ TypeOK
  BY RequestInit DEF RunsInv, AllTypes
<1>2. \A m \in Slots : ~ Live(m)
  BY DEF ServiceInit, QueueEmpty, Live, Queued
<1>3. \A u \in Uploads :
         /\ status[u] = "absent" /\ reason[u] = "" /\ starts[u] = 0
         /\ req[u] = "reading" /\ ~ looking[u] /\ seen[u] = "none"
         /\ HasAnalysis(u) = FALSE
  BY DEF ServiceInit, StoreEmpty, HasAnalysis
<1>4. ServiceInv
  BY <1>1, <1>2, <1>3 DEF ServiceInv, RunsInv, LifeInv, TokenInv, OneLive, StageInv,
     EndInv, Served, UnqueuedInv, WaitInv, SeenInv
<1>5. \A u \in Uploads : PhaseOf(u) = "new"
  BY <1>1, <1>3, PhaseIs
<1> QED
  BY <1>3, <1>4, <1>5 DEF Lifecycle!LifecycleInit

\* Whatever the requests and the pollers do, as long as no call of a step takes
\* effect unseen and no worker is lost, and saga.Start's answer is right.
THEOREM ServiceCorrect ==
    ASSUME Reported, "queue_unconfirmed" \notin ApiFaults
    PROVE  ServiceSpec => []ServiceInv
<1>1. ServiceInv /\ [ServiceNext]_serviceVars => ServiceInv'
  BY ServiceStep
<1> QED
  BY <1>1, ServiceStarts, PTL DEF ServiceSpec

\* The status endpoint never answers "completed" without an analysis to read
\* (uploads.go, status), although it reads the upload and the analysis in two
\* queries.
THEOREM CompletedIsServedCorrect ==
    ASSUME Reported, "queue_unconfirmed" \notin ApiFaults
    PROVE  ServiceSpec => []CompletedIsServed
<1>1. ServiceInv => CompletedIsServed
  BY DEF ServiceInv, Served, SeenInv, CompletedIsServed
<1> QED
  BY <1>1, ServiceCorrect, PTL

\* A terminal answer of the status endpoint is never taken back: no step of the
\* pipeline or of a request moves an upload out of a terminal status.
THEOREM AnswersAreFinalCorrect ==
    ASSUME Reported, "queue_unconfirmed" \notin ApiFaults
    PROVE  ServiceSpec => AnswersAreFinal
<1> DEFINE Kind == \A u \in Uploads :
                      seen[u] \in {"completed", "failed"} => seen'[u] = seen[u]
<1>1. ServiceInv /\ [ServiceNext]_serviceVars => [Kind]_serviceVars
  BY ServiceStep
<1> QED
  BY <1>1, ServiceCorrect, PTL DEF ServiceSpec, AnswersAreFinal

\* The whole service, requests and pollers included, shows each client the life
\* that UploadLifecycle allows (its safety part).
THEOREM ServiceRefined ==
    ASSUME Reported, "queue_unconfirmed" \notin ApiFaults
    PROVE  ServiceSpec => Lifecycle!LifecycleSafety
<1>1. ServiceInv /\ [ServiceNext]_serviceVars
        => [Lifecycle!LifecycleNext]_Lifecycle!lifecycleVars
  BY ServiceStep
<1> QED
  BY <1>1, ServiceStarts, ServiceCorrect, PTL
     DEF ServiceSpec, Lifecycle!LifecycleSafety

\* Composed with the API, the runs of the pipeline do not overlap, a failed
\* one leaves nothing half-written and a completed one has its analysis.
THEOREM ServiceRunsCorrect ==
    ASSUME Reported, "queue_unconfirmed" \notin ApiFaults
    PROVE  ServiceSpec => [](/\ OneHopAtATime
                             /\ FailedLeavesNothing
                             /\ CompletedHasAnalysis)
<1>1. ServiceInv => OneHopAtATime /\ FailedLeavesNothing /\ CompletedHasAnalysis
  <2>1. ASSUME ServiceInv, NEW w \in Workers, NEW x \in Workers,
               Executing(w), Executing(x), job[w].upload = job[x].upload
        PROVE  w = x
    <3>1. TypeOK /\ LeaseInv /\ OneLive
      BY <2>1 DEF ServiceInv, LifeInv, TokenInv
    <3> QED
      BY <2>1, <3>1, Holder DEF Executing, OneLive, Live
  <2> QED
    BY <2>1 DEF ServiceInv, LifeInv, EndInv, OneHopAtATime, FailedLeavesNothing,
       CompletedHasAnalysis
<1> QED
  BY <1>1, ServiceCorrect, PTL

=============================================================================
