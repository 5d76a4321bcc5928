--------------------------- MODULE PipelineProofs --------------------------
(***************************************************************************)
(* Proofs about Pipeline, for every number of uploads, workers, files,     *)
(* retries, runs and faults, and for every set of Faults unless a theorem  *)
(* names the faults it rules out.                                          *)
(***************************************************************************)
EXTENDS Pipeline, TLAPS, WellFoundedInduction

----------------------------------------------------------------------------
(* What the broker's operators do, so that the proofs below need not look  *)
(* inside them.                                                            *)

\* A sent message fills a slot that was free; nothing else moves.
LEMMA SendFillsSlot ==
    ASSUME NEW j, Send(j)
    PROVE  /\ \E m \in Slots : ~ Queued(m) /\ msgs' = [msgs EXCEPT ![m] = j]
           /\ lease' = lease
  <1>1. PICK m \in Slots : ~ Queued(m)
    BY Zenon DEF Send
  <1>2. /\ (CHOOSE x \in Slots : ~ Queued(x)) \in Slots
        /\ ~ Queued(CHOOSE x \in Slots : ~ Queued(x))
    BY <1>1, Zenon
  <1>3. QED
    BY <1>2, Zenon DEF Send

\* The envelope of a first attempt is a job.
LEMMA HopIsJob ==
    ASSUME NEW u \in Uploads, NEW h \in Hops
    PROVE  Hop(u, h) \in Job
  BY PipelineAssumption DEF Hop, Job

\* A set of file positions has a first one, and FirstOf picks it.
LEMMA FirstOfMember ==
    ASSUME NEW S \in SUBSET Positions, S # {}
    PROVE  FirstOf(S) \in S
  <1>1. S \subseteq Nat
    BY DEF Positions
  <1>2. PICK p \in S : \A q \in S : ~ (<<q, p>> \in OpToRel(<, Nat))
    BY <1>1, WFMin, NatLessThanWellFounded
  <1>3. \A q \in S : ~ (q < p)
    BY <1>1, <1>2, Zenon DEF OpToRel
  <1>4. \A q \in S : p <= q
    BY <1>1, <1>3
  <1> QED
    BY <1>4, Zenon DEF FirstOf

----------------------------------------------------------------------------
(* Type correctness.                                                       *)

LEMMA TypeInit == PipelineInit => TypeOK
  <1> SUFFICES ASSUME PipelineInit PROVE TypeOK
    OBVIOUS
  <1>1. StoreTypeOK
    <2>1. \A n \in Positions : 1 .. n \subseteq Positions
      BY StoreAssumption DEF Positions
    <2>2. files \in [Uploads -> {1 .. n : n \in Positions}]
      BY DEF PipelineInit
    <2>3. {1 .. n : n \in Positions} \subseteq SUBSET Positions
      BY <2>1
    <2>4. files \in [Uploads -> SUBSET Positions]
      BY <2>2, <2>3
    <2>5. /\ status = [u \in Uploads |-> "pending"]
          /\ reason = [u \in Uploads |-> ""]
          /\ ocr = [u \in Uploads |-> {}]
          /\ analyses = {}
      BY DEF PipelineInit
    <2> QED
      BY <2>4, <2>5 DEF StoreTypeOK, UploadStatus, Status, Reason
  <1>2. /\ msgs \in [Slots -> Job \cup {None}]
        /\ lease \in [Slots -> Workers \cup {None}]
    BY DEF PipelineInit, QueueEmpty
  <1>3. /\ pc \in [Workers -> PCs]
        /\ held \in [Workers -> Slots \cup {None}]
        /\ job \in [Workers -> Job \cup {None}]
        /\ batch \in [Workers -> SUBSET Positions]
        /\ \A w \in Workers : pc[w] = "idle"
    BY DEF PipelineInit, WorkersIdle, PCs
  <1>4. starts \in [Uploads -> 0 .. MaxRuns] /\ faults \in 0 .. MaxFaults
    <2>1. starts = [u \in Uploads |-> 0] /\ faults = 0
      BY DEF PipelineInit
    <2>2. 0 \in 0 .. MaxRuns /\ 0 \in 0 .. MaxFaults
      BY PipelineAssumption
    <2> QED
      BY <2>1, <2>2
  <1>5. QED
    BY <1>1, <1>2, <1>3, <1>4 DEF TypeOK

\* The effect of each statement of the store keeps its types.
LEMMA StoreTypes ==
    ASSUME StoreTypeOK, NEW u \in Uploads
    PROVE  /\ UNCHANGED storeVars => StoreTypeOK'
           /\ \A s \in UploadStatus, r \in Reason :
                 SetUploadStatus(u, s, r) => StoreTypeOK'
           /\ \A p \in Positions : SetUploadFileOCR(u, p) => StoreTypeOK'
           /\ \A S \in SUBSET Positions : ReplaceAnalysis(u, S) => StoreTypeOK'
           /\ DeleteAnalysisByUpload(u) => StoreTypeOK'
  <1>1. UNCHANGED storeVars => StoreTypeOK'
    BY DEF StoreTypeOK, storeVars
  <1>2. ASSUME NEW s \in UploadStatus, NEW r \in Reason, SetUploadStatus(u, s, r)
        PROVE  StoreTypeOK'
    BY <1>2 DEF StoreTypeOK, SetUploadStatus
  <1>3. ASSUME NEW p \in Positions, SetUploadFileOCR(u, p)
        PROVE  StoreTypeOK'
    BY <1>3 DEF StoreTypeOK, SetUploadFileOCR
  <1>4. ASSUME NEW S \in SUBSET Positions, ReplaceAnalysis(u, S)
        PROVE  StoreTypeOK'
    BY <1>4 DEF StoreTypeOK, ReplaceAnalysis, OtherAnalyses, AnalysisRow
  <1>5. DeleteAnalysisByUpload(u) => StoreTypeOK'
    BY DEF StoreTypeOK, DeleteAnalysisByUpload, OtherAnalyses
  <1>6. QED
    BY <1>1, <1>2, <1>3, <1>4, <1>5

\* Changes of a worker's local state, as the actions make them.
LEMMA WorkerTypes ==
    ASSUME TypeOK, NEW w \in Workers
    PROVE  /\ \A p \in PCs : Goto(w, p) =>
                 /\ pc' \in [Workers -> PCs]
                 /\ held' \in [Workers -> Slots \cup {None}]
                 /\ job' \in [Workers -> Job \cup {None}]
                 /\ \A x \in Workers : pc'[x] # "idle" =>
                       x = w \/ pc[x] # "idle"
           /\ Forget(w) =>
                 /\ pc' \in [Workers -> PCs]
                 /\ held' \in [Workers -> Slots \cup {None}]
                 /\ job' \in [Workers -> Job \cup {None}]
                 /\ batch' \in [Workers -> SUBSET Positions]
                 /\ \A x \in Workers : pc'[x] # "idle" =>
                       held'[x] \in Slots /\ job'[x] \in Job
  <1>1. ASSUME NEW p \in PCs, Goto(w, p)
        PROVE  /\ pc' \in [Workers -> PCs]
               /\ held' \in [Workers -> Slots \cup {None}]
               /\ job' \in [Workers -> Job \cup {None}]
               /\ \A x \in Workers : pc'[x] # "idle" => x = w \/ pc[x] # "idle"
    BY <1>1 DEF TypeOK, Goto
  <1>2. ASSUME Forget(w)
        PROVE  /\ pc' \in [Workers -> PCs]
               /\ held' \in [Workers -> Slots \cup {None}]
               /\ job' \in [Workers -> Job \cup {None}]
               /\ batch' \in [Workers -> SUBSET Positions]
               /\ \A x \in Workers : pc'[x] # "idle" =>
                     held'[x] \in Slots /\ job'[x] \in Job
    BY <1>2 DEF TypeOK, Forget, PCs
  <1>3. QED
    BY <1>1, <1>2

\* Worker w gets to p with b listed; no other worker moves.
Moves(w, p, b) ==
    /\ pc' = [pc EXCEPT ![w] = p]
    /\ batch' = [batch EXCEPT ![w] = b]
    /\ UNCHANGED <<held, job>>

\* What a step leaves alone.
StepKeeps == UNCHANGED <<msgs, lease, starts, faults, held, job>>

\* The steps whose body is a single call.
LEMMA SingleCallMoves ==
    ASSUME NEW w \in Workers,
           MarkProcessing(w) \/ MarkCompleted(w) \/ DeleteAnalysis(w)
    PROVE  /\ \E p \in {"done", "error"} : Moves(w, p, {})
           /\ StepKeeps
           /\ pc[w] = "start"
  <1> USE DEF At, CallFails, Committed, StepFails, StepSucceeds, Goto, taskqVars,
              Moves, StepKeeps
  <1>1. CASE MarkProcessing(w)
    BY <1>1 DEF MarkProcessing
  <1>2. CASE MarkCompleted(w)
    BY <1>2 DEF MarkCompleted
  <1>3. CASE DeleteAnalysis(w)
    BY <1>3 DEF DeleteAnalysis
  <1> QED
    BY <1>1, <1>2, <1>3

\* The calls of the ocr step.
LEMMA OCRMoves ==
    ASSUME TypeOK, NEW w \in Workers,
           ListForOCR(w) \/ ExtractOne(w) \/ FinishOCR(w)
    PROVE  /\ \E p \in {"extract", "done", "error"}, b \in SUBSET Positions :
                 Moves(w, p, b)
           /\ StepKeeps
           /\ pc[w] \in {"start", "extract"}
  <1> USE DEF At, CallFails, Committed, StepFails, StepSucceeds, Goto, taskqVars,
              Moves, StepKeeps
  <1>1. CASE ListForOCR(w)
    <2>1. job[w].upload \in Uploads
      BY <1>1 DEF ListForOCR, TypeOK, Job
    <2>2. files[job[w].upload] \ ocr[job[w].upload] \in SUBSET Positions
      BY <2>1 DEF TypeOK, StoreTypeOK
    <2> QED
      BY <1>1, <2>2 DEF ListForOCR
  <1>2. CASE ExtractOne(w)
    <2>1. batch[w] \ {FirstOf(batch[w])} \in SUBSET Positions
      BY DEF TypeOK
    <2>2. pc = [pc EXCEPT ![w] = pc[w]]
      BY DEF TypeOK
    <2> QED
      BY <1>2, <2>1, <2>2 DEF ExtractOne
  <1>3. CASE FinishOCR(w)
    BY <1>3 DEF FinishOCR
  <1> QED
    BY <1>1, <1>2, <1>3

\* The calls of the analyze step before its commit.
LEMMA AnalyzeMoves ==
    ASSUME TypeOK, NEW w \in Workers, ListForAnalysis(w) \/ AskModel(w)
    PROVE  /\ \E p \in {"model", "replace", "error"}, b \in SUBSET Positions :
                 Moves(w, p, b)
           /\ StepKeeps
           /\ pc[w] \in {"start", "model"}
  <1> USE DEF At, CallFails, StepFails, Goto, taskqVars, Moves, StepKeeps
  <1>1. CASE ListForAnalysis(w)
    <2>1. job[w].upload \in Uploads
      BY <1>1 DEF ListForAnalysis, TypeOK, Job
    <2>2. files[job[w].upload] \in SUBSET Positions
      BY <2>1 DEF TypeOK, StoreTypeOK
    <2> QED
      BY <1>1, <2>2 DEF ListForAnalysis
  <1>2. CASE AskModel(w)
    <2>1. batch = [batch EXCEPT ![w] = batch[w]] /\ batch[w] \in SUBSET Positions
      BY DEF TypeOK
    <2> QED
      BY <1>2, <2>1 DEF AskModel
  <1> QED
    BY <1>1, <1>2

\* A step changes only the store and where workers stand: the worker that
\* runs it, and the workers whose replacing transaction it overtakes.
LEMMA StepFrame ==
    ASSUME TypeOK, NEW w \in Workers, StepAction(w)
    PROVE  /\ StepKeeps
           /\ pc[w] \in {"start", "extract", "model", "replace"}
           /\ pc' \in [Workers -> PCs]
           /\ pc'[w] \in {"extract", "model", "replace", "done", "error"}
           /\ \A x \in Workers \ {w} :
                 \/ pc'[x] = pc[x] /\ batch'[x] = batch[x]
                 \/ pc[x] = "replace" /\ pc'[x] = "error"
           /\ batch' \in [Workers -> SUBSET Positions]
  <1>1. ASSUME NEW p \in {"extract", "model", "replace", "done", "error"},
               NEW b \in SUBSET Positions, Moves(w, p, b)
        PROVE  /\ pc' \in [Workers -> PCs] /\ pc'[w] = p
               /\ \A x \in Workers \ {w} : pc'[x] = pc[x] /\ batch'[x] = batch[x]
               /\ batch' \in [Workers -> SUBSET Positions]
    BY <1>1 DEF Moves, TypeOK, PCs
  <1>2. CASE MarkProcessing(w) \/ MarkCompleted(w) \/ DeleteAnalysis(w)
    BY <1>1, <1>2, SingleCallMoves
  <1>3. CASE ListForOCR(w) \/ ExtractOne(w) \/ FinishOCR(w)
    BY <1>1, <1>3, OCRMoves
  <1>4. CASE ListForAnalysis(w) \/ AskModel(w)
    BY <1>1, <1>4, AnalyzeMoves
  <1>5. CASE CommitAnalysis(w)
    <2>1. CASE CallFails(w)
      <3>1. Moves(w, "error", {}) /\ StepKeeps /\ pc[w] = "replace"
        BY <1>5, <2>1 DEF CommitAnalysis, CallFails, StepFails, Goto, Moves, At,
           StepKeeps, taskqVars
      <3> QED
        BY <1>1, <3>1
    <2>2. CASE ~ CallFails(w)
      <3>1. PICK outcome \in {"done", "error"} :
              pc' = [x \in Workers |-> IF x = w THEN outcome
                                       ELSE IF x \in Overtaken(w) THEN "error"
                                       ELSE pc[x]]
        BY <1>5, <2>2 DEF CommitAnalysis, CommitOutcomes
      <3>2. batch' = [x \in Workers |->
                        IF x = w \/ x \in Overtaken(w) THEN {} ELSE batch[x]]
        BY <1>5, <2>2 DEF CommitAnalysis
      <3>3. StepKeeps /\ pc[w] = "replace"
        BY <1>5, <2>2 DEF CommitAnalysis, StepKeeps, At, taskqVars
      <3>4. \A x \in Overtaken(w) : pc[x] = "replace"
        BY DEF Overtaken
      <3> QED
        BY <3>1, <3>2, <3>3, <3>4 DEF TypeOK, PCs
    <2> QED
      BY <2>1, <2>2
  <1> QED
    BY <1>2, <1>3, <1>4, <1>5 DEF StepAction

\* A step keeps the types of the store.
LEMMA StepStoreTypes ==
    ASSUME TypeOK, NEW w \in Workers, StepAction(w)
    PROVE  StoreTypeOK'
  <1>0. StoreTypeOK
    BY DEF TypeOK
  <1>1. job[w].upload \in Uploads
    BY DEF StepAction, MarkProcessing, ListForOCR, ExtractOne, FinishOCR,
       ListForAnalysis, AskModel, CommitAnalysis, MarkCompleted, DeleteAnalysis,
       At, TypeOK, Job
  <1>2. \A s \in {"processing", "completed"} :
           s \in UploadStatus /\ "" \in Reason
    BY DEF UploadStatus, Status, Reason
  <1>3. UNCHANGED storeVars => StoreTypeOK'
    BY <1>0, <1>1, StoreTypes
  <1>4. CASE MarkProcessing(w)
    BY <1>0, <1>1, <1>2, <1>3, <1>4, StoreTypes
       DEF MarkProcessing, CallFails, Committed
  <1>5. CASE MarkCompleted(w)
    BY <1>0, <1>1, <1>2, <1>3, <1>5, StoreTypes
       DEF MarkCompleted, CallFails, Committed
  <1>6. CASE DeleteAnalysis(w)
    BY <1>0, <1>1, <1>3, <1>6, StoreTypes DEF DeleteAnalysis, CallFails, Committed
  <1>7. CASE ExtractOne(w)
    <2>1. FirstOf(batch[w]) \in Positions
      <3>1. batch[w] \in SUBSET Positions /\ batch[w] # {}
        BY <1>7 DEF ExtractOne, TypeOK
      <3> QED
        BY <3>1, FirstOfMember
    <2> QED
      BY <1>0, <1>1, <1>3, <1>7, <2>1, StoreTypes DEF ExtractOne, CallFails, Committed
  <1>8. CASE CommitAnalysis(w)
    <2>1. batch[w] \in SUBSET Positions
      BY DEF TypeOK
    <2> QED
      BY <1>0, <1>1, <1>3, <1>8, <2>1, StoreTypes DEF CommitAnalysis, CallFails
  <1>9. CASE ListForOCR(w) \/ FinishOCR(w) \/ ListForAnalysis(w) \/ AskModel(w)
    BY <1>3, <1>9 DEF ListForOCR, FinishOCR, ListForAnalysis, AskModel, CallFails
  <1> QED
    BY <1>4, <1>5, <1>6, <1>7, <1>8, <1>9 DEF StepAction

\* What the saga does with the outcome of a hop: it moves worker w, sends at
\* most one message, and writes at most the failed status.
LEMMA SagaFrame ==
    ASSUME TypeOK, NEW w \in Workers, SagaAction(w)
    PROVE  /\ UNCHANGED <<starts, faults, files, ocr, analyses>>
           /\ pc[w] \in {"done", "error", "onFailed", "onCompensationFailed", "ack"}
           /\ \/ /\ \E p \in {"ack", "onFailed", "onCompensationFailed"} : Goto(w, p)
                 /\ UNCHANGED batch
              \/ Forget(w) /\ UNCHANGED storeVars
  <1> USE DEF storeVars, At
  <1>1. CASE SendNext(w)
    BY <1>1 DEF SendNext
  <1>2. CASE RunCompleted(w) \/ RunUnwound(w)
    BY <1>2 DEF RunCompleted, RunUnwound
  <1>3. CASE Retry(w) \/ Ack(w)
    BY <1>3 DEF Retry, Ack
  <1>4. CASE Pivot(w)
    BY <1>4 DEF Pivot, BudgetSpent
  <1>5. CASE OnFailed(w) \/ OnCompensationFailed(w)
    BY <1>5 DEF OnFailed, OnCompensationFailed, MarkFailed, SetUploadStatus
  <1> QED
    BY <1>1, <1>2, <1>3, <1>4, <1>5 DEF SagaAction

\* The saga writes nothing but the failed status.
LEMMA SagaWrites ==
    ASSUME NEW w \in Workers, SagaAction(w)
    PROVE  \/ UNCHANGED storeVars
           \/ \E r : SetUploadStatus(job[w].upload, "failed", r)
  <1>1. CASE OnFailed(w) \/ OnCompensationFailed(w)
    BY <1>1, Zenon DEF OnFailed, OnCompensationFailed, MarkFailed
  <1>2. CASE ~ (OnFailed(w) \/ OnCompensationFailed(w))
    BY <1>2 DEF SagaAction, SendNext, RunCompleted, RunUnwound, Retry, Pivot, Ack
  <1> QED
    BY <1>1, <1>2

\* The saga keeps the types of the store and of the queue.
LEMMA SagaTypes ==
    ASSUME TypeOK, NEW w \in Workers, SagaAction(w)
    PROVE  /\ StoreTypeOK'
           /\ msgs' \in [Slots -> Job \cup {None}]
           /\ lease' \in [Slots -> Workers \cup {None}]
  <1>0. /\ StoreTypeOK
        /\ msgs \in [Slots -> Job \cup {None}]
        /\ lease \in [Slots -> Workers \cup {None}]
    BY DEF TypeOK
  <1>1. job[w] \in Job /\ job[w].upload \in Uploads /\ job[w].hop \in Hops
    BY SagaFrame DEF TypeOK, Job
  <1>2. UNCHANGED storeVars => StoreTypeOK'
    BY <1>0, <1>1, StoreTypes
  <1>3. ASSUME NEW h \in Hops, Send(Hop(job[w].upload, h))
        PROVE  /\ msgs' \in [Slots -> Job \cup {None}]
               /\ lease' \in [Slots -> Workers \cup {None}]
    <2>1. Hop(job[w].upload, h) \in Job
      BY <1>1, HopIsJob
    <2> QED
      BY <1>0, <1>3, <2>1, SendFillsSlot
  <1>4. UNCHANGED taskqVars => /\ msgs' \in [Slots -> Job \cup {None}]
                               /\ lease' \in [Slots -> Workers \cup {None}]
    BY <1>0 DEF taskqVars
  <1>5. CASE SendNext(w)
    <2>1. NextStep[job[w].hop] \in Hops
      BY <1>5 DEF SendNext, NextStep, Hops, Steps
    <2> QED
      BY <1>2, <1>3, <1>5, <2>1 DEF SendNext
  <1>6. CASE RunCompleted(w) \/ RunUnwound(w)
    BY <1>2, <1>4, <1>6 DEF RunCompleted, RunUnwound
  <1>7. CASE Retry(w)
    <2>1. [job[w] EXCEPT !.attempts = @ + 1] \in Job
      BY <1>1, <1>7, PipelineAssumption DEF Retry, Job
    <2> QED
      BY <1>0, <1>2, <1>7, <2>1 DEF Retry, Reject, taskqVars
  <1>8. CASE Ack(w)
    BY <1>0, <1>2, <1>8 DEF Ack, Acknowledge, taskqVars
  <1>9. CASE Pivot(w)
    <2>1. "analyze_compensate" \in Hops
      BY DEF Hops
    <2> QED
      BY <1>2, <1>3, <1>4, <1>9, <2>1 DEF Pivot
  <1>10. CASE OnFailed(w) \/ OnCompensationFailed(w)
    <2>1. /\ FailedStep(job[w].hop) \in Reason
          /\ "analyze: rollback failed" \in Reason
          /\ "failed" \in UploadStatus
      BY <1>1 DEF FailedStep, Reason, Hops, Steps, UploadStatus, Status
    <2> QED
      BY <1>0, <1>1, <1>2, <1>4, <1>10, <2>1, StoreTypes
         DEF OnFailed, OnCompensationFailed, MarkFailed
  <1> QED
    BY <1>5, <1>6, <1>7, <1>8, <1>9, <1>10 DEF SagaAction

\* Every action keeps the types.
LEMMA TypeStep == TypeOK /\ [PipelineNext]_pipelineVars => TypeOK'
  <1> SUFFICES ASSUME TypeOK, [PipelineNext]_pipelineVars PROVE TypeOK'
    OBVIOUS
  <1>1. ASSUME NEW u \in Uploads, Enqueue(u) PROVE TypeOK'
    <2>1. Hop(u, "mark_processing") \in Job
      BY HopIsJob DEF Hops, Steps
    <2>2. Send(Hop(u, "mark_processing"))
      BY <1>1 DEF Enqueue
    <2>3. /\ msgs' \in [Slots -> Job \cup {None}]
          /\ lease' \in [Slots -> Workers \cup {None}]
      BY <2>1, <2>2, SendFillsSlot DEF TypeOK
    <2>4. starts' \in [Uploads -> 0 .. MaxRuns]
      BY <1>1, PipelineAssumption DEF TypeOK, Enqueue
    <2>5. UNCHANGED <<storeVars, workerVars, faults>>
      BY <1>1 DEF Enqueue
    <2>6. StoreTypeOK'
      BY <2>5 DEF StoreTypeOK, storeVars, TypeOK
    <2> QED
      BY <2>3, <2>4, <2>5, <2>6 DEF TypeOK, workerVars
  <1>2. ASSUME NEW w \in Workers, Dequeue(w) PROVE TypeOK'
    <2>1. StoreTypeOK'
      BY <1>2 DEF Dequeue, StoreTypeOK, storeVars, TypeOK
    <2> QED
      BY <1>2, <2>1 DEF Dequeue, Receive, Visible, Queued, TypeOK, PCs
  <1>3. ASSUME NEW w \in Workers, StepAction(w) PROVE TypeOK'
    <2>1. StoreTypeOK'
      BY <1>3, StepStoreTypes
    <2>2. \A x \in Workers : pc'[x] # "idle" => pc[x] # "idle"
      BY <1>3, StepFrame
    <2> QED
      BY <1>3, <2>1, <2>2, StepFrame DEF TypeOK, StepKeeps
  <1>4. ASSUME NEW w \in Workers, SagaAction(w) PROVE TypeOK'
    <2>1. /\ starts' = starts /\ faults' = faults /\ pc[w] # "idle"
      BY <1>4, SagaFrame
    <2>2. CASE Forget(w)
      BY <1>4, <2>1, <2>2, SagaTypes, WorkerTypes DEF TypeOK
    <2>3. CASE UNCHANGED batch
               /\ \E p \in {"ack", "onFailed", "onCompensationFailed"} : Goto(w, p)
      <3>1. PICK p \in {"ack", "onFailed", "onCompensationFailed"} : Goto(w, p)
        BY <2>3
      <3>2. p \in PCs
        BY DEF PCs
      <3>3. UNCHANGED <<held, job>>
        BY <3>1 DEF Goto
      <3> QED
        BY <1>4, <2>1, <2>3, <3>1, <3>2, <3>3, SagaTypes, WorkerTypes DEF TypeOK
    <2> QED
      BY <1>4, <2>2, <2>3, SagaFrame
  <1>5. ASSUME NEW w \in Workers, Crash(w) \/ Stall(w) PROVE TypeOK'
    <2>1. StoreTypeOK'
      BY <1>5 DEF Crash, Stall, StoreTypeOK, storeVars, TypeOK
    <2>2. msgs' = msgs /\ lease' \in [Slots -> Workers \cup {None}]
      BY <1>5 DEF Crash, Stall, Expire, TypeOK, taskqVars
    <2>3. starts' = starts /\ faults' \in 0 .. MaxFaults
      BY <1>5, PipelineAssumption DEF Crash, Stall, TypeOK
    <2>4. CASE Crash(w)
      BY <2>1, <2>2, <2>3, <2>4, WorkerTypes DEF Crash, TypeOK
    <2>5. CASE Stall(w)
      BY <2>1, <2>2, <2>3, <2>5 DEF Stall, TypeOK, workerVars
    <2> QED
      BY <1>5, <2>4, <2>5
  <1>6. ASSUME UNCHANGED pipelineVars PROVE TypeOK'
    BY <1>6 DEF pipelineVars, storeVars, taskqVars, workerVars, TypeOK, StoreTypeOK
  <1> QED
    BY <1>1, <1>2, <1>3, <1>4, <1>5, <1>6
       DEF PipelineNext, PipelineStep, Work, Poll

\* Every reachable state of the pipeline is well typed; in particular no
\* message is retried beyond WORKER_MAX_RETRY.
THEOREM TypeCorrect == PipelineSpec => []TypeOK
  <1>1. QED
    BY TypeInit, TypeStep, PTL DEF PipelineSpec

----------------------------------------------------------------------------
(* The ocr step does what the analyze step relies on.  Files are fixed and *)
(* OCR output is never taken back, so OCRComplete is stable; the inductive *)
(* invariant follows it from the ocr step's list, through the message for  *)
(* analyze, to everything that comes later.                                *)

\* No step of the pipeline removes a file or its OCR output.
LEMMA OCRGrows ==
    ASSUME TypeOK, [PipelineNext]_pipelineVars
    PROVE  /\ files' = files
           /\ \A u \in Uploads : ocr[u] \subseteq ocr'[u]
           /\ \A u \in Uploads : OCRComplete(u) => OCRComplete(u)'
  <1>1. ASSUME NEW w \in Workers, StepAction(w)
        PROVE  files' = files /\ \A u \in Uploads : ocr[u] \subseteq ocr'[u]
    <2>1. CASE ExtractOne(w)
      BY <2>1 DEF ExtractOne, CallFails, Committed, SetUploadFileOCR, storeVars,
         TypeOK, StoreTypeOK
    <2>2. CASE ~ ExtractOne(w)
      BY <1>1, <2>2 DEF StepAction, MarkProcessing, ListForOCR, FinishOCR,
         ListForAnalysis, AskModel, CommitAnalysis, MarkCompleted, DeleteAnalysis,
         CallFails, Committed, storeVars, SetUploadStatus, ReplaceAnalysis,
         DeleteAnalysisByUpload
    <2> QED
      BY <2>1, <2>2
  <1>2. ASSUME NEW w \in Workers, SagaAction(w)
        PROVE  files' = files /\ ocr' = ocr
    BY <1>2, SagaFrame
  <1>3. files' = files /\ \A u \in Uploads : ocr[u] \subseteq ocr'[u]
    BY <1>1, <1>2 DEF PipelineNext, PipelineStep, Work, Enqueue, Dequeue, Crash,
       Stall, Poll, pipelineVars, storeVars
  <1> QED
    BY <1>3 DEF OCRComplete

LEMMA OCRInit == PipelineInit => OCRInv
  <1> SUFFICES ASSUME PipelineInit PROVE OCRInv
    OBVIOUS
  <1>1. /\ msgs = [m \in Slots |-> None]
        /\ pc = [w \in Workers |-> "idle"]
        /\ status = [u \in Uploads |-> "pending"]
        /\ analyses = {}
    BY DEF PipelineInit, QueueEmpty, WorkersIdle
  <1> QED
    BY <1>1 DEF OCRInv, OCRGuaranteed, QueuedAfterOCR, RunningAfterOCR,
       CompletedAfterOCR, OCRProgress, AnalysisIsWhole, Queued

\* The message a worker sends is for a step after ocr only if ocr is complete.
LEMMA OCRSend ==
    ASSUME TypeOK, QueuedAfterOCR, [PipelineNext]_pipelineVars,
           NEW u \in Uploads, NEW h \in Hops, Send(Hop(u, h)),
           h \in AfterOCR => OCRComplete(u)
    PROVE  QueuedAfterOCR'
  <1>1. PICK n \in Slots : ~ Queued(n) /\ msgs' = [msgs EXCEPT ![n] = Hop(u, h)]
    BY SendFillsSlot
  <1>2. SUFFICES ASSUME NEW m \in Slots, Queued(m)', msgs'[m].hop \in AfterOCR
                 PROVE  OCRComplete(msgs[m].upload)'
    BY DEF QueuedAfterOCR
  <1>3. CASE m = n
    <2>1. msgs'[m] = Hop(u, h)
      BY <1>1, <1>3 DEF TypeOK
    <2>2. msgs'[m].hop = h /\ msgs'[m].upload = u
      BY <2>1 DEF Hop
    <2> QED
      BY <1>2, <2>2, OCRGrows DEF OCRComplete
  <1>4. CASE m # n
    <2>1. msgs'[m] = msgs[m]
      BY <1>1, <1>4 DEF TypeOK
    <2>2. msgs[m] \in Job /\ msgs[m].upload \in Uploads
      BY <1>2, <2>1 DEF Queued, TypeOK, Job
    <2>3. OCRComplete(msgs[m].upload)
      BY <1>2, <2>1 DEF QueuedAfterOCR, Queued
    <2> QED
      BY <2>1, <2>2, <2>3, OCRGrows DEF OCRComplete
  <1> QED
    BY <1>3, <1>4

\* Queued messages stay good when nothing is sent.
LEMMA OCRNoSend ==
    ASSUME TypeOK, QueuedAfterOCR, [PipelineNext]_pipelineVars,
           \A m \in Slots : msgs'[m] \in {msgs[m], None}
    PROVE  QueuedAfterOCR'
  <1>1. SUFFICES ASSUME NEW m \in Slots, Queued(m)', msgs'[m].hop \in AfterOCR
                 PROVE  OCRComplete(msgs[m].upload)'
    BY DEF QueuedAfterOCR
  <1>2. msgs'[m] = msgs[m]
    BY <1>1 DEF Queued
  <1>3. msgs[m] \in Job /\ msgs[m].upload \in Uploads
    BY <1>1, <1>2 DEF Queued, TypeOK, Job
  <1>4. OCRComplete(msgs[m].upload)
    BY <1>1, <1>2 DEF QueuedAfterOCR, Queued
  <1> QED
    BY <1>2, <1>3, <1>4, OCRGrows DEF OCRComplete

\* A worker's message, and where it is in the hop it runs, between steps.
LEMMA WorkerStep ==
    ASSUME TypeOK, [PipelineNext]_pipelineVars, NEW x \in Workers,
           pc'[x] # "idle"
    PROVE  \/ pc[x] # "idle" /\ job'[x] = job[x]
           \/ /\ pc[x] = "idle" /\ pc'[x] = "start"
              /\ \E m \in Slots : Queued(m) /\ job'[x] = msgs[m]
  <1>1. ASSUME NEW w \in Workers, StepAction(w)
        PROVE  pc[x] # "idle" /\ job'[x] = job[x]
    BY <1>1, StepFrame DEF StepKeeps
  <1>2. ASSUME NEW w \in Workers, SagaAction(w)
        PROVE  pc[x] # "idle" /\ job'[x] = job[x]
    BY <1>2, SagaFrame DEF Goto, Forget, TypeOK
  <1>3. ASSUME NEW w \in Workers, Dequeue(w)
        PROVE  \/ pc[x] # "idle" /\ job'[x] = job[x]
               \/ /\ pc[x] = "idle" /\ pc'[x] = "start"
                  /\ \E m \in Slots : Queued(m) /\ job'[x] = msgs[m]
    BY <1>3 DEF Dequeue, Receive, Visible, TypeOK
  <1>4. ASSUME NEW w \in Workers, Crash(w) \/ Stall(w)
        PROVE  pc[x] # "idle" /\ job'[x] = job[x]
    BY <1>4 DEF Crash, Stall, Forget, workerVars, TypeOK
  <1>5. ASSUME NEW u \in Uploads, Enqueue(u)
        PROVE  pc[x] # "idle" /\ job'[x] = job[x]
    BY <1>5 DEF Enqueue, workerVars
  <1>6. ASSUME UNCHANGED pipelineVars
        PROVE  pc[x] # "idle" /\ job'[x] = job[x]
    BY <1>6 DEF pipelineVars, workerVars
  <1> QED
    BY <1>1, <1>2, <1>3, <1>4, <1>5, <1>6
       DEF PipelineNext, PipelineStep, Work, Poll

\* No message for a step after ocr is sent too early.
LEMMA QueuedAfterOCRStep ==
    ASSUME TypeOK, OCRInv, [PipelineNext]_pipelineVars
    PROVE  QueuedAfterOCR'
  <1>0. QueuedAfterOCR /\ RunningAfterOCR /\ OCRProgress
    BY DEF OCRInv, OCRGuaranteed
  <1>1. UNCHANGED msgs => QueuedAfterOCR'
    BY <1>0, OCRNoSend
  <1>2. ASSUME NEW u \in Uploads, Enqueue(u) PROVE QueuedAfterOCR'
    <2>1. Send(Hop(u, "mark_processing"))
      BY <1>2 DEF Enqueue
    <2>2. "mark_processing" \in Hops /\ "mark_processing" \notin AfterOCR
      BY DEF Hops, Steps, AfterOCR
    <2> QED
      BY <1>0, <2>1, <2>2, OCRSend
  <1>3. ASSUME NEW w \in Workers, SagaAction(w) PROVE QueuedAfterOCR'
    <2>1. pc[w] # "idle" /\ job[w] \in Job /\ held[w] \in Slots
      BY <1>3, SagaFrame DEF TypeOK
    <2>2. job[w].upload \in Uploads /\ job[w].hop \in Hops
      BY <2>1 DEF Job
    <2>3. CASE SendNext(w)
      <3>1. NextStep[job[w].hop] \in Hops
        BY <2>3 DEF SendNext, NextStep, Hops, Steps
      <3>2. Send(Hop(job[w].upload, NextStep[job[w].hop]))
        BY <2>3 DEF SendNext
      <3>3. \/ NextStep[job[w].hop] = "ocr"
            \/ job[w].hop = "ocr" /\ pc[w] = "done"
            \/ job[w].hop = "analyze"
        BY <2>3 DEF SendNext, NextStep
      <3>4. NextStep[job[w].hop] \in AfterOCR => OCRComplete(job[w].upload)
        BY <1>0, <2>1, <3>3 DEF OCRProgress, RunningAfterOCR, AfterOCR
      <3> QED
        BY <1>0, <2>2, <3>1, <3>2, <3>4, OCRSend
    <2>4. CASE Pivot(w)
      <3>1. CASE job[w].hop = "mark_completed"
        <4>1. Send(Hop(job[w].upload, "analyze_compensate"))
          BY <2>4, <3>1 DEF Pivot
        <4>2. OCRComplete(job[w].upload)
          BY <1>0, <2>1, <3>1 DEF RunningAfterOCR, AfterOCR
        <4>3. "analyze_compensate" \in Hops
          BY DEF Hops
        <4> QED
          BY <1>0, <2>2, <4>1, <4>2, <4>3, OCRSend
      <3>2. CASE job[w].hop # "mark_completed"
        BY <1>1, <2>4, <3>2 DEF Pivot, taskqVars
      <3> QED
        BY <3>1, <3>2
    <2>5. CASE Retry(w)
      <3>1. CASE lease[held[w]] = w
        <4> DEFINE j == [job[w] EXCEPT !.attempts = @ + 1]
        <4>1. msgs' = [msgs EXCEPT ![held[w]] = j]
          BY <2>5, <3>1 DEF Retry, Reject
        <4>2. j.upload = job[w].upload /\ j.hop = job[w].hop
          BY <2>1 DEF Job
        <4>3. SUFFICES ASSUME NEW m \in Slots, Queued(m)',
                              msgs'[m].hop \in AfterOCR
                       PROVE  OCRComplete(msgs[m].upload)'
          BY DEF QueuedAfterOCR
        <4>4. CASE m = held[w]
          <5>1. msgs'[m] = j
            BY <4>1, <4>4 DEF TypeOK
          <5>2. OCRComplete(job[w].upload)
            BY <1>0, <2>1, <4>2, <4>3, <5>1 DEF RunningAfterOCR
          <5> QED
            BY <2>2, <4>2, <5>1, <5>2, OCRGrows DEF OCRComplete
        <4>5. CASE m # held[w]
          <5>1. msgs'[m] = msgs[m]
            BY <4>1, <4>5 DEF TypeOK
          <5>2. msgs[m] \in Job /\ msgs[m].upload \in Uploads
            BY <4>3, <5>1 DEF Queued, TypeOK, Job
          <5>3. OCRComplete(msgs[m].upload)
            BY <1>0, <4>3, <5>1 DEF QueuedAfterOCR, Queued
          <5> QED
            BY <5>1, <5>2, <5>3, OCRGrows DEF OCRComplete
        <4> QED
          BY <4>4, <4>5
      <3>2. CASE lease[held[w]] # w
        BY <1>1, <2>5, <3>2 DEF Retry, Reject, taskqVars
      <3> QED
        BY <3>1, <3>2
    <2>6. CASE Ack(w)
      <3>1. \A m \in Slots : msgs'[m] \in {msgs[m], None}
        BY <2>6 DEF Ack, Acknowledge, TypeOK, taskqVars
      <3> QED
        BY <1>0, <3>1, OCRNoSend
    <2>7. CASE RunCompleted(w) \/ RunUnwound(w) \/ OnFailed(w)
               \/ OnCompensationFailed(w)
      BY <1>1, <2>7 DEF RunCompleted, RunUnwound, OnFailed, OnCompensationFailed,
         MarkFailed, taskqVars
    <2> QED
      BY <1>3, <2>3, <2>4, <2>5, <2>6, <2>7 DEF SagaAction
  <1>4. ASSUME NEW w \in Workers, StepAction(w) PROVE QueuedAfterOCR'
    BY <1>1, <1>4, StepFrame DEF StepKeeps
  <1>5. ASSUME NEW w \in Workers, Dequeue(w) \/ Crash(w) \/ Stall(w)
        PROVE  QueuedAfterOCR'
    BY <1>1, <1>5 DEF Dequeue, Receive, Crash, Stall, Expire, taskqVars
  <1>6. ASSUME UNCHANGED pipelineVars PROVE QueuedAfterOCR'
    BY <1>1, <1>6 DEF pipelineVars, taskqVars
  <1> QED
    BY <1>2, <1>3, <1>4, <1>5, <1>6 DEF PipelineNext, PipelineStep, Work, Poll

\* No worker starts a step after ocr too early.
LEMMA RunningAfterOCRStep ==
    ASSUME TypeOK, OCRInv, [PipelineNext]_pipelineVars
    PROVE  RunningAfterOCR'
  <1>0. QueuedAfterOCR /\ RunningAfterOCR
    BY DEF OCRInv, OCRGuaranteed
  <1>1. SUFFICES ASSUME NEW x \in Workers, pc'[x] # "idle",
                        job'[x].hop \in AfterOCR
                 PROVE  OCRComplete(job[x].upload)'
    BY DEF RunningAfterOCR
  <1>2. CASE pc[x] # "idle" /\ job'[x] = job[x]
    <2>1. OCRComplete(job[x].upload) /\ job[x].upload \in Uploads
      BY <1>0, <1>1, <1>2 DEF RunningAfterOCR, TypeOK, Job
    <2> QED
      BY <1>2, <2>1, OCRGrows DEF OCRComplete
  <1>3. ASSUME NEW m \in Slots, Queued(m), job'[x] = msgs[m]
        PROVE  OCRComplete(job[x].upload)'
    <2>1. OCRComplete(msgs[m].upload)
      BY <1>0, <1>1, <1>3 DEF QueuedAfterOCR
    <2>2. msgs[m].upload \in Uploads
      BY <1>3 DEF Queued, TypeOK, Job
    <2> QED
      BY <1>3, <2>1, <2>2, OCRGrows DEF OCRComplete
  <1> QED
    BY <1>1, <1>2, <1>3, WorkerStep

\* Only mark_completed makes an upload completed.
LEMMA CompletedAfterOCRStep ==
    ASSUME TypeOK, OCRInv, [PipelineNext]_pipelineVars
    PROVE  CompletedAfterOCR'
  <1>0. RunningAfterOCR /\ CompletedAfterOCR
    BY DEF OCRInv, OCRGuaranteed
  <1>1. SUFFICES ASSUME NEW u \in Uploads, status'[u] = "completed"
                 PROVE  OCRComplete(u)
    BY OCRGrows DEF CompletedAfterOCR
  <1>2. ASSUME NEW w \in Workers, StepAction(w), ~ MarkCompleted(w)
        PROVE  status[u] = "completed"
    BY <1>1, <1>2 DEF StepAction, MarkProcessing, ListForOCR, FinishOCR, ExtractOne,
       ListForAnalysis, AskModel, CommitAnalysis, DeleteAnalysis, CallFails,
       Committed, storeVars, SetUploadStatus, SetUploadFileOCR, ReplaceAnalysis,
       DeleteAnalysisByUpload, TypeOK, StoreTypeOK
  <1>3. ASSUME NEW w \in Workers, MarkCompleted(w)
        PROVE  status[u] = "completed" \/ OCRComplete(u)
    <2>1. At(w, "start", "mark_completed")
      BY <1>3 DEF MarkCompleted
    <2>2. OCRComplete(job[w].upload)
      BY <1>0, <2>1 DEF At, RunningAfterOCR, AfterOCR
    <2>3. status[u] = "completed" \/ u = job[w].upload
      BY <1>1, <1>3 DEF MarkCompleted, CallFails, Committed, SetUploadStatus,
         storeVars, TypeOK, StoreTypeOK
    <2> QED
      BY <2>2, <2>3
  <1>4. ASSUME NEW w \in Workers, SagaAction(w)
        PROVE  status[u] = "completed"
    <2>1. CASE UNCHANGED storeVars
      BY <1>1, <2>1 DEF storeVars
    <2>2. CASE \E r : SetUploadStatus(job[w].upload, "failed", r)
      BY <1>1, <2>2 DEF SetUploadStatus, TypeOK, StoreTypeOK
    <2> QED
      BY <1>4, <2>1, <2>2, SagaWrites
  <1>5. ASSUME UNCHANGED storeVars PROVE status[u] = "completed"
    BY <1>1, <1>5 DEF storeVars
  <1>6. \/ UNCHANGED storeVars
        \/ \E w \in Workers : StepAction(w) \/ SagaAction(w)
    BY DEF PipelineNext, PipelineStep, Work, Poll, pipelineVars, Enqueue, Dequeue,
       Crash, Stall
  <1> QED
    BY <1>0, <1>2, <1>3, <1>4, <1>5, <1>6 DEF CompletedAfterOCR

\* An analysis is stored from every file of its upload, in place of the last.
LEMMA AnalysisIsWholeStep ==
    ASSUME TypeOK, OCRInv, [PipelineNext]_pipelineVars
    PROVE  AnalysisIsWhole'
  <1>0. AnalysisIsWhole /\ OCRProgress /\ files' = files
    BY OCRGrows DEF OCRInv
  <1>1. CASE UNCHANGED analyses
    BY <1>0, <1>1 DEF AnalysisIsWhole
  <1>2. ASSUME NEW w \in Workers, CommitAnalysis(w) PROVE AnalysisIsWhole'
    <2>1. CASE CallFails(w)
      BY <1>1, <2>1 DEF CallFails, storeVars
    <2>2. CASE ReplaceAnalysis(job[w].upload, batch[w])
      <3>1. batch[w] = files[job[w].upload]
        BY <1>0, <1>2 DEF CommitAnalysis, At, OCRProgress
      <3>2. analyses' = {a \in analyses : a.upload # job[w].upload}
                           \cup {[upload |-> job[w].upload, statements |-> batch[w]]}
        BY <2>2 DEF ReplaceAnalysis, OtherAnalyses
      <3> QED
        BY <1>0, <3>1, <3>2 DEF AnalysisIsWhole
    <2> QED
      BY <1>2, <2>1, <2>2 DEF CommitAnalysis
  <1>3. ASSUME NEW w \in Workers, DeleteAnalysis(w) PROVE AnalysisIsWhole'
    <2>1. analyses' \subseteq analyses
      BY <1>3 DEF DeleteAnalysis, CallFails, Committed, DeleteAnalysisByUpload,
         OtherAnalyses, storeVars
    <2> QED
      BY <1>0, <2>1 DEF AnalysisIsWhole
  <1>4. ASSUME NEW w \in Workers, StepAction(w), ~ CommitAnalysis(w),
               ~ DeleteAnalysis(w)
        PROVE  UNCHANGED analyses
    BY <1>4 DEF StepAction, MarkProcessing, ListForOCR, FinishOCR, ExtractOne,
       ListForAnalysis, AskModel, MarkCompleted, CallFails, Committed, storeVars,
       SetUploadStatus, SetUploadFileOCR
  <1>5. ASSUME NEW w \in Workers, SagaAction(w) PROVE UNCHANGED analyses
    BY <1>5, SagaFrame
  <1>6. \/ UNCHANGED analyses
        \/ \E w \in Workers : StepAction(w) \/ SagaAction(w)
    BY DEF PipelineNext, PipelineStep, Work, Poll, pipelineVars, Enqueue, Dequeue,
       Crash, Stall, storeVars
  <1> QED
    BY <1>1, <1>2, <1>3, <1>4, <1>5, <1>6

\* What a worker inside a step knows about its files, by the step it takes.
LEMMA OCRProgressStep ==
    ASSUME TypeOK, OCRInv, [PipelineNext]_pipelineVars
    PROVE  OCRProgress'
  <1>0. OCRProgress /\ RunningAfterOCR /\ files' = files
    BY OCRGrows DEF OCRInv, OCRGuaranteed
  <1> DEFINE P(x) ==
        /\ pc[x] = "extract" =>
              files[job[x].upload] \subseteq ocr[job[x].upload] \cup batch[x]
        /\ pc[x] = "done" /\ job[x].hop = "ocr" => OCRComplete(job[x].upload)
        /\ pc[x] \in {"model", "replace"} => batch[x] = files[job[x].upload]
  <1>1. SUFFICES ASSUME NEW x \in Workers PROVE P(x)'
    BY DEF OCRProgress
  <1>2. P(x)
    BY <1>0 DEF OCRProgress
  <1>3. CASE pc'[x] \notin {"extract", "done", "model", "replace"}
    BY <1>3
  <1>4. CASE /\ pc'[x] = pc[x] /\ batch'[x] = batch[x] /\ job'[x] = job[x]
             /\ pc[x] # "idle"
    <2>1. job[x].upload \in Uploads
      BY <1>4 DEF TypeOK, Job
    <2>2. ocr[job[x].upload] \subseteq ocr'[job[x].upload]
      BY <2>1, OCRGrows
    <2>3. files[job[x].upload] \subseteq ocr[job[x].upload]
             => files[job[x].upload] \subseteq ocr'[job[x].upload]
      BY <2>2
    <2> QED
      BY <1>0, <1>2, <1>4, <2>2, <2>3 DEF OCRComplete
  <1>5. ASSUME StepAction(x) PROVE P(x)'
    <2>1. /\ job' = job /\ job[x].upload \in Uploads /\ pc[x] # "idle"
          /\ pc \in [Workers -> PCs] /\ batch \in [Workers -> SUBSET Positions]
          /\ ocr \in [Uploads -> SUBSET Positions]
      BY <1>5, StepFrame DEF StepKeeps, TypeOK, Job, StoreTypeOK
    <2>2. CASE MarkProcessing(x) \/ MarkCompleted(x) \/ DeleteAnalysis(x)
      <3>1. pc'[x] \in {"done", "error"} /\ job[x].hop # "ocr"
        BY <2>1, <2>2, SingleCallMoves
           DEF Moves, MarkProcessing, MarkCompleted, DeleteAnalysis, At
      <3> QED
        BY <2>1, <3>1
    <2>3. CASE ListForOCR(x)
      BY <1>0, <2>1, <2>3 DEF ListForOCR, StepFails, Goto, At, storeVars, OCRComplete
    <2>4. CASE ExtractOne(x)
      <3>1. CASE StepFails(x)
        BY <2>1, <3>1 DEF StepFails, Goto
      <3>2. CASE ~ StepFails(x)
        <4>1. /\ ocr' = [ocr EXCEPT ![job[x].upload]
                             = @ \cup {FirstOf(batch[x])}]
              /\ batch' = [batch EXCEPT ![x] = @ \ {FirstOf(batch[x])}]
              /\ pc' = pc /\ pc[x] = "extract"
          BY <2>4, <3>2 DEF ExtractOne, CallFails, Committed, SetUploadFileOCR, At
        <4> QED
          BY <1>0, <1>2, <2>1, <4>1
      <3> QED
        BY <3>1, <3>2
    <2>5. CASE FinishOCR(x)
      <3>1. /\ pc[x] = "extract" /\ batch[x] = {} /\ pc'[x] = "done"
            /\ UNCHANGED ocr
        BY <2>1, <2>5 DEF FinishOCR, StepSucceeds, Goto, At, storeVars
      <3> QED
        BY <1>0, <1>2, <2>1, <3>1 DEF OCRComplete
    <2>6. CASE ListForAnalysis(x)
      <3>1. job[x].hop = "analyze"
        BY <2>6 DEF ListForAnalysis, At
      <3>2. CASE StepFails(x)
        BY <2>1, <3>2 DEF StepFails, Goto
      <3>3. CASE ~ StepFails(x)
        <4>1. pc'[x] = "model" /\ batch'[x] = files[job[x].upload]
          BY <2>1, <2>6, <3>3 DEF ListForAnalysis, Goto
        <4> QED
          BY <1>0, <2>1, <4>1
      <3> QED
        BY <3>2, <3>3
    <2>7. CASE AskModel(x)
      <3>1. CASE StepFails(x)
        BY <2>1, <3>1 DEF StepFails, Goto
      <3>2. CASE ~ StepFails(x)
        <4>1. pc[x] = "model" /\ pc'[x] = "replace" /\ batch' = batch
          BY <2>1, <2>7, <3>2 DEF AskModel, CallFails, Goto, At
        <4> QED
          BY <1>0, <1>2, <2>1, <4>1
      <3> QED
        BY <3>1, <3>2
    <2>8. CASE CommitAnalysis(x)
      <3>1. job[x].hop = "analyze" /\ pc'[x] \in {"done", "error"}
        BY <2>1, <2>8 DEF CommitAnalysis, At, CallFails, StepFails, Goto, CommitOutcomes
      <3> QED
        BY <2>1, <3>1
    <2> QED
      BY <1>5, <2>2, <2>3, <2>4, <2>5, <2>6, <2>7, <2>8 DEF StepAction
  <1>6. ASSUME NEW w \in Workers, w # x, StepAction(w) PROVE P(x)'
    <2>1. job' = job
      BY <1>6, StepFrame DEF StepKeeps
    <2>2. \/ pc'[x] = pc[x] /\ batch'[x] = batch[x]
          \/ pc'[x] = "error"
      BY <1>6, StepFrame
    <2> QED
      BY <1>3, <1>4, <2>1, <2>2
  <1>7. ASSUME NEW w \in Workers, SagaAction(w) PROVE P(x)'
    <2>1. CASE w = x
      <3>1. pc'[x] \in {"idle", "ack", "onFailed", "onCompensationFailed"}
        BY <1>7, <2>1, SagaFrame DEF Goto, Forget, TypeOK
      <3> QED
        BY <1>3, <3>1
    <2>2. CASE w # x
      <3>1. pc'[x] = pc[x] /\ batch'[x] = batch[x] /\ job'[x] = job[x]
        BY <1>7, <2>2, SagaFrame DEF Goto, Forget, TypeOK
      <3> QED
        BY <1>3, <1>4, <3>1
    <2> QED
      BY <2>1, <2>2
  <1>8. ASSUME NEW w \in Workers, Dequeue(w) \/ Crash(w) \/ Stall(w) PROVE P(x)'
    <2>1. \/ pc'[x] = pc[x] /\ batch'[x] = batch[x] /\ job'[x] = job[x]
          \/ pc'[x] \in {"start", "idle"}
      BY <1>8 DEF Dequeue, Crash, Stall, Forget, workerVars, TypeOK
    <2> QED
      BY <1>3, <1>4, <2>1
  <1>9. CASE UNCHANGED <<pc, batch, job>>
    BY <1>3, <1>4, <1>9
  <1> QED
    BY <1>5, <1>6, <1>7, <1>8, <1>9
       DEF PipelineNext, PipelineStep, Work, Poll, pipelineVars, workerVars, Enqueue

\* The inductive step.
LEMMA OCRStep == TypeOK /\ OCRInv /\ [PipelineNext]_pipelineVars => OCRInv'
  <1>1. QED
    BY QueuedAfterOCRStep, RunningAfterOCRStep, CompletedAfterOCRStep,
       AnalysisIsWholeStep, OCRProgressStep DEF OCRInv, OCRGuaranteed

\* Whatever fails, crashes, stalls or runs twice, no message for analyze or a
\* later step exists, and no upload is completed, before every file of the
\* upload has been through OCR.
THEOREM OCRCorrect == PipelineSpec => []OCRGuaranteed
  <1>1. OCRInv => OCRGuaranteed
    BY DEF OCRInv
  <1>2. QED
    BY <1>1, OCRInit, OCRStep, TypeCorrect, PTL DEF PipelineSpec

\* Whatever fails, crashes, stalls or runs twice, an upload has at most one
\* analysis and it was computed from all of the upload's files.
THEOREM AnalysisCorrect == PipelineSpec => []AnalysisIsWhole
  <1>1. OCRInv => AnalysisIsWhole
    BY DEF OCRInv
  <1>2. QED
    BY <1>1, OCRInit, OCRStep, TypeCorrect, PTL DEF PipelineSpec

----------------------------------------------------------------------------
(* As long as no hop outlives its lease, a busy worker is the one that     *)
(* holds the lease on the slot its message is in.                          *)

LEMMA LeaseInit == PipelineInit => LeaseInv
  <1> SUFFICES ASSUME PipelineInit PROVE LeaseInv
    OBVIOUS
  <1>1. /\ lease = [m \in Slots |-> None]
        /\ pc = [w \in Workers |-> "idle"]
    BY DEF PipelineInit, QueueEmpty, WorkersIdle
  <1> QED
    BY <1>1 DEF LeaseInv

\* A message that is sent goes to a slot no worker holds.
LEMMA LeaseSend ==
    ASSUME TypeOK, LeaseInv, NEW j, Send(j), UNCHANGED <<held, job>>,
           \A x \in Workers : pc'[x] # "idle" <=> pc[x] # "idle"
    PROVE  LeaseInv'
  <1>1. PICK n \in Slots : ~ Queued(n) /\ msgs' = [msgs EXCEPT ![n] = j]
    BY SendFillsSlot
  <1>2. lease' = lease
    BY SendFillsSlot
  <1>3. ASSUME NEW w \in Workers, pc'[w] # "idle"
        PROVE  lease'[held'[w]] = w /\ msgs'[held'[w]] = job'[w]
    <2>1. /\ lease[held[w]] = w /\ msgs[held[w]] = job[w]
          /\ held[w] \in Slots /\ job[w] \in Job
      BY <1>3 DEF LeaseInv, TypeOK
    <2>2. held[w] # n
      BY <1>1, <2>1, JobAssumption DEF Queued
    <2> QED
      BY <1>1, <1>2, <2>1, <2>2 DEF TypeOK
  <1>4. ASSUME NEW m \in Slots, lease'[m] # None
        PROVE  pc'[lease'[m]] # "idle" /\ held'[lease'[m]] = m
    BY <1>2, <1>4 DEF LeaseInv, TypeOK
  <1> QED
    BY <1>3, <1>4 DEF LeaseInv

\* A worker that lets go of the slot it holds, whatever becomes of the message.
LEMMA LeaseRelease ==
    ASSUME TypeOK, LeaseInv, NEW w \in Workers, pc[w] # "idle", Forget(w),
           lease' = [lease EXCEPT ![held[w]] = None],
           \A m \in Slots \ {held[w]} : msgs'[m] = msgs[m]
    PROVE  LeaseInv'
  <1>1. ASSUME NEW x \in Workers, pc'[x] # "idle"
        PROVE  lease'[held'[x]] = x /\ msgs'[held'[x]] = job'[x]
    <2>1. /\ x # w /\ pc[x] # "idle" /\ held'[x] = held[x] /\ job'[x] = job[x]
      BY <1>1 DEF Forget, TypeOK
    <2>2. /\ held[x] \in Slots /\ lease[held[x]] = x /\ msgs[held[x]] = job[x]
      BY <2>1 DEF LeaseInv, TypeOK
    <2>3. held[x] # held[w]
      BY <2>1, <2>2 DEF LeaseInv
    <2> QED
      BY <2>1, <2>2, <2>3 DEF TypeOK
  <1>2. ASSUME NEW m \in Slots, lease'[m] # None
        PROVE  pc'[lease'[m]] # "idle" /\ held'[lease'[m]] = m
    <2>1. m # held[w] /\ lease'[m] = lease[m]
      BY <1>2 DEF TypeOK
    <2>2. /\ lease[m] \in Workers /\ pc[lease[m]] # "idle" /\ held[lease[m]] = m
      BY <1>2, <2>1 DEF LeaseInv, TypeOK
    <2>3. lease[m] # w
      BY <2>1, <2>2
    <2> QED
      BY <2>1, <2>2, <2>3 DEF Forget, TypeOK
  <1> QED
    BY <1>1, <1>2 DEF LeaseInv

LEMMA LeaseStep ==
    ASSUME "stall" \notin Faults, TypeOK, LeaseInv, [PipelineNext]_pipelineVars
    PROVE  LeaseInv'
  <1>1. ASSUME UNCHANGED <<msgs, lease, held, job>>,
               \A x \in Workers : pc'[x] # "idle" <=> pc[x] # "idle"
        PROVE  LeaseInv'
    BY <1>1 DEF LeaseInv, TypeOK
  <1>2. ASSUME NEW u \in Uploads, Enqueue(u) PROVE LeaseInv'
    BY <1>2, LeaseSend DEF Enqueue, workerVars
  <1>3. ASSUME NEW w \in Workers, Dequeue(w) PROVE LeaseInv'
    <2>1. PICK m \in Slots : /\ Receive(w, m)
                             /\ held' = [held EXCEPT ![w] = m]
                             /\ job' = [job EXCEPT ![w] = msgs[m]]
      BY <1>3 DEF Dequeue
    <2>2. /\ lease[m] = None /\ lease' = [lease EXCEPT ![m] = w] /\ msgs' = msgs
          /\ pc[w] = "idle" /\ pc' = [pc EXCEPT ![w] = "start"]
      BY <1>3, <2>1 DEF Dequeue, Receive, Visible
    <2>3. ASSUME NEW x \in Workers, pc'[x] # "idle"
          PROVE  lease'[held'[x]] = x /\ msgs'[held'[x]] = job'[x]
      <3>1. CASE x = w
        BY <2>1, <2>2, <3>1 DEF TypeOK
      <3>2. CASE x # w
        <4>1. /\ held[x] \in Slots /\ lease[held[x]] = x /\ msgs[held[x]] = job[x]
              /\ x # None
          BY <2>2, <2>3, <3>2, TaskQAssumption DEF LeaseInv, TypeOK
        <4> QED
          BY <2>1, <2>2, <3>2, <4>1 DEF TypeOK
      <3> QED
        BY <3>1, <3>2
    <2>4. ASSUME NEW n \in Slots, lease'[n] # None
          PROVE  pc'[lease'[n]] # "idle" /\ held'[lease'[n]] = n
      <3>1. CASE n = m
        BY <2>1, <2>2, <3>1 DEF TypeOK
      <3>2. CASE n # m
        <4>1. /\ lease'[n] = lease[n] /\ lease[n] \in Workers
              /\ pc[lease[n]] # "idle" /\ held[lease[n]] = n
          BY <2>2, <2>4, <3>2 DEF LeaseInv, TypeOK
        <4> QED
          BY <2>1, <2>2, <4>1 DEF TypeOK
      <3> QED
        BY <3>1, <3>2
    <2> QED
      BY <2>3, <2>4 DEF LeaseInv
  <1>4. ASSUME NEW w \in Workers, StepAction(w) PROVE LeaseInv'
    <2>1. \A x \in Workers : pc'[x] # "idle" <=> pc[x] # "idle"
      BY <1>4, StepFrame
    <2> QED
      BY <1>1, <1>4, <2>1, StepFrame DEF StepKeeps
  <1>5. ASSUME NEW w \in Workers, SagaAction(w) PROVE LeaseInv'
    <2>1. pc[w] # "idle"
      BY <1>5, SagaFrame
    <2>2. /\ held[w] \in Slots /\ lease[held[w]] = w
      BY <2>1 DEF LeaseInv, TypeOK
    <2>3. ASSUME NEW p \in {"ack", "onFailed", "onCompensationFailed"}, Goto(w, p)
          PROVE  /\ UNCHANGED <<held, job>>
                 /\ \A x \in Workers : pc'[x] # "idle" <=> pc[x] # "idle"
      BY <2>1, <2>3 DEF Goto, TypeOK
    <2>4. CASE SendNext(w)
      BY <2>3, <2>4, LeaseSend DEF SendNext
    <2>5. CASE Pivot(w)
      <3>1. \E p \in {"ack", "onFailed", "onCompensationFailed"} : Goto(w, p)
        BY <2>5 DEF Pivot
      <3>2. \/ Send(Hop(job[w].upload, "analyze_compensate"))
            \/ UNCHANGED <<msgs, lease>>
        BY <2>5 DEF Pivot, taskqVars
      <3> QED
        BY <1>1, <2>3, <3>1, <3>2, LeaseSend
    <2>6. CASE RunCompleted(w) \/ RunUnwound(w) \/ OnFailed(w)
               \/ OnCompensationFailed(w)
      <3>1. /\ UNCHANGED <<msgs, lease>>
            /\ \E p \in {"ack", "onFailed", "onCompensationFailed"} : Goto(w, p)
        BY <2>6 DEF RunCompleted, RunUnwound, OnFailed, OnCompensationFailed,
           MarkFailed, taskqVars
      <3> QED
        BY <1>1, <2>3, <3>1
    <2>7. CASE Retry(w) \/ Ack(w)
      <3>1. /\ lease' = [lease EXCEPT ![held[w]] = None]
            /\ \E j : msgs' = [msgs EXCEPT ![held[w]] = j]
            /\ Forget(w)
        BY <2>2, <2>7 DEF Retry, Ack, Reject, Acknowledge
      <3>2. \A m \in Slots \ {held[w]} : msgs'[m] = msgs[m]
        BY <3>1 DEF TypeOK
      <3> QED
        BY <2>1, <3>1, <3>2, LeaseRelease
    <2> QED
      BY <1>5, <2>4, <2>5, <2>6, <2>7 DEF SagaAction
  <1>6. ASSUME NEW w \in Workers, Crash(w) PROVE LeaseInv'
    <2>1. /\ pc[w] # "idle" /\ held[w] \in Slots /\ lease[held[w]] = w
      BY <1>6 DEF Crash, LeaseInv, TypeOK
    <2>2. /\ lease' = [lease EXCEPT ![held[w]] = None] /\ msgs' = msgs /\ Forget(w)
      BY <1>6, <2>1 DEF Crash, Expire
    <2> QED
      BY <2>1, <2>2, LeaseRelease
  <1>7. ASSUME NEW w \in Workers, Stall(w) PROVE LeaseInv'
    BY <1>7 DEF Stall
  <1>8. ASSUME UNCHANGED pipelineVars PROVE LeaseInv'
    BY <1>1, <1>8 DEF pipelineVars, taskqVars, workerVars
  <1> QED
    BY <1>2, <1>3, <1>4, <1>5, <1>6, <1>7, <1>8
       DEF PipelineNext, PipelineStep, Work, Poll

----------------------------------------------------------------------------
(* An enqueued upload that is not settled has a message that will move it. *)

\* Whatever puts a message for u in a slot nobody holds keeps u's run going.
LEMMA SendCarries ==
    ASSUME TypeOK, LeaseInv, NEW u \in Uploads, NEW h \in Hops, Send(Hop(u, h))
    PROVE  \E m \in Slots : Carries(m, u)'
  <1>1. PICK n \in Slots : ~ Queued(n) /\ msgs' = [msgs EXCEPT ![n] = Hop(u, h)]
    BY SendFillsSlot
  <1>2. lease' = lease /\ msgs'[n] = Hop(u, h)
    BY <1>1, SendFillsSlot DEF TypeOK
  <1>3. lease[n] = None
    <2> SUFFICES ASSUME lease[n] # None PROVE FALSE
      OBVIOUS
    <2>1. lease[n] \in Workers /\ pc[lease[n]] # "idle" /\ held[lease[n]] = n
      BY DEF LeaseInv, TypeOK
    <2>2. msgs[n] = job[lease[n]] /\ job[lease[n]] \in Job
      BY <2>1 DEF LeaseInv, TypeOK
    <2> QED
      BY <1>1, <2>2, JobAssumption DEF Queued
  <1>4. Hop(u, h) # None /\ Hop(u, h).upload = u
    BY HopIsJob, JobAssumption DEF Hop
  <1> QED
    BY <1>1, <1>2, <1>3, <1>4 DEF Carries, Queued

\* A message stays a carrier while its slot and its holder are left alone.
LEMMA CarriesStays ==
    ASSUME TypeOK, LeaseInv, NEW u \in Uploads, NEW m \in Slots, Carries(m, u),
           msgs'[m] = msgs[m], lease'[m] = lease[m],
           \A x \in Workers : held[x] = m /\ pc[x] # "idle" =>
              job'[x] = job[x] /\ pc'[x] \in {pc[x], "error"}
    PROVE  Carries(m, u)'
  <1>1. Queued(m)' /\ msgs'[m].upload = u
    BY DEF Carries, Queued
  <1>2. ASSUME lease'[m] # None
        PROVE  ~ (pc'[lease'[m]] = "ack")
               /\ ~ (pc'[lease'[m]] = "done" /\ job'[lease'[m]].hop = "mark_completed")
    <2>1. /\ lease[m] \in Workers /\ held[lease[m]] = m /\ pc[lease[m]] # "idle"
          /\ ~ Spent(lease[m])
      BY <1>2 DEF LeaseInv, TypeOK, Carries
    <2>2. job'[lease[m]] = job[lease[m]] /\ pc'[lease[m]] \in {pc[lease[m]], "error"}
      BY <2>1
    <2> QED
      BY <2>1, <2>2 DEF Spent, At
  <1> QED
    BY <1>1, <1>2 DEF Carries, Spent, At

\* A busy worker's own message carries its upload if the worker goes on.
LEMMA HolderCarries ==
    ASSUME TypeOK, LeaseInv, NEW w \in Workers, pc[w] # "idle",
           NEW u \in Uploads, job[w].upload = u,
           UNCHANGED <<msgs, lease, job>>, pc'[w] # "ack",
           pc'[w] = "done" => job[w].hop # "mark_completed"
    PROVE  \E m \in Slots : Carries(m, u)'
  <1>1. PICK m \in Slots : m = held[w]
    BY DEF TypeOK
  <1>2. job[w] \in Job /\ lease[m] = w /\ msgs[m] = job[w]
    BY <1>1 DEF LeaseInv, TypeOK
  <1>3. msgs'[m] # None /\ msgs'[m].upload = u
    BY <1>2, JobAssumption
  <1>4. lease'[m] = w /\ ~ (pc'[w] = "done" /\ job'[w].hop = "mark_completed")
    BY <1>2
  <1>5. Carries(m, u)'
    BY <1>3, <1>4 DEF Carries, Queued, Spent, At
  <1> QED
    BY <1>5

\* The step: who still carries u's run after it.
LEMMA CarrierStep ==
    ASSUME "stall" \notin Faults, "unrecorded" \notin Faults, TypeOK, CarrierInv,
           [PipelineNext]_pipelineVars
    PROVE  CarrierInv'
  <1>0. LeaseInv
    BY DEF CarrierInv
  <1> SUFFICES ASSUME NEW u \in Uploads, starts'[u] > 0,
                      status'[u] \in {"pending", "processing"}
               PROVE  \E m \in Slots : Carries(m, u)'
    BY <1>0, LeaseStep DEF CarrierInv
  <1>1. ASSUME starts[u] > 0, status[u] = status'[u]
        PROVE  \E m \in Slots : Carries(m, u)
    BY <1>1 DEF CarrierInv
  <1>2. ASSUME NEW v \in Uploads, Enqueue(v)
        PROVE  \E m \in Slots : Carries(m, u)'
    <2>1. Send(Hop(v, "mark_processing")) /\ "mark_processing" \in Hops
      BY <1>2 DEF Enqueue, Hops, Steps
    <2>2. CASE v = u
      BY <1>0, <2>1, <2>2, SendCarries
    <2>3. CASE v # u
      <3>1. starts[u] > 0 /\ status[u] = status'[u] /\ UNCHANGED <<pc, job>>
        BY <1>2, <2>3 DEF Enqueue, storeVars, workerVars, TypeOK
      <3>2. PICK m \in Slots : Carries(m, u)
        BY <1>1, <3>1
      <3>3. msgs'[m] = msgs[m] /\ lease'[m] = lease[m]
        BY <2>1, <3>2, SendFillsSlot DEF Carries, TypeOK
      <3> QED
        BY <1>0, <3>1, <3>2, <3>3, CarriesStays
    <2> QED
      BY <2>2, <2>3
  <1>3. ASSUME NEW w \in Workers, Dequeue(w)
        PROVE  \E m \in Slots : Carries(m, u)'
    <2>1. starts[u] > 0 /\ status[u] = status'[u] /\ UNCHANGED msgs /\ pc[w] = "idle"
      BY <1>3 DEF Dequeue, storeVars, Receive
    <2>2. PICK n \in Slots : /\ lease[n] = None
                             /\ lease' = [lease EXCEPT ![n] = w]
                             /\ job' = [job EXCEPT ![w] = msgs[n]]
      BY <1>3 DEF Dequeue, Receive, Visible
    <2>3. pc' = [pc EXCEPT ![w] = "start"]
      BY <1>3 DEF Dequeue
    <2>4. PICK m \in Slots : Carries(m, u)
      BY <1>1, <2>1
    <2>5. CASE m = n
      <3>1. lease'[m] = w /\ pc'[w] = "start"
        BY <2>2, <2>3, <2>5 DEF TypeOK
      <3> QED
        BY <2>1, <2>4, <3>1 DEF Carries, Queued, Spent, At
    <2>6. CASE m # n
      <3>1. /\ msgs'[m] = msgs[m] /\ lease'[m] = lease[m]
            /\ \A x \in Workers : pc[x] # "idle" =>
                  job'[x] = job[x] /\ pc'[x] = pc[x]
        BY <2>1, <2>2, <2>3, <2>6 DEF TypeOK
      <3> QED
        BY <1>0, <2>4, <3>1, CarriesStays
    <2> QED
      BY <2>5, <2>6
  <1>4. ASSUME NEW w \in Workers, StepAction(w)
        PROVE  \E m \in Slots : Carries(m, u)'
    <2>1. /\ UNCHANGED <<msgs, lease, starts, job, held>> /\ pc[w] # "idle"
          /\ pc'[w] # "ack"
          /\ \A x \in Workers \ {w} : pc'[x] \in {pc[x], "error"}
      BY <1>4, StepFrame DEF StepKeeps
    <2>2. /\ job[w] \in Job /\ held[w] \in Slots /\ job[w].upload \in Uploads
          /\ lease[held[w]] = w /\ msgs[held[w]] = job[w]
      BY <1>0, <2>1 DEF TypeOK, LeaseInv, Job
    <2>3. CASE job[w].upload = u
      <3>1. CASE job[w].hop = "mark_completed" /\ pc'[w] = "done"
        <4>1. MarkCompleted(w)
          BY <1>4, <3>1 DEF StepAction, MarkProcessing, ListForOCR, FinishOCR,
             ExtractOne, ListForAnalysis, AskModel, CommitAnalysis, DeleteAnalysis, At
        <4>2. ~ CallFails(w)
          BY <3>1 DEF CallFails, StepFails, Goto, TypeOK
        <4>3. status'[u] = "completed"
          BY <2>3, <4>1, <4>2 DEF MarkCompleted, Committed, SetUploadStatus, TypeOK,
             StoreTypeOK
        <4> QED
          BY <4>3
      <3>2. CASE ~ (job[w].hop = "mark_completed" /\ pc'[w] = "done")
        BY <1>0, <2>1, <2>3, <3>2, HolderCarries
      <3> QED
        BY <3>1, <3>2
    <2>4. CASE job[w].upload # u
      <3>1. status'[u] = status[u]
        BY <1>4, <2>2, <2>4 DEF StepAction, MarkProcessing, ListForOCR, FinishOCR,
           ExtractOne, ListForAnalysis, AskModel, CommitAnalysis, DeleteAnalysis,
           MarkCompleted, CallFails, Committed, storeVars, SetUploadStatus,
           SetUploadFileOCR, ReplaceAnalysis, DeleteAnalysisByUpload, TypeOK,
           StoreTypeOK
      <3>2. PICK m \in Slots : Carries(m, u)
        BY <1>1, <2>1, <3>1
      <3>3. m # held[w]
        BY <2>2, <2>4, <3>2 DEF Carries
      <3> QED
        BY <1>0, <2>1, <3>2, <3>3, CarriesStays
    <2> QED
      BY <2>3, <2>4
  <1>5. ASSUME NEW w \in Workers, SagaAction(w)
        PROVE  \E m \in Slots : Carries(m, u)'
    <2>1. /\ starts' = starts /\ pc[w] # "idle"
          /\ \A x \in Workers \ {w} : pc'[x] = pc[x] /\ job'[x] = job[x]
      BY <1>5, SagaFrame DEF Goto, Forget, TypeOK
    <2>2. /\ job[w] \in Job /\ held[w] \in Slots /\ job[w].upload \in Uploads
          /\ lease[held[w]] = w /\ msgs[held[w]] = job[w]
      BY <1>0, <2>1 DEF TypeOK, LeaseInv, Job
    <2>3. ASSUME NEW h \in Hops, Send(Hop(job[w].upload, h)), status'[u] = status[u]
          PROVE  \E m \in Slots : Carries(m, u)'
      <3>1. CASE job[w].upload = u
        BY <1>0, <2>3, <3>1, SendCarries
      <3>2. CASE job[w].upload # u
        <4>1. PICK m \in Slots : Carries(m, u)
          BY <1>1, <2>1, <2>3
        <4>2. m # held[w]
          BY <2>2, <3>2, <4>1 DEF Carries
        <4>3. msgs'[m] = msgs[m] /\ lease'[m] = lease[m]
          BY <2>3, <4>1, SendFillsSlot DEF Carries, TypeOK
        <4> QED
          BY <1>0, <2>1, <4>1, <4>2, <4>3, CarriesStays
      <3> QED
        BY <3>1, <3>2
    <2>4. ASSUME status'[u] = status[u], job[w].upload # u \/ Spent(w),
                 \A m \in Slots \ {held[w]} : msgs'[m] = msgs[m] /\ lease'[m] = lease[m]
          PROVE  \E m \in Slots : Carries(m, u)'
      <3>1. PICK m \in Slots : Carries(m, u)
        BY <1>1, <2>1, <2>4
      <3>2. m # held[w]
        BY <2>2, <2>4, <3>1, TaskQAssumption DEF Carries
      <3> QED
        BY <1>0, <2>1, <2>4, <3>1, <3>2, CarriesStays
    <2>5. CASE SendNext(w)
      <3>1. NextStep[job[w].hop] \in Hops /\ status'[u] = status[u]
        BY <2>5 DEF SendNext, NextStep, Hops, Steps, storeVars
      <3> QED
        BY <2>3, <2>5, <3>1 DEF SendNext
    <2>6. CASE RunCompleted(w)
      BY <2>4, <2>6 DEF RunCompleted, Spent, taskqVars, storeVars
    <2>7. CASE RunUnwound(w)
      <3>1. /\ UNCHANGED <<msgs, lease, job, status>> /\ pc'[w] = "onFailed"
        BY <2>7 DEF RunUnwound, Goto, taskqVars, storeVars, TypeOK
      <3> QED
        BY <1>0, <2>1, <2>4, <3>1, HolderCarries
    <2>8. CASE Pivot(w)
      <3>1. status'[u] = status[u]
        BY <2>8 DEF Pivot, storeVars
      <3>2. CASE job[w].hop = "mark_completed"
        <4>1. Send(Hop(job[w].upload, "analyze_compensate"))
              /\ "analyze_compensate" \in Hops
          BY <2>8, <3>2 DEF Pivot, Hops
        <4> QED
          BY <2>3, <3>1, <4>1
      <3>3. CASE job[w].hop # "mark_completed"
        <4>1. /\ UNCHANGED <<msgs, lease, job>>
              /\ pc'[w] \in {"onFailed", "onCompensationFailed"}
          BY <2>8, <3>3 DEF Pivot, Goto, taskqVars, TypeOK
        <4> QED
          BY <1>0, <2>1, <2>4, <3>1, <4>1, HolderCarries
      <3> QED
        BY <3>2, <3>3
    <2>9. CASE OnFailed(w) \/ OnCompensationFailed(w)
      <3>1. /\ \E r : SetUploadStatus(job[w].upload, "failed", r)
            /\ UNCHANGED <<msgs, lease>>
        BY <2>9 DEF OnFailed, OnCompensationFailed, MarkFailed, taskqVars
      <3>2. /\ job[w].upload = u => status'[u] = "failed"
            /\ job[w].upload # u => status'[u] = status[u]
        BY <2>2, <3>1 DEF SetUploadStatus, TypeOK, StoreTypeOK
      <3> QED
        BY <2>4, <3>1, <3>2
    <2>10. CASE Retry(w)
      <3> DEFINE j == [job[w] EXCEPT !.attempts = @ + 1]
      <3>1. /\ msgs' = [msgs EXCEPT ![held[w]] = j]
            /\ lease' = [lease EXCEPT ![held[w]] = None]
            /\ status' = status
        BY <2>2, <2>10 DEF Retry, Reject, storeVars
      <3>2. CASE job[w].upload = u
        <4>1. PICK m \in Slots : m = held[w]
          BY <2>2
        <4>2. j \in Job /\ j.upload = u
          BY <2>2, <2>10, <3>2, PipelineAssumption DEF Retry, Job
        <4>3. msgs'[m] # None /\ msgs'[m].upload = u /\ lease'[m] = None
          BY <3>1, <4>1, <4>2, JobAssumption DEF TypeOK
        <4>4. Carries(m, u)'
          BY <4>3 DEF Carries, Queued
        <4> QED
          BY <4>4
      <3>3. CASE job[w].upload # u
        BY <2>4, <3>1, <3>3 DEF TypeOK
      <3> QED
        BY <3>2, <3>3
    <2>11. CASE Ack(w)
      <3>1. /\ msgs' = [msgs EXCEPT ![held[w]] = None]
            /\ lease' = [lease EXCEPT ![held[w]] = None]
            /\ status' = status /\ Spent(w)
        BY <2>2, <2>11 DEF Ack, Acknowledge, storeVars, Spent
      <3> QED
        BY <2>4, <3>1 DEF TypeOK
    <2> QED
      BY <1>5, <2>5, <2>6, <2>7, <2>8, <2>9, <2>10, <2>11 DEF SagaAction
  <1>6. ASSUME NEW w \in Workers, Crash(w)
        PROVE  \E m \in Slots : Carries(m, u)'
    <2>1. /\ UNCHANGED <<msgs, starts, status>> /\ pc[w] # "idle" /\ Forget(w)
          /\ lease' = [lease EXCEPT ![held[w]] = None]
      BY <1>0, <1>6 DEF Crash, Expire, LeaseInv, storeVars
    <2>2. PICK m \in Slots : Carries(m, u)
      BY <1>1, <2>1
    <2>3. CASE m = held[w]
      <3>1. lease'[m] = None
        BY <2>1, <2>3 DEF TypeOK
      <3> QED
        BY <2>1, <2>2, <3>1 DEF Carries, Queued
    <2>4. CASE m # held[w]
      <3>1. /\ lease'[m] = lease[m]
            /\ \A x \in Workers : held[x] = m => pc'[x] = pc[x] /\ job'[x] = job[x]
        BY <2>1, <2>4 DEF Forget, TypeOK
      <3> QED
        BY <1>0, <2>1, <2>2, <3>1, CarriesStays
    <2> QED
      BY <2>3, <2>4
  <1>7. ASSUME NEW w \in Workers, Stall(w) PROVE FALSE
    BY <1>7 DEF Stall
  <1>8. ASSUME UNCHANGED pipelineVars
        PROVE  \E m \in Slots : Carries(m, u)'
    <2>1. UNCHANGED <<msgs, lease, pc, job, held, starts, status>>
      BY <1>8 DEF pipelineVars, taskqVars, workerVars, storeVars
    <2> QED
      BY <1>0, <1>1, <2>1, CarriesStays
  <1> QED
    BY <1>2, <1>3, <1>4, <1>5, <1>6, <1>7, <1>8
       DEF PipelineNext, PipelineStep, Work, Poll

\* However often steps fail and workers are killed, a busy worker holds the
\* lease on its message, and a run that is not settled has a message that will
\* still move it, provided no hop outlives its lease and the write of the failed
\* status succeeds.
THEOREM CarrierCorrect ==
    ASSUME "stall" \notin Faults, "unrecorded" \notin Faults
    PROVE  PipelineSpec => []CarrierInv
  <1>1. PipelineInit => CarrierInv
    <2> SUFFICES ASSUME PipelineInit PROVE CarrierInv
      OBVIOUS
    <2>1. starts = [u \in Uploads |-> 0]
      BY DEF PipelineInit
    <2> QED
      BY <2>1, LeaseInit DEF CarrierInv
  <1>2. TypeOK /\ CarrierInv /\ [PipelineNext]_pipelineVars => CarrierInv'
    BY CarrierStep
  <1>3. QED
    BY <1>1, <1>2, TypeCorrect, PTL DEF PipelineSpec

\* So an upload that was enqueued and is not settled has work queued or in a
\* worker's hands, under the same provisos.
THEOREM NothingStranded ==
    ASSUME "stall" \notin Faults, "unrecorded" \notin Faults
    PROVE  PipelineSpec => []NoStrandedRun
  <1>1. CarrierInv => NoStrandedRun
    BY DEF CarrierInv, NoStrandedRun, Carries, WorkRemains
  <1>2. QED
    BY <1>1, CarrierCorrect, PTL
============================================================================
