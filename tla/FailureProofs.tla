--------------------------- MODULE FailureProofs ---------------------------
(***************************************************************************)
(* Theorems about failures, for every value of the constants.              *)
(*                                                                         *)
(* A completed upload has its analysis until a call of a step has failed.  *)
(*                                                                         *)
(* The messages of the failures are scrubbed: no secret is left in them,   *)
(* nor a part of one that was replaced, whatever is configured.            *)
(***************************************************************************)
EXTENDS PipelineHistory, Failures, PipelineProofs, Folding

\* The uploads that have an analysis.
Analysed == {u \in Uploads : HasAnalysis(u)}

\* Until a call has failed nothing is compensated, and mark_completed is only
\* asked for, and only run, for an upload that has its analysis.
QueueInv ==
    \A m \in Slots : Queued(m) =>
        /\ msgs[m].hop # "analyze_compensate"
        /\ msgs[m].hop = "mark_completed" => msgs[m].upload \in Analysed

RunInv ==
    \A w \in Workers : pc[w] # "idle" =>
        /\ job[w].hop # "analyze_compensate"
        /\ job[w].hop = "mark_completed" => job[w].upload \in Analysed

\* An analyze step that is done has committed; it is the only step that fails,
\* when another commit has overtaken its own.
AnalyzeInv ==
    \A w \in Workers :
        /\ pc[w] \in {"model", "replace", "error"} => job[w].hop = "analyze"
        /\ pc[w] = "done" /\ job[w].hop = "analyze" => job[w].upload \in Analysed

CalmInv == QueueInv /\ RunInv /\ AnalyzeInv /\ CompletedHasAnalysis

LEMMA CalmInit == PipelineInit => CalmInv
  BY DEF PipelineInit, WorkersIdle, QueueEmpty, CalmInv, QueueInv, RunInv,
         AnalyzeInv, CompletedHasAnalysis, Queued

\* A step that does not commit an analysis does not fail while no call does.
LEMMA NoFailure ==
    ASSUME TypeOK, NEW w \in Workers, ~ CallFailed, pc[w] # "error",
           \A x \in Workers \ {w} : pc'[x] = pc[x], pc[w] # "replace"
    PROVE  pc'[w] # "error"
  BY DEF CallFailed

\* The replacing transaction leaves a row of its upload.
LEMMA ReplacedIsThere ==
    ASSUME NEW u, NEW S, ReplaceAnalysis(u, S)
    PROVE  \E a \in analyses' : a.upload = u
  <1> DEFINE row == [upload |-> u, statements |-> S]
  <1>1. row \in analyses'
    BY DEF ReplaceAnalysis
  <1>2. row.upload = u
    OBVIOUS
  <1> HIDE DEF row
  <1> QED
    BY <1>1, <1>2

\* An analysis is there to stay: only the compensation deletes one.
LEMMA AnalysesStay ==
    ASSUME TypeOK, RunInv, [PipelineNext]_pipelineVars
    PROVE  Analysed \subseteq Analysed'
  <1> SUFFICES ASSUME NEW u \in Uploads, HasAnalysis(u)
               PROVE  HasAnalysis(u)'
    BY DEF Analysed
  <1>1. ASSUME analyses \subseteq analyses' PROVE HasAnalysis(u)'
    BY <1>1 DEF HasAnalysis
  <1>2. ASSUME NEW w \in Workers, StepAction(w) PROVE HasAnalysis(u)'
    <2>1. CASE CommitAnalysis(w)
      <3>1. CASE UNCHANGED storeVars
        BY <1>1, <3>1 DEF storeVars
      <3>2. CASE ReplaceAnalysis(job[w].upload, batch[w])
        <4>1. PICK a \in analyses : a.upload = u
          BY DEF HasAnalysis
        <4>2. CASE u = job[w].upload
          BY <3>2, <4>2, ReplacedIsThere DEF HasAnalysis
        <4>3. CASE u # job[w].upload
          BY <3>2, <4>1, <4>3 DEF ReplaceAnalysis, OtherAnalyses, HasAnalysis
        <4> QED
          BY <4>2, <4>3
      <3> QED
        BY <2>1, <3>1, <3>2 DEF CommitAnalysis, CallFails
    <2>2. CASE DeleteAnalysis(w)
      BY <2>2 DEF DeleteAnalysis, At, RunInv
    <2>3. CASE MarkProcessing(w) \/ MarkCompleted(w)
      BY <1>1, <2>3 DEF MarkProcessing, MarkCompleted, CallFails, Committed,
         SetUploadStatus, storeVars
    <2>4. CASE ListForOCR(w) \/ ExtractOne(w) \/ FinishOCR(w)
      BY <1>1, <2>4 DEF ListForOCR, ExtractOne, FinishOCR, CallFails, Committed,
         SetUploadFileOCR, storeVars
    <2>5. CASE ListForAnalysis(w) \/ AskModel(w)
      BY <1>1, <2>5 DEF ListForAnalysis, AskModel, CallFails, storeVars
    <2> QED
      BY <1>2, <2>1, <2>2, <2>3, <2>4, <2>5 DEF StepAction
  <1>3. ASSUME NEW w \in Workers, SagaAction(w) PROVE HasAnalysis(u)'
    BY <1>1, <1>3, SagaFrame
  <1>4. ASSUME UNCHANGED storeVars PROVE HasAnalysis(u)'
    BY <1>1, <1>4 DEF storeVars
  <1> QED
    BY <1>2, <1>3, <1>4
       DEF PipelineNext, PipelineStep, Work, Poll, pipelineVars, Enqueue,
           Dequeue, Crash, Stall

----------------------------------------------------------------------------
(* The queue.                                                              *)

LEMMA CalmSend ==
    ASSUME TypeOK, CalmInv, [PipelineNext]_pipelineVars,
           NEW u \in Uploads, NEW h \in Hops, Send(Hop(u, h)),
           h # "analyze_compensate", h = "mark_completed" => u \in Analysed
    PROVE  QueueInv'
  <1>1. PICK m \in Slots : ~ Queued(m) /\ msgs' = [msgs EXCEPT ![m] = Hop(u, h)]
    BY SendFillsSlot
  <1> SUFFICES ASSUME NEW n \in Slots, Queued(n)'
               PROVE  /\ msgs'[n].hop # "analyze_compensate"
                      /\ msgs'[n].hop = "mark_completed"
                            => msgs'[n].upload \in Analysed'
    BY DEF QueueInv
  <1>2. RunInv /\ QueueInv
    BY DEF CalmInv
  <1>3. CASE n = m
    <2>1. msgs'[n] = Hop(u, h)
      BY <1>1, <1>3 DEF TypeOK
    <2>2. msgs'[n].hop = h /\ msgs'[n].upload = u
      BY <2>1 DEF Hop
    <2> QED
      BY <1>2, <2>2, AnalysesStay
  <1>4. CASE n # m
    <2>1. msgs'[n] = msgs[n] /\ Queued(n)
      BY <1>1, <1>4 DEF TypeOK, Queued
    <2>2. msgs[n].upload \in Uploads
      BY <2>1 DEF TypeOK, Queued, Job
    <2> QED
      BY <1>2, <2>1, <2>2, AnalysesStay DEF QueueInv
  <1> QED
    BY <1>3, <1>4

LEMMA CalmNoSend ==
    ASSUME TypeOK, CalmInv, [PipelineNext]_pipelineVars,
           \A n \in Slots : msgs'[n] \in {msgs[n], None}
    PROVE  QueueInv'
  <1> SUFFICES ASSUME NEW n \in Slots, Queued(n)'
               PROVE  /\ msgs'[n].hop # "analyze_compensate"
                      /\ msgs'[n].hop = "mark_completed"
                            => msgs'[n].upload \in Analysed'
    BY DEF QueueInv
  <1>1. msgs'[n] = msgs[n] /\ Queued(n)
    BY DEF Queued
  <1>2. msgs[n].upload \in Uploads
    BY <1>1 DEF TypeOK, Queued, Job
  <1> QED
    BY <1>1, <1>2, AnalysesStay DEF QueueInv, CalmInv

LEMMA CalmReject ==
    ASSUME TypeOK, CalmInv, [PipelineNext]_pipelineVars,
           NEW w \in Workers, pc[w] = "error",
           Reject(w, held[w], [job[w] EXCEPT !.attempts = @ + 1])
    PROVE  QueueInv'
  <1>1. held[w] \in Slots /\ job[w] \in Job /\ job[w].hop = "analyze"
    BY DEF TypeOK, CalmInv, AnalyzeInv
  <1>2. CASE UNCHANGED taskqVars
    BY <1>2, CalmNoSend DEF taskqVars
  <1>3. CASE msgs' = [msgs EXCEPT ![held[w]] =
                         [job[w] EXCEPT !.attempts = @ + 1]]
    <2> SUFFICES ASSUME NEW n \in Slots, Queued(n)'
                 PROVE  /\ msgs'[n].hop # "analyze_compensate"
                        /\ msgs'[n].hop = "mark_completed"
                              => msgs'[n].upload \in Analysed'
      BY DEF QueueInv
    <2>1. CASE n = held[w]
      <3>1. msgs'[n].hop = "analyze"
        BY <1>1, <1>3, <2>1 DEF TypeOK, Job
      <3> QED
        BY <3>1
    <2>2. CASE n # held[w]
      <3>1. msgs'[n] = msgs[n] /\ Queued(n)
        BY <1>3, <2>2 DEF TypeOK, Queued
      <3>2. msgs[n].upload \in Uploads
        BY <3>1 DEF TypeOK, Queued, Job
      <3> QED
        BY <3>1, <3>2, AnalysesStay DEF QueueInv, CalmInv
    <2> QED
      BY <2>1, <2>2
  <1> QED
    BY <1>2, <1>3 DEF Reject

LEMMA QueueStep ==
    ASSUME TypeOK, CalmInv, [PipelineNext]_pipelineVars
    PROVE  QueueInv'
  <1>1. ASSUME UNCHANGED msgs PROVE QueueInv'
    BY <1>1, CalmNoSend
  <1>2. ASSUME NEW u \in Uploads, Enqueue(u) PROVE QueueInv'
    <2>1. Send(Hop(u, "mark_processing")) /\ "mark_processing" \in Hops
      BY <1>2 DEF Enqueue, Hops, Steps
    <2> QED
      BY <2>1, CalmSend
  <1>3. ASSUME NEW w \in Workers, Dequeue(w) \/ Stall(w) \/ Crash(w)
        PROVE  QueueInv'
    BY <1>1, <1>3 DEF Dequeue, Receive, Stall, Crash, Expire, taskqVars
  <1>4. ASSUME NEW w \in Workers, StepAction(w) PROVE QueueInv'
    BY <1>1, <1>4, StepFrame DEF StepKeeps, taskqVars
  <1>5. ASSUME NEW w \in Workers, SagaAction(w) PROVE QueueInv'
    <2>1. CASE SendNext(w)
      <3>1. /\ pc[w] = "done" /\ job[w].hop \in DOMAIN NextStep
            /\ Send(Hop(job[w].upload, NextStep[job[w].hop]))
        BY <2>1 DEF SendNext
      <3>2. job[w].upload \in Uploads
        BY <3>1 DEF TypeOK, Job
      <3>3. job[w].hop \in {"mark_processing", "ocr", "analyze"}
        BY <3>1 DEF NextStep
      <3>4. /\ NextStep[job[w].hop] \in {"ocr", "analyze", "mark_completed"}
            /\ NextStep[job[w].hop] = "mark_completed" => job[w].hop = "analyze"
        BY <3>3 DEF NextStep
      <3>5. NextStep[job[w].hop] = "mark_completed" => job[w].upload \in Analysed
        BY <3>1, <3>4 DEF CalmInv, AnalyzeInv
      <3>6. NextStep[job[w].hop] \in Hops
        BY <3>4 DEF Hops, Steps
      <3> QED
        BY <3>1, <3>2, <3>4, <3>5, <3>6, CalmSend
    <2>2. CASE Pivot(w)
      <3>1. job[w].hop = "analyze"
        BY <2>2 DEF Pivot, BudgetSpent, CalmInv, AnalyzeInv
      <3> QED
        BY <1>1, <2>2, <3>1 DEF Pivot, taskqVars
    <2>3. CASE Retry(w)
      BY <2>3, CalmReject DEF Retry
    <2>4. CASE Ack(w)
      <3>1. \A n \in Slots : msgs'[n] \in {msgs[n], None}
        BY <2>4 DEF Ack, Acknowledge, taskqVars, TypeOK
      <3> QED
        BY <3>1, CalmNoSend
    <2>5. CASE RunCompleted(w) \/ RunUnwound(w) \/ OnFailed(w)
               \/ OnCompensationFailed(w)
      BY <1>1, <2>5 DEF RunCompleted, RunUnwound, OnFailed, MarkFailed,
         OnCompensationFailed, taskqVars
    <2> QED
      BY <1>5, <2>1, <2>2, <2>3, <2>4, <2>5 DEF SagaAction
  <1> QED
    BY <1>1, <1>2, <1>3, <1>4, <1>5
       DEF PipelineNext, PipelineStep, Work, Poll, pipelineVars, taskqVars

----------------------------------------------------------------------------
(* The workers.                                                            *)

LEMMA RunStep ==
    ASSUME TypeOK, CalmInv, [PipelineNext]_pipelineVars
    PROVE  RunInv'
  <1> SUFFICES ASSUME NEW x \in Workers, pc'[x] # "idle"
               PROVE  /\ job'[x].hop # "analyze_compensate"
                      /\ job'[x].hop = "mark_completed"
                            => job'[x].upload \in Analysed'
    BY DEF RunInv
  <1>0. RunInv /\ QueueInv
    BY DEF CalmInv
  <1>1. CASE pc[x] # "idle" /\ job'[x] = job[x]
    <2>1. job[x].upload \in Uploads
      BY <1>1 DEF TypeOK, Job
    <2> QED
      BY <1>0, <1>1, <2>1, AnalysesStay DEF RunInv
  <1>2. CASE \E m \in Slots : Queued(m) /\ job'[x] = msgs[m]
    <2>1. PICK m \in Slots : Queued(m) /\ job'[x] = msgs[m]
      BY <1>2
    <2>2. msgs[m].upload \in Uploads
      BY <2>1 DEF TypeOK, Queued, Job
    <2> QED
      BY <1>0, <2>1, <2>2, AnalysesStay DEF QueueInv
  <1> QED
    BY <1>1, <1>2, WorkerStep

\* While no call fails, each step of analyze goes on to the next, and its commit
\* leaves an analysis.
LEMMA AnalyzeStep ==
    ASSUME TypeOK, CalmInv, [PipelineNext]_pipelineVars, ~ CallFailed
    PROVE  AnalyzeInv'
  <1> SUFFICES ASSUME NEW x \in Workers
               PROVE  /\ pc'[x] \in {"model", "replace", "error"}
                            => job'[x].hop = "analyze"
                      /\ pc'[x] = "done" /\ job'[x].hop = "analyze"
                            => job'[x].upload \in Analysed'
    BY DEF AnalyzeInv
  <1>0. RunInv /\ AnalyzeInv
    BY DEF CalmInv
  \* A worker that stays where it is.
  <1>1. ASSUME pc'[x] = pc[x] PROVE
           /\ pc'[x] \in {"model", "replace", "error"} => job'[x].hop = "analyze"
           /\ pc'[x] = "done" /\ job'[x].hop = "analyze"
                 => job'[x].upload \in Analysed'
    <2>1. CASE pc[x] \in {"model", "replace", "error", "done"}
      <3>1. job'[x] = job[x] /\ job[x].upload \in Uploads
        BY <1>1, <2>1, WorkerStep DEF TypeOK, Job
      <3> QED
        BY <1>0, <1>1, <3>1, AnalysesStay DEF AnalyzeInv
    <2>2. CASE pc[x] \notin {"model", "replace", "error", "done"}
      BY <1>1, <2>2
    <2> QED
      BY <2>1, <2>2
  <1>2. ASSUME pc'[x] \notin {"model", "replace", "error", "done"} PROVE
           /\ pc'[x] \in {"model", "replace", "error"} => job'[x].hop = "analyze"
           /\ pc'[x] = "done" /\ job'[x].hop = "analyze"
                 => job'[x].upload \in Analysed'
    BY <1>2
  <1>3. ASSUME NEW w \in Workers, StepAction(w), pc'[x] # pc[x] PROVE
           /\ pc'[x] \in {"model", "replace", "error"} => job'[x].hop = "analyze"
           /\ pc'[x] = "done" /\ job'[x].hop = "analyze"
                 => job'[x].upload \in Analysed'
    <2>0. /\ job' = job
          /\ pc[w] \in {"start", "extract", "model", "replace"}
          /\ \A y \in Workers \ {w} :
                pc'[y] = pc[y] \/ (pc[y] = "replace" /\ pc'[y] = "error")
      BY <1>3, StepFrame DEF StepKeeps
    <2>1. CASE x # w
      BY <1>0, <1>3, <2>0, <2>1 DEF AnalyzeInv
    <2>2. CASE x = w /\ CommitAnalysis(w)
      <3>1. job[w].hop = "analyze" /\ pc[w] = "replace"
        BY <2>2 DEF CommitAnalysis, At
      <3>2. CASE ReplaceAnalysis(job[w].upload, batch[w])
        <4>1. job[w].upload \in Analysed'
          <5>1. job[w].upload \in Uploads
            BY <2>0 DEF TypeOK, Job
          <5>2. \E a \in analyses' : a.upload = job[w].upload
            BY <3>2, ReplacedIsThere
          <5> QED
            BY <5>1, <5>2 DEF Analysed, HasAnalysis
        <4> QED
          BY <2>0, <2>2, <3>1, <4>1
      <3>3. CASE CallFails(w)
        <4>1. pc'[w] = "error"
          BY <3>3 DEF CallFails, StepFails, Goto, TypeOK
        <4> QED
          BY <2>0, <2>2, <3>1, <4>1
      <3> QED
        BY <2>2, <3>2, <3>3 DEF CommitAnalysis
    <2>3. CASE x = w /\ ~ CommitAnalysis(w)
      <3>1. \A y \in Workers \ {w} : pc'[y] = pc[y]
        <4>1. \E p : Goto(w, p) \/ UNCHANGED pc
          BY <1>3, <2>3 DEF StepAction, MarkProcessing, ListForOCR, ExtractOne,
             FinishOCR, ListForAnalysis, AskModel, MarkCompleted,
             DeleteAnalysis, CallFails, Committed, StepFails, StepSucceeds
        <4> QED
          BY <4>1 DEF Goto, TypeOK
      <3>2. pc[w] # "replace"
        BY <1>3, <2>3 DEF StepAction, MarkProcessing, ListForOCR, ExtractOne,
           FinishOCR, ListForAnalysis, AskModel, MarkCompleted, DeleteAnalysis,
           At
      <3>3. pc'[w] # "error"
        BY <2>0, <3>1, <3>2, NoFailure
      <3>4. CASE job[w].hop = "analyze"
        <4>1. ListForAnalysis(w) \/ AskModel(w)
          BY <1>3, <2>3, <3>4 DEF StepAction, MarkProcessing, ListForOCR,
             ExtractOne, FinishOCR, MarkCompleted, DeleteAnalysis, At
        <4>2. pc'[w] \in {"model", "replace", "error"}
          BY <4>1 DEF ListForAnalysis, AskModel, CallFails, StepFails, Goto,
             TypeOK
        <4> QED
          BY <2>0, <2>3, <3>4, <4>2
      <3>5. CASE job[w].hop # "analyze"
        <4>1. pc'[w] \in {"extract", "done", "error"}
          <5>1. \/ MarkProcessing(w) \/ MarkCompleted(w) \/ DeleteAnalysis(w)
                \/ ListForOCR(w) \/ ExtractOne(w) \/ FinishOCR(w)
            BY <1>3, <2>3, <3>5 DEF StepAction, ListForAnalysis, AskModel, At
          <5> QED
            BY <5>1, SingleCallMoves, OCRMoves DEF Moves, TypeOK
        <4> QED
          BY <2>0, <2>3, <3>3, <3>5, <4>1
      <3> QED
        BY <3>4, <3>5
    <2> QED
      BY <2>1, <2>2, <2>3
  <1>4. ASSUME NEW w \in Workers,
               Dequeue(w) \/ SagaAction(w) \/ Crash(w) \/ Stall(w),
               pc'[x] # pc[x]
        PROVE  pc'[x] \notin {"model", "replace", "error", "done"}
    <2>1. \E p \in {"start", "ack", "onFailed", "onCompensationFailed", "idle"} :
             pc' = [pc EXCEPT ![w] = p] \/ pc' = pc
      <3>1. CASE Dequeue(w) \/ Crash(w) \/ Stall(w)
        BY <3>1 DEF Dequeue, Crash, Stall, Forget, workerVars
      <3>2. CASE SagaAction(w)
        BY <3>2, SagaFrame DEF Goto, Forget
      <3> QED
        BY <1>4, <3>1, <3>2
    <2> QED
      BY <1>4, <2>1 DEF TypeOK
  <1>5. ASSUME \/ \E u \in Uploads : Enqueue(u)
               \/ UNCHANGED pipelineVars
        PROVE  pc'[x] = pc[x]
    BY <1>5 DEF Enqueue, workerVars, pipelineVars
  <1> QED
    BY <1>1, <1>2, <1>3, <1>4, <1>5 DEF PipelineNext, PipelineStep, Work, Poll

LEMMA CompletedStep ==
    ASSUME TypeOK, CalmInv, [PipelineNext]_pipelineVars
    PROVE  CompletedHasAnalysis'
  <1> SUFFICES ASSUME NEW u \in Uploads, status'[u] = "completed"
               PROVE  HasAnalysis(u)'
    BY DEF CompletedHasAnalysis
  <1>1. ASSUME HasAnalysis(u) PROVE HasAnalysis(u)'
    BY <1>1, AnalysesStay DEF CalmInv, Analysed
  <1>2. ASSUME status[u] = "completed" PROVE HasAnalysis(u)'
    BY <1>1, <1>2 DEF CalmInv, CompletedHasAnalysis
  <1>3. ASSUME NEW w \in Workers, StepAction(w) PROVE HasAnalysis(u)'
    <2>1. CASE MarkCompleted(w)
      <3>1. pc[w] # "idle" /\ job[w].hop = "mark_completed"
        BY <2>1 DEF MarkCompleted, At
      <3>2. job[w].upload \in Analysed
        BY <3>1 DEF CalmInv, RunInv
      <3>3. status[u] = "completed" \/ u = job[w].upload
        BY <2>1 DEF MarkCompleted, CallFails, Committed, SetUploadStatus,
           storeVars, TypeOK, StoreTypeOK
      <3> QED
        BY <1>1, <1>2, <3>2, <3>3 DEF Analysed
    <2>2. CASE MarkProcessing(w)
      BY <1>2, <2>2 DEF MarkProcessing, CallFails, Committed, SetUploadStatus,
         storeVars, TypeOK, StoreTypeOK
    <2>3. CASE status' = status
      BY <1>2, <2>3
    <2>4. MarkCompleted(w) \/ MarkProcessing(w) \/ status' = status
      BY <1>3 DEF StepAction, ListForOCR, ExtractOne, FinishOCR,
         ListForAnalysis, AskModel, CommitAnalysis, DeleteAnalysis, CallFails,
         Committed, SetUploadFileOCR, ReplaceAnalysis, DeleteAnalysisByUpload,
         storeVars
    <2> QED
      BY <2>1, <2>2, <2>3, <2>4
  <1>4. ASSUME NEW w \in Workers, SagaAction(w) PROVE HasAnalysis(u)'
    <2>1. status[u] = "completed"
      BY <1>4, SagaWrites DEF SetUploadStatus, storeVars, TypeOK, StoreTypeOK
    <2> QED
      BY <1>2, <2>1
  <1>5. ASSUME UNCHANGED storeVars PROVE HasAnalysis(u)'
    BY <1>2, <1>5 DEF storeVars
  <1> QED
    BY <1>3, <1>4, <1>5
       DEF PipelineNext, PipelineStep, Work, Poll, pipelineVars, Enqueue,
           Dequeue, Crash, Stall

\* Whatever is lost, delivered twice or runs at the same time: until a call of a
\* step fails, a completed upload has its analysis (uploads.go, status).
THEOREM CompletedUnlessFailedCorrect == FaultsSpec => []CompletedUnlessFailed
  <1> DEFINE Inv == TypeOK /\ (~ failed => CalmInv)
  <1>1. FaultsInit => Inv
    BY TypeInit, CalmInit DEF FaultsInit
  <1>2. Inv /\ [FaultsNext]_<<pipelineVars, failed>> => Inv'
    <2> SUFFICES ASSUME Inv, [FaultsNext]_<<pipelineVars, failed>> PROVE Inv'
      OBVIOUS
    <2>1. [PipelineNext]_pipelineVars
      BY DEF FaultsNext
    <2>2. TypeOK'
      BY <2>1, TypeStep
    <2>3. ASSUME ~ failed' PROVE CalmInv'
      <3>1. CASE FaultsNext
        <4>1. ~ failed /\ ~ CallFailed
          BY <2>3, <3>1 DEF FaultsNext
        <4>2. TypeOK /\ CalmInv
          BY <4>1
        <4> QED
          BY <2>1, <4>1, <4>2, QueueStep, RunStep, AnalyzeStep, CompletedStep
             DEF CalmInv
      <3>2. CASE UNCHANGED <<pipelineVars, failed>>
        <4>1. TypeOK /\ CalmInv /\ pc' = pc
          BY <2>3, <3>2 DEF pipelineVars, workerVars
        <4>2. ~ CallFailed
          BY <4>1 DEF CallFailed
        <4> QED
          BY <2>1, <4>1, <4>2, QueueStep, RunStep, AnalyzeStep, CompletedStep
             DEF CalmInv
      <3> QED
        BY <3>1, <3>2
    <2> QED
      BY <2>2, <2>3
  <1>3. Inv => CompletedUnlessFailed
    BY DEF CalmInv, CompletedUnlessFailed
  <1> QED
    BY <1>1, <1>2, <1>3, PTL DEF FaultsSpec

----------------------------------------------------------------------------
(* Bytes, texts and words.                                                 *)

Byte == Letters \cup Blanks \cup {"lead", "rest", ".", Redacted}

Space == " "
Newline == "\n"

\* Texts that may be secrets.
Words == Seq(Letters) \ {<<>>}

LEMMA Alphabet ==
    /\ Letters \subseteq Byte
    /\ Redacted \in Byte \ Letters
    /\ "." \in Byte
    /\ "lead" \in Byte \ Letters
    /\ "rest" \in Byte \ Letters
    /\ Space \in Byte \ Letters
    /\ Blanks = {Space, Newline} /\ Blanks \subseteq Byte \ Letters
    /\ Redacted \notin {"lead", "rest"} \cup Blanks
    /\ "." \notin {"lead", "rest"} \cup Blanks
    /\ "rest" # "lead"
    /\ Space # Newline
    /\ "lead" \notin Blanks /\ "rest" \notin Blanks
  BY ScrubAssumption DEF ScrubAssumption, Byte, Blanks, Redacted, Space, Newline

\* StandsAt, byte by byte.
Has(msg, word, i) ==
    /\ i + Len(word) - 1 <= Len(msg)
    /\ \A j \in 1 .. Len(word) : msg[i + j - 1] = word[j]

LEMMA StandsIsHas ==
    ASSUME NEW T, NEW msg \in Seq(T), NEW word \in Seq(T), NEW i \in Nat \ {0}
    PROVE  StandsAt(word, msg, i) <=> Has(msg, word, i)
<1> DEFINE k == Len(word)
           part == SubSeq(msg, i, i + k - 1)
<1>1. k \in Nat /\ Len(msg) \in Nat
  OBVIOUS
<1>2. ASSUME i + k - 1 <= Len(msg)
      PROVE  part = word <=> \A j \in 1 .. k : msg[i + j - 1] = word[j]
  <2>1. Len(part) = k
    BY <1>1, <1>2
  <2>2. \A j \in 1 .. k : part[j] = msg[i + j - 1]
    BY <1>1, <1>2
  <2>3. part \in Seq(T)
    BY <1>1, <1>2
  <2> HIDE DEF part
  <2>4. ASSUME \A j \in 1 .. k : msg[i + j - 1] = word[j] PROVE part = word
    BY <2>1, <2>2, <2>3, <2>4
  <2> QED
    BY <2>2, <2>4
<1> QED
  BY <1>2 DEF StandsAt, Has

LEMMA MentionsIsHas ==
    ASSUME NEW T, NEW msg \in Seq(T), NEW word \in Seq(T)
    PROVE  Mentions(msg, word) <=> \E i \in 1 .. Len(msg) : Has(msg, word, i)
  BY StandsIsHas DEF Mentions

----------------------------------------------------------------------------
(* ReplaceSecret, from the end.                                            *)

ScanAt(from, msg, secret, i) ==
    CASE i > Len(msg) -> <<>>
      [] StandsAt(secret, msg, i) -> <<Redacted>> \o from[i + Len(secret)]
      [] OTHER -> <<msg[i]>> \o from[i + 1]

IsScan(from, msg, secret) ==
    from = [i \in 1 .. Len(msg) + 1 |-> ScanAt(from, msg, secret, i)]

LEMMA ReplaceDef ==
    ASSUME NEW msg, NEW secret
    PROVE  ReplaceSecret(msg, secret) = (CHOOSE from : IsScan(from, msg, secret))[1]
  BY DEF ReplaceSecret, IsScan, ScanAt

\* The three cases of a scan.
ScanCases(from, msg, secret, i) ==
    /\ i > Len(msg) => from[i] = <<>>
    /\ i <= Len(msg) /\ StandsAt(secret, msg, i)
          => /\ i + Len(secret) <= Len(msg) + 1
             /\ from[i] = <<Redacted>> \o from[i + Len(secret)]
    /\ i <= Len(msg) /\ ~ StandsAt(secret, msg, i)
          => from[i] = <<msg[i]>> \o from[i + 1]

LEMMA ScanIsCases ==
    ASSUME NEW msg \in Seq(Byte), NEW secret \in Words, NEW from,
           NEW i \in 1 .. Len(msg) + 1
    PROVE  from[i] = ScanAt(from, msg, secret, i) <=> ScanCases(from, msg, secret, i)
<1>1. Len(msg) \in Nat /\ Len(secret) \in Nat /\ Len(secret) > 0
  BY DEF Words
<1>2. CASE i > Len(msg)
  <2>1. ~ (i <= Len(msg)) /\ ~ StandsAt(secret, msg, i)
    BY <1>1, <1>2 DEF StandsAt
  <2> QED
    BY <1>2, <2>1, Zenon DEF ScanAt, ScanCases
<1>3. CASE i <= Len(msg) /\ StandsAt(secret, msg, i)
  <2>1. ~ (i > Len(msg))
    BY <1>1, <1>3
  <2>2. i + Len(secret) <= Len(msg) + 1
    BY <1>1, <1>3 DEF StandsAt
  <2> QED
    BY <1>3, <2>1, <2>2, Zenon DEF ScanAt, ScanCases
<1>4. CASE i <= Len(msg) /\ ~ StandsAt(secret, msg, i)
  <2>1. ~ (i > Len(msg))
    BY <1>1, <1>4
  <2> QED
    BY <1>4, <2>1, Zenon DEF ScanAt, ScanCases
<1> QED
  BY <1>1, <1>2, <1>3, <1>4

LEMMA ScanExists ==
    ASSUME NEW msg \in Seq(Byte), NEW secret \in Words
    PROVE  \E from : IsScan(from, msg, secret)
<1> DEFINE k == Len(msg)
           Q == {n \in 0 .. k : \E f : \A i \in k + 1 - n .. k + 1 :
                                          ScanCases(f, msg, secret, i)}
<1>1. k \in Nat
  OBVIOUS
<1>2. 0 \in Q
  <2> DEFINE f == [i \in 1 .. k + 1 |-> <<>>]
  <2>1. f[k + 1] = <<>> /\ k + 1 > k /\ ~ (k + 1 <= k)
    BY <1>1
  <2>2. ScanCases(f, msg, secret, k + 1)
    BY <2>1, Zenon DEF ScanCases
  <2>3. \A i \in k + 1 - 0 .. k + 1 : i = k + 1
    BY <1>1
  <2> HIDE DEF f
  <2>4. \A i \in k + 1 - 0 .. k + 1 : ScanCases(f, msg, secret, i)
    BY <2>2, <2>3
  <2> QED
    BY <1>1, <2>4
<1>3. ASSUME NEW n \in 0 .. k - 1, n \in Q PROVE n + 1 \in Q
  <2>1. PICK f : \A i \in k + 1 - n .. k + 1 : ScanCases(f, msg, secret, i)
    BY <1>3
  <2> DEFINE m == k - n
             x == IF StandsAt(secret, msg, m) THEN <<Redacted>> \o f[m + Len(secret)]
                  ELSE <<msg[m]>> \o f[m + 1]
             h == [i \in 1 .. k + 1 |-> IF i = m THEN x ELSE f[i]]
  <2>2. m \in 1 .. k /\ Len(secret) \in Nat /\ Len(secret) > 0
    BY <1>1 DEF Words
  <2>3. \A i \in m + 1 .. k + 1 : h[i] = f[i]
    BY <2>2
  <2>4. h[m] = x
    BY <2>2
  <2>5. \A i \in m + 1 .. k + 1 : ScanCases(f, msg, secret, i)
    BY <1>1, <2>1
  <2> HIDE DEF h, m
  <2>6. ASSUME NEW i \in m + 1 .. k + 1 PROVE ScanCases(h, msg, secret, i)
    <3>1. i <= k => i + 1 \in m + 1 .. k + 1
      BY <1>1, <2>2
    <3>2. i + Len(secret) <= k + 1 => i + Len(secret) \in m + 1 .. k + 1
      BY <1>1, <2>2
    <3>3. i <= k => h[i + 1] = f[i + 1]
      BY <2>3, <3>1
    <3>4. i + Len(secret) <= k + 1 => h[i + Len(secret)] = f[i + Len(secret)]
      BY <2>3, <3>2
    <3>5. h[i] = f[i] /\ ScanCases(f, msg, secret, i)
      BY <2>3, <2>5
    <3> QED
      BY <3>3, <3>4, <3>5, Zenon DEF ScanCases
  <2>7. ScanCases(h, msg, secret, m)
    <3>1. ~ (m > k) /\ h[m + 1] = f[m + 1]
      <4>1. m + 1 \in m + 1 .. k + 1 /\ ~ (m > k)
        BY <1>1, <2>2
      <4> QED
        BY <2>3, <4>1
    <3>2. ASSUME StandsAt(secret, msg, m)
          PROVE  /\ m + Len(secret) <= k + 1
                 /\ h[m + Len(secret)] = f[m + Len(secret)]
      <4>1. m + Len(secret) <= k + 1
        BY <1>1, <2>2, <3>2 DEF StandsAt
      <4>2. m + Len(secret) \in m + 1 .. k + 1
        BY <1>1, <2>2, <4>1
      <4> QED
        BY <2>3, <4>1, <4>2
    <3> QED
      BY <2>4, <3>1, <3>2, Zenon DEF ScanCases
  <2>8. \A i \in k + 1 - (n + 1) .. k + 1 : i = m \/ i \in m + 1 .. k + 1
    BY <1>1, <2>2 DEF m
  <2>9. \A i \in k + 1 - (n + 1) .. k + 1 : ScanCases(h, msg, secret, i)
    BY <2>6, <2>7, <2>8
  <2>10. n + 1 \in 0 .. k
    BY <1>1
  <2> QED
    BY <2>9, <2>10
<1>4. \A n \in 0 .. k : n \in Q
  <2> HIDE DEF Q
  <2> QED
    BY <1>1, <1>2, <1>3, CountingInduction
<1>5. PICK f : \A i \in 1 .. k + 1 : ScanCases(f, msg, secret, i)
  <2>1. k \in Q /\ k + 1 - k = 1
    BY <1>1, <1>4
  <2> QED
    BY <2>1
<1> DEFINE from == [i \in 1 .. k + 1 |-> f[i]]
<1>6. ASSUME NEW i \in 1 .. k + 1 PROVE ScanCases(from, msg, secret, i)
  <2>1. Len(secret) \in Nat
    BY DEF Words
  <2>2. i <= k => from[i + 1] = f[i + 1]
    BY <1>1
  <2>3. i + Len(secret) <= k + 1 => from[i + Len(secret)] = f[i + Len(secret)]
    BY <1>1, <2>1
  <2>4. from[i] = f[i]
    OBVIOUS
  <2> HIDE DEF from
  <2> QED
    BY <1>5, <2>2, <2>3, <2>4, Zenon DEF ScanCases
<1>7. \A i \in 1 .. k + 1 : from[i] = ScanAt(from, msg, secret, i)
  <2> HIDE DEF from
  <2> QED
    BY <1>6, ScanIsCases
<1>8. from = [i \in 1 .. k + 1 |-> from[i]]
  OBVIOUS
<1>9. IsScan(from, msg, secret)
  <2> HIDE DEF from
  <2> QED
    BY <1>7, <1>8 DEF IsScan
<1> QED
  BY <1>9

LEMMA ReplaceIsScan ==
    ASSUME NEW msg \in Seq(Byte), NEW secret \in Words
    PROVE  \E from : /\ \A i \in 1 .. Len(msg) + 1 : ScanCases(from, msg, secret, i)
                     /\ ReplaceSecret(msg, secret) = from[1]
<1> DEFINE from == CHOOSE f : IsScan(f, msg, secret)
<1>1. IsScan(from, msg, secret)
  BY ScanExists
<1>2. ReplaceSecret(msg, secret) = from[1]
  BY ReplaceDef
<1> HIDE DEF from
<1>3. \A i \in 1 .. Len(msg) + 1 : from[i] = ScanAt(from, msg, secret, i)
  BY <1>1 DEF IsScan
<1>4. \A i \in 1 .. Len(msg) + 1 : ScanCases(from, msg, secret, i)
  BY <1>3, ScanIsCases
<1> QED
  BY <1>2, <1>4

LEMMA WordType ==
    ASSUME NEW t \in Words
    PROVE  t \in Seq(Letters) /\ t \in Seq(Byte) /\ Len(t) \in Nat \ {0}
<1>1. t \in Seq(Letters) /\ t # <<>>
  BY DEF Words
<1>2. Len(t) \in Nat \ {0} /\ \A j \in 1 .. Len(t) : t[j] \in Letters
  BY <1>1
<1>3. t \in Seq(Byte)
  <2>1. \A j \in 1 .. Len(t) : t[j] \in Byte
    BY <1>2, Alphabet
  <2> QED
    BY <1>1, <2>1
<1> QED
  BY <1>1, <1>2, <1>3

\* A byte before a text.
LEMMA ByteFirst ==
    ASSUME NEW b \in Byte, NEW s \in Seq(Byte)
    PROVE  /\ <<b>> \o s \in Seq(Byte)
           /\ Len(<<b>> \o s) = Len(s) + 1
           /\ (<<b>> \o s)[1] = b
           /\ \A n \in 1 .. Len(s) : (<<b>> \o s)[n + 1] = s[n]
  OBVIOUS

IsScanOf(from, msg, secret) ==
    \A i \in 1 .. Len(msg) + 1 : ScanCases(from, msg, secret, i)

\* What is left of msg from its byte i on, by what stands there.
LEMMA ScanStep ==
    ASSUME NEW msg \in Seq(Byte), NEW secret \in Words, NEW from,
           IsScanOf(from, msg, secret)
    PROVE  /\ from[Len(msg) + 1] = <<>>
           /\ \A i \in 1 .. Len(msg) :
                 \/ /\ Has(msg, secret, i)
                    /\ i + Len(secret) \in i + 1 .. Len(msg) + 1
                    /\ from[i] = <<Redacted>> \o from[i + Len(secret)]
                 \/ /\ ~ Has(msg, secret, i)
                    /\ from[i] = <<msg[i]>> \o from[i + 1]
<1> DEFINE k == Len(msg)
<1>1. k \in Nat /\ Len(secret) \in Nat \ {0} /\ secret \in Seq(Byte)
  BY WordType
<1>2. from[k + 1] = <<>>
  <2>1. k + 1 \in 1 .. k + 1 /\ k + 1 > k
    BY <1>1
  <2>2. ScanCases(from, msg, secret, k + 1)
    BY <2>1 DEF IsScanOf
  <2> QED
    BY <2>1, <2>2, Zenon DEF ScanCases
<1>3. ASSUME NEW i \in 1 .. k
      PROVE  \/ /\ Has(msg, secret, i)
                /\ i + Len(secret) \in i + 1 .. k + 1
                /\ from[i] = <<Redacted>> \o from[i + Len(secret)]
             \/ /\ ~ Has(msg, secret, i)
                /\ from[i] = <<msg[i]>> \o from[i + 1]
  <2>1. i \in 1 .. k + 1 /\ i \in Nat \ {0} /\ i <= k
    BY <1>1
  <2>2. ScanCases(from, msg, secret, i)
    BY <2>1 DEF IsScanOf
  <2>3. StandsAt(secret, msg, i) <=> Has(msg, secret, i)
    BY <1>1, <2>1, StandsIsHas
  <2>4. ASSUME i + Len(secret) <= k + 1 PROVE i + Len(secret) \in i + 1 .. k + 1
    BY <1>1, <2>1, <2>4
  <2> QED
    BY <2>1, <2>2, <2>3, <2>4, Zenon DEF ScanCases
<1> QED
  BY <1>2, <1>3

LEMMA ScanType ==
    ASSUME NEW msg \in Seq(Byte), NEW secret \in Words, NEW from,
           IsScanOf(from, msg, secret)
    PROVE  \A i \in 1 .. Len(msg) + 1 : from[i] \in Seq(Byte)
<1> DEFINE k == Len(msg)
           Q == {i \in 1 .. k + 1 : from[i] \in Seq(Byte)}
<1>1. k \in Nat /\ k + 1 \in 1 .. k + 1
  OBVIOUS
<1>2. k + 1 \in Q
  <2>1. from[k + 1] = <<>> /\ <<>> \in Seq(Byte)
    BY ScanStep
  <2> QED
    BY <1>1, <2>1
<1>3. ASSUME NEW i \in 1 .. k, \A j \in i + 1 .. k + 1 : j \in Q PROVE i \in Q
  <2>1. i + 1 \in i + 1 .. k + 1 /\ i \in 1 .. k + 1 /\ msg[i] \in Byte
    BY <1>1
  <2>2. \/ i + Len(secret) \in i + 1 .. k + 1 /\ from[i] = <<Redacted>> \o from[i + Len(secret)]
        \/ from[i] = <<msg[i]>> \o from[i + 1]
    BY ScanStep
  <2>3. \A j \in i + 1 .. k + 1 : from[j] \in Seq(Byte)
    BY <1>3
  <2>4. Redacted \in Byte
    BY Alphabet
  <2>5. CASE i + Len(secret) \in i + 1 .. k + 1 /\ from[i] = <<Redacted>> \o from[i + Len(secret)]
    <3>1. from[i + Len(secret)] \in Seq(Byte)
      BY <2>3, <2>5
    <3>2. <<Redacted>> \o from[i + Len(secret)] \in Seq(Byte)
      BY <2>4, <3>1, ByteFirst
    <3> QED
      BY <2>1, <2>5, <3>2
  <2>6. CASE from[i] = <<msg[i]>> \o from[i + 1]
    <3>1. from[i + 1] \in Seq(Byte)
      BY <2>1, <2>3
    <3>2. <<msg[i]>> \o from[i + 1] \in Seq(Byte)
      BY <2>1, <3>1, ByteFirst
    <3> QED
      BY <2>1, <2>6, <3>2
  <2> QED
    BY <2>2, <2>5, <2>6
<1> HIDE DEF Q
<1>4. \A i \in 1 .. k + 1 : i \in Q
  BY <1>1, <1>2, <1>3, BackwardInduction
<1> QED
  BY <1>4 DEF Q

\* The byte b before s, and a word of letters in it.
LEMMA HasFirst ==
    ASSUME NEW b \in Byte, NEW s \in Seq(Byte), NEW t \in Words
    PROVE  /\ Has(<<b>> \o s, t, 1)
                 => /\ b = t[1] /\ b \in Letters
                    /\ Len(t) = 1 \/ (Tail(t) \in Words /\ Has(s, Tail(t), 1))
           /\ \A p \in Nat \ {0, 1} : Has(<<b>> \o s, t, p) => Has(s, t, p - 1)
<1> DEFINE r == <<b>> \o s
<1>1. /\ Len(t) \in Nat \ {0} /\ t \in Seq(Letters)
      /\ Len(s) \in Nat /\ Len(r) = Len(s) + 1
      /\ r[1] = b /\ \A n \in 1 .. Len(s) : r[n + 1] = s[n]
  BY WordType, ByteFirst
<1> HIDE DEF r
<1>2. ASSUME Has(r, t, 1) PROVE b = t[1] /\ b \in Letters
  BY <1>1, <1>2 DEF Has
<1>3. ASSUME Has(r, t, 1), Len(t) # 1 PROVE Tail(t) \in Words /\ Has(s, Tail(t), 1)
  <2>1. /\ Tail(t) \in Seq(Letters) /\ Len(Tail(t)) = Len(t) - 1
        /\ \A j \in 1 .. Len(t) - 1 : Tail(t)[j] = t[j + 1]
    BY <1>1
  <2>2. Tail(t) \in Words
    <3>1. Len(Tail(t)) # 0
      BY <1>1, <1>3, <2>1
    <3>2. ASSUME Tail(t) = <<>> PROVE FALSE
      <4>1. Len(Tail(t)) = Len(<<>>) /\ Len(<<>>) = 0
        BY <3>2
      <4> QED
        BY <3>1, <4>1
    <3> QED
      BY <2>1, <3>2 DEF Words
  <2>3. Len(t) <= Len(s) + 1 /\ \A j \in 1 .. Len(t) : r[j] = t[j]
    BY <1>1, <1>3 DEF Has
  <2>4. \A j \in 1 .. Len(t) - 1 : s[j] = Tail(t)[j]
    <3> TAKE j \in 1 .. Len(t) - 1
    <3>1. j + 1 \in 1 .. Len(t) /\ j \in 1 .. Len(s)
      BY <1>1, <2>3
    <3> QED
      BY <1>1, <2>1, <2>3, <3>1
  <2>5. 1 + Len(Tail(t)) - 1 <= Len(s) /\ \A j \in 1 .. Len(Tail(t)) : s[1 + j - 1] = Tail(t)[j]
    BY <1>1, <2>1, <2>3, <2>4
  <2> QED
    BY <2>2, <2>5 DEF Has
<1>4. ASSUME NEW p \in Nat \ {0, 1}, Has(r, t, p) PROVE Has(s, t, p - 1)
  <2>1. p + Len(t) - 1 <= Len(s) + 1 /\ \A j \in 1 .. Len(t) : r[p + j - 1] = t[j]
    BY <1>1, <1>4 DEF Has
  <2>2. \A j \in 1 .. Len(t) : s[p - 1 + j - 1] = t[j]
    <3> TAKE j \in 1 .. Len(t)
    <3>1. p - 1 + j - 1 \in 1 .. Len(s) /\ (p - 1 + j - 1) + 1 = p + j - 1
      BY <1>1, <2>1
    <3> QED
      BY <1>1, <2>1, <3>1
  <2>3. p - 1 + Len(t) - 1 <= Len(s)
    BY <1>1, <2>1
  <2> QED
    BY <2>2, <2>3 DEF Has
<1> QED
  BY <1>2, <1>3, <1>4 DEF r

\* One step of the scan: it writes a byte and goes on after what it read.
LEMMA ScanWrites ==
    ASSUME NEW msg \in Seq(Byte), NEW secret \in Words, NEW from,
           IsScanOf(from, msg, secret), NEW i \in 1 .. Len(msg)
    PROVE  \E b \in Byte, j \in i + 1 .. Len(msg) + 1 :
              /\ from[j] \in Seq(Byte)
              /\ from[i] = <<b>> \o from[j]
              /\ \/ b = Redacted /\ j = i + Len(secret) /\ Has(msg, secret, i)
                 \/ b = msg[i] /\ j = i + 1 /\ ~ Has(msg, secret, i)
<1>1. /\ i + 1 \in i + 1 .. Len(msg) + 1 /\ msg[i] \in Byte /\ Redacted \in Byte
      /\ \A j \in i + 1 .. Len(msg) + 1 : j \in 1 .. Len(msg) + 1
  <2>1. Redacted \in Byte
    BY Alphabet
  <2> QED
    BY <2>1
<1>2. \A j \in i + 1 .. Len(msg) + 1 : from[j] \in Seq(Byte)
  <2>1. \A j \in 1 .. Len(msg) + 1 : from[j] \in Seq(Byte)
    BY ScanType
  <2> QED
    BY <1>1, <2>1
<1>3. \/ /\ Has(msg, secret, i)
         /\ i + Len(secret) \in i + 1 .. Len(msg) + 1
         /\ from[i] = <<Redacted>> \o from[i + Len(secret)]
      \/ /\ ~ Has(msg, secret, i)
         /\ from[i] = <<msg[i]>> \o from[i + 1]
  BY ScanStep
<1> QED
  BY <1>1, <1>2, <1>3, Zenon

LEMMA HasGoesOn ==
    ASSUME NEW msg \in Seq(Byte), NEW t \in Words, NEW i \in 1 .. Len(msg),
           msg[i] = t[1], Len(t) = 1 \/ Has(msg, Tail(t), i + 1)
    PROVE  Has(msg, t, i)
<1>1. t \in Seq(Letters) /\ Len(t) \in Nat \ {0} /\ Len(msg) \in Nat /\ i \in Nat /\ i <= Len(msg)
  BY WordType
<1>2. CASE Len(t) = 1
  <2>1. i + Len(t) - 1 <= Len(msg) /\ i + 1 - 1 = i /\ 1 .. Len(t) = {1}
    BY <1>1, <1>2
  <2> QED
    BY <2>1 DEF Has
<1>3. CASE Len(t) # 1
  <2>1. /\ Len(Tail(t)) = Len(t) - 1
        /\ \A j \in 1 .. Len(t) - 1 : Tail(t)[j] = t[j + 1]
    BY <1>1
  <2>2. /\ i + 1 + Len(Tail(t)) - 1 <= Len(msg)
        /\ \A j \in 1 .. Len(Tail(t)) : msg[i + 1 + j - 1] = Tail(t)[j]
    BY <1>3 DEF Has
  <2>3. \A j \in 1 .. Len(t) : msg[i + j - 1] = t[j]
    <3> TAKE j \in 1 .. Len(t)
    <3>1. CASE j = 1
      BY <1>1, <3>1
    <3>2. CASE j # 1
      <4>1. j - 1 \in 1 .. Len(t) - 1 /\ (j - 1) + 1 = j /\ i + 1 + (j - 1) - 1 = i + j - 1
        BY <1>1, <3>2
      <4>2. msg[i + 1 + (j - 1) - 1] = Tail(t)[j - 1] /\ Tail(t)[j - 1] = t[(j - 1) + 1]
        BY <2>1, <2>2, <4>1
      <4> QED
        BY <4>1, <4>2
    <3> QED
      BY <3>1, <3>2
  <2>4. i + Len(t) - 1 <= Len(msg)
    BY <1>1, <2>1, <2>2
  <2> QED
    BY <2>3, <2>4 DEF Has
<1> QED
  BY <1>2, <1>3

\* A word at the start of what the scan writes from i on stands at i in msg.
LEMMA ScanFirst ==
    ASSUME NEW msg \in Seq(Byte), NEW secret \in Words, NEW from,
           IsScanOf(from, msg, secret)
    PROVE  \A i \in 1 .. Len(msg) + 1 : \A t \in Words :
              Has(from[i], t, 1) => i \in 1 .. Len(msg) /\ Has(msg, t, i)
<1> DEFINE k == Len(msg)
           Q == {i \in 1 .. k + 1 : \A t \in Words :
                     Has(from[i], t, 1) => i \in 1 .. k /\ Has(msg, t, i)}
<1>1. k \in Nat /\ k + 1 \in 1 .. k + 1
  OBVIOUS
<1>2. k + 1 \in Q
  <2>1. from[k + 1] = <<>> /\ Len(<<>>) = 0
    BY ScanStep
  <2>2. ASSUME NEW t \in Words PROVE ~ Has(from[k + 1], t, 1)
    BY <2>1, WordType DEF Has
  <2> QED
    BY <1>1, <2>2
<1>3. ASSUME NEW i \in 1 .. k, \A j \in i + 1 .. k + 1 : j \in Q PROVE i \in Q
  <2>1. SUFFICES ASSUME NEW t \in Words, Has(from[i], t, 1) PROVE Has(msg, t, i)
    BY <1>1
  <2>2. PICK b \in Byte, j \in i + 1 .. k + 1 :
              /\ from[j] \in Seq(Byte)
              /\ from[i] = <<b>> \o from[j]
              /\ \/ b = Redacted /\ j = i + Len(secret) /\ Has(msg, secret, i)
                 \/ b = msg[i] /\ j = i + 1 /\ ~ Has(msg, secret, i)
    BY ScanWrites
  <2>3. /\ b = t[1] /\ b \in Letters
        /\ Len(t) = 1 \/ (Tail(t) \in Words /\ Has(from[j], Tail(t), 1))
    BY <2>1, <2>2, HasFirst
  <2>4. b = msg[i] /\ j = i + 1
    BY <2>2, <2>3, Alphabet
  <2>5. Len(t) = 1 \/ Has(msg, Tail(t), i + 1)
    <3>1. j \in Q
      BY <1>3
    <3> QED
      BY <2>3, <2>4, <3>1
  <2> QED
    BY <2>3, <2>4, <2>5, HasGoesOn
<1> HIDE DEF Q
<1>4. \A i \in 1 .. k + 1 : i \in Q
  BY <1>1, <1>2, <1>3, BackwardInduction
<1> QED
  BY <1>4 DEF Q

\* The scan writes no word that did not stand in msg, and not the secret.
LEMMA ScanWords ==
    ASSUME NEW msg \in Seq(Byte), NEW secret \in Words, NEW from,
           IsScanOf(from, msg, secret)
    PROVE  \A i \in 1 .. Len(msg) + 1 : \A t \in Words : \A p \in Nat \ {0} :
              Has(from[i], t, p)
                 => t # secret /\ \E q \in 1 .. Len(msg) : Has(msg, t, q)
<1> DEFINE k == Len(msg)
           Q == {i \in 1 .. k + 1 : \A t \in Words : \A p \in Nat \ {0} :
                     Has(from[i], t, p)
                        => t # secret /\ \E q \in 1 .. k : Has(msg, t, q)}
<1>1. k \in Nat /\ k + 1 \in 1 .. k + 1
  OBVIOUS
<1>2. k + 1 \in Q
  <2>1. from[k + 1] = <<>> /\ Len(<<>>) = 0
    BY ScanStep
  <2>2. ASSUME NEW t \in Words, NEW p \in Nat \ {0} PROVE ~ Has(from[k + 1], t, p)
    BY <2>1, WordType DEF Has
  <2> QED
    BY <1>1, <2>2
<1>3. ASSUME NEW i \in 1 .. k, \A j \in i + 1 .. k + 1 : j \in Q PROVE i \in Q
  <2>2. PICK b \in Byte, j \in i + 1 .. k + 1 :
              /\ from[j] \in Seq(Byte)
              /\ from[i] = <<b>> \o from[j]
              /\ \/ b = Redacted /\ j = i + Len(secret) /\ Has(msg, secret, i)
                 \/ b = msg[i] /\ j = i + 1 /\ ~ Has(msg, secret, i)
    BY ScanWrites
  <2>1. SUFFICES ASSUME NEW t \in Words, NEW p \in Nat \ {0}, Has(from[i], t, p)
                 PROVE  t # secret /\ \E q \in 1 .. k : Has(msg, t, q)
    BY <1>1
  <2>3. CASE p = 1
    <3>1. b \in Letters /\ b # Redacted
      <4>1. Has(<<b>> \o from[j], t, 1)
        BY <2>1, <2>2, <2>3
      <4> QED
        BY <2>2, <4>1, HasFirst, Alphabet
    <3>2. i \in 1 .. k + 1
      BY <1>1
    <3>3. Has(msg, t, i)
      BY <2>1, <2>3, <3>2, ScanFirst
    <3> QED
      BY <2>2, <3>1, <3>3
  <2>4. CASE p # 1
    <3>1. p \in Nat \ {0, 1} /\ p - 1 \in Nat \ {0}
      BY <2>4
    <3>2. Has(from[j], t, p - 1)
      <4>1. Has(<<b>> \o from[j], t, p)
        BY <2>1, <2>2
      <4> QED
        BY <2>2, <3>1, <4>1, HasFirst
    <3>3. j \in Q
      BY <1>3
    <3> QED
      BY <3>1, <3>2, <3>3
  <2> QED
    BY <2>3, <2>4
<1> HIDE DEF Q
<1>4. \A i \in 1 .. k + 1 : i \in Q
  BY <1>1, <1>2, <1>3, BackwardInduction
<1> QED
  BY <1>4 DEF Q

----------------------------------------------------------------------------
(* ValidUTF8: the first byte of a rune stands exactly before a second one. *)

Paired(s) ==
    \A n \in 1 .. Len(s) - 1 : s[n] = "lead" <=> s[n + 1] = "rest"

Ends(s) == Len(s) > 0 => s[1] # "rest" /\ s[Len(s)] # "lead"

LEMMA ValidIsPaired ==
    ASSUME NEW s \in Seq(Byte)
    PROVE  ValidUTF8(s) <=> Paired(s) /\ Ends(s)
<1>1. Len(s) \in Nat
  OBVIOUS
<1>2. ASSUME ValidUTF8(s) PROVE Paired(s) /\ Ends(s)
  <2>1. \A i \in 1 .. Len(s) :
          /\ s[i] = "lead" => i < Len(s) /\ s[i + 1] = "rest"
          /\ s[i] = "rest" => i > 1 /\ s[i - 1] = "lead"
    BY <1>2 DEF ValidUTF8
  <2>2. ASSUME NEW n \in 1 .. Len(s) - 1 PROVE s[n] = "lead" <=> s[n + 1] = "rest"
    <3>1. n \in 1 .. Len(s) /\ n + 1 \in 1 .. Len(s) /\ (n + 1) - 1 = n
      BY <1>1
    <3> QED
      BY <2>1, <3>1
  <2>3. ASSUME Len(s) > 0 PROVE s[1] # "rest" /\ s[Len(s)] # "lead"
    <3>1. 1 \in 1 .. Len(s) /\ Len(s) \in 1 .. Len(s) /\ ~ (1 > 1) /\ ~ (Len(s) < Len(s))
      BY <1>1, <2>3
    <3> QED
      BY <2>1, <3>1
  <2> QED
    BY <2>2, <2>3 DEF Paired, Ends
<1>3. ASSUME Paired(s), Ends(s) PROVE ValidUTF8(s)
  <2>1. ASSUME NEW i \in 1 .. Len(s), s[i] = "lead" PROVE i < Len(s) /\ s[i + 1] = "rest"
    <3>1. i # Len(s)
      BY <1>1, <1>3, <2>1 DEF Ends
    <3>2. i \in 1 .. Len(s) - 1
      BY <1>1, <3>1
    <3> QED
      BY <1>1, <1>3, <2>1, <3>2 DEF Paired
  <2>2. ASSUME NEW i \in 1 .. Len(s), s[i] = "rest" PROVE i > 1 /\ s[i - 1] = "lead"
    <3>1. i # 1
      BY <1>1, <1>3, <2>2 DEF Ends
    <3>2. i - 1 \in 1 .. Len(s) - 1 /\ (i - 1) + 1 = i
      BY <1>1, <3>1
    <3> QED
      BY <1>1, <1>3, <2>2, <3>2 DEF Paired
  <2> QED
    BY <2>1, <2>2 DEF ValidUTF8
<1> QED
  BY <1>2, <1>3

\* A byte before a text that is one.
LEMMA PairedFirst ==
    ASSUME NEW b \in Byte, NEW s \in Seq(Byte), Paired(s),
           Len(s) > 0 => (b = "lead" <=> s[1] = "rest")
    PROVE  Paired(<<b>> \o s)
<1> DEFINE r == <<b>> \o s
<1>1. /\ Len(r) = Len(s) + 1 /\ Len(s) \in Nat
      /\ r[1] = b /\ \A n \in 1 .. Len(s) : r[n + 1] = s[n]
  BY ByteFirst
<1> HIDE DEF r
<1>2. ASSUME NEW n \in 1 .. Len(r) - 1 PROVE r[n] = "lead" <=> r[n + 1] = "rest"
  <2>1. CASE n = 1
    <3>1. Len(s) > 0 /\ 1 \in 1 .. Len(s)
      BY <1>1, <2>1
    <3>2. r[1] = b /\ r[1 + 1] = s[1]
      BY <1>1, <3>1
    <3> QED
      BY <2>1, <3>1, <3>2
  <2>2. CASE n # 1
    <3>1. n - 1 \in 1 .. Len(s) - 1 /\ n - 1 \in 1 .. Len(s) /\ n \in 1 .. Len(s) /\ (n - 1) + 1 = n
      BY <1>1, <2>2
    <3>2. r[n] = s[n - 1] /\ r[n + 1] = s[n]
      BY <1>1, <3>1
    <3>3. s[n - 1] = "lead" <=> s[n] = "rest"
      BY <3>1 DEF Paired
    <3> QED
      BY <3>2, <3>3
  <2> QED
    BY <2>1, <2>2
<1>3. Paired(r)
  BY <1>2 DEF Paired
<1> QED
  BY <1>3 DEF r

\* The secret is not cut out of the middle of a rune.
LEMMA ScanPaired ==
    ASSUME NEW msg \in Seq(Byte), NEW secret \in Words, NEW from,
           IsScanOf(from, msg, secret), Paired(msg), Ends(msg)
    PROVE  \A i \in 1 .. Len(msg) + 1 :
              /\ Paired(from[i])
              /\ Len(from[i]) > 0 <=> i <= Len(msg)
              /\ i <= Len(msg) => /\ from[i][1] = "rest" <=> msg[i] = "rest"
                                  /\ from[i][Len(from[i])] # "lead"
<1> DEFINE k == Len(msg)
           Good(i) == /\ Paired(from[i])
                      /\ Len(from[i]) > 0 <=> i <= k
                      /\ i <= k => /\ from[i][1] = "rest" <=> msg[i] = "rest"
                                   /\ from[i][Len(from[i])] # "lead"
           Q == {i \in 1 .. k + 1 : Good(i)}
<1>1. k \in Nat /\ k + 1 \in 1 .. k + 1
  OBVIOUS
<1>2. k + 1 \in Q
  <2>1. from[k + 1] = <<>> /\ Len(<<>>) = 0
    BY ScanStep
  <2>2. ~ (k + 1 <= k) /\ ~ (Len(from[k + 1]) > 0) /\ Paired(from[k + 1])
    BY <1>1, <2>1 DEF Paired
  <2> QED
    BY <1>1, <2>2
<1>3. ASSUME NEW i \in 1 .. k, \A j \in i + 1 .. k + 1 : j \in Q PROVE i \in Q
  <2>2. PICK b \in Byte, j \in i + 1 .. k + 1 :
              /\ from[j] \in Seq(Byte)
              /\ from[i] = <<b>> \o from[j]
              /\ \/ b = Redacted /\ j = i + Len(secret) /\ Has(msg, secret, i)
                 \/ b = msg[i] /\ j = i + 1 /\ ~ Has(msg, secret, i)
    BY ScanWrites
  <2> DEFINE s == from[j]
  <2>3. Good(j)
    BY <1>3
  <2>4. /\ b = "lead" => j = i + 1 /\ msg[i] = "lead"
        /\ (b = "rest" <=> msg[i] = "rest")
        /\ j <= k => (b = "lead" <=> msg[j] = "rest")
    <3>1. CASE b = Redacted /\ j = i + Len(secret) /\ Has(msg, secret, i)
      <4>1. /\ Len(secret) \in Nat \ {0}
            /\ secret[1] \in Letters /\ secret[Len(secret)] \in Letters
        BY WordType
      <4>2. msg[i + 1 - 1] = secret[1] /\ msg[i + Len(secret) - 1] = secret[Len(secret)]
        BY <3>1, <4>1 DEF Has
      <4>3. i + 1 - 1 = i /\ i + Len(secret) - 1 = j - 1
        BY <1>1, <3>1, <4>1
      <4>4. msg[i] # "rest" /\ msg[j - 1] # "lead"
        BY <4>1, <4>2, <4>3, Alphabet
      <4>5. ASSUME j <= k PROVE msg[j] # "rest"
        <5>1. j - 1 \in 1 .. k - 1 /\ (j - 1) + 1 = j
          BY <1>1, <4>5
        <5> QED
          BY <4>4, <5>1 DEF Paired
      <4> QED
        BY <3>1, <4>4, <4>5, Alphabet
    <3>2. CASE b = msg[i] /\ j = i + 1
      <4>1. ASSUME j <= k PROVE msg[i] = "lead" <=> msg[j] = "rest"
        <5>1. i \in 1 .. k - 1
          BY <1>1, <3>2, <4>1
        <5> QED
          BY <3>2, <5>1 DEF Paired
      <4> QED
        BY <3>2, <4>1
    <3> QED
      BY <2>2, <3>1, <3>2
  <2>5. /\ s \in Seq(Byte) /\ Len(s) \in Nat /\ Paired(s)
        /\ Len(s) > 0 <=> j <= k
        /\ j <= k => (s[1] = "rest" <=> msg[j] = "rest") /\ s[Len(s)] # "lead"
    <3>1. from[j] \in Seq(Byte) /\ Len(from[j]) \in Nat
      BY <2>2
    <3>2. /\ Paired(from[j])
          /\ Len(from[j]) > 0 <=> j <= k
      BY <2>3
    <3>3. j <= k => (from[j][1] = "rest" <=> msg[j] = "rest") /\ from[j][Len(from[j])] # "lead"
      BY <2>3
    <3> QED
      BY <3>1, <3>2, <3>3
  <2> DEFINE r == <<b>> \o s
  <2>6. /\ Len(r) = Len(s) + 1 /\ Len(r) \in Nat
        /\ r[1] = b /\ \A n \in 1 .. Len(s) : r[n + 1] = s[n]
    <3> HIDE DEF s
    <3> QED
      BY <2>5, ByteFirst
  <2>7. Paired(r)
    <3>1. Len(s) > 0 => (b = "lead" <=> s[1] = "rest")
      BY <2>4, <2>5
    <3> QED
      BY <2>5, <3>1, PairedFirst
  <2>8. from[i] = r
    BY <2>2
  <2> HIDE DEF s, r
  <2>9. r[Len(r)] # "lead"
    <3>1. CASE j <= k
      <4>1. Len(s) \in 1 .. Len(s)
        BY <2>5, <3>1
      <4> QED
        BY <2>5, <2>6, <3>1, <4>1
    <3>2. CASE ~ (j <= k)
      <4>1. Len(s) = 0 /\ j = k + 1
        BY <1>1, <2>5, <3>2
      <4>2. r[Len(r)] = b
        BY <2>6, <4>1
      <4>3. b = "lead" => i = k /\ msg[k] = "lead"
        BY <1>1, <2>4, <4>1
      <4>4. k > 0 => msg[k] # "lead"
        BY DEF Ends
      <4> QED
        BY <1>1, <4>2, <4>3, <4>4
    <3> QED
      BY <3>1, <3>2
  <2>10. i <= k /\ i \in 1 .. k + 1 /\ Len(r) > 0
    BY <1>1, <2>5, <2>6
  <2>11. r[1] = "rest" <=> msg[i] = "rest"
    BY <2>4, <2>6
  <2>12. Good(i)
    BY <2>7, <2>8, <2>9, <2>10, <2>11
  <2> QED
    BY <2>10, <2>12
<1> HIDE DEF Q
<1>4. \A i \in 1 .. k + 1 : i \in Q
  BY <1>1, <1>2, <1>3, BackwardInduction
<1> QED
  BY <1>4 DEF Q

\* Without the secret in msg, what is left from i on is msg from i on.
LEMMA ScanUnchanged ==
    ASSUME NEW msg \in Seq(Byte), NEW secret \in Words, NEW from,
           IsScanOf(from, msg, secret), \A i \in 1 .. Len(msg) : ~ Has(msg, secret, i)
    PROVE  from[1] = msg
<1> DEFINE k == Len(msg)
           Same(i) == /\ from[i] \in Seq(Byte)
                      /\ Len(from[i]) = k + 1 - i
                      /\ \A n \in 1 .. k + 1 - i : from[i][n] = msg[i + n - 1]
           Q == {i \in 1 .. k + 1 : Same(i)}
<1>1. k \in Nat /\ k + 1 \in 1 .. k + 1
  OBVIOUS
<1>2. k + 1 \in Q
  <2>1. from[k + 1] = <<>> /\ Len(<<>>) = 0 /\ <<>> \in Seq(Byte)
    BY ScanStep
  <2>2. Len(from[k + 1]) = k + 1 - (k + 1) /\ 1 .. k + 1 - (k + 1) = {}
    BY <1>1, <2>1
  <2>3. from[k + 1] \in Seq(Byte)
    BY <2>1
  <2>4. Same(k + 1)
    BY <2>2, <2>3
  <2> QED
    BY <1>1, <2>4
<1>3. ASSUME NEW i \in 1 .. k, \A j \in i + 1 .. k + 1 : j \in Q PROVE i \in Q
  <2>1. Same(i + 1)
    <3>1. i + 1 \in i + 1 .. k + 1
      BY <1>1
    <3> QED
      BY <1>3, <3>1
  <2>2. from[i] = <<msg[i]>> \o from[i + 1]
    BY ScanStep
  <2> DEFINE s == from[i + 1]
             r == <<msg[i]>> \o s
  <2>3. s \in Seq(Byte) /\ msg[i] \in Byte /\ i \in Nat
    BY <2>1
  <2>4. /\ r \in Seq(Byte) /\ Len(r) = Len(s) + 1 /\ Len(s) \in Nat
        /\ r[1] = msg[i] /\ \A n \in 1 .. Len(s) : r[n + 1] = s[n]
    <3> HIDE DEF s
    <3> QED
      BY <2>3, ByteFirst
  <2>5. Len(s) = k + 1 - (i + 1) /\ \A n \in 1 .. k + 1 - (i + 1) : s[n] = msg[i + 1 + n - 1]
    BY <2>1
  <2>6. from[i] = r
    BY <2>2
  <2> HIDE DEF r, s
  <2>7. ASSUME NEW n \in 1 .. k + 1 - i PROVE r[n] = msg[i + n - 1]
    <3>1. CASE n = 1
      BY <1>1, <2>3, <2>4, <3>1
    <3>2. CASE n # 1
      <4>1. n - 1 \in 1 .. k + 1 - (i + 1) /\ (n - 1) + 1 = n /\ i + 1 + (n - 1) - 1 = i + n - 1
        BY <1>1, <2>3, <3>2
      <4> QED
        BY <2>4, <2>5, <4>1
    <3> QED
      BY <3>1, <3>2
  <2>8. Len(r) = k + 1 - i
    BY <1>1, <2>3, <2>4, <2>5
  <2>9. Same(i)
    BY <2>4, <2>6, <2>7, <2>8
  <2>10. i \in 1 .. k + 1
    BY <1>1
  <2> QED
    BY <2>9, <2>10, Zenon
<1>4. \A i \in 1 .. k + 1 : i \in Q
  <2> HIDE DEF Q
  <2> QED
    BY <1>1, <1>2, <1>3, BackwardInduction
<1>5. Same(1)
  <2>1. 1 \in 1 .. k + 1
    BY <1>1
  <2> QED
    BY <1>4, <2>1
<1>6. from[1] \in Seq(Byte) /\ Len(from[1]) = k /\ \A n \in 1 .. k : from[1][n] = msg[n]
  <2>1. k + 1 - 1 = k /\ \A n \in 1 .. k : 1 + n - 1 = n
    BY <1>1
  <2> QED
    BY <1>5, <2>1
<1> QED
  BY <1>6

----------------------------------------------------------------------------
(* What replacing a secret does to a text.                                 *)

LEMMA Replaced ==
    ASSUME NEW msg \in Seq(Byte), NEW secret \in Words
    PROVE  /\ ReplaceSecret(msg, secret) \in Seq(Byte)
           /\ \A t \in Words : Mentions(ReplaceSecret(msg, secret), t)
                                  => t # secret /\ Mentions(msg, t)
           /\ ValidUTF8(msg) => ValidUTF8(ReplaceSecret(msg, secret))
           /\ ~ Mentions(msg, secret) => ReplaceSecret(msg, secret) = msg
<1> DEFINE new == ReplaceSecret(msg, secret)
<1>1. PICK from : IsScanOf(from, msg, secret) /\ new = from[1]
  BY ReplaceIsScan DEF IsScanOf
<1>2. Len(msg) \in Nat /\ 1 \in 1 .. Len(msg) + 1
  OBVIOUS
<1>3. new \in Seq(Byte)
  BY <1>1, <1>2, ScanType
<1> HIDE DEF new
<1>4. \A t \in Words : t \in Seq(Byte)
  BY WordType
<1>5. ASSUME NEW t \in Words, Mentions(new, t) PROVE t # secret /\ Mentions(msg, t)
  <2>1. PICK p \in 1 .. Len(new) : Has(new, t, p)
    BY <1>3, <1>4, <1>5, MentionsIsHas
  <2>2. p \in Nat \ {0} /\ Has(from[1], t, p)
    BY <1>1, <2>1
  <2>3. t # secret /\ \E q \in 1 .. Len(msg) : Has(msg, t, q)
    BY <1>1, <1>2, <2>2, ScanWords
  <2> QED
    BY <1>4, <2>3, MentionsIsHas
<1>6. ASSUME ValidUTF8(msg) PROVE ValidUTF8(new)
  <2>1. Paired(msg) /\ Ends(msg)
    BY <1>6, ValidIsPaired
  <2>2. /\ Paired(new)
        /\ Len(new) > 0 <=> 1 <= Len(msg)
        /\ 1 <= Len(msg) => (new[1] = "rest" <=> msg[1] = "rest") /\ new[Len(new)] # "lead"
    BY <1>1, <1>2, <2>1, ScanPaired
  <2>3. Ends(new)
    BY <1>2, <2>1, <2>2 DEF Ends
  <2> QED
    BY <1>3, <2>2, <2>3, ValidIsPaired
<1>7. ASSUME ~ Mentions(msg, secret) PROVE new = msg
  <2>1. \A i \in 1 .. Len(msg) : ~ Has(msg, secret, i)
    BY <1>4, <1>7, MentionsIsHas
  <2> QED
    BY <1>1, <2>1, ScanUnchanged
<1> QED
  BY <1>3, <1>5, <1>6, <1>7 DEF new

LEMMA ReplacedAlone ==
    ASSUME NEW secret \in Words
    PROVE  ReplaceSecret(secret, secret) = <<Redacted>>
<1>1. secret \in Seq(Byte) /\ Len(secret) \in Nat \ {0}
  BY WordType
<1>2. PICK from : IsScanOf(from, secret, secret) /\ ReplaceSecret(secret, secret) = from[1]
  BY <1>1, ReplaceIsScan DEF IsScanOf
<1>3. Has(secret, secret, 1)
  BY <1>1 DEF Has
<1>4. from[Len(secret) + 1] = <<>>
  BY <1>1, <1>2, ScanStep
<1>5. from[1] = <<Redacted>> \o from[1 + Len(secret)]
  <2>1. 1 \in 1 .. Len(secret)
    BY <1>1
  <2> QED
    BY <1>1, <1>2, <1>3, <2>1, ScanStep
<1>6. 1 + Len(secret) = Len(secret) + 1 /\ <<Redacted>> \o <<>> = <<Redacted>>
  BY <1>1
<1> QED
  BY <1>2, <1>4, <1>5, <1>6

----------------------------------------------------------------------------
(* All the secrets, one after the other.                                   *)

IsScrubbing(walk, scrubber, msg) ==
    /\ walk \in [0 .. Len(scrubber) -> Seq(Byte)]
    /\ walk[0] = msg
    /\ \A n \in 0 .. Len(scrubber) - 1 :
          walk[n + 1] = ReplaceSecret(walk[n], scrubber[n + 1])

IsScrubFold(it, scrubber, msg) ==
    it = [s \in SUBSET DOMAIN scrubber |->
            IF s = {} THEN msg
            ELSE ReplaceSecret(it[s \ {Max(s)}], scrubber[Max(s)])]

LEMMA ScrubFoldDef ==
    ASSUME NEW msg, NEW scrubber
    PROVE  FoldLeft(ReplaceSecret, msg, scrubber)
             = (CHOOSE it : IsScrubFold(it, scrubber, msg))[DOMAIN scrubber]
  BY DEF FoldLeft, MapThenFoldSet, IsScrubFold

LEMMA ScrubWalk ==
    ASSUME NEW msg \in Seq(Byte), NEW scrubber \in Seq(Words)
    PROVE  \E walk : /\ IsScrubbing(walk, scrubber, msg)
                     /\ FoldLeft(ReplaceSecret, msg, scrubber) = walk[Len(scrubber)]
<1> DEFINE k == Len(scrubber)
           V == Seq(Byte)
           g == [vi \in V \X (1 .. k) |-> ReplaceSecret(vi[1], scrubber[vi[2]])]
<1>1. k \in Nat /\ DOMAIN scrubber = 1 .. k /\ \A i \in 1 .. k : scrubber[i] \in Words
  OBVIOUS
<1>2. \A v \in V, i \in 1 .. k :
        g[<<v, i>>] = ReplaceSecret(v, scrubber[i]) /\ g[<<v, i>>] \in V
  BY <1>1, Replaced
<1>3. \A s \in SUBSET (1 .. k) : s # {} => Max(s) \in 1 .. k
  BY <1>1, LastOfSome
<1> HIDE DEF g, V, k
<1>4. PICK jt : IsLeftFold(jt, msg, g, k, V)
  <2>1. msg \in V /\ k \in Nat /\ ClosedOn(g, k, V)
    BY <1>1, <1>2 DEF V, ClosedOn
  <2> QED
    BY <2>1, FoldLeftExists
<1>5. IsScrubFold(jt, scrubber, msg)
  <2>1. ASSUME NEW s \in SUBSET (1 .. k)
        PROVE  jt[s] = IF s = {} THEN msg ELSE ReplaceSecret(jt[s \ {Max(s)}], scrubber[Max(s)])
    <3>1. CASE s = {}
      BY <1>4, <3>1 DEF IsLeftFold
    <3>2. CASE s # {}
      <4>1. Max(s) \in 1 .. k /\ jt[s \ {Max(s)}] \in V
        BY <1>3, <1>4, <3>2 DEF IsLeftFold
      <4> QED
        BY <1>2, <1>4, <3>2, <4>1 DEF IsLeftFold
    <3> QED
      BY <3>1, <3>2
  <2> QED
    BY <1>1, <1>4, <2>1 DEF IsScrubFold, IsLeftFold
<1>6. PICK it : IsScrubFold(it, scrubber, msg) /\ FoldLeft(ReplaceSecret, msg, scrubber) = it[1 .. k]
  BY <1>1, <1>5, ScrubFoldDef
<1>7. \A s \in SUBSET (1 .. k) :
        it[s] = IF s = {} THEN msg ELSE ReplaceSecret(it[s \ {Max(s)}], scrubber[Max(s)])
  BY <1>1, <1>6 DEF IsScrubFold
<1>8. PICK walk : GoesAlong(walk, msg, g, k, V) /\ walk[k] = it[1 .. k]
  <2>1. msg \in V /\ k \in Nat /\ ClosedOn(g, k, V)
    BY <1>1, <1>2 DEF V, ClosedOn
  <2>2. it[{}] = msg
    BY <1>7, Zenon
  <2>3. ASSUME NEW s \in SUBSET (1 .. k), s # {}, it[s \ {Max(s)}] \in V
        PROVE  it[s] = g[<<it[s \ {Max(s)}], Max(s)>>]
    BY <1>2, <1>3, <1>7, <2>3
  <2>4. FoldsWith(it, msg, g, k, V)
    BY <2>2, <2>3 DEF FoldsWith
  <2> QED
    BY <2>1, <2>4, FoldLeftWalk
<1>9. \A n \in 0 .. k - 1 : walk[n + 1] = ReplaceSecret(walk[n], scrubber[n + 1])
  <2> TAKE n \in 0 .. k - 1
  <2>1. n \in 0 .. k /\ n + 1 \in 1 .. k
    BY <1>1
  <2>2. walk[n] \in V
    BY <1>8, <2>1 DEF GoesAlong
  <2> QED
    BY <1>2, <1>8, <2>1, <2>2 DEF GoesAlong
<1> QED
  BY <1>6, <1>8, <1>9 DEF GoesAlong, IsScrubbing, V, k

LEMMA AllReplaced ==
    ASSUME NEW msg \in Seq(Byte), NEW scrubber \in Seq(Words), NEW r,
           r = FoldLeft(ReplaceSecret, msg, scrubber)
    PROVE  /\ r \in Seq(Byte)
           /\ \A t \in Words : Mentions(r, t) => Mentions(msg, t)
           /\ \A i \in 1 .. Len(scrubber) : ~ Mentions(r, scrubber[i])
           /\ ValidUTF8(msg) => ValidUTF8(r)
           /\ (\A i \in 1 .. Len(scrubber) : ~ Mentions(msg, scrubber[i])) => r = msg
<1> DEFINE k == Len(scrubber)
<1>1. k \in Nat /\ \A i \in 1 .. k : scrubber[i] \in Words
  OBVIOUS
<1>2. PICK walk : IsScrubbing(walk, scrubber, msg) /\ r = walk[k]
  BY ScrubWalk
<1>3. /\ walk[0] = msg
      /\ \A n \in 0 .. k : walk[n] \in Seq(Byte)
      /\ \A n \in 0 .. k - 1 : walk[n + 1] = ReplaceSecret(walk[n], scrubber[n + 1])
  BY <1>2 DEF IsScrubbing
<1> DEFINE Good(n) == /\ \A t \in Words : Mentions(walk[n], t) => Mentions(msg, t)
                      /\ \A i \in 1 .. n : ~ Mentions(walk[n], scrubber[i])
                      /\ ValidUTF8(msg) => ValidUTF8(walk[n])
                      /\ (\A i \in 1 .. k : ~ Mentions(msg, scrubber[i])) => walk[n] = msg
           Q == {n \in 0 .. k : Good(n)}
<1> HIDE DEF k
<1>4. 0 \in Q
  <2>1. 0 \in 0 .. k /\ 1 .. 0 = {}
    BY <1>1
  <2> QED
    BY <1>3, <2>1
<1>5. ASSUME NEW n \in 0 .. k - 1, n \in Q PROVE n + 1 \in Q
  <2>1. n \in 0 .. k /\ n + 1 \in 0 .. k /\ n + 1 \in 1 .. k
    BY <1>1
  <2> DEFINE old == walk[n]
             new == walk[n + 1]
             secret == scrubber[n + 1]
  <2>2. old \in Seq(Byte) /\ secret \in Words /\ new = ReplaceSecret(old, secret)
    BY <1>1, <1>3, <2>1
  <2>3. Good(n)
    BY <1>5
  <2>4. /\ \A t \in Words : Mentions(new, t) => t # secret /\ Mentions(old, t)
        /\ ValidUTF8(old) => ValidUTF8(new)
        /\ ~ Mentions(old, secret) => new = old
    <3> HIDE DEF old, new, secret
    <3> QED
      BY <2>2, Replaced
  <2>5. \A t \in Words : Mentions(new, t) => Mentions(msg, t)
    BY <2>3, <2>4
  <2>6. ASSUME NEW i \in 1 .. n + 1 PROVE ~ Mentions(new, scrubber[i])
    <3>1. i \in 1 .. k /\ scrubber[i] \in Words
      BY <1>1, <2>1
    <3>2. i = n + 1 \/ i \in 1 .. n
      BY <2>1
    <3> QED
      BY <2>3, <2>4, <3>1, <3>2
  <2>7. ValidUTF8(msg) => ValidUTF8(new)
    BY <2>3, <2>4
  <2>8. ASSUME \A i \in 1 .. k : ~ Mentions(msg, scrubber[i]) PROVE new = msg
    BY <2>1, <2>3, <2>4, <2>8
  <2>9. Good(n + 1)
    BY <2>5, <2>6, <2>7, <2>8
  <2> QED
    BY <2>1, <2>9
<1>6. \A n \in 0 .. k : n \in Q
  <2> HIDE DEF Q
  <2> QED
    BY <1>1, <1>4, <1>5, CountingInduction
<1>7. Good(k) /\ k \in 0 .. k
  BY <1>1, <1>6
<1> QED
  BY <1>2, <1>3, <1>7 DEF k

\* No other word of the same length or longer stands in a word.
LEMMA NotInShorter ==
    ASSUME NEW s \in Words, NEW t \in Words, Len(t) >= Len(s), t # s
    PROVE  ~ Mentions(s, t)
<1>1. /\ s \in Seq(Byte) /\ t \in Seq(Byte) /\ s \in Seq(Letters) /\ t \in Seq(Letters)
      /\ Len(s) \in Nat /\ Len(t) \in Nat \ {0}
  BY WordType
<1>2. SUFFICES ASSUME NEW i \in 1 .. Len(s), Has(s, t, i) PROVE FALSE
  BY <1>1, MentionsIsHas
<1>3. i = 1 /\ Len(t) = Len(s) /\ \A j \in 1 .. Len(t) : s[j] = t[j]
  <2>1. i + Len(t) - 1 <= Len(s) /\ \A j \in 1 .. Len(t) : s[i + j - 1] = t[j]
    BY <1>2 DEF Has
  <2>2. i = 1 /\ Len(t) = Len(s)
    BY <1>1, <2>1
  <2>3. \A j \in 1 .. Len(t) : i + j - 1 = j
    BY <2>2
  <2> QED
    BY <2>1, <2>2, <2>3
<1>4. t = s
  BY <1>1, <1>3
<1> QED
  BY <1>4

LEMMA RedactedIsNoWord ==
    /\ <<Redacted>> \in Seq(Byte)
    /\ \A t \in Words : t # <<Redacted>> /\ ~ Mentions(<<Redacted>>, t)
<1>1. <<Redacted>> \in Seq(Byte) /\ Len(<<Redacted>>) = 1 /\ <<Redacted>>[1] = Redacted
  <2>1. Redacted \in Byte
    BY Alphabet
  <2> QED
    BY <2>1
<1>2. ASSUME NEW t \in Words PROVE t[1] # Redacted
  <2>1. 1 \in 1 .. Len(t) /\ t \in Seq(Letters)
    BY WordType
  <2>2. t[1] \in Letters
    BY <2>1
  <2> QED
    BY <2>2, Alphabet
<1>3. ASSUME NEW t \in Words PROVE ~ Mentions(<<Redacted>>, t)
  <2>1. t \in Seq(Byte) /\ Len(t) \in Nat \ {0}
    BY WordType
  <2>2. SUFFICES ASSUME NEW i \in 1 .. 1, Has(<<Redacted>>, t, i) PROVE FALSE
    BY <1>1, <2>1, MentionsIsHas
  <2>3. <<Redacted>>[i + 1 - 1] = t[1] /\ i = 1
    BY <2>1, <2>2 DEF Has
  <2> QED
    BY <1>1, <1>2, <2>3
<1> QED
  BY <1>1, <1>2, <1>3

\* A secret alone is replaced as a whole, although others may be parts of it.
LEMMA AloneReplaced ==
    ASSUME NEW scrubber \in Seq(Words), LongestFirst(scrubber), NEW i \in 1 .. Len(scrubber)
    PROVE  FoldLeft(ReplaceSecret, scrubber[i], scrubber) = <<Redacted>>
<1> DEFINE k == Len(scrubber)
           s == scrubber[i]
<1>1. /\ k \in Nat /\ \A m \in 1 .. k : scrubber[m] \in Words
      /\ s \in Words /\ s \in Seq(Byte) /\ i \in 1 .. k
  BY WordType
<1>2. PICK walk : /\ IsScrubbing(walk, scrubber, s)
                  /\ FoldLeft(ReplaceSecret, s, scrubber) = walk[k]
  <2> HIDE DEF s
  <2> QED
    BY <1>1, ScrubWalk
<1>3. /\ walk[0] = s
      /\ \A n \in 0 .. k - 1 : walk[n + 1] = ReplaceSecret(walk[n], scrubber[n + 1])
  BY <1>2 DEF IsScrubbing
<1>4. \A m \in 1 .. k : m < i => Len(scrubber[m]) >= Len(s)
  BY <1>1 DEF LongestFirst
<1> DEFINE Good(n) == \/ walk[n] = <<Redacted>>
                      \/ walk[n] = s /\ n < i
           Q == {n \in 0 .. k : Good(n)}
<1> HIDE DEF k, s
<1>5. 0 \in Q
  BY <1>1, <1>3
<1>6. ASSUME NEW n \in 0 .. k - 1, n \in Q PROVE n + 1 \in Q
  <2>1. n + 1 \in 0 .. k /\ n + 1 \in 1 .. k /\ scrubber[n + 1] \in Words
    BY <1>1
  <2>2. walk[n + 1] = ReplaceSecret(walk[n], scrubber[n + 1])
    BY <1>3
  <2>3. CASE walk[n] = <<Redacted>>
    <3>1. ReplaceSecret(<<Redacted>>, scrubber[n + 1]) = <<Redacted>>
      BY <2>1, RedactedIsNoWord, Replaced
    <3> QED
      BY <2>1, <2>2, <2>3, <3>1
  <2>4. CASE walk[n] = s /\ n < i /\ scrubber[n + 1] = s
    <3>1. ReplaceSecret(s, s) = <<Redacted>>
      BY <1>1, ReplacedAlone
    <3> QED
      BY <2>1, <2>2, <2>4, <3>1
  <2>5. CASE walk[n] = s /\ n < i /\ scrubber[n + 1] # s
    <3>1. n + 1 # i
      BY <2>5 DEF s
    <3>2. n + 1 < i
      BY <1>1, <2>5, <3>1
    <3>3. ~ Mentions(s, scrubber[n + 1])
      BY <1>1, <1>4, <2>1, <2>5, <3>2, NotInShorter
    <3>4. ReplaceSecret(s, scrubber[n + 1]) = s
      BY <1>1, <2>1, <3>3, Replaced
    <3> QED
      BY <2>1, <2>2, <2>5, <3>2, <3>4
  <2> QED
    BY <1>6, <2>3, <2>4, <2>5
<1>7. \A n \in 0 .. k : n \in Q
  <2> HIDE DEF Q
  <2> QED
    BY <1>1, <1>5, <1>6, CountingInduction
<1>8. Good(k)
  <2>1. k \in 0 .. k
    BY <1>1
  <2> QED
    BY <1>7, <2>1
<1>9. ~ (k < i)
  BY <1>1
<1> QED
  BY <1>2, <1>8, <1>9 DEF s, k

----------------------------------------------------------------------------
(* OneLine, byte by byte.                                                  *)

LEMMA ByteLast ==
    ASSUME NEW c \in Byte, NEW s \in Seq(Byte)
    PROVE  /\ Append(s, c) \in Seq(Byte)
           /\ Len(Append(s, c)) = Len(s) + 1
           /\ Append(s, c)[Len(s) + 1] = c
           /\ \A n \in 1 .. Len(s) : Append(s, c)[n] = s[n]
  OBVIOUS

\* What AddByte does: adds the byte, or one blank, or nothing.
LEMMA AddByteCases ==
    ASSUME NEW line \in Seq(Byte), NEW byte \in Byte
    PROVE  \/ byte \notin Blanks /\ AddByte(line, byte) = Append(line, byte)
           \/ /\ byte \in Blanks /\ Len(line) > 0 /\ line[Len(line)] # Space
              /\ AddByte(line, byte) = Append(line, Space)
           \/ /\ byte \in Blanks /\ (Len(line) > 0 => line[Len(line)] = Space)
              /\ AddByte(line, byte) = line
<1>1. Len(line) \in Nat /\ (line # <<>> <=> Len(line) > 0)
  OBVIOUS
<1>2. CASE byte \notin Blanks
  BY <1>2, Zenon DEF AddByte, Space
<1>3. CASE byte \in Blanks /\ line # <<>> /\ line[Len(line)] # Space
  BY <1>1, <1>3, Zenon DEF AddByte, Last, Space
<1>4. CASE byte \in Blanks /\ ~ (line # <<>> /\ line[Len(line)] # Space)
  <2>1. AddByte(line, byte) = line
    BY <1>4, Zenon DEF AddByte, Last, Space
  <2> QED
    BY <1>1, <1>4, <2>1
<1> QED
  BY <1>2, <1>3, <1>4

LEMMA AddByteType ==
    ASSUME NEW line \in Seq(Byte), NEW byte \in Byte
    PROVE  AddByte(line, byte) \in Seq(Byte)
<1>1. Space \in Byte
  BY Alphabet
<1> QED
  BY <1>1, AddByteCases, ByteLast

IsLining(walk, msg) ==
    /\ walk \in [0 .. Len(msg) -> Seq(Byte)]
    /\ walk[0] = <<>>
    /\ \A n \in 0 .. Len(msg) - 1 : walk[n + 1] = AddByte(walk[n], msg[n + 1])

IsLineFold(it, msg) ==
    it = [s \in SUBSET DOMAIN msg |->
            IF s = {} THEN <<>> ELSE AddByte(it[s \ {Max(s)}], msg[Max(s)])]

LEMMA LineFoldDef ==
    ASSUME NEW msg
    PROVE  FoldLeft(AddByte, <<>>, msg) = (CHOOSE it : IsLineFold(it, msg))[DOMAIN msg]
  BY DEF FoldLeft, MapThenFoldSet, IsLineFold

LEMMA LineWalk ==
    ASSUME NEW msg \in Seq(Byte)
    PROVE  \E walk : IsLining(walk, msg) /\ FoldLeft(AddByte, <<>>, msg) = walk[Len(msg)]
<1> DEFINE k == Len(msg)
           V == Seq(Byte)
           g == [vi \in V \X (1 .. k) |-> AddByte(vi[1], msg[vi[2]])]
<1>1. k \in Nat /\ DOMAIN msg = 1 .. k /\ \A i \in 1 .. k : msg[i] \in Byte
  OBVIOUS
<1>2. \A v \in V, i \in 1 .. k :
        g[<<v, i>>] = AddByte(v, msg[i]) /\ g[<<v, i>>] \in V
  BY <1>1, AddByteType
<1>3. \A s \in SUBSET (1 .. k) : s # {} => Max(s) \in 1 .. k
  BY <1>1, LastOfSome
<1>4. <<>> \in V
  OBVIOUS
<1> HIDE DEF g, V, k
<1>5. k \in Nat /\ ClosedOn(g, k, V)
  BY <1>1, <1>2 DEF ClosedOn
<1>6. PICK jt : IsLeftFold(jt, <<>>, g, k, V)
  BY <1>4, <1>5, FoldLeftExists
<1>7. IsLineFold(jt, msg)
  <2>1. ASSUME NEW s \in SUBSET (1 .. k)
        PROVE  jt[s] = IF s = {} THEN <<>> ELSE AddByte(jt[s \ {Max(s)}], msg[Max(s)])
    <3>1. CASE s = {}
      BY <1>6, <3>1 DEF IsLeftFold
    <3>2. CASE s # {}
      <4>1. Max(s) \in 1 .. k /\ jt[s \ {Max(s)}] \in V
        BY <1>3, <1>6, <3>2 DEF IsLeftFold
      <4> QED
        BY <1>2, <1>6, <3>2, <4>1 DEF IsLeftFold
    <3> QED
      BY <3>1, <3>2
  <2> QED
    BY <1>1, <1>6, <2>1 DEF IsLineFold, IsLeftFold
<1>8. PICK it : IsLineFold(it, msg) /\ FoldLeft(AddByte, <<>>, msg) = it[1 .. k]
  BY <1>1, <1>7, LineFoldDef
<1>9. \A s \in SUBSET (1 .. k) :
        it[s] = IF s = {} THEN <<>> ELSE AddByte(it[s \ {Max(s)}], msg[Max(s)])
  BY <1>1, <1>8 DEF IsLineFold
<1>10. PICK walk : GoesAlong(walk, <<>>, g, k, V) /\ walk[k] = it[1 .. k]
  <2>1. it[{}] = <<>>
    BY <1>9, Zenon
  <2>2. ASSUME NEW s \in SUBSET (1 .. k), s # {}, it[s \ {Max(s)}] \in V
        PROVE  it[s] = g[<<it[s \ {Max(s)}], Max(s)>>]
    BY <1>2, <1>3, <1>9, <2>2
  <2>3. FoldsWith(it, <<>>, g, k, V)
    BY <2>1, <2>2 DEF FoldsWith
  <2> QED
    BY <1>4, <1>5, <2>3, FoldLeftWalk
<1>11. \A n \in 0 .. k - 1 : walk[n + 1] = AddByte(walk[n], msg[n + 1])
  <2> TAKE n \in 0 .. k - 1
  <2>1. n \in 0 .. k /\ n + 1 \in 1 .. k
    BY <1>1
  <2>2. walk[n] \in V
    BY <1>10, <2>1 DEF GoesAlong
  <2> QED
    BY <1>2, <1>10, <2>1, <2>2 DEF GoesAlong
<1> QED
  BY <1>8, <1>10, <1>11 DEF GoesAlong, IsLining, V, k

\* One line: no newline, and a blank neither first nor after another.
Tight(s) ==
    /\ \A n \in 1 .. Len(s) : s[n] # Newline
    /\ Len(s) > 0 => s[1] # Space
    /\ \A n \in 1 .. Len(s) - 1 : s[n] = Space => s[n + 1] # Space

Neat(s) == Tight(s) /\ (Len(s) > 0 => s[Len(s)] # Space)

LEMMA TightAppend ==
    ASSUME NEW s \in Seq(Byte), NEW c \in Byte, Tight(s), c # Newline,
           c = Space => Len(s) > 0 /\ s[Len(s)] # Space
    PROVE  Tight(Append(s, c))
<1> DEFINE r == Append(s, c)
<1>1. /\ Len(r) = Len(s) + 1 /\ Len(s) \in Nat /\ r[Len(s) + 1] = c
      /\ \A n \in 1 .. Len(s) : r[n] = s[n]
  BY ByteLast
<1> HIDE DEF r
<1>2. ASSUME NEW n \in 1 .. Len(r) PROVE r[n] # Newline
  <2>1. n = Len(s) + 1 \/ n \in 1 .. Len(s)
    BY <1>1
  <2> QED
    BY <1>1, <2>1 DEF Tight
<1>3. r[1] # Space
  <2>1. CASE Len(s) = 0
    BY <1>1, <2>1
  <2>2. CASE Len(s) > 0
    BY <1>1, <2>2 DEF Tight
  <2> QED
    BY <1>1, <2>1, <2>2
<1>4. ASSUME NEW n \in 1 .. Len(r) - 1, r[n] = Space PROVE r[n + 1] # Space
  <2>1. CASE n = Len(s)
    BY <1>1, <1>4, <2>1
  <2>2. CASE n # Len(s)
    <3>1. n \in 1 .. Len(s) - 1 /\ n \in 1 .. Len(s) /\ n + 1 \in 1 .. Len(s)
      BY <1>1, <2>2
    <3> QED
      BY <1>1, <1>4, <3>1 DEF Tight
  <2> QED
    BY <2>1, <2>2
<1>5. Tight(r)
  BY <1>2, <1>3, <1>4 DEF Tight
<1> QED
  BY <1>5 DEF r

----------------------------------------------------------------------------
(* Words in the line stood in the first n bytes of the message, and at     *)
(* their end if they stand at the end of the line.                         *)

Traced(line, msg, n) ==
    \A t \in Words : \A p \in Nat \ {0} : Has(line, t, p) =>
        \E q \in Nat \ {0} :
            /\ Has(msg, t, q)
            /\ q + Len(t) - 1 <= n
            /\ p + Len(t) - 1 = Len(line) => q + Len(t) - 1 = n

LEMMA TracedStay ==
    ASSUME NEW line \in Seq(Byte), NEW msg \in Seq(Byte), NEW n \in Nat,
           Traced(line, msg, n), Len(line) > 0 => line[Len(line)] \notin Letters
    PROVE  Traced(line, msg, n + 1)
<1>1. SUFFICES ASSUME NEW t \in Words, NEW p \in Nat \ {0}, Has(line, t, p)
               PROVE  \E q \in Nat \ {0} :
                         /\ Has(msg, t, q)
                         /\ q + Len(t) - 1 <= n + 1
                         /\ p + Len(t) - 1 = Len(line) => q + Len(t) - 1 = n + 1
  BY DEF Traced
<1>2. PICK q \in Nat \ {0} : Has(msg, t, q) /\ q + Len(t) - 1 <= n
  BY <1>1 DEF Traced
<1>3. /\ t \in Seq(Letters) /\ Len(t) \in Nat \ {0} /\ Len(t) \in 1 .. Len(t)
      /\ t[Len(t)] \in Letters /\ Len(line) \in Nat
  BY WordType
<1>4. p + Len(t) - 1 # Len(line)
  <2>1. line[p + Len(t) - 1] = t[Len(t)] /\ p + Len(t) - 1 > 0
    BY <1>1, <1>3 DEF Has
  <2> QED
    BY <1>3, <2>1
<1>5. q + Len(t) - 1 <= n + 1
  BY <1>2, <1>3
<1> QED
  BY <1>2, <1>4, <1>5

LEMMA TracedAppend ==
    ASSUME NEW line \in Seq(Byte), NEW msg \in Seq(Byte), NEW n \in 0 .. Len(msg) - 1,
           Traced(line, msg, n), NEW c \in Byte, c \in Letters => c = msg[n + 1]
    PROVE  Traced(Append(line, c), msg, n + 1)
<1> DEFINE r == Append(line, c)
<1>1. /\ Len(r) = Len(line) + 1 /\ Len(line) \in Nat /\ r[Len(line) + 1] = c
      /\ \A m \in 1 .. Len(line) : r[m] = line[m]
      /\ n \in Nat /\ Len(msg) \in Nat /\ n + 1 <= Len(msg)
  BY ByteLast
<1> HIDE DEF r
<1>2. ASSUME NEW t \in Words, NEW p \in Nat \ {0}, Has(r, t, p)
      PROVE  \E q \in Nat \ {0} :
                /\ Has(msg, t, q)
                /\ q + Len(t) - 1 <= n + 1
                /\ p + Len(t) - 1 = Len(r) => q + Len(t) - 1 = n + 1
  <2> DEFINE k == Len(t)
  <2>1. /\ t \in Seq(Letters) /\ k \in Nat \ {0} /\ \A j \in 1 .. k : t[j] \in Letters
    BY WordType
  <2>2. p + k - 1 <= Len(line) + 1 /\ \A j \in 1 .. k : r[p + j - 1] = t[j]
    BY <1>1, <1>2 DEF Has
  <2> HIDE DEF k
  <2>3. CASE p + k - 1 <= Len(line)
    <3>1. \A j \in 1 .. k : line[p + j - 1] = t[j]
      <4> TAKE j \in 1 .. k
      <4>1. p + j - 1 \in 1 .. Len(line)
        BY <1>1, <2>1, <2>3
      <4> QED
        BY <1>1, <2>2, <4>1
    <3>2. Has(line, t, p)
      BY <2>3, <3>1 DEF Has, k
    <3>3. PICK q \in Nat \ {0} : Has(msg, t, q) /\ q + k - 1 <= n
      BY <3>2 DEF Traced, k
    <3>4. p + k - 1 # Len(r) /\ q + k - 1 <= n + 1
      BY <1>1, <2>1, <2>3, <3>3
    <3> QED
      BY <3>3, <3>4 DEF k
  <2>4. CASE p + k - 1 = Len(line) + 1
    <3>1. msg[n + 1] = t[k]
      <4>1. k \in 1 .. k
        BY <2>1
      <4>2. r[p + k - 1] = t[k] /\ t[k] \in Letters
        BY <2>1, <2>2, <4>1
      <4> QED
        BY <1>1, <2>4, <4>2
    <3>2. CASE k = 1
      <4>1. Has(msg, t, n + 1)
        <5>1. n + 1 + k - 1 <= Len(msg) /\ 1 .. k = {1} /\ n + 1 + 1 - 1 = n + 1
          BY <1>1, <3>2
        <5> QED
          BY <3>1, <3>2, <5>1 DEF Has, k
      <4>2. n + 1 \in Nat \ {0} /\ (n + 1) + k - 1 = n + 1
        BY <1>1, <3>2
      <4> QED
        BY <4>1, <4>2 DEF k
    <3>3. CASE k # 1
      <4> DEFINE u == SubSeq(t, 1, k - 1)
      <4>1. /\ u \in Seq(Letters) /\ Len(u) = k - 1 /\ k - 1 \in Nat \ {0}
            /\ \A j \in 1 .. k - 1 : u[j] = t[j]
        <5>1. k = Len(t) /\ k - 1 \in Nat \ {0} /\ k - 1 <= Len(t)
          BY <2>1, <3>3 DEF k
        <5> QED
          BY <2>1, <5>1
      <4> HIDE DEF u
      <4>2. u \in Words
        <5>1. ASSUME u = <<>> PROVE FALSE
          <6>1. Len(u) = Len(<<>>) /\ Len(<<>>) = 0
            BY <5>1
          <6> QED
            BY <4>1, <6>1
        <5> QED
          BY <4>1, <5>1 DEF Words
      <4>3. Has(line, u, p)
        <5>1. \A j \in 1 .. k - 1 : line[p + j - 1] = u[j]
          <6> TAKE j \in 1 .. k - 1
          <6>1. p + j - 1 \in 1 .. Len(line) /\ j \in 1 .. k
            BY <1>1, <2>1, <2>4
          <6> QED
            BY <1>1, <2>2, <4>1, <6>1
        <5>2. p + (k - 1) - 1 <= Len(line)
          BY <1>1, <2>1, <2>4
        <5> QED
          BY <4>1, <5>1, <5>2 DEF Has
      <4>4. PICK q \in Nat \ {0} : Has(msg, u, q) /\ q + (k - 1) - 1 = n
        <5>1. p + Len(u) - 1 = Len(line)
          BY <1>1, <2>1, <2>4, <4>1
        <5>2. \E q \in Nat \ {0} : Has(msg, u, q) /\ q + Len(u) - 1 = n
          BY <4>2, <4>3, <5>1 DEF Traced
        <5> QED
          BY <4>1, <5>2
      <4>5. Has(msg, t, q)
        <5>1. \A j \in 1 .. k : msg[q + j - 1] = t[j]
          <6> TAKE j \in 1 .. k
          <6>1. CASE j = k
            <7>1. q + k - 1 = n + 1
              BY <2>1, <4>4
            <7> QED
              BY <3>1, <6>1, <7>1
          <6>2. CASE j # k
            <7>1. j \in 1 .. k - 1
              BY <2>1, <6>2
            <7> QED
              BY <4>1, <4>4, <7>1 DEF Has
          <6> QED
            BY <6>1, <6>2
        <5>2. q + k - 1 <= Len(msg)
          BY <1>1, <2>1, <4>4
        <5> QED
          BY <5>1, <5>2 DEF Has, k
      <4>6. q + k - 1 = n + 1 /\ n + 1 <= n + 1
        BY <1>1, <2>1, <4>4
      <4> QED
        BY <4>5, <4>6 DEF k
    <3> QED
      BY <3>2, <3>3
  <2> QED
    BY <1>1, <2>1, <2>2, <2>3, <2>4
<1>3. Traced(r, msg, n + 1)
  BY <1>2 DEF Traced
<1> QED
  BY <1>3 DEF r

LEMMA PairedAppend ==
    ASSUME NEW s \in Seq(Byte), NEW c \in Byte, Paired(s),
           Len(s) > 0 => (s[Len(s)] = "lead" <=> c = "rest")
    PROVE  Paired(Append(s, c))
<1> DEFINE r == Append(s, c)
<1>1. /\ Len(r) = Len(s) + 1 /\ Len(s) \in Nat /\ r[Len(s) + 1] = c
      /\ \A n \in 1 .. Len(s) : r[n] = s[n]
  BY ByteLast
<1> HIDE DEF r
<1>2. ASSUME NEW n \in 1 .. Len(r) - 1 PROVE r[n] = "lead" <=> r[n + 1] = "rest"
  <2>1. CASE n = Len(s)
    BY <1>1, <2>1
  <2>2. CASE n # Len(s)
    <3>1. n \in 1 .. Len(s) - 1 /\ n \in 1 .. Len(s) /\ n + 1 \in 1 .. Len(s)
      BY <1>1, <2>2
    <3> QED
      BY <1>1, <3>1 DEF Paired
  <2> QED
    BY <2>1, <2>2
<1>3. Paired(r)
  BY <1>2 DEF Paired
<1> QED
  BY <1>3 DEF r

\* The line that was made of the first n bytes, and the rune it is in.
PairedUpTo(line, msg, n) ==
    /\ Paired(line)
    /\ Len(line) > 0 => n > 0 /\ line[1] # "rest"
    /\ n > 0 => (Len(line) > 0 /\ line[Len(line)] = "lead" <=> msg[n] = "lead")

LEMMA PairedAdd ==
    ASSUME NEW line \in Seq(Byte), NEW msg \in Seq(Byte), NEW n \in 0 .. Len(msg) - 1,
           Paired(msg), Ends(msg), PairedUpTo(line, msg, n)
    PROVE  PairedUpTo(AddByte(line, msg[n + 1]), msg, n + 1)
<1> DEFINE b == msg[n + 1]
           new == AddByte(line, b)
<1>1. /\ n \in Nat /\ n + 1 \in Nat /\ n + 1 > 0 /\ Len(msg) \in Nat /\ Len(msg) > 0
      /\ Len(line) \in Nat /\ b \in Byte /\ n + 1 <= Len(msg)
  OBVIOUS
<1>2. /\ n > 0 => (msg[n] = "lead" <=> b = "rest")
      /\ n = 0 => b # "rest"
  <2>1. n > 0 => n \in 1 .. Len(msg) - 1
    BY <1>1
  <2> QED
    BY <1>1, <2>1 DEF Paired, Ends
<1>3. Len(line) > 0 => (line[Len(line)] = "lead" <=> b = "rest")
  BY <1>2 DEF PairedUpTo
<1>4. Len(line) = 0 => b # "rest"
  BY <1>1, <1>2 DEF PairedUpTo
<1>5. ASSUME NEW c \in Byte, c = b \/ (c = Space /\ b \in Blanks)
      PROVE  PairedUpTo(Append(line, c), msg, n + 1)
  <2> DEFINE r == Append(line, c)
  <2>1. (c = "rest" <=> b = "rest") /\ (c = "lead" <=> b = "lead")
    BY <1>5, Alphabet
  <2>2. Paired(r)
    <3>1. Len(line) > 0 => (line[Len(line)] = "lead" <=> c = "rest")
      BY <1>3, <2>1
    <3> QED
      BY <3>1, PairedAppend DEF PairedUpTo
  <2>3. /\ Len(r) = Len(line) + 1 /\ r[Len(line) + 1] = c
        /\ \A m \in 1 .. Len(line) : r[m] = line[m]
    BY ByteLast
  <2> HIDE DEF r
  <2>4. r[1] # "rest"
    <3>1. CASE Len(line) = 0
      BY <1>4, <2>1, <2>3, <3>1
    <3>2. CASE Len(line) > 0
      <4>1. 1 \in 1 .. Len(line)
        BY <1>1, <3>2
      <4> QED
        BY <2>3, <3>2, <4>1 DEF PairedUpTo
    <3> QED
      BY <1>1, <3>1, <3>2
  <2>5. Len(r) > 0 /\ r[Len(r)] = c
    BY <1>1, <2>3
  <2>6. PairedUpTo(r, msg, n + 1)
    BY <1>1, <2>1, <2>2, <2>4, <2>5 DEF PairedUpTo
  <2> QED
    BY <2>6 DEF r
<1>6. ASSUME b \in Blanks, new = line PROVE PairedUpTo(line, msg, n + 1)
  <2>1. b # "rest" /\ b # "lead"
    BY <1>6, Alphabet
  <2> QED
    BY <1>1, <1>3, <2>1 DEF PairedUpTo
<1>7. \/ b \notin Blanks /\ new = Append(line, b)
      \/ b \in Blanks /\ new = Append(line, Space)
      \/ b \in Blanks /\ new = line
  BY <1>1, AddByteCases
<1>8. Space \in Byte
  BY Alphabet
<1> HIDE DEF b, new
<1>9. PairedUpTo(new, msg, n + 1)
  BY <1>1, <1>5, <1>6, <1>7, <1>8
<1> QED
  BY <1>9 DEF new, b

\* A message that is one line already is left as it is.
Copied(line, msg, n) ==
    Len(line) = n /\ \A m \in 1 .. n : line[m] = msg[m]

LEMMA CopiedAdd ==
    ASSUME NEW line \in Seq(Byte), NEW msg \in Seq(Byte), NEW n \in 0 .. Len(msg) - 1,
           Neat(msg), Copied(line, msg, n)
    PROVE  Copied(AddByte(line, msg[n + 1]), msg, n + 1)
<1> DEFINE b == msg[n + 1]
           new == AddByte(line, b)
<1>1. /\ n \in Nat /\ Len(msg) \in Nat /\ b \in Byte /\ n + 1 \in 1 .. Len(msg)
      /\ Len(line) = n
  BY DEF Copied
<1>2. b # Newline /\ (n = 0 => b # Space)
  BY <1>1 DEF Neat, Tight
<1>3. n > 0 /\ b = Space => line[n] # Space
  <2>1. ASSUME n > 0, b = Space PROVE line[n] # Space
    <3>1. n \in 1 .. Len(msg) - 1 /\ n \in 1 .. n
      BY <1>1, <2>1
    <3>2. msg[n] # Space
      BY <2>1, <3>1 DEF Neat, Tight
    <3> QED
      BY <3>1, <3>2 DEF Copied
  <2> QED
    BY <2>1
<1>4. new = Append(line, b)
  <2>1. b \in Blanks <=> b = Space
    BY <1>2, Alphabet
  <2>2. \/ b \notin Blanks /\ new = Append(line, b)
        \/ /\ b \in Blanks /\ Len(line) > 0 /\ line[Len(line)] # Space
           /\ new = Append(line, Space)
        \/ /\ b \in Blanks /\ (Len(line) > 0 => line[Len(line)] = Space)
           /\ new = line
    BY <1>1, AddByteCases
  <2> HIDE DEF b, new
  <2>3. b = Space => n > 0 /\ line[n] # Space
    BY <1>1, <1>2, <1>3
  <2> QED
    BY <1>1, <2>1, <2>2, <2>3
<1> DEFINE r == Append(line, b)
<1>5. /\ Len(r) = Len(line) + 1 /\ r[Len(line) + 1] = b
      /\ \A m \in 1 .. Len(line) : r[m] = line[m]
  BY <1>1, ByteLast
<1>6. new = r
  BY <1>4
<1> HIDE DEF r, new
<1>7. ASSUME NEW m \in 1 .. n + 1 PROVE r[m] = msg[m]
  <2>1. m = n + 1 \/ m \in 1 .. n
    BY <1>1
  <2> QED
    BY <1>1, <1>5, <2>1 DEF Copied
<1>8. Copied(new, msg, n + 1)
  BY <1>1, <1>5, <1>6, <1>7 DEF Copied
<1> QED
  BY <1>8 DEF new

LEMMA Lined ==
    ASSUME NEW msg \in Seq(Byte), NEW line, line = FoldLeft(AddByte, <<>>, msg)
    PROVE  /\ line \in Seq(Byte) /\ Tight(line) /\ Traced(line, msg, Len(msg))
           /\ Paired(msg) /\ Ends(msg) => Paired(line) /\ Ends(line)
           /\ Neat(msg) => line = msg
<1> DEFINE k == Len(msg)
<1>1. k \in Nat /\ \A i \in 1 .. k : msg[i] \in Byte
  OBVIOUS
<1>2. PICK walk : IsLining(walk, msg) /\ line = walk[k]
  BY LineWalk
<1>3. /\ walk[0] = <<>>
      /\ \A n \in 0 .. k : walk[n] \in Seq(Byte)
      /\ \A n \in 0 .. k - 1 : walk[n + 1] = AddByte(walk[n], msg[n + 1])
  BY <1>2 DEF IsLining
<1> DEFINE Good(n) == /\ Tight(walk[n]) /\ Traced(walk[n], msg, n)
                      /\ Paired(msg) /\ Ends(msg) => PairedUpTo(walk[n], msg, n)
                      /\ Neat(msg) => Copied(walk[n], msg, n)
           Q == {n \in 0 .. k : Good(n)}
<1>4. 0 \in Q
  <2>1. Len(<<>>) = 0
    OBVIOUS
  <2>2. Tight(<<>>)
    BY <2>1 DEF Tight
  <2>3. Traced(<<>>, msg, 0)
    <3>1. \A t \in Words : \A p \in Nat \ {0} : ~ Has(<<>>, t, p)
      BY <2>1, WordType DEF Has
    <3> QED
      BY <3>1 DEF Traced
  <2>4. PairedUpTo(<<>>, msg, 0) /\ Copied(<<>>, msg, 0)
    BY <2>1 DEF PairedUpTo, Copied, Paired
  <2>5. 0 \in 0 .. k
    BY <1>1
  <2> QED
    BY <1>3, <2>2, <2>3, <2>4, <2>5
<1>5. ASSUME NEW n \in 0 .. k - 1, n \in Q PROVE n + 1 \in Q
  <2> DEFINE old == walk[n]
             new == walk[n + 1]
             b == msg[n + 1]
  <2>1. n \in 0 .. k /\ n + 1 \in 0 .. k /\ b \in Byte /\ n \in Nat
    BY <1>1
  <2>2. old \in Seq(Byte) /\ new = AddByte(old, b)
    BY <1>3, <2>1
  <2>3. /\ Tight(old) /\ Traced(old, msg, n)
        /\ Paired(msg) /\ Ends(msg) => PairedUpTo(old, msg, n)
        /\ Neat(msg) => Copied(old, msg, n)
    BY <1>5
  <2>4. \/ b \notin Blanks /\ new = Append(old, b)
        \/ b \in Blanks /\ Len(old) > 0 /\ old[Len(old)] # Space /\ new = Append(old, Space)
        \/ b \in Blanks /\ (Len(old) > 0 => old[Len(old)] = Space) /\ new = old
    <3> HIDE DEF old, new, b
    <3> QED
      BY <2>1, <2>2, AddByteCases
  <2>5. Tight(new)
    <3> HIDE DEF old, new, b
    <3> QED
      BY <2>1, <2>2, <2>3, <2>4, TightAppend, Alphabet
  <2>6. Traced(new, msg, n + 1)
    <3>1. CASE new = Append(old, b)
      <4> HIDE DEF old, new
      <4> QED
        BY <2>1, <2>2, <2>3, <3>1, TracedAppend
    <3>2. CASE new = Append(old, Space)
      <4> HIDE DEF old, new
      <4> QED
        BY <2>1, <2>2, <2>3, <3>2, TracedAppend, Alphabet
    <3>3. CASE (Len(old) > 0 => old[Len(old)] = Space) /\ new = old
      <4> HIDE DEF old, new
      <4> QED
        BY <2>1, <2>2, <2>3, <3>3, TracedStay, Alphabet
    <3> QED
      BY <2>4, <3>1, <3>2, <3>3
  <2>7. Paired(msg) /\ Ends(msg) => PairedUpTo(new, msg, n + 1)
    <3> HIDE DEF old, new
    <3> QED
      BY <2>1, <2>2, <2>3, PairedAdd
  <2>8. Neat(msg) => Copied(new, msg, n + 1)
    <3> HIDE DEF old, new
    <3> QED
      BY <2>1, <2>2, <2>3, CopiedAdd
  <2>9. Good(n + 1)
    BY <2>5, <2>6, <2>7, <2>8
  <2> QED
    BY <2>1, <2>9
<1>6. \A n \in 0 .. k : n \in Q
  <2> HIDE DEF Q
  <2> QED
    BY <1>1, <1>4, <1>5, CountingInduction
<1>7. k \in 0 .. k /\ Good(k)
  BY <1>1, <1>6
<1>8. line \in Seq(Byte) /\ Len(line) \in Nat
  BY <1>2, <1>3, <1>7
<1>9. ASSUME Paired(msg), Ends(msg) PROVE Paired(line) /\ Ends(line)
  <2>1. PairedUpTo(line, msg, k)
    BY <1>2, <1>7, <1>9
  <2> QED
    BY <1>1, <1>9, <2>1 DEF PairedUpTo, Ends
<1>10. ASSUME Neat(msg) PROVE line = msg
  <2>1. Copied(line, msg, k)
    BY <1>2, <1>7, <1>10
  <2> QED
    BY <1>8, <2>1 DEF Copied
<1> QED
  BY <1>2, <1>7, <1>8, <1>9, <1>10

\* What the first n bytes of a text keep of it.
LEMMA FirstBytes ==
    ASSUME NEW s \in Seq(Byte), NEW n \in 0 .. Len(s), NEW r, r = SubSeq(s, 1, n)
    PROVE  /\ r \in Seq(Byte) /\ Len(r) = n
           /\ \A m \in 1 .. n : r[m] = s[m]
           /\ Tight(s) => Tight(r)
           /\ Paired(s) => Paired(r)
           /\ \A t \in Words : \A p \in Nat \ {0} : Has(r, t, p) => Has(s, t, p)
<1>1. /\ r \in Seq(Byte) /\ Len(r) = n /\ Len(s) \in Nat /\ n \in Nat /\ n <= Len(s)
      /\ \A m \in 1 .. n : r[m] = s[m]
  OBVIOUS
<1>2. \A m \in 1 .. n - 1 : m \in 1 .. n /\ m + 1 \in 1 .. n /\ m \in 1 .. Len(s) - 1
  BY <1>1
<1>3. \A m \in 1 .. n : m \in 1 .. Len(s)
  BY <1>1
<1>4. ASSUME Tight(s) PROVE Tight(r)
  <2>1. \A m \in 1 .. n : r[m] # Newline
    BY <1>1, <1>3, <1>4 DEF Tight
  <2>2. n > 0 => r[1] # Space
    BY <1>1, <1>4 DEF Tight
  <2>3. \A m \in 1 .. n - 1 : r[m] = Space => r[m + 1] # Space
    BY <1>1, <1>2, <1>4 DEF Tight
  <2> QED
    BY <1>1, <2>1, <2>2, <2>3 DEF Tight
<1>5. ASSUME Paired(s) PROVE Paired(r)
  <2>1. \A m \in 1 .. n - 1 : r[m] = "lead" <=> r[m + 1] = "rest"
    BY <1>1, <1>2, <1>5 DEF Paired
  <2> QED
    BY <1>1, <2>1 DEF Paired
<1>6. ASSUME NEW t \in Words, NEW p \in Nat \ {0}, Has(r, t, p) PROVE Has(s, t, p)
  <2>1. Len(t) \in Nat
    BY WordType
  <2>2. p + Len(t) - 1 <= n /\ \A j \in 1 .. Len(t) : r[p + j - 1] = t[j]
    BY <1>1, <1>6 DEF Has
  <2>3. \A j \in 1 .. Len(t) : p + j - 1 \in 1 .. n
    BY <1>1, <2>1, <2>2
  <2>4. p + Len(t) - 1 <= Len(s) /\ \A j \in 1 .. Len(t) : s[p + j - 1] = t[j]
    BY <1>1, <2>1, <2>2, <2>3
  <2> QED
    BY <2>4 DEF Has
<1> QED
  BY <1>1, <1>4, <1>5, <1>6

\* The message as one line.
LEMMA OneLined ==
    ASSUME NEW msg \in Seq(Byte), NEW r, r = OneLine(msg)
    PROVE  /\ r \in Seq(Byte) /\ Neat(r)
           /\ \A t \in Words : Mentions(r, t) => Mentions(msg, t)
           /\ ValidUTF8(msg) => ValidUTF8(r)
           /\ Neat(msg) => r = msg
<1> DEFINE line == FoldLeft(AddByte, <<>>, msg)
<1>1. r = IF line # <<>> /\ line[Len(line)] = Space THEN Front(line) ELSE line
  BY DEF OneLine, Last, Space
<1> HIDE DEF line
<1>2. /\ line \in Seq(Byte) /\ Tight(line) /\ Traced(line, msg, Len(msg))
      /\ Paired(msg) /\ Ends(msg) => Paired(line) /\ Ends(line)
      /\ Neat(msg) => line = msg
  BY Lined DEF line
<1>3. Len(line) \in Nat /\ (line # <<>> <=> Len(line) > 0)
  BY <1>2
<1> DEFINE n == IF Len(line) > 0 /\ line[Len(line)] = Space THEN Len(line) - 1 ELSE Len(line)
<1>4. n \in 0 .. Len(line)
  BY <1>3
<1>5. r = SubSeq(line, 1, n)
  BY <1>1, <1>2, <1>3 DEF Front
<1> HIDE DEF n
<1>6. /\ r \in Seq(Byte) /\ Len(r) = n /\ Tight(r)
      /\ \A m \in 1 .. n : r[m] = line[m]
      /\ Paired(line) => Paired(r)
      /\ \A t \in Words : \A p \in Nat \ {0} : Has(r, t, p) => Has(line, t, p)
  BY <1>2, <1>4, <1>5, FirstBytes
<1>7. Neat(r)
  <2>1. ASSUME Len(r) > 0 PROVE r[Len(r)] # Space
    <3>1. r[n] = line[n] /\ n > 0
      BY <1>4, <1>6, <2>1
    <3>2. CASE Len(line) > 0 /\ line[Len(line)] = Space
      <4>1. n = Len(line) - 1 /\ n \in 1 .. Len(line) - 1 /\ n + 1 = Len(line)
        BY <1>3, <3>1, <3>2 DEF n
      <4> QED
        BY <1>2, <1>6, <3>1, <3>2, <4>1 DEF Tight
    <3>3. CASE ~ (Len(line) > 0 /\ line[Len(line)] = Space)
      <4>1. n = Len(line)
        BY <3>3 DEF n
      <4> QED
        BY <1>3, <1>6, <3>1, <3>3, <4>1
    <3> QED
      BY <3>2, <3>3
  <2> QED
    BY <1>6, <2>1 DEF Neat
<1>8. ASSUME NEW t \in Words, Mentions(r, t) PROVE Mentions(msg, t)
  <2>1. t \in Seq(Byte) /\ Len(t) \in Nat \ {0}
    BY WordType
  <2>2. PICK p \in 1 .. Len(r) : Has(r, t, p)
    BY <1>6, <1>8, <2>1, MentionsIsHas
  <2>3. p \in Nat \ {0}
    OBVIOUS
  <2>4. Has(line, t, p)
    BY <1>6, <2>2, <2>3
  <2>5. PICK q \in Nat \ {0} : Has(msg, t, q)
    BY <1>2, <2>3, <2>4 DEF Traced
  <2>6. q \in 1 .. Len(msg)
    BY <2>1, <2>5 DEF Has
  <2> QED
    BY <2>1, <2>5, <2>6, MentionsIsHas
<1>9. ASSUME ValidUTF8(msg) PROVE ValidUTF8(r)
  <2>1. Paired(line) /\ Ends(line)
    BY <1>2, <1>9, ValidIsPaired
  <2>2. ASSUME Len(r) > 0 PROVE r[1] # "rest" /\ r[Len(r)] # "lead"
    <3>1. n > 0 /\ r[1] = line[1] /\ r[n] = line[n] /\ Len(line) > 0
      BY <1>4, <1>6, <2>2
    <3>2. CASE Len(line) > 0 /\ line[Len(line)] = Space
      <4>1. n \in 1 .. Len(line) - 1 /\ n + 1 = Len(line)
        BY <1>3, <3>1, <3>2 DEF n
      <4>2. line[n + 1] # "rest"
        BY <3>2, <4>1, Alphabet
      <4>3. line[n] # "lead"
        BY <2>1, <4>1, <4>2 DEF Paired
      <4> QED
        BY <1>6, <2>1, <3>1, <4>3 DEF Ends
    <3>3. CASE ~ (Len(line) > 0 /\ line[Len(line)] = Space)
      <4>1. n = Len(line)
        BY <3>3 DEF n
      <4> QED
        BY <1>6, <2>1, <3>1, <4>1 DEF Ends
    <3> QED
      BY <3>2, <3>3
  <2>3. Ends(r)
    BY <2>2 DEF Ends
  <2> QED
    BY <1>6, <2>1, <2>3, ValidIsPaired
<1>10. ASSUME Neat(msg) PROVE r = msg
  <2>1. line = msg
    BY <1>2, <1>10
  <2>2. ~ (Len(line) > 0 /\ line[Len(line)] = Space)
    BY <1>10, <2>1 DEF Neat
  <2>3. r = line
    BY <1>1, <1>3, <2>2, Zenon
  <2> QED
    BY <2>1, <2>3
<1> QED
  BY <1>6, <1>7, <1>8, <1>9, <1>10

----------------------------------------------------------------------------
(* Truncate.                                                               *)

\* Where the cut falls: inside the text, and not inside a rune.
LEMMA Cut ==
    ASSUME NEW msg \in Seq(Byte), NEW limit \in Nat, limit >= 3, Len(msg) > limit
    PROVE  \E n \in 0 .. limit - 3 :
              /\ n = 0 \/ msg[n + 1] # "rest"
              /\ Truncate(msg, limit) = SubSeq(msg, 1, n) \o Ellipsis
<1> DEFINE end == limit - Len(Ellipsis)
           places == {n \in 0 .. end : n = 0 \/ RuneStart(msg[n + 1])}
           last == CHOOSE n \in places : \A k \in places : k <= n
<1>1. Len(Ellipsis) = 3
  BY DEF Ellipsis
<1>2. end = limit - 3 /\ end \in Nat
  BY <1>1
<1>3. ~ (Len(msg) <= limit)
  OBVIOUS
<1>4. Truncate(msg, limit) = SubSeq(msg, 1, last) \o Ellipsis
  BY <1>3, Zenon DEF Truncate
<1>5. \E n \in places : \A k \in places : k <= n
  <2>1. IsFiniteSet(0 .. end)
    BY <1>2, FS_Interval
  <2>2. 0 \in places
    BY <1>2
  <2>3. places \subseteq 0 .. end /\ 0 .. end \subseteq Int
    BY <1>2
  <2> HIDE DEF places
  <2>4. IsFiniteSet(places) /\ places \in SUBSET Int /\ places # {}
    BY <2>1, <2>2, <2>3, FS_Subset
  <2> QED
    BY <2>4, FiniteHasLast
<1>6. last \in places
  BY <1>5
<1> HIDE DEF last, end
<1>7. last \in 0 .. limit - 3 /\ (last = 0 \/ msg[last + 1] # "rest")
  BY <1>2, <1>6 DEF RuneStart
<1> QED
  BY <1>4, <1>7

\* Words that cannot end in an ellipsis.
SecretWords == {t \in Words : t[Len(t)] # "."}

LEMMA TwoTexts ==
    ASSUME NEW s \in Seq(Byte), NEW u \in Seq(Byte)
    PROVE  /\ s \o u \in Seq(Byte)
           /\ Len(s \o u) = Len(s) + Len(u)
           /\ \A m \in 1 .. Len(s) : (s \o u)[m] = s[m]
           /\ \A m \in 1 .. Len(u) : (s \o u)[Len(s) + m] = u[m]
  OBVIOUS

\* The message, shortened.
LEMMA Truncated ==
    ASSUME NEW msg \in Seq(Byte), NEW limit \in Nat, limit >= 3,
           NEW r, r = Truncate(msg, limit)
    PROVE  /\ r \in Seq(Byte) /\ Len(r) <= limit
           /\ Neat(msg) => Neat(r)
           /\ \A t \in SecretWords : Mentions(r, t) => Mentions(msg, t)
           /\ ValidUTF8(msg) => ValidUTF8(r)
           /\ Len(msg) <= limit => r = msg
<1>1. CASE Len(msg) <= limit
  <2>1. r = msg
    BY <1>1, Zenon DEF Truncate
  <2> QED
    BY <1>1, <2>1
<1>2. CASE Len(msg) > limit
  <2>1. PICK n \in 0 .. limit - 3 :
          /\ n = 0 \/ msg[n + 1] # "rest"
          /\ r = SubSeq(msg, 1, n) \o Ellipsis
    BY <1>2, Cut
  <2> DEFINE head == SubSeq(msg, 1, n)
  <2>2. n \in Nat /\ n \in 0 .. Len(msg) /\ n + 3 <= limit /\ Len(msg) \in Nat /\ n < Len(msg)
    BY <1>2
  <2>3. /\ head \in Seq(Byte) /\ Len(head) = n
        /\ \A m \in 1 .. n : head[m] = msg[m]
        /\ Tight(msg) => Tight(head)
        /\ Paired(msg) => Paired(head)
        /\ \A t \in Words : \A p \in Nat \ {0} : Has(head, t, p) => Has(msg, t, p)
    BY <2>2, FirstBytes
  <2> HIDE DEF head
  <2>4. Ellipsis \in Seq(Byte) /\ Len(Ellipsis) = 3 /\ \A m \in 1 .. 3 : Ellipsis[m] = "."
    <3>1. "." \in Byte
      BY Alphabet
    <3> QED
      BY <3>1 DEF Ellipsis
  <2>5. r = head \o Ellipsis
    BY <2>1 DEF head
  <2>6. /\ r \in Seq(Byte) /\ Len(r) = n + 3
        /\ \A m \in 1 .. n : r[m] = head[m]
        /\ \A m \in n + 1 .. n + 3 : r[m] = "."
    <3>1. /\ r \in Seq(Byte) /\ Len(r) = n + 3
          /\ \A m \in 1 .. n : r[m] = head[m]
          /\ \A m \in 1 .. 3 : r[n + m] = Ellipsis[m]
      <4>1. head \in Seq(Byte) /\ Ellipsis \in Seq(Byte)
        BY <2>3, <2>4
      <4>2. /\ r \in Seq(Byte) /\ Len(r) = Len(head) + Len(Ellipsis)
            /\ \A m \in 1 .. Len(head) : r[m] = head[m]
            /\ \A m \in 1 .. Len(Ellipsis) : r[Len(head) + m] = Ellipsis[m]
        BY <2>5, <4>1, TwoTexts
      <4> QED
        BY <2>3, <2>4, <4>2
    <3>2. ASSUME NEW m \in n + 1 .. n + 3 PROVE r[m] = "."
      <4>1. m - n \in 1 .. 3 /\ n + (m - n) = m
        BY <2>2
      <4>2. r[n + (m - n)] = Ellipsis[m - n]
        BY <3>1, <4>1
      <4> QED
        BY <2>4, <4>1, <4>2
    <3> QED
      BY <3>1, <3>2
  <2>7. "." # Space /\ "." # Newline /\ "." # "lead" /\ "." # "rest"
    BY Alphabet
  <2>8. ASSUME NEW m \in 1 .. Len(r) PROVE (m \in 1 .. n /\ r[m] = msg[m]) \/ (m \in n + 1 .. n + 3 /\ r[m] = ".")
    <3>1. m \in 1 .. n \/ m \in n + 1 .. n + 3
      BY <2>2, <2>6
    <3> QED
      BY <2>3, <2>6, <3>1
  <2>9. ASSUME Neat(msg) PROVE Neat(r)
    <3>1. Tight(msg)
      BY <2>9 DEF Neat
    <3>2. \A m \in 1 .. Len(r) : r[m] # Newline
      <4>1. \A m \in 1 .. n : m \in 1 .. Len(msg)
        BY <2>2
      <4> QED
        BY <2>7, <2>8, <3>1, <4>1 DEF Tight
    <3>3. r[1] # Space
      <4>1. 1 \in 1 .. Len(r) /\ (1 \in 1 .. n => Len(msg) > 0)
        BY <2>2, <2>6
      <4> QED
        BY <2>7, <2>8, <3>1, <4>1 DEF Tight
    <3>4. ASSUME NEW m \in 1 .. Len(r) - 1, r[m] = Space PROVE r[m + 1] # Space
      <4>1. m \in 1 .. Len(r) /\ m + 1 \in 1 .. Len(r) /\ m \in Nat
        BY <2>2, <2>6
      <4>2. m \in 1 .. n /\ r[m] = msg[m] /\ m \in 1 .. Len(msg) - 1
        BY <2>2, <2>7, <2>8, <3>4, <4>1
      <4>3. msg[m + 1] # Space
        BY <3>1, <3>4, <4>2 DEF Tight
      <4> QED
        BY <2>7, <2>8, <4>1, <4>3
    <3>5. r[Len(r)] # Space
      <4>1. Len(r) \in n + 1 .. n + 3
        BY <2>2, <2>6
      <4> QED
        BY <2>6, <2>7, <4>1
    <3> QED
      BY <3>2, <3>3, <3>4, <3>5 DEF Neat, Tight
  <2>10. ASSUME NEW t \in SecretWords, Mentions(r, t) PROVE Mentions(msg, t)
    <3>0. t \in Words /\ t[Len(t)] # "."
      BY DEF SecretWords
    <3>1. t \in Seq(Byte) /\ Len(t) \in Nat \ {0}
      BY <3>0, WordType
    <3>2. PICK p \in 1 .. Len(r) : Has(r, t, p)
      BY <2>6, <2>10, <3>1, MentionsIsHas
    <3>3. p \in Nat \ {0} /\ p + Len(t) - 1 <= n + 3 /\ \A j \in 1 .. Len(t) : r[p + j - 1] = t[j]
      BY <2>6, <3>2 DEF Has
    <3>4. p + Len(t) - 1 <= n
      <4>1. SUFFICES ASSUME p + Len(t) - 1 > n PROVE FALSE
        BY <2>2, <3>1, <3>3
      <4>2. p + Len(t) - 1 \in n + 1 .. n + 3 /\ Len(t) \in 1 .. Len(t)
        BY <2>2, <3>1, <3>3, <4>1
      <4>3. r[p + Len(t) - 1] = "." /\ r[p + Len(t) - 1] = t[Len(t)]
        BY <2>6, <3>3, <4>2
      <4> QED
        BY <3>0, <4>3
    <3>5. Has(head, t, p)
      <4>1. \A j \in 1 .. Len(t) : p + j - 1 \in 1 .. n
        BY <2>2, <3>1, <3>3, <3>4
      <4>2. \A j \in 1 .. Len(t) : head[p + j - 1] = t[j]
        BY <2>6, <3>3, <4>1
      <4> QED
        BY <2>3, <3>4, <4>2 DEF Has
    <3>6. Has(msg, t, p) /\ p \in 1 .. Len(msg)
      BY <2>2, <2>3, <3>0, <3>1, <3>3, <3>4, <3>5
    <3> QED
      BY <3>1, <3>6, MentionsIsHas
  <2>11. ASSUME ValidUTF8(msg) PROVE ValidUTF8(r)
    <3>1. Paired(msg) /\ Ends(msg)
      BY <2>11, ValidIsPaired
    <3>2. \A m \in 1 .. Len(r) - 1 : r[m] = "lead" <=> r[m + 1] = "rest"
      <4> TAKE m \in 1 .. Len(r) - 1
      <4>1. m \in 1 .. Len(r) /\ m + 1 \in 1 .. Len(r) /\ m \in Nat
        BY <2>2, <2>6
      <4>2. CASE m < n
        <5>1. m \in 1 .. Len(msg) - 1 /\ m \in 1 .. n /\ m + 1 \in 1 .. n
          BY <2>2, <4>1, <4>2
        <5> QED
          BY <2>3, <2>6, <3>1, <5>1 DEF Paired
      <4>3. CASE m = n
        <5>1. n \in 1 .. Len(msg) - 1 /\ n # 0 /\ m + 1 \in n + 1 .. n + 3 /\ m \in 1 .. n
          BY <2>2, <4>1, <4>3
        <5>2. msg[n] # "lead"
          BY <2>1, <3>1, <5>1 DEF Paired
        <5> QED
          BY <2>3, <2>6, <2>7, <4>3, <5>1, <5>2
      <4>4. CASE m > n
        <5>1. m \in n + 1 .. n + 3 /\ m + 1 \in n + 1 .. n + 3
          BY <2>2, <2>6, <4>1, <4>4
        <5> QED
          BY <2>6, <2>7, <5>1
      <4> QED
        BY <2>2, <4>1, <4>2, <4>3, <4>4
    <3>3. r[1] # "rest"
      <4>1. 1 \in 1 .. Len(r) /\ (1 \in 1 .. n => Len(msg) > 0)
        BY <2>2, <2>6
      <4> QED
        BY <2>7, <2>8, <3>1, <4>1 DEF Ends
    <3>4. r[Len(r)] # "lead"
      <4>1. Len(r) \in n + 1 .. n + 3
        BY <2>2, <2>6
      <4> QED
        BY <2>6, <2>7, <4>1
    <3>5. Paired(r) /\ Ends(r)
      BY <3>2, <3>3, <3>4 DEF Paired, Ends
    <3> QED
      BY <2>6, <3>5, ValidIsPaired
  <2>12. Len(r) <= limit /\ ~ (Len(msg) <= limit)
    BY <1>2, <2>2, <2>6
  <2> QED
    BY <2>6, <2>9, <2>10, <2>11, <2>12
<1> QED
  BY <1>1, <1>2

----------------------------------------------------------------------------
(* CleanMessage.                                                           *)

LEMMA Limit == MaxErrorMessageBytes \in Nat /\ MaxErrorMessageBytes >= 3
<1>1. Len(Ellipsis) = 3
  BY DEF Ellipsis
<1> QED
  BY <1>1, ScrubAssumption DEF ScrubAssumption

\* Whatever text clean is given, and secrets of whatever lengths, in whatever
\* order: what comes out names none of them, is one bounded line, and is text if
\* the message was; and a message that is all this already comes out as it is.
THEOREM Cleaned ==
    ASSUME NEW msg \in Seq(Byte), NEW scrubber \in Seq(SecretWords),
           NEW clean, clean = CleanMessage(scrubber, msg)
    PROVE  /\ clean \in Seq(Byte) /\ Neat(clean) /\ Len(clean) <= MaxErrorMessageBytes
           /\ \A i \in 1 .. Len(scrubber) : ~ Mentions(clean, scrubber[i])
           /\ ValidUTF8(msg) => ValidUTF8(clean)
           /\ Neat(msg) /\ Len(msg) <= MaxErrorMessageBytes
                 /\ (\A i \in 1 .. Len(scrubber) : ~ Mentions(msg, scrubber[i]))
              => clean = msg
<1>0. scrubber \in Seq(Words) /\ \A i \in 1 .. Len(scrubber) : scrubber[i] \in SecretWords
  <2>1. \A i \in 1 .. Len(scrubber) : scrubber[i] \in SecretWords /\ scrubber[i] \in Words
    BY DEF SecretWords
  <2> QED
    BY <2>1
<1> DEFINE one == FoldLeft(ReplaceSecret, msg, scrubber)
           two == OneLine(one)
<1>1. clean = Truncate(two, MaxErrorMessageBytes)
  BY DEF CleanMessage
<1>2. /\ one \in Seq(Byte)
      /\ \A i \in 1 .. Len(scrubber) : ~ Mentions(one, scrubber[i])
      /\ ValidUTF8(msg) => ValidUTF8(one)
      /\ (\A i \in 1 .. Len(scrubber) : ~ Mentions(msg, scrubber[i])) => one = msg
  <2> HIDE DEF one
  <2> QED
    BY <1>0, AllReplaced DEF one
<1> HIDE DEF one
<1>3. /\ two \in Seq(Byte) /\ Neat(two)
      /\ \A t \in Words : Mentions(two, t) => Mentions(one, t)
      /\ ValidUTF8(one) => ValidUTF8(two)
      /\ Neat(one) => two = one
  <2> HIDE DEF two
  <2> QED
    BY <1>2, OneLined DEF two
<1> HIDE DEF two
<1>4. /\ clean \in Seq(Byte) /\ Len(clean) <= MaxErrorMessageBytes
      /\ Neat(two) => Neat(clean)
      /\ \A t \in SecretWords : Mentions(clean, t) => Mentions(two, t)
      /\ ValidUTF8(two) => ValidUTF8(clean)
      /\ Len(two) <= MaxErrorMessageBytes => clean = two
  BY <1>1, <1>3, Limit, Truncated
<1>5. \A i \in 1 .. Len(scrubber) : scrubber[i] \in Words /\ scrubber[i] \in SecretWords
  BY <1>0 DEF SecretWords
<1>6. \A i \in 1 .. Len(scrubber) : ~ Mentions(clean, scrubber[i])
  BY <1>2, <1>3, <1>4, <1>5
<1>7. ASSUME Neat(msg), Len(msg) <= MaxErrorMessageBytes,
             \A i \in 1 .. Len(scrubber) : ~ Mentions(msg, scrubber[i])
      PROVE  clean = msg
  BY <1>2, <1>3, <1>4, <1>7
<1> QED
  BY <1>2, <1>3, <1>4, <1>6, <1>7

----------------------------------------------------------------------------
(* The messages and the scrubbers of the properties.                       *)

Texts == {s \in Seq(Byte) : ValidUTF8(s)}

LEMMA JoinedText ==
    ASSUME NEW s \in Texts, NEW u \in Texts
    PROVE  s \o u \in Texts
<1> DEFINE r == s \o u
           n == Len(s)
           k == Len(u)
<1>1. /\ s \in Seq(Byte) /\ u \in Seq(Byte) /\ n \in Nat /\ k \in Nat
      /\ Paired(s) /\ Ends(s) /\ Paired(u) /\ Ends(u)
  BY ValidIsPaired DEF Texts
<1>2. /\ r \in Seq(Byte)
      /\ Len(r) = n + k
      /\ \A m \in 1 .. n : r[m] = s[m]
      /\ \A m \in 1 .. k : r[n + m] = u[m]
  BY <1>1, TwoTexts
<1> HIDE DEF r
<1>3. ASSUME NEW m \in n + 1 .. n + k PROVE m - n \in 1 .. k /\ r[m] = u[m - n]
  <2>1. m - n \in 1 .. k /\ n + (m - n) = m
    BY <1>1
  <2> QED
    BY <1>2, <2>1
<1>4. Paired(r)
  <2>1. \A m \in 1 .. Len(r) - 1 : r[m] = "lead" <=> r[m + 1] = "rest"
    <3> TAKE m \in 1 .. Len(r) - 1
    <3>1. CASE m < n
      <4>1. m \in 1 .. n /\ m + 1 \in 1 .. n /\ m \in 1 .. n - 1
        BY <1>1, <1>2, <3>1
      <4> QED
        BY <1>1, <1>2, <4>1 DEF Paired
    <3>2. CASE m = n
      <4>1. m \in 1 .. n /\ m + 1 \in n + 1 .. n + k /\ (m + 1) - n = 1 /\ n > 0 /\ k > 0
        BY <1>1, <1>2, <3>2
      <4>2. r[m] = s[n] /\ r[m + 1] = u[1]
        BY <1>2, <1>3, <3>2, <4>1
      <4> QED
        BY <1>1, <4>1, <4>2 DEF Ends
    <3>3. CASE m > n
      <4>1. /\ m \in n + 1 .. n + k /\ m + 1 \in n + 1 .. n + k
            /\ m - n \in 1 .. k - 1 /\ (m - n) + 1 = (m + 1) - n
        BY <1>1, <1>2, <3>3
      <4>2. r[m] = u[m - n] /\ r[m + 1] = u[(m - n) + 1]
        BY <1>3, <4>1
      <4> QED
        BY <1>1, <4>1, <4>2 DEF Paired
    <3> QED
      BY <1>1, <1>2, <3>1, <3>2, <3>3
  <2> QED
    BY <2>1 DEF Paired
<1>5. ASSUME Len(r) > 0 PROVE r[1] # "rest"
  <2>1. CASE n > 0
    BY <1>1, <1>2, <2>1 DEF Ends
  <2>2. CASE n = 0
    <3>1. 1 \in n + 1 .. n + k /\ 1 - n = 1 /\ k > 0
      BY <1>1, <1>2, <1>5, <2>2
    <3> QED
      BY <1>1, <1>3, <3>1 DEF Ends
  <2> QED
    BY <1>1, <2>1, <2>2
<1>6. ASSUME Len(r) > 0 PROVE r[Len(r)] # "lead"
  <2>1. CASE k > 0
    <3>1. Len(r) \in n + 1 .. n + k /\ Len(r) - n = k
      BY <1>1, <1>2, <2>1
    <3> QED
      BY <1>1, <1>3, <2>1, <3>1 DEF Ends
  <2>2. CASE k = 0
    <3>1. Len(r) = n /\ n \in 1 .. n
      BY <1>1, <1>2, <1>6, <2>2
    <3> QED
      BY <1>1, <1>2, <3>1 DEF Ends
  <2> QED
    BY <1>1, <2>1, <2>2
<1>7. ValidUTF8(r)
  BY <1>2, <1>4, <1>5, <1>6, ValidIsPaired DEF Ends
<1> QED
  BY <1>2, <1>7 DEF Texts, r

LEMMA RunesAreTexts == Runes \subseteq Texts /\ <<>> \in Texts
<1>1. ASSUME NEW b \in Letters \cup Blanks PROVE <<b>> \in Texts
  <2>1. b \in Byte /\ b # "lead" /\ b # "rest"
    BY Alphabet
  <2>2. <<b>> \in Seq(Byte) /\ Len(<<b>>) = 1 /\ <<b>>[1] = b
    BY <2>1
  <2>3. Paired(<<b>>) /\ Ends(<<b>>)
    BY <2>1, <2>2 DEF Paired, Ends
  <2> QED
    BY <2>2, <2>3, ValidIsPaired DEF Texts
<1>2. Rune \in Texts
  <2>1. "lead" \in Byte /\ "rest" \in Byte /\ "lead" # "rest"
    BY Alphabet
  <2>2. Rune \in Seq(Byte) /\ Len(Rune) = 2 /\ Rune[1] = "lead" /\ Rune[2] = "rest"
    BY <2>1 DEF Rune
  <2>3. Paired(Rune) /\ Ends(Rune)
    <3>1. \A n \in 1 .. Len(Rune) - 1 : n = 1 /\ n + 1 = 2
      BY <2>2
    <3> QED
      BY <2>1, <2>2, <3>1 DEF Paired, Ends
  <2> QED
    BY <2>2, <2>3, ValidIsPaired DEF Texts
<1>3. <<>> \in Texts
  <2>1. <<>> \in Seq(Byte) /\ Len(<<>>) = 0
    OBVIOUS
  <2>2. Paired(<<>>) /\ Ends(<<>>)
    BY <2>1 DEF Paired, Ends
  <2> QED
    BY <2>1, <2>2, ValidIsPaired DEF Texts
<1> QED
  BY <1>1, <1>2, <1>3 DEF Runes

IsMessageFold(it, runes) ==
    it = [s \in SUBSET DOMAIN runes |->
            IF s = {} THEN <<>> ELSE AddRune(it[s \ {Max(s)}], runes[Max(s)])]

LEMMA MessageFoldDef ==
    ASSUME NEW runes
    PROVE  FoldLeft(AddRune, <<>>, runes) = (CHOOSE it : IsMessageFold(it, runes))[DOMAIN runes]
  BY DEF FoldLeft, MapThenFoldSet, IsMessageFold

LEMMA MessageIsText ==
    ASSUME NEW k \in Nat, NEW runes \in [1 .. k -> Runes]
    PROVE  FoldLeft(AddRune, <<>>, runes) \in Texts
<1> DEFINE V == Texts
           g == [vi \in V \X (1 .. k) |-> AddRune(vi[1], runes[vi[2]])]
<1>1. DOMAIN runes = 1 .. k /\ \A i \in 1 .. k : runes[i] \in V
  BY RunesAreTexts
<1>2. \A v \in V, i \in 1 .. k :
        g[<<v, i>>] = AddRune(v, runes[i]) /\ g[<<v, i>>] \in V
  BY <1>1, JoinedText DEF AddRune
<1>3. \A s \in SUBSET (1 .. k) : s # {} => Max(s) \in 1 .. k
  BY LastOfSome
<1>4. <<>> \in V
  BY RunesAreTexts
<1> HIDE DEF g, V
<1>5. ClosedOn(g, k, V)
  BY <1>2 DEF ClosedOn
<1>6. PICK jt : IsLeftFold(jt, <<>>, g, k, V)
  BY <1>4, <1>5, FoldLeftExists
<1>7. IsMessageFold(jt, runes)
  <2>1. ASSUME NEW s \in SUBSET (1 .. k)
        PROVE  jt[s] = IF s = {} THEN <<>> ELSE AddRune(jt[s \ {Max(s)}], runes[Max(s)])
    <3>1. CASE s = {}
      BY <1>6, <3>1 DEF IsLeftFold
    <3>2. CASE s # {}
      <4>1. Max(s) \in 1 .. k /\ jt[s \ {Max(s)}] \in V
        BY <1>3, <1>6, <3>2 DEF IsLeftFold
      <4> QED
        BY <1>2, <1>6, <3>2, <4>1 DEF IsLeftFold
    <3> QED
      BY <3>1, <3>2
  <2> QED
    BY <1>1, <1>6, <2>1 DEF IsMessageFold, IsLeftFold
<1>8. PICK it : IsMessageFold(it, runes) /\ FoldLeft(AddRune, <<>>, runes) = it[1 .. k]
  BY <1>1, <1>7, MessageFoldDef
<1>9. \A s \in SUBSET (1 .. k) :
        it[s] = IF s = {} THEN <<>> ELSE AddRune(it[s \ {Max(s)}], runes[Max(s)])
  BY <1>1, <1>8 DEF IsMessageFold
<1>10. PICK walk : GoesAlong(walk, <<>>, g, k, V) /\ walk[k] = it[1 .. k]
  <2>1. it[{}] = <<>>
    BY <1>9, Zenon
  <2>2. ASSUME NEW s \in SUBSET (1 .. k), s # {}, it[s \ {Max(s)}] \in V
        PROVE  it[s] = g[<<it[s \ {Max(s)}], Max(s)>>]
    BY <1>2, <1>3, <1>9, <2>2
  <2>3. FoldsWith(it, <<>>, g, k, V)
    BY <2>1, <2>2 DEF FoldsWith
  <2> QED
    BY <1>4, <1>5, <2>3, FoldLeftWalk
<1>11. walk[k] \in V
  <2>1. k \in 0 .. k
    OBVIOUS
  <2> QED
    BY <1>10, <2>1 DEF GoesAlong
<1> QED
  BY <1>8, <1>10, <1>11 DEF V

\* Every message of the properties is a text.
LEMMA MessagesAreTexts == \A msg \in Messages : msg \in Seq(Byte) /\ ValidUTF8(msg)
<1>1. ASSUME NEW msg \in Messages PROVE msg \in Texts
  <2>1. PICK n \in 0 .. MaxItems :
          \E m \in [1 .. n -> Runes] : msg = FoldLeft(AddRune, <<>>, m)
    BY DEF Messages
  <2>2. n \in Nat
    BY ScrubAssumption DEF ScrubAssumption
  <2> QED
    BY <2>1, <2>2, MessageIsText
<1> QED
  BY <1>1 DEF Texts

\* Every scrubber of the properties is a sequence of words, longest first.
LEMMA ScrubbersAreWords ==
    ASSUME NEW secrets \in Configured, NEW scrubber \in NewScrubber(secrets)
    PROVE  scrubber \in Seq(SecretWords) /\ scrubber \in Seq(Words) /\ LongestFirst(scrubber)
<1>1. MinSecret \in Nat \ {0}
  BY ScrubAssumption DEF ScrubAssumption
<1>2. PICK n \in Nat : secrets \in [1 .. n -> Secrets]
  BY ScrubAssumption DEF ScrubAssumption, Configured
<1>3. PICK order \in Orders(secrets) : scrubber = Arrange(secrets, order)
  BY DEF NewScrubber
<1> DEFINE c == Cardinality(Long(secrets))
<1>4. c \in Nat
  <2>1. Long(secrets) \subseteq 1 .. n
    BY <1>2 DEF Long
  <2>2. IsFiniteSet(1 .. n)
    BY <1>2, FS_Interval
  <2>3. IsFiniteSet(Long(secrets))
    BY <2>1, <2>2, FS_Subset
  <2> QED
    BY <2>3, FS_CardinalityType
<1>5. order \in [1 .. c -> Long(secrets)]
  BY <1>3 DEF Orders, Bijection, Injection
<1>6. ASSUME NEW i \in Long(secrets) PROVE secrets[i] \in SecretWords
  <2>1. i \in 1 .. n /\ Len(secrets[i]) >= MinSecret
    BY <1>2 DEF Long
  <2>2. secrets[i] \in Secrets
    BY <1>2, <2>1
  <2>3. PICK k \in MinSecret - 1 .. MinSecret + 1 : secrets[i] \in [1 .. k -> Letters]
    BY <2>2 DEF Secrets
  <2>4. k \in Nat
    BY <1>1
  <2>5. secrets[i] \in Seq(Letters)
    BY <2>3, <2>4
  <2>6. Len(secrets[i]) # Len(<<>>)
    BY <1>1, <2>1
  <2>7. secrets[i] # <<>>
    BY <2>6
  <2>8. secrets[i][Len(secrets[i])] # "."
    BY <2>2, <2>7 DEF Secrets, Last
  <2> QED
    BY <2>5, <2>7, <2>8 DEF Words, SecretWords
<1>7. scrubber = [m \in 1 .. c |-> secrets[order[m]]]
  BY <1>3, <1>5 DEF Arrange
<1>8. \A m \in 1 .. c : secrets[order[m]] \in SecretWords /\ secrets[order[m]] \in Words
  BY <1>5, <1>6 DEF SecretWords
<1> HIDE DEF c
<1>9. scrubber \in Seq(SecretWords) /\ scrubber \in Seq(Words)
  BY <1>4, <1>7, <1>8
<1>10. LongestFirst(scrubber)
  BY DEF NewScrubber
<1> QED
  BY <1>9, <1>10

----------------------------------------------------------------------------
(* The properties.                                                         *)

\* newScrubber and clean together: the message of a failure is safe to log, to
\* queue and to serve, and cleaning it once more changes nothing.
THEOREM CleanIsSafe == ScrubbedIsSafe
<1>1. SUFFICES ASSUME NEW secrets \in Configured, NEW scrubber \in NewScrubber(secrets),
                      NEW msg \in Messages, NEW clean, clean = CleanMessage(scrubber, msg)
               PROVE  /\ \A i \in DOMAIN scrubber : ~ Mentions(clean, scrubber[i])
                      /\ \A i \in DOMAIN clean : clean[i] # "\n"
                      /\ Len(clean) <= MaxErrorMessageBytes
                      /\ ValidUTF8(clean)
                      /\ CleanMessage(scrubber, clean) = clean
  BY Zenon DEF ScrubbedIsSafe
<1>2. scrubber \in Seq(SecretWords) /\ msg \in Seq(Byte) /\ ValidUTF8(msg)
  BY ScrubbersAreWords, MessagesAreTexts
<1>3. DOMAIN scrubber = 1 .. Len(scrubber)
  BY <1>2
<1>4. /\ clean \in Seq(Byte) /\ Neat(clean) /\ Len(clean) <= MaxErrorMessageBytes
      /\ \A i \in 1 .. Len(scrubber) : ~ Mentions(clean, scrubber[i])
      /\ ValidUTF8(clean)
  BY <1>1, <1>2, Cleaned
<1>5. DOMAIN clean = 1 .. Len(clean)
  BY <1>4
<1>6. \A i \in DOMAIN clean : clean[i] # Newline
  BY <1>4, <1>5 DEF Neat, Tight
<1>7. CleanMessage(scrubber, clean) = clean
  BY <1>2, <1>4, Cleaned
<1> QED
  BY <1>3, <1>4, <1>6, <1>7, Zenon DEF Newline

\* A secret that contains another is replaced as a whole: newScrubber puts the
\* longer one first, however the two are configured.
THEOREM WholeSecrets == SecretsReplacedWhole
<1>1. SUFFICES ASSUME NEW secrets \in Configured, NEW scrubber \in NewScrubber(secrets),
                      NEW i \in DOMAIN scrubber
               PROVE  CleanMessage(scrubber, scrubber[i]) = <<Redacted>>
  BY Zenon DEF SecretsReplacedWhole
<1>2. scrubber \in Seq(Words) /\ LongestFirst(scrubber) /\ i \in 1 .. Len(scrubber)
  BY ScrubbersAreWords
<1>3. FoldLeft(ReplaceSecret, scrubber[i], scrubber) = <<Redacted>>
  BY <1>2, AloneReplaced
<1>4. /\ <<Redacted>> \in Seq(Byte) /\ Len(<<Redacted>>) = 1
      /\ <<Redacted>>[1] = Redacted /\ Redacted # Space /\ Redacted # Newline
  BY RedactedIsNoWord, Alphabet
<1>5. Neat(<<Redacted>>)
  BY <1>4 DEF Neat, Tight
<1>6. OneLine(<<Redacted>>) = <<Redacted>>
  BY <1>4, <1>5, OneLined
<1>7. Truncate(<<Redacted>>, MaxErrorMessageBytes) = <<Redacted>>
  <2>1. Len(<<Redacted>>) <= MaxErrorMessageBytes
    BY <1>4, Limit
  <2> QED
    BY <1>4, <2>1, Limit, Truncated
<1> QED
  BY <1>3, <1>6, <1>7, Zenon DEF CleanMessage

\* Whatever fails, its message is safe before it is logged, queued or stored.
THEOREM ScrubbedCorrect == PipelineSpec => []Scrubbed
<1>1. Scrubbed
  BY CleanIsSafe DEF Scrubbed
<1> QED
  BY <1>1, PTL

\* No secret leaves a fragment, in whichever order they are configured.
THEOREM NoFragmentsCorrect == PipelineSpec => []NoFragments
<1>1. NoFragments
  BY WholeSecrets DEF NoFragments
<1> QED
  BY <1>1, PTL
=============================================================================
