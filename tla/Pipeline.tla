------------------------------ MODULE Pipeline -----------------------------
(***************************************************************************)
(* internal/pipeline: the analysis saga and the worker pool that runs it.  *)
(*                                                                         *)
(* A run is a chain of hops through the queue, one message each:           *)
(* mark_processing, ocr, analyze, mark_completed.  A worker receives a     *)
(* message, runs the hop's step (several database and Azure calls), then   *)
(* has the saga enqueue the next hop and acknowledges the message.  These  *)
(* are separate calls, so another worker, a crash or an expired lease can  *)
(* come between any two of them.  A step that fails is redelivered until   *)
(* its retry budget is spent; the run then pivots: mark_completed is       *)
(* unwound by analyze's compensation, and the terminal hook writes the     *)
(* failed status.                                                          *)
(***************************************************************************)
EXTENDS Store, TaskQ

CONSTANTS
    MaxRetry,   \* WORKER_MAX_RETRY: redeliveries of a failing hop
    MaxRuns,    \* bound: how often saga.Start is called for an upload
    MaxFaults,  \* bound: crashes and expired leases in a behaviour
    Faults      \* which kinds of fault can happen, see FaultKinds

FaultKinds == {
    "error",           \* a call of a step fails and has no effect
    "lost_reply",      \* a write takes effect but its call reports an error
    "unrecorded",      \* the write of the failed status fails (only logged)
    "crash",           \* a worker is killed in the middle of a hop
    "stall"}           \* a hop outlives its lease and keeps running

ASSUME PipelineAssumption ==
    /\ MaxRetry \in Nat
    /\ MaxRuns \in Nat
    /\ MaxFaults \in Nat
    /\ Faults \subseteq FaultKinds

VARIABLES
    starts,   \* how often saga.Start has been called for the upload
    pc,       \* worker -> where it stands in the hop it runs
    held,     \* worker -> the slot its message came from
    job,      \* worker -> its copy of the message
    batch,    \* worker -> positions the hop listed and has not dealt with
    faults    \* crashes and expired leases so far

workerVars == <<pc, held, job, batch>>
pipelineVars == <<storeVars, taskqVars, workerVars, starts, faults>>

Steps == {"mark_processing", "ocr", "analyze", "mark_completed"}

\* The hop that runs analyze's Compensate is the only one that goes back.
Hops == Steps \cup {"analyze_compensate"}

Job == [upload : Uploads, hop : Hops, attempts : 0 .. MaxRetry]

ASSUME JobAssumption == None \notin Job

Hop(u, h) == [upload |-> u, hop |-> h, attempts |-> 0]

\* MUTANT of NextStep: analyze is missing from steps().
NextStepNoAnalyze == [mark_processing |-> "ocr", ocr |-> "mark_completed"]

\* The order of steps(); only steps before the last have a successor.
NextStep == [mark_processing |-> "ocr",
             ocr             |-> "analyze",
             analyze         |-> "mark_completed"]

PCs == {"idle", "start", "extract", "model", "replace", "done", "error",
        "onFailed", "onCompensationFailed", "ack"}

TypeOK ==
    /\ StoreTypeOK
    /\ msgs \in [Slots -> Job \cup {None}]
    /\ lease \in [Slots -> Workers \cup {None}]
    /\ starts \in [Uploads -> 0 .. MaxRuns]
    /\ pc \in [Workers -> PCs]
    /\ held \in [Workers -> Slots \cup {None}]
    /\ job \in [Workers -> Job \cup {None}]
    /\ batch \in [Workers -> SUBSET Positions]
    /\ faults \in 0 .. MaxFaults
    /\ \A w \in Workers :
          pc[w] # "idle" => held[w] \in Slots /\ job[w] \in Job

----------------------------------------------------------------------------
(* Uploads arrive; the pool picks up messages.                             *)

WorkersIdle ==
    /\ pc = [w \in Workers |-> "idle"]
    /\ held = [w \in Workers |-> None]
    /\ job = [w \in Workers |-> None]
    /\ batch = [w \in Workers |-> {}]

\* Uploads as the API leaves them: recorded with at least one file, pending.
PipelineInit ==
    /\ status = [u \in Uploads |-> "pending"]
    /\ reason = [u \in Uploads |-> ""]
    /\ files \in [Uploads -> {1 .. n : n \in Positions}]
    /\ ocr = [u \in Uploads |-> {}]
    /\ analyses = {}
    /\ QueueEmpty
    /\ WorkersIdle
    /\ starts = [u \in Uploads |-> 0]
    /\ faults = 0

\* Pipeline.Enqueue: saga.Start puts the first hop on the queue.
Enqueue(u) ==
    /\ starts[u] < MaxRuns
    /\ starts' = [starts EXCEPT ![u] = @ + 1]
    /\ Send(Hop(u, "mark_processing"))
    /\ UNCHANGED <<storeVars, workerVars, faults>>

Dequeue(w) ==
    /\ pc[w] = "idle"
    /\ \E m \in Slots :
          /\ Receive(w, m)
          /\ held' = [held EXCEPT ![w] = m]
          /\ job' = [job EXCEPT ![w] = msgs[m]]
    /\ pc' = [pc EXCEPT ![w] = "start"]
    /\ UNCHANGED <<storeVars, batch, starts, faults>>

\* The worker drops what it held about a message and is free again.
Forget(w) ==
    /\ pc' = [pc EXCEPT ![w] = "idle"]
    /\ held' = [held EXCEPT ![w] = None]
    /\ job' = [job EXCEPT ![w] = None]
    /\ batch' = [batch EXCEPT ![w] = {}]

----------------------------------------------------------------------------
(* The steps.  Each action is one call that changes or reads shared state. *)

At(w, p, h) == pc[w] = p /\ job[w].hop = h

Goto(w, p) ==
    /\ pc' = [pc EXCEPT ![w] = p]
    /\ UNCHANGED <<held, job>>

\* The Do or Compensate function returns an error.
StepFails(w) ==
    /\ Goto(w, "error")
    /\ batch' = [batch EXCEPT ![w] = {}]

\* The Do or Compensate function returns nil.
StepSucceeds(w) ==
    /\ Goto(w, "done")
    /\ batch' = [batch EXCEPT ![w] = {}]

\* A call before the step's write fails, or answers what the step or its client
\* refuses: nothing has changed.
CallFails(w) ==
    /\ "error" \in Faults
    /\ StepFails(w)
    /\ UNCHANGED storeVars

\* A write that commits, after which its caller is told so or is not.
Committed(w, write, continue) ==
    /\ write
    /\ \/ continue
       \/ "lost_reply" \in Faults /\ StepFails(w)

MarkProcessing(w) ==
    /\ At(w, "start", "mark_processing")
    /\ \/ CallFails(w)
       \/ Committed(w, SetUploadStatus(job[w].upload, "processing", ""),
                    StepSucceeds(w))
    /\ UNCHANGED <<taskqVars, starts, faults>>

\* runOCR lists the files once and works on that snapshot.
ListForOCR(w) ==
    LET u == job[w].upload IN
    /\ At(w, "start", "ocr")
    /\ \/ ("error" \in Faults \/ files[u] = {}) /\ StepFails(w)
       \/ /\ files[u] # {}
          /\ Goto(w, "extract")
          /\ batch' = [batch EXCEPT ![w] = files[u] \ ocr[u]]
    /\ UNCHANGED <<storeVars, taskqVars, starts, faults>>

FirstOf(S) == CHOOSE p \in S : \A q \in S : p <= q

\* Blob read, OCR call, blank check and the write for the next listed file.
ExtractOne(w) ==
    /\ At(w, "extract", "ocr")
    /\ batch[w] # {}
    /\ LET p == FirstOf(batch[w]) IN
       \/ CallFails(w)
       \/ Committed(w, SetUploadFileOCR(job[w].upload, p),
                    /\ batch' = [batch EXCEPT ![w] = @ \ {p}]
                    /\ UNCHANGED <<pc, held, job>>)
    /\ UNCHANGED <<taskqVars, starts, faults>>

\* MUTANT of FinishOCR: the loop stops after its first file.
FinishOCREarly(w) ==
    /\ At(w, "extract", "ocr")
    /\ StepSucceeds(w)
    /\ UNCHANGED <<storeVars, taskqVars, starts, faults>>

FinishOCR(w) ==
    /\ At(w, "extract", "ocr")
    /\ batch[w] = {}
    /\ StepSucceeds(w)
    /\ UNCHANGED <<storeVars, taskqVars, starts, faults>>

Analysable(u) == files[u] # {} /\ OCRComplete(u)

\* MUTANT of ListForAnalysis: the document starts at the second file.
ListFromSecond(w) ==
    LET u == job[w].upload IN
    /\ At(w, "start", "analyze")
    /\ \/ ("error" \in Faults \/ ~ Analysable(u)) /\ StepFails(w)
       \/ /\ Analysable(u)
          /\ Goto(w, "model")
          /\ batch' = [batch EXCEPT ![w] = files[u] \ {FirstOf(files[u])}]
    /\ UNCHANGED <<storeVars, taskqVars, starts, faults>>

\* analyze lists the files again and refuses if one has no OCR output.
ListForAnalysis(w) ==
    LET u == job[w].upload IN
    /\ At(w, "start", "analyze")
    /\ \/ ("error" \in Faults \/ ~ Analysable(u)) /\ StepFails(w)
       \/ /\ Analysable(u)
          /\ Goto(w, "model")
          /\ batch' = [batch EXCEPT ![w] = files[u]]
    /\ UNCHANGED <<storeVars, taskqVars, starts, faults>>

\* MUTANT of AskModel: the old analysis is deleted outside the transaction.
AskModelThenDelete(w) ==
    /\ At(w, "model", "analyze")
    /\ \/ CallFails(w)
       \/ /\ Goto(w, "replace")
          /\ DeleteAnalysisByUpload(job[w].upload)
          /\ UNCHANGED batch
    /\ UNCHANGED <<taskqVars, starts, faults>>

\* The model call and the conversion of its answer; then the replacing
\* transaction runs its DELETE, whose effect nobody sees before the commit.
AskModel(w) ==
    /\ At(w, "model", "analyze")
    /\ \/ CallFails(w)
       \/ Goto(w, "replace") /\ UNCHANGED <<batch, storeVars>>
    /\ UNCHANGED <<taskqVars, starts, faults>>

\* Replacing transactions on w's upload that are open when w's commits.  They
\* did not see the row w inserts, so their INSERT violates the unique
\* constraint on analyses.upload_id.
Overtaken(w) ==
    {x \in Workers \ {w} : pc[x] = "replace"
                           /\ job[x].upload = job[w].upload}

CommitOutcomes ==
    {"done"} \cup (IF "lost_reply" \in Faults THEN {"error"} ELSE {})

CommitAnalysis(w) ==
    /\ At(w, "replace", "analyze")
    /\ \/ CallFails(w)
       \/ /\ ReplaceAnalysis(job[w].upload, batch[w])
          /\ \E outcome \in CommitOutcomes :
                pc' = [x \in Workers |-> IF x = w THEN outcome
                                         ELSE IF x \in Overtaken(w) THEN "error"
                                         ELSE pc[x]]
          /\ batch' = [x \in Workers |->
                          IF x = w \/ x \in Overtaken(w) THEN {} ELSE batch[x]]
          /\ UNCHANGED <<held, job>>
    /\ UNCHANGED <<taskqVars, starts, faults>>

\* MUTANT of MarkCompleted: the write's error is swallowed.
CompleteUnchecked(w) ==
    /\ At(w, "start", "mark_completed")
    /\ \/ "error" \in Faults /\ UNCHANGED storeVars
       \/ SetUploadStatus(job[w].upload, "completed", "")
    /\ StepSucceeds(w)
    /\ UNCHANGED <<taskqVars, starts, faults>>

MarkCompleted(w) ==
    /\ At(w, "start", "mark_completed")
    /\ \/ CallFails(w)
       \/ Committed(w, SetUploadStatus(job[w].upload, "completed", ""),
                    StepSucceeds(w))
    /\ UNCHANGED <<taskqVars, starts, faults>>

\* MUTANT of DeleteAnalysis: the compensation deletes nothing.
DeleteNothing(w) ==
    /\ At(w, "start", "analyze_compensate")
    /\ StepSucceeds(w)
    /\ UNCHANGED <<storeVars, taskqVars, starts, faults>>

DeleteAnalysis(w) ==
    /\ At(w, "start", "analyze_compensate")
    /\ \/ CallFails(w)
       \/ Committed(w, DeleteAnalysisByUpload(job[w].upload), StepSucceeds(w))
    /\ UNCHANGED <<taskqVars, starts, faults>>

StepAction(w) ==
    \/ MarkProcessing(w)
    \/ ListForOCR(w)
    \/ ExtractOne(w)
    \/ FinishOCR(w)
    \/ ListForAnalysis(w)
    \/ AskModel(w)
    \/ CommitAnalysis(w)
    \/ MarkCompleted(w)
    \/ DeleteAnalysis(w)

----------------------------------------------------------------------------
(* What the saga and the pool do with the outcome of a step.               *)

\* A step succeeded and a later one follows: its message is enqueued.
SendNext(w) ==
    /\ pc[w] = "done"
    /\ job[w].hop \in DOMAIN NextStep
    /\ Send(Hop(job[w].upload, NextStep[job[w].hop]))
    /\ Goto(w, "ack")
    /\ UNCHANGED <<storeVars, batch, starts, faults>>

\* The last step succeeded: onComplete only logs.
RunCompleted(w) ==
    /\ At(w, "done", "mark_completed")
    /\ Goto(w, "ack")
    /\ UNCHANGED <<storeVars, taskqVars, batch, starts, faults>>

\* The unwinding is finished: onFailed fires.
RunUnwound(w) ==
    /\ At(w, "done", "analyze_compensate")
    /\ Goto(w, "onFailed")
    /\ UNCHANGED <<storeVars, taskqVars, batch, starts, faults>>

\* MUTANT of Retry: one redelivery more than WORKER_MAX_RETRY.
RetryOnceMore(w) ==
    /\ pc[w] = "error"
    /\ job[w].attempts <= MaxRetry
    /\ Reject(w, held[w], [job[w] EXCEPT !.attempts = @ + 1])
    /\ Forget(w)
    /\ UNCHANGED <<storeVars, starts, faults>>

\* MUTANT of Retry: the attempt is not counted.
RetryUncounted(w) ==
    /\ pc[w] = "error"
    /\ job[w].attempts < MaxRetry
    /\ Reject(w, held[w], job[w])
    /\ Forget(w)
    /\ UNCHANGED <<storeVars, starts, faults>>

\* MUTANT of Retry: the terminal hook fires although the hop is redelivered.
RetryAndFail(w) ==
    /\ pc[w] = "error"
    /\ job[w].attempts < MaxRetry
    /\ Reject(w, held[w], [job[w] EXCEPT !.attempts = @ + 1])
    /\ Goto(w, "onFailed")
    /\ UNCHANGED <<storeVars, batch, starts, faults>>

\* A failed hop with budget left goes back to the queue.
Retry(w) ==
    /\ pc[w] = "error"
    /\ job[w].attempts < MaxRetry
    /\ Reject(w, held[w], [job[w] EXCEPT !.attempts = @ + 1])
    /\ Forget(w)
    /\ UNCHANGED <<storeVars, starts, faults>>

BudgetSpent(w) == pc[w] = "error" /\ job[w].attempts >= MaxRetry

\* The failing step itself is not compensated: only a failure of
\* mark_completed has a step with a Compensate (analyze) before it.
Pivot(w) ==
    /\ BudgetSpent(w)
    /\ IF job[w].hop = "mark_completed"
       THEN Send(Hop(job[w].upload, "analyze_compensate")) /\ Goto(w, "ack")
       ELSE /\ Goto(w, IF job[w].hop = "analyze_compensate"
                       THEN "onCompensationFailed" ELSE "onFailed")
            /\ UNCHANGED taskqVars
    /\ UNCHANGED <<storeVars, batch, starts, faults>>

\* The step whose Do failed first, also when its run had to be unwound.
FailedStep(h) == IF h = "analyze_compensate" THEN "mark_completed" ELSE h

\* markFailed: the hook's own write, whose error is logged and dropped.
MarkFailed(w, why) ==
    /\ \/ SetUploadStatus(job[w].upload, "failed", why)
       \/ "unrecorded" \in Faults /\ UNCHANGED storeVars
    /\ Goto(w, "ack")
    /\ UNCHANGED <<taskqVars, batch, starts, faults>>

\* MUTANT of OnFailed: the hook only logs.
OnFailedLogs(w) ==
    /\ pc[w] = "onFailed"
    /\ Goto(w, "ack")
    /\ UNCHANGED <<storeVars, taskqVars, batch, starts, faults>>

OnFailed(w) == pc[w] = "onFailed" /\ MarkFailed(w, FailedStep(job[w].hop))

OnCompensationFailed(w) ==
    /\ pc[w] = "onCompensationFailed"
    /\ MarkFailed(w, "analyze: rollback failed")

Ack(w) ==
    /\ pc[w] = "ack"
    /\ Acknowledge(w, held[w])
    /\ Forget(w)
    /\ UNCHANGED <<storeVars, starts, faults>>

SagaAction(w) ==
    \/ SendNext(w)
    \/ RunCompleted(w)
    \/ RunUnwound(w)
    \/ Retry(w)
    \/ Pivot(w)
    \/ OnFailed(w)
    \/ OnCompensationFailed(w)
    \/ Ack(w)

----------------------------------------------------------------------------
(* Faults.                                                                 *)

\* The worker is killed.  Its lease runs out some time later; until then
\* nobody sees the message, so letting it run out at once loses nothing.
Crash(w) ==
    /\ "crash" \in Faults
    /\ faults < MaxFaults
    /\ pc[w] # "idle"
    /\ faults' = faults + 1
    /\ IF lease[held[w]] = w THEN Expire(held[w]) ELSE UNCHANGED taskqVars
    /\ Forget(w)
    /\ UNCHANGED <<storeVars, starts>>

\* The lease of a running hop runs out; the worker does not notice.
Stall(w) ==
    /\ "stall" \in Faults
    /\ faults < MaxFaults
    /\ pc[w] # "idle"
    /\ lease[held[w]] = w
    /\ faults' = faults + 1
    /\ Expire(held[w])
    /\ UNCHANGED <<storeVars, workerVars, starts>>

----------------------------------------------------------------------------

\* What the pool does of itself.
Work(w) == Dequeue(w) \/ StepAction(w) \/ SagaAction(w)

PipelineStep ==
    \/ \E w \in Workers : Work(w)
    \/ \E w \in Workers : Crash(w)
    \/ \E w \in Workers : Stall(w)

\* Every upload has been started and the queue is drained.
Drained ==
    /\ \A u \in Uploads : starts[u] = MaxRuns
    /\ \A m \in Slots : ~ Queued(m)
    /\ \A w \in Workers : pc[w] = "idle"

\* An idle pool keeps polling an empty queue.
Poll == Drained /\ UNCHANGED pipelineVars

PipelineNext ==
    \/ \E u \in Uploads : Enqueue(u)
    \/ PipelineStep
    \/ Poll

PipelineSpec == PipelineInit /\ [][PipelineNext]_pipelineVars

\* Every worker of the pool keeps running: it dequeues whenever something is
\* visible and finishes what it started.
FairPipelineSpec ==
    PipelineSpec /\ \A w \in Workers : WF_pipelineVars(Work(w))

----------------------------------------------------------------------------
(* Properties.                                                             *)

\* Hops that only run once every file of the upload has been through OCR.
AfterOCR == {"analyze", "mark_completed", "analyze_compensate"}

QueuedAfterOCR ==
    \A m \in Slots :
        Queued(m) /\ msgs[m].hop \in AfterOCR => OCRComplete(msgs[m].upload)

RunningAfterOCR ==
    \A w \in Workers :
        pc[w] # "idle" /\ job[w].hop \in AfterOCR => OCRComplete(job[w].upload)

CompletedAfterOCR ==
    \A u \in Uploads : status[u] = "completed" => OCRComplete(u)

\* "The ocr step is supposed to guarantee this" (steps.go, analyze): whatever
\* fails, is redelivered or runs twice, a message for analyze or a later hop
\* exists only when every file of the upload has OCR output, and so does a
\* completed upload.
OCRGuaranteed == QueuedAfterOCR /\ RunningAfterOCR /\ CompletedAfterOCR

\* An upload has at most one analysis, computed from all of its files: no
\* "partial analysis from being presented as a complete one" (steps.go) and no
\* second one (store.go, ReplaceAnalysis).
AnalysisIsWhole ==
    \A a \in analyses :
        /\ a.statements = files[a.upload]
        /\ \A b \in analyses : b.upload = a.upload => b = a

\* Where the ocr step stands in its list, and what analyze carries to its
\* commit.
OCRProgress ==
    \A w \in Workers :
        /\ pc[w] = "extract" =>
              files[job[w].upload] \subseteq ocr[job[w].upload] \cup batch[w]
        /\ pc[w] = "done" /\ job[w].hop = "ocr" => OCRComplete(job[w].upload)
        /\ pc[w] \in {"model", "replace"} => batch[w] = files[job[w].upload]

\* The inductive invariant behind OCRGuaranteed and AnalysisIsWhole.
OCRInv == OCRGuaranteed /\ AnalysisIsWhole /\ OCRProgress

\* A completed upload has an analysis to serve: "Completed with no analysis
\* row should not happen" (uploads.go, status) and "A completed upload should
\* always have an analysis" (visualization.go).
CompletedHasAnalysis ==
    \A u \in Uploads : status[u] = "completed" => HasAnalysis(u)

\* "a failed run leaves nothing half-written" (steps.go, deleteAnalysis),
\* unless the rollback itself failed, which the reason then says.
FailedLeavesNothing ==
    \A u \in Uploads :
        status[u] = "failed" /\ reason[u] # "analyze: rollback failed"
            => ~ HasAnalysis(u)

\* Work that is queued for an upload, or in a worker's hands.
WorkRemains(u) ==
    \/ \E m \in Slots : Queued(m) /\ msgs[m].upload = u
    \/ \E w \in Workers : pc[w] # "idle" /\ job[w].upload = u

\* No "upload left claiming to be processing with nothing queued for it"
\* (pipeline.go, markFailed), and none left pending after it was enqueued.
NoStrandedRun ==
    \A u \in Uploads :
        starts[u] > 0 /\ status[u] \in {"pending", "processing"}
            => WorkRemains(u)

\* Workers and leases agree, as long as no lease runs out under a worker.
LeaseInv ==
    /\ \A w \in Workers :
          pc[w] # "idle" => lease[held[w]] = w /\ msgs[held[w]] = job[w]
    /\ \A m \in Slots :
          lease[m] # None => pc[lease[m]] # "idle" /\ held[lease[m]] = m

\* Nothing but acknowledging its message is left of worker w's hop.
Spent(w) == pc[w] = "ack" \/ At(w, "done", "mark_completed")

\* The message in slot m will still move the run of u.
Carries(m, u) ==
    /\ Queued(m)
    /\ msgs[m].upload = u
    /\ lease[m] # None => ~ Spent(lease[m])

\* The inductive invariant behind NoStrandedRun.
CarrierInv ==
    /\ LeaseInv
    /\ \A u \in Uploads :
          starts[u] > 0 /\ status[u] \in {"pending", "processing"}
              => \E m \in Slots : Carries(m, u)

\* A hop that still has something to do besides acknowledging its message.
Executing(w) == pc[w] \notin {"idle", "ack"}

\* The hops of one upload never overlap: the run is one chain, so the steps'
\* unguarded writes (SetUploadStatus, DeleteAnalysisByUpload) cannot race.
OneHopAtATime ==
    \A w, x \in Workers :
        Executing(w) /\ Executing(x) /\ job[w].upload = job[x].upload
            => w = x

Settled(u) == status[u] \in {"completed", "failed"}

\* An enqueued upload ends in a terminal status and stays there.
EventuallySettles ==
    \A u \in Uploads : starts[u] > 0 ~> [] Settled(u)

----------------------------------------------------------------------------
(* The abstract life of an upload that the pipeline implements.            *)

PhaseOf(u) ==
    CASE starts[u] = 0 -> "new"
      [] starts[u] > 0 /\ reason[u] = "analyze: rollback failed"
            -> "rollback failed"
      [] OTHER -> status[u]

Lifecycle == INSTANCE UploadLifecycle
    WITH phase <- [u \in Uploads |-> PhaseOf(u)],
         result <- [u \in Uploads |-> HasAnalysis(u)]

\* When steps can fail but no worker is lost, the pipeline implements
\* UploadLifecycle: a terminal status is final, a completed upload has its
\* analysis, a failed one has none or says that the rollback failed, and every
\* submitted upload finishes.
ImplementsLifecycle == Lifecycle!LifecycleSpec
============================================================================
