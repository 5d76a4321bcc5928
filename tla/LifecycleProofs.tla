-------------------------- MODULE LifecycleProofs --------------------------
(***************************************************************************)
(* That the pipeline implements UploadLifecycle as long as steps fail but  *)
(* no worker is lost and no write goes through unreported, for every       *)
(* number of uploads, workers, files and retries.                          *)
(*                                                                         *)
(* The argument: a run has one token, the message that still has something *)
(* to do (OneLive).  So no step of an upload's run has a rival, and where  *)
(* the token is says what the upload's rows look like (StageInv); what the *)
(* run leaves behind when the token is gone is EndInv.                     *)
(***************************************************************************)
EXTENDS PipelineProofs

----------------------------------------------------------------------------
(* Messages belong to runs.                                                *)

\* Every message belongs to a run that was enqueued.
Originated == \A m \in Slots : Queued(m) => starts[msgs[m].upload] > 0

\* What the saga puts on the queue is about the upload of the hop it handles.
LEMMA SagaSends ==
    ASSUME TypeOK, NEW w \in Workers, SagaAction(w), NEW m \in Slots, Queued(m)'
    PROVE  msgs'[m] = msgs[m] \/ msgs'[m].upload = job[w].upload
<1>0. msgs \in [Slots -> Job \cup {None}]
  BY DEF TypeOK
<1>1. ASSUME NEW h, Send(Hop(job[w].upload, h))
      PROVE  msgs'[m] = msgs[m] \/ msgs'[m].upload = job[w].upload
  BY <1>0, <1>1, SendFillsSlot DEF Hop
<1>2. CASE SendNext(w)
  BY <1>1, <1>2 DEF SendNext
<1>3. CASE Pivot(w)
  BY <1>1, <1>3 DEF Pivot, taskqVars
<1>4. CASE Retry(w)
  <2>1. held[w] \in Slots /\ job[w] \in Job
    BY <1>4 DEF Retry, TypeOK
  <2>2. [job[w] EXCEPT !.attempts = @ + 1].upload = job[w].upload
    BY <2>1 DEF Job
  <2> QED
    BY <1>0, <1>4, <2>2 DEF Retry, Reject, taskqVars
<1>5. CASE Ack(w)
  BY <1>0, <1>5 DEF Ack, Acknowledge, taskqVars, Queued
<1>6. CASE RunCompleted(w) \/ RunUnwound(w) \/ OnFailed(w) \/ OnCompensationFailed(w)
  BY <1>6 DEF RunCompleted, RunUnwound, OnFailed, OnCompensationFailed,
     MarkFailed, taskqVars
<1> QED
  BY <1>2, <1>3, <1>4, <1>5, <1>6 DEF SagaAction

LEMMA OriginatedStep ==
    ASSUME TypeOK, LeaseInv, Originated,
           PipelineStep \/ (\E u \in Uploads : Enqueue(u)) \/ UNCHANGED pipelineVars
    PROVE  Originated'
<1>0. /\ msgs \in [Slots -> Job \cup {None}]
      /\ starts \in [Uploads -> 0 .. MaxRuns] /\ MaxRuns \in Nat
  BY PipelineAssumption DEF TypeOK
<1>1. ASSUME NEW u \in Uploads, Enqueue(u) PROVE Originated'
  <2>1. PICK n \in Slots : msgs' = [msgs EXCEPT ![n] = Hop(u, "mark_processing")]
    BY <1>1, SendFillsSlot DEF Enqueue
  <2>2. /\ starts'[u] > 0
        /\ \A v \in Uploads : starts'[v] \in Nat /\ starts'[v] >= starts[v]
    BY <1>0, <1>1 DEF Enqueue
  <2> SUFFICES ASSUME NEW m \in Slots, Queued(m)'
               PROVE  starts'[msgs'[m].upload] > 0
    BY DEF Originated
  <2>3. CASE m = n
    BY <1>0, <2>1, <2>2, <2>3 DEF Hop
  <2>4. CASE m # n
    <3>1. msgs'[m] = msgs[m] /\ msgs[m] \in Job /\ starts[msgs[m].upload] > 0
      BY <1>0, <2>1, <2>4 DEF Queued, Originated
    <3>2. msgs[m].upload \in Uploads
      BY <3>1 DEF Job
    <3> QED
      BY <1>0, <2>2, <3>1, <3>2
  <2> QED
    BY <2>3, <2>4
<1>2. ASSUME NEW w \in Workers, SagaAction(w) PROVE Originated'
  <2>1. /\ held[w] \in Slots /\ job[w] \in Job /\ msgs[held[w]] = job[w]
        /\ starts' = starts
    BY <1>2, SagaFrame DEF LeaseInv, TypeOK
  <2>2. starts[job[w].upload] > 0
    BY <2>1, JobAssumption DEF Originated, Queued
  <2> QED
    BY <1>2, <2>1, <2>2, SagaSends DEF Originated, Queued
<1>3. CASE UNCHANGED <<msgs, starts>>
  BY <1>3 DEF Originated, Queued
<1>4. ASSUME NEW w \in Workers, StepAction(w) PROVE UNCHANGED <<msgs, starts>>
  BY <1>4, StepFrame DEF StepKeeps
<1>5. ASSUME NEW w \in Workers, Dequeue(w) \/ Crash(w) \/ Stall(w)
      PROVE  UNCHANGED <<msgs, starts>>
  BY <1>5 DEF Dequeue, Crash, Stall, Receive, Expire, taskqVars
<1> QED
  BY <1>1, <1>2, <1>3, <1>4, <1>5 DEF PipelineStep, Work, pipelineVars, taskqVars

\* Without a run there is neither a message nor a hop.
LEMMA NoRunNoWork ==
    ASSUME TypeOK, LeaseInv, Originated, NEW u \in Uploads, starts[u] = 0
    PROVE  ~ WorkRemains(u)
<1>1. ASSUME NEW m \in Slots, Queued(m) PROVE msgs[m].upload # u
  BY <1>1 DEF Originated
<1>2. ASSUME NEW w \in Workers, pc[w] # "idle" PROVE job[w].upload # u
  <2>1. held[w] \in Slots /\ job[w] \in Job /\ msgs[held[w]] = job[w]
    BY <1>2 DEF LeaseInv, TypeOK
  <2> QED
    BY <1>1, <2>1, JobAssumption DEF Queued
<1> QED
  BY <1>1, <1>2 DEF WorkRemains

----------------------------------------------------------------------------
(* The token of a run.                                                     *)

\* Where the hop of the message in slot m stands; one nobody holds is to start.
Place(m) == IF lease[m] = None THEN "start" ELSE pc[lease[m]]

\* The message still has something to do: its hop is not only to be
\* acknowledged.
Live(m) == Queued(m) /\ Place(m) # "ack"

OneLive ==
    \A m, n \in Slots :
        Live(m) /\ Live(n) /\ msgs[m].upload = msgs[n].upload => m = n

\* The message in m is the same one and its hop has not moved.
Kept(m) == msgs'[m] = msgs[m] /\ Place(m)' = Place(m)

\* No message does anything.
Quiet == \A m \in Slots : Live(m)' => Live(m) /\ Kept(m)

\* A message of u's for hop h, standing at p, is the only one of u's that can
\* still be live; the other live messages are those of other uploads as before.
TokenAt(u, h, p) ==
    \E n \in Slots :
        /\ msgs'[n].upload = u /\ msgs'[n].hop = h /\ Place(n)' = p
        /\ \A m \in Slots \ {n} :
              Live(m)' => Live(m) /\ Kept(m) /\ msgs[m].upload # u

\* However the tokens move, no upload gets a second one.
LEMMA QuietStays ==
    ASSUME OneLive, Quiet PROVE OneLive'
BY DEF Quiet, OneLive, Kept

LEMMA TokenStays ==
    ASSUME OneLive, NEW u, NEW h, NEW p, TokenAt(u, h, p)
    PROVE  OneLive'
<1>1. PICK n \in Slots :
        /\ msgs'[n].upload = u
        /\ \A m \in Slots \ {n} :
              Live(m)' => Live(m) /\ Kept(m) /\ msgs[m].upload # u
  BY DEF TokenAt
<1> SUFFICES ASSUME NEW k \in Slots, NEW m \in Slots, Live(k)', Live(m)',
                    msgs'[k].upload = msgs'[m].upload
             PROVE  k = m
  BY DEF OneLive
<1>2. CASE k = n \/ m = n
  BY <1>1, <1>2 DEF Kept
<1>3. CASE k # n /\ m # n
  BY <1>1, <1>3 DEF Kept, OneLive
<1> QED
  BY <1>2, <1>3

\* A busy worker and the slot of its message.
LEMMA Holder ==
    ASSUME TypeOK, LeaseInv, NEW w \in Workers, pc[w] # "idle"
    PROVE  /\ held[w] \in Slots /\ job[w] \in Job
           /\ job[w].upload \in Uploads /\ job[w].hop \in Hops
           /\ msgs[held[w]] = job[w] /\ lease[held[w]] = w
           /\ Queued(held[w]) /\ Place(held[w]) = pc[w]
<1>1. /\ held[w] \in Slots /\ job[w] \in Job
      /\ msgs[held[w]] = job[w] /\ lease[held[w]] = w
  BY DEF LeaseInv, TypeOK
<1> QED
  BY <1>1, JobAssumption, TaskQAssumption DEF Job, Queued, Place

\* Any other message's hop stands where the others leave it.
LEMMA OtherPlace ==
    ASSUME TypeOK, LeaseInv, NEW w \in Workers, NEW m \in Slots, m # held[w],
           lease'[m] = lease[m], \A x \in Workers \ {w} : pc'[x] = pc[x]
    PROVE  Place(m)' = Place(m)
<1>1. lease[m] # None => lease[m] \in Workers /\ held[lease[m]] = m
  BY DEF LeaseInv, TypeOK
<1> QED
  BY <1>1 DEF Place

\* A hop that goes on in its slot keeps the token there.
LEMMA TokenAtHolder ==
    ASSUME TypeOK, LeaseInv, OneLive, NEW w \in Workers, pc[w] \notin {"idle", "ack"},
           NEW n \in Slots, n = held[w], NEW p,
           \A m \in Slots \ {n} : msgs'[m] = msgs[m] /\ lease'[m] = lease[m],
           \A x \in Workers \ {w} : pc'[x] = pc[x],
           msgs'[n].upload = job[w].upload, msgs'[n].hop = job[w].hop,
           Place(n)' = p
    PROVE  TokenAt(job[w].upload, job[w].hop, p)
<1>1. Live(n) /\ msgs[n].upload = job[w].upload
  BY Holder DEF Live
<1>2. ASSUME NEW m \in Slots \ {n}, Live(m)'
      PROVE  Live(m) /\ Kept(m) /\ msgs[m].upload # job[w].upload
  <2>1. msgs'[m] = msgs[m] /\ Place(m)' = Place(m)
    BY OtherPlace
  <2>2. Live(m)
    BY <1>2, <2>1 DEF Live, Queued
  <2> QED
    BY <1>1, <2>1, <2>2 DEF Kept, OneLive
<1> QED
  BY <1>2 DEF TokenAt

\* A slot that is free for a message has no holder.
LEMMA FreeSlot ==
    ASSUME TypeOK, LeaseInv, NEW n \in Slots, ~ Queued(n)
    PROVE  lease[n] = None /\ \A w \in Workers : pc[w] # "idle" => held[w] # n
<1>1. \A w \in Workers : pc[w] # "idle" => held[w] # n
  BY Holder
<1>2. lease[n] # None => lease[n] \in Workers /\ pc[lease[n]] # "idle"
                         /\ held[lease[n]] = n
  BY DEF LeaseInv, TypeOK
<1> QED
  BY <1>1, <1>2

\* A message that is sent for an upload with no other live message is its token.
LEMMA TokenSent ==
    ASSUME TypeOK, LeaseInv, NEW u \in Uploads, NEW h \in Hops, Send(Hop(u, h)),
           \A m \in Slots : Live(m)' /\ Queued(m) =>
              Live(m) /\ Place(m)' = Place(m) /\ msgs[m].upload # u
    PROVE  TokenAt(u, h, "start")
<1>1. PICK n \in Slots : ~ Queued(n) /\ msgs' = [msgs EXCEPT ![n] = Hop(u, h)]
  BY SendFillsSlot
<1>2. lease' = lease /\ lease[n] = None
  BY <1>1, SendFillsSlot, FreeSlot
<1>3. /\ msgs'[n].upload = u /\ msgs'[n].hop = h
      /\ \A m \in Slots \ {n} : msgs'[m] = msgs[m]
  BY <1>1 DEF TypeOK, Hop
<1>4. Place(n)' = "start"
  BY <1>2 DEF Place
<1>5. ASSUME NEW m \in Slots \ {n}, Live(m)'
      PROVE  Live(m) /\ Kept(m) /\ msgs[m].upload # u
  <2>1. Queued(m)
    BY <1>3, <1>5 DEF Live, Queued
  <2> QED
    BY <1>3, <1>5, <2>1 DEF Kept
<1> QED
  BY <1>3, <1>4, <1>5 DEF TokenAt

\* saga.Start gives the token of a run that is not under way.
LEMMA TokenStarted ==
    ASSUME TypeOK, LeaseInv, Originated, NEW u \in Uploads, Enqueue(u), starts[u] = 0
    PROVE  TokenAt(u, "mark_processing", "start")
<1>1. /\ Send(Hop(u, "mark_processing")) /\ "mark_processing" \in Hops
      /\ lease' = lease /\ pc' = pc
  BY SendFillsSlot DEF Enqueue, workerVars, Hops, Steps
<1>2. ASSUME NEW m \in Slots, Live(m)', Queued(m)
      PROVE  Live(m) /\ Place(m)' = Place(m) /\ msgs[m].upload # u
  BY <1>1, <1>2 DEF Live, Place, Originated
<1> QED
  BY <1>1, <1>2, TokenSent

\* A hop hands the token on with the message it sends, and is left with its
\* acknowledgement.
LEMMA TokenPassed ==
    ASSUME TypeOK, LeaseInv, OneLive, NEW w \in Workers, pc[w] \notin {"idle", "ack"},
           NEW h \in Hops, Send(Hop(job[w].upload, h)), Goto(w, "ack")
    PROVE  TokenAt(job[w].upload, h, "start")
<1>1. /\ held[w] \in Slots /\ job[w].upload \in Uploads /\ lease[held[w]] = w
      /\ Live(held[w]) /\ msgs[held[w]].upload = job[w].upload
  BY Holder DEF Live
<1>2. lease' = lease /\ pc'[w] = "ack" /\ \A x \in Workers \ {w} : pc'[x] = pc[x]
  BY SendFillsSlot DEF Goto, TypeOK
<1>3. ASSUME NEW m \in Slots, Live(m)', Queued(m)
      PROVE  Live(m) /\ Place(m)' = Place(m) /\ msgs[m].upload # job[w].upload
  <2>1. m # held[w]
    BY <1>1, <1>2, <1>3, TaskQAssumption DEF Live, Place
  <2>2. Place(m)' = Place(m)
    BY <1>2, <2>1, OtherPlace
  <2>3. Live(m)
    BY <1>3, <2>2 DEF Live
  <2> QED
    BY <1>1, <2>1, <2>2, <2>3 DEF OneLive
<1> QED
  BY <1>1, <1>3, TokenSent

\* A worker that moves within the saga, without sending anything.
LEMMA TokenMoved ==
    ASSUME TypeOK, LeaseInv, OneLive, NEW w \in Workers, pc[w] \notin {"idle", "ack"},
           NEW p, Goto(w, p), UNCHANGED taskqVars
    PROVE  TokenAt(job[w].upload, job[w].hop, p)
<1>1. /\ UNCHANGED <<msgs, lease>> /\ pc'[w] = p
      /\ \A x \in Workers \ {w} : pc'[x] = pc[x]
  BY DEF Goto, taskqVars, TypeOK
<1>2. PICK n \in Slots : n = held[w] /\ lease[n] = w /\ msgs'[n] = job[w]
  BY <1>1, Holder
<1>3. Place(n)' = p
  BY <1>1, <1>2, TaskQAssumption DEF Place
<1> QED
  BY <1>1, <1>2, <1>3, TokenAtHolder

\* A failing hop that is redelivered.
LEMMA TokenReturned ==
    ASSUME TypeOK, LeaseInv, OneLive, NEW w \in Workers, Retry(w)
    PROVE  TokenAt(job[w].upload, job[w].hop, "start")
<1>1. PICK n \in Slots : n = held[w] /\ lease[n] = w /\ job[w] \in Job
  BY Holder DEF Retry
<1>2. /\ msgs' = [msgs EXCEPT ![n] = [job[w] EXCEPT !.attempts = @ + 1]]
      /\ lease' = [lease EXCEPT ![n] = None]
      /\ \A x \in Workers \ {w} : pc'[x] = pc[x]
  BY <1>1 DEF Retry, Reject, Forget, TypeOK
<1>3. /\ msgs'[n].hop = job[w].hop /\ msgs'[n].upload = job[w].upload
      /\ lease'[n] = None
      /\ \A m \in Slots \ {n} : msgs'[m] = msgs[m] /\ lease'[m] = lease[m]
  BY <1>1, <1>2 DEF TypeOK, Job
<1>4. Place(n)' = "start"
  BY <1>3 DEF Place
<1>5. pc[w] \notin {"idle", "ack"}
  BY DEF Retry
<1> QED
  BY <1>1, <1>2, <1>3, <1>4, <1>5, TokenAtHolder

\* A transaction of the run has no rival, and a step moves nobody else.
LEMMA TokenStepped ==
    ASSUME TypeOK, LeaseInv, OneLive, NEW w \in Workers, StepAction(w)
    PROVE  Overtaken(w) = {} /\ TokenAt(job[w].upload, job[w].hop, pc'[w])
<1>1. /\ StepKeeps /\ pc[w] \in {"start", "extract", "model", "replace"}
  BY StepFrame
<1>2. PICK n \in Slots : /\ n = held[w] /\ lease[n] = w /\ msgs[n] = job[w]
                         /\ Live(n)
  BY <1>1, Holder DEF Live
<1>3. ASSUME NEW x \in Workers \ {w}, pc[x] = "replace", job[x].upload = job[w].upload
      PROVE  FALSE
  <2>1. /\ held[x] \in Slots /\ Live(held[x]) /\ lease[held[x]] = x
        /\ msgs[held[x]].upload = job[w].upload
    BY <1>3, Holder DEF Live
  <2> QED
    BY <1>2, <2>1 DEF OneLive
<1>4. Overtaken(w) = {}
  BY <1>3 DEF Overtaken
<1>5. ASSUME NEW x \in Workers \ {w} PROVE pc'[x] = pc[x]
  <2>1. CASE CommitAnalysis(w)
    BY <1>4, <2>1 DEF CommitAnalysis, CallFails, StepFails, Goto, TypeOK
  <2>2. CASE ~ CommitAnalysis(w)
    BY <2>2 DEF StepAction, MarkProcessing, ListForOCR, ExtractOne, FinishOCR,
       ListForAnalysis, AskModel, MarkCompleted, DeleteAnalysis, CallFails, Committed,
       StepFails, StepSucceeds, Goto, TypeOK
  <2> QED
    BY <2>1, <2>2
<1>6. Place(n)' = pc'[w] /\ msgs'[n] = job[w] /\ UNCHANGED <<msgs, lease>>
  BY <1>1, <1>2, TaskQAssumption DEF Place, StepKeeps
<1> QED
  BY <1>1, <1>2, <1>4, <1>5, <1>6, TokenAtHolder

\* What moves nobody's token: a delivery, an acknowledgement.
LEMMA DeliveryQuiet ==
    ASSUME TypeOK, LeaseInv, NEW w \in Workers, Dequeue(w) \/ Ack(w)
    PROVE  Quiet
<1>1. CASE Dequeue(w)
  <2>1. PICK n \in Slots : /\ lease[n] = None /\ lease' = [lease EXCEPT ![n] = w]
                           /\ msgs' = msgs /\ pc' = [pc EXCEPT ![w] = "start"]
                           /\ pc[w] = "idle"
    BY <1>1 DEF Dequeue, Receive, Visible
  <2>2. \A m \in Slots : lease[m] # None => lease[m] \in Workers /\ lease[m] # w
    BY <2>1 DEF LeaseInv, TypeOK
  <2>3. \A m \in Slots : Place(m)' = Place(m)
    BY <2>1, <2>2, TaskQAssumption DEF Place, TypeOK
  <2> QED
    BY <2>1, <2>3 DEF Quiet, Kept, Live, Queued
<1>2. CASE Ack(w)
  <2>1. PICK n \in Slots : n = held[w] /\ lease[n] = w
    BY <1>2, Holder DEF Ack
  <2>2. /\ msgs' = [msgs EXCEPT ![n] = None] /\ lease' = [lease EXCEPT ![n] = None]
        /\ \A x \in Workers \ {w} : pc'[x] = pc[x]
    BY <1>2, <2>1 DEF Ack, Acknowledge, Forget, TypeOK
  <2> SUFFICES ASSUME NEW m \in Slots, Live(m)' PROVE Live(m) /\ Kept(m)
    BY DEF Quiet
  <2>3. m # n
    BY <2>2 DEF Live, Queued, TypeOK
  <2>4. msgs'[m] = msgs[m] /\ lease'[m] = lease[m]
    BY <2>2, <2>3 DEF TypeOK
  <2>5. Place(m)' = Place(m)
    BY <2>1, <2>2, <2>3, <2>4, OtherPlace
  <2> QED
    BY <2>4, <2>5 DEF Live, Queued, Kept
<1> QED
  BY <1>1, <1>2

\* Whatever the pool does of itself moves at most the token of the run at hand.
LEMMA WorkToken ==
    ASSUME TypeOK, LeaseInv, OneLive, NEW w \in Workers, Work(w)
    PROVE  Quiet \/ \E h, p : TokenAt(job[w].upload, h, p)
<1>1. CASE Dequeue(w) \/ Ack(w)
  BY <1>1, DeliveryQuiet
<1>2. CASE StepAction(w)
  BY <1>2, TokenStepped
<1>3. CASE Retry(w)
  BY <1>3, TokenReturned
<1>4. ASSUME pc[w] \notin {"idle", "ack"}, NEW p, Goto(w, p), UNCHANGED taskqVars
      PROVE  \E h, q : TokenAt(job[w].upload, h, q)
  BY <1>4, TokenMoved
<1>5. ASSUME pc[w] \notin {"idle", "ack"}, NEW h \in Hops, Goto(w, "ack"),
             Send(Hop(job[w].upload, h))
      PROVE  \E g, p : TokenAt(job[w].upload, g, p)
  BY <1>5, TokenPassed
<1>6. CASE SendNext(w)
  <2>1. NextStep[job[w].hop] \in Hops
    BY <1>6 DEF SendNext, NextStep, Hops, Steps
  <2> QED
    BY <1>5, <1>6, <2>1 DEF SendNext
<1>7. CASE Pivot(w)
  <2>1. "analyze_compensate" \in Hops
    BY DEF Hops
  <2> QED
    BY <1>4, <1>5, <1>7, <2>1 DEF Pivot, BudgetSpent
<1>8. CASE RunCompleted(w) \/ RunUnwound(w) \/ OnFailed(w) \/ OnCompensationFailed(w)
  BY <1>4, <1>8 DEF RunCompleted, RunUnwound, OnFailed, OnCompensationFailed,
     MarkFailed, At
<1> QED
  BY <1>1, <1>2, <1>3, <1>6, <1>7, <1>8 DEF Work, SagaAction

\* No worker is lost: neither killed nor outlived by its hop's lease.
Calm == "crash" \notin Faults /\ "stall" \notin Faults

TokenInv == TypeOK /\ LeaseInv /\ Originated /\ OneLive

LEMMA TokenInit == PipelineInit => TokenInv
<1> SUFFICES ASSUME PipelineInit PROVE TokenInv
  OBVIOUS
<1>1. \A m \in Slots : ~ Queued(m)
  BY DEF PipelineInit, QueueEmpty, Queued
<1> QED
  BY <1>1, TypeInit, LeaseInit DEF TokenInv, Originated, OneLive, Live

\* A pipeline step, also one of a larger system's, keeps the tokens single.
LEMMA TokenStep ==
    ASSUME Calm, TokenInv,
           \/ PipelineStep
           \/ \E u \in Uploads : Enqueue(u) /\ starts[u] = 0
           \/ UNCHANGED pipelineVars
    PROVE  TokenInv'
<1>1. TypeOK /\ LeaseInv /\ Originated /\ OneLive
  BY DEF TokenInv
<1>2. [PipelineNext]_pipelineVars
  BY DEF PipelineNext
<1>3. TypeOK' /\ LeaseInv' /\ Originated'
  BY <1>1, <1>2, TypeStep, LeaseStep, OriginatedStep DEF Calm
<1>4. ASSUME PipelineStep PROVE OneLive'
  <2>1. PICK w \in Workers : Work(w)
    BY <1>4 DEF PipelineStep, Crash, Stall, Calm
  <2> QED
    BY <1>1, <2>1, WorkToken, QuietStays, TokenStays
<1>5. ASSUME NEW u \in Uploads, Enqueue(u), starts[u] = 0 PROVE OneLive'
  <2>1. TokenAt(u, "mark_processing", "start")
    BY <1>1, <1>5, TokenStarted
  <2> QED
    BY <1>1, <2>1, TokenStays
<1>6. ASSUME UNCHANGED pipelineVars PROVE OneLive'
  BY <1>1, <1>6
     DEF pipelineVars, taskqVars, workerVars, OneLive, Live, Queued, Place
<1> QED
  BY <1>3, <1>4, <1>5, <1>6 DEF TokenInv

\* The steps' unguarded writes cannot race: the hops of one upload never overlap,
\* whatever calls fail, whatever writes report an error although they took effect
\* and whether or not the failed status can be written, as long as no worker is
\* lost and the upload is enqueued once (pipeline.go, steps).
THEOREM OneHopCorrect ==
    ASSUME Calm, MaxRuns <= 1
    PROVE  PipelineSpec => []OneHopAtATime
<1>1. TokenInv /\ [PipelineNext]_pipelineVars => TokenInv'
  <2> SUFFICES ASSUME TokenInv, [PipelineNext]_pipelineVars PROVE TokenInv'
    OBVIOUS
  <2>1. ASSUME NEW u \in Uploads, Enqueue(u) PROVE starts[u] = 0
    BY <2>1, PipelineAssumption DEF Enqueue, TokenInv, TypeOK
  <2> QED
    BY <2>1, TokenStep DEF PipelineNext, Poll
<1>2. TokenInv => OneHopAtATime
  <2> SUFFICES ASSUME TokenInv, NEW w \in Workers, NEW x \in Workers,
                      Executing(w), Executing(x), job[w].upload = job[x].upload
               PROVE  w = x
    BY DEF OneHopAtATime
  <2>1. /\ held[w] \in Slots /\ Live(held[w]) /\ lease[held[w]] = w
        /\ held[x] \in Slots /\ Live(held[x]) /\ lease[held[x]] = x
        /\ msgs[held[w]].upload = msgs[held[x]].upload
    BY Holder DEF TokenInv, Executing, Live
  <2> QED
    BY <2>1 DEF TokenInv, OneLive
<1> QED
  BY <1>1, <1>2, TokenInit, PTL DEF PipelineSpec

----------------------------------------------------------------------------
(* What the rows of an upload look like while its token is somewhere.      *)

\* Only calls that have no effect fail, and possibly the failed status is not
\* written.
Reported == Faults \subseteq {"error", "unrecorded"}

\* The upload's status s, and whether it has an analysis, when the hop h of its
\* run stands at p.
Stage(h, p, s, has) ==
    \/ /\ h = "mark_processing" /\ p \in {"start", "done", "error", "onFailed"}
       /\ ~ has /\ s = IF p = "done" THEN "processing" ELSE "pending"
    \/ /\ h = "ocr" /\ p \in {"start", "extract", "done", "error", "onFailed"}
       /\ ~ has /\ s = "processing"
    \/ /\ h = "analyze"
       /\ p \in {"start", "model", "replace", "done", "error", "onFailed"}
       /\ (has <=> p = "done") /\ s = "processing"
    \/ /\ h = "mark_completed" /\ p \in {"start", "done", "error"}
       /\ has /\ s = IF p = "done" THEN "completed" ELSE "processing"
    \/ /\ h = "analyze_compensate"
       /\ p \in {"start", "done", "error", "onFailed", "onCompensationFailed"}
       /\ (has <=> p \notin {"done", "onFailed"}) /\ s = "processing"

StageOf(m) ==
    Stage(msgs[m].hop, Place(m), status[msgs[m].upload], HasAnalysis(msgs[m].upload))

StageInv == \A m \in Slots : Live(m) => StageOf(m)

\* What is left when nothing is live any more, or nothing has begun.
EndInv(u) ==
    /\ starts[u] = 0 => ~ HasAnalysis(u) /\ reason[u] # "analyze: rollback failed"
    /\ status[u] = "completed" => HasAnalysis(u)
    /\ status[u] = "failed" /\ reason[u] # "analyze: rollback failed"
         => ~ HasAnalysis(u)
    /\ reason[u] = "analyze: rollback failed" => status[u] = "failed"

\* The rows of v that a client sees are as they were.
Same(v) ==
    /\ status'[v] = status[v]
    /\ reason'[v] = reason[v]
    /\ HasAnalysis(v)' = HasAnalysis(v)

\* A write of the status alone.
Turns(u, from, s, r) ==
    /\ status[u] \in from
    /\ status'[u] = s
    /\ reason'[u] = r
    /\ HasAnalysis(u)' = HasAnalysis(u)

\* What a hop does to the rows of its upload, one disjunct per action of
\* UploadLifecycle.
Advances(u) ==
    \/ Same(u)
    \/ Turns(u, {"pending"}, "processing", "")
    \/ /\ status[u] = "processing" /\ status'[u] = status[u]
       /\ reason'[u] = reason[u]
    \/ HasAnalysis(u) /\ Turns(u, {"processing"}, "completed", "")
    \/ \E h \in Steps : ~ HasAnalysis(u) /\ Turns(u, {"pending", "processing"}, "failed", h)
    \/ HasAnalysis(u) /\ Turns(u, {"processing"}, "failed", "analyze: rollback failed")

\* The effect of each statement on the rows of each upload.
LEMMA RowsSame ==
    ASSUME UNCHANGED <<status, reason, analyses>>
    PROVE  \A v \in Uploads : Same(v)
BY DEF Same, HasAnalysis

LEMMA StatusEffect ==
    ASSUME StoreTypeOK, NEW u \in Uploads, NEW s \in Status, NEW r \in Reason,
           SetUploadStatus(u, s, r)
    PROVE  /\ status'[u] = s /\ reason'[u] = r
           /\ HasAnalysis(u)' = HasAnalysis(u)
           /\ \A v \in Uploads \ {u} : Same(v)
<1>1. \A v : HasAnalysis(v)' = HasAnalysis(v)
  BY DEF SetUploadStatus, HasAnalysis
<1> QED
  BY <1>1 DEF SetUploadStatus, Same, StoreTypeOK

LEMMA ReplaceEffect ==
    ASSUME NEW u \in Uploads, NEW S, ReplaceAnalysis(u, S)
    PROVE  /\ HasAnalysis(u)' /\ UNCHANGED <<status, reason>>
           /\ \A v \in Uploads \ {u} : Same(v)
<1>1. analyses' = OtherAnalyses(u) \cup {[upload |-> u, statements |-> S]}
  BY DEF ReplaceAnalysis
<1>2. HasAnalysis(u)'
  <2>1. /\ [upload |-> u, statements |-> S] \in analyses'
        /\ [upload |-> u, statements |-> S].upload = u
    BY <1>1
  <2> QED
    BY <2>1, Zenon DEF HasAnalysis
<1>3. ASSUME NEW v \in Uploads \ {u} PROVE HasAnalysis(v)' = HasAnalysis(v)
  <2>1. \A a : a.upload = v => (a \in analyses' <=> a \in analyses)
    BY <1>1 DEF OtherAnalyses
  <2> QED
    BY <2>1 DEF HasAnalysis
<1> QED
  BY <1>2, <1>3 DEF ReplaceAnalysis, Same

LEMMA DeleteEffect ==
    ASSUME NEW u \in Uploads, DeleteAnalysisByUpload(u)
    PROVE  /\ ~ HasAnalysis(u)' /\ UNCHANGED <<status, reason>>
           /\ \A v \in Uploads \ {u} : Same(v)
<1>1. ~ HasAnalysis(u)' /\ \A v \in Uploads \ {u} : HasAnalysis(v)' = HasAnalysis(v)
  BY DEF DeleteAnalysisByUpload, OtherAnalyses, HasAnalysis
<1> QED
  BY <1>1 DEF DeleteAnalysisByUpload, Same

\* The rows of the uploads that are not at hand stay, and so does their stage.
LEMMA StageQuiet ==
    ASSUME TypeOK, StageInv, Quiet, \A v \in Uploads : Same(v)
    PROVE  StageInv'
<1> SUFFICES ASSUME NEW m \in Slots, Live(m)' PROVE StageOf(m)'
  BY DEF StageInv
<1>1. Live(m) /\ Kept(m) /\ StageOf(m)
  BY DEF Quiet, StageInv
<1>2. msgs[m].upload \in Uploads
  BY <1>1 DEF Live, Queued, TypeOK, Job
<1> QED
  BY <1>1, <1>2 DEF StageOf, Kept, Same

LEMMA StageMoved ==
    ASSUME TypeOK, StageInv, NEW u \in Uploads, NEW h, NEW p, TokenAt(u, h, p),
           p # "ack" => Stage(h, p, status'[u], HasAnalysis(u)'),
           \A v \in Uploads \ {u} : Same(v)
    PROVE  StageInv'
<1>1. PICK n \in Slots :
        /\ msgs'[n].upload = u /\ msgs'[n].hop = h /\ Place(n)' = p
        /\ \A m \in Slots \ {n} :
              Live(m)' => Live(m) /\ Kept(m) /\ msgs[m].upload # u
  BY DEF TokenAt
<1> SUFFICES ASSUME NEW m \in Slots, Live(m)' PROVE StageOf(m)'
  BY DEF StageInv
<1>2. CASE m = n
  BY <1>1, <1>2 DEF StageOf, Live
<1>3. CASE m # n
  <2>1. Live(m) /\ Kept(m) /\ msgs[m].upload # u /\ StageOf(m)
    BY <1>1, <1>3 DEF StageInv
  <2>2. msgs[m].upload \in Uploads
    BY <2>1 DEF Live, Queued, TypeOK, Job
  <2> QED
    BY <2>1, <2>2 DEF StageOf, Kept, Same
<1> QED
  BY <1>2, <1>3

\* The stage of a busy worker's hop.
LEMMA HolderStage ==
    ASSUME TypeOK, LeaseInv, StageInv, NEW w \in Workers, pc[w] \notin {"idle", "ack"}
    PROVE  Stage(job[w].hop, pc[w], status[job[w].upload], HasAnalysis(job[w].upload))
<1>1. /\ held[w] \in Slots /\ Live(held[w]) /\ msgs[held[w]] = job[w]
      /\ Place(held[w]) = pc[w]
  BY Holder DEF Live
<1> QED
  BY <1>1 DEF StageInv, StageOf

\* What a hop does to the rows keeps what a run leaves behind.
LEMMA EndKept ==
    ASSUME NEW u \in Uploads, EndInv(u),
           \/ starts'[u] = starts[u] /\ Same(u)
           \/ starts'[u] # 0 /\ Advances(u)
    PROVE  EndInv(u)'
<1>1. CASE starts'[u] = starts[u] /\ Same(u)
  BY <1>1 DEF EndInv, Same
<1>2. CASE starts'[u] # 0 /\ Advances(u)
  BY <1>2 DEF EndInv, Advances, Same, Turns, Steps
<1> QED
  BY <1>1, <1>2

\* The steps.
LEMMA StepEffect ==
    ASSUME Reported, TypeOK, LeaseInv, OneLive, StageInv,
           NEW w \in Workers, StepAction(w), NEW u \in Uploads, u = job[w].upload
    PROVE  /\ Advances(u)
           /\ Stage(job[w].hop, pc'[w], status'[u], HasAnalysis(u)')
           /\ \A v \in Uploads \ {u} : Same(v)
<1>0. StoreTypeOK /\ "lost_reply" \notin Faults /\ pc \in [Workers -> PCs]
  BY DEF TypeOK, Reported
<1>1. pc[w] \in {"start", "extract", "model", "replace"}
  BY StepFrame
<1>2. Stage(job[w].hop, pc[w], status[u], HasAnalysis(u))
  BY <1>1, HolderStage
<1>3. ASSUME UNCHANGED <<status, reason, analyses>>,
             Stage(job[w].hop, pc'[w], status[u], HasAnalysis(u))
      PROVE  /\ Advances(u)
             /\ Stage(job[w].hop, pc'[w], status'[u], HasAnalysis(u)')
             /\ \A v \in Uploads \ {u} : Same(v)
  <2>1. \A v \in Uploads : Same(v)
    BY <1>3, RowsSame
  <2> QED
    BY <1>3, <2>1 DEF Advances, Same
<1>4. ASSUME Goto(w, "error"), UNCHANGED <<status, reason, analyses>>
      PROVE  Stage(job[w].hop, pc'[w], status[u], HasAnalysis(u))
  BY <1>0, <1>1, <1>2, <1>4 DEF Stage, Goto
<1>5. CASE MarkProcessing(w)
  <2>1. job[w].hop = "mark_processing" /\ pc[w] = "start"
    BY <1>5 DEF MarkProcessing, At
  <2>2. CASE CallFails(w)
    BY <1>3, <1>4, <2>2 DEF CallFails, StepFails, storeVars
  <2>3. CASE ~ CallFails(w)
    <3>1. SetUploadStatus(u, "processing", "") /\ pc'[w] = "done"
      BY <1>0, <1>5, <2>3 DEF MarkProcessing, Committed, StepSucceeds, Goto
    <3>2. /\ status'[u] = "processing" /\ reason'[u] = ""
          /\ HasAnalysis(u)' = HasAnalysis(u) /\ \A v \in Uploads \ {u} : Same(v)
      BY <1>0, <3>1, StatusEffect DEF Status, Reason
    <3> QED
      BY <1>2, <2>1, <3>1, <3>2 DEF Stage, Advances, Turns
  <2> QED
    BY <2>2, <2>3
<1>6. CASE ListForOCR(w) \/ ExtractOne(w) \/ FinishOCR(w)
  <2>1. /\ job[w].hop = "ocr" /\ pc'[w] \in {"extract", "done", "error"}
        /\ UNCHANGED <<status, reason, analyses>>
    BY <1>0, <1>6 DEF ListForOCR, ExtractOne, FinishOCR, At, CallFails, Committed,
       StepFails, StepSucceeds, Goto, SetUploadFileOCR, storeVars
  <2>2. Stage(job[w].hop, pc'[w], status[u], HasAnalysis(u))
    BY <1>2, <2>1 DEF Stage
  <2> QED
    BY <1>3, <2>1, <2>2
<1>7. CASE ListForAnalysis(w) \/ AskModel(w)
  <2>1. /\ job[w].hop = "analyze" /\ pc'[w] \in {"model", "replace", "error"}
        /\ UNCHANGED <<status, reason, analyses>> /\ pc[w] # "done"
    BY <1>0, <1>7 DEF ListForAnalysis, AskModel, At, CallFails, StepFails, Goto,
       storeVars
  <2>2. Stage(job[w].hop, pc'[w], status[u], HasAnalysis(u))
    BY <1>2, <2>1 DEF Stage
  <2> QED
    BY <1>3, <2>1, <2>2
<1>8. CASE CommitAnalysis(w)
  <2>1. job[w].hop = "analyze" /\ pc[w] = "replace"
    BY <1>8 DEF CommitAnalysis, At
  <2>2. CASE CallFails(w)
    BY <1>3, <1>4, <2>2 DEF CallFails, StepFails, storeVars
  <2>3. CASE ~ CallFails(w)
    <3>1. ReplaceAnalysis(u, batch[w]) /\ pc'[w] = "done"
      BY <1>0, <1>8, <2>3 DEF CommitAnalysis, CommitOutcomes
    <3>2. /\ HasAnalysis(u)' /\ UNCHANGED <<status, reason>>
          /\ \A v \in Uploads \ {u} : Same(v)
      BY <1>0, <3>1, ReplaceEffect
    <3> QED
      BY <1>2, <2>1, <3>1, <3>2 DEF Stage, Advances
  <2> QED
    BY <2>2, <2>3
<1>9. CASE MarkCompleted(w)
  <2>1. job[w].hop = "mark_completed" /\ pc[w] = "start"
    BY <1>9 DEF MarkCompleted, At
  <2>2. CASE CallFails(w)
    BY <1>3, <1>4, <2>2 DEF CallFails, StepFails, storeVars
  <2>3. CASE ~ CallFails(w)
    <3>1. SetUploadStatus(u, "completed", "") /\ pc'[w] = "done"
      BY <1>0, <1>9, <2>3 DEF MarkCompleted, Committed, StepSucceeds, Goto
    <3>2. /\ status'[u] = "completed" /\ reason'[u] = ""
          /\ HasAnalysis(u)' = HasAnalysis(u) /\ \A v \in Uploads \ {u} : Same(v)
      BY <1>0, <3>1, StatusEffect DEF Status, Reason
    <3> QED
      BY <1>2, <2>1, <3>1, <3>2 DEF Stage, Advances, Turns
  <2> QED
    BY <2>2, <2>3
<1>10. CASE DeleteAnalysis(w)
  <2>1. job[w].hop = "analyze_compensate" /\ pc[w] = "start"
    BY <1>10 DEF DeleteAnalysis, At
  <2>2. CASE CallFails(w)
    BY <1>3, <1>4, <2>2 DEF CallFails, StepFails, storeVars
  <2>3. CASE ~ CallFails(w)
    <3>1. DeleteAnalysisByUpload(u) /\ pc'[w] = "done"
      BY <1>0, <1>10, <2>3 DEF DeleteAnalysis, Committed, StepSucceeds, Goto
    <3>2. /\ ~ HasAnalysis(u)' /\ UNCHANGED <<status, reason>>
          /\ \A v \in Uploads \ {u} : Same(v)
      BY <1>0, <3>1, DeleteEffect
    <3> QED
      BY <1>2, <2>1, <3>1, <3>2 DEF Stage, Advances
  <2> QED
    BY <2>2, <2>3
<1> QED
  BY <1>5, <1>6, <1>7, <1>8, <1>9, <1>10 DEF StepAction

\* The token of u is where its rows say, or nowhere any more, and the rows went
\* on as UploadLifecycle allows.
Progress(u) ==
    /\ \E h, p : /\ TokenAt(u, h, p)
                 /\ p # "ack" => Stage(h, p, status'[u], HasAnalysis(u)')
    /\ Advances(u)
    /\ \A v \in Uploads \ {u} : Same(v)

\* What the saga makes of a hop's outcome.
LEMMA SagaEffect ==
    ASSUME Reported, TypeOK, LeaseInv, OneLive, StageInv,
           NEW w \in Workers, SagaAction(w), pc[w] # "ack",
           NEW u \in Uploads, u = job[w].upload
    PROVE  Progress(u)
<1>0. StoreTypeOK /\ job[w].hop \in Hops /\ pc[w] \notin {"idle", "ack"}
  BY SagaFrame, Holder DEF TypeOK
<1>1. Stage(job[w].hop, pc[w], status[u], HasAnalysis(u))
  BY <1>0, HolderStage
<1>2. ASSUME UNCHANGED storeVars, NEW h, NEW p, TokenAt(u, h, p),
             p # "ack" => Stage(h, p, status[u], HasAnalysis(u))
      PROVE  Progress(u)
  <2>1. \A v \in Uploads : Same(v)
    BY <1>2, RowsSame DEF storeVars
  <2> QED
    BY <1>2, <2>1 DEF Progress, Advances, Same
<1>3. ASSUME Goto(w, "ack"), UNCHANGED taskqVars, Advances(u),
             \A v \in Uploads \ {u} : Same(v)
      PROVE  Progress(u)
  <2>1. TokenAt(u, job[w].hop, "ack")
    BY <1>0, <1>3, TokenMoved
  <2> QED
    BY <1>3, <2>1 DEF Progress
<1>4. CASE SendNext(w)
  <2>1. /\ pc[w] = "done" /\ job[w].hop \in {"mark_processing", "ocr", "analyze"}
        /\ NextStep[job[w].hop] \in Hops
    BY <1>4 DEF SendNext, NextStep, Hops, Steps
  <2>2. TokenAt(u, NextStep[job[w].hop], "start")
    BY <1>0, <1>4, <2>1, TokenPassed DEF SendNext
  <2>3. Stage(NextStep[job[w].hop], "start", status[u], HasAnalysis(u))
    BY <1>1, <2>1 DEF Stage, NextStep
  <2> QED
    BY <1>2, <1>4, <2>2, <2>3 DEF SendNext
<1>5. CASE RunCompleted(w)
  <2>1. TokenAt(u, job[w].hop, "ack")
    BY <1>0, <1>5, TokenMoved DEF RunCompleted
  <2> QED
    BY <1>2, <1>5, <2>1 DEF RunCompleted
<1>6. CASE RunUnwound(w)
  <2>1. TokenAt(u, job[w].hop, "onFailed")
    BY <1>0, <1>6, TokenMoved DEF RunUnwound
  <2>2. Stage(job[w].hop, "onFailed", status[u], HasAnalysis(u))
    BY <1>1, <1>6 DEF Stage, RunUnwound, At
  <2> QED
    BY <1>2, <1>6, <2>1, <2>2 DEF RunUnwound
<1>7. CASE Retry(w)
  <2>1. TokenAt(u, job[w].hop, "start") /\ pc[w] = "error"
    BY <1>7, TokenReturned DEF Retry
  <2>2. Stage(job[w].hop, "start", status[u], HasAnalysis(u))
    BY <1>1, <2>1 DEF Stage
  <2> QED
    BY <1>2, <1>7, <2>1, <2>2 DEF Retry
<1>8. CASE Pivot(w)
  <2>1. pc[w] = "error" /\ UNCHANGED storeVars
    BY <1>8 DEF Pivot, BudgetSpent
  <2>2. CASE job[w].hop = "mark_completed"
    <3>1. TokenAt(u, "analyze_compensate", "start")
      BY <1>0, <1>8, <2>2, TokenPassed DEF Pivot, Hops
    <3>2. Stage("analyze_compensate", "start", status[u], HasAnalysis(u))
      BY <1>1, <2>1, <2>2 DEF Stage
    <3> QED
      BY <1>2, <2>1, <3>1, <3>2
  <2>3. CASE job[w].hop = "analyze_compensate"
    <3>1. TokenAt(u, job[w].hop, "onCompensationFailed")
      BY <1>0, <1>8, <2>3, TokenMoved DEF Pivot
    <3>2. Stage(job[w].hop, "onCompensationFailed", status[u], HasAnalysis(u))
      BY <1>1, <2>1, <2>3 DEF Stage
    <3> QED
      BY <1>2, <2>1, <3>1, <3>2
  <2>4. CASE job[w].hop \notin {"mark_completed", "analyze_compensate"}
    <3>1. TokenAt(u, job[w].hop, "onFailed")
      BY <1>0, <1>8, <2>4, TokenMoved DEF Pivot
    <3>2. Stage(job[w].hop, "onFailed", status[u], HasAnalysis(u))
      BY <1>1, <2>1, <2>4 DEF Stage
    <3> QED
      BY <1>2, <2>1, <3>1, <3>2
  <2> QED
    BY <2>2, <2>3, <2>4
<1>9. CASE OnFailed(w) \/ OnCompensationFailed(w)
  <2>1. Goto(w, "ack") /\ UNCHANGED taskqVars
    BY <1>9 DEF OnFailed, OnCompensationFailed, MarkFailed
  <2>2. CASE UNCHANGED storeVars
    <3>1. \A v \in Uploads : Same(v)
      BY <2>2, RowsSame DEF storeVars
    <3> QED
      BY <1>3, <2>1, <3>1 DEF Advances
  <2>3. CASE OnFailed(w) /\ SetUploadStatus(u, "failed", FailedStep(job[w].hop))
    <3>1. pc[w] = "onFailed" /\ FailedStep(job[w].hop) \in Steps
      BY <1>0, <2>3 DEF OnFailed, FailedStep, Hops, Steps
    <3>2. Steps \subseteq Reason /\ "failed" \in Status
      BY DEF Steps, Reason, Status
    <3>3. /\ status'[u] = "failed" /\ reason'[u] = FailedStep(job[w].hop)
          /\ HasAnalysis(u)' = HasAnalysis(u) /\ \A v \in Uploads \ {u} : Same(v)
      BY <1>0, <2>3, <3>1, <3>2, StatusEffect
    <3>4. ~ HasAnalysis(u) /\ status[u] \in {"pending", "processing"}
      BY <1>1, <3>1 DEF Stage
    <3> QED
      BY <1>3, <2>1, <3>1, <3>3, <3>4 DEF Advances, Turns
  <2>4. CASE OnCompensationFailed(w)
             /\ SetUploadStatus(u, "failed", "analyze: rollback failed")
    <3>1. pc[w] = "onCompensationFailed"
      BY <2>4 DEF OnCompensationFailed
    <3>2. /\ status'[u] = "failed" /\ reason'[u] = "analyze: rollback failed"
          /\ HasAnalysis(u)' = HasAnalysis(u) /\ \A v \in Uploads \ {u} : Same(v)
      BY <1>0, <2>4, StatusEffect DEF Status, Reason
    <3>3. HasAnalysis(u) /\ status[u] = "processing"
      BY <1>1, <3>1 DEF Stage
    <3> QED
      BY <1>3, <2>1, <3>2, <3>3 DEF Advances, Turns
  <2> QED
    BY <1>9, <2>2, <2>3, <2>4 DEF OnFailed, OnCompensationFailed, MarkFailed
<1> QED
  BY <1>0, <1>4, <1>5, <1>6, <1>7, <1>8, <1>9 DEF SagaAction, Ack

----------------------------------------------------------------------------
(* The inductive invariant, and the refinement.                            *)

\* What the pipeline, alone or in a larger system, keeps of every upload.
LifeInv == TokenInv /\ StageInv /\ \A u \in Uploads : EndInv(u)

\* What the pool does: nothing a client sees, or one run advances.
LEMMA PoolEffect ==
    ASSUME Reported, LifeInv, PipelineStep
    PROVE  /\ starts' = starts
           /\ \/ Quiet /\ \A v \in Uploads : Same(v)
              \/ \E u \in Uploads : starts[u] > 0 /\ Progress(u)
<1>0. TypeOK /\ LeaseInv /\ Originated /\ OneLive /\ StageInv
  BY DEF LifeInv, TokenInv
<1>1. PICK w \in Workers : Work(w)
  BY DEF PipelineStep, Crash, Stall, Reported
<1>2. CASE Dequeue(w) \/ Ack(w)
  <2>1. UNCHANGED storeVars /\ starts' = starts
    BY <1>2 DEF Dequeue, Ack
  <2>2. \A v \in Uploads : Same(v)
    BY <2>1, RowsSame DEF storeVars
  <2> QED
    BY <1>0, <1>2, <2>1, <2>2, DeliveryQuiet
<1>3. CASE StepAction(w) \/ (SagaAction(w) /\ ~ Ack(w))
  <2>1. pc[w] \notin {"idle", "ack"} /\ starts' = starts
    BY <1>0, <1>3, StepFrame, SagaFrame
       DEF StepKeeps, SagaAction, SendNext, RunCompleted, RunUnwound, Retry, Pivot,
           OnFailed, OnCompensationFailed, At, BudgetSpent
  <2>2. PICK u \in Uploads : u = job[w].upload
    BY <1>0, <2>1, Holder
  <2>3. starts[u] > 0
    BY <1>0, <2>1, <2>2, Holder DEF Originated
  <2>4. Progress(u)
    <3>1. CASE StepAction(w)
      <4>1. TokenAt(u, job[w].hop, pc'[w])
        BY <1>0, <2>2, <3>1, TokenStepped
      <4> QED
        BY <1>0, <2>2, <3>1, <4>1, StepEffect DEF Progress
    <3>2. CASE SagaAction(w)
      BY <1>0, <2>1, <2>2, <3>2, SagaEffect
    <3> QED
      BY <1>3, <3>1, <3>2
  <2> QED
    BY <2>1, <2>3, <2>4
<1> QED
  BY <1>1, <1>2, <1>3 DEF Work, SagaAction

\* What saga.Start does to an upload that is recorded and has no run.
LEMMA EnqueueEffect ==
    ASSUME LifeInv, NEW u \in Uploads, Enqueue(u), starts[u] = 0, status[u] = "pending"
    PROVE  /\ starts' = [starts EXCEPT ![u] = 1]
           /\ \A v \in Uploads : Same(v)
           /\ TokenAt(u, "mark_processing", "start")
           /\ Stage("mark_processing", "start", status'[u], HasAnalysis(u)')
<1>0. TypeOK /\ LeaseInv /\ Originated /\ EndInv(u)
  BY DEF LifeInv, TokenInv
<1>1. UNCHANGED storeVars /\ starts' = [starts EXCEPT ![u] = 1]
  BY DEF Enqueue
<1>2. \A v \in Uploads : Same(v)
  BY <1>1, RowsSame DEF storeVars
<1>3. Stage("mark_processing", "start", status'[u], HasAnalysis(u)')
  BY <1>0, <1>2 DEF EndInv, Stage, Same
<1> QED
  BY <1>0, <1>1, <1>2, <1>3, TokenStarted

LEMMA LifeStep ==
    ASSUME Reported, LifeInv,
           \/ PipelineStep
           \/ \E u \in Uploads : Enqueue(u) /\ starts[u] = 0 /\ status[u] = "pending"
           \/ UNCHANGED pipelineVars
    PROVE  LifeInv'
<1>0. TypeOK /\ TokenInv /\ StageInv /\ \A u \in Uploads : EndInv(u)
  BY DEF LifeInv, TokenInv
<1>1. TokenInv'
  BY <1>0, TokenStep DEF Reported, Calm
<1>2. ASSUME PipelineStep PROVE StageInv' /\ \A u \in Uploads : EndInv(u)'
  <2>1. starts' = starts
    BY <1>2, PoolEffect
  <2>2. CASE Quiet /\ \A v \in Uploads : Same(v)
    BY <1>0, <2>1, <2>2, StageQuiet, EndKept
  <2>3. ASSUME NEW u \in Uploads, starts[u] > 0, Progress(u)
        PROVE  StageInv' /\ \A v \in Uploads : EndInv(v)'
    <3>1. StageInv'
      BY <1>0, <2>3, StageMoved DEF Progress
    <3>2. starts'[u] # 0
      BY <2>1, <2>3
    <3> QED
      BY <1>0, <2>1, <2>3, <3>1, <3>2, EndKept DEF Progress
  <2> QED
    BY <1>2, <2>2, <2>3, PoolEffect
<1>3. ASSUME NEW u \in Uploads, Enqueue(u), starts[u] = 0, status[u] = "pending"
      PROVE  StageInv' /\ \A v \in Uploads : EndInv(v)'
  <2>1. /\ starts' = [starts EXCEPT ![u] = 1] /\ \A v \in Uploads : Same(v)
        /\ TokenAt(u, "mark_processing", "start")
        /\ Stage("mark_processing", "start", status'[u], HasAnalysis(u)')
    BY <1>3, EnqueueEffect
  <2>2. StageInv'
    BY <1>0, <2>1, StageMoved
  <2>3. starts'[u] # 0 /\ \A v \in Uploads \ {u} : starts'[v] = starts[v]
    BY <1>0, <2>1 DEF TypeOK
  <2> QED
    BY <1>0, <2>1, <2>2, <2>3, EndKept DEF Advances
<1>4. ASSUME UNCHANGED pipelineVars
      PROVE  StageInv' /\ \A v \in Uploads : EndInv(v)'
  <2>1. \A v \in Uploads : Same(v)
    BY <1>4, RowsSame DEF pipelineVars, storeVars
  <2>2. Quiet /\ starts' = starts
    BY <1>4 DEF pipelineVars, taskqVars, workerVars, Quiet, Kept, Live, Queued, Place
  <2> QED
    BY <1>0, <2>1, <2>2, StageQuiet, EndKept
<1> QED
  BY <1>1, <1>2, <1>3, <1>4 DEF LifeInv

\* The phase of an upload with a run is its status, or says that the rollback
\* failed.
LEMMA PhaseIs ==
    ASSUME TypeOK, NEW u \in Uploads
    PROVE  /\ starts[u] = 0 => PhaseOf(u) = "new"
           /\ starts[u] > 0 /\ reason[u] = "analyze: rollback failed"
                => PhaseOf(u) = "rollback failed"
           /\ starts[u] > 0 /\ reason[u] # "analyze: rollback failed"
                => PhaseOf(u) = status[u]
<1>1. starts[u] = 0 => ~ starts[u] > 0
  OBVIOUS
<1>2. starts[u] > 0 => starts[u] # 0
  OBVIOUS
<1> QED
  BY <1>1, <1>2, Zenon DEF PhaseOf

LEMMA PhaseBecomes ==
    ASSUME TypeOK', NEW u \in Uploads, starts'[u] > 0
    PROVE  /\ reason'[u] = "analyze: rollback failed" => PhaseOf(u)' = "rollback failed"
           /\ reason'[u] # "analyze: rollback failed" => PhaseOf(u)' = status'[u]
<1>1. starts'[u] # 0
  OBVIOUS
<1> QED
  BY <1>1, Zenon DEF PhaseOf

\* An upload whose rows and runs are the same is in the same phase.
LEMMA PhaseSame ==
    ASSUME NEW v \in Uploads, starts'[v] = starts[v], Same(v)
    PROVE  PhaseOf(v)' = PhaseOf(v) /\ HasAnalysis(v)' = HasAnalysis(v)
BY DEF PhaseOf, Same

\* A run that advances takes one step of the abstract life of its upload.
LEMMA AdvanceRefines ==
    ASSUME LifeInv, LifeInv', NEW u \in Uploads, starts[u] > 0, starts' = starts,
           Advances(u), \A v \in Uploads \ {u} : Same(v)
    PROVE  [Lifecycle!LifecycleNext]_Lifecycle!lifecycleVars
<1> DEFINE phase == [v \in Uploads |-> PhaseOf(v)]
           result == [v \in Uploads |-> HasAnalysis(v)]
<1>0. /\ TypeOK /\ EndInv(u) /\ TypeOK' /\ EndInv(u)' /\ starts'[u] > 0
      /\ \A v \in Uploads \ {u} :
            PhaseOf(v)' = PhaseOf(v) /\ HasAnalysis(v)' = HasAnalysis(v)
  BY PhaseSame DEF LifeInv, TokenInv
<1>1. /\ phase' = [phase EXCEPT ![u] = PhaseOf(u)']
      /\ result' = [result EXCEPT ![u] = HasAnalysis(u)']
      /\ phase[u] = PhaseOf(u) /\ result[u] = HasAnalysis(u)
  BY <1>0
<1>2. /\ reason[u] = "analyze: rollback failed" => PhaseOf(u) = "rollback failed"
      /\ reason[u] # "analyze: rollback failed" => PhaseOf(u) = status[u]
      /\ reason'[u] = "analyze: rollback failed" => PhaseOf(u)' = "rollback failed"
      /\ reason'[u] # "analyze: rollback failed" => PhaseOf(u)' = status'[u]
      /\ status[u] \in {"pending", "processing"} =>
            reason[u] # "analyze: rollback failed"
  <2>1. /\ status[u] \in {"pending", "processing"} =>
              reason[u] # "analyze: rollback failed"
    BY <1>0 DEF EndInv
  <2>2. /\ reason'[u] = "analyze: rollback failed" => PhaseOf(u)' = "rollback failed"
        /\ reason'[u] # "analyze: rollback failed" => PhaseOf(u)' = status'[u]
    BY <1>0, PhaseBecomes
  <2> QED
    BY <1>0, <2>1, <2>2, PhaseIs
<1>3. HasAnalysis(u)' = HasAnalysis(u) => result' = result
  BY <1>1
<1>4. PhaseOf(u)' = PhaseOf(u) => phase' = phase
  BY <1>1
<1>5. CASE Same(u)
  <2>1. phase' = phase /\ result' = result
    BY <1>3, <1>4, <1>5, PhaseSame
  <2> QED
    BY <2>1 DEF Lifecycle!lifecycleVars
<1>6. CASE Turns(u, {"pending"}, "processing", "")
  <2>1. PhaseOf(u) = "pending" /\ PhaseOf(u)' = "processing" /\ result' = result
    BY <1>2, <1>3, <1>6 DEF Turns
  <2>2. Lifecycle!Begin(u)
    BY <1>1, <2>1 DEF Lifecycle!Begin, Lifecycle!Become
  <2> QED
    BY <2>2 DEF Lifecycle!LifecycleNext
<1>7. CASE status[u] = "processing" /\ status'[u] = status[u] /\ reason'[u] = reason[u]
  <2>1. PhaseOf(u) = "processing" /\ phase' = phase
    BY <1>2, <1>4, <1>7
  <2>2. HasAnalysis(u)' \in BOOLEAN
    BY DEF HasAnalysis
  <2>3. PICK stored \in BOOLEAN : stored = HasAnalysis(u)'
    BY <2>2
  <2>4. Lifecycle!Keep(u, stored)
    BY <1>1, <2>1, <2>3 DEF Lifecycle!Keep
  <2> QED
    BY <2>4 DEF Lifecycle!LifecycleNext
<1>8. CASE HasAnalysis(u) /\ Turns(u, {"processing"}, "completed", "")
  <2>1. PhaseOf(u) = "processing" /\ PhaseOf(u)' = "completed" /\ result' = result
    BY <1>2, <1>3, <1>8 DEF Turns
  <2>2. Lifecycle!Complete(u)
    BY <1>1, <1>8, <2>1 DEF Lifecycle!Complete, Lifecycle!Become
  <2> QED
    BY <2>2 DEF Lifecycle!LifecycleNext, Lifecycle!Finish
<1>9. ASSUME NEW h \in Steps, ~ HasAnalysis(u),
             Turns(u, {"pending", "processing"}, "failed", h)
      PROVE  Lifecycle!LifecycleNext
  <2>1. h # "analyze: rollback failed"
    BY DEF Steps
  <2>2. /\ PhaseOf(u) \in {"pending", "processing"} /\ PhaseOf(u)' = "failed"
        /\ result' = result
    BY <1>2, <1>3, <1>9, <2>1 DEF Turns
  <2>3. Lifecycle!Fail(u)
    BY <1>1, <1>9, <2>2 DEF Lifecycle!Fail, Lifecycle!Become
  <2> QED
    BY <2>3 DEF Lifecycle!LifecycleNext, Lifecycle!Finish
<1>10. CASE HasAnalysis(u) /\ Turns(u, {"processing"}, "failed", "analyze: rollback failed")
  <2>1. /\ PhaseOf(u) = "processing" /\ PhaseOf(u)' = "rollback failed"
        /\ result' = result
    BY <1>2, <1>3, <1>10 DEF Turns
  <2>2. Lifecycle!Abandon(u)
    BY <1>1, <1>10, <2>1 DEF Lifecycle!Abandon, Lifecycle!Become
  <2> QED
    BY <2>2 DEF Lifecycle!LifecycleNext, Lifecycle!Finish
<1> QED
  BY <1>5, <1>6, <1>7, <1>8, <1>9, <1>10 DEF Advances

\* An enqueue submits the upload.
LEMMA EnqueueRefines ==
    ASSUME LifeInv, NEW u \in Uploads, Enqueue(u), starts[u] = 0, status[u] = "pending"
    PROVE  Lifecycle!LifecycleNext
<1> DEFINE phase == [v \in Uploads |-> PhaseOf(v)]
           result == [v \in Uploads |-> HasAnalysis(v)]
<1>1. /\ starts' = [starts EXCEPT ![u] = 1] /\ \A v \in Uploads : Same(v)
      /\ TypeOK /\ EndInv(u)
  BY EnqueueEffect DEF LifeInv, TokenInv
<1>2. \A v \in Uploads \ {u} : PhaseOf(v)' = PhaseOf(v)
  BY <1>1, PhaseSame DEF TypeOK
<1>3. PhaseOf(u) = "new" /\ PhaseOf(u)' = "pending"
  <2>1. TypeOK'
    BY <1>1, TypeStep DEF PipelineNext
  <2>2. starts'[u] > 0
    BY <1>1 DEF TypeOK
  <2>3. status'[u] = "pending" /\ reason'[u] # "analyze: rollback failed"
    BY <1>1 DEF EndInv, Same
  <2> QED
    BY <1>1, <2>1, <2>2, <2>3, PhaseIs, PhaseBecomes
<1>4. phase' = [phase EXCEPT ![u] = "pending"] /\ phase[u] = "new" /\ result' = result
  BY <1>1, <1>2, <1>3 DEF Same
<1>5. Lifecycle!Submit(u)
  BY <1>4 DEF Lifecycle!Submit, Lifecycle!Become
<1> QED
  BY <1>5 DEF Lifecycle!LifecycleNext

\* Every step maps to a step of UploadLifecycle or to a stutter.
LEMMA LifeRefines ==
    ASSUME Reported, LifeInv,
           \/ PipelineStep
           \/ \E u \in Uploads : Enqueue(u) /\ starts[u] = 0 /\ status[u] = "pending"
           \/ UNCHANGED pipelineVars
    PROVE  [Lifecycle!LifecycleNext]_Lifecycle!lifecycleVars
<1>1. LifeInv'
  BY LifeStep
<1>2. ASSUME starts' = starts, \A v \in Uploads : Same(v)
      PROVE  UNCHANGED Lifecycle!lifecycleVars
  BY <1>2, PhaseSame DEF Lifecycle!lifecycleVars
<1>3. CASE PipelineStep
  BY <1>1, <1>2, <1>3, PoolEffect, AdvanceRefines DEF Progress
<1>4. CASE UNCHANGED pipelineVars
  BY <1>2, <1>4, RowsSame DEF pipelineVars, storeVars
<1> QED
  BY <1>3, <1>4, EnqueueRefines

----------------------------------------------------------------------------
(* The pipeline by itself.                                                 *)

\* Uploads without a run are as the API left them.
RunInv == LifeInv /\ \A u \in Uploads : starts[u] = 0 => status[u] = "pending"

LEMMA RunInit == PipelineInit => RunInv
<1> SUFFICES ASSUME PipelineInit PROVE RunInv
  OBVIOUS
<1>1. /\ \A m \in Slots : ~ Queued(m)
      /\ \A u \in Uploads : status[u] = "pending" /\ reason[u] = "" /\ ~ HasAnalysis(u)
  BY DEF PipelineInit, QueueEmpty, Queued, HasAnalysis
<1> QED
  BY <1>1, TokenInit DEF RunInv, LifeInv, StageInv, Live, EndInv

\* One run per upload: every enqueue finds the upload pending and without a run.
LEMMA RunSteps ==
    ASSUME MaxRuns <= 1, RunInv, [PipelineNext]_pipelineVars
    PROVE  \/ PipelineStep
           \/ \E u \in Uploads : Enqueue(u) /\ starts[u] = 0 /\ status[u] = "pending"
           \/ UNCHANGED pipelineVars
<1>1. ASSUME NEW u \in Uploads, Enqueue(u) PROVE starts[u] = 0
  BY <1>1, PipelineAssumption DEF Enqueue, RunInv, LifeInv, TokenInv, TypeOK
<1> QED
  BY <1>1 DEF PipelineNext, Poll, RunInv

LEMMA RunStep ==
    ASSUME Reported, MaxRuns <= 1, RunInv, [PipelineNext]_pipelineVars
    PROVE  RunInv'
<1>1. LifeInv /\ LifeInv'
  BY RunSteps, LifeStep DEF RunInv
<1>2. ASSUME NEW v \in Uploads, starts'[v] = 0 PROVE status'[v] = "pending"
  <2>1. CASE PipelineStep
    BY <1>1, <1>2, <2>1, PoolEffect DEF RunInv, Same, Progress
  <2>2. CASE \E u \in Uploads : Enqueue(u) /\ starts[u] = 0 /\ status[u] = "pending"
    <3>1. starts[v] = 0 \/ starts'[v] = starts[v] + 1
      BY <1>1, <1>2, <2>2 DEF Enqueue, LifeInv, TokenInv, TypeOK
    <3>2. starts[v] = 0 /\ status' = status
      BY <1>1, <1>2, <2>2, <3>1 DEF Enqueue, storeVars, LifeInv, TokenInv, TypeOK
    <3> QED
      BY <3>2 DEF RunInv
  <2>3. CASE UNCHANGED pipelineVars
    BY <1>2, <2>3 DEF RunInv, pipelineVars, storeVars
  <2> QED
    BY <2>1, <2>2, <2>3, RunSteps
<1> QED
  BY <1>1, <1>2 DEF RunInv

THEOREM RunCorrect ==
    ASSUME Reported, MaxRuns <= 1
    PROVE  PipelineSpec => []RunInv
<1>1. RunInv /\ [PipelineNext]_pipelineVars => RunInv'
  BY RunStep
<1> QED
  BY <1>1, RunInit, PTL DEF PipelineSpec

\* "A failed run leaves nothing half-written" (steps.go, deleteAnalysis): unless
\* its reason says that the rollback failed, a failed upload has no analysis, as
\* long as no worker is lost, no write takes effect that its caller is told has
\* failed, and the upload is enqueued once.
THEOREM FailedCorrect ==
    ASSUME Reported, MaxRuns <= 1
    PROVE  PipelineSpec => []FailedLeavesNothing
<1>1. RunInv => FailedLeavesNothing
  BY DEF RunInv, LifeInv, EndInv, FailedLeavesNothing
<1> QED
  BY <1>1, RunCorrect, PTL

\* "A completed upload should always have an analysis" (visualization.go): so it
\* has under the same conditions; the run completed_without_analysis shows the
\* condition that no worker is killed to be needed.
THEOREM CompletedCorrect ==
    ASSUME Reported, MaxRuns <= 1
    PROVE  PipelineSpec => []CompletedHasAnalysis
<1>1. RunInv => CompletedHasAnalysis
  BY DEF RunInv, LifeInv, EndInv, CompletedHasAnalysis
<1> QED
  BY <1>1, RunCorrect, PTL

\* Under the same conditions the pipeline implements the abstract life of an
\* upload, step by step: whatever the queue, the workers, the retries and the
\* compensation do between two of them, every step is one a client may see, or
\* none.  That what is begun is finished is not part of it.
THEOREM LifecycleRefined ==
    ASSUME Reported, MaxRuns <= 1
    PROVE  PipelineSpec => Lifecycle!LifecycleSafety
<1>1. PipelineInit => Lifecycle!LifecycleInit
  <2> SUFFICES ASSUME PipelineInit PROVE Lifecycle!LifecycleInit
    OBVIOUS
  <2>1. \A u \in Uploads : PhaseOf(u) = "new" /\ HasAnalysis(u) = FALSE
    BY RunInit, PhaseIs DEF PipelineInit, RunInv, LifeInv, TokenInv, HasAnalysis
  <2> QED
    BY <2>1 DEF Lifecycle!LifecycleInit
<1>2. RunInv /\ [PipelineNext]_pipelineVars
        => [Lifecycle!LifecycleNext]_Lifecycle!lifecycleVars
  BY RunSteps, LifeRefines DEF RunInv
<1> QED
  BY <1>1, <1>2, RunCorrect, PTL DEF PipelineSpec, Lifecycle!LifecycleSafety
=============================================================================
