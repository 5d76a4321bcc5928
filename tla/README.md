# Verification of bankstmt-analyzer

TLA+ models of the service that takes bank statement PDFs, sends them through
OCR and a language model, and serves the analysis; TLC runs of these models on
small instances; and theorems about them checked by TLAPS. Paths are relative
to the repository.

## 1. The system

| part | code | state it keeps | operations |
| --- | --- | --- | --- |
| upload API | `internal/http/uploads.go` | none between requests | `create`, `status` |
| visualization API | `internal/http/visualization.go`, `window.go` | none | `get` (month window, seven queries) |
| pipeline | `internal/pipeline/pipeline.go`, `steps.go` | the saga's message per hop | steps `mark_processing`, `ocr`, `analyze`, `mark_completed`; compensation of `analyze`; hooks `onComplete`, `onFailed`, `onCompensationFailed` |
| conversion | `internal/pipeline/convert.go`, `scrub.go` | none | `buildAnalysis`, `clean` |
| store | `internal/db` | `uploads`, `upload_files`, `analyses`, `transactions` | generated statements, three transactions |
| broker | taskQ (external), `db/migrations/00003_taskq_broker.sql` | `taskq_messages` | enqueue, dequeue under a lease, ack, nack |
| blob store | `internal/storage`: `local.go`, `s3.go` behind one interface | PDFs by key, temporary files | `Put`, `Get`, `Delete`, key validation |
| Azure clients | `internal/ocr`, `internal/llm` | none | one HTTP call each |
| process | `cmd/api`, `internal/config`, `internal/migrate`, `internal/db/pool.go` | the pool, one context, an errgroup; the schema's version and the advisory lock | flags, configuration, migrations, start of the roles, SIGTERM, drain, exit |
| the rest | router, middleware, `internal/logging`, Helm chart | none | |

**How they interact.** `create` streams each PDF into the blob store, records
the upload and its files in one transaction, and asks the pipeline to enqueue a
run: three systems, no transaction across them. A run is a chain of hops
through the broker, one message per step; any worker of any replica may take
the next one. A worker takes a message under a lease, runs the step's calls,
has the saga enqueue the next hop, and acknowledges its own message. A failing
step is put back until its budget is spent; then the run pivots: the completed
steps before the failing one are compensated (only `analyze` has a
compensation, so only a failure of `mark_completed` has something to unwind)
and a hook writes the failed status. The `status` endpoint reads what the
pipeline writes, in two queries.

A process runs the API, the worker, both, or only the migrations. Its `run()`
loads the configuration, opens the pool, migrates, opens the blob store and
starts an errgroup of three: the listener, the drain that waits for a SIGTERM
and then shuts the listener down under a deadline, and the worker pool. One
context cancels all of them, and every request in flight with them. Processes
share the database and the blob store and nothing else.

**What is hard.** Delivery is at least once: a worker that dies, or whose lease
runs out, has its hop run again, beside itself in the second case. Every
write of `uploads.status` is unconditional. Enqueue and acknowledge are separate
calls, so a death in between doubles the chain of hops. A call can take effect
and still report an error. Everything `create` does, its clean-up included,
runs under a context that a disconnecting client or a SIGTERM cancels. A SIGTERM
cancels the context of the very requests the drain then waits for, and no read
of a request's body has a deadline. Replicas migrate one database at once. A
blob store's call is several system calls or requests, and each can be the last.

**What makes each part correct.**

- pipeline: no step works on what an earlier one has not finished; an analysis
  is whole and unique; a completed upload has one, a failed upload none; a run
  never stops in `pending` or `processing`; a terminal status is final.
- upload API: a refused request leaves neither blobs nor rows; rows have their
  blobs; a 202 is kept; an upload that could not be enqueued is not left
  pending; the status endpoint's terminal answers are final.
- visualization API: the charts of one response agree with each other and with
  one analysis, keep to the months the client asked for, and lose no
  transaction of them.
- blob store: calls are atomic on whole objects, `ErrNotFound` is the truth, no
  key leads outside, both stores tell the same keys apart.
- process: a migration is applied once and in order, before anything is served;
  the pool outlives its users; an exit without an error has cut nothing off; a
  process that is told to stop does.
- failure messages: no secret, one line, bounded, still text.
- conversion: amounts are magnitudes, the sign lives in the direction.

The hazards, each at its line and with the properties that cover it, are
listed in `PROJECT.json`.

## 2. Modules

| module | models | state |
| --- | --- | --- |
| `Store` | statements and transactions of `internal/db` on uploads, files, analyses | `status`, `reason`, `files`, `ocr`, `analyses` |
| `TaskQ` | the broker (external) | `msgs`, `lease`: a slot is a row of `taskq_messages` |
| `Pipeline` | `internal/pipeline`; extends the two above | `pc`, `held`, `job`, `batch` per worker; `starts`, `faults` |
| `UploadLifecycle` | abstract: the life of an upload as a client sees it | `phase`, `result` |
| `UploadApi` | `create` and `status`, composed with `Pipeline` | `parts`, `req`, `read`, `trash`, `dead`, `blobs`; `looking`, `seen` |
| `BlobStore` | `internal/storage` as `UploadApi` uses it: objects come and go in one step | `blobs` |
| `AtomicStore` | abstract: the promise of `storage.BlobStore` to concurrent callers | `objects`, `call`, `answer`, `bytes` |
| `Storage` | `local.go` and `s3.go`, call by call; implements `AtomicStore` | the same and `backend`, `at`, `got`, `temps`, `strays`, `cut` |
| `Config` | which environments `Load` accepts, which roles a command line selects | |
| `Process` | `cmd/api` and `migrate.go`: several processes from start to exit, around the goroutines that use the blob store; extends `Config` and `Storage` | `env`, `argv`, `stage`, `pool`, `locker`, `plan`, `applied`, `cancelled`, `loops`, `active`, `errs`, `kills` |
| `StorageKey` | `validateKey`, `resolve`, `objectKey` on sequences of segments | |
| `Scrub` | `scrub.go` on sequences of bytes | |
| `Failures` | `Pipeline` with the messages `Scrub` is given | |
| `PipelineHistory` | `Pipeline` with a history variable: has a call of a step failed? | `failed` |
| `Calendar` | months and days, as `time.Time` and Postgres dates are used | |
| `ModelReply` | from the model's reply to the stored rows: `internal/llm` response checks, `convert.go` | |
| `Charts` | the aggregation queries and the summary made of one | |
| `Visualization` | the visualization handler, beside `UploadLifecycle` with the rows of the analyses; extends the three above | `stored`, `lastId`, `disturbed`; `at`, `target`, `query`, `loaded`, `window`, `charts`, `answer` |
| `PipelineProofs`, `FailureProofs`, `ApiProofs`, `VisualizationProofs`, `StorageProofs`, `ProcessProofs` | theorems about `Pipeline`, `PipelineHistory` and `Failures`, `UploadApi`, `Visualization`, `Storage`, `Process` | |
| `LifecycleProofs` | theorems about `Pipeline` without lost workers, and that it refines `UploadLifecycle` | |
| `Folding` | lemmas about the community modules' folds, `SumFunctionOnSet` and `FoldLeft`; extended by `VisualizationProofs`, `StorageProofs` and `FailureProofs` | |
| `MCPipeline`, `MCFaults`, `MCUploadApi`, `MCVisualization`, `MCProcess` | instances for TLC | |

**Correspondence.** One action is one call that reads or changes shared state,
because another worker can act between any two of them. `pc[w]` is the place in
the hop worker `w` runs: `start` (message received), `extract` (in `runOCR`'s
loop, `batch` is what is left of the list it read), `model` (in `analyze`,
`batch` is what it read), `replace` (the replacing transaction is open),
`done`/`error` (the step returned), `onFailed`/`onCompensationFailed` (the hook
is to run), `ack`. `MarkProcessing`, `ListForOCR`, `ExtractOne`, `FinishOCR`,
`ListForAnalysis`, `AskModel`, `CommitAnalysis`, `MarkCompleted` and
`DeleteAnalysis` are the calls of `steps.go`; `SendNext`, `RunCompleted`,
`RunUnwound`, `Retry`, `Pivot`, `OnFailed`, `OnCompensationFailed` and `Ack`
are what the saga and the pool make of their outcome. In `UploadApi`, `req[u]`
is where the handler of the request for `u` stands, or what it answered
(`accepted` 202, `unavailable` 503, `refused` any other error, `gone` no
answer).

In `Visualization`, `at` is the handler's next read: `upload` and `analysis`
(`loadCompletedAnalysis`), `bounds` (the last month with data, then
`resolveWindow`), then the six queries by name in the order they run. Queries
select by the id in `loaded`, so `RowsOf` answers nothing once that row is gone
and never another analysis' rows. The pipeline's side is `UploadLifecycle`,
which `LifecycleRefined` proves `Pipeline` to implement, plus `Redeliver`: a hop
that runs on an upload in a terminal status, as the runs with crashes and
stalls show it can. `disturbed` remembers for which uploads that has happened;
it is no state of the program, and only properties read it, as `failed` is in
`PipelineHistory`.

In `Storage`, `at` is where a caller's call stands: `begin`, `body` (a `Put`
reads), `stream` (a `Get` is open), `remove` (an S3 `Delete` between its two
requests), `done`, and `gone` when the process ended with the call in flight. An
action is one system call on the local disk or one S3 request. `AtomicStore`
maps a call to its start, one step in which it takes effect and is answered, and
its return; the refinement mapping is the identity on the variables both have,
because `Storage` changes `objects` only in the step that answers. `temps` are
the temporary files of the `Put`s that run; `strays` the ones left behind, by a
process that ended in the middle or because the deferred `os.Remove`, whose
error `local.go` drops, did not remove it (`FailCall` leaves both outcomes
open).

In `Process`, `stage` is how far `run()` has come, `loops` which goroutines of
the errgroup still run, `active` which requests and hops do; each process has one
of each at a time, and what they do with the store are `Storage`'s actions.
`plan` and `applied` are goose's: the versions a process has found pending under
the lock, and how often each has been applied. `errs` collects what a process
would report. `CancelContext` leaves open whether a SIGTERM reaches the context
of a hop, which is taskQ's business.

**Abstractions.** In `Storage` an object is its length, enough to tell a whole
one from a part of one; directories, `Sync` and `Close` are part of the step
that commits or fails. An S3 request carried out after its sender gave up is
taken to be carried out at that moment, since the service never uses a key again
whose call failed. In `Process` a timeout of a start-up call is one of its
failures, and a migration is applied in one transaction with its version, as
goose does. In `Config` a text is blank or not.

In `Visualization` a month is `year * 12 + month - 1` and a day
`month * 100 + day`; money is a number of cents; quotients (shares, averages,
the savings rate), the order of a chart's points and the forecast, which is
passed through, are left out; the amounts of `balance_after` are only carried.
A reply is what `convert.go` and the queries tell apart in it (`ModelReply`'s
header). An upload id that does not parse is left out; `phase` `new` is an id
nobody has uploaded.

In `Pipeline` a file is its position. OCR text is present or absent. An
analysis is the set of files it was computed from. A failure reason is the step
it names. A lease runs out when its worker dies (later in reality, but nobody
sees the message until then) or under a running hop (`Stall`); a worker whose
lease is gone does not notice, and its acknowledgement matches no receipt.
Delivery order is open, as several workers and jittered backoff make it.
Concurrent replacing transactions on one upload: the unique constraint on
`analyses.upload_id` lets the first commit and fails the others (`Overtaken`).
An attempt is counted when a hop fails, not when it is redelivered after a
death. The enqueue of the next hop does not fail by itself; a death just before
it has the same effect on the queue.

**Faults.** `Faults` and `ApiFaults` say what can go wrong in an instance:
`error` (a call fails without effect), `lost_reply` (it takes effect and reports
an error), `unrecorded` (the write of a failed status fails and is only logged),
`crash`, `stall`; in the API the same per call, `cancelled` (the request's
context) and `killed` (the process).

Definitions whose comment starts with MUTANT are not part of the model: each
changes one definition the way a plausible bug would, and shows that a property
notices.

## 3. Runs

| run | instance | shows |
| --- | --- | --- |
| `pipeline_all_faults` | 1 upload, 2 workers, up to 2 files, 1 retry, 1 crash or stall, every fault | `TypeOK`; `OCRGuaranteed`: what runs after `ocr` finds OCR output for every file; `AnalysisIsWhole`; `Scrubbed` and `NoFragments`, about `Scrub`, at the initial states |
| `pipeline_errors` | 2 uploads, 2 workers, 1 file, 1 retry, failing calls | `ImplementsLifecycle`: the pipeline implements `UploadLifecycle` (terminal statuses are final, completed means analysed, every run finishes); `FailedLeavesNothing`; `OneHopAtATime` |
| `pipeline_crashes` | 1 upload, 2 workers, 1 file, 1 retry, failing and unconfirmed calls, 1 crash | `NoStrandedRun` and its inductive invariant `CarrierInv`; `CompletedUnlessFailed` (on `PipelineHistory`): as long as no call has failed, a completed upload has its analysis; `EventuallySettles` |
| `service_errors` | 1 upload of 0 to 3 files (2 are allowed), 2 workers, failing calls in the API and the steps, cancelled and killed requests | `NothingLeaked`, `OnlyCutLeavesPending`, `UnqueuedIsNeverProcessed`, `CompletedIsServed`, `AnswersAreFinal`, `AcceptedIsAnswered` |
| `service_faults` | the same, no retry, 1 crash, every API fault | `RowsHaveBlobs`: no run is enqueued for files without blobs, whatever failed; `AcceptedIsKept` |
| `visualization` | 1 upload, 9 replies, 13 requests, up to 2 analyses stored while requests are answered | `OneAnalysisPerResponse`, `ChartsAgree`, `NothingVanishes`, `ChartsKeepToRequest`, `DefaultWindowShowsData`, `CompletedIsReady` |
| `process` | 2 processes in 3 deployments, either store, 2 valid and 7 invalid environments, 1 key, bodies of 1 and 2 bytes of which S3 accepts one, 2 migrations, 1 kill | `ImplementsAtomicStore` and the invariant behind it, `StorageInv`; `NoStrayTemps`, `MigratedOnce`, `MigratedFirst`, `PoolOutlivesWork`, `CleanExit`, `NoDrift`, `StopsWhenAsked`; `KeysInside` and `SameKeys`, about `StorageKey`, at an initial state |

Runs that refute something the repository says of itself (details and quotes in
`PROJECT.json`, `findings`):

| run | what it shows |
| --- | --- |
| `completed_without_analysis` | `mark_completed` spends its retries, the saga enqueues the compensation, the worker dies before it acknowledges; the redelivered `mark_completed` succeeds beside the compensation: a completed upload without an analysis. |
| `stranded_by_late_write` | `mark_processing` outlives its lease and writes `processing` over the status that the redelivered run has reached; its worker dies: the upload says processing, and nothing is queued. |
| `pending_forever` | the request is cancelled after the commit: the enqueue fails, and so does recording that it failed, under the same context. |
| `processed_after_unqueued` | the enqueue takes effect and reports an error: the upload is failed as never to be processed, and is processed. |
| `window_as_documented` | a request with `from` alone: the window runs to the last month with data and `months` is ignored, where the comment on `resolveWindow` has the other end derived from `months`. The tests agree with the code. The property's other half is false as well, which TLC shows when `MCQueries` is cut down to the requests that name no end: with data in November and February the default window is December to February, three calendar months of which one carries data, where the comment, README.md and the API document say the last 3 months that carry data. The fixtures of the tests have no month without data. |

**Bounds.** Workers: two, the least with which hops overlap; a third only adds a
second bystander. Uploads: one, because messages, rows and hops of two uploads
share nothing but workers and queue; two where that is what is checked. Files:
two give a step that fails half-way; runs whose properties do not look at files
take one. `MaxRetry` 1 has both a redelivery and an exhausted budget.
`MaxRuns` 1: the API enqueues an upload once. `MaxFaults` bounds crashes and
stalls. Slots: four, enough that `Send` never waits. Workers are model values
under symmetry in the safety runs; slots are integers, because `Send` chooses.
Replies have transactions on the last day of
December, on the first of January and on 29 February, after months without
data, with every sort of direction wording and sign, with and without a
category and a period; five replies are ones the code refuses. Requests have
no, one and both ends, 1, 2, 12, 0 and 13 months, and parameters that are no
numbers. Two analyses are one that is read and one that replaces it; ids only
grow, so a third adds nothing a handler could tell from the second.

The three deployments of `process` are one process with both roles, an API
beside a worker that both migrate, and a worker beside the migration Job; two
processes are the least that race for the lock, and processes meet nowhere else
but in a key, of which one has a writer and readers. Two migrations have a state
half-way. Bodies of two bytes have a part; the cap below two makes S3 refuse one.
The properties of `StorageKey` and `Scrub` have no state: TLC evaluates them once,
over all keys of up to 4 segments (3 in pairs), with dots, empty segments and a
drive, and over all messages of up to 4 runes with one of two bytes, blanks and
newlines, and up to two secrets around the least length, of a letter and a dot. The constants of
the code (8 and 400 bytes) are 2 and 5 there, so that both limits fall inside.

**Fairness.** `EventuallySettles` and `ImplementsLifecycle` assume weak fairness
of each worker's own work, `WF(Work(w))`: the pool's goroutines poll as long as
the process lives, Kubernetes restarts it, and every call has a timeout. No
fairness is assumed of arrivals, errors, crashes or stalls; a step that fails
every time ends by its budget. `AcceptedIsAnswered` assumes that and a client
that goes on polling, `WF(PollStatus(u))`; and, as a read of the status endpoint
that fails is answered 500 and asked again, strong fairness of its second read: the
database does not fail every one of them.

`StopsWhenAsked` assumes weak fairness of `run()` and its group, whose calls have
deadlines or heed the context; of the store serving a hop; and strong fairness of
a hop's return, because a hop makes finitely many calls and the model leaves
their number open. Nothing is assumed of requests: their clients may stop
sending at any time, and it is Shutdown's deadline that ends the wait.

**What the properties need.** `CompletedHasAnalysis`, `NoStrandedRun`,
`NotLeftPending` (passing in the form of `OnlyCutLeavesPending`) and `UnqueuedIsNeverProcessed` hold under the faults of the
passing runs and fail under those of the refuting ones; that border is the
result. `FailedLeavesNothing` needs confirmed writes: when the commit of the
analysis succeeds unconfirmed until the budget is spent, `analyze` is the
failing step and is not compensated. `NoStrandedRun` needs the failed status to
be writable: the code logs that error and goes on. `RowsHaveBlobs` needs
nothing, because it asks for blobs only where a run may come: when the recording
transaction commits and its confirmation is lost, the handler deletes the blobs
of files that now have rows, but it refuses the request and enqueues nothing.
`UnqueuedIsNeverProcessed` needs an enqueue that takes effect to say so, and
`CompletedIsReady` an upload no hop was redelivered for. `NothingLeaked` speaks of blobs only
where the context is live, and needs deletions to work and writes to be
confirmed: the code logs a blob it cannot delete and goes on.
`AcceptedIsAnswered` is checked without crashes, which `EventuallySettles`
has. `CleanExit` and `PoolOutlivesWork` name the one exception the code makes,
Shutdown's deadline, and both need it: a request whose body does not arrive is
cut off by the exit. A request that a SIGTERM only cancels returns an error, and
the exit is clean; what it leaves behind is what `UploadApi` says of a cancelled
context. `NoStrayTemps` allows what the best-effort removal allows: a `Put` that
failed or was cut off may leave its file, one that stored its object may not.

A response can be incomplete: when a late hop removes the analysis between
two queries, the series after that are empty and the answer is still 200.
`OneAnalysisPerResponse` says that this is the worst that happens;
`ChartsAgree` excuses an empty chart only for a disturbed upload, and
`NothingVanishes` and `DefaultWindowShowsData` speak of the others.

## 4. Theorems

In `PipelineProofs`, for any numbers of uploads, workers, slots, files,
retries, runs and faults:

- `TypeCorrect`: `PipelineSpec => []TypeOK`. Frame lemmas say what a step
  (`StepFrame`) and the saga (`SagaFrame`) can change; the store's and the
  broker's operators have lemmas of their own.
- `OCRCorrect`: `PipelineSpec => []OCRGuaranteed`, and `AnalysisCorrect`:
  `PipelineSpec => []AnalysisIsWhole`, whatever is in `Faults`. Neither is
  inductive. `OCRInv` adds `OCRProgress`: in `runOCR`'s loop every file has
  output or is still in `batch`; a finished `ocr` step leaves none without; and
  `analyze` carries all the files to its commit. Files never change and output
  is never taken back (`OCRGrows`), so what is queued stays good, however often
  it is delivered.
- `NothingStranded`: `PipelineSpec => []NoStrandedRun` if neither `stall` nor
  `unrecorded` is in `Faults`. `CarrierInv` strengthens it: each unsettled
  upload has a queued message whose holder, if any, has more to do than
  acknowledge it, and workers and leases agree (`LeaseInv`). Without the latter
  an acknowledgement could remove a message another worker runs.

  `CarrierCorrect` is the theorem about `CarrierInv` itself.

In `FailureProofs`, `CompletedUnlessFailedCorrect`:
`FaultsSpec => []CompletedUnlessFailed`, for any faults: the run checks it with
crashes, the theorem adds the leases that expire under a running hop. Until a call has failed,
the one step that can end in an error is an `analyze` whose commit was overtaken
by another worker's; it is counted and retried like any failure, and when it
spends its budget there is nothing to compensate, as it is itself the failing
step. So no message is a compensation and no worker deletes an analysis, which,
once stored, is only replaced (`CalmInv`); and a worker or a message past
`analyze` belongs to an upload that has one.

Also there, about `Scrub`, for any letters, limits, number of secrets and length
of message: `ScrubbedCorrect` and `NoFragmentsCorrect`, the run's properties, and
`Cleaned`, which they rest on and which also leaves the secrets' lengths and
their order open.

- One `ReplaceAll` is a scan. Backward induction over the places it can stand at
  says what is left from each of them on: every byte of the result is a byte of
  the message, in place, or the replacement; so two bytes that stand together in
  the result without a replacement between them stood together in the message.
  A secret found in the result therefore stood in the message, and the scan would
  have replaced it; and replacing one secret never brings another one back.
- The walk over the secrets (`FoldLeftWalk`) keeps what the earlier ones achieved.
- Joining the fields removes blanks and turns newlines into spaces, and a secret
  has neither: what it mentions afterwards it mentioned before.
- The cut of `Truncate` keeps a prefix, which mentions no secret, and is moved
  back to the start of a rune. A secret could still end in the ellipsis.

`ScrubAssumption` says what the alphabet must be for this: secrets are made of
letters, which are not blanks, not half of a longer rune, and not the replacement
text, which counts as one byte. `Secrets` leaves out those that end with a dot:
a message cut off after `hunter2x` reads `hunter2x...`, which mentions
`hunter2x.`. A secret with a blank in it is outside these
assumptions, as joining the fields could put one together.

In `LifecycleProofs`, for any numbers of uploads, workers, slots, files and
retries, when each upload is enqueued once (`MaxRuns <= 1`):

- `OneHopCorrect`: `PipelineSpec => []OneHopAtATime` when no worker is lost
  (`Calm`: neither `crash` nor `stall` in `Faults`). The property is not
  inductive: between `SendNext` and `Ack` an upload has two messages.
  `OneLive` calls a message live when whoever takes it has more to do than
  acknowledge it, and says that an upload has at most one of them: a token that
  the hops hand on. A hop is quiet from the moment it has sent the next one.
- `RunCorrect`: `PipelineSpec => []RunInv` under `Reported`
  (`Faults` within `error` and `unrecorded`: a call that takes effect says so).
  `StageInv` says, for the place of the token, what the status is and whether
  there is an analysis: none before `analyze` commits, one from there until the
  compensation has deleted it. `EndInv` says it for an upload without a token,
  whose run has ended. From it follow
  - `FailedCorrect`: `[]FailedLeavesNothing`, and `CompletedCorrect`:
    `[]CompletedHasAnalysis`, which the runs `stranded_by_late_write` and
    `completed_without_analysis` show to need those conditions;
  - `LifecycleRefined`: `PipelineSpec => Lifecycle!LifecycleSafety`. Each call
    of a hop is one of `UploadLifecycle`'s actions or a stutter (`Advances`),
    because `StageInv` knows the status every unguarded write finds.

In `ApiProofs`, for the API over the pipeline and any constants:

- `ServiceTypes`: `ServiceSpec => []ApiTypeOK`.
- `RowsHaveTheirBlobs`: `ServiceSpec => []RowsHaveBlobs`, whatever is in
  `ApiFaults`. `RowInv` adds that an upload has no rows until the transaction
  commits, that until then what the handler has listed is in the store, and that
  a handler which deletes has enqueued nothing.
- `RefusedLeavesNothing`: `ServiceSpec => []NothingLeaked` if `db_unconfirmed`,
  `blob_unconfirmed` and `cleanup_error` are not in `ApiFaults` (`Tidy`). `LeakInv` is the converse: what
  is in the store is on the handler's list, or among what it will delete. A step
  of one upload's request leaves every other upload's part of both alone
  (`CreateElsewhere`, `UntouchedKeeps`), and the pipeline never changes `files`.
- `AcceptedIsKeptCorrect`: `ServiceSpec => []AcceptedIsKept` under the conditions
  of `NothingStranded`. It needs `CarrierInv` for the composition (`RequestStep`):
  create makes an upload pending only before its run is enqueued (`KeepInv`), so
  its transactions never leave a run without a carrier.
- `OnlyCutCorrect`: `[]OnlyCutLeavesPending`, if besides `db_unconfirmed` is not
  in `ApiFaults`, and `UnqueuedCorrect`: `[]UnqueuedIsNeverProcessed`, if
  `stall` is not in `Faults` and `queue_unconfirmed` not in `ApiFaults`. Both
  rest on `Originated`: every message belongs to a run that was enqueued, so a worker
  changes no upload without one (`WorkerWrites`). The runs
  `pending_forever` and `processed_after_unqueued` show that a cancelled request
  and an unconfirmed enqueue are real exceptions.
- What a client is told, under `Reported` and without `queue_unconfirmed`:
  `CompletedIsServedCorrect` (`[]CompletedIsServed`), `AnswersAreFinalCorrect`
  (`AnswersAreFinal`), `ServiceRefined` (the composition refines
  `Lifecycle!LifecycleSafety`) and `ServiceRunsCorrect` (the invariants of
  `LifecycleProofs`). No bound on the runs is assumed: that create enqueues an
  upload once is part of `ServiceInv` (`KeepInv`), as is that it stays pending
  until then (`WaitInv`). `SeenInv` relates what the
  status handler has read, and what it has answered, to what is stored now. An
  unconfirmed enqueue breaks this: `markUnqueued` then writes over a run.

In `StorageProofs`, for any keys, callers and sizes: `StorageCorrect`
(`[]StorageInv`), `StorageNoStrayTemps`, and `StorageImplementsAtomicStore`:
`StorageSpec => ImplementsAtomicStore`, one lemma per kind of step. `StorageInv` is
what the mapping needs: the place of a call fits its request and its answer, and
between the two requests of an S3 `Delete` the object it saw is still there,
because only the writer of a key, which is in that `Delete`, changes it.
`StorageNoStrayTemps` says of every step that it keeps `temps` the files of the
`Put`s that read a body and adds to `strays` only one whose `Put` did not succeed.

Also there, for keys of any length over any names: `KeysStayInsideCorrect` and
`StoresAgreeCorrect`. The path after n segments is a function of n (`CleanWalk`:
`FoldLeft` as the walk it is), and it is either the names below the root, as many
as the depth, or starts with `..` and stays so after any further segment
(`Inside`, `Outside`); cleaning leaves a path of names as it is
(`OrdinaryIsClean`), so `Resolve` and `ObjectKey` only put the root or the prefix
before it. `Escapes` is `resolve`'s own check, which accepts what `validateKey` has
accepted below any root but `/`: there it compares with `//` and refuses every
key, which no property speaks of. `StorageKeyAssumption` is that a name is not empty or dots.

In `ProcessProofs`, for any processes, deployments, environments and migrations:

- every step of `Process` is one of `Storage` or leaves it alone (`BaseInv`), which
  carries the three results over: `ProcessImplementsAtomicStore`,
  `ProcessStorageInv`, `ProcessNoStrayTemps`; and `ProcessTypes`.
- `ProcessKeysInside`, `ProcessSameKeys`: the results about keys, as the properties
  of the run.
- `ProcessMigratedOnce`, `ProcessMigratedFirst`: `SchemaInv` says that versions are
  applied from the first on, and that the plan of the process that holds the lock
  is exactly what is left.
- `ProcessPoolOutlivesWork`, `ProcessCleanExit`, `ProcessNoDrift`: `ProcessInv`
  adds what each stage has behind it (`StartInv`), that a request or a hop runs
  only beside the loop that waits for it or after its deadline (`LoopInv`), and
  that a goroutine is `gone` only with its process (`GoneInv`).

In `VisualizationProofs`, for any uploads, replies, requests, current day and
number of stored analyses:

- `OneAnalysisCorrect`: `VisSpec => []OneAnalysisPerResponse`. The inductive
  invariant `ReadInv` says that ids are never reused (`StoreInv`), that the row
  the handler holds is the stored one or gone (`Held`), and that the first n
  series are drawn from it up to some point after which it was gone
  (`ReadUpTo`). Every step of the pipeline makes rows with new ids or none
  (`StepFresh`), so what is gone stays gone.
- `ChartsKeepCorrect`: `VisSpec => []ChartsKeepToRequest`, from what
  `resolveWindow` computes for any accepted request and any anchor
  (`ResolvedSpans`), from the anchor being a month (`AnchorIsInt`), and from
  every chart being made of rows on days of the window's months (`ShownInWindow`,
  which needs `DaysAreMonths`).
- `ReadyCorrect`: `VisSpec => []CompletedIsReady`. `ReadyInv` ties the status to
  the stored row for every upload no hop was redelivered for.
- `VisTypeCorrect`: `VisSpec => []VisTypeOK`, the amount and direction
  conventions included (`BuiltWellFormed`).
- `ChartsAgreeCorrect`: `VisSpec => []ChartsAgree`. The lemmas of the first part
  are about one set of rows (`Solid`: finitely many, each with an amount, a
  direction the queries know and a day of the calendar): each chart adds up to
  the summary because a `GROUP BY` is a partition (`AmountGroups`), and the days
  of the balance chart lie in months of the income chart (`BalanceAgrees`). The rest is
  which rows each chart was made of: `Response` takes that from `ReadInv`, and
  from `KeptInv`, the invariant that an upload no redelivered hop has disturbed
  still has the row that was loaded, and its window was counted back from the
  last month of that row.
- `NothingVanishesCorrect`: `VisSpec => []NothingVanishes`. Every stored row is
  the conversion of one reported transaction and the other way round
  (`Faithful`, part of what is invariant of a stored analysis), and the queries'
  bounds on days select whole months (`DaysAreMonths`).
- `DefaultWindowCorrect`: `VisSpec => []DefaultWindowShowsData`, from the anchor
  being the last month with a transaction (`LastMonth`).

The sums rest on `Folding`. The library's fold is a recursive function over the
subsets of a set, and induction over them follows from the strict subset
ordering being well-founded (`SubsetInduction`), with a set of subsets where the
library's induction theorems take an operator. From it: the order of summation
does not matter (`SumRemove`), a sum is the sum of its parts (`SumSplit`), and
the sum of the sums of the groups of a set is the sum over the set (`SumGroups`).

The assumptions on constants are `StorageKeyAssumption`, `StorageAssumption` (a key has one writer, the
request that made it up), `ProcessAssumption`, `ApiAssumption`, `StoreAssumption`, `TaskQAssumption`,
`PipelineAssumption`, `JobAssumption` (`None` is not a message),
`ScrubAssumption`, `VisualizationAssumption`, `QueryAssumption` (months are numbers) and
`ReplyAssumption` (a reply is finite, as JSON that was read to its end is; a
date that `time.Parse` accepted is a day of its month, an amount a number); TLC evaluates them in every run of their modules.

Only model-checked: liveness (`EventuallySettles`, `AcceptedIsAnswered`,
`StopsWhenAsked`, and the fairness in `ImplementsLifecycle`), which the prover
does not reach.

## 5. Not modelled

Routing, middleware and error rendering, health, logging, the generated API
documents and the Helm chart: stateless, or pure output. Of the configuration,
parsing, defaults and durations; that the default lease can be shorter than an
`ocr` hop of many files is a hazard without a property. The Azure
clients are one call each and appear as its outcome; what is modelled of them is
which replies `Analyze` and `parseResponse` refuse. The clients' classification
of errors as retryable is not modelled because nothing uses it: the pipeline
retries every failure alike, as README.md says, although comments in
`internal/ocr/client.go` and `internal/llm/response.go` speak of it as a
decision. The prompt and the wording of messages are text, the cut of a stored
reason at its maximal length included.

`Process` and `UploadApi` with `Pipeline` are separate compositions: a SIGTERM is
`Cancel` in the one and a kill is `Die` or `Crash`, as `Process` shows they come
about. The worker's orderly stop, which waits for its hops, adds no behaviour to
`Pipeline`: a worker that stays idle from some point on. A key that cleans to the
root itself is accepted by `validateKey`; no caller makes one.

## 6. Plan

Done: every module above, the runs and the theorems above. Left, in the order of
what it would add:

1. `Visualization` over `Pipeline` itself instead of `UploadLifecycle`, so that
   `Redeliver` becomes a consequence; several uploads.
2. `UploadApi` over `Storage` instead of `BlobStore`.

## 7. Running

    tlc -config pipeline_errors.cfg MCPipeline.tla
    tlc -config pipeline_all_faults.cfg MCFaults.tla
    tlc -config pipeline_crashes.cfg PipelineHistory.tla
    tlc -config service_errors.cfg MCUploadApi.tla
    tlc -config service_faults.cfg MCUploadApi.tla
    tlc -config visualization.cfg MCVisualization.tla
    tlc -config process.cfg MCProcess.tla
    tlapm PipelineProofs.tla
    tlapm FailureProofs.tla
    tlapm LifecycleProofs.tla
    tlapm ApiProofs.tla
    tlapm Folding.tla
    tlapm VisualizationProofs.tla
    tlapm StorageProofs.tla
    tlapm ProcessProofs.tla
