------------------------------ MODULE Process -------------------------------
(***************************************************************************)
(* cmd/api: the processes of a deployment, from start to exit, around the  *)
(* goroutines that use the blob store.                                     *)
(*                                                                         *)
(* run() loads the configuration, opens the pool, migrates if asked to,    *)
(* opens the blob store, builds the pipeline and starts an errgroup: serve *)
(* (ListenAndServe), drain (wait for the end, then Shutdown with a         *)
(* deadline) and consume (the worker pool).  A SIGTERM, or the first error *)
(* of the group, cancels one context, which is also the context of every   *)
(* request (BaseContext).  run() returns when all three have, and closes   *)
(* the pool.                                                               *)
(*                                                                         *)
(* Each process has one request and one hop at a time that use the store;  *)
(* what they do between their calls is in UploadApi and Pipeline.          *)
(***************************************************************************)
EXTENDS Config, Storage, StorageKey

CONSTANTS
    Procs,          \* processes
    Deployments,    \* which command lines the processes are started with
    Environments,   \* which environments they are started in
    Migrations,     \* versions of the schema, 1 .. n
    MaxKills        \* bound: processes killed in a behaviour

ApiRequest(p) == <<p, "request">>
WorkerHop(p) == <<p, "hop">>
Goroutines(p) == {ApiRequest(p), WorkerHop(p)}

ASSUME ProcessAssumption ==
    /\ Callers = UNION {Goroutines(p) : p \in Procs}
    /\ \A k \in Keys : \E p \in Procs : Writer[k] = ApiRequest(p)
    /\ Migrations \in Nat
    /\ MaxKills \in Nat
    /\ None \notin Procs

VARIABLES
    env,         \* the environment: one Secret feeds every role
    argv,        \* process -> its command line
    stage,       \* process -> how far run() has come
    pool,        \* process -> "none", "open" or "closed"
    locker,      \* the process that holds the advisory lock, or None
    plan,        \* process -> migrations it has found pending
    applied,     \* migration -> how often it has been applied
    cancelled,   \* processes whose context is cancelled
    loops,       \* process -> goroutines of its errgroup that run
    active,      \* requests and hops that run
    errs,        \* process -> what went wrong
    kills        \* processes killed so far

schemaVars == <<locker, plan, applied>>
groupVars == <<cancelled, loops, active>>
processVars == <<env, argv, stage, pool, schemaVars, groupVars, errs, kills>>
vars == <<processVars, storageVars>>

Stages == {"start", "connect", "migrate", "apply", "store", "build", "up",
           "closing", "exited", "killed"}

Reasons == {"config", "database", "migration", "no root", "no bucket",
            "unsupported backend", "store", "clients", "router", "serve",
            "shutdown", "worker"}

ProcessTypeOK ==
    /\ StorageTypeOK
    /\ env \in Environments
    /\ argv \in Deployments
    /\ stage \in [Procs -> Stages]
    /\ pool \in [Procs -> {"none", "open", "closed"}]
    /\ locker \in Procs \cup {None}
    /\ plan \in [Procs -> SUBSET (1 .. Migrations)]
    /\ applied \in [1 .. Migrations -> 0 .. 1]
    /\ cancelled \subseteq Procs
    /\ loops \in [Procs -> SUBSET {"serve", "drain", "consume"}]
    /\ active \subseteq Callers
    /\ errs \in [Procs -> SUBSET Reasons]
    /\ kills \in 0 .. MaxKills

ProcessInit ==
    /\ env \in Environments
    /\ argv \in Deployments
    /\ stage = [p \in Procs |-> "start"]
    /\ pool = [p \in Procs |-> "none"]
    /\ locker = None
    /\ plan = [p \in Procs |-> {}]
    /\ applied = [m \in 1 .. Migrations |-> 0]
    /\ cancelled = {}
    /\ loops = [p \in Procs |-> {}]
    /\ active = {}
    /\ errs = [p \in Procs |-> {}]
    /\ kills = 0
    /\ StorageInit
    /\ backend = IF env.backend = "s3" THEN "s3" ELSE "local"

----------------------------------------------------------------------------
(* Start: run() up to the errgroup.                                        *)

Reach(p, s) == stage' = [stage EXCEPT ![p] = s]

Blame(p, reason) == errs' = [errs EXCEPT ![p] = @ \cup {reason}]

\* run() returns; the deferred pool.Close comes next, if there is a pool.
Quit(p, reason) == Reach(p, "closing") /\ Blame(p, reason)

Advance(p, s) == Reach(p, s) /\ UNCHANGED errs

Migrates(p) == env.migrateOnStart \/ Asked(argv[p], "migrate")

\* Selecting no role asks for the migrations only.
AfterSchema(p) == IF Roles(argv[p]) = {} THEN "closing" ELSE "store"

Load(p) ==
    /\ stage[p] = "start"
    /\ IF Asked(argv[p], "version") THEN Advance(p, "exited")
       ELSE IF ~ Valid(env) THEN Reach(p, "exited") /\ Blame(p, "config")
       ELSE Advance(p, "connect")
    /\ UNCHANGED <<pool, schemaVars, groupVars>>

\* db.NewPool: a pool that answers a ping, or none.
Connect(p) ==
    /\ stage[p] = "connect"
    /\ \/ /\ p \notin cancelled
          /\ pool' = [pool EXCEPT ![p] = "open"]
          /\ Advance(p, IF Migrates(p) THEN "migrate" ELSE AfterSchema(p))
       \/ Reach(p, "exited") /\ Blame(p, "database") /\ UNCHANGED pool
    /\ UNCHANGED <<schemaVars, groupVars>>

\* MUTANT of LockSchema: goose runs without the session locker.
ListUnlocked(p) ==
    /\ stage[p] = "migrate"
    /\ p \notin cancelled
    /\ locker' = p
    /\ plan' = [plan EXCEPT ![p] = {m \in 1 .. Migrations : applied[m] = 0}]
    /\ Advance(p, "apply")
    /\ UNCHANGED <<pool, applied, groupVars>>

\* goose takes the advisory lock, then reads which versions are pending.
LockSchema(p) ==
    /\ stage[p] = "migrate"
    /\ p \notin cancelled
    /\ locker = None
    /\ locker' = p
    /\ plan' = [plan EXCEPT ![p] = {m \in 1 .. Migrations : applied[m] = 0}]
    /\ Advance(p, "apply")
    /\ UNCHANGED <<pool, applied, groupVars>>

Unlock(p) == locker' = IF locker = p THEN None ELSE locker

\* One migration and the record that it was applied, in one transaction.
ApplyNext(p) ==
    /\ stage[p] = "apply"
    /\ p \notin cancelled
    /\ \E m \in plan[p] :
          /\ \A n \in plan[p] : m <= n
          /\ applied' = [applied EXCEPT ![m] = @ + 1]
          /\ plan' = [plan EXCEPT ![p] = @ \ {m}]
    /\ UNCHANGED <<stage, pool, locker, errs, groupVars>>

SchemaReady(p) ==
    /\ stage[p] = "apply"
    /\ plan[p] = {}
    /\ Unlock(p)
    /\ Advance(p, AfterSchema(p))
    /\ UNCHANGED <<pool, plan, applied, groupVars>>

\* MUTANT of MigrationFails: its error is logged and the process goes on.
MigrationLogged(p) ==
    /\ stage[p] \in {"migrate", "apply"}
    /\ Unlock(p)
    /\ plan' = [plan EXCEPT ![p] = {}]
    /\ Advance(p, AfterSchema(p))
    /\ UNCHANGED <<pool, applied, groupVars>>

MigrationFails(p) ==
    /\ stage[p] \in {"migrate", "apply"}
    /\ Unlock(p)
    /\ plan' = [plan EXCEPT ![p] = {}]
    /\ Quit(p, "migration")
    /\ UNCHANGED <<pool, applied, groupVars>>

\* newBlobStore: HeadBucket runs under the context, MkdirAll does not.
OpenStore(p) ==
    /\ stage[p] = "store"
    /\ CASE env.backend = "s3" ->
              IF env.bucket = "" THEN Quit(p, "no bucket")
              ELSE \/ p \notin cancelled /\ Advance(p, "build")
                   \/ Quit(p, "store")
         [] env.backend = "local" ->
              IF env.dir = "" THEN Quit(p, "no root")
              ELSE Advance(p, "build") \/ Quit(p, "store")
         [] OTHER -> Quit(p, "unsupported backend")
    /\ UNCHANGED <<pool, schemaVars, groupVars>>

GroupOf(p) ==
    (IF "api" \in Roles(argv[p]) THEN {"serve", "drain"} ELSE {})
        \cup (IF "worker" \in Roles(argv[p]) THEN {"consume"} ELSE {})

\* MUTANT of StartGroup: the worker is started before startAPI can fail.
StartWorkerFirst(p) ==
    /\ stage[p] = "build"
    /\ \/ Quit(p, "clients") /\ UNCHANGED loops
       \/ /\ "api" \in Roles(argv[p])
          /\ Quit(p, "router")
          /\ loops' = [loops EXCEPT ![p] = GroupOf(p) \ {"serve", "drain"}]
       \/ /\ Advance(p, "up")
          /\ loops' = [loops EXCEPT ![p] = GroupOf(p)]
    /\ UNCHANGED <<pool, schemaVars, cancelled, active>>

\* newPipeline, then the group; startAPI fails before it has started anything.
StartGroup(p) ==
    /\ stage[p] = "build"
    /\ \/ Quit(p, "clients") /\ UNCHANGED loops
       \/ "api" \in Roles(argv[p]) /\ Quit(p, "router") /\ UNCHANGED loops
       \/ /\ Advance(p, "up")
          /\ loops' = [loops EXCEPT ![p] = GroupOf(p)]
    /\ UNCHANGED <<pool, schemaVars, cancelled, active>>

Startup(p) ==
    \/ Load(p)
    \/ Connect(p)
    \/ LockSchema(p)
    \/ ApplyNext(p)
    \/ SchemaReady(p)
    \/ MigrationFails(p)
    \/ OpenStore(p)
    \/ StartGroup(p)

----------------------------------------------------------------------------
(* The errgroup.                                                           *)

\* A goroutine of the group returns.
LoopEnds(p, l) == loops' = [loops EXCEPT ![p] = @ \ {l}]

\* The context is cancelled: the request's with it; whether the hop's is too
\* is taskQ's business.
CancelContext(p) ==
    /\ cancelled' = cancelled \cup {p}
    /\ \E also \in SUBSET {WorkerHop(p)} :
          cut' = cut \cup ((also \cup {ApiRequest(p)}) \cap active)

\* The first error of the group cancels its context.
LoopFails(p, l, reason) ==
    /\ l \in loops[p]
    /\ LoopEnds(p, l)
    /\ Blame(p, reason)
    /\ CancelContext(p)
    /\ UNCHANGED <<active, stage, pool, schemaVars>>

\* ListenAndServe cannot listen, or the listener breaks.
ServeFails(p) == LoopFails(p, "serve", "serve")

\* The worker pool gives up by itself, after its hops have ended.
ConsumeFails(p) ==
    WorkerHop(p) \notin active /\ LoopFails(p, "consume", "worker")

\* Shutdown closes the listener and ListenAndServe returns.
CloseListener(p) ==
    /\ p \in cancelled
    /\ loops[p] \cap {"serve", "drain"} = {"serve", "drain"}
    /\ LoopEnds(p, "serve")
    /\ UNCHANGED <<stage, pool, schemaVars, cancelled, active, errs, cut>>

Draining(p) ==
    p \in cancelled /\ loops[p] \cap {"serve", "drain"} = {"drain"}

\* Shutdown returns once no request runs.
Drained(p) ==
    /\ Draining(p)
    /\ ApiRequest(p) \notin active
    /\ LoopEnds(p, "drain")
    /\ UNCHANGED <<stage, pool, schemaVars, cancelled, active, errs, cut>>

\* MUTANT of DrainTimesOut: Shutdown's error is dropped.
DrainGivesUp(p) ==
    /\ Draining(p)
    /\ ApiRequest(p) \in active
    /\ LoopEnds(p, "drain")
    /\ UNCHANGED <<stage, pool, schemaVars, cancelled, active, errs, cut>>

\* MUTANT of DrainTimesOut: Shutdown has no deadline.
DrainForever(p) == FALSE

\* Shutdown's deadline passes while a request still runs.
DrainTimesOut(p) ==
    /\ Draining(p)
    /\ ApiRequest(p) \in active
    /\ LoopEnds(p, "drain")
    /\ Blame(p, "shutdown")
    /\ UNCHANGED <<stage, pool, schemaVars, cancelled, active, cut>>

\* The worker pool stops dequeuing and waits for the hops in flight.
ConsumeStops(p) ==
    /\ p \in cancelled
    /\ "consume" \in loops[p]
    /\ WorkerHop(p) \notin active
    /\ LoopEnds(p, "consume")
    /\ UNCHANGED <<stage, pool, schemaVars, cancelled, active, errs, cut>>

\* g.Wait has seen every goroutine return.
GroupEnds(p) ==
    /\ stage[p] = "up"
    /\ loops[p] = {}
    /\ Reach(p, "closing")
    /\ UNCHANGED <<pool, schemaVars, groupVars, errs, cut>>

ClosePool(p) ==
    /\ stage[p] = "closing"
    /\ pool[p] = "open"
    /\ pool' = [pool EXCEPT ![p] = "closed"]
    /\ UNCHANGED <<stage, schemaVars, groupVars, errs, cut>>

\* What run() and its group do once they are told to stop.
Stop(p) ==
    \/ CloseListener(p)
    \/ Drained(p)
    \/ DrainTimesOut(p)
    \/ ConsumeStops(p)
    \/ GroupEnds(p)
    \/ ClosePool(p)

----------------------------------------------------------------------------
(* Requests and hops.                                                      *)

Begin(c) ==
    /\ c \notin active
    /\ active' = active \cup {c}
    /\ UNCHANGED <<stage, pool, schemaVars, cancelled, loops, errs>>

\* A connection is accepted until the listener is closed.
AcceptRequest(p) ==
    /\ "serve" \in loops[p]
    /\ Begin(ApiRequest(p))
    /\ cut' = IF p \in cancelled THEN cut \cup {ApiRequest(p)}
              ELSE cut \ {ApiRequest(p)}

DequeueHop(p) ==
    /\ "consume" \in loops[p]
    /\ p \notin cancelled
    /\ Begin(WorkerHop(p))
    /\ cut' = cut \ {WorkerHop(p)}

\* The handler or the hop returns.
EndWork(c) ==
    /\ c \in active
    /\ at[c] = "idle"
    /\ active' = active \ {c}
    /\ cut' = cut \ {c}
    /\ UNCHANGED <<stage, pool, schemaVars, cancelled, loops, errs>>

\* The client of the running request hangs up.
HangUp(p) ==
    /\ ApiRequest(p) \in active
    /\ cut' = cut \cup {ApiRequest(p)}
    /\ UNCHANGED <<stage, pool, schemaVars, groupVars, errs>>

\* Once run() returns, nothing looks at its context any more.
Sigterm(p) ==
    /\ stage[p] \notin {"start", "closing", "exited", "killed"}
    /\ p \notin cancelled
    /\ CancelContext(p)
    /\ UNCHANGED <<stage, pool, schemaVars, loops, active, errs>>

----------------------------------------------------------------------------
(* The end of a process.                                                   *)

\* Whatever still runs ends with the process.
EndGoroutines(p) ==
    /\ active' = active \ Goroutines(p)
    /\ End(active \cap Goroutines(p))
    /\ loops' = [loops EXCEPT ![p] = {}]
    /\ cancelled' = cancelled \ {p}

\* main returns, after the pool was closed.
Exit(p) ==
    /\ stage[p] = "closing"
    /\ pool[p] # "open"
    /\ Reach(p, "exited")
    /\ EndGoroutines(p)
    /\ UNCHANGED <<env, argv, pool, schemaVars, errs, kills>>

\* SIGKILL, at any time; the database drops its session and with it the lock.
Kill(p) ==
    /\ kills < MaxKills
    /\ stage[p] \notin {"start", "exited", "killed"}
    /\ kills' = kills + 1
    /\ Reach(p, "killed")
    /\ EndGoroutines(p)
    /\ pool' = [pool EXCEPT ![p] = "none"]
    /\ Unlock(p)
    /\ plan' = [plan EXCEPT ![p] = {}]
    /\ errs' = [errs EXCEPT ![p] = {}]
    /\ UNCHANGED <<env, argv, applied>>

----------------------------------------------------------------------------

Frame == UNCHANGED <<env, argv, kills, backend, objects, callVars, tempVars>>

\* What run() and its group do of themselves.
Run(p) == ((Startup(p) /\ UNCHANGED cut) \/ Stop(p)) /\ Frame

\* What comes from outside.
Disturbed(p) ==
    /\ \/ ServeFails(p)
       \/ ConsumeFails(p)
       \/ AcceptRequest(p)
       \/ DequeueHop(p)
       \/ HangUp(p)
       \/ Sigterm(p)
    /\ Frame

Served(c) == c \in active /\ Serve(c) /\ UNCHANGED processVars

\* create puts and deletes, the ocr step gets.
Uses(c, r) == (c \in {WorkerHop(p) : p \in Procs}) = (r.op = "get")

Calls(c) ==
    /\ c \in active
    /\ \E r \in Atomic!Request : Uses(c, r) /\ Invoke(c, r)
    /\ UNCHANGED processVars

Works(c) ==
    \/ Calls(c)
    \/ Served(c)
    \/ EndWork(c) /\ Frame

AllEnded == \A p \in Procs : stage[p] \in {"exited", "killed"}

ProcessNext ==
    \/ \E p \in Procs : Run(p) \/ Disturbed(p) \/ Exit(p) \/ Kill(p)
    \/ \E c \in Callers : Works(c)
    \/ AllEnded /\ UNCHANGED vars

ProcessSpec == ProcessInit /\ [][ProcessNext]_vars

\* run() never stands still: its calls have deadlines or heed the context.  A
\* hop's calls return, and there are finitely many of them, so it ends (the
\* model leaves their number open, hence SF).  Nothing is assumed of requests:
\* a client may stop sending at any time, and no read has a deadline.
Fairness ==
    \A p \in Procs :
        /\ WF_vars(Run(p) \/ Exit(p))
        /\ WF_vars(Served(WorkerHop(p)))
        /\ SF_vars(EndWork(WorkerHop(p)) /\ Frame)

FairProcessSpec == ProcessSpec /\ Fairness
----------------------------------------------------------------------------
(* Properties.                                                             *)

SchemaCurrent == \A m \in 1 .. Migrations : applied[m] = 1

\* Past its migrations without an error of theirs.
PastSchema(p) ==
    /\ pool[p] # "none"
    /\ stage[p] \notin {"migrate", "apply"}
    /\ "migration" \notin errs[p]

\* "several replicas starting at once ... serialise instead of colliding"
\* (migrate.go): however many processes migrate, are stopped or are killed
\* half-way, a version is applied once, after the ones before it.
MigratedOnce ==
    \A m \in 1 .. Migrations :
        applied[m] <= 1 /\ (applied[m] = 1 => \A n \in 1 .. m : applied[n] = 1)

\* A process that was told to migrate does nothing else on an older schema,
\* "before either the API or the worker starts serving" (migrate.go).
MigratedFirst ==
    \A p \in Procs : Migrates(p) /\ PastSchema(p) => SchemaCurrent

\* The pool is closed when nothing uses it any more: no hop runs, and a request
\* only if Shutdown's deadline passed.
PoolOutlivesWork ==
    \A p \in Procs :
        pool[p] = "closed" =>
            /\ WorkerHop(p) \notin active
            /\ ApiRequest(p) \in active => "shutdown" \in errs[p]

\* A process that exits without an error has let every request and every hop
\* end: nothing it had begun was cut off.
CleanExit ==
    \A p \in Procs :
        stage[p] = "exited" /\ errs[p] = {}
            => \A c \in Goroutines(p) : at[c] # "gone"

\* "config.Load rejects anything else, so reaching this means the two have
\* drifted apart" (main.go), and the stores' own checks never fire either.
NoDrift ==
    \A p \in Procs :
        errs[p] \cap {"no root", "no bucket", "unsupported backend"} = {}

\* StorageKey's properties are about constants: they are looked at before any
\* process has started.
AtStart == \A p \in Procs : stage[p] = "start"

\* A key is accepted exactly when no walk along it leaves the root, and its
\* object is inside (storage.go, validateKey).
KeysInside == AtStart => KeysStayInside

\* Both stores tell the same keys apart (storage.go, validateKey).
SameKeys == AtStart => StoresAgree

\* A process that is told to stop, or whose group has failed, ends, whatever
\* its clients do.
StopsWhenAsked ==
    \A p \in Procs : p \in cancelled ~> stage[p] \in {"exited", "killed"}
=============================================================================
