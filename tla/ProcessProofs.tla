--------------------------- MODULE ProcessProofs ----------------------------
(***************************************************************************)
(* Process keeps the promises of its store and its own, for any number of  *)
(* processes, command lines, environments, migrations and kills.           *)
(***************************************************************************)
EXTENDS Process, StorageProofs

USE ProcessAssumption

(***************************************************************************)
(* The requests and hops of different processes are different callers.     *)
(***************************************************************************)

LEMMA CallersOf ==
    ASSUME NEW p \in Procs
    PROVE  /\ ApiRequest(p) \in Callers /\ WorkerHop(p) \in Callers
           /\ Goroutines(p) \subseteq Callers
           /\ ApiRequest(p) # WorkerHop(p)
<1>1. Goroutines(p) \subseteq Callers
  OBVIOUS
<1> QED
  BY <1>1 DEF Goroutines, ApiRequest, WorkerHop

LEMMA CallerOf ==
    ASSUME NEW c \in Callers
    PROVE  \E p \in Procs : c \in Goroutines(p)
OBVIOUS

LEMMA CallersApart ==
    ASSUME NEW p \in Procs, NEW q \in Procs, p # q
    PROVE  Goroutines(p) \cap Goroutines(q) = {}
BY DEF Goroutines, ApiRequest, WorkerHop

(***************************************************************************)
(* Every step is a step of the store, or leaves it alone.                  *)
(***************************************************************************)

LEMMA CancelCuts ==
    ASSUME cut \subseteq Callers, NEW p \in Procs, CancelContext(p)
    PROVE  cut' \subseteq Callers
BY CallersOf DEF CancelContext, Goroutines

LEMMA RunCuts ==
    ASSUME NEW p \in Procs, Run(p)
    PROVE  cut' = cut /\ UNCHANGED <<env, argv, kills, active>> /\ Frame
<1>1. Frame
  BY DEF Run
<1>2. cut' = cut
  BY DEF Run, Stop, CloseListener, Drained, DrainTimesOut, ConsumeStops,
         GroupEnds, ClosePool
<1>3. active' = active
  <2>1. ASSUME Startup(p) PROVE active' = active
    BY <2>1 DEF Startup, Load, Connect, LockSchema, ApplyNext, SchemaReady,
                MigrationFails, OpenStore, StartGroup, groupVars
  <2>2. ASSUME Stop(p) PROVE active' = active
    BY <2>2 DEF Stop, CloseListener, Drained, DrainTimesOut, ConsumeStops,
                GroupEnds, ClosePool, groupVars
  <2> QED
    BY <2>1, <2>2 DEF Run
<1> QED
  BY <1>1, <1>2, <1>3 DEF Frame

LEMMA DisturbedCuts ==
    ASSUME cut \subseteq Callers, active \subseteq Callers,
           NEW p \in Procs, Disturbed(p)
    PROVE  cut' \subseteq Callers /\ Frame
<1>1. Frame
  BY DEF Disturbed
<1>2. CASE ServeFails(p) \/ ConsumeFails(p) \/ Sigterm(p)
  <2>1. CancelContext(p)
    BY <1>2 DEF ServeFails, ConsumeFails, LoopFails, Sigterm
  <2> QED
    BY <1>1, <2>1, CancelCuts
<1>3. CASE AcceptRequest(p) \/ DequeueHop(p) \/ HangUp(p)
  BY <1>1, <1>3, CallersOf DEF AcceptRequest, DequeueHop, HangUp
<1> QED
  BY <1>2, <1>3 DEF Disturbed

LEMMA FramedStep ==
    ASSUME Frame, cut' \subseteq Callers
    PROVE  StorageNext
BY DEF Frame, StorageNext

LEMMA StorageStep ==
    ASSUME cut \subseteq Callers, active \subseteq Callers, [ProcessNext]_vars
    PROVE  [StorageNext]_storageVars
<1>1. ASSUME NEW p \in Procs, Run(p) \/ Disturbed(p)
      PROVE  StorageNext
  BY <1>1, RunCuts, DisturbedCuts, FramedStep
<1>2. ASSUME NEW p \in Procs, Exit(p) \/ Kill(p)
      PROVE  StorageNext
  <2>1. End(active \cap Goroutines(p))
    BY <1>2 DEF Exit, Kill, EndGoroutines
  <2>2. active \cap Goroutines(p) \in SUBSET Callers
    OBVIOUS
  <2> QED
    BY <2>1, <2>2 DEF StorageNext
<1>3. ASSUME NEW c \in Callers, Works(c)
      PROVE  StorageNext
  <2>1. CASE Calls(c) \/ Served(c)
    BY <2>1 DEF Calls, Served, StorageNext
  <2>2. CASE EndWork(c) /\ Frame
    <3>1. cut' \subseteq Callers
      BY <2>2 DEF EndWork
    <3> QED
      BY <2>2, <3>1, FramedStep
  <2> QED
    BY <1>3, <2>1, <2>2 DEF Works
<1>4. ASSUME UNCHANGED vars PROVE UNCHANGED storageVars
  BY <1>4 DEF vars
<1> QED
  BY <1>1, <1>2, <1>3, <1>4 DEF ProcessNext

(***************************************************************************)
(* The migration lock.                                                     *)
(***************************************************************************)

\* Whoever applies migrations holds the lock and knows which ones are missing;
\* they have been applied in order.
SchemaInv ==
    /\ \A p \in Procs :
          stage[p] = "apply" =>
              /\ locker = p
              /\ plan[p] = {m \in 1 .. Migrations : applied[m] = 0}
    /\ \A m \in 1 .. Migrations :
          applied[m] = 1 => \A n \in 1 .. m : applied[n] = 1

SchemaTypes ==
    /\ stage \in [Procs -> Stages]
    /\ locker \in Procs \cup {None}
    /\ plan \in [Procs -> SUBSET (1 .. Migrations)]
    /\ applied \in [1 .. Migrations -> 0 .. 1]

\* A step of p that does not touch the schema, and leaves "apply" if at all with
\* the lock.
LEMMA SchemaKept ==
    ASSUME SchemaTypes, SchemaInv, NEW p \in Procs,
           applied' = applied,
           locker' \in {locker, None}, locker # p => locker' = locker,
           \A q \in Procs \ {p} : stage'[q] = stage[q] /\ plan'[q] = plan[q],
           stage'[p] # "apply"
    PROVE  SchemaInv'
BY DEF SchemaInv, SchemaTypes

LEMMA SchemaUnchanged ==
    ASSUME SchemaInv, UNCHANGED <<applied, locker, plan, stage>>
    PROVE  SchemaInv'
BY DEF SchemaInv

\* Nobody else applies migrations when p takes the lock.
LEMMA LockSchemaInv ==
    ASSUME SchemaTypes, SchemaInv, NEW p \in Procs, LockSchema(p)
    PROVE  SchemaInv' /\ SchemaTypes'
<1>1. /\ stage' = [stage EXCEPT ![p] = "apply"]
      /\ plan' = [plan EXCEPT ![p] = {m \in 1 .. Migrations : applied[m] = 0}]
      /\ locker = None /\ locker' = p /\ applied' = applied
  BY DEF LockSchema, Advance, Reach
<1>2. SchemaTypes'
  BY <1>1 DEF SchemaTypes, Stages
<1>3. ASSUME NEW q \in Procs, stage'[q] = "apply"
      PROVE  q = p
  BY <1>1, <1>3 DEF SchemaInv, SchemaTypes
<1> QED
  BY <1>1, <1>2, <1>3 DEF SchemaInv, SchemaTypes

\* The lowest pending migration comes after all that have been applied.
LEMMA ApplyNextInv ==
    ASSUME SchemaTypes, SchemaInv, NEW p \in Procs, ApplyNext(p)
    PROVE  SchemaInv' /\ SchemaTypes'
<1>1. PICK m \in plan[p] :
         /\ \A n \in plan[p] : m <= n
         /\ applied' = [applied EXCEPT ![m] = @ + 1]
         /\ plan' = [plan EXCEPT ![p] = @ \ {m}]
  BY DEF ApplyNext
<1>2. /\ stage[p] = "apply" /\ locker = p
      /\ plan[p] = {i \in 1 .. Migrations : applied[i] = 0}
      /\ stage' = stage /\ locker' = locker
  BY DEF ApplyNext, SchemaInv
<1>3. m \in 1 .. Migrations /\ applied[m] = 0
  BY <1>1, <1>2
<1>4. applied' = [applied EXCEPT ![m] = 1]
  BY <1>1, <1>3
<1>5. SchemaTypes'
  BY <1>1, <1>2, <1>3, <1>4 DEF SchemaTypes
<1>6. \A q \in Procs : stage[q] = "apply" => q = p
  BY <1>2 DEF SchemaInv
<1>7. plan'[p] = {i \in 1 .. Migrations : applied'[i] = 0}
  BY <1>1, <1>2, <1>3, <1>4 DEF SchemaTypes
<1>8. ASSUME NEW i \in 1 .. Migrations, applied'[i] = 1, NEW n \in 1 .. i
      PROVE  applied'[n] = 1
  <2>1. n \in 1 .. Migrations
    OBVIOUS
  <2>2. CASE i = m
    <3>1. n < m => n \notin plan[p]
      BY <1>1, <1>2, <2>1
    <3> QED
      BY <1>2, <1>4, <2>1, <2>2, <3>1 DEF SchemaTypes
  <2>3. CASE i # m
    BY <1>4, <1>8, <2>1, <2>3 DEF SchemaTypes, SchemaInv
  <2> QED
    BY <2>2, <2>3
<1> QED
  BY <1>2, <1>5, <1>6, <1>7, <1>8 DEF SchemaInv

LEMMA LeavesSchema ==
    ASSUME SchemaTypes, SchemaInv, NEW p \in Procs,
           SchemaReady(p) \/ MigrationFails(p)
    PROVE  SchemaInv' /\ SchemaTypes'
<1>1. PICK s \in {"closing", "store"} : stage' = [stage EXCEPT ![p] = s]
  BY DEF SchemaReady, MigrationFails, Advance, Quit, Reach, AfterSchema
<1>2. /\ locker' = IF locker = p THEN None ELSE locker
      /\ applied' = applied
      /\ plan' = [plan EXCEPT ![p] = {}] \/ plan' = plan
  BY DEF SchemaReady, MigrationFails, Unlock
<1>3. SchemaTypes'
  BY <1>1, <1>2 DEF SchemaTypes, Stages
<1>4. \A q \in Procs \ {p} : stage'[q] = stage[q] /\ plan'[q] = plan[q]
  BY <1>1, <1>2 DEF SchemaTypes
<1>5. stage'[p] # "apply"
  BY <1>1 DEF SchemaTypes
<1> QED
  BY <1>2, <1>3, <1>4, <1>5, SchemaKept

\* Startup before and after the migrations, and what happens after it, moves
\* one process to another stage and leaves the schema alone.
LEMMA MovesStage ==
    ASSUME SchemaTypes, SchemaInv, NEW p \in Procs, NEW s \in Stages,
           s # "apply", stage' = [stage EXCEPT ![p] = s], UNCHANGED schemaVars
    PROVE  SchemaInv' /\ SchemaTypes'
<1>1. SchemaTypes'
  BY DEF SchemaTypes, schemaVars
<1>2. stage'[p] # "apply" /\ \A q \in Procs \ {p} : stage'[q] = stage[q]
  BY DEF SchemaTypes
<1> QED
  BY <1>1, <1>2, SchemaKept DEF schemaVars

LEMMA StartupMoves ==
    ASSUME NEW p \in Procs, Load(p) \/ Connect(p) \/ OpenStore(p) \/ StartGroup(p)
    PROVE  /\ UNCHANGED schemaVars
           /\ \E s \in Stages \ {"apply"} : stage' = [stage EXCEPT ![p] = s]
<1>1. UNCHANGED schemaVars
  BY DEF Load, Connect, OpenStore, StartGroup
<1>2. CASE Load(p)
  BY <1>2 DEF Load, Advance, Reach, Stages
<1>3. CASE Connect(p)
  BY <1>3 DEF Connect, Advance, Reach, Stages, AfterSchema
<1>4. CASE OpenStore(p)
  BY <1>4 DEF OpenStore, Advance, Quit, Reach, Stages
<1>5. CASE StartGroup(p)
  BY <1>5 DEF StartGroup, Advance, Quit, Reach, Stages
<1> QED
  BY <1>1, <1>2, <1>3, <1>4, <1>5

LEMMA StopMoves ==
    ASSUME NEW p \in Procs, Stop(p)
    PROVE  /\ UNCHANGED schemaVars
           /\ stage' = stage \/ stage' = [stage EXCEPT ![p] = "closing"]
BY DEF Stop, CloseListener, Drained, DrainTimesOut, ConsumeStops, GroupEnds,
       ClosePool, Reach, LoopEnds

LEMMA DisturbedMoves ==
    ASSUME NEW p \in Procs, Disturbed(p)
    PROVE  UNCHANGED <<schemaVars, stage, pool>>
BY DEF Disturbed, ServeFails, ConsumeFails, LoopFails, AcceptRequest,
       DequeueHop, Begin, HangUp, Sigterm

LEMMA WorksMoves ==
    ASSUME NEW c \in Callers, Works(c)
    PROVE  UNCHANGED <<env, argv, kills, cancelled, schemaVars, stage, pool,
                       loops, errs>>
<1>1. CASE Calls(c) \/ Served(c)
  BY <1>1 DEF Calls, Served, processVars, groupVars
<1>2. CASE EndWork(c) /\ Frame
  BY <1>2 DEF EndWork, Frame
<1> QED
  BY <1>1, <1>2 DEF Works

LEMMA KillSchema ==
    ASSUME SchemaTypes, SchemaInv, NEW p \in Procs, Kill(p)
    PROVE  SchemaInv' /\ SchemaTypes'
<1>1. /\ stage' = [stage EXCEPT ![p] = "killed"]
      /\ locker' = IF locker = p THEN None ELSE locker
      /\ plan' = [plan EXCEPT ![p] = {}] /\ applied' = applied
  BY DEF Kill, Reach, Unlock
<1>2. SchemaTypes'
  BY <1>1 DEF SchemaTypes, Stages
<1>3. /\ stage'[p] # "apply"
      /\ \A q \in Procs \ {p} : stage'[q] = stage[q] /\ plan'[q] = plan[q]
  BY <1>1 DEF SchemaTypes
<1> QED
  BY <1>1, <1>2, <1>3, SchemaKept

LEMMA SchemaStep ==
    ASSUME SchemaTypes, SchemaInv, [ProcessNext]_vars
    PROVE  SchemaInv' /\ SchemaTypes'
<1>1. ASSUME UNCHANGED <<applied, locker, plan, stage>>
      PROVE  SchemaInv' /\ SchemaTypes'
  BY <1>1, SchemaUnchanged DEF SchemaTypes
<1>2. ASSUME NEW p \in Procs, Run(p) PROVE SchemaInv' /\ SchemaTypes'
  <2>1. CASE Load(p) \/ Connect(p) \/ OpenStore(p) \/ StartGroup(p)
    <3>1. PICK s \in Stages \ {"apply"} : stage' = [stage EXCEPT ![p] = s]
      BY <2>1, StartupMoves
    <3> QED
      BY <2>1, <3>1, StartupMoves, MovesStage
  <2>2. CASE LockSchema(p) \/ ApplyNext(p) \/ SchemaReady(p) \/ MigrationFails(p)
    BY <2>2, LockSchemaInv, ApplyNextInv, LeavesSchema
  <2>3. CASE Stop(p)
    <3>1. "closing" \in Stages
      BY DEF Stages
    <3> QED
      BY <1>1, <2>3, <3>1, StopMoves, MovesStage DEF schemaVars
  <2> QED
    BY <1>2, <2>1, <2>2, <2>3 DEF Run, Startup
<1>3. ASSUME NEW p \in Procs, Disturbed(p) PROVE SchemaInv' /\ SchemaTypes'
  BY <1>1, <1>3, DisturbedMoves DEF schemaVars
<1>4. ASSUME NEW p \in Procs, Exit(p) PROVE SchemaInv' /\ SchemaTypes'
  <2>1. /\ stage' = [stage EXCEPT ![p] = "exited"] /\ UNCHANGED schemaVars
        /\ "exited" \in Stages
    BY <1>4 DEF Exit, Reach, Stages
  <2> QED
    BY <2>1, MovesStage
<1>5. ASSUME NEW p \in Procs, Kill(p) PROVE SchemaInv' /\ SchemaTypes'
  BY <1>5, KillSchema
<1>6. ASSUME NEW c \in Callers, Works(c) PROVE SchemaInv' /\ SchemaTypes'
  BY <1>1, <1>6, WorksMoves DEF schemaVars
<1> QED
  BY <1>1, <1>2, <1>3, <1>4, <1>5, <1>6
     DEF ProcessNext, vars, processVars, schemaVars

(***************************************************************************)
(* Types of the rest.                                                      *)
(***************************************************************************)

GroupTypes ==
    /\ env \in Environments
    /\ argv \in Deployments
    /\ stage \in [Procs -> Stages]
    /\ pool \in [Procs -> {"none", "open", "closed"}]
    /\ cancelled \subseteq Procs
    /\ loops \in [Procs -> SUBSET {"serve", "drain", "consume"}]
    /\ active \subseteq Callers
    /\ errs \in [Procs -> SUBSET Reasons]
    /\ kills \in 0 .. MaxKills

LEMMA StartupTypes ==
    ASSUME GroupTypes, NEW p \in Procs, Startup(p), UNCHANGED <<env, argv, kills>>
    PROVE  GroupTypes'
<1>1. ASSUME NEW s \in Stages, NEW r \in Reasons,
             stage' = [stage EXCEPT ![p] = s],
             errs' = errs \/ errs' = [errs EXCEPT ![p] = @ \cup {r}]
      PROVE  stage' \in [Procs -> Stages] /\ errs' \in [Procs -> SUBSET Reasons]
  BY <1>1 DEF GroupTypes
<1>2. CASE Load(p)
  BY <1>1, <1>2 DEF Load, Advance, Reach, Blame, GroupTypes, groupVars, Stages,
                    Reasons
<1>3. CASE Connect(p)
  <2>1. PICK s \in Stages, r \in Reasons :
            /\ stage' = [stage EXCEPT ![p] = s]
            /\ errs' = errs \/ errs' = [errs EXCEPT ![p] = @ \cup {r}]
    BY <1>3 DEF Connect, Advance, Reach, Blame, AfterSchema, Stages, Reasons
  <2>2. stage' \in [Procs -> Stages] /\ errs' \in [Procs -> SUBSET Reasons]
    BY <1>1, <2>1
  <2>3. pool' = pool \/ pool' = [pool EXCEPT ![p] = "open"]
    BY <1>3 DEF Connect
  <2>4. pool' \in [Procs -> {"none", "open", "closed"}]
    BY <2>3 DEF GroupTypes
  <2>5. UNCHANGED groupVars
    BY <1>3 DEF Connect
  <2> QED
    BY <2>2, <2>4, <2>5 DEF GroupTypes, groupVars
<1>4. CASE LockSchema(p) \/ ApplyNext(p) \/ SchemaReady(p)
  <2>1. /\ \/ stage' = stage
           \/ \E s \in Stages : stage' = [stage EXCEPT ![p] = s]
        /\ UNCHANGED <<pool, errs, groupVars>>
    BY <1>4 DEF LockSchema, ApplyNext, SchemaReady, Advance, Reach,
                AfterSchema, Stages
  <2> QED
    BY <2>1 DEF GroupTypes, groupVars
<1>5. CASE MigrationFails(p)
  BY <1>1, <1>5 DEF MigrationFails, Quit, Reach, Blame, GroupTypes, groupVars,
                    Stages, Reasons
<1>6. CASE OpenStore(p)
  BY <1>1, <1>6 DEF OpenStore, Quit, Advance, Reach, Blame, GroupTypes,
                    groupVars, Stages, Reasons
<1>7. CASE StartGroup(p)
  <2>1. GroupOf(p) \in SUBSET {"serve", "drain", "consume"}
    BY DEF GroupOf
  <2>2. loops' = loops \/ loops' = [loops EXCEPT ![p] = GroupOf(p)]
    BY <1>7 DEF StartGroup
  <2>3. loops' \in [Procs -> SUBSET {"serve", "drain", "consume"}]
    BY <2>1, <2>2 DEF GroupTypes
  <2>4. stage' \in [Procs -> Stages] /\ errs' \in [Procs -> SUBSET Reasons]
    BY <1>1, <1>7 DEF StartGroup, Quit, Advance, Reach, Blame, Stages, Reasons
  <2> QED
    BY <1>7, <2>3, <2>4 DEF StartGroup, GroupTypes
<1> QED
  BY <1>2, <1>3, <1>4, <1>5, <1>6, <1>7 DEF Startup

LEMMA StopTypes ==
    ASSUME GroupTypes, NEW p \in Procs, Stop(p), UNCHANGED <<env, argv, kills>>
    PROVE  GroupTypes'
<1>1. CASE GroupEnds(p) \/ ClosePool(p)
  BY <1>1 DEF GroupEnds, ClosePool, Reach, GroupTypes, groupVars, Stages
<1>2. CASE CloseListener(p) \/ Drained(p) \/ ConsumeStops(p)
  BY <1>2 DEF CloseListener, Drained, ConsumeStops, LoopEnds, GroupTypes
<1>3. CASE DrainTimesOut(p)
  BY <1>3 DEF DrainTimesOut, LoopEnds, Blame, GroupTypes, Reasons
<1> QED
  BY <1>1, <1>2, <1>3 DEF Stop

LEMMA DisturbedTypes ==
    ASSUME GroupTypes, NEW p \in Procs, Disturbed(p)
    PROVE  GroupTypes'
<1>1. UNCHANGED <<env, argv, kills>>
  BY DEF Disturbed, Frame
<1>2. CASE ServeFails(p) \/ ConsumeFails(p)
  <2>1. PICK l \in {"serve", "consume"}, r \in Reasons :
           /\ loops' = [loops EXCEPT ![p] = @ \ {l}]
           /\ errs' = [errs EXCEPT ![p] = @ \cup {r}]
    BY <1>2 DEF ServeFails, ConsumeFails, LoopFails, LoopEnds, Blame, Reasons
  <2> QED
    BY <1>1, <1>2, <2>1 DEF ServeFails, ConsumeFails, LoopFails, CancelContext,
                            GroupTypes
<1>3. CASE AcceptRequest(p) \/ DequeueHop(p)
  BY <1>1, <1>3, CallersOf DEF AcceptRequest, DequeueHop, Begin, GroupTypes
<1>4. CASE HangUp(p) \/ Sigterm(p)
  BY <1>1, <1>4 DEF HangUp, Sigterm, CancelContext, GroupTypes, groupVars
<1> QED
  BY <1>2, <1>3, <1>4 DEF Disturbed

LEMMA GroupTypesStep ==
    ASSUME GroupTypes, [ProcessNext]_vars
    PROVE  GroupTypes'
<1>1. ASSUME NEW p \in Procs, Run(p) PROVE GroupTypes'
  BY <1>1, StartupTypes, StopTypes DEF Run, Frame
<1>2. ASSUME NEW p \in Procs, Disturbed(p) PROVE GroupTypes'
  BY <1>2, DisturbedTypes
<1>3. ASSUME NEW p \in Procs, Exit(p) PROVE GroupTypes'
  BY <1>3 DEF Exit, EndGoroutines, Reach, GroupTypes, Stages
<1>4. ASSUME NEW p \in Procs, Kill(p) PROVE GroupTypes'
  BY <1>4 DEF Kill, EndGoroutines, Reach, GroupTypes, Stages
<1>5. ASSUME NEW c \in Callers, Works(c) PROVE GroupTypes'
  <2>1. CASE Calls(c) \/ Served(c)
    BY <2>1 DEF Calls, Served, processVars, groupVars, GroupTypes
  <2>2. CASE EndWork(c) /\ Frame
    BY <2>2 DEF EndWork, Frame, GroupTypes
  <2> QED
    BY <1>5, <2>1, <2>2 DEF Works
<1>6. ASSUME UNCHANGED vars PROVE GroupTypes'
  BY <1>6 DEF vars, processVars, groupVars, GroupTypes
<1> QED
  BY <1>1, <1>2, <1>3, <1>4, <1>5, <1>6 DEF ProcessNext

(***************************************************************************)
(* The invariant.                                                          *)
(***************************************************************************)

BaseInv == StorageInv /\ TempsInv /\ GroupTypes /\ SchemaTypes /\ SchemaInv

LEMMA BaseInit == ProcessInit => BaseInv
<1> SUFFICES ASSUME ProcessInit PROVE BaseInv
  OBVIOUS
<1>1. StorageInv
  BY StorageInitOK DEF ProcessInit
<1>2. TempsInv
  BY TempsInit DEF ProcessInit
<1>3. GroupTypes /\ SchemaTypes /\ SchemaInv
  BY DEF ProcessInit, GroupTypes, SchemaTypes, SchemaInv, Stages, Reasons
<1> QED
  BY <1>1, <1>2, <1>3 DEF BaseInv

LEMMA BaseStep ==
    ASSUME BaseInv, [ProcessNext]_vars
    PROVE  BaseInv'
<1>1. cut \subseteq Callers /\ active \subseteq Callers
  BY DEF BaseInv, StorageInv, StorageTypeOK, GroupTypes
<1>2. [StorageNext]_storageVars
  BY <1>1, StorageStep
<1>3. StorageInv' /\ TempsInv'
  BY <1>2, StorageStepInv, TempsStep DEF BaseInv, TempsKept
<1>4. GroupTypes' /\ SchemaTypes' /\ SchemaInv'
  BY GroupTypesStep, SchemaStep DEF BaseInv
<1> QED
  BY <1>3, <1>4 DEF BaseInv

THEOREM ProcessBase == ProcessSpec => []BaseInv
<1>1. BaseInv /\ [ProcessNext]_vars => BaseInv'
  BY BaseStep
<1> QED
  BY BaseInit, <1>1, PTL DEF ProcessSpec

\* The variables hold what run(), its errgroup and the stores put there.
THEOREM ProcessTypes == ProcessSpec => []ProcessTypeOK
<1>1. BaseInv => ProcessTypeOK
  BY DEF BaseInv, StorageInv, GroupTypes, SchemaTypes, ProcessTypeOK
<1> QED
  BY ProcessBase, <1>1, PTL

\* The stores of a deployment whose processes start, are stopped and are killed
\* at any time are the store of storage.go's interface (main.go, newBlobStore).
THEOREM ProcessImplementsAtomicStore == ProcessSpec => ImplementsAtomicStore
<1>1. ProcessInit => StorageInit
  BY DEF ProcessInit
<1>2. BaseInv /\ [ProcessNext]_vars => [StorageNext]_storageVars
  BY StorageStep DEF BaseInv, StorageInv, StorageTypeOK, GroupTypes
<1>3. ProcessSpec => StorageSpec
  BY ProcessBase, <1>1, <1>2, PTL DEF ProcessSpec, StorageSpec
<1> QED
  BY <1>3, StorageImplementsAtomicStore

\* Where a call of the store stands fits the call, in every process.
THEOREM ProcessStorageInv == ProcessSpec => []StorageInv
<1>1. BaseInv => StorageInv
  BY DEF BaseInv
<1> QED
  BY ProcessBase, <1>1, PTL

\* In a process that is stopped or killed at any time, too, only a Put that has
\* failed or was cut off can leave its temporary file behind (local.go).
THEOREM ProcessNoStrayTemps == ProcessSpec => NoStrayTemps
<1>1. ProcessInit => StorageInit
  BY DEF ProcessInit
<1>2. BaseInv /\ [ProcessNext]_vars => [StorageNext]_storageVars
  BY StorageStep DEF BaseInv, StorageInv, StorageTypeOK, GroupTypes
<1>3. ProcessSpec => StorageSpec
  BY ProcessBase, <1>1, <1>2, PTL DEF ProcessSpec, StorageSpec
<1> QED
  BY <1>3, StorageNoStrayTemps

\* However many processes migrate, are stopped or are killed half-way, a version
\* is applied once, after the ones before it (migrate.go).
THEOREM ProcessMigratedOnce == ProcessSpec => []MigratedOnce
<1>1. BaseInv => MigratedOnce
  BY DEF BaseInv, SchemaTypes, SchemaInv, MigratedOnce
<1> QED
  BY ProcessBase, <1>1, PTL

(***************************************************************************)
(* Each process: its start, its group and its end.                         *)
(***************************************************************************)

\* What run() has established at each stage.
StartInv(p) ==
    /\ stage[p] \in {"start", "connect"} => pool[p] = "none"
    /\ pool[p] = "closed" => stage[p] \in {"closing", "exited"}
    /\ stage[p] \notin {"start", "exited", "killed"} => Valid(env)
    /\ Migrates(p) /\ PastSchema(p) => SchemaCurrent
    /\ errs[p] \cap {"no root", "no bucket", "unsupported backend"} = {}

\* Requests and hops belong to a goroutine of the group that waits for them, or
\* to a drain whose deadline has passed.
LoopInv(p) ==
    /\ loops[p] # {} => stage[p] = "up"
    /\ "serve" \in loops[p] => "drain" \in loops[p]
    /\ WorkerHop(p) \in active => "consume" \in loops[p]
    /\ ApiRequest(p) \in active => "drain" \in loops[p] \/ "shutdown" \in errs[p]
    /\ ApiRequest(p) \in active => stage[p] \in {"up", "closing"}

\* A goroutine is cut off only where an error says so, or by a kill.
GoneInv(p) ==
    (\E c \in Goroutines(p) : at[c] = "gone")
        => stage[p] = "killed" \/ (stage[p] = "exited" /\ errs[p] # {})

StageInv(p) == StartInv(p) /\ LoopInv(p) /\ GoneInv(p)

\* Everything that p does not write is as it was.
Elsewhere(p) ==
    /\ UNCHANGED <<env, argv>>
    /\ \A q \in Procs \ {p} :
          /\ stage'[q] = stage[q] /\ pool'[q] = pool[q]
          /\ loops'[q] = loops[q] /\ errs'[q] = errs[q]
    /\ \A c \in Callers \ Goroutines(p) :
          (c \in active') = (c \in active) /\ at'[c] = at[c]

LEMMA ElsewhereKeeps ==
    ASSUME NEW p \in Procs, Elsewhere(p), SchemaCurrent => SchemaCurrent',
           \A q \in Procs : StageInv(q), StageInv(p)'
    PROVE  \A q \in Procs : StageInv(q)'
<1> SUFFICES ASSUME NEW q \in Procs, q # p PROVE StageInv(q)'
  OBVIOUS
<1>1. StageInv(q)
  OBVIOUS
<1>2. /\ stage'[q] = stage[q] /\ pool'[q] = pool[q] /\ loops'[q] = loops[q]
      /\ errs'[q] = errs[q] /\ env' = env /\ argv' = argv
  BY DEF Elsewhere
<1>3. Goroutines(q) \subseteq Callers \ Goroutines(p)
  BY CallersOf, CallersApart
<1>4. \A c \in Goroutines(q) : (c \in active') = (c \in active) /\ at'[c] = at[c]
  BY <1>3 DEF Elsewhere
<1>5. StartInv(q)'
  BY <1>1, <1>2 DEF StageInv, StartInv, Migrates, PastSchema
<1>6. LoopInv(q)'
  BY <1>1, <1>2, <1>4 DEF StageInv, LoopInv, Goroutines
<1>7. GoneInv(q)'
  BY <1>1, <1>2, <1>4 DEF StageInv, GoneInv
<1> QED
  BY <1>5, <1>6, <1>7 DEF StageInv

\* A schema that is up to date stays so: nothing is pending.
LEMMA SchemaStays ==
    ASSUME BaseInv, [ProcessNext]_vars, SchemaCurrent
    PROVE  SchemaCurrent'
<1>1. ASSUME NEW p \in Procs, ApplyNext(p) PROVE FALSE
  BY <1>1 DEF ApplyNext, BaseInv, SchemaInv, SchemaCurrent
<1>2. ASSUME applied' = applied PROVE SchemaCurrent'
  BY <1>2 DEF SchemaCurrent
<1>3. ASSUME NEW p \in Procs, Run(p) PROVE applied' = applied
  <2>1. CASE Load(p) \/ Connect(p) \/ OpenStore(p) \/ StartGroup(p)
    BY <2>1, StartupMoves DEF schemaVars
  <2>2. CASE LockSchema(p) \/ SchemaReady(p) \/ MigrationFails(p)
    BY <2>2 DEF LockSchema, SchemaReady, MigrationFails
  <2>3. CASE Stop(p)
    BY <2>3, StopMoves DEF schemaVars
  <2> QED
    BY <1>1, <1>3, <2>1, <2>2, <2>3 DEF Run, Startup
<1>4. ASSUME NEW p \in Procs, Disturbed(p) \/ Exit(p) \/ Kill(p)
      PROVE  applied' = applied
  BY <1>4, DisturbedMoves DEF Exit, Kill, schemaVars
<1>5. ASSUME NEW c \in Callers, Works(c) PROVE applied' = applied
  BY <1>5, WorksMoves DEF schemaVars
<1>6. ASSUME UNCHANGED vars PROVE applied' = applied
  BY <1>6 DEF vars, processVars, schemaVars
<1> QED
  BY <1>2, <1>3, <1>4, <1>5, <1>6 DEF ProcessNext

\* A startup step moves its process, may say what went wrong, and leaves the
\* group alone until the group starts.
LEMMA StartupEffect ==
    ASSUME NEW p \in Procs, Startup(p)
    PROVE  /\ UNCHANGED active
           /\ stage[p] \in {"start", "connect", "migrate", "apply", "store",
                            "build"}
           /\ stage' = stage \/ \E s : stage' = [stage EXCEPT ![p] = s]
           /\ pool' = pool \/ pool' = [pool EXCEPT ![p] = "open"]
           /\ errs' = errs \/ \E r : errs' = [errs EXCEPT ![p] = @ \cup {r}]
           /\ loops' = loops
                \/ /\ stage[p] = "build" /\ stage' = [stage EXCEPT ![p] = "up"]
                   /\ loops' = [loops EXCEPT ![p] = GroupOf(p)]
<1>1. CASE Load(p)
  BY <1>1 DEF Load, Advance, Reach, Blame, groupVars
<1>2. CASE Connect(p)
  BY <1>2 DEF Connect, Advance, Reach, Blame, groupVars
<1>3. CASE LockSchema(p) \/ ApplyNext(p) \/ SchemaReady(p)
  BY <1>3 DEF LockSchema, ApplyNext, SchemaReady, Advance, Reach, groupVars
<1>4. CASE MigrationFails(p)
  BY <1>4 DEF MigrationFails, Quit, Reach, Blame, groupVars
<1>5. CASE OpenStore(p)
  BY <1>5 DEF OpenStore, Quit, Advance, Reach, Blame, groupVars
<1>6. CASE StartGroup(p)
  BY <1>6 DEF StartGroup, Quit, Advance, Reach, Blame
<1> QED
  BY <1>1, <1>2, <1>3, <1>4, <1>5, <1>6 DEF Startup

LEMMA StartupElsewhere ==
    ASSUME GroupTypes, NEW p \in Procs, Startup(p), Frame
    PROVE  Elsewhere(p) /\ errs[p] \subseteq errs'[p]
<1>1. UNCHANGED <<env, argv, at, active>>
  BY StartupEffect DEF Frame, callVars
<1>2. ASSUME NEW q \in Procs \ {p}
      PROVE  stage'[q] = stage[q] /\ pool'[q] = pool[q]
  BY StartupEffect DEF GroupTypes
<1>3. ASSUME NEW q \in Procs \ {p}
      PROVE  loops'[q] = loops[q] /\ errs'[q] = errs[q]
  BY StartupEffect DEF GroupTypes
<1>4. errs[p] \subseteq errs'[p]
  BY StartupEffect DEF GroupTypes
<1> QED
  BY <1>1, <1>2, <1>3, <1>4 DEF Elsewhere

LEMMA StartupStartInv ==
    ASSUME BaseInv, NEW p \in Procs, StartInv(p), Startup(p), Frame,
           SchemaCurrent => SchemaCurrent'
    PROVE  StartInv(p)'
<1>1. /\ GroupTypes /\ UNCHANGED <<env, argv>>
      /\ Migrates(p)' = Migrates(p) /\ Valid(env)' = Valid(env)
  BY DEF BaseInv, Frame, Migrates
<1>2. CASE Load(p)
  <2>1. /\ stage[p] = "start" /\ pool' = pool
        /\ stage'[p] \in {"exited", "connect"}
        /\ stage'[p] = "connect" => Valid(env)
        /\ errs'[p] \subseteq errs[p] \cup {"config"}
    BY <1>1, <1>2 DEF Load, Advance, Reach, Blame, GroupTypes
  <2> QED
    BY <1>1, <2>1 DEF StartInv, PastSchema
<1>3. CASE Connect(p)
  <2>1. /\ stage[p] = "connect"
        /\ \/ /\ pool'[p] = "open" /\ errs' = errs
              /\ stage'[p] \in {"migrate", "closing", "store"}
              /\ Migrates(p) => stage'[p] = "migrate"
           \/ /\ pool' = pool /\ stage'[p] = "exited"
              /\ errs'[p] = errs[p] \cup {"database"}
    BY <1>1, <1>3 DEF Connect, Advance, Reach, Blame, AfterSchema, GroupTypes
  <2> QED
    BY <1>1, <2>1 DEF StartInv, PastSchema
<1>4. CASE LockSchema(p) \/ ApplyNext(p)
  <2>1. /\ stage[p] \in {"migrate", "apply"} /\ stage'[p] = "apply"
        /\ pool' = pool /\ errs' = errs
    BY <1>1, <1>4 DEF LockSchema, ApplyNext, Advance, Reach, GroupTypes
  <2> QED
    BY <1>1, <2>1 DEF StartInv, PastSchema
<1>5. CASE SchemaReady(p)
  <2>1. /\ stage[p] = "apply" /\ stage'[p] \in {"closing", "store"}
        /\ pool' = pool /\ errs' = errs /\ applied' = applied /\ plan[p] = {}
    BY <1>1, <1>5 DEF SchemaReady, Advance, Reach, AfterSchema, GroupTypes
  <2>2. SchemaCurrent
    BY <2>1 DEF BaseInv, SchemaInv, SchemaTypes, SchemaCurrent
  <2> QED
    BY <1>1, <2>1, <2>2 DEF StartInv, PastSchema
<1>6. CASE MigrationFails(p)
  <2>1. /\ stage[p] \in {"migrate", "apply"} /\ stage'[p] = "closing"
        /\ pool' = pool /\ errs'[p] = errs[p] \cup {"migration"}
    BY <1>1, <1>6 DEF MigrationFails, Quit, Reach, Blame, GroupTypes
  <2> QED
    BY <1>1, <2>1 DEF StartInv, PastSchema
<1>7. CASE OpenStore(p)
  <2>1. stage[p] = "store" /\ Valid(env) /\ pool' = pool
    BY <1>7 DEF OpenStore, StartInv
  <2>2. ValidStorage(env)
    BY <2>1 DEF Valid
  <2>3. /\ stage'[p] \in {"build", "closing"}
        /\ errs'[p] \subseteq errs[p] \cup {"store"}
    BY <1>1, <1>7, <2>2
       DEF OpenStore, ValidStorage, Quit, Advance, Reach, Blame, GroupTypes
  <2>4. errs[p] \subseteq errs'[p]
    BY <1>1, StartupElsewhere
  <2> QED
    BY <1>1, <2>1, <2>3, <2>4 DEF StartInv, PastSchema
<1>8. CASE StartGroup(p)
  <2>1. /\ stage[p] = "build" /\ pool' = pool
        /\ stage'[p] \in {"up", "closing"}
        /\ errs[p] \subseteq errs'[p]
        /\ errs'[p] \subseteq errs[p] \cup {"clients", "router"}
    BY <1>1, <1>8 DEF StartGroup, Quit, Advance, Reach, Blame, GroupTypes
  <2> QED
    BY <1>1, <2>1 DEF StartInv, PastSchema
<1> QED
  BY <1>2, <1>3, <1>4, <1>5, <1>6, <1>7, <1>8 DEF Startup

LEMMA StartupStageInv ==
    ASSUME BaseInv, NEW p \in Procs, StageInv(p), Startup(p), Frame,
           SchemaCurrent => SchemaCurrent'
    PROVE  StageInv(p)' /\ Elsewhere(p)
<1>1. Elsewhere(p) /\ errs[p] \subseteq errs'[p]
  BY StartupElsewhere DEF BaseInv
<1>2. StartInv(p)'
  BY StartupStartInv DEF StageInv
<1>3. /\ UNCHANGED <<active, at>>
      /\ stage[p] \in {"start", "connect", "migrate", "apply", "store", "build"}
  BY StartupEffect DEF Frame, callVars
<1>4. loops[p] = {} /\ WorkerHop(p) \notin active
  BY <1>3 DEF StageInv, LoopInv
<1>5. \/ loops'[p] = {}
      \/ stage'[p] = "up" /\ loops'[p] = GroupOf(p)
  BY <1>4, StartupEffect DEF BaseInv, GroupTypes
<1>6. ApiRequest(p) \notin active
  BY <1>3 DEF StageInv, LoopInv
<1>7. "serve" \in loops'[p] => "drain" \in loops'[p]
  BY <1>5 DEF GroupOf
<1>8. LoopInv(p)'
  BY <1>1, <1>3, <1>4, <1>5, <1>6, <1>7 DEF LoopInv
<1>9. GoneInv(p)'
  BY <1>3 DEF StageInv, GoneInv
<1> QED
  BY <1>1, <1>2, <1>8, <1>9 DEF StageInv

(***************************************************************************)
(* The group, its requests and hops, and the end of the process.           *)
(***************************************************************************)

\* What a step of the group of p does to p: goroutines return, errors of theirs
\* are added.
Shrinks(p) ==
    /\ UNCHANGED <<env, argv, applied, active, at>>
    /\ loops' = loops \/ \E l : loops' = [loops EXCEPT ![p] = @ \ {l}]
    /\ errs' = errs \/ \E r \in {"serve", "worker", "shutdown"} :
                           errs' = [errs EXCEPT ![p] = @ \cup {r}]

LEMMA ShrinksElsewhere ==
    ASSUME GroupTypes, NEW p \in Procs, Shrinks(p),
           stage' = stage \/ stage' = [stage EXCEPT ![p] = "closing"],
           pool' = pool \/ pool' = [pool EXCEPT ![p] = "closed"]
    PROVE  /\ Elsewhere(p)
           /\ loops'[p] \subseteq loops[p]
           /\ errs[p] \subseteq errs'[p]
           /\ errs'[p] \subseteq errs[p] \cup {"serve", "worker", "shutdown"}
<1>1. ASSUME NEW q \in Procs \ {p}
      PROVE  /\ stage'[q] = stage[q] /\ pool'[q] = pool[q]
             /\ loops'[q] = loops[q] /\ errs'[q] = errs[q]
  BY DEF GroupTypes, Shrinks
<1>2. loops'[p] \subseteq loops[p]
  BY DEF GroupTypes, Shrinks
<1>3. /\ errs[p] \subseteq errs'[p]
      /\ errs'[p] \subseteq errs[p] \cup {"serve", "worker", "shutdown"}
  BY DEF GroupTypes, Shrinks
<1> QED
  BY <1>1, <1>2, <1>3 DEF Elsewhere, Shrinks

\* The errors of the group say nothing about the start.
LEMMA ShrinksStartInv ==
    ASSUME GroupTypes, NEW p \in Procs, StartInv(p), Shrinks(p),
           stage' = stage \/ (stage[p] = "up" /\ stage' = [stage EXCEPT ![p] = "closing"]),
           \/ pool' = pool
           \/ /\ stage' = stage /\ stage[p] = "closing" /\ pool[p] = "open"
              /\ pool' = [pool EXCEPT ![p] = "closed"]
    PROVE  StartInv(p)'
<1>1. /\ errs[p] \subseteq errs'[p]
      /\ errs'[p] \subseteq errs[p] \cup {"serve", "worker", "shutdown"}
  BY ShrinksElsewhere
<1>2. /\ env' = env /\ argv' = argv /\ applied' = applied
      /\ Migrates(p)' = Migrates(p) /\ SchemaCurrent' = SchemaCurrent
  BY DEF Shrinks, Migrates, SchemaCurrent
<1>3. \/ stage'[p] = stage[p] /\ pool'[p] = pool[p]
      \/ stage[p] = "up" /\ stage'[p] = "closing" /\ pool'[p] = pool[p]
      \/ /\ stage'[p] = "closing" /\ stage[p] = "closing"
         /\ pool[p] = "open" /\ pool'[p] = "closed"
  BY DEF GroupTypes
<1> QED
  BY <1>1, <1>2, <1>3 DEF StartInv, PastSchema

LEMMA StopStageInv ==
    ASSUME BaseInv, NEW p \in Procs, StageInv(p), Stop(p), Frame
    PROVE  StageInv(p)' /\ Elsewhere(p)
<1>1. /\ GroupTypes /\ at' = at /\ UNCHANGED <<env, argv>>
      /\ StartInv(p) /\ LoopInv(p) /\ GoneInv(p)
  BY DEF BaseInv, Frame, callVars, StageInv
<1>2. Shrinks(p)
  BY <1>1 DEF Stop, CloseListener, Drained, DrainTimesOut, ConsumeStops,
              GroupEnds, ClosePool, LoopEnds, Blame, Shrinks, schemaVars,
              groupVars
<1>3. stage' = stage \/ (stage[p] = "up" /\ stage' = [stage EXCEPT ![p] = "closing"])
  BY DEF Stop, CloseListener, Drained, DrainTimesOut, ConsumeStops, GroupEnds,
         ClosePool, Reach
<1>4. \/ pool' = pool
      \/ /\ stage' = stage /\ stage[p] = "closing" /\ pool[p] = "open"
         /\ pool' = [pool EXCEPT ![p] = "closed"]
  BY DEF Stop, CloseListener, Drained, DrainTimesOut, ConsumeStops, GroupEnds,
         ClosePool
<1>5. StartInv(p)'
  BY <1>1, <1>2, <1>3, <1>4, ShrinksStartInv
<1>6. /\ Elsewhere(p) /\ loops'[p] \subseteq loops[p]
      /\ errs[p] \subseteq errs'[p] /\ active' = active
  BY <1>1, <1>2, <1>3, <1>4, ShrinksElsewhere DEF Shrinks
<1>7. stage'[p] = stage[p] \/ (stage[p] = "up" /\ stage'[p] = "closing")
  BY <1>1, <1>3 DEF GroupTypes
<1>8. LoopInv(p)'
  <2>1. CASE CloseListener(p)
    <3>1. loops'[p] = loops[p] \ {"serve"} /\ stage' = stage
      BY <1>1, <2>1 DEF CloseListener, LoopEnds, GroupTypes
    <3> QED
      BY <1>1, <1>6, <3>1 DEF LoopInv
  <2>2. CASE Drained(p) \/ DrainTimesOut(p)
    <3>1. /\ loops'[p] = loops[p] \ {"drain"} /\ "serve" \notin loops[p]
          /\ ApiRequest(p) \in active => "shutdown" \in errs'[p]
          /\ stage' = stage
      BY <1>1, <2>2 DEF Drained, DrainTimesOut, Draining, LoopEnds, Blame,
                        GroupTypes
    <3> QED
      BY <1>1, <1>6, <3>1 DEF LoopInv
  <2>3. CASE ConsumeStops(p)
    <3>1. /\ loops'[p] = loops[p] \ {"consume"} /\ WorkerHop(p) \notin active
          /\ stage' = stage
      BY <1>1, <2>3 DEF ConsumeStops, LoopEnds, GroupTypes
    <3> QED
      BY <1>1, <1>6, <3>1 DEF LoopInv
  <2>4. CASE GroupEnds(p)
    <3>1. loops[p] = {} /\ stage'[p] = "closing"
      BY <1>1, <2>4 DEF GroupEnds, Reach, GroupTypes
    <3> QED
      BY <1>1, <1>6, <3>1 DEF LoopInv
  <2>5. CASE ClosePool(p)
    <3>1. loops' = loops /\ stage' = stage
      BY <2>5 DEF ClosePool, groupVars
    <3> QED
      BY <1>1, <1>6, <3>1 DEF LoopInv
  <2> QED
    BY <2>1, <2>2, <2>3, <2>4, <2>5 DEF Stop
<1>9. GoneInv(p)'
  BY <1>1, <1>6, <1>7 DEF GoneInv
<1> QED
  BY <1>5, <1>6, <1>8, <1>9 DEF StageInv

LEMMA FailStageInv ==
    ASSUME BaseInv, NEW p \in Procs, StageInv(p),
           ServeFails(p) \/ ConsumeFails(p), Frame
    PROVE  StageInv(p)' /\ Elsewhere(p)
<1>1. /\ GroupTypes /\ at' = at /\ UNCHANGED <<env, argv>>
      /\ StartInv(p) /\ LoopInv(p) /\ GoneInv(p)
  BY DEF BaseInv, Frame, callVars, StageInv
<1>2. UNCHANGED <<stage, pool, schemaVars, active>>
  BY DEF ServeFails, ConsumeFails, LoopFails
<1>3. PICK l \in {"serve", "consume"} :
         /\ l \in loops[p]
         /\ loops' = [loops EXCEPT ![p] = @ \ {l}]
         /\ l = "consume" => WorkerHop(p) \notin active
  BY DEF ServeFails, ConsumeFails, LoopFails, LoopEnds
<1>4. \E r \in {"serve", "worker"} : errs' = [errs EXCEPT ![p] = @ \cup {r}]
  BY DEF ServeFails, ConsumeFails, LoopFails, Blame
<1>5. Shrinks(p)
  BY <1>1, <1>2, <1>3, <1>4 DEF Shrinks, schemaVars
<1>6. StartInv(p)'
  BY <1>1, <1>2, <1>5, ShrinksStartInv
<1>7. Elsewhere(p) /\ errs[p] \subseteq errs'[p]
  BY <1>1, <1>2, <1>5, ShrinksElsewhere
<1>8. loops'[p] = loops[p] \ {l}
  BY <1>1, <1>3 DEF GroupTypes
<1>9. LoopInv(p)'
  BY <1>1, <1>2, <1>3, <1>7, <1>8 DEF LoopInv
<1>10. GoneInv(p)'
  BY <1>1, <1>2, <1>7 DEF GoneInv
<1> QED
  BY <1>6, <1>7, <1>9, <1>10 DEF StageInv

LEMMA BeginStageInv ==
    ASSUME BaseInv, NEW p \in Procs, StageInv(p),
           AcceptRequest(p) \/ DequeueHop(p) \/ HangUp(p) \/ Sigterm(p), Frame
    PROVE  StageInv(p)' /\ Elsewhere(p)
<1>1. /\ GroupTypes /\ at' = at /\ UNCHANGED <<env, argv>>
      /\ StartInv(p) /\ LoopInv(p) /\ GoneInv(p)
  BY DEF BaseInv, Frame, callVars, StageInv
<1>2. UNCHANGED <<stage, pool, schemaVars, loops, errs>>
  BY DEF AcceptRequest, DequeueHop, HangUp, Sigterm, Begin, groupVars
<1>3. \/ active' = active
      \/ active' = active \cup {ApiRequest(p)} /\ "serve" \in loops[p]
      \/ active' = active \cup {WorkerHop(p)} /\ "consume" \in loops[p]
  BY DEF AcceptRequest, DequeueHop, HangUp, Sigterm, Begin, groupVars
<1>4. StartInv(p)'
  BY <1>1, <1>2 DEF StartInv, PastSchema, Migrates, SchemaCurrent, schemaVars
<1>5. LoopInv(p)'
  BY <1>1, <1>2, <1>3, CallersOf DEF LoopInv
<1>6. GoneInv(p)'
  BY <1>1, <1>2 DEF GoneInv
<1>7. Elsewhere(p)
  BY <1>1, <1>2, <1>3 DEF Elsewhere, Goroutines
<1> QED
  BY <1>4, <1>5, <1>6, <1>7 DEF StageInv

\* A step of a running request or hop leaves the processes alone; it is not one
\* that ends with its process.
LEMMA WorksStageInv ==
    ASSUME BaseInv, NEW c \in Callers, Works(c), NEW p \in Procs, StageInv(p)
    PROVE  StageInv(p)'
<1>1. /\ StartInv(p) /\ LoopInv(p) /\ GoneInv(p)
      /\ UNCHANGED <<env, argv, schemaVars, stage, pool, loops, errs>>
  BY WorksMoves DEF StageInv
<1>2. active' \subseteq active
  <2>1. CASE Calls(c) \/ Served(c)
    BY <2>1 DEF Calls, Served, processVars, groupVars
  <2>2. CASE EndWork(c) /\ Frame
    BY <2>2 DEF EndWork
  <2> QED
    BY <2>1, <2>2 DEF Works
<1>3. \A x \in Callers : at'[x] = "gone" => at[x] = "gone"
  <2>0. at \in [Callers -> Places]
    BY DEF BaseInv, StorageInv, StorageTypeOK
  <2>1. ASSUME NEW q \in Places \ {"gone"}, at' = at \/ Move(c, q)
        PROVE  \A x \in Callers : at'[x] = "gone" => at[x] = "gone"
    BY <2>0, <2>1 DEF Move
  <2>2. \E q \in Places \ {"gone"} : at' = at \/ Move(c, q)
    <3>1. CASE Calls(c)
      BY <3>1 DEF Calls, Invoke, Places
    <3>2. CASE Served(c)
      BY <3>2 DEF Served, Serve, OpenBody, ReadBody, CommitPut, FindNothing,
                  OpenObject, ReadObject, RemoveFile, HeadObject, DeleteObject,
                  LoseReply, FailCall, Return, Reply, Places
    <3>3. CASE EndWork(c) /\ Frame
      BY <3>3 DEF Frame, callVars, Places
    <3> QED
      BY <3>1, <3>2, <3>3 DEF Works
  <2> QED
    BY <2>1, <2>2
<1>4. StartInv(p)'
  BY <1>1 DEF StartInv, PastSchema, Migrates, SchemaCurrent, schemaVars
<1>5. LoopInv(p)'
  BY <1>1, <1>2 DEF LoopInv
<1>6. GoneInv(p)'
  BY <1>1, <1>3, CallersOf DEF GoneInv
<1> QED
  BY <1>4, <1>5, <1>6 DEF StageInv

\* A process that ends takes its goroutines with it; without an error it has
\* none left.
LEMMA EndStageInv ==
    ASSUME BaseInv, NEW p \in Procs, StageInv(p), Exit(p) \/ Kill(p)
    PROVE  StageInv(p)' /\ Elsewhere(p)
<1>1. /\ GroupTypes /\ UNCHANGED <<env, argv, applied>>
      /\ StartInv(p) /\ LoopInv(p) /\ GoneInv(p)
  BY DEF BaseInv, Exit, Kill, StageInv, schemaVars
<1>2. /\ active' = active \ Goroutines(p)
      /\ End(active \cap Goroutines(p))
      /\ loops' = [loops EXCEPT ![p] = {}]
  BY DEF Exit, Kill, EndGoroutines
<1>3. \A c \in Callers :
         at'[c] = IF c \in active \cap Goroutines(p) THEN "gone" ELSE at[c]
  BY <1>2 DEF End
<1>4. loops'[p] = {}
  BY <1>1, <1>2 DEF GroupTypes
<1>5. CASE Exit(p)
  <2>1. /\ stage' = [stage EXCEPT ![p] = "exited"] /\ stage[p] = "closing"
        /\ pool[p] # "open" /\ UNCHANGED <<pool, errs>>
    BY <1>5 DEF Exit, Reach
  <2>2. stage'[p] = "exited"
    BY <1>1, <2>1 DEF GroupTypes
  <2>3. StartInv(p)'
    BY <1>1, <2>1, <2>2 DEF StartInv, PastSchema, Migrates, SchemaCurrent
  <2>4. LoopInv(p)'
    BY <1>2, <1>4, <2>2 DEF LoopInv, Goroutines
  <2>5. WorkerHop(p) \notin active
    BY <1>1, <2>1 DEF LoopInv
  <2>6. ApiRequest(p) \in active => errs[p] # {}
    BY <1>1, <2>1 DEF LoopInv
  <2>7. \A c \in Goroutines(p) : at[c] # "gone"
    BY <1>1, <2>1 DEF GoneInv
  <2>8. GoneInv(p)'
    BY <1>3, <2>1, <2>2, <2>5, <2>6, <2>7, CallersOf DEF GoneInv, Goroutines
  <2>9. Elsewhere(p)
    BY <1>1, <1>2, <1>3, <2>1 DEF Elsewhere, GroupTypes
  <2> QED
    BY <2>3, <2>4, <2>8, <2>9 DEF StageInv
<1>6. CASE Kill(p)
  <2>1. /\ stage' = [stage EXCEPT ![p] = "killed"]
        /\ pool' = [pool EXCEPT ![p] = "none"] /\ errs' = [errs EXCEPT ![p] = {}]
    BY <1>6 DEF Kill, Reach
  <2>2. stage'[p] = "killed" /\ pool'[p] = "none" /\ errs'[p] = {}
    BY <1>1, <2>1 DEF GroupTypes
  <2>3. StageInv(p)'
    BY <1>2, <1>4, <2>2 DEF StageInv, StartInv, LoopInv, GoneInv, PastSchema,
                            Goroutines
  <2>4. Elsewhere(p)
    BY <1>1, <1>2, <1>3, <2>1 DEF Elsewhere, GroupTypes
  <2> QED
    BY <2>3, <2>4
<1> QED
  BY <1>5, <1>6

ProcessInv == BaseInv /\ \A p \in Procs : StageInv(p)

LEMMA ProcessInvInit == ProcessInit => ProcessInv
<1> SUFFICES ASSUME ProcessInit PROVE ProcessInv
  OBVIOUS
<1>1. \A p \in Procs : StageInv(p)
  <2> TAKE p \in Procs
  <2>1. StartInv(p) /\ LoopInv(p)
    BY DEF ProcessInit, StartInv, LoopInv, PastSchema
  <2>2. GoneInv(p)
    BY CallersOf DEF ProcessInit, StorageInit, GoneInv
  <2> QED
    BY <2>1, <2>2 DEF StageInv
<1> QED
  BY <1>1, BaseInit DEF ProcessInv

LEMMA ProcessInvStep ==
    ASSUME ProcessInv, [ProcessNext]_vars
    PROVE  ProcessInv'
<1>1. BaseInv /\ BaseInv' /\ (SchemaCurrent => SchemaCurrent')
  BY BaseStep, SchemaStays DEF ProcessInv
<1>2. \A q \in Procs : StageInv(q)
  BY DEF ProcessInv
<1>3. ASSUME NEW p \in Procs, StageInv(p)' /\ Elsewhere(p)
      PROVE  \A q \in Procs : StageInv(q)'
  BY <1>1, <1>2, <1>3, ElsewhereKeeps
<1>4. ASSUME NEW p \in Procs, Run(p) \/ Disturbed(p)
      PROVE  \A q \in Procs : StageInv(q)'
  <2>1. Frame
    BY <1>4 DEF Run, Disturbed
  <2>2. StageInv(p)' /\ Elsewhere(p)
    BY <1>1, <1>2, <1>4, <2>1, StartupStageInv, StopStageInv, FailStageInv,
       BeginStageInv DEF Run, Disturbed
  <2> QED
    BY <1>3, <2>2
<1>5. ASSUME NEW p \in Procs, Exit(p) \/ Kill(p)
      PROVE  \A q \in Procs : StageInv(q)'
  BY <1>1, <1>2, <1>3, <1>5, EndStageInv
<1>6. ASSUME NEW c \in Callers, Works(c)
      PROVE  \A q \in Procs : StageInv(q)'
  BY <1>1, <1>2, <1>6, WorksStageInv
<1>7. ASSUME UNCHANGED vars PROVE \A q \in Procs : StageInv(q)'
  BY <1>2, <1>7 DEF vars, processVars, schemaVars, groupVars, storageVars,
     callVars, StageInv, StartInv, LoopInv, GoneInv, PastSchema, Migrates,
     SchemaCurrent
<1> QED
  BY <1>1, <1>4, <1>5, <1>6, <1>7 DEF ProcessNext, ProcessInv

\* Whatever is cancelled, fails or is killed, in whatever order.
THEOREM ProcessCorrect == ProcessSpec => []ProcessInv
<1>1. ProcessInv /\ [ProcessNext]_vars => ProcessInv'
  BY ProcessInvStep
<1> QED
  BY ProcessInvInit, <1>1, PTL DEF ProcessSpec

\* A process that was told to migrate does nothing else on an older schema
\* (migrate.go, main.go).
THEOREM ProcessMigratedFirst == ProcessSpec => []MigratedFirst
<1>1. ProcessInv => MigratedFirst
  BY DEF ProcessInv, StageInv, StartInv, MigratedFirst
<1> QED
  BY ProcessCorrect, <1>1, PTL

\* The pool is closed when no hop uses it any more, and no request unless
\* Shutdown's deadline passed (main.go, run).
THEOREM ProcessPoolOutlivesWork == ProcessSpec => []PoolOutlivesWork
<1>1. ProcessInv => PoolOutlivesWork
  BY DEF ProcessInv, StageInv, StartInv, LoopInv, PoolOutlivesWork
<1> QED
  BY ProcessCorrect, <1>1, PTL

\* A process that exits without an error has cut nothing off (main.go, run).
THEOREM ProcessCleanExit == ProcessSpec => []CleanExit
<1>1. ProcessInv => CleanExit
  BY DEF ProcessInv, StageInv, GoneInv, CleanExit
<1> QED
  BY ProcessCorrect, <1>1, PTL

\* config.Load and newBlobStore agree on what a store needs (main.go).
THEOREM ProcessNoDrift == ProcessSpec => []NoDrift
<1>1. ProcessInv => NoDrift
  BY DEF ProcessInv, StageInv, StartInv, NoDrift
<1> QED
  BY ProcessCorrect, <1>1, PTL

(***************************************************************************)
(* Keys.                                                                   *)
(***************************************************************************)

\* However long keys are, those that are accepted stay below the root and the
\* prefix, and the rest is refused.
THEOREM ProcessKeysInside == ProcessSpec => []KeysInside
<1>1. KeysInside
  BY KeysStayInsideCorrect DEF KeysInside
<1> QED
  BY <1>1, PTL

\* However long keys are, both stores tell the same ones apart.
THEOREM ProcessSameKeys == ProcessSpec => []SameKeys
<1>1. SameKeys
  BY StoresAgreeCorrect DEF SameKeys
<1> QED
  BY <1>1, PTL
=============================================================================
