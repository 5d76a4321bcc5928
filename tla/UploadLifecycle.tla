--------------------------- MODULE UploadLifecycle --------------------------
(***************************************************************************)
(* What the pipeline promises for each upload when no worker is lost: the  *)
(* life of one upload as a client sees it, with no queue, no workers, no   *)
(* retries and no hops.                                                    *)
(***************************************************************************)
CONSTANT Uploads

VARIABLES
    phase,    \* upload -> where it stands
    result    \* upload -> whether an analysis of it is stored

lifecycleVars == <<phase, result>>

Terminal == {"completed", "failed", "rollback failed"}

Phase == {"new", "pending", "processing"} \cup Terminal

LifecycleInit ==
    /\ phase = [u \in Uploads |-> "new"]
    /\ result = [u \in Uploads |-> FALSE]

Become(u, from, to) ==
    /\ phase[u] \in from
    /\ phase' = [phase EXCEPT ![u] = to]
    /\ UNCHANGED result

Submit(u) == Become(u, {"new"}, "pending")

Begin(u) == Become(u, {"pending"}, "processing")

\* The analysis is stored or taken back while the upload is processed.
Keep(u, stored) ==
    /\ phase[u] = "processing"
    /\ result' = [result EXCEPT ![u] = stored]
    /\ UNCHANGED phase

\* Only an upload with an analysis completes.
Complete(u) == result[u] /\ Become(u, {"processing"}, "completed")

\* A failed upload has none.
Fail(u) == ~ result[u] /\ Become(u, {"pending", "processing"}, "failed")

\* Unless the analysis could not be taken back, which is said so.
Abandon(u) == result[u] /\ Become(u, {"processing"}, "rollback failed")

Finish(u) == Complete(u) \/ Fail(u) \/ Abandon(u)

LifecycleNext ==
    \E u \in Uploads :
        \/ Submit(u)
        \/ Begin(u)
        \/ \E stored \in BOOLEAN : Keep(u, stored)
        \/ Finish(u)

\* What may happen to an upload, and that what is begun is finished.
LifecycleSafety == LifecycleInit /\ [][LifecycleNext]_lifecycleVars

LifecycleSpec ==
    /\ LifecycleSafety
    /\ \A u \in Uploads : WF_lifecycleVars(Finish(u))
=============================================================================
