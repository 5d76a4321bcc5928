-------------------------- MODULE PipelineHistory ---------------------------
(***************************************************************************)
(* Pipeline with a history variable that remembers whether a call of a     *)
(* step has failed: some properties hold until then, whatever is lost or   *)
(* delivered twice.                                                        *)
(***************************************************************************)
EXTENDS Pipeline

VARIABLE failed    \* a call of some step has failed

\* Some worker turns to "error", and not because another one's commit has
\* overtaken its own.
CallFailed ==
    /\ \E w \in Workers : pc[w] # "error" /\ pc'[w] = "error"
    /\ \A w \in Workers : ~ (pc[w] = "replace" /\ pc'[w] = "done")

FaultsInit == PipelineInit /\ failed = FALSE

FaultsNext == PipelineNext /\ failed' = (failed \/ CallFailed)

FaultsSpec == FaultsInit /\ [][FaultsNext]_<<pipelineVars, failed>>

\* The workers keep running, as in FairPipelineSpec.
FairFaultsSpec ==
    FaultsSpec /\ \A w \in Workers : WF_pipelineVars(Work(w))

\* Redelivery alone, after a crash or an expired lease, never leaves a completed
\* upload without its analysis: it takes a step that fails (steps.go,
\* markCompleted and deleteAnalysis) for the compensation to run at all.
CompletedUnlessFailed == ~ failed => CompletedHasAnalysis
=============================================================================
