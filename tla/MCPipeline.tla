---------------------------- MODULE MCPipeline -----------------------------
(***************************************************************************)
(* Pipeline on small instances.  Workers are interchangeable model        *)
(* values, which the safety runs use as symmetry (slots are not: Send      *)
(* chooses one).                                                           *)
(***************************************************************************)
EXTENDS Pipeline, TLC

MCSymmetry == Permutations(Workers)

\* Every behaviour, whatever can go wrong.
MCAllFaults == FaultKinds
============================================================================
