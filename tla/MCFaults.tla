------------------------------ MODULE MCFaults ------------------------------
(***************************************************************************)
(* Failures on small instances, under every kind of fault.                 *)
(***************************************************************************)
EXTENDS MCPipeline, Failures
=============================================================================
