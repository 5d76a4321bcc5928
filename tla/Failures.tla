------------------------------ MODULE Failures ------------------------------
(***************************************************************************)
(* Pipeline, and what it makes of the messages of the failures.            *)
(*                                                                         *)
(* Scrub's properties are about constants: they are looked at in the       *)
(* initial states.                                                         *)
(***************************************************************************)
EXTENDS Pipeline, Scrub

AtStart == \A u \in Uploads : starts[u] = 0

\* "safe to log, to carry through the queue, and to serve to a client"
\* (scrub.go).
Scrubbed == AtStart => ScrubbedIsSafe

\* "replaced as a whole rather than leaving a fragment" (scrub.go).
NoFragments == AtStart => SecretsReplacedWhole
=============================================================================
