----------------------------- MODULE MCProcess ------------------------------
(***************************************************************************)
(* Process on small instances: one process with both roles, an API beside  *)
(* a worker that both migrate at their start, and a worker that does not   *)
(* beside the migration Job of the Helm chart.                             *)
(***************************************************************************)
EXTENDS Process, TLC

CONSTANTS p1, p2, k1

MCProcs == {p1, p2}

MCCallers == MCProcs \X {"request", "hop"}

MCWriter == (k1 :> <<p1, "request">>)

MCBoth == "migrate" :> TRUE
MCMigrateJob == ("migrate" :> TRUE) @@ ("api" :> FALSE) @@ ("worker" :> FALSE)
MCApi == ("migrate" :> TRUE) @@ ("api" :> TRUE)
MCWorker == ("migrate" :> TRUE) @@ ("worker" :> TRUE)
MCPlainWorker == "worker" :> TRUE
MCVersion == "version" :> TRUE

MCDeployments ==
    {(p1 :> MCBoth) @@ (p2 :> MCVersion),
     (p1 :> MCApi) @@ (p2 :> MCWorker),
     (p1 :> MCPlainWorker) @@ (p2 :> MCMigrateJob)}

MCKey == [length |-> 32, hex |-> TRUE]

\* A valid environment for each backend, and one of each kind of invalid one.
MCLocal ==
    [backend |-> "local", dir |-> "data", bucket |-> "", keyID |-> "",
     secret |-> "", apiKey |-> MCKey, maxFiles |-> 12, maxFileBytes |-> 1,
     concurrency |-> 1, maxRetry |-> 0, migrateOnStart |-> FALSE]

MCS3 == [MCLocal EXCEPT !.backend = "s3", !.dir = "", !.bucket = "pdfs",
                        !.keyID = "id", !.secret = "secret"]

MCInvalid ==
    {[MCLocal EXCEPT !.dir = ""], [MCS3 EXCEPT !.bucket = ""],
     [MCS3 EXCEPT !.backend = "S3"], [MCLocal EXCEPT !.backend = ""],
     [MCLocal EXCEPT !.maxFiles = 0], [MCLocal EXCEPT !.apiKey.length = 31],
     [MCLocal EXCEPT !.apiKey.hex = FALSE]}

MCEnvironments == {MCLocal, MCS3} \cup MCInvalid
=============================================================================
