------------------------------- MODULE Config -------------------------------
(***************************************************************************)
(* internal/config: which environments Load accepts, and what the process  *)
(* takes from its command line.  A text is "" when it is blank; of the API *)
(* key only what validateAPIKey looks at is kept, its length and whether   *)
(* it is hexadecimal.                                                      *)
(*                                                                         *)
(* An environment is a record with the fields backend, dir, bucket, keyID, *)
(* secret, apiKey, maxFiles, maxFileBytes, concurrency, maxRetry and       *)
(* migrateOnStart; a command line is a function from the flags that were   *)
(* given to their values.                                                  *)
(***************************************************************************)
EXTENDS Integers

APIKeyLength == 32

\* MUTANT of ValidStorage: every backend needs what S3 needs, S3 included,
\* but an unknown name is let through.
ValidStorageAnyName(env) ==
    CASE env.backend = "local" -> env.dir # ""
      [] OTHER -> env.bucket # "" /\ env.keyID # "" /\ env.secret # ""

\* The settings that the selected backend needs.
ValidStorage(env) ==
    CASE env.backend = "local" -> env.dir # ""
      [] env.backend = "s3" ->
            env.bucket # "" /\ env.keyID # "" /\ env.secret # ""
      [] OTHER -> FALSE

ValidAPIKey(key) == key.length = APIKeyLength /\ key.hex

\* validate: what the rest of the program takes for granted.
Valid(env) ==
    /\ ValidStorage(env)
    /\ ValidAPIKey(env.apiKey)
    /\ env.maxFiles >= 1
    /\ env.maxFileBytes >= 1
    /\ env.concurrency >= 1
    /\ env.maxRetry >= 0

\* The roles of a process: both, unless a role flag is given.
Roles(argv) ==
    IF {"api", "worker"} \cap DOMAIN argv = {} THEN {"api", "worker"}
    ELSE {role \in {"api", "worker"} \cap DOMAIN argv : argv[role]}

Asked(argv, flag) == flag \in DOMAIN argv /\ argv[flag]
=============================================================================
