------------------------------ MODULE Storage -------------------------------
(***************************************************************************)
(* The two implementations of storage.BlobStore, call by call.             *)
(*                                                                         *)
(* The local store copies the body into a temporary file beside the object *)
(* and renames it into place; it looks at the caller's context once, when  *)
(* the call starts.  S3 reads the body into memory, up to a cap, and puts  *)
(* it in one request; a Delete is a HeadObject and a DeleteObject.  An S3  *)
(* request that reports an error may have been carried out.  A request     *)
(* that is carried out after its sender has given up is taken to be        *)
(* carried out at that moment: the service never uses a key again whose    *)
(* Put or Delete has failed.                                               *)
(*                                                                         *)
(* What a reader has opened does not change under it: a rename leaves the  *)
(* old file to those who opened it, and S3 serves the version it was asked *)
(* for.                                                                    *)
(***************************************************************************)
EXTENDS Naturals

CONSTANTS
    Keys, Callers, Writer, MaxSize, None,    \* as in AtomicStore
    ObjectLimit    \* maxObjectBytes: the longest object S3.Put accepts

VARIABLES
    backend,    \* "local" or "s3"
    objects, call, answer, bytes,    \* as in AtomicStore
    at,         \* caller -> where its call stands
    got,        \* caller -> how much of the body its Put has read
    temps,      \* callers whose Put is writing a .partial-* file
    strays,     \* callers of which a Put has left such a file behind
    cut         \* callers whose context is cancelled

callVars == <<call, answer, bytes, at, got>>
tempVars == <<temps, strays>>
storageVars == <<backend, objects, callVars, tempVars, cut>>

\* What every caller of the interface may rely on.
Atomic == INSTANCE AtomicStore

ASSUME StorageAssumption ==
    /\ Writer \in [Keys -> Callers]
    /\ MaxSize \in Nat \ {0}
    /\ ObjectLimit \in Nat
    /\ None \notin Atomic!Request

Places == {"idle", "begin", "body", "stream", "remove", "done", "gone"}

StorageTypeOK ==
    /\ backend \in {"local", "s3"}
    /\ objects \in [Keys -> {{}} \cup {{n} : n \in 1 .. MaxSize}]
    /\ call \in [Callers -> Atomic!Request \cup {None}]
    /\ answer \in [Callers -> Atomic!Answer]
    /\ bytes \in [Callers -> SUBSET (1 .. MaxSize)]
    /\ at \in [Callers -> Places]
    /\ got \in [Callers -> 0 .. MaxSize]
    /\ temps \subseteq Callers
    /\ strays \subseteq Callers
    /\ cut \subseteq Callers

StorageInit ==
    /\ backend \in {"local", "s3"}
    /\ Atomic!AtomicInit
    /\ at = [c \in Callers |-> "idle"]
    /\ got = [c \in Callers |-> 0]
    /\ temps = {}
    /\ strays = {}
    /\ cut = {}

In(c, p, o) == at[c] = p /\ call[c].op = o

Move(c, p) == at' = [at EXCEPT ![c] = p]

\* The call returns to its caller with an answer.
Reply(c, a, n) ==
    /\ Move(c, "done")
    /\ answer' = [answer EXCEPT ![c] = a]
    /\ bytes' = [bytes EXCEPT ![c] = n]
    /\ got' = [got EXCEPT ![c] = 0]
    /\ UNCHANGED call

Object(c) == objects[call[c].key]

Replace(c, object) == objects' = [objects EXCEPT ![call[c].key] = object]

----------------------------------------------------------------------------

Invoke(c, r) ==
    /\ at[c] = "idle"
    /\ Atomic!MayCall(c, r)
    /\ call' = [call EXCEPT ![c] = r]
    /\ Move(c, "begin")
    /\ got' = [got EXCEPT ![c] = 0]
    /\ UNCHANGED <<backend, objects, answer, bytes, tempVars, cut>>

\* Put: the local store looks at the context and creates the temporary file.
OpenBody(c) ==
    /\ In(c, "begin", "put")
    /\ \/ backend = "local" /\ c \notin cut /\ temps' = temps \cup {c}
       \/ backend = "s3" /\ UNCHANGED temps
    /\ UNCHANGED strays
    /\ Move(c, "body")
    /\ UNCHANGED <<backend, objects, call, answer, bytes, got, cut>>

\* Both read on whatever becomes of the context; S3 stops one past its cap.
ReadBody(c) ==
    /\ In(c, "body", "put")
    /\ got[c] < call[c].size
    /\ backend = "s3" => got[c] <= ObjectLimit
    /\ got' = [got EXCEPT ![c] = @ + 1]
    /\ UNCHANGED <<backend, objects, call, answer, bytes, at, tempVars, cut>>

\* The whole body has been read, and S3 accepts its length.
BodyRead(c) ==
    /\ In(c, "body", "put")
    /\ got[c] = call[c].size
    /\ backend = "s3" => got[c] <= ObjectLimit

\* MUTANT of CommitPut: the file is renamed into place as soon as it exists.
CommitEarly(c) ==
    /\ In(c, "body", "put")
    /\ got[c] > 0
    /\ backend = "s3" => c \notin cut
    /\ Replace(c, {got[c]})
    /\ Reply(c, "stored", {got[c]})
    /\ temps' = temps \ {c}
    /\ UNCHANGED <<backend, strays, cut>>

CommitPut(c) ==
    /\ BodyRead(c)
    /\ backend = "s3" => c \notin cut
    /\ Replace(c, {got[c]})
    /\ Reply(c, "stored", {got[c]})
    /\ temps' = temps \ {c}
    /\ UNCHANGED <<backend, strays, cut>>

\* A Get, or the first look of a Delete, finds no object.
FindNothing(c) ==
    /\ In(c, "begin", "get") \/ In(c, "begin", "delete")
    /\ c \notin cut
    /\ Object(c) = {}
    /\ Reply(c, "missing", {})
    /\ UNCHANGED <<backend, objects, tempVars, cut>>

OpenObject(c) ==
    /\ In(c, "begin", "get")
    /\ c \notin cut
    /\ Object(c) # {}
    /\ Move(c, "stream")
    /\ answer' = [answer EXCEPT ![c] = "found"]
    /\ bytes' = [bytes EXCEPT ![c] = Object(c)]
    /\ UNCHANGED <<backend, objects, call, got, tempVars, cut>>

\* The caller reads the object to its end.
ReadObject(c) ==
    /\ In(c, "stream", "get")
    /\ Move(c, "done")
    /\ UNCHANGED <<backend, objects, call, answer, bytes, got, tempVars, cut>>

RemoveFile(c) ==
    /\ backend = "local"
    /\ In(c, "begin", "delete")
    /\ c \notin cut
    /\ Object(c) # {}
    /\ Replace(c, {})
    /\ Reply(c, "removed", {})
    /\ UNCHANGED <<backend, tempVars, cut>>

\* MUTANT of HeadObject: DeleteObject is called without looking first.
HeadNothing(c) ==
    /\ backend = "s3"
    /\ In(c, "begin", "delete")
    /\ c \notin cut
    /\ Move(c, "remove")
    /\ UNCHANGED <<backend, objects, call, answer, bytes, got, tempVars, cut>>

HeadObject(c) ==
    /\ backend = "s3"
    /\ In(c, "begin", "delete")
    /\ c \notin cut
    /\ Object(c) # {}
    /\ Move(c, "remove")
    /\ UNCHANGED <<backend, objects, call, answer, bytes, got, tempVars, cut>>

\* DeleteObject succeeds whether or not there is an object.
DeleteObject(c) ==
    /\ In(c, "remove", "delete")
    /\ c \notin cut
    /\ Replace(c, {})
    /\ Reply(c, "removed", {})
    /\ UNCHANGED <<backend, tempVars, cut>>

\* c is in an S3 request that changes the bucket.
InRequest(c) == backend = "s3" /\ (BodyRead(c) \/ In(c, "remove", "delete"))

Requested(c) == IF call[c].op = "put" THEN {got[c]} ELSE {}

\* S3 carries the request out and its client reports an error.
LoseReply(c) ==
    /\ InRequest(c)
    /\ Replace(c, Requested(c))
    /\ Reply(c, "error", {})
    /\ UNCHANGED <<backend, tempVars, cut>>

\* MUTANT of FailCall: the temporary file is removed on success only.
FailUntidily(c) ==
    /\ at[c] \in {"begin", "body", "stream", "remove"}
    /\ Reply(c, "error", {})
    /\ UNCHANGED <<backend, objects, tempVars, cut>>

\* Any call can fail before it has an effect, or while an object is read; the
\* local store then removes the temporary file, "best-effort": nobody looks
\* whether the removal has failed, and nobody tries again.
FailCall(c) ==
    /\ at[c] \in {"begin", "body", "stream", "remove"}
    /\ Reply(c, "error", {})
    /\ temps' = temps \ {c}
    /\ strays' \in {strays, strays \cup (temps \cap {c})}
    /\ UNCHANGED <<backend, objects, cut>>

Return(c) ==
    /\ at[c] = "done"
    /\ Move(c, "idle")
    /\ call' = [call EXCEPT ![c] = None]
    /\ answer' = [answer EXCEPT ![c] = "none"]
    /\ bytes' = [bytes EXCEPT ![c] = {}]
    /\ got' = [got EXCEPT ![c] = 0]
    /\ UNCHANGED <<backend, objects, tempVars, cut>>

\* What the store does for c of itself, once c has called it.
Serve(c) ==
    \/ OpenBody(c)
    \/ ReadBody(c)
    \/ CommitPut(c)
    \/ FindNothing(c)
    \/ OpenObject(c)
    \/ ReadObject(c)
    \/ RemoveFile(c)
    \/ HeadObject(c)
    \/ DeleteObject(c)
    \/ LoseReply(c)
    \/ FailCall(c)
    \/ Return(c)

\* The goroutines D end with their process, wherever they stand.  A request on
\* its way to S3 may still be carried out; temporary files are left behind.
End(D) ==
    /\ \E S \in SUBSET {c \in D : InRequest(c)} :
          objects' = [k \in Keys |->
                         LET c == Writer[k] IN
                         IF c \in S /\ call[c].key = k THEN Requested(c)
                         ELSE objects[k]]
    /\ call' = [c \in Callers |-> IF c \in D THEN None ELSE call[c]]
    /\ answer' = [c \in Callers |-> IF c \in D THEN "none" ELSE answer[c]]
    /\ bytes' = [c \in Callers |-> IF c \in D THEN {} ELSE bytes[c]]
    /\ got' = [c \in Callers |-> IF c \in D THEN 0 ELSE got[c]]
    /\ at' = [c \in Callers |-> IF c \in D THEN "gone" ELSE at[c]]
    /\ temps' = temps \ D
    /\ strays' = strays \cup (temps \cap D)
    /\ cut' = cut \ D
    /\ UNCHANGED backend

StorageNext ==
    \/ \E c \in Callers :
          (\E r \in Atomic!Request : Invoke(c, r)) \/ Serve(c)
    \/ \E D \in SUBSET Callers : End(D)
    \/ cut' \in SUBSET Callers /\ UNCHANGED <<backend, objects, callVars, tempVars>>

StorageSpec == StorageInit /\ [][StorageNext]_storageVars

----------------------------------------------------------------------------
(* Properties.                                                             *)

\* Where a call stands, and what it has answered, fit the call.
CallInv(c) ==
    /\ (call[c] = None) = (at[c] \in {"idle", "gone"})
    /\ (answer[c] = "none") = (at[c] \notin {"stream", "done"})
    /\ at[c] = "body" => call[c].op = "put" /\ got[c] <= call[c].size
    /\ at[c] # "body" => got[c] = 0
    /\ at[c] = "stream" => call[c].op = "get" /\ answer[c] = "found"
    /\ at[c] = "remove" => call[c].op = "delete" /\ Object(c) # {}
    /\ call[c] # None => Atomic!MayCall(c, call[c])
    /\ bytes[c] # {} => answer[c] \in {"stored", "found"}

\* The inductive invariant behind ImplementsAtomicStore: a call has an answer
\* once it is done and a Get as soon as the object is open, the body read so
\* far belongs to the call, and between the two requests of an S3 Delete its
\* object stays where it was seen.
StorageInv == StorageTypeOK /\ \A c \in Callers : CallInv(c)

\* Both stores keep the promise of storage.BlobStore: calls are atomic, a key
\* has a whole object or none, ErrNotFound is the truth (storage.go), whatever
\* is read, written, cancelled or killed at the same time.
ImplementsAtomicStore == Atomic!AtomicSpec

\* The clean-up of Put (local.go): a temporary file is there only while its Put
\* reads the body.  One is left behind only by a Put whose caller was told of an
\* error or was never answered, as its process ended: one that has stored its
\* object leaves nothing else.
NoStrayTemps ==
    [][/\ temps' = {c \in Callers : backend' = "local" /\ at'[c] = "body"}
       /\ \A c \in strays' \ strays :
             c \in temps /\ answer'[c] \in {"error", "none"}]_storageVars
=============================================================================
