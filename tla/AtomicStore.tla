---------------------------- MODULE AtomicStore -----------------------------
(***************************************************************************)
(* What the interface storage.BlobStore promises: every Put, Get and       *)
(* Delete takes effect in one step between its start and its answer, on    *)
(* whole objects; one that answers an error has taken effect or has not.   *)
(* A killed process answers nothing, and what it had asked for has         *)
(* happened or has not.                                                    *)
(*                                                                         *)
(* A key is written and deleted by one caller: the request that made it up *)
(* (fileKey: two fresh UUIDs) is the only one that ever deletes it.  An    *)
(* object is its length, enough to tell a whole one from a part of one.    *)
(***************************************************************************)
EXTENDS Naturals

CONSTANTS
    Keys,       \* keys of objects
    Callers,    \* goroutines that call the store
    Writer,     \* key -> the caller that stores and deletes it
    MaxSize,    \* bound: length of the longest body
    None        \* no call

Request ==
    [op : {"put"}, key : Keys, size : 1 .. MaxSize]
        \cup [op : {"get", "delete"}, key : Keys, size : {0}]

VARIABLES
    objects,   \* key -> {} or {the length of its object}
    call,      \* caller -> the call it is in, or None
    answer,    \* caller -> what that call answers, "none" until it is known
    bytes      \* caller -> {} or {the length it stored or got}

atomicVars == <<objects, call, answer, bytes>>

Answer == {"none", "stored", "found", "removed", "missing", "error"}

AtomicInit ==
    /\ objects = [k \in Keys |-> {}]
    /\ call = [c \in Callers |-> None]
    /\ answer = [c \in Callers |-> "none"]
    /\ bytes = [c \in Callers |-> {}]

\* Only the writer of a key changes its object; anybody may get it.
MayCall(c, r) == r.op = "get" \/ Writer[r.key] = c

Start(c, r) ==
    /\ call[c] = None
    /\ MayCall(c, r)
    /\ call' = [call EXCEPT ![c] = r]
    /\ UNCHANGED <<objects, answer, bytes>>

Pending(c) == call[c] # None /\ answer[c] = "none"

\* What the object at the key of r becomes when r takes effect.
Outcome(r) ==
    CASE r.op = "put"    -> {r.size}
      [] r.op = "delete" -> {}
      [] OTHER           -> objects[r.key]

Effect(r) == objects' = [objects EXCEPT ![r.key] = Outcome(r)]

Respond(c, a, n) ==
    /\ answer' = [answer EXCEPT ![c] = a]
    /\ bytes' = [bytes EXCEPT ![c] = n]
    /\ UNCHANGED call

\* What a call answers that takes effect now.
Truth(r) ==
    CASE r.op = "put"                                  -> "stored"
      [] r.op # "put" /\ objects[r.key] = {}           -> "missing"
      [] r.op = "get" /\ objects[r.key] # {}           -> "found"
      [] OTHER                                         -> "removed"

Perform(c) ==
    /\ Pending(c)
    /\ Effect(call[c])
    /\ Respond(c, Truth(call[c]), IF call[c].op = "delete" THEN {}
                                  ELSE Outcome(call[c]))

\* The caller is told of an error, and cannot know whether the call was carried
\* out; or a Get fails while the object is read.
Break(c) ==
    /\ \/ Pending(c) /\ (Effect(call[c]) \/ UNCHANGED objects)
       \/ answer[c] = "found" /\ UNCHANGED objects
    /\ Respond(c, "error", {})

Finish(c) ==
    /\ answer[c] # "none"
    /\ call' = [call EXCEPT ![c] = None]
    /\ answer' = [answer EXCEPT ![c] = "none"]
    /\ bytes' = [bytes EXCEPT ![c] = {}]
    /\ UNCHANGED objects

\* The callers D are gone at once; of their calls, those in S are carried out.
Vanish(D, S) ==
    /\ S \subseteq {c \in D : Pending(c)}
    /\ objects' = [k \in Keys |->
                      LET c == Writer[k] IN
                      IF c \in S /\ call[c].key = k THEN Outcome(call[c])
                      ELSE objects[k]]
    /\ call' = [c \in Callers |-> IF c \in D THEN None ELSE call[c]]
    /\ answer' = [c \in Callers |-> IF c \in D THEN "none" ELSE answer[c]]
    /\ bytes' = [c \in Callers |-> IF c \in D THEN {} ELSE bytes[c]]

AtomicNext ==
    \/ \E c \in Callers :
          \/ \E r \in Request : Start(c, r)
          \/ Perform(c)
          \/ Break(c)
          \/ Finish(c)
    \/ \E D \in SUBSET Callers : \E S \in SUBSET D : Vanish(D, S)

AtomicSpec == AtomicInit /\ [][AtomicNext]_atomicVars
=============================================================================
