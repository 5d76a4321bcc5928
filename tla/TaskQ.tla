------------------------------- MODULE TaskQ -------------------------------
(***************************************************************************)
(* The Postgres broker of github.com/Nuvraxis/taskQ, which is not part of  *)
(* the repository: modelled from how internal/pipeline uses it, from the   *)
(* taskq_messages table and from what the comments and the deployment      *)
(* guide rely on.  Delivery is at least once: a message stays in its row   *)
(* until the worker whose lease (receipt_handle, locked_until) is still    *)
(* current acknowledges it, and a lease that runs out makes the message    *)
(* visible again.  A worker that has lost its lease can still call the     *)
(* broker, but its receipt no longer matches and the call changes nothing. *)
(*                                                                         *)
(* Delivery order is left open: several workers dequeue, and a retried     *)
(* message is invisible for a backoff whose length is random.              *)
(***************************************************************************)

CONSTANTS
    Slots,     \* rows of taskq_messages (a bound on queued messages)
    Workers,   \* goroutines of every worker pool on the queue
    None       \* no message, no slot, no worker

ASSUME TaskQAssumption == None \notin Workers \cup Slots

VARIABLES
    msgs,      \* slot -> the envelope in that row, or None
    lease      \* slot -> the worker holding the current receipt, or None

taskqVars == <<msgs, lease>>

QueueEmpty ==
    /\ msgs = [m \in Slots |-> None]
    /\ lease = [m \in Slots |-> None]

Queued(m) == msgs[m] # None

Visible(m) == Queued(m) /\ lease[m] = None

\* INSERT a message.  Which free row it takes makes no difference.
Send(j) ==
    /\ \E m \in Slots : ~ Queued(m)
    /\ msgs' = [msgs EXCEPT ![CHOOSE m \in Slots : ~ Queued(m)] = j]
    /\ UNCHANGED lease

\* Hand a visible message to a worker under a fresh receipt.
Receive(w, m) ==
    /\ Visible(m)
    /\ lease' = [lease EXCEPT ![m] = w]
    /\ UNCHANGED msgs

\* Delete the message, if the caller's receipt is still the current one.
Acknowledge(w, m) ==
    IF lease[m] = w
    THEN /\ msgs' = [msgs EXCEPT ![m] = None]
         /\ lease' = [lease EXCEPT ![m] = None]
    ELSE UNCHANGED taskqVars

\* Put the message back (after a backoff) with its attempt counted.
Reject(w, m, j) ==
    IF lease[m] = w
    THEN /\ msgs' = [msgs EXCEPT ![m] = j]
         /\ lease' = [lease EXCEPT ![m] = None]
    ELSE UNCHANGED taskqVars

\* The lease on a message runs out.
Expire(m) ==
    /\ lease[m] # None
    /\ lease' = [lease EXCEPT ![m] = None]
    /\ UNCHANGED msgs
============================================================================
