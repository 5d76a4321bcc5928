----------------------------- MODULE ModelReply -----------------------------
(***************************************************************************)
(* From the language model's reply to the rows that are stored: the checks *)
(* of internal/llm on the reply and the conversion of                      *)
(* internal/pipeline/convert.go.                                           *)
(*                                                                         *)
(* A reply is a record                                                     *)
(*   truncated     the reply ended at the output limit                     *)
(*   keys          its top-level members                                   *)
(*   currency      meta.currency, "" when blank                            *)
(*   ownCurrency   analysis.currency                                       *)
(*   periodEnd     meta's or analysis' last day, {} when absent or no date *)
(*   transactions  the transactions array, a sequence                      *)
(* and a transaction a record                                              *)
(*   date          {} when it is not in YYYY-MM-DD form, else one day      *)
(*   negative      the amount is written with a minus sign                 *)
(*   amount        its magnitude, {} when it is missing                    *)
(*   direction     the model's wording, trimmed and in lower case          *)
(*   balance       {} when null or absent                                  *)
(*   badBalance    it is there and is not a number                         *)
(*   category, essential, recurring                                        *)
(* Texts nobody computes with (descriptions, insights) are left out.       *)
(***************************************************************************)
EXTENDS Calendar, Sequences

RequiredKeys == {"analysis", "chart_data", "transactions"}

\* meta.currency, or else analysis.currency.
Currency(reply) ==
    IF reply.currency # "" THEN reply.currency ELSE reply.ownCurrency

\* Client.Analyze and parseResponse accept the reply.
Parsed(reply) ==
    /\ ~ reply.truncated
    /\ RequiredKeys \subseteq reply.keys
    /\ Currency(reply) # ""

CreditWords == {"credit", "credits", "in", "inflow", "income", "deposit"}

DebitWords == {"debit", "debits", "out", "outflow", "expense", "spending",
               "payment", "withdraw"}

\* resolveDirection finds a direction.
Recognised(txn) ==
    txn.direction \in CreditWords \cup DebitWords \/ txn.negative

\* A wording decides; the sign does only when the wording is not known.
ResolveDirection(txn) ==
    IF txn.direction \in CreditWords THEN "credit" ELSE "debit"

\* MUTANT of Magnitude: the sign stays on the amount.
SignedAmount(txn) ==
    LET a == CHOOSE a \in txn.amount : TRUE IN IF txn.negative THEN - a ELSE a

\* splitSign and numeric: amounts are stored without their sign.
Magnitude(txn) == CHOOSE a \in txn.amount : TRUE

\* buildTransaction succeeds.
Convertible(txn) ==
    /\ txn.date # {}
    /\ txn.amount # {}
    /\ Recognised(txn)
    /\ ~ txn.badBalance

\* The row of the transactions table; its id is its place in the array.
BuildTransaction(txn) ==
    [date      |-> CHOOSE d \in txn.date : TRUE,
     amount    |-> Magnitude(txn),
     direction |-> ResolveDirection(txn),
     balance   |-> txn.balance,
     category  |-> txn.category,
     essential |-> txn.essential,
     recurring |-> txn.recurring]

\* The analyze step gets as far as storing this reply.
Usable(reply) ==
    /\ Parsed(reply)
    /\ \A i \in DOMAIN reply.transactions : Convertible(reply.transactions[i])

\* buildAnalysis; raw_llm_json keeps the reply itself.
BuildAnalysis(id, reply) ==
    [id        |-> id,
     currency  |-> Currency(reply),
     periodEnd |-> reply.periodEnd,
     raw       |-> reply,
     rows      |-> [i \in DOMAIN reply.transactions |->
                       BuildTransaction(reply.transactions[i])]]
=============================================================================
