------------------------------- MODULE Billing -------------------------------
(***************************************************************************)
(* POST /billing/v1/refunds of the mock billing system                     *)
(* (server/src/crm-system/routes/billing.ts).  Several HTTP requests are   *)
(* handled at once; each one looks its idempotency key up, then runs a     *)
(* database transaction that locks the payment row, sums the refunds of    *)
(* that payment, and inserts a row whose key column is UNIQUE.             *)
(*                                                                         *)
(* Data abstractions.  A refund row is named by the request that inserted  *)
(* it (formatRef of a sequence value is unique in the same way).  Rows are *)
(* only ever inserted, with status "succeeded", so none is ever left out   *)
(* of the sum; those of the seeded database are a number per payment.      *)
(***************************************************************************)
EXTENDS Integers, FiniteSets, FiniteSetsExt

CONSTANTS
    Payments,       \* payment references a request may name
    Succeeded,      \* those whose row exists with status "succeeded"
    PaymentAmount,  \* [Payments -> Nat], amount_minor of each payment
    SeedRefunded,   \* [Payments -> Nat], refunds in the seeded database
    Keys,           \* Idempotency-Key values
    Amounts,        \* amount_minor values of requests
    Calls,          \* HTTP requests, each handled once
    None            \* not a call

ASSUME BillingAssumption ==
    /\ Succeeded \subseteq Payments
    /\ PaymentAmount \in [Payments -> Nat]
    /\ SeedRefunded \in [Payments -> Nat]
    /\ \A p \in Payments : SeedRefunded[p] <= PaymentAmount[p]
    /\ Amounts \subseteq Nat \ {0}
    /\ None \notin Calls

VARIABLES
    refunds,        \* the refunds table: a set of rows
    payLock,        \* [Payments -> Calls \cup {None}], row lock (FOR UPDATE)
    http            \* [Calls -> request], the handler's progress

billingVars == <<refunds, payLock, http>>

-----------------------------------------------------------------------------
(* Types *)

Row == [ref : Calls, key : Keys, payment : Payments, amount : Amounts]

Refusal == {"key_reused", "not_refundable", "exceeds", "error"}

Request ==
    [pc      : {"idle", "received", "open", "locked", "summed", "raced", "done"},
     key     : Keys \cup {None},
     payment : Payments \cup {None},
     amount  : Amounts \cup {0},
     reply   : {"none", "created", "replayed"} \cup Refusal,
     ref     : Calls \cup {None}]

NoRequest ==
    [pc |-> "idle", key |-> None, payment |-> None, amount |-> 0,
     reply |-> "none", ref |-> None]

BillingTypeOK ==
    /\ refunds \subseteq Row
    /\ payLock \in [Payments -> Calls \cup {None}]
    /\ http \in [Calls -> Request]
    /\ \A c \in Calls :
          http[c].pc # "idle" => /\ http[c].key \in Keys
                                 /\ http[c].payment \in Payments
                                 /\ http[c].amount \in Amounts

BillingInit ==
    /\ refunds = {}
    /\ payLock = [p \in Payments |-> None]
    /\ http = [c \in Calls |-> NoRequest]

-----------------------------------------------------------------------------
(* Helpers *)

Under(k) == {r \in refunds : r.key = k}

(* The request moves on, or is answered (ref is the refund it reports). *)
Goto(c, step) == http' = [http EXCEPT ![c].pc = step]

Answer(c, answer, ref) ==
    http' = [http EXCEPT ![c].pc = "done", ![c].reply = answer, ![c].ref = ref]

Lock(p, c) == payLock' = [payLock EXCEPT ![p] = c]

Unlock(p) == payLock' = [payLock EXCEPT ![p] = None]

SumOf(rows) == MapThenSumSet(LAMBDA r : r.amount, rows)

(* What the transaction would sum up for each payment. *)
refunded == [p \in Payments |-> SeedRefunded[p] + SumOf({r \in refunds : r.payment = p})]

(* Mutant: every request is compared with the whole payment. *)
LeftUnsummed(p) == PaymentAmount[p]

(* refundable = payment.amountMinor - sum(pending and succeeded refunds) *)
Left(p) == PaymentAmount[p] - refunded[p]

-----------------------------------------------------------------------------
(* The handler *)

(* A request arrives. *)
Post(c, k, p, a) ==
    /\ http[c].pc = "idle"
    /\ http' = [http EXCEPT ![c] =
                  [pc |-> "received", key |-> k, payment |-> p, amount |-> a,
                   reply |-> "none", ref |-> None]]

(* Mutant: the stored refund is not compared with the request. *)
ReplayAnything(c) ==
    \E r \in Under(http[c].key) :
       Answer(c, "replayed", r.ref) /\ UNCHANGED <<refunds, payLock>>

(* replay(): a row under this key answers the request, or refuses it when it
   was for something else. *)
Replay(c) ==
    \E r \in Under(http[c].key) :
       /\ IF r.payment = http[c].payment /\ r.amount = http[c].amount
          THEN Answer(c, "replayed", r.ref)
          ELSE Answer(c, "key_reused", None)
       /\ UNCHANGED <<refunds, payLock>>

LookUp(c) ==
    /\ http[c].pc = "received"
    /\ \/ Replay(c)
       \/ /\ Under(http[c].key) = {}
          /\ Goto(c, "open")
          /\ UNCHANGED <<refunds, payLock>>

(* Mutant: the payment is selected without FOR UPDATE. *)
LockPaymentPlainly(c) ==
    /\ http[c].pc = "open"
    /\ IF http[c].payment \in Succeeded THEN Goto(c, "locked") ELSE Answer(c, "not_refundable", None)
    /\ UNCHANGED <<refunds, payLock>>

(* Begin the transaction: select the payment for update, check its status. *)
LockPayment(c) ==
    /\ http[c].pc = "open"
    /\ payLock[http[c].payment] = None
    /\ IF http[c].payment \in Succeeded
       THEN Lock(http[c].payment, c) /\ Goto(c, "locked")
       ELSE Answer(c, "not_refundable", None) /\ UNCHANGED payLock
    /\ UNCHANGED refunds

(* Mutant: the refusal leaves its transaction open. *)
SumRefundsLeaking(c) ==
    /\ http[c].pc = "locked"
    /\ IF http[c].amount > Left(http[c].payment) THEN Answer(c, "exceeds", None) ELSE Goto(c, "summed")
    /\ UNCHANGED <<refunds, payLock>>

(* Sum the payment's refunds; a request above the rest rolls back. *)
SumRefunds(c) ==
    /\ http[c].pc = "locked"
    /\ IF http[c].amount > Left(http[c].payment)
       THEN Answer(c, "exceeds", None) /\ Unlock(http[c].payment)
       ELSE Goto(c, "summed") /\ UNCHANGED payLock
    /\ UNCHANGED refunds

NewRow(c) == [ref |-> c, key |-> http[c].key, payment |-> http[c].payment,
              amount |-> http[c].amount]

(* Mutant: the key column is not UNIQUE. *)
InsertRefundAnyway(c) ==
    /\ http[c].pc = "summed"
    /\ Unlock(http[c].payment)
    /\ refunds' = refunds \cup {NewRow(c)}
    /\ Answer(c, "created", c)

(* Insert and commit; a unique violation on the key rolls back. *)
InsertRefund(c) ==
    /\ http[c].pc = "summed"
    /\ Unlock(http[c].payment)
    /\ IF Under(http[c].key) # {}
       THEN Goto(c, "raced") /\ UNCHANGED refunds
       ELSE refunds' = refunds \cup {NewRow(c)} /\ Answer(c, "created", c)

(* Lost the race for the key: answer with the winner's refund. *)
ReplayRaced(c) ==
    /\ http[c].pc = "raced"
    /\ Replay(c)

(* The database connection drops inside the transaction: it rolls back. *)
RollBack(c) ==
    /\ http[c].pc \in {"locked", "summed"}
    /\ Unlock(http[c].payment)
    /\ Answer(c, "error", None)
    /\ UNCHANGED refunds

HandlerStep(c) ==
    LookUp(c) \/ LockPayment(c) \/ SumRefunds(c) \/ InsertRefund(c) \/ ReplayRaced(c)

BillingStep(c) == HandlerStep(c) \/ RollBack(c)

-----------------------------------------------------------------------------
(* The component on its own: any client, any key, payment and amount. *)

BillingNext ==
    \E c \in Calls :
       \/ /\ \E k \in Keys, p \in Payments, a \in Amounts : Post(c, k, p, a)
          /\ UNCHANGED <<refunds, payLock>>
       \/ BillingStep(c)

BillingSpec == BillingInit /\ [][BillingNext]_billingVars

(* The server and its database keep working: every handler takes its steps. *)
BillingFairSpec == BillingSpec /\ \A c \in Calls : WF_billingVars(HandlerStep(c))

-----------------------------------------------------------------------------
(* Properties *)

(* No payment is ever refunded beyond what it collected, however many requests
   run at once (the row lock of billing.ts:578-583). *)
NoOverRefund == \A p \in Payments : refunded[p] <= PaymentAmount[p]

(* A key pays out at most once (replay lookup and unique index, :552-574, :637-644). *)
OneRefundPerKey == \A r, s \in refunds : r.key = s.key => r = s

(* A success answer names a stored refund of exactly what was asked; a refused key
   really belongs to a different refund. *)
AnswerTruthful ==
    \A c \in Calls :
       /\ http[c].reply \in {"created", "replayed"} =>
             [ref |-> http[c].ref, key |-> http[c].key,
              payment |-> http[c].payment, amount |-> http[c].amount] \in refunds
       /\ http[c].reply = "key_reused" =>
             \E r \in Under(http[c].key) :
                <<r.payment, r.amount>> # <<http[c].payment, http[c].amount>>

(* Every request is answered: nobody waits for a row lock forever. *)
EveryRequestAnswered ==
    \A c \in Calls : http[c].pc = "received" ~> http[c].pc = "done"

(* billing.ts:638, "Two identical requests raced: the loser replays the winner's
   result": a request is never refused as too large because of its own twin. *)
RacedTwinReplays ==
    \A c \in Calls :
       http[c].reply = "exceeds" =>
          ~ \E r \in Under(http[c].key) :
               r.payment = http[c].payment /\ r.amount = http[c].amount

(* The handler implements the abstract ledger. *)
Entry(r) == [key |-> r.key, payment |-> r.payment, amount |-> r.amount]

Ledger == INSTANCE RefundLedger WITH
    entries <- {Entry(r) : r \in refunds},
    paid <- refunded

ImplementsLedger == Ledger!Spec

=============================================================================
