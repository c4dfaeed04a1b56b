----------------------------- MODULE Subscriptions -----------------------------
(***************************************************************************)
(* POST /billing/v1/subscriptions                                          *)
(* (server/src/crm-system/routes/billing.ts): a subscription with its      *)
(* first invoice, under an idempotency key, for a customer who is active   *)
(* and has no other live subscription.                                     *)
(*                                                                         *)
(* One transaction locks the customer's row, checks, inserts the           *)
(* subscription (its key is unique), takes the next invoice number of the  *)
(* year under an advisory lock, and inserts the invoice.  Statements read  *)
(* what is committed (READ COMMITTED); what a transaction inserts appears  *)
(* to others when it commits.  Malformed requests are left out.            *)
(***************************************************************************)
EXTENDS Integers

CONSTANTS
    Calls,          \* requests to create a subscription
    Customers,
    Keys,           \* idempotency keys
    Plans,          \* what a body says of plan, cycle and amount
    Payings,        \* what a body says of mark_paid and payment_method
    None,
    FirstInvoices,  \* invoices that are there from the start
    LastYear,       \* bound: the years are 0..LastYear
    MaxFaults       \* bound: failed requests and status changes

Statuses == {"active", "suspended", "churned"}

(* How an invoice was paid when it was issued is its status and its payment. *)
Invoice == [customer : Customers, year : 0..LastYear, seq : Nat \ {0}, plan : Plans \cup {None},
            paying : Payings \cup {None}]

(* The invoice numbers of year y, and 0; the highest of them. *)
Seqs(y, rows) == {0} \cup {i.seq : i \in {j \in rows : j.year = y}}

IsHighest(m, y, rows) == \A k \in Seqs(y, rows) : k <= m

(* The numbers of a year run from 1 without a gap, and none is used twice. *)
Numbered(rows) ==
    /\ \A i \in rows : \A k \in 1..i.seq : \E j \in rows : j.year = i.year /\ j.seq = k
    /\ \A i, j \in rows : i.year = j.year /\ i.seq = j.seq => i = j

ASSUME SubscriptionsAssumption ==
    /\ LastYear \in Nat /\ MaxFaults \in Nat
    /\ None \notin Calls \cup Customers \cup Keys \cup Plans \cup Payings
    /\ FirstInvoices \subseteq Invoice
    /\ Numbered(FirstInvoices)
    /\ \A y \in 0..LastYear : \E m \in Seqs(y, FirstInvoices) : IsHighest(m, y, FirstInvoices)

VARIABLES
    custStatus,     \* [Customers -> Statuses], mock.customers
    subs,           \* live rows of mock.subscriptions
    invoices,       \* rows of mock.invoices
    custLock,       \* [Customers -> Calls \cup {None}], row locks (FOR UPDATE)
    numberLock,     \* Calls \cup {None}, the advisory lock of the invoice numbers
    post,           \* [Calls -> record], progress of each request
    year,           \* the current year
    faults          \* counts the faults, up to MaxFaults

subVars == <<custStatus, subs, invoices, custLock, numberLock, post, year, faults>>

-----------------------------------------------------------------------------
(* Types *)

Subscription == [by : Calls \cup {None}, customer : Customers, plan : Plans \cup {None},
                 key : Keys \cup {None}]

Post ==
    [pc       : {"idle", "replay", "lock", "live", "insert", "number", "commit", "raced", "done"},
     customer : Customers \cup {None},
     plan     : Plans \cup {None},
     paying   : Payings \cup {None},
     key      : Keys \cup {None},
     year     : 0..LastYear,
     seq      : Nat,
     ref      : Calls \cup {None},
     answer   : {"none", "created", "replayed", "reused", "inactive", "exists", "failed"}]

NoPost == [pc |-> "idle", customer |-> None, plan |-> None, paying |-> None, key |-> None,
           year |-> 0, seq |-> 0, ref |-> None, answer |-> "none"]

SubTypeOK ==
    /\ custStatus \in [Customers -> Statuses]
    /\ subs \subseteq Subscription
    /\ invoices \subseteq Invoice
    /\ custLock \in [Customers -> Calls \cup {None}]
    /\ numberLock \in Calls \cup {None}
    /\ post \in [Calls -> Post]
    /\ \A c \in Calls : post[c].pc # "idle" =>
          post[c].customer \in Customers /\ post[c].plan \in Plans /\ post[c].key \in Keys
    /\ year \in 0..LastYear
    /\ faults \in 0..MaxFaults

(* Some customers have a live subscription, which no key belongs to. *)
SubInit ==
    /\ custStatus \in [Customers -> Statuses]
    /\ \E subscribed \in SUBSET Customers :
          subs = {[by |-> None, customer |-> u, plan |-> None, key |-> None] : u \in subscribed}
    /\ invoices = FirstInvoices
    /\ custLock = [u \in Customers |-> None]
    /\ numberLock = None
    /\ post = [c \in Calls |-> NoPost]
    /\ year = 0
    /\ faults = 0

-----------------------------------------------------------------------------
(* Helpers *)

Goto(c, pc) == post' = [post EXCEPT ![c].pc = pc]

Answer(c, answer, ref) ==
    post' = [post EXCEPT ![c].pc = "done", ![c].answer = answer, ![c].ref = ref]

LiveOf(u) == {s \in subs : s.customer = u}

Under(k) == {s \in subs : s.key = k}

NextSeq(y) == 1 + CHOOSE m \in Seqs(y, invoices) : IsHighest(m, y, invoices)

(* Inside the transaction. *)
InTransaction == {"live", "insert", "number", "commit"}

(* The row with this key is inserted, and not yet committed. *)
Inserted == {"number", "commit"}

FreeCustomer(c) ==
    custLock' = [u \in Customers |-> IF custLock[u] = c THEN None ELSE custLock[u]]

FreeNumber(c) == numberLock' = IF numberLock = c THEN None ELSE numberLock

-----------------------------------------------------------------------------
(* The request *)

Begin(c, u, p, m, k) ==
    /\ post[c].pc = "idle"
    /\ post' = [post EXCEPT ![c].pc = "replay", ![c].customer = u, ![c].plan = p,
                            ![c].paying = m, ![c].key = k]
    /\ UNCHANGED <<custStatus, subs, invoices, custLock, numberLock, year, faults>>

(* Mutant: the key alone decides, whatever the body says. *)
ReplayByKeyAlone(c, otherwise) ==
    IF \E s \in Under(post[c].key) : TRUE
    THEN \E s \in Under(post[c].key) : Answer(c, "replayed", s.by)
    ELSE Goto(c, otherwise)

(* Same key and same customer, plan, cycle and amount: the original result, however this
   body wants its invoice paid.  Same key, else: rejected. *)
ReplayOr(c, otherwise) ==
    IF Under(post[c].key) = {}
    THEN Goto(c, otherwise)
    ELSE \E s \in Under(post[c].key) :
            IF s.customer = post[c].customer /\ s.plan = post[c].plan
            THEN Answer(c, "replayed", s.by)
            ELSE Answer(c, "reused", None)

Replay(c) ==
    /\ post[c].pc = "replay"
    /\ ReplayOr(c, "lock")
    /\ UNCHANGED <<custStatus, subs, invoices, custLock, numberLock, year, faults>>

(* Mutant: the row is read without FOR UPDATE. *)
ReadCustomer(c) ==
    /\ post[c].pc = "lock"
    /\ IF custStatus[post[c].customer] = "active"
       THEN Goto(c, "live")
       ELSE Answer(c, "inactive", None)
    /\ UNCHANGED <<custStatus, subs, invoices, custLock, numberLock, year, faults>>

(* SELECT ... FOR UPDATE waits for the row; an inactive customer ends the transaction. *)
LockCustomer(c) ==
    LET u == post[c].customer
    IN  /\ post[c].pc = "lock" /\ custLock[u] = None
        /\ IF custStatus[u] = "active"
           THEN Goto(c, "live") /\ custLock' = [custLock EXCEPT ![u] = c]
           ELSE Answer(c, "inactive", None) /\ UNCHANGED custLock
        /\ UNCHANGED <<custStatus, subs, invoices, numberLock, year, faults>>

(* No subscription that is trialing, active or past due. *)
CheckLive(c) ==
    /\ post[c].pc = "live"
    /\ IF LiveOf(post[c].customer) = {}
       THEN Goto(c, "insert") /\ UNCHANGED custLock
       ELSE Answer(c, "exists", None) /\ FreeCustomer(c)
    /\ UNCHANGED <<custStatus, subs, invoices, numberLock, year, faults>>

(* The insert waits while another transaction has inserted the key, and fails when the
   key is there.  The year of the invoice number is the one of this moment. *)
InsertSubscription(c) ==
    /\ post[c].pc = "insert"
    /\ \A d \in Calls : post[d].pc \in Inserted => post[d].key # post[c].key
    /\ IF Under(post[c].key) = {}
       THEN post' = [post EXCEPT ![c].pc = "number", ![c].year = year] /\ UNCHANGED custLock
       ELSE Goto(c, "raced") /\ FreeCustomer(c)
    /\ UNCHANGED <<custStatus, subs, invoices, numberLock, year, faults>>

(* Mutant: the highest number is read without the advisory lock. *)
TakeNumberUnlocked(c) ==
    /\ post[c].pc = "number"
    /\ post' = [post EXCEPT ![c].pc = "commit", ![c].seq = NextSeq(post[c].year)]
    /\ UNCHANGED <<custStatus, subs, invoices, custLock, numberLock, year, faults>>

(* nextInvoiceNumber: the advisory lock, then the highest committed number plus one. *)
TakeNumber(c) ==
    /\ post[c].pc = "number" /\ numberLock = None
    /\ numberLock' = c
    /\ post' = [post EXCEPT ![c].pc = "commit", ![c].seq = NextSeq(post[c].year)]
    /\ UNCHANGED <<custStatus, subs, invoices, custLock, year, faults>>

(* What the transaction has inserted becomes visible; the locks go. *)
CommitRows(c) ==
    /\ post[c].pc = "commit"
    /\ subs' = subs \cup {[by |-> c, customer |-> post[c].customer, plan |-> post[c].plan,
                           key |-> post[c].key]}
    /\ invoices' = invoices \cup {[customer |-> post[c].customer, year |-> post[c].year,
                                   seq |-> post[c].seq, plan |-> post[c].plan,
                                   paying |-> post[c].paying]}
    /\ FreeCustomer(c) /\ FreeNumber(c)

(* The invoice, its line and its payment, if it is paid, COMMIT, and the answer. *)
Commit(c) ==
    /\ CommitRows(c)
    /\ Answer(c, "created", c)
    /\ UNCHANGED <<custStatus, year, faults>>

(* The key was inserted meanwhile: replay; should it be gone, the error is thrown. *)
ReplayRaced(c) ==
    /\ post[c].pc = "raced"
    /\ IF Under(post[c].key) = {} THEN Answer(c, "failed", None) ELSE ReplayOr(c, "done")
    /\ UNCHANGED <<custStatus, subs, invoices, custLock, numberLock, year, faults>>

SubStep(c) ==
    \/ Replay(c) \/ LockCustomer(c) \/ CheckLive(c) \/ InsertSubscription(c)
    \/ TakeNumber(c) \/ Commit(c) \/ ReplayRaced(c)

-----------------------------------------------------------------------------
(* Around the request *)

(* The transaction commits, and the connection is lost before it says so. *)
CommitUnheard(c) ==
    /\ CommitRows(c)
    /\ faults < MaxFaults /\ faults' = faults + 1
    /\ Answer(c, "failed", None)
    /\ UNCHANGED <<custStatus, year>>

(* Mutant: the advisory lock is the session's, and stays. *)
RollBackLeaking(c) ==
    /\ post[c].pc \in InTransaction
    /\ faults < MaxFaults /\ faults' = faults + 1
    /\ Answer(c, "failed", None)
    /\ FreeCustomer(c)
    /\ UNCHANGED <<custStatus, subs, invoices, numberLock, year>>

(* An error ends the transaction. *)
RollBack(c) ==
    /\ post[c].pc \in InTransaction
    /\ faults < MaxFaults /\ faults' = faults + 1
    /\ Answer(c, "failed", None)
    /\ FreeCustomer(c) /\ FreeNumber(c)
    /\ UNCHANGED <<custStatus, subs, invoices, year>>

(* PATCH /crm/v1/customers: the update waits for the row lock. *)
ChangeStatus(u, s) ==
    /\ custLock[u] = None /\ custStatus[u] # s
    /\ faults < MaxFaults /\ faults' = faults + 1
    /\ custStatus' = [custStatus EXCEPT ![u] = s]
    /\ UNCHANGED <<subs, invoices, custLock, numberLock, post, year>>

NewYear ==
    /\ year < LastYear
    /\ year' = year + 1
    /\ UNCHANGED <<custStatus, subs, invoices, custLock, numberLock, post, faults>>

SubNext ==
    \/ \E c \in Calls :
          \/ \E u \in Customers, p \in Plans, m \in Payings, k \in Keys : Begin(c, u, p, m, k)
          \/ SubStep(c)
          \/ CommitUnheard(c) \/ RollBack(c)
    \/ \E u \in Customers, s \in Statuses : ChangeStatus(u, s)
    \/ NewYear

SubSpec == SubInit /\ [][SubNext]_subVars

(* Handlers run on, and a lock that is freed again and again is granted. *)
SubFairSpec == SubSpec /\ \A c \in Calls : SF_subVars(SubStep(c))

-----------------------------------------------------------------------------
(* Properties *)

(* A customer has at most one live subscription, whatever requests run at once
   (billing.ts:269-270). *)
OneLiveSubscription == \A s, t \in subs : s.customer = t.customer => s = t

(* Invoice numbers run through each year without gaps or duplicates, also across
   transactions that roll back and a year that ends in one (billing.ts:57-60). *)
InvoicesNumbered == Numbered(invoices)

(* A subscription appears only while its customer is active: a suspension waits for the
   transaction or is seen by it (billing.ts:269-283). *)
ActiveOnly == [][\A s \in subs' \ subs : custStatus[s.customer] = "active"]_subVars

(* Everybody who is told of a subscription under a key is told of the one row with that
   key, and asked for its customer, plan, cycle and amount; how the first invoice was to be
   paid is not compared (billing.ts:248-259). *)
KeyNamesOneRequest ==
    \A c \in Calls :
       post[c].answer \in {"created", "replayed"} =>
          /\ \A s \in Under(post[c].key) :
                s.by = post[c].ref /\ s.customer = post[c].customer /\ s.plan = post[c].plan
          /\ Under(post[c].key) # {}

(* billing.ts:236, "same key + different body is rejected": nobody is answered with a
   subscription whose first invoice was to be paid otherwise than this body says. *)
OtherBodyRejected ==
    \A c \in Calls : post[c].answer = "replayed" => post[post[c].ref].paying = post[c].paying

(* Every request is answered: the customer's row, the unique key and the advisory lock
   are never waited for in a circle. *)
EveryPostAnswered == \A c \in Calls : post[c].pc = "replay" ~> post[c].pc = "done"

=============================================================================
