------------------------------- MODULE Customers -------------------------------
(***************************************************************************)
(* create_customer and update_customer                                     *)
(* (server/src/services/customer-service.ts) inside withIdempotency        *)
(* (Idempotency.tla), on top of the CRM                                    *)
(* (server/src/crm-system/routes/crm.ts).                                  *)
(*                                                                         *)
(* A customer is a name, an e-mail address and a tier; the status is       *)
(* handled as the tier is, phone, region and contact as the name is.  A    *)
(* name is the sequence of its distinctive words.  Every write is one HTTP *)
(* request, never retried, which may still take effect after the service   *)
(* gave up on it.  Requests turned away by validation are left out.        *)
(***************************************************************************)
EXTENDS Integers, Sequences, FiniteSets

CONSTANTS
    Calls,          \* calls of createCustomer and updateCustomer
    Ids,            \* user + operation + arguments, as withIdempotency tells them apart
    RequestOf,      \* [Ids -> Request], what each of them asks for
    Leads,          \* ids whose user is a support lead or an admin
    Emails,
    Names,          \* sequences of words
    DomainOf,       \* [Emails -> domain]
    FreeDomains,    \* FREE_EMAIL_DOMAINS
    None,           \* no call, no id, no result
    FirstCustomers, \* the rows the table starts with, a sequence
    MaxCustomers,   \* bound: customer numbers
    MaxFaults       \* bound: failures and expiries in a behaviour

Tiers == {"standard", "enterprise"}
Fields == {"name", "email", "tier"}
Numbers == 1..MaxCustomers

(* What the caller asks for.  An update gives the fields in "sets" new values. *)
Request == [op : {"create", "update"}, ref : Numbers \cup {0}, name : Names,
            email : Emails, tier : Tiers, sets : SUBSET Fields]

Result == [by : Calls, ref : Numbers]

ASSUME CustomersAssumption ==
    /\ MaxCustomers \in Nat /\ MaxFaults \in Nat
    /\ RequestOf \in [Ids -> Request]
    /\ Leads \subseteq Ids
    /\ None \notin Calls \cup Ids \cup Emails \cup Result
    /\ FirstCustomers \in Seq([name : Names, email : Emails, tier : Tiers, emailBy : {None}])
    /\ Len(FirstCustomers) <= MaxCustomers
    /\ \A m, n \in DOMAIN FirstCustomers :
          FirstCustomers[m].email = FirstCustomers[n].email => m = n

VARIABLES
    idemResult, idemLock, idem, overran, forgotten,   \* see Idempotency.tla
    customer,       \* [Numbers -> row], mock.customers
    request,        \* [Calls -> record], the HTTP request each call has sent last
    ask,            \* [Calls -> record], the part of a call outside withIdempotency
    raced,          \* history: calls between whose check and write their address was taken
    faults          \* counts the faults, up to MaxFaults

Idem == INSTANCE Idempotency WITH Results <- Result

idemVars == <<idemResult, idemLock, idem, overran, forgotten>>
crmVars == <<customer, raced>>
customerVars == <<idemVars, crmVars, request, ask, faults>>

-----------------------------------------------------------------------------
(* Types *)

(* "emailBy" is a history variable: the call that gave the row its address. *)
Row == [name : Names, email : Emails, tier : Tiers, emailBy : Calls \cup {None}]
NoRow == [name |-> << >>, email |-> None, tier |-> "standard", emailBy |-> None]

HttpRequest ==
    [pc  : {"none", "check", "insert", "read", "recheck", "apply", "done", "failed"},
     id  : Ids \cup {None},
     ref : Numbers \cup {0},
     was : Row \cup {NoRow}]

NoRequest == [pc |-> "none", id |-> None, ref |-> 0, was |-> NoRow]

(* "unsure": the user has not confirmed that the customer is a new one.  "again" is a
   history variable: the same request had been answered before this call began. *)
Asking ==
    [pc     : {"idle", "peek", "search", "idem", "out"},
     id     : Ids \cup {None},
     unsure : BOOLEAN,
     again  : BOOLEAN,
     answer : {"none", "replayed", "exists", "duplicates", "denied"}]

NotAsking == [pc |-> "idle", id |-> None, unsure |-> FALSE, again |-> FALSE, answer |-> "none"]

CustomerTypeOK ==
    /\ Idem!IdemTypeOK
    /\ \A n \in Numbers : customer[n] \in Row \cup {NoRow}
    /\ request \in [Calls -> HttpRequest]
    /\ ask \in [Calls -> Asking]
    /\ raced \subseteq Calls
    /\ faults \in 0..MaxFaults

CustomerInit ==
    /\ Idem!IdemInit
    /\ customer = [n \in Numbers |-> IF n \in DOMAIN FirstCustomers THEN FirstCustomers[n] ELSE NoRow]
    /\ request = [c \in Calls |-> NoRequest]
    /\ ask = [c \in Calls |-> NotAsking]
    /\ raced = {}
    /\ faults = 0

-----------------------------------------------------------------------------
(* The duplicate search *)

Rows == {n \in Numbers : customer[n] # NoRow}

IsPrefixOf(s, t) == Len(s) <= Len(t) /\ SubSeq(t, 1, Len(s)) = s

Contains(s, t) ==
    \E k \in 0..Len(s) : k + Len(t) <= Len(s) /\ SubSeq(s, k + 1, k + Len(t)) = t

SameDomain(e, f) == DomainOf[e] = DomainOf[f] /\ DomainOf[e] \notin FreeDomains

(* duplicateReason: the same name, one that begins like the other, or the same domain. *)
LooksLike(n, i) ==
    \/ IsPrefixOf(customer[n].name, RequestOf[i].name)
    \/ IsPrefixOf(RequestOf[i].name, customer[n].name)
    \/ SameDomain(customer[n].email, RequestOf[i].email)

(* What the two searches find: by the first two words of the name, and by the domain of
   the address, unless many share it.  They run at the same time, as one step here, and
   no search finds more than fits on its page. *)
Found(i) ==
    LET q == RequestOf[i]
        words == IF Len(q.name) <= 2 THEN q.name ELSE SubSeq(q.name, 1, 2)
    IN  {n \in Rows : Contains(customer[n].name, words) \/ SameDomain(customer[n].email, q.email)}

-----------------------------------------------------------------------------
(* The CRM *)

Reached(c, pc) == request' = [request EXCEPT ![c].pc = pc]

HasEmail(e) == {n \in Rows : customer[n].email = e}

(* The fields a patch would change in the row it has read. *)
Changed(c, was) ==
    LET q == RequestOf[request[c].id] IN {f \in q.sets : q[f] # was[f]}

(* The calls that have checked that e is free, and are about to write it. *)
Checked(c, e) ==
    {d \in Calls \ {c} :
       /\ request[d].pc = "apply" => "email" \in Changed(d, request[d].was)
       /\ request[d].pc \in {"insert", "apply"} /\ RequestOf[request[d].id].email = e}

(* Mutant: the address of a new customer is not checked. *)
CheckNothing(c) ==
    /\ request[c].pc = "check"
    /\ Reached(c, "insert")
    /\ UNCHANGED crmVars

(* POST /customers: assertEmailAvailable ... *)
CheckEmail(c) ==
    /\ request[c].pc = "check"
    /\ Reached(c, IF HasEmail(RequestOf[request[c].id].email) = {} THEN "insert" ELSE "failed")
    /\ UNCHANGED crmVars

(* ... and later the row and its contact.  No index keeps addresses unique. *)
InsertCustomer(c) ==
    LET q == RequestOf[request[c].id]
        n == 1 + Cardinality(Rows)
    IN  /\ request[c].pc = "insert" /\ n \in Numbers
        /\ customer' = [customer EXCEPT ![n] =
              [name |-> q.name, email |-> q.email, tier |-> q.tier, emailBy |-> c]]
        /\ raced' = raced \cup Checked(c, q.email)
        /\ request' = [request EXCEPT ![c].pc = "done", ![c].ref = n]

(* PATCH /customers/:customerRef: the row is read ... *)
ReadCustomer(c) ==
    LET was == customer[request[c].ref]
        next == IF Changed(c, was) = {} THEN "done"
                ELSE IF "email" \in Changed(c, was) THEN "recheck" ELSE "apply"
    IN  /\ request[c].pc = "read"
        /\ request' = [request EXCEPT ![c].pc = next, ![c].was = was]
        /\ UNCHANGED crmVars

(* ... a new address is looked up among the others ... *)
CheckNewEmail(c) ==
    LET taken == HasEmail(RequestOf[request[c].id].email) \ {request[c].ref}
    IN  /\ request[c].pc = "recheck"
        /\ Reached(c, IF taken = {} THEN "apply" ELSE "failed")
        /\ UNCHANGED crmVars

(* Mutant: the row that was read is written back whole, with the changes in it. *)
ApplyRow(c) ==
    LET n == request[c].ref
        q == RequestOf[request[c].id]
        To(f) == IF f \in q.sets THEN q[f] ELSE request[c].was[f]
    IN  /\ request[c].pc = "apply"
        /\ customer' = [customer EXCEPT ![n] = [name |-> To("name"), email |-> To("email"),
              tier |-> To("tier"), emailBy |-> IF "email" \in q.sets THEN c ELSE @.emailBy]]
        /\ raced' = raced
        /\ Reached(c, "done")

(* ... and the changed fields are written.  The row is not locked in between. *)
ApplyChanges(c) ==
    LET n == request[c].ref
        q == RequestOf[request[c].id]
        changed == Changed(c, request[c].was)
        To(f) == IF f \in changed THEN q[f] ELSE customer[n][f]
    IN  /\ request[c].pc = "apply"
        /\ customer' = [customer EXCEPT ![n] = [name |-> To("name"), email |-> To("email"),
              tier |-> To("tier"), emailBy |-> IF "email" \in changed THEN c ELSE @.emailBy]]
        /\ raced' = IF "email" \in changed THEN raced \cup Checked(c, q.email) ELSE raced
        /\ Reached(c, "done")

CrmStep(c) ==
    /\ \/ CheckEmail(c) \/ InsertCustomer(c)
       \/ ReadCustomer(c) \/ CheckNewEmail(c) \/ ApplyChanges(c)
    /\ UNCHANGED <<idemVars, ask>>

-----------------------------------------------------------------------------
(* The service *)

Answered(i) == \E d \in Calls : idem[d].id = i /\ idem[d].answer \in Idem!Success

TurnAway(c, answer) ==
    /\ ask' = [ask EXCEPT ![c].pc = "out", ![c].answer = answer]
    /\ UNCHANGED idemVars

(* On to withIdempotency. *)
GoOn(c) ==
    /\ ask' = [ask EXCEPT ![c].pc = "idem"]
    /\ Idem!Enter(c, ask[c].id)

(* A call comes in; whether the user has confirmed is no part of its id. *)
Ask(c, i, unsure) ==
    /\ ask[c].pc = "idle"
    /\ RequestOf[i].op = "update" => ~ unsure
    /\ ask' = [ask EXCEPT ![c] = [NotAsking EXCEPT !.pc = "peek", !.id = i, !.unsure = unsure,
                                                   !.again = Answered(i)]]
    /\ UNCHANGED <<idemVars, crmVars, request>>

(* Mutant: the duplicate check comes first. *)
PeekSkipped(c) ==
    /\ ask[c].pc = "peek" /\ RequestOf[ask[c].id].op = "create"
    /\ IF ask[c].unsure
       THEN ask' = [ask EXCEPT ![c].pc = "search"] /\ UNCHANGED idemVars
       ELSE GoOn(c)
    /\ UNCHANGED <<crmVars, request>>

(* createCustomer: a retry of a create that already succeeded returns it. *)
Peek(c) ==
    /\ ask[c].pc = "peek" /\ RequestOf[ask[c].id].op = "create"
    /\ IF idemResult[ask[c].id] # None
       THEN TurnAway(c, "replayed")
       ELSE IF ask[c].unsure
            THEN ask' = [ask EXCEPT ![c].pc = "search"] /\ UNCHANGED idemVars
            ELSE GoOn(c)
    /\ UNCHANGED <<crmVars, request>>

(* The duplicate check. *)
Search(c) ==
    LET i == ask[c].id
        found == Found(i)
    IN  /\ ask[c].pc = "search"
        /\ IF \E n \in found : customer[n].email = RequestOf[i].email
           THEN TurnAway(c, "exists")
           ELSE IF \E n \in found : LooksLike(n, i) THEN TurnAway(c, "duplicates") ELSE GoOn(c)
        /\ UNCHANGED <<crmVars, request>>

(* updateCustomer: tier and status need a lead or an admin. *)
CheckFields(c) ==
    LET i == ask[c].id
    IN  /\ ask[c].pc = "peek" /\ RequestOf[i].op = "update"
        /\ IF "tier" \in RequestOf[i].sets /\ i \notin Leads THEN TurnAway(c, "denied") ELSE GoOn(c)
        /\ UNCHANGED <<crmVars, request>>

(* The run sends its one request to the CRM. *)
SendRequest(c) ==
    LET i == idem[c].id
    IN  /\ idem[c].pc = "run" /\ request[c].pc = "none"
        /\ IF RequestOf[i].op = "create"
           THEN request' = [request EXCEPT ![c].pc = "check", ![c].id = i]
           ELSE request' = [request EXCEPT ![c].pc = IF RequestOf[i].ref \in Rows THEN "read" ELSE "failed",
                                           ![c].id = i, ![c].ref = RequestOf[i].ref]
        /\ UNCHANGED <<idemVars, crmVars, ask>>

(* The answer of the CRM. *)
RequestAnswered(c) ==
    /\ idem[c].pc = "run"
    /\ \/ request[c].pc = "done" /\ Idem!RunDone(c, [by |-> c, ref |-> request[c].ref])
       \/ request[c].pc = "failed" /\ Idem!RunFails(c)
    /\ UNCHANGED <<crmVars, request, ask>>

CallStep(c) ==
    \/ Peek(c) \/ Search(c) \/ CheckFields(c) \/ SendRequest(c) \/ RequestAnswered(c)

-----------------------------------------------------------------------------
(* Failures *)

(* No answer in time: the request may go on over there. *)
CallFails(c) ==
    /\ idem[c].pc = "run" /\ request[c].pc # "none"
    /\ Idem!RunFails(c)
    /\ UNCHANGED <<crmVars, request, ask>>

(* The request fails over there. *)
RequestFails(c) ==
    /\ request[c].pc \in {"check", "insert", "read", "recheck", "apply"}
    /\ Reached(c, "failed")
    /\ UNCHANGED <<idemVars, crmVars, ask>>

IdemFault ==
    /\ \/ \E c \in Calls : Idem!RedisFails(c) \/ Idem!Die(c)
       \/ \E i \in Ids : Idem!LockExpires(i) \/ Idem!ResultExpires(i)
    /\ UNCHANGED <<crmVars, request, ask>>

CustomerNext ==
    \/ /\ \E c \in Calls :
             \/ \E i \in Ids, unsure \in BOOLEAN : Ask(c, i, unsure)
             \/ CallStep(c)
             \/ Idem!IdemStep(c) /\ UNCHANGED <<crmVars, request, ask>>
             \/ CrmStep(c)
       /\ UNCHANGED faults
    \/ /\ IdemFault \/ \E c \in Calls : CallFails(c) \/ RequestFails(c)
       /\ faults < MaxFaults /\ faults' = faults + 1

CustomerSpec == CustomerInit /\ [][CustomerNext]_customerVars

-----------------------------------------------------------------------------
(* Properties *)

(* Two customers have the same address only if one of the two writes took it between
   the other's check and its write; nothing but the check keeps addresses unique
   (crm.ts:74-95, customer-service.ts:380). *)
EmailsUniqueUnlessRaced ==
    \A m, n \in Rows :
       m # n /\ customer[m].email = customer[n].email =>
          \E k \in {m, n} : customer[k].emailBy \in raced

(* A create that was answered, and is asked for again, is not turned away as a duplicate
   of the customer it made, as long as its result is remembered
   (customer-service.ts:411-419). *)
RepeatIsNoDuplicate ==
    \A c \in Calls :
       ask[c].again /\ ask[c].id \notin forgotten => ask[c].answer \notin {"exists", "duplicates"}

(* The tier of a customer changes by a lead's request only, also when an agent's change
   to another field was decided on a row that has changed since
   (customer-service.ts:482-483, crm.ts:223-257). *)
TierByLeadsOnly ==
    [][\A n \in Rows :
          customer'[n].tier # customer[n].tier =>
             \E c \in Calls : /\ request[c].pc = "apply" /\ request'[c].pc = "done"
                              /\ request[c].id \in Leads]_customerVars

=============================================================================
