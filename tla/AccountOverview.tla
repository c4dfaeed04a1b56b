---------------------------- MODULE AccountOverview ----------------------------
(***************************************************************************)
(* getAccount (server/src/services/customer-service.ts): one view of a     *)
(* customer from five reads of three systems that run at the same time.    *)
(* Each read is a GET of server/src/adapters/http-client.ts, tried once    *)
(* more when its system does not answer.  What is read is left out.        *)
(***************************************************************************)
EXTENDS Integers

CONSTANTS
    MaxTurns        \* bound: times a system goes down or comes back

ASSUME OverviewAssumption == MaxTurns \in Nat

Systems == {"crm", "billing", "ticketing"}
Reads == {"profile", "subscriptions", "openInvoices", "openTickets", "latestTicket"}
Sections == {"subscriptions", "balance", "support"}

SystemOf(r) ==
    IF r = "profile" THEN "crm"
    ELSE IF r \in {"subscriptions", "openInvoices"} THEN "billing" ELSE "ticketing"

(* The reads that each section is made of. *)
ReadsOf(section) ==
    CASE section = "subscriptions" -> {"subscriptions"}
      [] section = "balance" -> {"openInvoices"}
      [] section = "support" -> {"openTickets", "latestTicket"}

VARIABLES
    down,           \* systems that do not answer, or answer with 5xx
    turns,          \* counts the turns, up to MaxTurns
    settled,        \* [Reads -> state of the read], Promise.allSettled
    overview,       \* the answer of the call
    struck          \* history: [Reads -> attempts that its system left unanswered]

overviewVars == <<down, turns, settled, overview, struck>>

OverviewTypeOK ==
    /\ down \subseteq Systems /\ turns \in 0..MaxTurns
    /\ settled \in [Reads -> {"idle", "first", "second", "ok", "outage", "error"}]
    /\ overview \in [pc : {"reading", "shown", "thrown"}, present : SUBSET Sections,
                     unavailable : SUBSET Sections]
    /\ struck \in [Reads -> 0..2]

OverviewInit ==
    /\ down = {} /\ turns = 0
    /\ settled = [r \in Reads |-> "idle"]
    /\ overview = [pc |-> "reading", present |-> {}, unavailable |-> {}]
    /\ struck = [r \in Reads |-> 0]

Settle(r, state) == settled' = [settled EXCEPT ![r] = state]

(* All five are sent before the first is awaited. *)
SendAll ==
    /\ \A r \in Reads : settled[r] = "idle"
    /\ settled' = [r \in Reads |-> "first"]
    /\ UNCHANGED <<down, turns, overview, struck>>

(* The system answers: with the data, or with what is an error of another kind: not
   found, too many requests, credentials refused, an unexpected shape. *)
SystemAnswers(r) ==
    /\ settled[r] \in {"first", "second"} /\ SystemOf(r) \notin down
    /\ \E state \in {"ok", "error"} : Settle(r, state)
    /\ UNCHANGED <<down, turns, overview, struck>>

(* It does not: once more, then UPSTREAM_UNAVAILABLE. *)
SystemSilent(r) ==
    /\ settled[r] \in {"first", "second"} /\ SystemOf(r) \in down
    /\ Settle(r, IF settled[r] = "first" THEN "second" ELSE "outage")
    /\ struck' = [struck EXCEPT ![r] = @ + 1]
    /\ UNCHANGED <<down, turns, overview>>

(* Mutant: the last ticket is not looked at. *)
UnavailableByFirst == {s \in Sections : \E r \in ReadsOf(s) \ {"latestTicket"} : settled[r] = "outage"}

(* optional: an outage marks the section of its read. *)
Unavailable == {s \in Sections : \E r \in ReadsOf(s) : settled[r] = "outage"}

(* Every section is there when all its reads are. *)
Present == {s \in Sections : \A r \in ReadsOf(s) : settled[r] = "ok"}

(* All have settled: the profile is required, errors of another kind are thrown. *)
Compose ==
    /\ overview.pc = "reading"
    /\ \A r \in Reads : settled[r] \in {"ok", "outage", "error"}
    /\ overview' =
          IF settled["profile"] # "ok" \/ \E r \in Reads : settled[r] = "error"
          THEN [overview EXCEPT !.pc = "thrown"]
          ELSE [pc |-> "shown", present |-> Present, unavailable |-> Unavailable]
    /\ UNCHANGED <<down, turns, settled, struck>>

(* A system goes down, or comes back. *)
Turn(s) ==
    /\ overview.pc = "reading"
    /\ turns < MaxTurns /\ turns' = turns + 1
    /\ down' = IF s \in down THEN down \ {s} ELSE down \cup {s}
    /\ UNCHANGED <<settled, overview, struck>>

OverviewNext ==
    \/ SendAll \/ Compose
    \/ \E r \in Reads : SystemAnswers(r) \/ SystemSilent(r)
    \/ \E s \in Systems : Turn(s)

OverviewSpec == OverviewInit /\ [][OverviewNext]_overviewVars

(* An overview that is shown lists exactly the sections it does not have, whichever of
   their reads failed and when, and each of them for a read that its system left
   unanswered twice (customer-service.ts:268-273 and 301-375, http-client.ts:8). *)
OverviewHonest ==
    overview.pc = "shown" =>
       /\ overview.unavailable = Sections \ overview.present
       /\ \A s \in overview.unavailable : \E r \in ReadsOf(s) : struck[r] = 2

=============================================================================
