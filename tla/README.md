# A verification project for supportops-mcp

TLA+ models of the server of this repository (`server/src`), checked with TLC on small
instances and, where noted, proved with TLAPS for every value of the constants. The
server lets support people and AI agents read accounts, work on tickets, look after
customers and issue refunds. It keeps its own rows in PostgreSQL, its locks, counters and
stored results in Redis, and does its work in three systems over HTTP (a CRM, a billing
and a ticketing system, whose stand-ins are part of the repository).

## 1. Inventory

| Component | State it keeps | Operations | Hard behaviour | Module |
|---|---|---|---|---|
| Billing, refunds (`crm-system/routes/billing.ts:527-645`) | payments, refunds with a UNIQUE key | `POST /refunds` | concurrent requests, row lock, races for a key | `Billing` |
| Billing, subscriptions (`billing.ts:62-73, 205-394`) | subscriptions, invoices | `POST /subscriptions` | one live subscription, numbering under an advisory lock, the turn of the year | `Subscriptions` |
| Billing, invoice reads (`billing.ts`, `services/billing-service.ts`, `services/cursor.ts`) | none; a cursor | pages of invoices | offsets into a list that changes | `InvoicePaging` |
| Refund evaluator (`services/refund-evaluator.ts`) | none, reads customer, invoice, policy | `evaluate` | what it read is stale at once | `RefundEvaluator` |
| Refund service (`services/refund-service.ts`) | approval rows it inserts | `issue_refund`: preview, confirm | decision and effect apart, timeouts, retries | `RefundService` |
| Confirmation tokens (`gateway/confirmation.ts`) | signed tokens, used marks in Redis | create, verify, consume | expiry of token and mark, single use | `RefundService` |
| Idempotency (`gateway/idempotency.ts`) | result and lock per id in Redis | `withIdempotency`, `peekIdempotent` | lock expiry, late release, waiting, lost results | `Idempotency` |
| Approval service (`services/approval-service.ts`) | approvals table | list and expire, approve and resume, reject | execution outside the row lock, crash between billing and the row | `Approvals` |
| Support service, ticketing (`services/support-service.ts`, `crm-system/routes/ticketing.ts`) | tickets, comments | create, update, comment | check then act across HTTP, partial failure | `Tickets` |
| Customer service, CRM (`services/customer-service.ts`, `crm-system/routes/crm.ts`) | customers, contacts | create, update | duplicate check against concurrent writes | `Customers` |
| Account overview (`customer-service.ts:268-376`) | none | `getAccount` | five parallel reads, some of which fail | `AccountOverview` |
| Rate limiter, login throttle (`gateway/rate-limiter.ts`, `gateway/login-throttle.ts`) | sliding windows in Redis | consume, peek, hit, reset | all rules or none; check and count are separate for logins | `RateLimiter`, `LoginThrottle` |
| Authentication, access tokens (`gateway/auth.ts`, `services/auth-service.ts`) | users, tokens, a cache per process | create, revoke, verify; login | cache against revocation, limit on active tokens | `AccessTokens`, `LoginThrottle` |
| Role policy store (`policy/role-policy-store.ts`) | cache of role policies per process | effective policy | shared load, stale reads when the database is down | `McpGateway` |
| MCP transport and tools (`transport/mcp.ts`, `tools/*`) | none | the gates of one tool call | order of the gates | `McpGateway` |
| Audit (`audit/*`, `services/audit-service.ts`) | audit rows | write, list by page | ids taken before rows are visible | `AuditTrail` |
| Outbound HTTP (`adapters/*`) | none | GET retried once, POST and PATCH never | a timed-out POST may still take effect | in the modules above |
| Web client (`client/src`), keys, configuration, schema, seed | cookies, chat state; none | chat loop, refund card; start-up | | not modelled, see 6 |

How they interact. A tool call passes the gates (address, token, user, policies, the
tool's limits), then its handler reaches a service with the caller's policy, and leaves an
audit row. Services read and write the three systems over HTTP. Every writing service
runs inside `withIdempotency`. A refund is previewed, confirmed with a token, and
executed at billing or put up for approval; `ApprovalService` re-evaluates and posts it
under the key `approval:<ref>`. Billing knows nothing of its callers except the key.

What makes them correct: money never exceeds what a payment collected; a key pays once; a
refund was agreed to, within the caller's limit, or approved by somebody other than the
requester; nothing is refunded for a rejected or expired approval; every answer is true
of the stored state; identical requests share one run; a ticket's history leads to its
state and its transitions are allowed; addresses, subscriptions and numbers are not given
twice; a revoked token and a withdrawn right stop working within the life of a cached
reading; limits hold under concurrency; pages lose nothing; nobody waits forever.
Everything hard to test is in `PROJECT.json` under "hazards", at its line, with the
properties that watch it.

## 2. Modules

| Module | Models | Its state in the code |
|---|---|---|
| `RefundLedger` | what billing promises: `Pay` only within the payment, once per key | abstract |
| `Billing` | the refunds handler, one action per database step | `refunds` the table (`refunded` sums it up, as the transaction does), `payLock` the `FOR UPDATE` lock, `http` the requests in progress |
| `RefundEvaluator` | `evaluate` as operators (`Refused`, `Action`, `Chosen`), and the changes it is exposed to | `customerActive` from the CRM, `pastWindow` from dates and tier, `policy` from the role policy store |
| `Approvals` | `ApprovalService`, composed with both | `approvals` the table, `rowLock` its row locks, `due` the rows past `expires_at`, `desk` the running calls of `approve` |
| `Idempotency` | `withIdempotency` around an unspecified run | `idemResult` and `idemLock` the Redis keys, `idem` the running calls; `overran`, `forgotten` are history |
| `RefundService` | preview and confirm, composed with the evaluator, billing and (by `INSTANCE`) idempotency | `tokens`, `expired`, `usedMark` the tokens and their Redis marks, `asked` the inserted approval rows, `conf` the runs; `acted` is history |
| `Tickets` | `createTicket`, `updateTicket` and the routes below them, composed with idempotency | `ticket` the rows, `log` their comments as they took effect, each with its `created_at` (`at`, taken from `begun`, the transactions begun), `request` the HTTP request each call has out, `run` the step of its run; `raced` is history |
| `Customers` | `createCustomer`, `updateCustomer` and the routes below them, composed with idempotency | `customer` the rows, `request` as in `Tickets`, `ask` the part of a call outside `withIdempotency`; `raced` is history |
| `AccountOverview` | `getAccount` | `settled` the five reads, `down` the systems that do not answer, `overview` the answer; `struck` is history |
| `Subscriptions` | `POST /billing/v1/subscriptions` | `custStatus`, `subs`, `invoices` the tables, `custLock` and `numberLock` the row and advisory locks, `post` the requests |
| `InvoicePaging` | `listInvoices` over the list endpoint | `rows` a customer's invoices, `walk` the reader with its offset, `shown` what it got; `steady` is history |
| `RateLimiter` | the Lua scripts | `hits` the sorted sets, `now` the clock |
| `LoginThrottle` | `POST /auth/login`, `POST /auth/demo` behind it | `login` the logins in progress, with the counters a failure has still to go to; `wrong`, `lost` are history |
| `AccessTokens` | creation, revocation, expiry, and `loadPat` with its cache | `token` the rows, `userActive`, `userLock`, `cache` one per server, `creating`, `revoking` the requests; `deadSince`, `forgotten` are history |
| `McpGateway` | the gates of a tool call, with the role policies and their cache | `mcp` the calls, `policy` the table, `policies` and `inFlight` per server; `withdrawn` is history |
| `AuditTrail` | audit rows and their pages | `auditRow`, and `reader` the walk through the pages |
| `MC*` | values of the constants for TLC; `MCBillingDesk`, `MCCustomers` and `MCGateway` hold several parts | `part` says which of them a behaviour is of |
| `*Proofs` | the proofs | |

Reading the actions: a handler with several `await`s is one action per step at which others
can interleave. In `Billing`: `Post` (the request arrives), `LookUp`, `LockPayment`,
`SumRefunds`, `InsertRefund` (insert and commit), `ReplayRaced`, `RollBack`. In
`Approvals`: `LockRow`, `CheckLocked`, `MarkApproved` inside the transaction, `Recheck`,
`NoteNotExecuted`, `PostRefund`, `ReceiveAnswer`, `TimeOut`, `MarkExecuted` outside it, and
`Crash` anywhere. In `RefundService`: `Preview`, `Confirm`, then `Idempotency`'s steps, and
inside the run `Evaluate`, `Consume`, `InsertApproval` or `ExecuteRefund` and
`BillingAnswers`. `Tickets` and `Customers` have the steps of the service (`StartUpdate`,
`TicketPatched`, ...) and those of the system below it (`ReadForPatch`, `BeginWrite`,
`ApplyPatch`, ...), which go on after the service gave up: `CallFails`, `RequestFails`,
`ServerDies`, `LockExpires`, `ResultExpires` are the faults. In `McpGateway` a call goes
through `Arrive`, `LookUpToken` (or `ReadRow` and `KeepRow`), `UserGate`, `AskPolicies`,
`FindTool` and `ToolGate`.

A definition marked as a mutant is a plausible bug of the definition after it. No
specification uses it; put in the place of that definition it must break the property
that `PROJECT.json` pairs it with, which shows that the property depends on the code.

Abstractions. Refunds, approvals and results are named by the call that made them, since
references come from database sequences; a new ticket takes any number that is free, as a
sequence that skips numbers may give it. A request stands for all the fields its
fingerprint or idempotency id covers; in `Subscriptions` these are the customer and the
plan (with its cycle and amount), and `paying` stands beside them for `mark_paid` and
`payment_method`, which billing does not compare. Comments are read by `created_at`, which
is the time their transaction began, while updates take effect in the order of their
`UPDATE`s: `BeginWrite` and `ApplyPatch` keep the two orders apart. In the refund modules
and in `Idempotency` time is a set of events (a token, a lock, a result, an approval or a
window expires) that may happen in any state; the gateway needs a clock, since its
properties say how long: `now`, which all servers and Redis share. Calls that validation
turns away change nothing and are left out, and so are texts, views and logs. `Approvals`
lets any pending row appear; how rows come about is `RefundService`'s part. A name is a
sequence of words and a ticket its status and priority (the assignee goes as the priority
does). The duplicate searches of `create_customer` are one step and find all there is. One
revocation of a token runs at a time, its read and its update in one step: a row that was
read as not revoked can change in between only by expiring, which the update does not look
at. Policies change once; JSON-RPC requests with several calls are left out.

`support-service.ts` calls `withIdempotency` (226, 308) and `hasRole` (51) and imports
neither (1-14), so as it stands, run by `tsx` without a type check, every valid
`create_support_ticket` or `update_ticket` call ends in a `ReferenceError` before it does
anything. There is nothing to explore in that; `Tickets` takes the two names as imported.

## 3. Runs

| Run | Instance | What it shows |
|---|---|---|
| `billing` | 3 requests, 2 keys, 3 payments (one partly refunded by the seed, one not refundable), amounts 1-2 | `NoOverRefund`, `OneRefundPerKey`, `AnswerTruthful`, `EveryRequestAnswered`, `ImplementsLedger` |
| `approvals` | 1 approval, 3 users, 3 calls, 2 payments, direct refunds of amount 1, 1 change of the surroundings | `TypeOK`, `OnlyApprovedRefunded`, `OneRefundPerApproval`, `ExecutedIsPaid`, `DecisionIsFinal` |
| `idempotency` | 3 identical calls, 2 possible results | `RunsAlone`, `OneResult`, `EveryCallEnds` |
| `refund_service` | 1 user, 1 request, 2 payments, 2 tokens, 2 calls, 2 faults, 1 change | `RefundTypeOK`, `ConsentedOnly`, `SingleUse`, `AnsweredTruthfully`, `OneOutcome` |
| `tickets` | 3 calls of 4 requests (open urgent, resolve with a note, close, reopen) on a ticket in any status, transactions that overlap, 1 fault | `HistoryLeadsToState`, `RulesUnlessRaced`, `OncePerRequest`, `SuccessIsWhole` |
| `billing_desk` | 2 requests, 2 customers, 2 keys, 2 plans, 1 way of paying, 2 years, 1 fault; or a walk with pages of 1 and 2, batches of 2 and 2 upstream calls, over up to 5 invoices, 1 issued or refunded meanwhile | `OneLiveSubscription`, `InvoicesNumbered`, `KeyNamesOneRequest`, `ActiveOnly`, `EveryPostAnswered`; `PagesAreTheList`, `NothingSkipped` |
| `customers` | 3 calls of 5 requests on one customer and up to 3 new ones, 1 fault; or one overview with 3 turns of its systems | `EmailsUniqueUnlessRaced`, `RepeatIsNoDuplicate`, `TierByLeadsOnly`; `OverviewHonest` |
| `gateway` | 2 calls on 2 servers, 1 failure, the clock to 2; or 3 creations of tokens, at most 1 active; or 2 visitors with 5 logins on 2 accounts, 1 count lost; or demo logins; or 4 audit rows with pages of 1 and 2 | `RevokedTokensStop`, `PolicyChangesApply`, `WithinLimits`; `TokensWithinMax`; `GuessesBounded`; `AuditPagesComplete` |
| `billing_race` | as `billing` | violated: a twin can be refused as too large |
| `approvals_resume` | as `approvals` | violated: an approval that was paid while its first call gave up cannot be resumed |
| `refund_retry` | as `refund_service`, one of the payments with room for two refunds | violated: the retry of a confirm that made its refund is refused as already used |
| `subscription_body` | as `billing_desk`, with 2 ways of paying | violated: a body that differs in how it is paid is replayed |

Where a run has several parts, they share no variable (or, in the gateway, the clock and
the limiter), and a behaviour is of one part only: the states add up and do not multiply.

Why these bounds. Races need two actors on one key or row and a third that takes the money
or the lock: three calls. In `Subscriptions` two suffice, since a pair covers every case
of one customer, one key, one number or one body: what a third could do to two others it
does to one. A second key, payment, customer or body is there so that choosing the wrong
one shows. Users differ only in policy and in who asked, so three suffice for requester,
approver and another approver. One change of the surroundings per behaviour reaches every
"was true when checked" case; `MaxChanges`, `MaxFaults`, `MaxFailures`, `MaxMoves` and
`MaxTurns` name these bounds, and `OtherAmounts` the amounts that direct refunds compete
for. In `refund_service` two faults let a retry fail in its turn. A page of 2 from batches
of 2 is filled within, at the end of and across batches. A clock to 2 with cached readings
that live 1 and stale ones that live 2 has a moment inside, at and past each; `OneTrouble`
in `MCGateway` bounds a behaviour to trouble with tokens or trouble with policies, whose
gates share nothing else (the proofs of these two properties need no such bound). Five
logins and one lost count (`FiveOfAKind`, `MaxLost`) are enough to fill the address's
window, to clear the e-mail's in between, and to guess on beside each other. Ids do
not interact in `Idempotency`, so one id is enough there. Symmetry is used only in runs
without liveness.

`CHECK_DEADLOCK FALSE` everywhere: the calls of an instance are finite in number, and when
all have been answered nothing more need happen.

Fairness. `BillingFairSpec` assumes that a running handler takes its next step: the event
loop and the database run it on, and PostgreSQL grants a released row lock.
`IdemFairSpec` assumes the same of the calls, that every run ends (its upstream calls
have timeouts and transactions end), and that Redis expires a lock after its `EX`.
`SubFairSpec` (and `Spec` of `MCBillingDesk`) assumes strong fairness of a subscription
request's steps: PostgreSQL queues the waiters of a lock, so one that is freed again and
again is granted. No fairness is assumed of failures, of clients, or of the release of a
lock by a dead process.

## 4. Findings

1. `billing_race`: the key is looked up before the payment is locked and not after, and
   the amount is checked before the insert, so an identical concurrent request can get
   `amount_exceeds_refundable` where the adapter's contract promises the original refund.
2. `approvals_resume`: a resumed approval is re-evaluated before billing's replay is
   reached. In the run the first call's POST times out while billing is at work, billing
   makes the refund, and the call that approves again finds the money gone: it fails, and
   the row says "Approved but not executed". `ResumeCompletes` asks for a first call that
   was answered with an error, so two calls that are merely beside each other do not
   violate it.
3. `refund_retry`: only successful runs are stored, and the token is used up before the
   refund is posted. In the run the answer to the POST is lost after billing's commit, the
   confirm ends with an error, and its retry says "already used" although the refund
   exists. The payment has money left for the amount once more, so that the retry comes to
   the same decision; where it has not, the re-check turns the retry away before.
   `RetryReplays` asks for a first call that was answered with an error, as above.
4. `subscription_body`: on a replay billing compares customer, plan, cycle and amount, and
   not `mark_paid` and `payment_method`, so "same key + different body is rejected"
   (`billing.ts:236`) does not hold of bodies that differ in these: the second is answered
   with a subscription whose first invoice is as the first body wanted it.

In the first three money is safe (`NoOverRefund`, `OneRefundPerKey`, `OneRefundPerApproval`
hold); what the caller is told is wrong.

Some rules hold only with an exception, which the property states; what it exempts is what
the code does. A revocation "takes effect immediately" (`auth-service.ts:352`) on the
server that made it, but not on others, and not on a reading that was on its way to the
cache (`RevokedTokensStop`; likewise a load of policies in `PolicyChangesApply`). The
e-mail check of the CRM does not stop two writes that run beside each other
(`EmailsUniqueUnlessRaced`), nor does the check of a ticket's transition
(`RulesUnlessRaced`). Two changes of one field of a ticket whose transactions overlap can
be read in the other order than they took effect (`HistoryLeadsToState`). A call that
failed may have done its work, and its repetition does it again where no key below stops
it (`OncePerRequest`, `OneOutcome`). A failed login whose count is lost does not use up
the limit (`GuessesBounded`).

## 5. Proofs

Everything below holds for every number of calls, users, approvals, payments, keys, ids,
servers, tokens and amounts, under the named assumptions on the constants
(`BillingAssumption`, `EvaluatorAssumption`, `ApprovalsAssumption`,
`IdempotencyAssumption`, `SubscriptionsAssumption`, `RateLimiterAssumption`,
`TokensAssumption`, `GatewayAssumption`, `RefundServiceAssumption`, `TicketsAssumption`,
`CustomersAssumption`, `OverviewAssumption`, `PagingAssumption`, `ThrottleAssumption`,
`TrailAssumption`). They say that seeded refunds fit their payments, amounts and limits
are positive, an approval's key is its own, any of an invoice's payments have a newest one
(there are finitely many), the invoices of the start are numbered without gaps, the token
rows are finitely many, the rules and subjects the gateway names exist, the idempotency id
of a refund differs for another user, request or payment, an update names a ticket, the
seeded tickets and customers are rows with the first numbers, no two seeded customers
share an address, batches and pages hold at least one row, and the visitors of the login
page are finitely many.

`BillingProofs`: `BillingSpec` keeps `BillingInv`, hence `NoOverRefund` and
`OneRefundPerKey`; it keeps `AnswerTruthful`; and it implements `RefundLedger`.
`NoOverRefund` alone is not inductive: a handler between `SumRefunds` and `InsertRefund`
acts on an old sum. `BillingInv` adds that such a handler holds the payment's lock and
that its amount still fits, which no other step can change while the lock is held. What a
payment has been refunded is the sum of its rows, so an insert has to be shown to add its
amount and no more (`InsertAdds`: `MapThenSumSet` over a set and one more member). What a
fold over a set computes is shown by induction over finite sets, which `SetInduction`
states for a set of sets and derives from the well-founded order of strict subsets.

`OnlyInserts` says all that a step may do to the rows: leave them, or be the handler's
`InsertRefund`. `InsertsPay` shows that this is a step of `RefundLedger`. The compositions
reuse both: every step of `Approvals` and of `RefundService` only inserts, so with
resumes, crashes, confirms and direct refunds beside each other the ledger is still
implemented (`ApprovalsImplementLedger`, `RefundsImplementLedger`).

`IdempotencyProofs`: `IdemSpec` keeps `RunsAlone` and `OneResult`. `RunsAlone` needs that
a call past the lock is still the owner Redis names, unless the lock expired on it; this
is where the ownership test of the release matters. `OneResult` needs that whoever runs
for an id finds no result stored, which the look after taking the lock provides, and that
the result of every success is the stored one. Both hold while the id is `Clean`: no call
outlived its lock, and the result has not expired. For the modules that run inside the
wrapper it also shows that the runs under an untroubled id, none of whose calls failed,
act one after another (`UntroubledStays`, `FirstToRun`): whoever starts a run finds that
nobody else has acted under the id. `ResultsIn` says that whatever holds of the results
as runs return them holds of every result stored or answered later.

The modules that put a run inside the wrapper refine it: every step of `RefundService`,
`Tickets` and `Customers` is a step of `IdemSpec` or leaves its variables alone
(`ConfirmsImplementWrapper`, `TicketsImplementWrapper`, `CustomersImplementWrapper`). So
`RunsAlone` and `OneResult` hold of confirms and of ticket and customer writes as they
stand (`ConfirmsRunAlone`, `TicketsRunAlone`, `CustomersRunAlone`), and not only of the
wrapper by itself.

`ApprovalsProofs`: the composition of approvals, evaluator and billing keeps `TypeOK`,
`OnlyApprovedRefunded`, `OneRefundPerApproval`, `ExecutedIsPaid`, `NoOverRefund` and
`DecisionIsFinal`. The invariant `IInv` adds to billing's: a row being decided is locked
and pending (`DecidesLocked`); a call past the decision, and every request at billing under
an approval's key, belongs to an approval that stands (`ExecutesStanding`,
`PostedStanding`), even when its caller timed out or died; and a call that goes on to mark
the row executed was told of a refund under that row's key (`AwaitsOwn`).
`OneRefundPerApproval` speaks of the calls that made billing book a refund and not of its
keys: it needs on top that every call posts under the key of its own approval, whichever
payment and amount it decided on, and that a row keeps the key of the request that inserted
it (`KeyInv`); that a key pays once does the rest. The lemmas about billing's steps are
reused as they are: `BillingEffect` is all the desk needs to know of them.

`SubscriptionsProofs`: `SubSpec` keeps `OneLiveSubscription`, `InvoicesNumbered`,
`KeyNamesOneRequest` and `ActiveOnly`. The invariant `SubInv` adds that a request inside
its transaction holds the row of its customer, who is active; that one past the check has
found no live subscription, and none can appear while it holds the row; that one past the
insert is alone with its key (how a request is to be paid plays no part in any of this,
which is why two of them can share a subscription: finding 4); and that a number taken is
the next one of its year while its taker holds the advisory lock.

Of the invoice pages, `PagingSpec` keeps `PagesAreTheList` and `NothingSkipped`. A set of
invoices is a list by the place each has in it, newest first (`Place`). `PagingInv` says
what the walk has behind it: every steady invoice at or above the offset in billing's list
is on the pages; and while nothing has moved, the pages are the first of the matching
invoices, as many as match among the rows above the offset. `BatchFollows` and `OffsetMoves`
show that the rows a batch consumes are those between two offsets, also when the page fills
up in the middle of a batch. A new invoice goes to the top of the list and a refund keeps a
row listed under the status it is looked up by, so rows only move down: some are read
twice, none is passed over.

`GatewayProofs`: `GatewaySpec` keeps `RevokedTokensStop`, `PolicyChangesApply`,
`TokensWithinMax` and `WithinLimits`. The invariant `GateInv` dates what caches hold: a
valid reading of a dead token is marked as overtaken or was cached no later than its death,
and a server that has answered a revocation holds only marked ones; the same holds of
policies and of the load in flight. `TokensWithinMax` is about the row lock: whoever has
counted holds it. `WithinLimits` needs that windows only hold entries inside them, and that
a tool's day window holds all of its minute window.

`ThrottleSpec` keeps `GuessesBounded`. A login peeks before the password is checked and
counts after, so any number of visitors can be between the two, and a count can be lost.
`ThrottleInv` says that a wrong guess the address's window covers is among its entries or
was lost, and that the entries, together with the logins that may still become one, stay
below the limit and one for each visitor: only a login that found room gets in.

`TrailSpec` keeps `AuditPagesComplete`. Ids are given before rows are committed, so a row
can appear above the place where the reader is. `TrailInv` says that what was there when the
walk began and lies above the next page's beginning has been shown, and that what has been
shown falls from one row to the next.

`RefundServiceProofs`: the composition of previews, confirms, idempotency, evaluator and
billing keeps `RefundTypeOK`, `ConsentedOnly`, `SingleUse` and `AnsweredTruthfully`. The
invariant `RefundInv` follows what was agreed to from the token to billing: a call is
bound to its token and runs under the id made of it (`Bound`), one past the use of its
token has acted and the token is marked or expired (`HasActed`, `MarkedOrExpired`), an
execution was within the caller's limit when it was looked at again (`WithinDirect`), and
every request and row at billing and every approval asked for is of a call that acted on a
token saying exactly that (`PostedConsented`, `RowsConsented`, `AskedConsented`), also
when its caller gave up. That two agreements never share a key at billing is the
injectivity of `KeyFor`; billing's lemmas are reused as they are. `OneOutcome` needs
`OutcomeInv` on top: under an untroubled id one call acts (`SoleActor`), it is still at it
or its result is stored (`ActedKept`), and it asked for whatever approval there is.

`TicketsProofs`: `TicketSpec` keeps `HistoryLeadsToState` and `RulesUnlessRaced` (and
`TicketTypeOK`). Neither is inductive alone. `TicketInv` adds what a request at the
ticketing system carries (`RequestOK`): a patch that was permitted on the status its ticket
still has, or changes that start from it, unless the call is marked as raced; a write that
changes the status marks every other call between its check and its write. `LastChanges`
says that the last change of a field to take effect left it as it is; the change that is
read last is that one, or was overtaken. The wrapper's part is `IdemInv` of
`IdempotencyProofs`, instantiated. `OncePerRequest` follows from `OnceInv`: under an
untroubled id one call sends anything (`SoleSender`, `SentKept`), a ticket is the work of
the call that names it in its first comment (`Made`), and a call adds one note
(`NoteOnce`). `SuccessIsWhole` follows from `WholeInv`: each stage of a run leaves its part
of what was asked for on the ticket (`StageOK`), where later writes bury but never remove
it (`Remains`), so a run that returns, and by `ResultsIn` every result after it, stands for
all of it (`ResultsWhole`).

`CustomersProofs`: `CustomerSpec` keeps `EmailsUniqueUnlessRaced`, `RepeatIsNoDuplicate` and
`TierByLeadsOnly`. `CustomerInv` adds what a request at the CRM knows (`RequestOK`): nobody
else has the address it is about to write, unless the call is raced, and a request that
sets a tier is a lead's; and what a call knows before its run (`AskOK`): a repetition finds
a stored result, unless that has expired. The latter rests on `Remembered`, a second
invariant of the wrapper that `IdempotencyProofs` shows to be kept.

`OverviewSpec` keeps `OverviewHonest`: `OverviewInv` counts, for each read, the attempts its
system left unanswered, and an overview is shown once all five reads have settled.

Only model-checked: liveness (`EveryRequestAnswered`, `EveryCallEnds`, `EveryPostAnswered`).
Progress under fairness and `ENABLED` are out of the prover's reach. The four runs that
expect a violation show what the code does and have nothing to prove. Every other property
that a run checks is a theorem.

## 6. Not modelled

- The web client: presentation, cookies, and a chat loop around an external language model.
  What it sends to the server appears as calls of the modelled tools, in any order and any
  number; the refund card's confirm is `Confirm`. What React renders (the countdown of the
  refund card runs on during a confirm) has no counterpart here.
- Keys, configuration, migrations and the seed: start-up code and declarations. Unique
  columns, row locks and the seeded rows appear where they are used.
- Signatures, claims, password hashing and sessions: cryptography and library code.
  `lastUsedAt` and `lastLoginAt` are written and shown, and nothing else reads them.
- Redaction, masking, validation and the wording of answers: functions without state.
- Searches and views (`find_customer`, ticket search, profile pages, billing's detail
  endpoint except for what the evaluator reads): they change nothing.
- Resending by the Redis client: it only makes calls fail that could have succeeded.

The components are in `PROJECT.json` with their status.
