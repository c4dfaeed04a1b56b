---------------------------- MODULE RefundService ----------------------------
(***************************************************************************)
(* issue_refund (server/src/services/refund-service.ts): a preview issues  *)
(* a confirmation token (gateway/confirmation.ts) for what would happen,   *)
(* and a confirm call carrying it decides again, uses the token up, and    *)
(* refunds at billing or asks for approval, all inside withIdempotency     *)
(* (Idempotency.tla).                                                      *)
(*                                                                         *)
(* A request stands for everything the token's fingerprint covers          *)
(* (customer, invoice, amount, reason, note, ticket).  The key of an       *)
(* approval row and of a refund is the idempotency id of user, request and *)
(* payment.  Verification takes place as the call arrives; a call whose    *)
(* token does not verify ends there and changes nothing.  Redis, billing   *)
(* and the process may fail in any step.  Ticket notes are left out.       *)
(***************************************************************************)
EXTENDS RefundEvaluator

CONSTANTS
    Requests,       \* refund requests, as the token's fingerprint tells them apart
    AmountOf,       \* [Requests -> Amounts]
    KeyFor,         \* [Users \X Requests \X Payments -> Keys], idempotencyKeyFor
    Tokens,         \* bound: confirmation tokens that can be issued
    MaxFaults       \* bound: failures and expiries in a behaviour

(* What a run returns: the refund or the approval, named by the call that made it. *)
Outcome == [status : {"completed", "pending_approval"}, ref : Calls]

ASSUME RefundServiceAssumption ==
    /\ AmountOf \in [Requests -> Amounts]
    /\ KeyFor \in [Users \X Requests \X Payments -> Keys]
    /\ \A x, y \in Users \X Requests \X Payments : KeyFor[x] = KeyFor[y] => x = y
    /\ None \notin Users \cup Payments \cup Policies \cup Tokens \cup Calls \cup Keys \cup Outcome
    /\ MaxFaults \in Nat

VARIABLES
    idemResult, idemLock, idem, overran, forgotten,   \* see Idempotency.tla
    tokens,         \* [Tokens -> token], what each token says
    expired,        \* tokens past their 5 minutes
    usedMark,       \* tokens with a confirm:used mark in Redis
    acted,          \* history: calls that used their token up
    asked,          \* approval rows this service inserted: set of [by, key, amount]
    conf,           \* [Calls -> record], confirm calls in progress
    faults          \* counts the faults, up to MaxFaults

Idem == INSTANCE Idempotency WITH Ids <- Keys, Results <- Outcome

idemVars == <<idemResult, idemLock, idem, overran, forgotten>>
tokenVars == <<tokens, expired, usedMark, acted>>
ownVars == <<asked, conf>>

refundVars == <<billingVars, evaluatorVars, idemVars, tokenVars, ownVars, faults>>

-----------------------------------------------------------------------------
(* Types *)

Actions == {"execute", "request_approval"}

Token == [user : Users \cup {None}, request : Requests \cup {None},
          action : Actions \cup {"none"}, payment : Payments \cup {None}]

NoToken == [user |-> None, request |-> None, action |-> "none", payment |-> None]

Ask == [by : Calls, key : Keys, amount : Amounts]

(* "run" is the state outside the run's own steps; policy is the caller's when the
   call came in. *)
Conf == [pc     : {"idle", "run", "use", "act", "posted"},
         token  : Tokens \cup {None},
         policy : Policies \cup {None},
         error  : {"none", "already_used", "other"}]

NoConf == [pc |-> "idle", token |-> None, policy |-> None, error |-> "none"]

RefundTypeOK ==
    /\ BillingTypeOK /\ EvaluatorTypeOK /\ Idem!IdemTypeOK
    /\ tokens \in [Tokens -> Token]
    /\ expired \subseteq Tokens /\ usedMark \subseteq Tokens /\ acted \subseteq Calls
    /\ asked \subseteq Ask
    /\ conf \in [Calls -> Conf]
    /\ faults \in 0..MaxFaults

RefundInit ==
    /\ BillingInit /\ EvaluatorInit /\ Idem!IdemInit
    /\ tokens = [t \in Tokens |-> NoToken]
    /\ expired = {} /\ usedMark = {} /\ acted = {}
    /\ asked = {}
    /\ conf = [c \in Calls |-> NoConf]
    /\ faults = 0

-----------------------------------------------------------------------------
(* Helpers *)

Said(c) == tokens[conf[c].token]

AmountFor(c) == AmountOf[Said(c).request]

(* verifyConfirmation: not expired, this user's, for this very request. *)
Verifies(t, u, r) == t \notin expired /\ tokens[t].user = u /\ tokens[t].request = r

(* Mutant: the preview is trusted, whatever has changed since. *)
SameDecisionTrusted(c) == Said(c).payment \in Candidates(AmountFor(c))

(* The evaluator decides as the preview did. *)
SameDecision(c) ==
    /\ Action(conf[c].policy, AmountFor(c)) = Said(c).action
    /\ Chosen(AmountFor(c)) = Said(c).payment

NextStep(c, pc) == conf' = [conf EXCEPT ![c].pc = pc]

(* The run ends, with a result or an error. *)
Return(c, status, ref) ==
    Idem!RunDone(c, [status |-> status, ref |-> ref]) /\ NextStep(c, "run")

Throw(c, error) ==
    Idem!RunFails(c) /\ conf' = [conf EXCEPT ![c].pc = "run", ![c].error = error]

-----------------------------------------------------------------------------
(* preview *)

(* Evaluates and issues a token; nothing else happens. *)
Preview(t, u, r) ==
    /\ tokens[t] = NoToken
    /\ ~ Refused(policy[u], AmountOf[r])
    /\ tokens' = [tokens EXCEPT ![t] =
          [user |-> u, request |-> r, action |-> Action(policy[u], AmountOf[r]),
           payment |-> Chosen(AmountOf[r])]]
    /\ UNCHANGED <<expired, usedMark, acted, billingVars, evaluatorVars, idemVars, ownVars>>

(* Five minutes pass; the used mark goes with the token, never before it. *)
TokenExpires(t) ==
    /\ tokens[t] # NoToken
    /\ \/ t \notin expired /\ expired' = expired \cup {t} /\ UNCHANGED usedMark
       \/ t \in expired \cap usedMark /\ usedMark' = usedMark \ {t} /\ UNCHANGED expired
    /\ UNCHANGED <<tokens, acted, billingVars, evaluatorVars, idemVars, ownVars>>

-----------------------------------------------------------------------------
(* confirm *)

Confirm(c, u, r, t) ==
    /\ conf[c].token = None /\ http[c].pc = "idle"
    /\ tokens[t] # NoToken
    /\ Verifies(t, u, r)
    /\ Idem!Enter(c, KeyFor[<<u, r, tokens[t].payment>>])
    /\ conf' = [conf EXCEPT ![c] =
          [pc |-> "run", token |-> t, policy |-> policy[u], error |-> "none"]]
    /\ UNCHANGED <<tokenVars, asked, billingVars, evaluatorVars>>

(* Re-check: another refund, a suspension or a policy change may have happened. *)
Evaluate(c) ==
    /\ idem[c].pc = "run" /\ conf[c].pc = "run"
    /\ IF Refused(conf[c].policy, AmountFor(c)) \/ ~ SameDecision(c)
       THEN Throw(c, "other")
       ELSE NextStep(c, "use") /\ UNCHANGED idemVars
    /\ UNCHANGED <<tokenVars, asked, billingVars, evaluatorVars>>

(* Mutant: SET without NX. *)
ConsumeAgain(c) ==
    /\ conf[c].pc = "use"
    /\ usedMark' = usedMark \cup {conf[c].token}
    /\ acted' = acted \cup {c}
    /\ NextStep(c, "act")
    /\ UNCHANGED <<tokens, expired, asked, idemVars, billingVars, evaluatorVars>>

(* consumeConfirmation: SET NX of the token's used mark. *)
Consume(c) ==
    LET t == conf[c].token
    IN  /\ conf[c].pc = "use"
        /\ IF t \in usedMark
           THEN Throw(c, "already_used") /\ UNCHANGED <<usedMark, acted>>
           ELSE /\ usedMark' = usedMark \cup {t}
                /\ acted' = acted \cup {c}
                /\ NextStep(c, "act")
                /\ UNCHANGED idemVars
        /\ UNCHANGED <<tokens, expired, asked, billingVars, evaluatorVars>>

(* Mutant: a duplicate row is skipped, and reported as inserted. *)
InsertApprovalQuietly(c) ==
    LET k == idem[c].id
    IN  /\ conf[c].pc = "act" /\ Said(c).action = "request_approval"
        /\ IF \E a \in asked : a.key = k
           THEN Return(c, "pending_approval", c) /\ UNCHANGED asked
           ELSE /\ asked' = asked \cup {[by |-> c, key |-> k, amount |-> AmountFor(c)]}
                /\ Return(c, "pending_approval", c) \/ Throw(c, "other")
        /\ UNCHANGED <<tokenVars, billingVars, evaluatorVars>>

(* requestApproval: insert a row; its key column is UNIQUE.  The answer to the commit
   may be lost. *)
InsertApproval(c) ==
    LET k == idem[c].id
    IN  /\ conf[c].pc = "act" /\ Said(c).action = "request_approval"
        /\ IF \E a \in asked : a.key = k
           THEN Throw(c, "other") /\ UNCHANGED asked
           ELSE /\ asked' = asked \cup {[by |-> c, key |-> k, amount |-> AmountFor(c)]}
                /\ Return(c, "pending_approval", c) \/ Throw(c, "other")
        /\ UNCHANGED <<tokenVars, billingVars, evaluatorVars>>

(* executeRefund: post to billing under the idempotency key. *)
ExecuteRefund(c) ==
    /\ conf[c].pc = "act" /\ Said(c).action = "execute"
    /\ Post(c, idem[c].id, Said(c).payment, AmountFor(c))
    /\ NextStep(c, "posted")
    /\ UNCHANGED <<refunds, payLock, idemVars, tokenVars, asked, evaluatorVars>>

(* Mutant: the result names the payment in place of the refund. *)
BillingAnswersPayment(c) ==
    /\ conf[c].pc = "posted" /\ http[c].pc = "done"
    /\ IF http[c].reply \in {"created", "replayed"}
       THEN Return(c, "completed", http[c].payment)
       ELSE Throw(c, "other")
    /\ UNCHANGED <<tokenVars, asked, billingVars, evaluatorVars>>

(* Billing answers, with the refund it made or made before, or with an error. *)
BillingAnswers(c) ==
    /\ conf[c].pc = "posted" /\ http[c].pc = "done"
    /\ IF http[c].reply \in {"created", "replayed"}
       THEN Return(c, "completed", http[c].ref)
       ELSE Throw(c, "other")
    /\ UNCHANGED <<tokenVars, asked, billingVars, evaluatorVars>>

(* Any of these calls fails; one to billing may take effect all the same. *)
CallFails(c) ==
    /\ idem[c].pc = "run"
    /\ Throw(c, "other")
    /\ UNCHANGED <<tokenVars, asked, billingVars, evaluatorVars>>

(* The process dies. *)
ServerDies(c) ==
    /\ Idem!Die(c)
    /\ NextStep(c, "run")
    /\ UNCHANGED <<tokenVars, asked, billingVars, evaluatorVars>>

RunStep(c) ==
    Evaluate(c) \/ Consume(c) \/ InsertApproval(c) \/ ExecuteRefund(c) \/ BillingAnswers(c)

-----------------------------------------------------------------------------
(* Everything together *)

(* A refund of the same payments that approve() posts, under a key of its own. *)
OtherRefund(c, k, p, a) ==
    /\ conf[c].token = None
    /\ \A x \in DOMAIN KeyFor : KeyFor[x] # k
    /\ Post(c, k, p, a)
    /\ UNCHANGED <<refunds, payLock, idemVars, tokenVars, ownVars, evaluatorVars>>

ServiceStep ==
    \/ \E t \in Tokens : TokenExpires(t) \/ \E u \in Users, r \in Requests : Preview(t, u, r)
    \/ \E c \in Calls :
          \/ \E u \in Users, r \in Requests, t \in Tokens : Confirm(c, u, r, t)
          \/ RunStep(c)
          \/ Idem!IdemStep(c) /\ UNCHANGED <<tokenVars, ownVars, billingVars, evaluatorVars>>

(* Another refund, billing at work, and what changes around them. *)
OutsideStep ==
    \/ \E c \in Calls :
          \/ HandlerStep(c) /\ UNCHANGED <<evaluatorVars, idemVars, tokenVars, ownVars>>
          \/ \E k \in Keys, p \in Payments, a \in Amounts : OtherRefund(c, k, p, a)
    \/ Surroundings /\ UNCHANGED <<billingVars, idemVars, tokenVars, ownVars>>

Fault ==
    \/ \E c \in Calls :
          \/ CallFails(c) \/ ServerDies(c)
          \/ Idem!RedisFails(c) /\ UNCHANGED <<tokenVars, ownVars, billingVars, evaluatorVars>>
          \/ RollBack(c) /\ UNCHANGED <<evaluatorVars, idemVars, tokenVars, ownVars>>
    \/ /\ \E k \in Keys : Idem!LockExpires(k) \/ Idem!ResultExpires(k)
       /\ UNCHANGED <<tokenVars, ownVars, billingVars, evaluatorVars>>

RefundNext ==
    \/ (ServiceStep \/ OutsideStep) /\ UNCHANGED faults
    \/ Fault /\ faults < MaxFaults /\ faults' = faults + 1

RefundSpec == RefundInit /\ [][RefundNext]_refundVars

-----------------------------------------------------------------------------
(* Properties *)

(* The token for user u, request r, action and payment p was used up by a call. *)
AgreedTo(u, r, action, p) ==
    \E c \in acted :
       Said(c) = [user |-> u, request |-> r, action |-> action, payment |-> p]

(* Whatever the service does was previewed as exactly that (same user, request, action
   and payment) and its token used up; a refund is within the direct limit the caller
   has when it is made (refund-service.ts:191-205). *)
ConsentedOnly ==
    \A u \in Users, q \in Requests, p \in Payments :
       /\ \A r \in Under(KeyFor[<<u, q, p>>]) :
             /\ r.payment = p /\ r.amount = AmountOf[q]
             /\ AgreedTo(u, q, "execute", p)
             /\ r.amount <= conf[r.ref].policy.direct
       /\ \A a \in asked :
             a.key = KeyFor[<<u, q, p>>] => AgreedTo(u, q, "request_approval", p)

(* A token is acted on by one call, even by calls that run beside each other because a
   lock expired; only the used mark of an expired token can be forgotten under a call
   that verified it in time (confirmation.ts:138-151). *)
SingleUse ==
    \A c, d \in acted :
       conf[c].token = conf[d].token => c = d \/ conf[c].token \in expired

(* A success that is answered, at once or from the store, names a refund or an approval
   that exists under the id of the call. *)
Exists(result, id) ==
    IF result.status = "completed"
    THEN \E r \in Under(id) : r.ref = result.ref
    ELSE \E a \in asked : a.key = id /\ a.by = result.ref

AnsweredTruthfully ==
    /\ \A c \in Calls : idem[c].answer \in Idem!Success => Exists(idem[c].result, idem[c].id)
    /\ \A k \in Keys : idemResult[k] # None => Exists(idemResult[k], k)

(* The same confirmed request is not both refunded and put up for approval, whatever
   changes between its previews, unless a call of it failed or outlived its lock, or
   its stored result has expired. *)
OneOutcome ==
    \A k \in Keys \ forgotten :
       Under(k) # {} /\ (\E a \in asked : a.key = k) =>
          \E c \in Calls : idem[c].id = k /\ (idem[c].answer = "failed" \/ c \in overran)

(* confirmation.ts:20-22, "a retried confirm returns the stored result instead of failing
   with 'already used'": nobody is turned away with "already used" after another confirm
   with the same token was answered with an error although it made its refund. *)
RetryReplays ==
    [][\A c, d \in Calls :
          /\ conf[c].error # conf'[c].error
          /\ conf[d].token = conf[c].token
          /\ idem[d].answer = "failed"
          /\ \E r \in Under(idem[d].id) : r.ref = d
          => conf'[c].error # "already_used"
      ]_conf

=============================================================================
