------------------------- MODULE RefundServiceProofs -------------------------
(***************************************************************************)
(* Proofs about RefundService.tla for every set of users, requests,        *)
(* tokens, payments and concurrent calls, on top of the proofs about       *)
(* Billing.tla and Idempotency.tla.                                        *)
(*                                                                         *)
(* The inductive invariant follows what was agreed to from the token to    *)
(* billing: a call is bound to its token and to the id made of it, one     *)
(* past the use of its token has acted, and every request and every row    *)
(* under such an id is of a call that has acted on a token that says       *)
(* exactly that, whoever still waits for the answer.                       *)
(*                                                                         *)
(* Composed, billing still implements its ledger and the confirms still    *)
(* implement withIdempotency: every step of the composition is a step of   *)
(* theirs or leaves their state alone.                                     *)
(***************************************************************************)
EXTENDS RefundService, BillingProofs

IP == INSTANCE IdempotencyProofs WITH Ids <- Keys, Results <- Outcome

RealToken == [user : Users, request : Requests, action : Actions, payment : Payments]

Issued(t) == tokens[t] # NoToken

(* What the service keeps of its own. *)
OwnTypeOK ==
    /\ tokens \in [Tokens -> Token]
    /\ expired \subseteq Tokens /\ usedMark \subseteq Tokens /\ acted \subseteq Calls
    /\ asked \subseteq Ask
    /\ conf \in [Calls -> Conf]
    /\ faults \in 0..MaxFaults

(* A token that was issued names a user, a request, an action and a payment. *)
TokensReal == \A t \in Tokens : Issued(t) => tokens[t] \in RealToken

(* The id a token leads to. *)
IdOf(t) == KeyFor[<<tokens[t].user, tokens[t].request, tokens[t].payment>>]

(* A call that has begun has a token, whose id it runs under, and a policy. *)
Bound ==
    \A c \in Calls :
       /\ idem[c].pc # "idle" \/ conf[c].pc # "idle" \/ c \in acted => conf[c].token \in Tokens
       /\ conf[c].token \in Tokens => /\ Issued(conf[c].token)
                                      /\ idem[c].pc # "idle"
                                      /\ idem[c].id = IdOf(conf[c].token)
                                      /\ conf[c].policy \in Policies

(* The steps of a run are inside it. *)
InsideRun == \A c \in Calls : conf[c].pc \in {"use", "act", "posted"} => idem[c].pc = "run"

(* Past the use of the token, the call has acted. *)
HasActed == \A c \in Calls : conf[c].pc \in {"act", "posted"} => c \in acted

(* A token that was acted on has its mark, or has expired. *)
MarkedOrExpired == \A c \in acted : conf[c].token \in usedMark \cup expired

(* What is to be executed was within the caller's limit when it was looked at again. *)
WithinDirect ==
    \A c \in Calls :
       conf[c].pc \in {"use", "act", "posted"} /\ Said(c).action = "execute" =>
          AmountFor(c) <= conf[c].policy.direct

(* What was agreed to, and the call that acted on it. *)
Deal(u, q, action, p) == [user |-> u, request |-> q, action |-> action, payment |-> p]

Agreement == {<<c, Said(c)>> : c \in acted}

(* A request, or a row, x of call c that is under an id is what the id was agreed to. *)
Consented(c, x) ==
    \A u \in Users, q \in Requests, p \in Payments :
       x.key = KeyFor[<<u, q, p>>] =>
          /\ <<c, Deal(u, q, "execute", p)>> \in Agreement
          /\ x.payment = p /\ x.amount = AmountOf[q]
          /\ AmountOf[q] <= conf[c].policy.direct

PostedConsented == \A c \in Calls : http[c].pc # "idle" => Consented(c, http[c])

RowsConsented == \A r \in refunds : Consented(r.ref, r)

AskedConsented ==
    \A a \in asked : \A u \in Users, q \in Requests, p \in Payments :
       a.key = KeyFor[<<u, q, p>>] => <<a.by, Deal(u, q, "request_approval", p)>> \in Agreement

(* What a run waits for is the request it sent. *)
AwaitsOwn ==
    \A c \in Calls : conf[c].pc = "posted" => http[c].pc # "idle" /\ http[c].key = idem[c].id

(* Success is answered at the end of a call only. *)
AnsweredAtEnd ==
    \A c \in Calls : idem[c].answer \in Idem!Success => idem[c].pc \in {"release", "done"}

(* Results that are stored, answered, or about to be stored exist. *)
ResultsExist ==
    /\ \A k \in Keys : idemResult[k] # None => Exists(idemResult[k], k)
    /\ \A c \in Calls : idem[c].pc = "store" \/ idem[c].answer \in Idem!Success =>
          Exists(idem[c].result, idem[c].id)

OwnInv ==
    /\ OwnTypeOK /\ TokensReal /\ Bound /\ InsideRun /\ HasActed /\ MarkedOrExpired
    /\ WithinDirect /\ PostedConsented /\ RowsConsented /\ AskedConsented /\ AwaitsOwn
    /\ AnsweredAtEnd /\ ResultsExist /\ SingleUse

RefundInv ==
    BillingInv /\ AnswerTruthful /\ EvaluatorTypeOK /\ Idem!IdemTypeOK /\ OwnInv

-----------------------------------------------------------------------------
(* What every step leaves as it is: calls keep their token and policy, tokens what they
   say, and nothing agreed to or written goes away. *)
Steady ==
    /\ \A c \in Calls : conf[c].token \in Tokens =>
          conf'[c].token = conf[c].token /\ conf'[c].policy = conf[c].policy
    /\ \A t \in Tokens : Issued(t) => tokens'[t] = tokens[t]
    /\ acted \subseteq acted' /\ refunds \subseteq refunds' /\ asked \subseteq asked'

LEMMA SteadySaid ==
    ASSUME RefundInv, Steady, NEW c \in Calls, conf[c].token \in Tokens
    PROVE  /\ Said(c)' = Said(c) /\ AmountFor(c)' = AmountFor(c)
           /\ Issued(conf[c].token)' /\ IdOf(conf[c].token)' = IdOf(conf[c].token)
BY DEF RefundInv, OwnInv, Bound, Steady, Said, AmountFor, Issued, IdOf

LEMMA SteadyAgreement ==
    ASSUME RefundInv, Steady
    PROVE  /\ Agreement \subseteq Agreement'
           /\ \A c, d : <<c, d>> \in Agreement =>
                 c \in Calls /\ conf'[c].policy = conf[c].policy
<1>1. \A c \in acted : c \in Calls /\ conf[c].token \in Tokens
  BY DEF RefundInv, OwnInv, OwnTypeOK, Bound
<1>2. \A c \in acted : c \in acted' /\ Said(c)' = Said(c)
  BY <1>1, SteadySaid DEF Steady
<1>3. \A c \in acted : conf'[c].policy = conf[c].policy
  BY <1>1 DEF Steady
<1> QED BY <1>1, <1>2, <1>3 DEF Agreement

(* What was agreed to goes on to be. *)
LEMMA SteadyConsented ==
    ASSUME RefundInv, Steady, NEW c, NEW x, NEW y, Consented(c, x),
           y.key = x.key, y.payment = x.payment, y.amount = x.amount,
           NEW u \in Users, NEW q \in Requests, NEW p \in Payments, y.key = KeyFor[<<u, q, p>>]
    PROVE  /\ <<c, Deal(u, q, "execute", p)>> \in Agreement'
           /\ y.payment = p /\ y.amount = AmountOf[q]
           /\ AmountOf[q] <= conf'[c].policy.direct
<1>1. /\ <<c, Deal(u, q, "execute", p)>> \in Agreement
      /\ x.payment = p /\ x.amount = AmountOf[q]
      /\ AmountOf[q] <= conf[c].policy.direct
  BY DEF Consented
<1> QED BY <1>1, SteadyAgreement

(* Existing results go on to exist. *)
LEMMA SteadyExists ==
    ASSUME Steady, NEW result, NEW id, Exists(result, id)
    PROVE  Exists(result, id)'
BY DEF Steady, Exists, Under

-----------------------------------------------------------------------------
LEMMA RefundInitInv == RefundInit => RefundInv
<1> SUFFICES ASSUME RefundInit PROVE RefundInv
  OBVIOUS
<1> USE RefundServiceAssumption DEF RefundInit
<1>1. BillingInv /\ AnswerTruthful
  BY BillingInitInv DEF BillingInit, AnswerTruthful, NoRequest
<1>2. EvaluatorTypeOK /\ Idem!IdemTypeOK
  BY EvaluatorAssumption
     DEF EvaluatorInit, EvaluatorTypeOK, Idem!IdemInit, Idem!IdemTypeOK, Idem!IdemCall, Idem!NoCall
<1>3. OwnTypeOK /\ TokensReal
  BY DEF OwnTypeOK, TokensReal, Issued, NoToken, Token, NoConf, Conf
<1>4. /\ Bound /\ InsideRun /\ HasActed /\ MarkedOrExpired /\ WithinDirect
      /\ AskedConsented /\ AwaitsOwn /\ SingleUse
  BY DEF Bound, InsideRun, HasActed, MarkedOrExpired, WithinDirect, AskedConsented, AwaitsOwn,
         SingleUse, NoConf, Idem!IdemInit, Idem!NoCall
<1>5. PostedConsented /\ RowsConsented
  BY DEF BillingInit, NoRequest, PostedConsented, RowsConsented
<1>6. AnsweredAtEnd /\ ResultsExist
  BY DEF AnsweredAtEnd, ResultsExist, Idem!IdemInit, Idem!NoCall, Idem!Success
<1> QED BY <1>1, <1>2, <1>3, <1>4, <1>5, <1>6 DEF RefundInv, OwnInv

-----------------------------------------------------------------------------
(* Billing's steps: what the service may rely on across them. *)

LEMMA BillingEffect ==
    ASSUME BillingTypeOK, NEW c \in Calls, BillingStep(c)
    PROVE  /\ \A d \in Calls : /\ http'[d].key = http[d].key
                               /\ http'[d].payment = http[d].payment
                               /\ http'[d].amount = http[d].amount
                               /\ http[d].pc # "idle" <=> http'[d].pc # "idle"
           /\ refunds \subseteq refunds'
           /\ \A r \in refunds' \ refunds : /\ http[c].pc # "idle" /\ r.ref = c
                                            /\ r.key = http[c].key
                                            /\ r.payment = http[c].payment
                                            /\ r.amount = http[c].amount
<1> USE DEF BillingTypeOK, Request
<1>1. CASE LookUp(c) \/ ReplayRaced(c)
  <2>1. CASE Replay(c)
    BY <1>1, <2>1 DEF LookUp, ReplayRaced, Replay, Answer
  <2>2. CASE http[c].pc = "received" /\ Goto(c, "open") /\ UNCHANGED <<refunds, payLock>>
    BY <2>2 DEF Goto
  <2> QED BY <1>1, <2>1, <2>2 DEF LookUp, ReplayRaced
<1>2. CASE LockPayment(c)
  BY <1>2 DEF LockPayment, Goto, Answer
<1>3. CASE SumRefunds(c)
  BY <1>3 DEF SumRefunds, Goto, Answer
<1>4. CASE InsertRefund(c)
  BY <1>4 DEF InsertRefund, NewRow, Goto, Answer
<1>5. CASE RollBack(c)
  BY <1>5 DEF RollBack, Answer
<1> QED BY <1>1, <1>2, <1>3, <1>4, <1>5 DEF BillingStep, HandlerStep

(* The parts of the invariant that speak of neither billing nor results. *)
LEMMA OwnUnchanged ==
    ASSUME RefundInv, UNCHANGED <<tokenVars, ownVars, idem, evaluatorVars>>, faults' \in 0..MaxFaults
    PROVE  /\ Steady <=> refunds \subseteq refunds'
           /\ EvaluatorTypeOK' /\ OwnTypeOK' /\ TokensReal' /\ Bound' /\ InsideRun' /\ HasActed'
           /\ MarkedOrExpired' /\ WithinDirect' /\ AskedConsented' /\ SingleUse'
<1> USE DEF RefundInv, OwnInv, tokenVars, ownVars, evaluatorVars
<1>1. Steady <=> refunds \subseteq refunds'
  BY DEF Steady
<1>2. EvaluatorTypeOK' /\ OwnTypeOK' /\ TokensReal'
  BY DEF EvaluatorTypeOK, OwnTypeOK, TokensReal, Issued
<1>3. Bound' /\ InsideRun' /\ HasActed' /\ MarkedOrExpired' /\ SingleUse'
  BY DEF Bound, InsideRun, HasActed, MarkedOrExpired, SingleUse, Issued, IdOf
<1>4. WithinDirect'
  BY DEF WithinDirect, Said, AmountFor
<1>5. Agreement' = Agreement
  BY DEF Agreement, Said
<1>6. AskedConsented'
  BY <1>5 DEF AskedConsented
<1> QED BY <1>1, <1>2, <1>3, <1>4, <1>6

LEMMA BillingKeeps ==
    ASSUME RefundInv, NEW c \in Calls, BillingStep(c),
           UNCHANGED <<evaluatorVars, idemVars, tokenVars, ownVars>>, faults' \in 0..MaxFaults
    PROVE  RefundInv'
<1>1. BillingInv' /\ AnswerTruthful'
  BY BillingStepInv, AnswerStep DEF RefundInv
<1> USE DEF RefundInv, OwnInv
<1>2. /\ \A d \in Calls : /\ http'[d].key = http[d].key
                          /\ http'[d].payment = http[d].payment
                          /\ http'[d].amount = http[d].amount
                          /\ http[d].pc # "idle" <=> http'[d].pc # "idle"
      /\ refunds \subseteq refunds'
      /\ \A r \in refunds' \ refunds : /\ http[c].pc # "idle" /\ r.ref = c
                                       /\ r.key = http[c].key
                                       /\ r.payment = http[c].payment
                                       /\ r.amount = http[c].amount
  BY BillingEffect DEF BillingInv
<1>3. /\ Steady
      /\ EvaluatorTypeOK' /\ OwnTypeOK' /\ TokensReal' /\ Bound' /\ InsideRun' /\ HasActed'
      /\ MarkedOrExpired' /\ WithinDirect' /\ AskedConsented' /\ SingleUse'
  BY <1>2, OwnUnchanged DEF idemVars
<1>4. Idem!IdemTypeOK'
  BY DEF Idem!IdemTypeOK, idemVars
<1>5. PostedConsented'
  <2> SUFFICES ASSUME NEW d \in Calls, (http[d].pc # "idle")',
                      NEW u \in Users, NEW q \in Requests, NEW p \in Payments,
                      http'[d].key = KeyFor[<<u, q, p>>]
               PROVE  /\ <<d, Deal(u, q, "execute", p)>> \in Agreement'
                      /\ http'[d].payment = p /\ http'[d].amount = AmountOf[q]
                      /\ AmountOf[q] <= conf'[d].policy.direct
    BY DEF PostedConsented, Consented
  <2>1. Consented(d, http[d])
    BY <1>2 DEF PostedConsented
  <2> QED BY <1>2, <1>3, <2>1, SteadyConsented
<1>6. RowsConsented'
  <2> SUFFICES ASSUME NEW r \in refunds',
                      NEW u \in Users, NEW q \in Requests, NEW p \in Payments,
                      r.key = KeyFor[<<u, q, p>>]
               PROVE  /\ <<r.ref, Deal(u, q, "execute", p)>> \in Agreement'
                      /\ r.payment = p /\ r.amount = AmountOf[q]
                      /\ AmountOf[q] <= conf'[r.ref].policy.direct
    BY DEF RowsConsented, Consented
  <2>1. CASE r \in refunds
    <3>1. Consented(r.ref, r)
      BY <2>1 DEF RowsConsented
    <3> QED BY <1>3, <3>1, SteadyConsented
  <2>2. CASE r \notin refunds
    <3>1. Consented(c, http[c])
      BY <1>2, <2>2 DEF PostedConsented
    <3> QED BY <1>2, <1>3, <2>2, <3>1, SteadyConsented
  <2> QED BY <2>1, <2>2
<1>8. AwaitsOwn'
  BY <1>2 DEF AwaitsOwn, ownVars, idemVars
<1>9. AnsweredAtEnd' /\ ResultsExist'
  BY <1>3, SteadyExists DEF AnsweredAtEnd, ResultsExist, idemVars
<1> QED BY <1>1, <1>3, <1>4, <1>5, <1>6, <1>8, <1>9

-----------------------------------------------------------------------------
(* Steps of the service that leave billing alone. *)

LEMMA QuietBilling ==
    ASSUME RefundInv, Steady, UNCHANGED billingVars
    PROVE  BillingInv' /\ AnswerTruthful' /\ PostedConsented' /\ RowsConsented'
<1> USE DEF RefundInv, OwnInv, billingVars
<1>1. BillingInv' /\ AnswerTruthful'
  <2>1. /\ RowsTyped' /\ NoOverRefund' /\ OneRefundPerKey'
        /\ \A p \in Payments : Left(p)' = Left(p)
    BY SumsKeep
  <2>2. BillingInv'
    BY <2>1 DEF BillingInv, BillingTypeOK, HoldsLock, StillFits
  <2> QED BY <2>2 DEF AnswerTruthful, Under
<1>2. PostedConsented'
  <2> SUFFICES ASSUME NEW d \in Calls, (http[d].pc # "idle")',
                      NEW u \in Users, NEW q \in Requests, NEW p \in Payments,
                      http'[d].key = KeyFor[<<u, q, p>>]
               PROVE  /\ <<d, Deal(u, q, "execute", p)>> \in Agreement'
                      /\ http'[d].payment = p /\ http'[d].amount = AmountOf[q]
                      /\ AmountOf[q] <= conf'[d].policy.direct
    BY DEF PostedConsented, Consented
  <2>1. Consented(d, http[d])
    BY DEF PostedConsented
  <2> QED BY <2>1, SteadyConsented
<1>3. RowsConsented'
  <2> SUFFICES ASSUME NEW r \in refunds,
                      NEW u \in Users, NEW q \in Requests, NEW p \in Payments,
                      r.key = KeyFor[<<u, q, p>>]
               PROVE  /\ <<r.ref, Deal(u, q, "execute", p)>> \in Agreement'
                      /\ r.payment = p /\ r.amount = AmountOf[q]
                      /\ AmountOf[q] <= conf'[r.ref].policy.direct
    BY DEF RowsConsented, Consented
  <2>1. Consented(r.ref, r)
    BY DEF RowsConsented
  <2> QED BY <2>1, SteadyConsented
<1> QED BY <1>1, <1>2, <1>3

(* Steps that neither act on a token nor insert a row. *)
LEMMA QuietTokens ==
    ASSUME RefundInv, Steady, UNCHANGED <<asked, acted>>,
           expired \subseteq expired', usedMark \cup expired \subseteq usedMark' \cup expired'
    PROVE  AskedConsented' /\ MarkedOrExpired' /\ SingleUse'
<1> USE DEF RefundInv, OwnInv
<1>1. AskedConsented'
  BY SteadyAgreement DEF AskedConsented
<1>2. \A c \in acted : c \in Calls /\ conf'[c].token = conf[c].token
  BY DEF OwnTypeOK, Bound, Steady
<1>3. MarkedOrExpired'
  BY <1>2 DEF MarkedOrExpired
<1>4. SingleUse'
  BY <1>2 DEF SingleUse
<1> QED BY <1>1, <1>3, <1>4

-----------------------------------------------------------------------------
(* Steps of the idempotency wrapper. *)

Steps == {"idle", "look", "lock", "poll", "late", "run", "store", "release", "done"}

LEMMA SettleMoves ==
    ASSUME Idem!IdemTypeOK, NEW c \in Calls, NEW pc \in Steps, NEW r \in Outcome \cup {None},
           NEW answer \in {"none", "conflict", "failed", "ran", "replayed"},
           Idem!Settle(c, pc, answer, r)
    PROVE  /\ idem' \in [Calls -> Idem!IdemCall]
           /\ \A d \in Calls \ {c} : idem'[d] = idem[d]
           /\ idem'[c].pc = pc /\ idem'[c].id = idem[c].id
           /\ idem'[c].answer = answer /\ idem'[c].result = r
<1>1. [idem[c] EXCEPT !.pc = pc, !.answer = answer, !.result = r] \in Idem!IdemCall
  BY DEF Idem!IdemTypeOK, Idem!IdemCall, Idem!Success, Steps
<1>2. idem' = [idem EXCEPT ![c] = [idem[c] EXCEPT !.pc = pc, !.answer = answer, !.result = r]]
  BY DEF Idem!Settle, Idem!IdemTypeOK, Idem!IdemCall
<1> QED BY <1>1, <1>2 DEF Idem!IdemTypeOK, Idem!IdemCall

LEMMA GoMoves ==
    ASSUME Idem!IdemTypeOK, NEW c \in Calls, NEW pc \in Steps, Idem!Go(c, pc)
    PROVE  /\ idem' \in [Calls -> Idem!IdemCall]
           /\ \A d \in Calls \ {c} : idem'[d] = idem[d]
           /\ idem'[c].pc = pc /\ idem'[c].id = idem[c].id
           /\ idem'[c].answer = idem[c].answer /\ idem'[c].result = idem[c].result
<1>1. [idem[c] EXCEPT !.pc = pc] \in Idem!IdemCall
  BY DEF Idem!IdemTypeOK, Idem!IdemCall, Steps
<1> QED BY <1>1 DEF Idem!Go, Idem!IdemTypeOK, Idem!IdemCall

(* Outside the run a call answers what it had answered, what was stored, or what it is
   storing. *)
AnswersKnown(c) ==
    \/ idem[c].answer \in Idem!Success /\ idem'[c].result = idem[c].result
    \/ idem'[c].result = idemResult[idem[c].id] /\ idemResult[idem[c].id] # None
    \/ idem[c].pc = "store" /\ idem'[c].result = idem[c].result

StoresKnown(c) ==
    \A k \in Keys :
       \/ idemResult'[k] = idemResult[k]
       \/ k = idem[c].id /\ idem[c].pc = "store" /\ idemResult'[k] = idem[c].result

LEMMA IdemMoves ==
    ASSUME RefundInv, NEW c \in Calls, Idem!IdemStep(c) \/ Idem!RedisFails(c)
    PROVE  /\ Idem!IdemTypeOK'
           /\ \A d \in Calls \ {c} : idem'[d] = idem[d]
           /\ idem'[c].id = idem[c].id
           /\ idem[c].pc \notin {"idle", "run"} /\ idem'[c].pc \notin {"idle", "store"}
           /\ idem'[c].answer \in Idem!Success =>
                 idem'[c].pc \in {"release", "done"} /\ AnswersKnown(c)
           /\ StoresKnown(c)
<1> USE DEF RefundInv, OwnInv, Idem!IdemTypeOK, AnswersKnown, StoresKnown, AnsweredAtEnd,
            Idem!Success, Steps
<1>1. CASE Idem!FirstLook(c)
  BY <1>1, GoMoves, SettleMoves DEF Idem!FirstLook, Idem!Stored
<1>2. CASE Idem!TryLock(c)
  BY <1>2, GoMoves, SettleMoves DEF Idem!TryLock
<1>3. CASE Idem!Poll(c)
  BY <1>3, GoMoves, SettleMoves DEF Idem!Poll, Idem!Stored
<1>4. CASE Idem!LateLook(c)
  BY <1>4, GoMoves, SettleMoves DEF Idem!LateLook, Idem!Stored
<1>5. CASE Idem!Store(c)
  <2>1. idem[c].result \in Outcome \cup {None}
    BY DEF Idem!IdemCall
  <2> QED BY <1>5, <2>1, SettleMoves DEF Idem!Store
<1>6. CASE Idem!Release(c)
  BY <1>6, GoMoves DEF Idem!Release, Idem!Released
<1>7. CASE Idem!RedisFails(c)
  BY <1>7, GoMoves, SettleMoves DEF Idem!RedisFails
<1> QED BY <1>1, <1>2, <1>3, <1>4, <1>5, <1>6, <1>7 DEF Idem!IdemStep

LEMMA IdemKeeps ==
    ASSUME RefundInv, NEW c \in Calls, Idem!IdemStep(c) \/ Idem!RedisFails(c),
           UNCHANGED <<tokenVars, ownVars, billingVars, evaluatorVars>>, faults' \in 0..MaxFaults
    PROVE  RefundInv'
<1>1. /\ Idem!IdemTypeOK'
      /\ \A d \in Calls \ {c} : idem'[d] = idem[d]
      /\ idem'[c].id = idem[c].id
      /\ idem[c].pc \notin {"idle", "run"} /\ idem'[c].pc \notin {"idle", "store"}
      /\ idem'[c].answer \in Idem!Success =>
            idem'[c].pc \in {"release", "done"} /\ AnswersKnown(c)
      /\ StoresKnown(c)
  BY IdemMoves
<1>2. Steady /\ UNCHANGED <<billingVars, asked, acted, expired, usedMark, tokens, conf>>
  BY DEF Steady, tokenVars, ownVars, billingVars
<1>3. BillingInv' /\ AnswerTruthful' /\ PostedConsented' /\ RowsConsented'
  BY <1>2, QuietBilling
<1>4. AskedConsented' /\ MarkedOrExpired' /\ SingleUse'
  BY <1>2, QuietTokens
<1> USE DEF RefundInv, OwnInv
<1>5. EvaluatorTypeOK' /\ OwnTypeOK' /\ TokensReal' /\ HasActed'
  BY <1>2 DEF evaluatorVars, EvaluatorTypeOK, OwnTypeOK, TokensReal, Issued, HasActed
<1>6. Bound'
  BY <1>1, <1>2 DEF Bound, Issued, IdOf
<1>7. InsideRun'
  BY <1>1, <1>2 DEF InsideRun
<1>8. WithinDirect'
  BY <1>2 DEF WithinDirect, Said, AmountFor
<1>9. AwaitsOwn'
  BY <1>1, <1>2 DEF AwaitsOwn, billingVars
<1>10. AnsweredAtEnd'
  BY <1>1 DEF AnsweredAtEnd
<1>11. ResultsExist'
  <2>1. \A k \in Keys : idemResult'[k] # None => Exists(idemResult'[k], k)
    BY <1>1 DEF StoresKnown, ResultsExist
  <2>2. \A d \in Calls : idem'[d].pc = "store" \/ idem'[d].answer \in Idem!Success =>
           Exists(idem'[d].result, idem'[d].id)
    BY <1>1 DEF AnswersKnown, ResultsExist, Idem!IdemTypeOK
  <2> QED BY <1>2, <2>1, <2>2 DEF ResultsExist, Exists, Under, billingVars, Idem!Success
<1> QED BY <1>1, <1>3, <1>4, <1>5, <1>6, <1>7, <1>8, <1>9, <1>10, <1>11

-----------------------------------------------------------------------------
(* Steps that no call takes. *)

LEMMA AroundKeeps ==
    ASSUME RefundInv, Steady, UNCHANGED <<idem, conf, asked, acted, billingVars>>,
           expired \subseteq expired', usedMark \cup expired \subseteq usedMark' \cup expired',
           \A k \in Keys : idemResult'[k] # None => idemResult'[k] = idemResult[k],
           EvaluatorTypeOK', Idem!IdemTypeOK', OwnTypeOK', TokensReal'
    PROVE  RefundInv'
<1>1. BillingInv' /\ AnswerTruthful' /\ PostedConsented' /\ RowsConsented'
  BY QuietBilling
<1>2. AskedConsented' /\ MarkedOrExpired' /\ SingleUse'
  BY QuietTokens
<1> USE DEF RefundInv, OwnInv
<1>3. \A c \in Calls : conf[c].token \in Tokens =>
         /\ Said(c)' = Said(c) /\ AmountFor(c)' = AmountFor(c)
         /\ Issued(conf[c].token)' /\ IdOf(conf[c].token)' = IdOf(conf[c].token)
  BY SteadySaid
<1>4. Bound' /\ InsideRun' /\ HasActed'
  BY <1>3 DEF Bound, InsideRun, HasActed
<1>5. WithinDirect'
  BY <1>3 DEF WithinDirect, Bound
<1>6. AwaitsOwn' /\ AnsweredAtEnd'
  BY DEF AwaitsOwn, AnsweredAtEnd, billingVars
<1>7. ResultsExist'
  BY DEF ResultsExist, Exists, Under, billingVars, Idem!Success
<1> QED BY <1>1, <1>2, <1>4, <1>5, <1>6, <1>7

(* Redis forgets. *)
LEMMA ExpiryKeeps ==
    ASSUME RefundInv, NEW k \in Keys, Idem!LockExpires(k) \/ Idem!ResultExpires(k),
           UNCHANGED <<tokenVars, ownVars, billingVars, evaluatorVars>>, faults' \in 0..MaxFaults
    PROVE  RefundInv'
<1>1. UNCHANGED <<idem, conf, asked, acted, tokens, expired, usedMark, billingVars, evaluatorVars>>
  BY DEF tokenVars, ownVars, Idem!LockExpires, Idem!ResultExpires
<1> USE DEF RefundInv, OwnInv
<1>2. Steady
  BY <1>1 DEF Steady, billingVars
<1>3. EvaluatorTypeOK' /\ OwnTypeOK' /\ TokensReal'
  BY <1>1 DEF evaluatorVars, EvaluatorTypeOK, OwnTypeOK, TokensReal, Issued
<1>4. Idem!IdemTypeOK' /\ \A i \in Keys : idemResult'[i] # None => idemResult'[i] = idemResult[i]
  BY <1>1 DEF Idem!LockExpires, Idem!ResultExpires, Idem!IdemTypeOK
<1> QED BY <1>1, <1>2, <1>3, <1>4, AroundKeeps

LEMMA SurroundingsKeep ==
    ASSUME RefundInv, Surroundings, UNCHANGED <<billingVars, idemVars, tokenVars, ownVars>>,
           faults' \in 0..MaxFaults
    PROVE  RefundInv'
<1>1. UNCHANGED <<idem, idemResult, conf, asked, acted, tokens, expired, usedMark, billingVars>>
  BY DEF tokenVars, ownVars, idemVars
<1> USE DEF RefundInv, OwnInv
<1>2. Steady
  BY <1>1 DEF Steady, billingVars
<1>3. EvaluatorTypeOK'
  <2>1. changes' \in 0..MaxChanges
    BY EvaluatorAssumption DEF Surroundings, EvaluatorTypeOK
  <2>2. CASE ChangeStatus \/ \E p \in Payments : ShiftWindow(p)
    BY <2>1, <2>2 DEF ChangeStatus, ShiftWindow, EvaluatorTypeOK
  <2>3. CASE \E u \in Users : ChangePolicy(u)
    BY <2>1, <2>3 DEF ChangePolicy, EvaluatorTypeOK
  <2> QED BY <2>2, <2>3 DEF Surroundings
<1>4. OwnTypeOK' /\ TokensReal' /\ Idem!IdemTypeOK'
  BY <1>1 DEF idemVars, OwnTypeOK, TokensReal, Issued, Idem!IdemTypeOK
<1> QED BY <1>1, <1>2, <1>3, <1>4, AroundKeeps

LEMMA TokenExpiresKeeps ==
    ASSUME RefundInv, NEW t \in Tokens, TokenExpires(t), UNCHANGED faults
    PROVE  RefundInv'
<1>1. /\ UNCHANGED <<idem, idemResult, conf, asked, acted, tokens, billingVars, evaluatorVars>>
      /\ expired \subseteq expired' /\ usedMark \cup expired \subseteq usedMark' \cup expired'
      /\ expired' \subseteq expired \cup {t} /\ usedMark' \subseteq usedMark
  BY DEF TokenExpires, ownVars, idemVars
<1> USE DEF RefundInv, OwnInv
<1>2. Steady
  BY <1>1 DEF Steady, billingVars
<1>3. EvaluatorTypeOK' /\ Idem!IdemTypeOK'
  BY <1>1 DEF TokenExpires, idemVars, evaluatorVars, EvaluatorTypeOK, Idem!IdemTypeOK
<1>4. OwnTypeOK' /\ TokensReal'
  BY <1>1 DEF OwnTypeOK, TokensReal, Issued
<1> QED BY <1>1, <1>2, <1>3, <1>4, AroundKeeps

(* The evaluator chooses one of the invoice's payments. *)
LEMMA ChosenIsPayment ==
    ASSUME NEW a, Candidates(a) # {}
    PROVE  Chosen(a) \in Payments
<1>1. Candidates(a) \in (SUBSET Payments) \ {{}}
  BY DEF Candidates
<1>2. \E p \in Candidates(a) : \A q \in Candidates(a) : PaidAt[p] >= PaidAt[q]
  BY <1>1, EvaluatorAssumption
<1>3. Chosen(a) \in Candidates(a)
  BY <1>2 DEF Chosen
<1> QED BY <1>3 DEF Candidates

LEMMA PreviewKeeps ==
    ASSUME RefundInv, NEW t \in Tokens, NEW u \in Users, NEW r \in Requests, Preview(t, u, r),
           UNCHANGED faults
    PROVE  RefundInv'
<1> DEFINE said == [user |-> u, request |-> r, action |-> Action(policy[u], AmountOf[r]),
                    payment |-> Chosen(AmountOf[r])]
<1>1. /\ UNCHANGED <<idem, idemResult, conf, asked, acted, expired, usedMark, billingVars,
                    evaluatorVars>>
      /\ ~ Issued(t) /\ tokens' = [tokens EXCEPT ![t] = said]
  BY DEF Preview, ownVars, idemVars, Issued
<1>2. said \in RealToken
  <2>1. Chosen(AmountOf[r]) \in Payments
    BY ChosenIsPayment DEF Preview, Refused
  <2>2. Action(policy[u], AmountOf[r]) \in Actions
    BY DEF Action, Actions
  <2> QED BY <2>1, <2>2 DEF RealToken
<1> HIDE DEF said
<1> USE DEF RefundInv, OwnInv
<1>3. RealToken \subseteq Token
  BY DEF RealToken, Token
<1>4. OwnTypeOK' /\ TokensReal'
  BY <1>1, <1>2, <1>3 DEF OwnTypeOK, TokensReal, Issued
<1>5. Steady
  BY <1>1 DEF Steady, billingVars, OwnTypeOK
<1>6. EvaluatorTypeOK' /\ Idem!IdemTypeOK'
  BY DEF Preview, idemVars, evaluatorVars, EvaluatorTypeOK, Idem!IdemTypeOK
<1> QED BY <1>1, <1>4, <1>5, <1>6, AroundKeeps

-----------------------------------------------------------------------------
(* A run ends. *)

LEMMA RunEndKeeps ==
    ASSUME RefundInv, NEW c \in Calls, idem[c].pc # "idle",
           Idem!IdemTypeOK', UNCHANGED idemResult,
           \A d \in Calls \ {c} : idem'[d] = idem[d],
           idem'[c].id = idem[c].id, idem'[c].pc \in {"store", "release", "done"},
           idem'[c].answer \notin Idem!Success,
           idem'[c].pc = "store" => Exists(idem[c].result, idem[c].id)',
           conf' \in [Calls -> Conf],
           \A d \in Calls \ {c} : conf'[d] = conf[d],
           conf'[c].pc = "run", conf'[c].token = conf[c].token, conf'[c].policy = conf[c].policy,
           UNCHANGED <<tokenVars, billingVars, evaluatorVars>>, faults' \in 0..MaxFaults,
           asked \subseteq asked', asked' \subseteq Ask, AskedConsented'
    PROVE  RefundInv'
<1>1. UNCHANGED <<acted, tokens, expired, usedMark, refunds, http>>
  BY DEF tokenVars, billingVars
<1> USE DEF RefundInv, OwnInv
<1>2. Steady
  BY <1>1 DEF Steady
<1>3. BillingInv' /\ AnswerTruthful' /\ PostedConsented' /\ RowsConsented'
  BY <1>2, QuietBilling
<1>4. EvaluatorTypeOK' /\ OwnTypeOK' /\ TokensReal'
  BY <1>1 DEF evaluatorVars, EvaluatorTypeOK, OwnTypeOK, TokensReal, Issued
<1>5. Bound'
  BY <1>1 DEF Bound, Issued, IdOf
<1>6. InsideRun' /\ HasActed'
  BY <1>1 DEF InsideRun, HasActed
<1>7. MarkedOrExpired' /\ SingleUse'
  <2>1. \A d \in Calls : conf'[d].token = conf[d].token
    OBVIOUS
  <2> QED BY <1>1, <2>1 DEF MarkedOrExpired, SingleUse, OwnTypeOK
<1>8. WithinDirect'
  BY <1>1 DEF WithinDirect, Said, AmountFor
<1>9. AwaitsOwn' /\ AnsweredAtEnd'
  BY <1>1 DEF AwaitsOwn, AnsweredAtEnd, Idem!Success
<1>10. ResultsExist'
  <2>1. \A k \in Keys : (idemResult[k] # None => Exists(idemResult[k], k))'
    BY <1>1 DEF ResultsExist, Exists, Under
  <2>2. \A d \in Calls \ {c} :
           (idem[d].pc = "store" \/ idem[d].answer \in Idem!Success =>
              Exists(idem[d].result, idem[d].id))'
    BY <1>1 DEF ResultsExist, Exists, Under, Idem!Success
  <2> QED BY <2>1, <2>2 DEF ResultsExist, Idem!Success
<1> QED BY <1>2, <1>3, <1>4, <1>5, <1>6, <1>7, <1>8, <1>9, <1>10

LEMMA ConfMoves ==
    ASSUME RefundInv, NEW c \in Calls, NEW pc \in {"run", "use", "act", "posted"},
           NEW error \in {"none", "already_used", "other"},
           \/ NextStep(c, pc)
           \/ conf' = [conf EXCEPT ![c].pc = pc, ![c].error = error]
    PROVE  /\ conf' \in [Calls -> Conf]
           /\ \A d \in Calls \ {c} : conf'[d] = conf[d]
           /\ conf'[c].pc = pc
           /\ conf'[c].token = conf[c].token /\ conf'[c].policy = conf[c].policy
<1>1. conf \in [Calls -> Conf]
  BY DEF RefundInv, OwnInv, OwnTypeOK
<1>2. [conf[c] EXCEPT !.pc = pc] \in Conf /\ [conf[c] EXCEPT !.pc = pc, !.error = error] \in Conf
  BY <1>1 DEF Conf
<1>3. \/ conf' = [conf EXCEPT ![c] = [conf[c] EXCEPT !.pc = pc]]
      \/ conf' = [conf EXCEPT ![c] = [conf[c] EXCEPT !.pc = pc, !.error = error]]
  BY <1>1 DEF NextStep, Conf
<1>4. PICK new \in Conf : /\ conf' = [conf EXCEPT ![c] = new] /\ new.pc = pc
                         /\ new.token = conf[c].token /\ new.policy = conf[c].policy
  <2>1. conf[c] \in Conf
    BY <1>1
  <2> QED BY <1>2, <1>3, <2>1 DEF Conf
<1> QED BY <1>1, <1>4

(* It throws: the caller is told so, and nothing is stored. *)
LEMMA ThrowKeeps ==
    ASSUME RefundInv, NEW c \in Calls, NEW error \in {"already_used", "other"}, Throw(c, error),
           UNCHANGED <<tokenVars, billingVars, evaluatorVars>>, faults' \in 0..MaxFaults,
           asked \subseteq asked', asked' \subseteq Ask, AskedConsented'
    PROVE  RefundInv'
<1>1. Idem!IdemTypeOK
  BY DEF RefundInv
<1>2. /\ idem[c].pc = "run" /\ Idem!Settle(c, "release", "failed", None)
      /\ UNCHANGED <<idemResult, idemLock, overran, forgotten>>
  BY DEF Throw, Idem!RunFails
<1>3. /\ idem' \in [Calls -> Idem!IdemCall]
      /\ \A d \in Calls \ {c} : idem'[d] = idem[d]
      /\ idem'[c].pc = "release" /\ idem'[c].id = idem[c].id
      /\ idem'[c].answer = "failed" /\ idem'[c].result = None
  BY <1>1, <1>2, SettleMoves DEF Steps
<1>4. Idem!IdemTypeOK'
  BY <1>1, <1>2, <1>3 DEF Idem!IdemTypeOK
<1>5. /\ conf' \in [Calls -> Conf]
      /\ \A d \in Calls \ {c} : conf'[d] = conf[d]
      /\ conf'[c].pc = "run"
      /\ conf'[c].token = conf[c].token /\ conf'[c].policy = conf[c].policy
  BY ConfMoves DEF Throw
<1>6. idem'[c].answer \notin Idem!Success
  BY <1>3 DEF Idem!Success
<1> QED BY <1>2, <1>3, <1>4, <1>5, <1>6, RunEndKeeps

LEMMA ServerDiesKeeps ==
    ASSUME RefundInv, NEW c \in Calls, ServerDies(c), faults' \in 0..MaxFaults
    PROVE  RefundInv'
<1>1. Idem!IdemTypeOK
  BY DEF RefundInv
<1>2. /\ idem[c].pc # "idle" /\ Idem!Settle(c, "done", "failed", None)
      /\ UNCHANGED <<idemResult, idemLock, overran, forgotten>>
      /\ UNCHANGED <<tokenVars, asked, billingVars, evaluatorVars>>
  BY DEF ServerDies, Idem!Die
<1>3. /\ idem' \in [Calls -> Idem!IdemCall]
      /\ \A d \in Calls \ {c} : idem'[d] = idem[d]
      /\ idem'[c].pc = "done" /\ idem'[c].id = idem[c].id
      /\ idem'[c].answer = "failed" /\ idem'[c].result = None
  BY <1>1, <1>2, SettleMoves DEF Steps
<1>4. Idem!IdemTypeOK'
  BY <1>1, <1>2, <1>3 DEF Idem!IdemTypeOK
<1>5. /\ conf' \in [Calls -> Conf]
      /\ \A d \in Calls \ {c} : conf'[d] = conf[d]
      /\ conf'[c].pc = "run"
      /\ conf'[c].token = conf[c].token /\ conf'[c].policy = conf[c].policy
  BY ConfMoves DEF ServerDies
<1>6. idem'[c].answer \notin Idem!Success
  BY <1>3 DEF Idem!Success
<1>7. Steady /\ UNCHANGED <<asked, acted, expired, usedMark>>
  BY <1>2, <1>5 DEF Steady, tokenVars, billingVars
<1>8. AskedConsented' /\ asked \subseteq asked' /\ asked' \subseteq Ask
  BY <1>7, QuietTokens DEF RefundInv, OwnInv, OwnTypeOK
<1> QED BY <1>2, <1>3, <1>4, <1>5, <1>6, <1>8, RunEndKeeps

(* It returns what exists: the result is stored next. *)
LEMMA ReturnKeeps ==
    ASSUME RefundInv, NEW c \in Calls, NEW status \in {"completed", "pending_approval"},
           NEW ref \in Calls, Return(c, status, ref),
           UNCHANGED <<tokenVars, billingVars, evaluatorVars>>, faults' \in 0..MaxFaults,
           asked \subseteq asked', asked' \subseteq Ask, AskedConsented',
           IF status = "completed" THEN \E r \in Under(idem[c].id) : r.ref = ref
                                   ELSE \E a \in asked' : a.key = idem[c].id /\ a.by = ref
    PROVE  RefundInv'
<1> DEFINE result == [status |-> status, ref |-> ref]
<1>1. Idem!IdemTypeOK /\ result \in Outcome
  BY DEF RefundInv, Outcome
<1> HIDE DEF result
<1>2. /\ idem[c].pc = "run" /\ Idem!Settle(c, "store", "none", result)
      /\ UNCHANGED <<idemResult, idemLock, overran, forgotten>>
  BY DEF Return, Idem!RunDone, result
<1>3. /\ idem' \in [Calls -> Idem!IdemCall]
      /\ \A d \in Calls \ {c} : idem'[d] = idem[d]
      /\ idem'[c].pc = "store" /\ idem'[c].id = idem[c].id
      /\ idem'[c].answer = "none" /\ idem'[c].result = result
  BY <1>1, <1>2, SettleMoves DEF Steps
<1>4. Idem!IdemTypeOK'
  BY <1>1, <1>2, <1>3 DEF Idem!IdemTypeOK
<1>5. /\ conf' \in [Calls -> Conf]
      /\ \A d \in Calls \ {c} : conf'[d] = conf[d]
      /\ conf'[c].pc = "run"
      /\ conf'[c].token = conf[c].token /\ conf'[c].policy = conf[c].policy
  BY ConfMoves DEF Return
<1>6. idem'[c].answer \notin Idem!Success
  BY <1>3 DEF Idem!Success
<1>7. Exists(idem[c].result, idem[c].id)'
  BY <1>3 DEF Exists, Under, billingVars, result
<1> QED BY <1>2, <1>3, <1>4, <1>5, <1>6, <1>7, RunEndKeeps

-----------------------------------------------------------------------------
(* A call begins, and its run goes on. *)

LEMMA ConfirmKeeps ==
    ASSUME RefundInv, UNCHANGED faults,
           NEW c \in Calls, NEW u \in Users, NEW r \in Requests, NEW t \in Tokens, Confirm(c, u, r, t)
    PROVE  RefundInv'
<1> DEFINE begun == [pc |-> "run", token |-> t, policy |-> policy[u], error |-> "none"]
<1>1. /\ conf[c].token = None /\ http[c].pc = "idle" /\ idem[c].pc = "idle"
      /\ Issued(t) /\ tokens[t].user = u /\ tokens[t].request = r
      /\ conf' = [conf EXCEPT ![c] = begun]
      /\ UNCHANGED <<tokens, expired, usedMark, acted, asked, idemResult, billingVars, evaluatorVars>>
  BY DEF Confirm, Verifies, Issued, tokenVars, Idem!Enter
<1> USE DEF RefundInv, OwnInv
<1>2. IdOf(t) \in Keys /\ IdOf(t) = KeyFor[<<u, r, tokens[t].payment>>]
  BY <1>1, RefundServiceAssumption DEF TokensReal, RealToken, IdOf
<1>3. /\ idem' \in [Calls -> Idem!IdemCall]
      /\ \A d \in Calls \ {c} : idem'[d] = idem[d]
      /\ idem'[c].pc = "look" /\ idem'[c].id = IdOf(t) /\ idem'[c].answer = idem[c].answer
  <2>1. idem[c] \in Idem!IdemCall
    BY DEF Idem!IdemTypeOK
  <2>2. [idem[c] EXCEPT !.pc = "look", !.id = IdOf(t)] \in Idem!IdemCall
    BY <1>2, <2>1 DEF Idem!IdemCall
  <2>3. idem' = [idem EXCEPT ![c] = [idem[c] EXCEPT !.pc = "look", !.id = IdOf(t)]]
    BY <1>2 DEF Confirm, Idem!Enter
  <2> QED BY <2>1, <2>2, <2>3 DEF Idem!IdemTypeOK, Idem!IdemCall
<1>4. Idem!IdemTypeOK'
  BY <1>2, <1>3 DEF Idem!IdemTypeOK, Confirm, Idem!Enter
<1>5. policy[u] \in Policies /\ begun \in Conf
  BY DEF EvaluatorTypeOK, Conf
<1> HIDE DEF begun
<1>6. /\ conf' \in [Calls -> Conf] /\ conf'[c] = begun
      /\ \A d \in Calls \ {c} : conf'[d] = conf[d]
  BY <1>1, <1>5 DEF OwnTypeOK
<1>7. begun.pc = "run" /\ begun.token = t /\ begun.policy = policy[u]
  BY DEF begun
<1>8. Steady /\ c \notin acted
  BY <1>1, <1>6, RefundServiceAssumption DEF Steady, Bound, billingVars
<1>9. BillingInv' /\ AnswerTruthful' /\ PostedConsented' /\ RowsConsented'
  BY <1>1, <1>8, QuietBilling
<1>10. AskedConsented' /\ MarkedOrExpired' /\ SingleUse'
  BY <1>1, <1>8, QuietTokens
<1>11. EvaluatorTypeOK' /\ OwnTypeOK' /\ TokensReal'
  BY <1>1, <1>6 DEF evaluatorVars, EvaluatorTypeOK, OwnTypeOK, TokensReal, Issued
<1>12. Bound'
  BY <1>1, <1>3, <1>5, <1>6, <1>7 DEF Bound, Issued, IdOf
<1>13. InsideRun' /\ HasActed' /\ WithinDirect' /\ AwaitsOwn'
  BY <1>1, <1>3, <1>6, <1>7
     DEF InsideRun, HasActed, WithinDirect, Said, AmountFor, AwaitsOwn, billingVars
<1>14. idem[c].answer \notin Idem!Success
  BY <1>1 DEF AnsweredAtEnd
<1>15. AnsweredAtEnd'
  BY <1>3, <1>14 DEF AnsweredAtEnd, Idem!Success
<1>16. ResultsExist'
  BY <1>1, <1>3, <1>14 DEF ResultsExist, Exists, Under, billingVars, Idem!Success
<1> QED BY <1>4, <1>9, <1>10, <1>11, <1>12, <1>13, <1>15, <1>16

(* The use of a token, or the decision before it: the run goes on. *)
LEMMA AdvanceKeeps ==
    ASSUME RefundInv, NEW c \in Calls, NEW pc \in {"use", "act"}, NextStep(c, pc),
           idem[c].pc = "run",
           UNCHANGED <<tokens, expired, asked, idemVars, billingVars, evaluatorVars, faults>>,
           acted' \subseteq Calls, usedMark' \subseteq Tokens,
           acted \subseteq acted', acted' \subseteq acted \cup {c}, pc = "act" => c \in acted',
           AskedConsented', MarkedOrExpired', SingleUse',
           Said(c).action = "execute" => AmountFor(c) <= conf[c].policy.direct
    PROVE  RefundInv'
<1>1. /\ conf' \in [Calls -> Conf]
      /\ \A d \in Calls \ {c} : conf'[d] = conf[d]
      /\ conf'[c].pc = pc
      /\ conf'[c].token = conf[c].token /\ conf'[c].policy = conf[c].policy
  BY ConfMoves
<1>2. UNCHANGED <<idem, idemResult, idemLock, overran, forgotten, refunds, http>>
  BY DEF idemVars, billingVars
<1> USE DEF RefundInv, OwnInv
<1>3. Steady
  BY <1>1, <1>2 DEF Steady
<1>4. BillingInv' /\ AnswerTruthful' /\ PostedConsented' /\ RowsConsented'
  BY <1>3, QuietBilling
<1>5. EvaluatorTypeOK' /\ OwnTypeOK' /\ TokensReal' /\ Idem!IdemTypeOK'
  BY <1>1, <1>2
     DEF evaluatorVars, EvaluatorTypeOK, OwnTypeOK, TokensReal, Issued, Idem!IdemTypeOK
<1>6. Bound'
  BY <1>1, <1>2 DEF Bound, Issued, IdOf
<1>7. InsideRun' /\ HasActed'
  BY <1>1, <1>2 DEF InsideRun, HasActed
<1>8. WithinDirect'
  BY <1>1, <1>2 DEF WithinDirect, Said, AmountFor
<1>9. AwaitsOwn' /\ AnsweredAtEnd' /\ ResultsExist'
  BY <1>1, <1>2 DEF AwaitsOwn, AnsweredAtEnd, ResultsExist, Exists, Under, Idem!Success
<1> QED BY <1>4, <1>5, <1>6, <1>7, <1>8, <1>9

(* What a run in progress works on. *)
LEMMA RunKnown ==
    ASSUME RefundInv, NEW c \in Calls, idem[c].pc # "idle"
    PROVE  /\ conf[c].token \in Tokens /\ Said(c) \in RealToken
           /\ idem[c].id \in Keys /\ idem[c].id = KeyFor[<<Said(c).user, Said(c).request, Said(c).payment>>]
           /\ AmountFor(c) \in Amounts /\ AmountFor(c) \in Nat
           /\ conf[c].policy \in Policies /\ conf[c].policy.direct \in Nat
<1> USE DEF RefundInv, OwnInv
<1>1. conf[c].token \in Tokens /\ Said(c) \in RealToken /\ idem[c].id = IdOf(conf[c].token)
  BY DEF Bound, TokensReal, Said
<1>2. idem[c].id \in Keys /\ conf[c].policy \in Policies
  BY <1>1 DEF Bound, Idem!IdemTypeOK
<1>3. AmountFor(c) \in Amounts
  BY <1>1, RefundServiceAssumption DEF AmountFor, RealToken
<1> QED
  BY <1>1, <1>2, <1>3, BillingAssumption, EvaluatorAssumption DEF IdOf, Said

LEMMA EvaluateKeeps ==
    ASSUME RefundInv, NEW c \in Calls, Evaluate(c), UNCHANGED faults
    PROVE  RefundInv'
<1>1. idem[c].pc = "run" /\ UNCHANGED <<tokenVars, asked, billingVars, evaluatorVars>>
  BY DEF Evaluate
<1>2. UNCHANGED <<tokens, expired, usedMark, acted, asked>>
  BY <1>1 DEF tokenVars
<1>3. acted \subseteq Calls /\ usedMark \subseteq Tokens /\ asked \subseteq Ask /\ faults \in 0..MaxFaults
  BY DEF RefundInv, OwnInv, OwnTypeOK
<1>4. CASE Throw(c, "other")
  <2>1. Steady
    BY <1>1, <1>2, <1>4, ConfMoves DEF Throw, Steady, billingVars
  <2>2. AskedConsented'
    BY <1>2, <2>1, QuietTokens
  <2> QED BY <1>1, <1>2, <1>3, <1>4, <2>2, ThrowKeeps
<1>5. CASE ~ Refused(conf[c].policy, AmountFor(c)) /\ SameDecision(c) /\ NextStep(c, "use") /\ UNCHANGED idemVars
  <2>1. Steady
    BY <1>1, <1>2, <1>5, ConfMoves DEF Steady, billingVars
  <2>2. AskedConsented' /\ MarkedOrExpired' /\ SingleUse'
    BY <1>2, <2>1, QuietTokens
  <2>3. Said(c).action = "execute" => AmountFor(c) <= conf[c].policy.direct
    <3>1. AmountFor(c) \in Nat /\ conf[c].policy.direct \in Nat
      BY <1>1, RunKnown
    <3>2. Said(c).action = "execute" => ~ NeedsApproval(conf[c].policy, AmountFor(c))
      BY <1>5 DEF SameDecision, Action
    <3> QED BY <3>1, <3>2 DEF NeedsApproval
  <2> QED BY <1>1, <1>2, <1>3, <1>5, <2>2, <2>3, AdvanceKeeps
<1> QED BY <1>4, <1>5 DEF Evaluate

LEMMA ConsumeKeeps ==
    ASSUME RefundInv, NEW c \in Calls, Consume(c), UNCHANGED faults
    PROVE  RefundInv'
<1> DEFINE t == conf[c].token
<1> USE DEF RefundInv, OwnInv
<1>1. /\ conf[c].pc = "use" /\ idem[c].pc = "run" /\ t \in Tokens
      /\ UNCHANGED <<tokens, expired, asked, billingVars, evaluatorVars>>
  BY DEF Consume, InsideRun, Bound
<1>2. acted \subseteq Calls /\ usedMark \subseteq Tokens /\ asked \subseteq Ask /\ faults \in 0..MaxFaults
  BY DEF OwnTypeOK
<1>3. CASE Throw(c, "already_used") /\ UNCHANGED <<usedMark, acted>>
  <2>1. Steady
    BY <1>1, <1>3, ConfMoves DEF Throw, Steady, billingVars
  <2>2. AskedConsented'
    BY <1>1, <1>3, <2>1, QuietTokens
  <2> QED BY <1>1, <1>2, <1>3, <2>2, ThrowKeeps DEF tokenVars
<1>4. CASE /\ t \notin usedMark /\ usedMark' = usedMark \cup {t} /\ acted' = acted \cup {c}
           /\ NextStep(c, "act") /\ UNCHANGED idemVars
  <2>1. \A d \in Calls : conf'[d].token = conf[d].token /\ conf'[d].policy = conf[d].policy
    <3>1. /\ \A d \in Calls \ {c} : conf'[d] = conf[d]
          /\ conf'[c].token = conf[c].token /\ conf'[c].policy = conf[c].policy
      BY <1>4, ConfMoves
    <3> QED BY <3>1
  <2>2. Steady
    BY <1>1, <1>4, <2>1 DEF Steady, billingVars
  <2>3. AskedConsented'
    BY <1>1, <2>2, SteadyAgreement DEF AskedConsented
  <2>4. MarkedOrExpired'
    BY <1>1, <1>2, <1>4, <2>1 DEF MarkedOrExpired
  <2>5. SingleUse'
    <3>1. \A d \in acted : conf[d].token = t => t \in expired
      BY <1>4 DEF MarkedOrExpired
    <3> HIDE DEF t
    <3>2. \A d \in acted' : d = c \/ d \in acted
      BY <1>4
    <3> QED BY <1>1, <1>2, <2>1, <3>1, <3>2 DEF SingleUse, t
  <2>6. Said(c).action = "execute" => AmountFor(c) <= conf[c].policy.direct
    BY <1>1 DEF WithinDirect
  <2>7. acted' \subseteq Calls /\ usedMark' \subseteq Tokens /\ acted' = acted \cup {c}
    BY <1>1, <1>2, <1>4
  <2> QED BY <1>1, <1>4, <2>3, <2>4, <2>5, <2>6, <2>7, AdvanceKeeps
<1> QED BY <1>3, <1>4 DEF Consume

(* The id of a run leads back to what its token says. *)
LEMMA IdAgrees ==
    ASSUME RefundInv, NEW c \in Calls, idem[c].pc # "idle", c \in acted,
           NEW u \in Users, NEW q \in Requests, NEW p \in Payments,
           idem[c].id = KeyFor[<<u, q, p>>]
    PROVE  /\ Said(c).request = q /\ Said(c).payment = p /\ AmountFor(c) = AmountOf[q]
           /\ <<c, Deal(u, q, Said(c).action, p)>> \in Agreement
<1>1. /\ Said(c) \in RealToken
      /\ KeyFor[<<Said(c).user, Said(c).request, Said(c).payment>>] = KeyFor[<<u, q, p>>]
  BY RunKnown
<1>2. Said(c).user = u /\ Said(c).request = q /\ Said(c).payment = p
  BY <1>1, RefundServiceAssumption DEF RealToken
<1>3. Said(c) = Deal(u, q, Said(c).action, p)
  BY <1>1, <1>2 DEF RealToken, Deal
<1> QED BY <1>2, <1>3 DEF Agreement, AmountFor

LEMMA InsertApprovalKeeps ==
    ASSUME RefundInv, NEW c \in Calls, InsertApproval(c), UNCHANGED faults
    PROVE  RefundInv'
<1> DEFINE k == idem[c].id
           row == [by |-> c, key |-> k, amount |-> AmountFor(c)]
<1>1. /\ conf[c].pc = "act" /\ Said(c).action = "request_approval" /\ idem[c].pc = "run"
      /\ c \in acted /\ UNCHANGED <<tokenVars, billingVars, evaluatorVars>>
  BY DEF InsertApproval, RefundInv, OwnInv, InsideRun, HasActed
<1>2. /\ faults \in 0..MaxFaults /\ asked \subseteq Ask
      /\ UNCHANGED <<tokens, expired, usedMark, acted, refunds>>
  BY <1>1 DEF RefundInv, OwnInv, OwnTypeOK, tokenVars, billingVars
<1>3. \A d \in Calls : conf'[d].token = conf[d].token /\ conf'[d].policy = conf[d].policy
  <2>1. PICK error \in {"none", "other"} :
           NextStep(c, "run") \/ conf' = [conf EXCEPT ![c].pc = "run", ![c].error = error]
    BY DEF InsertApproval, Return, Throw
  <2>2. /\ \A d \in Calls \ {c} : conf'[d] = conf[d]
        /\ conf'[c].token = conf[c].token /\ conf'[c].policy = conf[c].policy
    BY <2>1, ConfMoves
  <2> QED BY <2>2
<1>4. asked \subseteq asked' => Steady
  BY <1>2, <1>3 DEF Steady
<1>5. CASE Throw(c, "other") /\ UNCHANGED asked
  <2>1. AskedConsented'
    BY <1>2, <1>4, <1>5, QuietTokens
  <2> QED BY <1>1, <1>2, <1>5, <2>1, ThrowKeeps
<1>6. CASE asked' = asked \cup {row} /\ (Return(c, "pending_approval", c) \/ Throw(c, "other"))
  <2>1. row \in Ask /\ row.key = k /\ row.by = c
    BY <1>1, RunKnown DEF Ask
  <2> HIDE DEF row
  <2>2. asked \subseteq asked' /\ asked' \subseteq Ask
    BY <1>2, <1>6, <2>1
  <2>3. AskedConsented'
    <3> SUFFICES ASSUME NEW a \in asked', NEW u \in Users, NEW q \in Requests, NEW p \in Payments,
                        a.key = KeyFor[<<u, q, p>>]
                 PROVE  <<a.by, Deal(u, q, "request_approval", p)>> \in Agreement'
      BY DEF AskedConsented
    <3>1. CASE a \in asked
      BY <1>4, <2>2, <3>1, SteadyAgreement DEF RefundInv, OwnInv, AskedConsented
    <3>2. CASE a = row
      <4>1. <<c, Deal(u, q, Said(c).action, p)>> \in Agreement
        BY <1>1, <2>1, <3>2, IdAgrees
      <4> QED BY <1>1, <1>4, <2>1, <2>2, <3>2, <4>1, SteadyAgreement
    <3> QED BY <1>6, <3>1, <3>2
  <2>4. CASE Throw(c, "other")
    BY <1>1, <1>2, <2>2, <2>3, <2>4, ThrowKeeps
  <2>5. CASE Return(c, "pending_approval", c)
    <3>1. \E a \in asked' : a.key = idem[c].id /\ a.by = c
      BY <1>6, <2>1
    <3> QED BY <1>1, <1>2, <2>2, <2>3, <2>5, <3>1, ReturnKeeps
  <2> QED BY <1>6, <2>4, <2>5
<1> QED BY <1>5, <1>6 DEF InsertApproval

LEMMA BillingAnswersKeeps ==
    ASSUME RefundInv, NEW c \in Calls, BillingAnswers(c), UNCHANGED faults
    PROVE  RefundInv'
<1>1. /\ conf[c].pc = "posted"
      /\ UNCHANGED <<tokenVars, asked, billingVars, evaluatorVars>>
  BY DEF BillingAnswers
<1>2. /\ faults \in 0..MaxFaults /\ asked \subseteq Ask
      /\ UNCHANGED <<tokens, expired, usedMark, acted, refunds>>
  BY <1>1 DEF RefundInv, OwnInv, OwnTypeOK, tokenVars, billingVars
<1>3. AskedConsented'
  <2>1. PICK error \in {"none", "other"} :
           NextStep(c, "run") \/ conf' = [conf EXCEPT ![c].pc = "run", ![c].error = error]
    BY DEF BillingAnswers, Return, Throw
  <2>2. /\ \A d \in Calls \ {c} : conf'[d] = conf[d]
        /\ conf'[c].token = conf[c].token /\ conf'[c].policy = conf[c].policy
    BY <2>1, ConfMoves
  <2>3. Steady
    BY <1>1, <1>2, <2>2 DEF Steady
  <2> QED BY <1>1, <1>2, <2>3, QuietTokens
<1>4. CASE Throw(c, "other")
  BY <1>1, <1>2, <1>3, <1>4, ThrowKeeps
<1>5. CASE http[c].reply \in {"created", "replayed"} /\ Return(c, "completed", http[c].ref)
  <2>1. PICK r \in refunds : r.ref = http[c].ref /\ r.key = http[c].key
    BY <1>5 DEF RefundInv, AnswerTruthful
  <2>2. http[c].ref \in Calls /\ r \in Under(idem[c].id)
    BY <1>1, <2>1 DEF RefundInv, BillingInv, BillingTypeOK, Row, OwnInv, AwaitsOwn, Under
  <2>3. \E s \in Under(idem[c].id) : s.ref = http[c].ref
    BY <2>1, <2>2
  <2> QED BY <1>1, <1>2, <1>3, <1>5, <2>2, <2>3, ReturnKeeps
<1> QED BY <1>4, <1>5 DEF BillingAnswers

LEMMA CallFailsKeeps ==
    ASSUME RefundInv, NEW c \in Calls, CallFails(c), faults' \in 0..MaxFaults
    PROVE  RefundInv'
<1>1. Throw(c, "other") /\ UNCHANGED <<tokenVars, asked, billingVars, evaluatorVars>>
  BY DEF CallFails
<1>2. Steady /\ UNCHANGED <<asked, acted, expired, usedMark>>
  BY <1>1, ConfMoves DEF Throw, Steady, tokenVars, billingVars
<1>3. AskedConsented' /\ asked' \subseteq Ask
  BY <1>2, QuietTokens DEF RefundInv, OwnInv, OwnTypeOK
<1> QED BY <1>1, <1>3, ThrowKeeps

-----------------------------------------------------------------------------
(* Requests to billing: the service's own, and those of others. *)

LEMMA PostKeepsRequests ==
    ASSUME RefundInv, Steady, UNCHANGED <<refunds, payLock>>,
           NEW c \in Calls, NEW k \in Keys, NEW p \in Payments, NEW a \in Amounts, Post(c, k, p, a),
           \A u \in Users, q \in Requests, s \in Payments :
              k = KeyFor[<<u, q, s>>] =>
                 /\ <<c, Deal(u, q, "execute", s)>> \in Agreement'
                 /\ p = s /\ a = AmountOf[q]
                 /\ AmountOf[q] <= conf'[c].policy.direct
    PROVE  /\ BillingInv' /\ AnswerTruthful' /\ PostedConsented' /\ RowsConsented'
           /\ http[c].pc = "idle" /\ http'[c].pc = "received" /\ http'[c].key = k
           /\ \A d \in Calls \ {c} : http'[d] = http[d]
<1> USE DEF RefundInv, OwnInv
<1>1. BillingInv' /\ AnswerTruthful'
  BY BillingPostInv, AnswerPost
<1>2. /\ http[c].pc = "idle" /\ http'[c].pc = "received"
      /\ http'[c].key = k /\ http'[c].payment = p /\ http'[c].amount = a
      /\ \A d \in Calls \ {c} : http'[d] = http[d]
  BY DEF Post, BillingInv, BillingTypeOK
<1>3. PostedConsented'
  <2> SUFFICES ASSUME NEW d \in Calls, (http[d].pc # "idle")',
                      NEW u \in Users, NEW q \in Requests, NEW s \in Payments,
                      http'[d].key = KeyFor[<<u, q, s>>]
               PROVE  /\ <<d, Deal(u, q, "execute", s)>> \in Agreement'
                      /\ http'[d].payment = s /\ http'[d].amount = AmountOf[q]
                      /\ AmountOf[q] <= conf'[d].policy.direct
    BY DEF PostedConsented, Consented
  <2>1. CASE d = c
    BY <1>2, <2>1
  <2>2. CASE d # c
    <3>1. Consented(d, http[d]) /\ http'[d] = http[d]
      BY <1>2, <2>2 DEF PostedConsented
    <3> QED BY <3>1, SteadyConsented
  <2> QED BY <2>1, <2>2
<1>4. RowsConsented'
  <2> SUFFICES ASSUME NEW r \in refunds,
                      NEW u \in Users, NEW q \in Requests, NEW s \in Payments,
                      r.key = KeyFor[<<u, q, s>>]
               PROVE  /\ <<r.ref, Deal(u, q, "execute", s)>> \in Agreement'
                      /\ r.payment = s /\ r.amount = AmountOf[q]
                      /\ AmountOf[q] <= conf'[r.ref].policy.direct
    BY DEF RowsConsented, Consented
  <2>1. Consented(r.ref, r)
    BY DEF RowsConsented
  <2> QED BY <2>1, SteadyConsented
<1> QED BY <1>1, <1>2, <1>3, <1>4

LEMMA ExecuteRefundKeeps ==
    ASSUME RefundInv, NEW c \in Calls, ExecuteRefund(c), UNCHANGED faults
    PROVE  RefundInv'
<1> DEFINE k == idem[c].id
           p == Said(c).payment
           a == AmountFor(c)
<1>1. /\ conf[c].pc = "act" /\ Said(c).action = "execute" /\ idem[c].pc = "run" /\ c \in acted
      /\ Post(c, k, p, a) /\ NextStep(c, "posted")
      /\ UNCHANGED <<refunds, payLock, tokens, expired, usedMark, acted, asked>>
      /\ UNCHANGED <<idem, idemResult, idemLock, overran, forgotten, evaluatorVars>>
  BY DEF ExecuteRefund, tokenVars, idemVars, RefundInv, OwnInv, InsideRun, HasActed
<1>2. k \in Keys /\ p \in Payments /\ a \in Amounts
  BY <1>1, RunKnown DEF RealToken
<1>3. /\ conf' \in [Calls -> Conf]
      /\ \A d \in Calls \ {c} : conf'[d] = conf[d]
      /\ conf'[c].pc = "posted"
      /\ conf'[c].token = conf[c].token /\ conf'[c].policy = conf[c].policy
  BY <1>1, ConfMoves
<1>4. Steady
  BY <1>1, <1>3 DEF Steady
<1>5. ASSUME NEW u \in Users, NEW q \in Requests, NEW s \in Payments, k = KeyFor[<<u, q, s>>]
      PROVE  /\ <<c, Deal(u, q, "execute", s)>> \in Agreement'
             /\ p = s /\ a = AmountOf[q] /\ AmountOf[q] <= conf'[c].policy.direct
  <2>1. /\ p = s /\ a = AmountOf[q]
        /\ <<c, Deal(u, q, Said(c).action, s)>> \in Agreement
    BY <1>1, <1>5, IdAgrees
  <2>2. a <= conf[c].policy.direct
    BY <1>1 DEF RefundInv, OwnInv, WithinDirect
  <2> QED BY <1>1, <1>3, <1>4, <2>1, <2>2, SteadyAgreement
<1> HIDE DEF k, p, a
<1>6. /\ BillingInv' /\ AnswerTruthful' /\ PostedConsented' /\ RowsConsented'
      /\ http'[c].pc = "received" /\ http'[c].key = k
      /\ \A d \in Calls \ {c} : http'[d] = http[d]
  BY <1>1, <1>2, <1>4, <1>5, PostKeepsRequests
<1>7. AskedConsented' /\ MarkedOrExpired' /\ SingleUse'
  BY <1>1, <1>4, QuietTokens
<1> USE DEF RefundInv, OwnInv
<1>8. EvaluatorTypeOK' /\ OwnTypeOK' /\ TokensReal' /\ Idem!IdemTypeOK'
  BY <1>1, <1>3 DEF evaluatorVars, EvaluatorTypeOK, OwnTypeOK, TokensReal, Issued, Idem!IdemTypeOK
<1>9. Bound'
  BY <1>1, <1>3 DEF Bound, Issued, IdOf
<1>10. InsideRun' /\ HasActed'
  BY <1>1, <1>3 DEF InsideRun, HasActed
<1>11. WithinDirect'
  BY <1>1, <1>3 DEF WithinDirect, Said, AmountFor
<1>12. AwaitsOwn'
  BY <1>1, <1>3, <1>6 DEF AwaitsOwn, k
<1>13. AnsweredAtEnd' /\ ResultsExist'
  BY <1>1 DEF AnsweredAtEnd, ResultsExist, Exists, Under, Idem!Success
<1> QED BY <1>6, <1>7, <1>8, <1>9, <1>10, <1>11, <1>12, <1>13

LEMMA OtherRefundKeeps ==
    ASSUME RefundInv, UNCHANGED faults,
           NEW c \in Calls, NEW k \in Keys, NEW p \in Payments, NEW a \in Amounts,
           OtherRefund(c, k, p, a)
    PROVE  RefundInv'
<1>1. /\ conf[c].token = None /\ Post(c, k, p, a)
      /\ UNCHANGED <<refunds, payLock, tokens, expired, usedMark, acted, asked, conf>>
      /\ UNCHANGED <<idem, idemResult, idemLock, overran, forgotten, evaluatorVars>>
  BY DEF OtherRefund, tokenVars, idemVars, ownVars
<1>2. Steady
  BY <1>1 DEF Steady
<1>3. \A u \in Users, q \in Requests, s \in Payments : k # KeyFor[<<u, q, s>>]
  BY RefundServiceAssumption DEF OtherRefund
<1>4. /\ BillingInv' /\ AnswerTruthful' /\ PostedConsented' /\ RowsConsented'
      /\ \A d \in Calls \ {c} : http'[d] = http[d]
  BY <1>1, <1>2, <1>3, PostKeepsRequests
<1>5. AskedConsented' /\ MarkedOrExpired' /\ SingleUse'
  BY <1>1, <1>2, QuietTokens
<1> USE DEF RefundInv, OwnInv
<1>6. EvaluatorTypeOK' /\ OwnTypeOK' /\ TokensReal' /\ Idem!IdemTypeOK'
  BY <1>1 DEF evaluatorVars, EvaluatorTypeOK, OwnTypeOK, TokensReal, Issued, Idem!IdemTypeOK
<1>7. Bound' /\ InsideRun' /\ HasActed' /\ WithinDirect'
  BY <1>1 DEF Bound, Issued, IdOf, InsideRun, HasActed, WithinDirect, Said, AmountFor
<1>8. AwaitsOwn'
  BY <1>1, <1>4, RefundServiceAssumption DEF AwaitsOwn, Bound
<1>9. AnsweredAtEnd' /\ ResultsExist'
  BY <1>1 DEF AnsweredAtEnd, ResultsExist, Exists, Under, Idem!Success
<1> QED BY <1>4, <1>5, <1>6, <1>7, <1>8, <1>9

-----------------------------------------------------------------------------
LEMMA RefundNextInv == RefundInv /\ [RefundNext]_refundVars => RefundInv'
<1> SUFFICES ASSUME RefundInv, [RefundNext]_refundVars
             PROVE  RefundInv'
  OBVIOUS
<1>1. faults \in 0..MaxFaults
  BY DEF RefundInv, OwnInv, OwnTypeOK
<1>2. CASE ServiceStep /\ UNCHANGED faults
  <2>1. ASSUME NEW t \in Tokens, TokenExpires(t)
        PROVE  RefundInv'
    BY <1>2, <2>1, TokenExpiresKeeps
  <2>2. ASSUME NEW t \in Tokens, NEW u \in Users, NEW r \in Requests, Preview(t, u, r)
        PROVE  RefundInv'
    BY <1>2, <2>2, PreviewKeeps
  <2>3. ASSUME NEW c \in Calls, NEW u \in Users, NEW r \in Requests, NEW t \in Tokens,
               Confirm(c, u, r, t)
        PROVE  RefundInv'
    BY <1>2, <2>3, ConfirmKeeps
  <2>4. ASSUME NEW c \in Calls, RunStep(c)
        PROVE  RefundInv'
    BY <1>2, <2>4, EvaluateKeeps, ConsumeKeeps, InsertApprovalKeeps, ExecuteRefundKeeps,
       BillingAnswersKeeps DEF RunStep
  <2>5. ASSUME NEW c \in Calls, Idem!IdemStep(c),
               UNCHANGED <<tokenVars, ownVars, billingVars, evaluatorVars>>
        PROVE  RefundInv'
    BY <1>1, <1>2, <2>5, IdemKeeps
  <2> QED BY <1>2, <2>1, <2>2, <2>3, <2>4, <2>5 DEF ServiceStep
<1>3. CASE OutsideStep /\ UNCHANGED faults
  <2>1. ASSUME NEW c \in Calls, HandlerStep(c),
               UNCHANGED <<evaluatorVars, idemVars, tokenVars, ownVars>>
        PROVE  RefundInv'
    BY <1>1, <1>3, <2>1, BillingKeeps DEF BillingStep
  <2>2. ASSUME NEW c \in Calls, NEW k \in Keys, NEW p \in Payments, NEW a \in Amounts,
               OtherRefund(c, k, p, a)
        PROVE  RefundInv'
    BY <1>3, <2>2, OtherRefundKeeps
  <2>3. ASSUME Surroundings, UNCHANGED <<billingVars, idemVars, tokenVars, ownVars>>
        PROVE  RefundInv'
    BY <1>1, <1>3, <2>3, SurroundingsKeep
  <2> QED BY <1>3, <2>1, <2>2, <2>3 DEF OutsideStep
<1>4. CASE Fault /\ faults < MaxFaults /\ faults' = faults + 1
  <2>1. faults' \in 0..MaxFaults
    BY <1>1, <1>4, RefundServiceAssumption
  <2>2. ASSUME NEW c \in Calls, CallFails(c) \/ ServerDies(c)
        PROVE  RefundInv'
    BY <2>1, <2>2, CallFailsKeeps, ServerDiesKeeps
  <2>3. ASSUME NEW c \in Calls, Idem!RedisFails(c),
               UNCHANGED <<tokenVars, ownVars, billingVars, evaluatorVars>>
        PROVE  RefundInv'
    BY <2>1, <2>3, IdemKeeps
  <2>4. ASSUME NEW c \in Calls, RollBack(c),
               UNCHANGED <<evaluatorVars, idemVars, tokenVars, ownVars>>
        PROVE  RefundInv'
    BY <2>1, <2>4, BillingKeeps DEF BillingStep
  <2>5. ASSUME NEW k \in Keys, Idem!LockExpires(k) \/ Idem!ResultExpires(k),
               UNCHANGED <<tokenVars, ownVars, billingVars, evaluatorVars>>
        PROVE  RefundInv'
    BY <2>1, <2>5, ExpiryKeeps
  <2> QED BY <1>4, <2>2, <2>3, <2>4, <2>5 DEF Fault
<1>5. CASE UNCHANGED refundVars
  <2>1. /\ UNCHANGED <<idem, idemResult, conf, asked, acted, tokens, expired, usedMark, faults>>
        /\ UNCHANGED <<billingVars, evaluatorVars, idemVars>>
    BY <1>5 DEF refundVars, idemVars, tokenVars, ownVars
  <2>2. Steady
    BY <2>1 DEF Steady, billingVars
  <2>3. EvaluatorTypeOK' /\ OwnTypeOK' /\ TokensReal' /\ Idem!IdemTypeOK'
    BY <2>1 DEF RefundInv, OwnInv, evaluatorVars, idemVars, EvaluatorTypeOK, OwnTypeOK,
                TokensReal, Issued, Idem!IdemTypeOK
  <2> QED BY <2>1, <2>2, <2>3, AroundKeeps
<1> QED BY <1>2, <1>3, <1>4, <1>5 DEF RefundNext

(* What was agreed to is followed from the token to billing, in every run. *)
THEOREM RefundInvariant == RefundSpec => []RefundInv
BY RefundInitInv, RefundNextInv, PTL DEF RefundSpec

(* The types of issue_refund's state, for any number of users, requests and calls
   (refund-service.ts:60-330). *)
THEOREM RefundTypesHold == RefundSpec => []RefundTypeOK
<1>1. RefundInv => RefundTypeOK
  BY DEF RefundInv, OwnInv, OwnTypeOK, BillingInv, RefundTypeOK
<1> QED BY <1>1, RefundInvariant, PTL

(* For any number of users, tokens and concurrent calls, and whatever fails or expires
   between their steps: every refund and every approval row under a user's id was
   previewed as exactly that, its token was used up, and the refund is within the limit
   the caller had when it was made (refund-service.ts:191-205). *)
THEOREM AlwaysConsented == RefundSpec => []ConsentedOnly
<1>1. RefundInv => ConsentedOnly
  <2> SUFFICES ASSUME RefundInv, NEW u \in Users, NEW q \in Requests, NEW p \in Payments
               PROVE  /\ \A r \in Under(KeyFor[<<u, q, p>>]) :
                            /\ r.payment = p /\ r.amount = AmountOf[q]
                            /\ AgreedTo(u, q, "execute", p)
                            /\ r.amount <= conf[r.ref].policy.direct
                      /\ \A a \in asked :
                            a.key = KeyFor[<<u, q, p>>] => AgreedTo(u, q, "request_approval", p)
    BY DEF ConsentedOnly
  <2>1. ASSUME NEW action, NEW c, <<c, Deal(u, q, action, p)>> \in Agreement
        PROVE  AgreedTo(u, q, action, p)
    BY <2>1 DEF Agreement, AgreedTo, Deal
  <2>2. ASSUME NEW r \in Under(KeyFor[<<u, q, p>>])
        PROVE  /\ r.payment = p /\ r.amount = AmountOf[q]
               /\ AgreedTo(u, q, "execute", p)
               /\ r.amount <= conf[r.ref].policy.direct
    <3>1. Consented(r.ref, r) /\ r.key = KeyFor[<<u, q, p>>]
      BY DEF RefundInv, OwnInv, RowsConsented, Under
    <3> QED BY <2>1, <3>1 DEF Consented
  <2>3. ASSUME NEW a \in asked, a.key = KeyFor[<<u, q, p>>]
        PROVE  AgreedTo(u, q, "request_approval", p)
    BY <2>1, <2>3 DEF RefundInv, OwnInv, AskedConsented
  <2> QED BY <2>2, <2>3
<1> QED BY <1>1, RefundInvariant, PTL

(* For any number of concurrent calls, a token is acted on by one of them, unless it had
   expired by then (confirmation.ts:138-151). *)
THEOREM TokensUsedOnce == RefundSpec => []SingleUse
BY RefundInvariant, PTL DEF RefundInv, OwnInv

(* For any number of concurrent calls, the success a caller is told of, or Redis keeps,
   names a refund or an approval that exists under its id (refund-service.ts:191-330). *)
THEOREM SuccessExists == RefundSpec => []AnsweredTruthfully
<1>1. RefundInv => AnsweredTruthfully
  BY DEF RefundInv, OwnInv, ResultsExist, AnsweredTruthfully
<1> QED BY <1>1, RefundInvariant, PTL

-----------------------------------------------------------------------------
(* One outcome.  The wrapper lets the runs of an id act one after the other, and none after
   one that succeeded, unless a call of it failed or outlived its lock. *)

(* One call acts under an untroubled id. *)
SoleActor ==
    \A c, d \in acted : idem[c].id = idem[d].id /\ IP!Untroubled(idem[c].id) => c = d

(* What acted under an untroubled id is still at it, or has its result stored. *)
ActedKept ==
    \A c \in acted :
       IP!Untroubled(idem[c].id) =>
          idem[c].pc \in {"run", "store"} \/ idemResult[idem[c].id] # None

(* Approvals are asked for by calls that acted, under their ids. *)
AskedByActors == \A a \in asked : a.by \in acted /\ idem[a.by].id = a.key

OutcomeInv ==
    RefundInv /\ IP!IdemInv /\ IP!FailedAtEnd /\ SoleActor /\ ActedKept /\ AskedByActors

LEMMA OutcomesAreNotNone == None \notin Calls \cup Keys \cup Outcome
BY RefundServiceAssumption

LEMMA OutcomeInitInv == RefundInit => OutcomeInv
<1> SUFFICES ASSUME RefundInit PROVE OutcomeInv
  OBVIOUS
<1>1. IP!IdemInit
  BY DEF RefundInit, Idem!IdemInit, IP!IdemInit, Idem!NoCall, IP!NoCall
<1>2. IP!IdemInv
  BY <1>1, OutcomesAreNotNone, IP!IdemInitInv
<1>3. IP!FailedAtEnd
  BY DEF RefundInit, Idem!IdemInit, Idem!NoCall, IP!FailedAtEnd
<1>4. SoleActor /\ ActedKept /\ AskedByActors
  BY DEF RefundInit, SoleActor, ActedKept, AskedByActors
<1> QED BY <1>2, <1>3, <1>4, RefundInitInv DEF OutcomeInv

LEMMA SameSteps ==
    ASSUME NEW c \in Calls
    PROVE  /\ Idem!IdemStep(c) => IP!IdemStep(c)
           /\ Idem!RedisFails(c) => IP!RedisFails(c)
           /\ Idem!Die(c) => IP!Die(c)
           /\ \A i \in Keys : Idem!Enter(c, i) => IP!Enter(c, i)
           /\ \A r \in Outcome : Idem!RunDone(c, r) => IP!RunEnds(c)
           /\ Idem!RunFails(c) => IP!RunEnds(c)
<1> USE DEF Idem!Go, IP!Go, Idem!Settle, IP!Settle, Idem!Stored, IP!Stored, Idem!Released,
            IP!Released
<1>1. Idem!IdemStep(c) => IP!IdemStep(c)
  <2>1. /\ Idem!FirstLook(c) => IP!FirstLook(c)
        /\ Idem!TryLock(c) => IP!TryLock(c)
    BY DEF Idem!FirstLook, IP!FirstLook, Idem!TryLock, IP!TryLock
  <2>2. /\ Idem!Poll(c) => IP!Poll(c)
        /\ Idem!LateLook(c) => IP!LateLook(c)
    BY DEF Idem!Poll, IP!Poll, Idem!LateLook, IP!LateLook
  <2>3. /\ Idem!Store(c) => IP!Store(c)
        /\ Idem!Release(c) => IP!Release(c)
    BY DEF Idem!Store, IP!Store, Idem!Release, IP!Release
  <2> QED BY <2>1, <2>2, <2>3 DEF Idem!IdemStep, IP!IdemStep
<1>2. Idem!RedisFails(c) => IP!RedisFails(c)
  BY DEF Idem!RedisFails, IP!RedisFails
<1>3. Idem!Die(c) => IP!Die(c)
  BY DEF Idem!Die, IP!Die
<1>4. ASSUME NEW i \in Keys, Idem!Enter(c, i) PROVE IP!Enter(c, i)
  BY <1>4 DEF Idem!Enter, IP!Enter
<1>5. ASSUME NEW r \in Outcome, Idem!RunDone(c, r) PROVE IP!RunEnds(c)
  <2>1. IP!RunDone(c, r)
    BY <1>5 DEF Idem!RunDone, IP!RunDone
  <2> QED BY <2>1 DEF IP!RunEnds
<1>6. Idem!RunFails(c) => IP!RunEnds(c)
  BY DEF Idem!RunFails, IP!RunFails, IP!RunEnds
<1> QED BY <1>1, <1>2, <1>3, <1>4, <1>5, <1>6

LEMMA SameExpiry ==
    ASSUME NEW i \in Keys
    PROVE  /\ Idem!LockExpires(i) => IP!LockExpires(i)
           /\ Idem!ResultExpires(i) => IP!ResultExpires(i)
BY DEF Idem!LockExpires, IP!LockExpires, Idem!ResultExpires, IP!ResultExpires, Idem!Holding,
       IP!Holding

(* Every step of issue_refund is one of the wrapper, or none to it. *)
LEMMA WrapperSteps ==
    ASSUME RefundInv, [RefundNext]_refundVars
    PROVE  [IP!IdemNext]_(IP!idemVars)
<1>1. ASSUME UNCHANGED idemVars PROVE UNCHANGED IP!idemVars
  BY <1>1 DEF idemVars, IP!idemVars
<1>2. ASSUME NEW c \in Calls, NEW error, Throw(c, error) PROVE IP!IdemNext
  BY <1>2, SameSteps DEF Throw, IP!IdemNext
<1>3. ASSUME NEW c \in Calls, NEW status \in {"completed", "pending_approval"}, NEW ref \in Calls,
             Return(c, status, ref)
      PROVE  IP!IdemNext
  <2>1. [status |-> status, ref |-> ref] \in Outcome
    BY DEF Outcome
  <2> QED BY <1>3, <2>1, SameSteps DEF Return, IP!IdemNext
<1>4. CASE ServiceStep
  <2>1. ASSUME NEW t \in Tokens, TokenExpires(t) \/ \E u \in Users, r \in Requests : Preview(t, u, r)
        PROVE  UNCHANGED IP!idemVars
    BY <1>1, <2>1 DEF TokenExpires, Preview
  <2>2. ASSUME NEW c \in Calls, NEW u \in Users, NEW r \in Requests, NEW t \in Tokens,
               Confirm(c, u, r, t)
        PROVE  IP!IdemNext
    <3>1. tokens[t] \in RealToken
      BY <2>2 DEF RefundInv, OwnInv, TokensReal, Issued, Confirm
    <3>2. KeyFor[<<u, r, tokens[t].payment>>] \in Keys
      BY <3>1, RefundServiceAssumption DEF RealToken
    <3> QED BY <2>2, <3>2, SameSteps DEF Confirm, IP!IdemNext
  <2>3. ASSUME NEW c \in Calls, RunStep(c)
        PROVE  IP!IdemNext \/ UNCHANGED IP!idemVars
    <3>1. CASE Evaluate(c) \/ Consume(c) \/ ExecuteRefund(c)
      BY <1>1, <1>2, <3>1 DEF Evaluate, Consume, ExecuteRefund
    <3>2. CASE InsertApproval(c)
      BY <1>2, <1>3, <3>2 DEF InsertApproval
    <3>3. CASE BillingAnswers(c)
      <4>1. CASE Throw(c, "other")
        BY <1>2, <4>1
      <4>2. CASE http[c].reply \in {"created", "replayed"} /\ Return(c, "completed", http[c].ref)
        <5>1. PICK r \in refunds : r.ref = http[c].ref
          BY <4>2 DEF RefundInv, AnswerTruthful
        <5>2. http[c].ref \in Calls
          BY <5>1 DEF RefundInv, BillingInv, BillingTypeOK, Row
        <5> QED BY <1>3, <4>2, <5>2
      <4> QED BY <3>3, <4>1, <4>2 DEF BillingAnswers
    <3> QED BY <2>3, <3>1, <3>2, <3>3 DEF RunStep
  <2>4. ASSUME NEW c \in Calls, Idem!IdemStep(c) PROVE IP!IdemNext
    BY <2>4, SameSteps DEF IP!IdemNext
  <2> QED BY <1>4, <2>1, <2>2, <2>3, <2>4 DEF ServiceStep
<1>5. CASE OutsideStep
  BY <1>1, <1>5 DEF OutsideStep, OtherRefund
<1>6. CASE Fault
  <2>1. ASSUME NEW c \in Calls, CallFails(c) \/ ServerDies(c) \/ Idem!RedisFails(c)
        PROVE  IP!IdemNext
    BY <1>2, <2>1, SameSteps DEF CallFails, ServerDies, IP!IdemNext
  <2>2. ASSUME NEW c \in Calls, RollBack(c), UNCHANGED <<evaluatorVars, idemVars, tokenVars, ownVars>>
        PROVE  UNCHANGED IP!idemVars
    BY <1>1, <2>2
  <2>3. ASSUME NEW k \in Keys, Idem!LockExpires(k) \/ Idem!ResultExpires(k)
        PROVE  IP!IdemNext
    BY <2>3, SameExpiry DEF IP!IdemNext
  <2> QED BY <1>6, <2>1, <2>2, <2>3 DEF Fault
<1>7. CASE UNCHANGED refundVars
  BY <1>1, <1>7 DEF refundVars
<1> QED BY <1>4, <1>5, <1>6, <1>7 DEF RefundNext

(* A call acts as it uses its token up, in its run. *)
LEMMA WhoActs ==
    ASSUME RefundInv, [RefundNext]_refundVars
    PROVE  \/ acted' = acted
           \/ \E c \in Calls : /\ acted' = acted \cup {c} /\ idem[c].pc = "run"
                               /\ UNCHANGED <<idemVars, asked>>
<1> USE DEF tokenVars
<1>1. ASSUME NEW c \in Calls, Consume(c), acted' # acted
      PROVE  acted' = acted \cup {c} /\ idem[c].pc = "run" /\ UNCHANGED <<idemVars, asked>>
  BY <1>1 DEF Consume, RefundInv, OwnInv, InsideRun
<1>2. ASSUME NEW c \in Calls, RunStep(c), acted' # acted PROVE Consume(c)
  BY <1>2 DEF RunStep, Evaluate, InsertApproval, ExecuteRefund, BillingAnswers
<1>3. CASE ServiceStep
  BY <1>1, <1>2, <1>3 DEF ServiceStep, TokenExpires, Preview, Confirm
<1>4. CASE OutsideStep \/ Fault \/ UNCHANGED refundVars
  BY <1>4 DEF OutsideStep, OtherRefund, Fault, CallFails, ServerDies, refundVars
<1> QED BY <1>3, <1>4 DEF RefundNext

(* A row is asked for by a call that acted, under its id. *)
LEMMA WhoAsks ==
    ASSUME RefundInv, [RefundNext]_refundVars
    PROVE  \A a \in asked' : a \in asked \/ (a.by \in acted /\ a.key = idem[a.by].id)
<1> USE DEF ownVars
<1>1. ASSUME NEW c \in Calls, InsertApproval(c), NEW a \in asked', a \notin asked
      PROVE  a.by \in acted /\ a.key = idem[a.by].id
  BY <1>1 DEF InsertApproval, RefundInv, OwnInv, HasActed
<1>2. ASSUME NEW c \in Calls, RunStep(c), asked' # asked PROVE InsertApproval(c)
  BY <1>2 DEF RunStep, Evaluate, Consume, ExecuteRefund, BillingAnswers
<1>3. CASE ServiceStep
  BY <1>1, <1>2, <1>3 DEF ServiceStep, TokenExpires, Preview, Confirm
<1>4. CASE OutsideStep \/ Fault \/ UNCHANGED refundVars
  BY <1>4 DEF OutsideStep, OtherRefund, Fault, CallFails, ServerDies, refundVars
<1> QED BY <1>3, <1>4 DEF RefundNext

(* Of a call that acted under an id that is untroubled afterwards: it was before, its id
   stays, and so does its run or the result of it. *)
LEMMA ActorsStay ==
    ASSUME OutcomeInv, [RefundNext]_refundVars, NEW c \in acted
    PROVE  /\ c \in Calls /\ idem[c].id \in Keys /\ idem'[c].id = idem[c].id
           /\ IP!Untroubled(idem[c].id)' =>
                 /\ IP!Untroubled(idem[c].id)
                 /\ idem'[c].pc \in {"run", "store"} \/ idemResult'[idem[c].id] # None
<1>1. [IP!IdemNext]_(IP!idemVars) /\ RefundInv /\ IP!IdemInv /\ IP!FailedAtEnd
  BY WrapperSteps DEF OutcomeInv
<1>2. c \in Calls /\ idem[c].pc # "idle" /\ idem[c].id \in Keys
  <2>1. c \in Calls
    BY <1>1 DEF RefundInv, OwnInv, OwnTypeOK
  <2>2. idem[c].pc # "idle"
    BY <1>1, <2>1 DEF RefundInv, OwnInv, Bound
  <2> QED BY <1>1, <2>1, <2>2 DEF RefundInv, Idem!IdemTypeOK
<1>3. idem'[c].id = idem[c].id
  BY <1>1, <1>2, OutcomesAreNotNone, IP!RunsEnd DEF IP!StaysOf
<1>4. PICK k \in Keys : k = idem[c].id
  BY <1>2
<1>5. ASSUME IP!Untroubled(k)'
      PROVE  /\ IP!Untroubled(k)
             /\ idemResult[k] # None => idemResult'[k] # None
             /\ idem[c].pc \in {"run", "store"} =>
                   idem'[c].pc \in {"run", "store"} \/ idemResult'[k] # None
  BY <1>1, <1>2, <1>4, <1>5, OutcomesAreNotNone, IP!UntroubledStays
<1>6. IP!Untroubled(k) => idem[c].pc \in {"run", "store"} \/ idemResult[k] # None
  BY <1>4 DEF OutcomeInv, ActedKept
<1>7. IP!Untroubled(idem[c].id)' => IP!Untroubled(k)'
  BY <1>3, <1>4 DEF IP!Untroubled
<1> QED BY <1>2, <1>3, <1>4, <1>5, <1>6, <1>7

LEMMA OutcomeNextInv == OutcomeInv /\ [RefundNext]_refundVars => OutcomeInv'
<1> SUFFICES ASSUME OutcomeInv, [RefundNext]_refundVars PROVE OutcomeInv'
  OBVIOUS
<1>1. [IP!IdemNext]_(IP!idemVars) /\ RefundInv /\ IP!IdemInv /\ IP!FailedAtEnd
  BY WrapperSteps DEF OutcomeInv
<1>2. RefundInv' /\ IP!IdemInv' /\ IP!FailedAtEnd'
  BY <1>1, OutcomesAreNotNone, RefundNextInv, IP!IdemNextInv, IP!RunsEnd
<1>3. \/ acted' = acted
      \/ \E c \in Calls : /\ acted' = acted \cup {c} /\ idem[c].pc = "run"
                          /\ UNCHANGED <<idemVars, asked>>
  BY <1>1, WhoActs
<1>4. SoleActor'
  <2>1. CASE acted' = acted
    <3> SUFFICES ASSUME NEW c \in acted, NEW d \in acted, idem'[c].id = idem'[d].id,
                        IP!Untroubled(idem[c].id)'
                 PROVE  c = d
      BY <2>1 DEF SoleActor
    <3> QED BY ActorsStay DEF OutcomeInv, SoleActor
  <2>2. ASSUME NEW c \in Calls, acted' = acted \cup {c}, idem[c].pc = "run", UNCHANGED idemVars
        PROVE  SoleActor'
    <3>1. ASSUME NEW d \in acted, idem[c].id = idem[d].id, IP!Untroubled(idem[c].id)
          PROVE  c = d
      <4>1. d \in Calls /\ (idem[d].pc \in {"run", "store"} \/ idemResult[idem[d].id] # None)
        BY <1>1, <3>1 DEF OutcomeInv, ActedKept, RefundInv, OwnInv, OwnTypeOK
      <4> QED BY <1>1, <2>2, <3>1, <4>1, OutcomesAreNotNone, IP!FirstToRun
    <3>2. ASSUME NEW x \in acted', NEW y \in acted', idem[x].id = idem[y].id, IP!Untroubled(idem[x].id)
          PROVE  x = y
      BY <2>2, <3>1, <3>2 DEF OutcomeInv, SoleActor
    <3>3. \A k : IP!Untroubled(k)' <=> IP!Untroubled(k)
      BY <2>2 DEF IP!Untroubled, idemVars
    <3> QED BY <2>2, <3>2, <3>3 DEF SoleActor, idemVars
  <2> QED BY <1>3, <2>1, <2>2
<1>5. ActedKept'
  <2>1. ASSUME NEW c \in acted, IP!Untroubled(idem[c].id)'
        PROVE  idem'[c].pc \in {"run", "store"} \/ idemResult'[idem'[c].id] # None
    BY <2>1, ActorsStay
  <2>2. ASSUME NEW c \in acted', c \notin acted
        PROVE  idem'[c].pc = "run"
    BY <1>3, <2>2 DEF idemVars
  <2> QED BY <2>1, <2>2 DEF ActedKept
<1>6. AskedByActors'
  <2>1. \A a \in asked' : a \in asked \/ (a.by \in acted /\ a.key = idem[a.by].id)
    BY <1>1, WhoAsks
  <2>2. \A a \in asked' : a.by \in acted /\ a.key = idem[a.by].id
    BY <2>1 DEF OutcomeInv, AskedByActors
  <2>3. \A c \in acted : c \in Calls /\ idem'[c].id = idem[c].id
    <3>1. \A c \in acted : c \in Calls
      BY <1>1 DEF RefundInv, OwnInv, OwnTypeOK
    <3>2. \A c \in acted : idem[c].pc # "idle"
      BY <1>1, <3>1 DEF RefundInv, OwnInv, Bound
    <3>3. \A c \in Calls : idem[c].pc # "idle" => idem'[c].id = idem[c].id
      BY <1>1, OutcomesAreNotNone, IP!RunsEnd DEF IP!StaysOf
    <3> QED BY <3>1, <3>2, <3>3
  <2>4. acted \subseteq acted'
    BY <1>3
  <2> QED BY <2>2, <2>3, <2>4 DEF AskedByActors
<1> QED BY <1>2, <1>4, <1>5, <1>6 DEF OutcomeInv

(* For any number of concurrent calls, a confirmed request is not both refunded and put up
   for approval, unless a call of it failed or outlived its lock, or its stored result has
   expired (refund-service.ts:230-330, idempotency.ts:7-9). *)
THEOREM OneOutcomeHolds == RefundSpec => []OneOutcome
<1>1. OutcomeInv => OneOutcome
  <2> SUFFICES ASSUME OutcomeInv, NEW k \in Keys, k \notin forgotten,
                      NEW r \in Under(k), NEW a \in asked, a.key = k, IP!Untroubled(k)
               PROVE  FALSE
    BY DEF OneOutcome, IP!Untroubled
  <2>1. a.by \in acted /\ idem[a.by].id = k
    BY DEF OutcomeInv, AskedByActors
  <2>2. /\ a.by \in Calls /\ conf[a.by].token \in Tokens /\ k = IdOf(conf[a.by].token)
        /\ tokens[conf[a.by].token] \in RealToken
    BY <2>1 DEF OutcomeInv, RefundInv, OwnInv, OwnTypeOK, Bound, TokensReal
  <2>3. PICK u \in Users, q \in Requests, p \in Payments : k = KeyFor[<<u, q, p>>]
    BY <2>2 DEF IdOf, RealToken
  <2>4. <<a.by, Deal(u, q, "request_approval", p)>> \in Agreement
    BY <2>3 DEF OutcomeInv, RefundInv, OwnInv, AskedConsented
  <2>5. <<r.ref, Deal(u, q, "execute", p)>> \in Agreement
    BY <2>3 DEF OutcomeInv, RefundInv, OwnInv, RowsConsented, Consented, Under
  <2>6. /\ r.ref \in acted /\ Said(r.ref) = Deal(u, q, "execute", p)
        /\ Said(a.by) = Deal(u, q, "request_approval", p)
    BY <2>4, <2>5 DEF Agreement
  <2>7. idem[r.ref].id = IdOf(conf[r.ref].token)
    BY <2>6 DEF OutcomeInv, RefundInv, OwnInv, OwnTypeOK, Bound
  <2>8. idem[r.ref].id = k
    BY <2>3, <2>6, <2>7 DEF IdOf, Said, Deal
  <2>9. r.ref = a.by
    BY <2>1, <2>6, <2>8 DEF OutcomeInv, SoleActor
  <2> QED BY <2>6, <2>9 DEF Deal
<1>2. RefundSpec => []OutcomeInv
  BY OutcomeInitInv, OutcomeNextInv, PTL DEF RefundSpec
<1> QED BY <1>1, <1>2, PTL

-----------------------------------------------------------------------------
(* Refinement.  Billing under issue_refund is still the ledger of RefundLedger.tla, and its
   wrapper is that of Idempotency.tla. *)

LEMMA RefundsOnlyInsert == [RefundNext]_refundVars => OnlyInserts
<1> USE DEF billingVars
<1>1. ASSUME NEW c \in Calls, RunStep(c) PROVE UNCHANGED refunds
  BY <1>1 DEF RunStep, Evaluate, Consume, InsertApproval, ExecuteRefund, BillingAnswers
<1>2. CASE ServiceStep
  BY <1>1, <1>2 DEF ServiceStep, TokenExpires, Preview, Confirm, OnlyInserts
<1>3. CASE OutsideStep
  <2>1. ASSUME NEW c \in Calls, HandlerStep(c) PROVE OnlyInserts
    BY <2>1, HandlersOnlyInsert DEF BillingStep
  <2>2. ASSUME NEW c \in Calls, NEW k \in Keys, NEW p \in Payments, NEW a \in Amounts,
               OtherRefund(c, k, p, a)
        PROVE  OnlyInserts
    BY <2>2 DEF OtherRefund, OnlyInserts
  <2> QED BY <1>3, <2>1, <2>2 DEF OutsideStep, OnlyInserts
<1>4. CASE Fault
  <2>1. ASSUME NEW c \in Calls, RollBack(c) PROVE OnlyInserts
    BY <2>1, HandlersOnlyInsert DEF BillingStep
  <2> QED BY <1>4, <2>1 DEF Fault, CallFails, ServerDies, OnlyInserts
<1>5. CASE UNCHANGED refundVars
  BY <1>5 DEF refundVars, OnlyInserts
<1> QED BY <1>2, <1>3, <1>4, <1>5 DEF RefundNext

(* Whatever confirms run beside each other, expire, fail or are tried again, money moves
   only as the ledger allows. *)
THEOREM RefundsImplementLedger == RefundSpec => ImplementsLedger
<1>1. RefundInit => BillingInit
  BY DEF RefundInit
<1>2. RefundInv => BillingInv
  BY DEF RefundInv
<1> QED BY <1>1, <1>2, LedgerBegins, RefundsOnlyInsert, InsertsPay, RefundInvariant, PTL
        DEF RefundSpec, Ledger!Spec, ImplementsLedger

(* The confirm calls are behaviours of the wrapper: entering, waiting, running, failing and
   expiring are its steps, and what the run does in between is none of them. *)
THEOREM ConfirmsImplementWrapper == RefundSpec => IP!IdemSpec
<1>1. RefundInit => IP!IdemInit
  BY DEF RefundInit, Idem!IdemInit, IP!IdemInit, Idem!NoCall, IP!NoCall
<1>2. RefundInv /\ [RefundNext]_refundVars => [IP!IdemNext]_(IP!idemVars)
  BY WrapperSteps
<1> QED BY <1>1, <1>2, RefundInvariant, PTL DEF RefundSpec, IP!IdemSpec

(* Two confirms of the same refund run at the same time only when one of them outlived its
   lock, and all that are told of success are told of one refund or approval. *)
THEOREM ConfirmsRunAlone == RefundSpec => [](Idem!RunsAlone /\ Idem!OneResult)
<1>1. IP!RunsAlone <=> Idem!RunsAlone
  BY DEF IP!RunsAlone, Idem!RunsAlone
<1>2. IP!OneResult <=> Idem!OneResult
  BY DEF IP!OneResult, Idem!OneResult, IP!Success, Idem!Success
<1>3. IP!IdemSpec => []IP!RunsAlone
  BY OutcomesAreNotNone, IP!AlwaysRunsAlone
<1>4. IP!IdemSpec => []IP!OneResult
  BY OutcomesAreNotNone, IP!AlwaysOneResult
<1> QED BY <1>1, <1>2, <1>3, <1>4, ConfirmsImplementWrapper, PTL

=============================================================================
