--------------------------- MODULE ApprovalsProofs ---------------------------
(***************************************************************************)
(* Proofs about Approvals.tla for every set of approvals, users, policies, *)
(* payments and concurrent calls, on top of the proofs about Billing.tla.  *)
(*                                                                         *)
(* The inductive invariant follows an approval from the desk to billing.   *)
(* While its row is locked it stays pending; a call past the approval      *)
(* finds it approved or executed, which is never undone; and so does every *)
(* request for its key, whoever sent it and whether or not anybody still   *)
(* waits for the answer.                                                   *)
(*                                                                         *)
(* What approve() posts stays tied to its approval by the call that posted *)
(* it, which is how one refund per key comes to one per approval.          *)
(* Composed with the desk, billing still implements its ledger.            *)
(***************************************************************************)
EXTENDS Approvals, BillingProofs, FiniteSetTheorems

Standing(a) == approvals[a].status \in {"approved", "executed"}

(* A call that decides a row holds its lock, the row is pending, and the caller is
   not the one who asked. *)
DecidesLocked ==
    \A c \in Calls :
       desk[c].pc \in {"check", "mark"} =>
          /\ rowLock[desk[c].ref] = c
          /\ RowOf(c).status = "pending"
          /\ RowOf(c).requestedBy # desk[c].user

(* Past the decision, the approval stands. *)
ExecutesStanding ==
    \A c \in Calls :
       desk[c].pc \in {"recheck", "noting", "post", "posted", "finish"} =>
          Standing(desk[c].ref)

(* The re-check picked a payment. *)
HasPayment == \A c \in Calls : desk[c].pc = "post" => desk[c].payment \in Payments

(* Who decided, and what was executed, is on the row exactly when it should be. *)
RowsConsistent ==
    \A a \in ApprovalRefs :
       /\ Standing(a) => approvals[a].decidedBy \in Users \ {approvals[a].requestedBy}
       /\ approvals[a].status \in {"none", "pending", "expired"} =>
             approvals[a].decidedBy = None
       /\ approvals[a].refundRef # None => approvals[a].status = "executed"

(* Requests under an approval's key are for its amount, and it stands. *)
PostedStanding ==
    \A c \in Calls, a \in ApprovalRefs :
       http[c].pc # "idle" /\ http[c].key = ApprovalKey[a] =>
          Standing(a) /\ http[c].amount = approvals[a].amount

(* What a call waits for, or was told of, is the refund of its own approval. *)
AwaitsOwn ==
    \A c \in Calls :
       /\ desk[c].pc \in {"posted", "finish"} =>
             http[c].pc # "idle" /\ http[c].key = ApprovalKey[desk[c].ref]
       /\ desk[c].pc = "finish" =>
             http[c].pc = "done" /\ http[c].reply \in {"created", "replayed"}

ApprovalInv ==
    /\ TypeOK
    /\ DecidesLocked
    /\ ExecutesStanding
    /\ HasPayment
    /\ RowsConsistent
    /\ PostedStanding
    /\ AwaitsOwn
    /\ OnlyApprovedRefunded
    /\ ExecutedIsPaid

IInv == BillingInv /\ AnswerTruthful /\ ApprovalInv

LEMMA InitInv == Init => IInv
<1> SUFFICES ASSUME Init
             PROVE  IInv
  OBVIOUS
<1>1. BillingInv /\ AnswerTruthful
  BY BillingInitInv DEF Init, BillingInit, AnswerTruthful, NoRequest
<1>2. TypeOK
  BY <1>1, EvaluatorAssumption
     DEF Init, TypeOK, BillingInv, EvaluatorInit, EvaluatorTypeOK, ApprovalsTypeOK, Approval,
         NoApproval, Desk, NoDesk, Decided
<1>3. /\ DecidesLocked /\ ExecutesStanding /\ HasPayment /\ RowsConsistent
      /\ PostedStanding /\ AwaitsOwn /\ OnlyApprovedRefunded /\ ExecutedIsPaid
  BY DEF Init, BillingInit, NoRequest, NoApproval, NoDesk, DecidesLocked, ExecutesStanding,
         HasPayment, RowsConsistent, PostedStanding, AwaitsOwn, OnlyApprovedRefunded,
         ExecutedIsPaid, Paid, Under, Standing
<1> QED BY <1>1, <1>2, <1>3 DEF IInv, ApprovalInv

-----------------------------------------------------------------------------
(* Billing's steps: what the desk may rely on across them. *)

LEMMA BillingEffect ==
    ASSUME BillingTypeOK, NEW c \in Calls, BillingStep(c)
    PROVE  /\ \A d \in Calls : /\ http'[d].key = http[d].key
                               /\ http'[d].amount = http[d].amount
                               /\ http[d].pc # "idle" <=> http'[d].pc # "idle"
                               /\ http[d].pc = "done" => http'[d] = http[d]
           /\ refunds \subseteq refunds'
           /\ \A r \in refunds' \ refunds : /\ http[c].pc # "idle"
                                            /\ r.ref = c
                                            /\ r.key = http[c].key
                                            /\ r.amount = http[c].amount
<1> USE DEF BillingTypeOK, Request
<1>1. CASE LookUp(c) \/ ReplayRaced(c)
  <2>1. CASE Replay(c)
    BY <1>1, <2>1 DEF LookUp, ReplayRaced, Replay, Answer
  <2>2. CASE http[c].pc = "received" /\ Goto(c, "open") /\ UNCHANGED <<refunds, payLock>>
    BY <2>2 DEF Goto
  <2> QED BY <1>1, <2>1, <2>2 DEF LookUp, ReplayRaced
<1>2. CASE LockPayment(c)
  BY <1>2 DEF LockPayment, Goto, Answer
<1>3. CASE SumRefunds(c)
  BY <1>3 DEF SumRefunds, Goto, Answer
<1>4. CASE InsertRefund(c)
  BY <1>4 DEF InsertRefund, NewRow, Goto, Answer
<1>5. CASE RollBack(c)
  BY <1>5 DEF RollBack, Answer
<1> QED BY <1>1, <1>2, <1>3, <1>4, <1>5 DEF BillingStep, HandlerStep

LEMMA BillingKeeps ==
    ASSUME IInv, NEW c \in Calls, BillingStep(c), UNCHANGED <<evaluatorVars, approvalVars>>
    PROVE  IInv'
<1>1. BillingInv' /\ AnswerTruthful'
  BY BillingStepInv, AnswerStep DEF IInv
<1> USE DEF IInv, ApprovalInv
<1>2. TypeOK'
  BY <1>1 DEF TypeOK, BillingInv, EvaluatorTypeOK, ApprovalsTypeOK, evaluatorVars, approvalVars
<1>3. /\ \A d \in Calls : /\ http'[d].key = http[d].key
                          /\ http'[d].amount = http[d].amount
                          /\ http[d].pc # "idle" <=> http'[d].pc # "idle"
                          /\ http[d].pc = "done" => http'[d] = http[d]
      /\ refunds \subseteq refunds'
      /\ \A r \in refunds' \ refunds : /\ http[c].pc # "idle"
                                       /\ r.key = http[c].key
                                       /\ r.amount = http[c].amount
  BY BillingEffect DEF BillingInv
<1>4. DecidesLocked' /\ ExecutesStanding' /\ HasPayment' /\ RowsConsistent'
  BY DEF DecidesLocked, ExecutesStanding, HasPayment, RowsConsistent, Standing, RowOf,
         approvalVars
<1>5. PostedStanding' /\ AwaitsOwn'
  BY <1>3 DEF PostedStanding, AwaitsOwn, Standing, approvalVars
<1>6. OnlyApprovedRefunded'
  BY <1>3 DEF OnlyApprovedRefunded, PostedStanding, RowsConsistent, Standing, Paid, Under,
              approvalVars
<1>7. ExecutedIsPaid'
  BY <1>3 DEF ExecutedIsPaid, Paid, Under, approvalVars
<1> QED BY <1>1, <1>2, <1>4, <1>5, <1>6, <1>7

-----------------------------------------------------------------------------
(* The desk's steps: what they do to the calls. *)

DeskSteps == {"lock", "check", "mark", "recheck", "noting", "post", "posted", "finish"}

LEMMA StepMoves ==
    ASSUME ApprovalsTypeOK, NEW c \in Calls, NEW pc \in DeskSteps, Step(c, pc)
    PROVE  /\ desk' \in [Calls -> Desk]
           /\ \A d \in Calls \ {c} : desk'[d] = desk[d]
           /\ desk'[c].pc = pc /\ desk'[c].user = desk[c].user /\ desk'[c].ref = desk[c].ref
           /\ desk'[c].policy = desk[c].policy /\ desk'[c].payment = desk[c].payment
<1>1. desk[c] \in Desk
  BY DEF ApprovalsTypeOK
<1>2. [desk[c] EXCEPT !.pc = pc] \in Desk
  BY <1>1 DEF Desk, DeskSteps
<1> QED BY <1>1, <1>2 DEF Step, ApprovalsTypeOK, Desk

LEMMA EndMoves ==
    ASSUME ApprovalsTypeOK, NEW c \in Calls,
           NEW result \in {"none", "executed", "not_executed", "failed"}, End(c, result)
    PROVE  /\ desk' \in [Calls -> Desk]
           /\ \A d \in Calls \ {c} : desk'[d] = desk[d]
           /\ desk'[c].pc = "done" /\ desk'[c].ref = desk[c].ref
<1>1. desk[c] \in Desk
  BY DEF ApprovalsTypeOK
<1>2. [NoDesk EXCEPT !.pc = "done", !.ref = desk[c].ref, !.result = result] \in Desk
  BY <1>1 DEF Desk, NoDesk
<1>3. /\ [NoDesk EXCEPT !.pc = "done", !.ref = desk[c].ref, !.result = result].pc = "done"
      /\ [NoDesk EXCEPT !.pc = "done", !.ref = desk[c].ref, !.result = result].ref = desk[c].ref
  BY DEF NoDesk
<1> QED BY <1>2, <1>3 DEF End, ApprovalsTypeOK

(* Steps that leave billing alone. *)
LEMMA BillingUntouched ==
    ASSUME IInv, UNCHANGED billingVars
    PROVE  BillingInv' /\ AnswerTruthful'
<1>1. BillingInv /\ UNCHANGED refunds
  BY DEF IInv, billingVars
<1>2. /\ RowsTyped' /\ NoOverRefund' /\ OneRefundPerKey'
      /\ \A p \in Payments : Left(p)' = Left(p)
  BY <1>1, SumsKeep
<1>3. BillingInv'
  BY <1>1, <1>2 DEF billingVars, BillingInv, BillingTypeOK, HoldsLock, StillFits
<1>4. AnswerTruthful'
  BY DEF IInv, billingVars, AnswerTruthful, Under
<1> QED BY <1>3, <1>4

(* A call ends, letting go of at most the locks it holds, and writes nothing. *)
LEMMA EndKeeps ==
    ASSUME IInv, NEW c \in Calls,
           NEW result \in {"none", "executed", "not_executed", "failed"}, End(c, result),
           rowLock' \in [ApprovalRefs -> Calls \cup {None}],
           \A a \in ApprovalRefs : rowLock'[a] = rowLock[a] \/ rowLock[a] = c,
           UNCHANGED <<approvals, due, billingVars, evaluatorVars>>
    PROVE  IInv'
<1> USE DEF IInv, ApprovalInv
<1>1. BillingInv' /\ AnswerTruthful'
  BY BillingUntouched
<1>2. /\ desk' \in [Calls -> Desk]
      /\ \A d \in Calls \ {c} : desk'[d] = desk[d]
      /\ desk'[c].pc = "done"
  BY EndMoves DEF TypeOK
<1>3. TypeOK'
  BY <1>1, <1>2 DEF TypeOK, BillingInv, EvaluatorTypeOK, ApprovalsTypeOK, evaluatorVars
<1>4. DecidesLocked'
  <2>1. \A d \in Calls : desk[d].pc # "idle" /\ desk[d].pc # "done" => desk[d].ref \in ApprovalRefs
    BY DEF TypeOK, ApprovalsTypeOK
  <2> QED BY <1>2, <2>1 DEF DecidesLocked, RowOf
<1>5. ExecutesStanding' /\ HasPayment' /\ RowsConsistent'
  BY <1>2 DEF ExecutesStanding, HasPayment, RowsConsistent, Standing
<1>6. PostedStanding' /\ AwaitsOwn' /\ OnlyApprovedRefunded' /\ ExecutedIsPaid'
  BY <1>2 DEF PostedStanding, AwaitsOwn, OnlyApprovedRefunded, ExecutedIsPaid, Standing, Paid,
              Under, billingVars
<1> QED BY <1>1, <1>3, <1>4, <1>5, <1>6

(* A call moves on and writes nothing: the parts of the invariant that do not speak of
   where it stands. *)
LEMMA StepKeeps ==
    ASSUME IInv, NEW c \in Calls, NEW pc \in DeskSteps, Step(c, pc),
           desk[c].pc \in DeskSteps,
           rowLock' \in [ApprovalRefs -> Calls \cup {None}],
           UNCHANGED <<approvals, due, billingVars, evaluatorVars>>
    PROVE  /\ BillingInv' /\ AnswerTruthful' /\ TypeOK'
           /\ RowsConsistent' /\ PostedStanding' /\ OnlyApprovedRefunded' /\ ExecutedIsPaid'
<1> USE DEF IInv, ApprovalInv
<1>1. BillingInv' /\ AnswerTruthful'
  BY BillingUntouched
<1>2. TypeOK'
  <2>1. desk[c].pc \notin {"idle", "done"}
    BY DEF DeskSteps
  <2>2. ApprovalsTypeOK
    BY DEF TypeOK
  <2>3. ApprovalsTypeOK'
    BY <2>1, <2>2, StepMoves DEF ApprovalsTypeOK
  <2> QED BY <1>1, <2>3 DEF TypeOK, BillingInv, EvaluatorTypeOK, evaluatorVars
<1>3. RowsConsistent' /\ PostedStanding' /\ OnlyApprovedRefunded' /\ ExecutedIsPaid'
  BY DEF RowsConsistent, PostedStanding, OnlyApprovedRefunded, ExecutedIsPaid, Standing, Paid,
         Under, billingVars
<1> QED BY <1>1, <1>2, <1>3

-----------------------------------------------------------------------------
(* One lemma per step of approve(). *)

LEMMA LockRowKeeps ==
    ASSUME IInv, NEW c \in Calls, LockRow(c)
    PROVE  IInv'
<1> DEFINE a == desk[c].ref
<1>1. /\ ApprovalsTypeOK /\ desk[c].pc = "lock" /\ rowLock[a] = None
      /\ UNCHANGED <<approvals, due, billingVars, evaluatorVars>>
  BY DEF IInv, ApprovalInv, TypeOK, LockRow
<1>2. a \in ApprovalRefs /\ desk[c].pc \in DeskSteps
  BY <1>1 DEF ApprovalsTypeOK, DeskSteps
<1>3. CASE End(c, "failed") /\ UNCHANGED rowLock
  BY <1>1, <1>3, EndKeeps DEF ApprovalsTypeOK
<1>4. CASE Unexecuted(RowOf(c)) /\ Step(c, "recheck") /\ UNCHANGED rowLock
  <2>1. /\ BillingInv' /\ AnswerTruthful' /\ TypeOK'
        /\ RowsConsistent' /\ PostedStanding' /\ OnlyApprovedRefunded' /\ ExecutedIsPaid'
    BY <1>1, <1>2, <1>4, StepKeeps DEF ApprovalsTypeOK, DeskSteps
  <2>2. /\ \A d \in Calls \ {c} : desk'[d] = desk[d]
        /\ desk'[c].pc = "recheck" /\ desk'[c].ref = desk[c].ref
    BY <1>1, <1>4, StepMoves DEF DeskSteps
  <2>3. DecidesLocked' /\ HasPayment'
    BY <1>1, <1>4, <2>2 DEF IInv, ApprovalInv, DecidesLocked, HasPayment, RowOf
  <2>4. ExecutesStanding'
    BY <1>1, <1>4, <2>2
       DEF IInv, ApprovalInv, ExecutesStanding, Standing, Unexecuted, RowOf
  <2>5. AwaitsOwn'
    BY <1>1, <2>2 DEF IInv, ApprovalInv, AwaitsOwn, billingVars
  <2> QED BY <2>1, <2>3, <2>4, <2>5 DEF IInv, ApprovalInv
<1>5. CASE /\ RowOf(c).status = "pending" /\ Step(c, "check") /\ Take(a, c)
           /\ ~ WhyCannotDecide(desk[c].user, desk[c].policy, RowOf(c))
  <2>1. /\ BillingInv' /\ AnswerTruthful' /\ TypeOK'
        /\ RowsConsistent' /\ PostedStanding' /\ OnlyApprovedRefunded' /\ ExecutedIsPaid'
    BY <1>1, <1>2, <1>5, StepKeeps DEF ApprovalsTypeOK, DeskSteps, Take
  <2>2. /\ \A d \in Calls \ {c} : desk'[d] = desk[d]
        /\ desk'[c].pc = "check" /\ desk'[c].ref = desk[c].ref /\ desk'[c].user = desk[c].user
    BY <1>1, <1>5, StepMoves DEF DeskSteps
  <2>3. DecidesLocked'
    <3>1. rowLock'[a] = c
      BY <1>1, <1>2, <1>5 DEF Take, ApprovalsTypeOK
    <3>2. RowOf(c).requestedBy # desk[c].user
      BY <1>5 DEF WhyCannotDecide
    <3>3. \A d \in Calls \ {c} : desk[d].pc \in {"check", "mark"} => desk[d].ref # a
      BY <1>1, BillingAssumption DEF IInv, ApprovalInv, DecidesLocked
    <3>4. \A b \in ApprovalRefs \ {a} : rowLock'[b] = rowLock[b]
      BY <1>5 DEF Take, ApprovalsTypeOK
    <3>5. \A d \in Calls \ {c} : desk[d].pc \in {"check", "mark"} => rowLock'[desk[d].ref] = d
      BY <1>1, <3>3, <3>4 DEF IInv, ApprovalInv, DecidesLocked, ApprovalsTypeOK
    <3> QED
      BY <1>1, <1>5, <2>2, <3>1, <3>2, <3>5 DEF IInv, ApprovalInv, DecidesLocked, RowOf
  <2>4. ExecutesStanding' /\ HasPayment'
    BY <1>1, <2>2 DEF IInv, ApprovalInv, ExecutesStanding, HasPayment, Standing
  <2>5. AwaitsOwn'
    BY <1>1, <2>2 DEF IInv, ApprovalInv, AwaitsOwn, billingVars
  <2> QED BY <2>1, <2>3, <2>4, <2>5 DEF IInv, ApprovalInv
<1> QED BY <1>3, <1>4, <1>5 DEF LockRow

LEMMA CheckLockedKeeps ==
    ASSUME IInv, NEW c \in Calls, CheckLocked(c)
    PROVE  IInv'
<1>1. /\ ApprovalsTypeOK /\ desk[c].pc = "check" /\ rowLock[desk[c].ref] = c
      /\ UNCHANGED <<approvals, due, billingVars, evaluatorVars>>
  BY DEF IInv, ApprovalInv, TypeOK, DecidesLocked, CheckLocked
<1>2. CASE End(c, "failed") /\ Free(desk[c].ref)
  <2>1. rowLock' \in [ApprovalRefs -> Calls \cup {None}]
    BY <1>1, <1>2 DEF Free, ApprovalsTypeOK
  <2>2. \A a \in ApprovalRefs : rowLock'[a] = rowLock[a] \/ rowLock[a] = c
    BY <1>1, <1>2 DEF Free, ApprovalsTypeOK
  <2> QED BY <1>1, <1>2, <2>1, <2>2, EndKeeps
<1>3. CASE Step(c, "mark") /\ UNCHANGED rowLock
  <2>1. /\ BillingInv' /\ AnswerTruthful' /\ TypeOK'
        /\ RowsConsistent' /\ PostedStanding' /\ OnlyApprovedRefunded' /\ ExecutedIsPaid'
    BY <1>1, <1>3, StepKeeps DEF ApprovalsTypeOK, DeskSteps
  <2>2. /\ \A d \in Calls \ {c} : desk'[d] = desk[d]
        /\ desk'[c].pc = "mark" /\ desk'[c].ref = desk[c].ref /\ desk'[c].user = desk[c].user
    BY <1>1, <1>3, StepMoves DEF DeskSteps
  <2>3. DecidesLocked' /\ ExecutesStanding' /\ HasPayment'
    BY <1>1, <1>3, <2>2
       DEF IInv, ApprovalInv, DecidesLocked, ExecutesStanding, HasPayment, Standing, RowOf
  <2>4. AwaitsOwn'
    BY <1>1, <2>2 DEF IInv, ApprovalInv, AwaitsOwn, billingVars
  <2> QED BY <2>1, <2>3, <2>4 DEF IInv, ApprovalInv
<1> QED BY <1>2, <1>3 DEF CheckLocked

LEMMA MarkApprovedKeeps ==
    ASSUME IInv, NEW c \in Calls, MarkApproved(c)
    PROVE  IInv'
<1> DEFINE a == desk[c].ref
<1>1. /\ TypeOK /\ ApprovalsTypeOK /\ desk[c].pc = "mark" /\ rowLock[a] = c
      /\ approvals[a].status = "pending" /\ approvals[a].requestedBy # desk[c].user
      /\ UNCHANGED <<due, billingVars, evaluatorVars>>
  BY DEF IInv, ApprovalInv, TypeOK, DecidesLocked, MarkApproved, RowOf
<1>2. a \in ApprovalRefs /\ desk[c].user \in Users /\ approvals[a] \in Approval
  BY <1>1 DEF ApprovalsTypeOK
<1>3. BillingInv' /\ AnswerTruthful'
  BY <1>1, BillingUntouched
<1>4. /\ desk' \in [Calls -> Desk]
      /\ \A d \in Calls \ {c} : desk'[d] = desk[d]
      /\ desk'[c].pc = "recheck" /\ desk'[c].user = desk[c].user /\ desk'[c].ref = desk[c].ref
      /\ desk'[c].policy = desk[c].policy
  BY <1>1, StepMoves DEF MarkApproved, DeskSteps
<1>5. /\ approvals' \in [ApprovalRefs -> Approval]
      /\ \A b \in ApprovalRefs \ {a} : approvals'[b] = approvals[b]
      /\ approvals'[a].status = "approved" /\ approvals'[a].decidedBy = desk[c].user
      /\ approvals'[a].requestedBy = approvals[a].requestedBy
      /\ approvals'[a].amount = approvals[a].amount
      /\ approvals'[a].refundRef = approvals[a].refundRef
  <2>1. [approvals[a] EXCEPT !.status = "approved", !.decidedBy = desk[c].user, !.note = "given"]
          \in Approval
    BY <1>2 DEF Approval, Decided
  <2> QED BY <1>1, <1>2, <2>1 DEF MarkApproved, ApprovalsTypeOK, Approval
<1>6. /\ rowLock' \in [ApprovalRefs -> Calls \cup {None}]
      /\ \A b \in ApprovalRefs \ {a} : rowLock'[b] = rowLock[b]
  BY <1>1, <1>2 DEF MarkApproved, Free, ApprovalsTypeOK
<1>7. TypeOK'
  <2>1. ApprovalsTypeOK'
    BY <1>1, <1>4, <1>5, <1>6 DEF ApprovalsTypeOK
  <2> QED BY <1>1, <1>3, <2>1 DEF TypeOK, BillingInv, EvaluatorTypeOK, evaluatorVars
<1>8. DecidesLocked'
  <2>1. \A d \in Calls \ {c} : desk[d].pc \in {"check", "mark"} => desk[d].ref \in ApprovalRefs \ {a}
    BY <1>1 DEF IInv, ApprovalInv, DecidesLocked, ApprovalsTypeOK
  <2> QED BY <2>1, <1>4, <1>5, <1>6 DEF IInv, ApprovalInv, DecidesLocked, RowOf
<1>9. ExecutesStanding' /\ HasPayment'
  <2>1. \A b \in ApprovalRefs : Standing(b) => Standing(b)'
    BY <1>5 DEF Standing
  <2>2. \A d \in Calls : desk[d].pc \notin {"idle", "done"} => desk[d].ref \in ApprovalRefs
    BY <1>1 DEF ApprovalsTypeOK
  <2> QED BY <1>4, <1>5, <2>1, <2>2 DEF IInv, ApprovalInv, ExecutesStanding, HasPayment, Standing
<1>10. RowsConsistent'
  BY <1>1, <1>2, <1>5 DEF IInv, ApprovalInv, RowsConsistent, Standing
<1>11. PostedStanding' /\ OnlyApprovedRefunded' /\ ExecutedIsPaid'
  BY <1>1, <1>5 DEF IInv, ApprovalInv, PostedStanding, OnlyApprovedRefunded, ExecutedIsPaid,
                    Standing, Paid, Under, billingVars
<1>12. AwaitsOwn'
  BY <1>1, <1>4 DEF IInv, ApprovalInv, AwaitsOwn, billingVars
<1> QED BY <1>3, <1>7, <1>8, <1>9, <1>10, <1>11, <1>12 DEF IInv, ApprovalInv

LEMMA ChosenIsPayment ==
    ASSUME NEW amount, Candidates(amount) # {}
    PROVE  Chosen(amount) \in Payments
<1>1. Candidates(amount) \in (SUBSET Payments) \ {{}}
  <2>1. Candidates(amount) \subseteq Payments
    BY Zenon DEF Candidates
  <2> QED BY <2>1, Zenon
<1>2. \E p \in Candidates(amount) : \A q \in Candidates(amount) : PaidAt[p] >= PaidAt[q]
  BY <1>1, EvaluatorAssumption
<1>3. Chosen(amount) \in Candidates(amount)
  BY <1>2 DEF Chosen
<1> QED BY <1>1, <1>3

LEMMA RecheckKeeps ==
    ASSUME IInv, NEW c \in Calls, Recheck(c)
    PROVE  IInv'
<1> DEFINE amount == RowOf(c).amount
<1>1. /\ TypeOK /\ ApprovalsTypeOK /\ desk[c].pc = "recheck" /\ desk[c] \in Desk
      /\ UNCHANGED <<approvals, rowLock, due, billingVars, evaluatorVars>>
  BY DEF IInv, ApprovalInv, TypeOK, ApprovalsTypeOK, Recheck
<1>2. /\ desk' \in [Calls -> Desk]
      /\ \A d \in Calls \ {c} : desk'[d] = desk[d]
      /\ desk'[c].ref = desk[c].ref /\ desk'[c].user = desk[c].user
      /\ desk'[c].policy = desk[c].policy
      /\ \/ desk'[c].pc = "noting"
         \/ desk'[c].pc = "post" /\ desk'[c].payment \in Payments
  <2> HIDE DEF amount
  <2>1. CASE \E result \in {"not_executed", "failed"} :
                desk' = [desk EXCEPT ![c].pc = "noting", ![c].result = result]
    <3>1. PICK result \in {"not_executed", "failed"} :
             desk' = [desk EXCEPT ![c] = [desk[c] EXCEPT !.pc = "noting", !.result = result]]
      BY <2>1
    <3>2. [desk[c] EXCEPT !.pc = "noting", !.result = result] \in Desk
      BY <1>1 DEF Desk
    <3> QED BY <1>1, <3>1, <3>2 DEF ApprovalsTypeOK, Desk
  <2>2. CASE /\ ~ Refused(desk[c].policy, amount)
             /\ desk' = [desk EXCEPT ![c].pc = "post", ![c].payment = Chosen(amount)]
    <3>1. Chosen(amount) \in Payments
      BY <2>2, ChosenIsPayment DEF Refused
    <3>2. desk' = [desk EXCEPT ![c] = [desk[c] EXCEPT !.pc = "post", !.payment = Chosen(amount)]]
      BY <2>2
    <3>3. [desk[c] EXCEPT !.pc = "post", !.payment = Chosen(amount)] \in Desk
      BY <1>1, <3>1 DEF Desk
    <3> QED BY <1>1, <3>1, <3>2, <3>3 DEF ApprovalsTypeOK, Desk
  <2> QED BY <2>1, <2>2 DEF Recheck, amount
<1>3. BillingInv' /\ AnswerTruthful'
  BY <1>1, BillingUntouched
<1>4. TypeOK'
  <2>1. ApprovalsTypeOK'
    BY <1>1, <1>2 DEF ApprovalsTypeOK
  <2> QED BY <1>1, <1>3, <2>1 DEF TypeOK, BillingInv, EvaluatorTypeOK, evaluatorVars
<1>5. DecidesLocked' /\ ExecutesStanding' /\ HasPayment'
  BY <1>1, <1>2
     DEF IInv, ApprovalInv, DecidesLocked, ExecutesStanding, HasPayment, Standing, RowOf
<1>6. RowsConsistent' /\ PostedStanding' /\ AwaitsOwn' /\ OnlyApprovedRefunded' /\ ExecutedIsPaid'
  BY <1>1, <1>2
     DEF IInv, ApprovalInv, RowsConsistent, PostedStanding, AwaitsOwn, OnlyApprovedRefunded,
         ExecutedIsPaid, Standing, Paid, Under, billingVars
<1> QED BY <1>3, <1>4, <1>5, <1>6 DEF IInv, ApprovalInv

-----------------------------------------------------------------------------
(* Writes to rows: what stands keeps standing, unchanged but for its execution. *)
LEMMA RowsKeep ==
    ASSUME IInv, ApprovalsTypeOK', UNCHANGED <<billingVars, evaluatorVars>>,
           \A a \in ApprovalRefs :
              /\ Standing(a) => /\ Standing(a)'
                                /\ approvals'[a].amount = approvals[a].amount
                                /\ approvals'[a].decidedBy = approvals[a].decidedBy
                                /\ approvals'[a].requestedBy = approvals[a].requestedBy
              /\ approvals'[a].status = "executed" =>
                    \E r \in Paid(a) : r.ref = approvals'[a].refundRef
    PROVE  /\ BillingInv' /\ AnswerTruthful' /\ TypeOK'
           /\ PostedStanding' /\ OnlyApprovedRefunded' /\ ExecutedIsPaid'
<1> USE DEF IInv, ApprovalInv
<1>1. BillingInv' /\ AnswerTruthful'
  BY BillingUntouched
<1>2. TypeOK'
  BY <1>1 DEF TypeOK, BillingInv, EvaluatorTypeOK, evaluatorVars
<1>3. PostedStanding'
  BY DEF PostedStanding, billingVars
<1>4. OnlyApprovedRefunded' /\ ExecutedIsPaid'
  <2>1. \A a \in ApprovalRefs : Paid(a)' = Paid(a)
    BY DEF Paid, Under, billingVars
  <2> QED BY <2>1 DEF OnlyApprovedRefunded, ExecutedIsPaid, Standing
<1> QED BY <1>1, <1>2, <1>3, <1>4

LEMMA NoteNotExecutedKeeps ==
    ASSUME IInv, NEW c \in Calls, NoteNotExecuted(c)
    PROVE  IInv'
<1> DEFINE a == desk[c].ref
<1>1. /\ ApprovalsTypeOK /\ desk[c].pc = "noting" /\ a \in ApprovalRefs
      /\ desk[c].result \in {"none", "executed", "not_executed", "failed"}
      /\ UNCHANGED <<rowLock, due, billingVars, evaluatorVars>>
  BY DEF IInv, ApprovalInv, TypeOK, ApprovalsTypeOK, Desk, NoteNotExecuted
<1>2. /\ desk' \in [Calls -> Desk] /\ \A d \in Calls \ {c} : desk'[d] = desk[d]
      /\ desk'[c].pc = "done"
  BY <1>1, EndMoves DEF NoteNotExecuted
<1>3. /\ approvals' \in [ApprovalRefs -> Approval]
      /\ \A b \in ApprovalRefs : /\ approvals'[b].status = approvals[b].status
                                 /\ approvals'[b].amount = approvals[b].amount
                                 /\ approvals'[b].requestedBy = approvals[b].requestedBy
                                 /\ approvals'[b].decidedBy = approvals[b].decidedBy
                                 /\ approvals'[b].refundRef = approvals[b].refundRef
  <2>1. [approvals[a] EXCEPT !.note = "not_executed"] \in Approval
    BY <1>1 DEF ApprovalsTypeOK, Approval
  <2> QED BY <1>1, <2>1 DEF NoteNotExecuted, ApprovalsTypeOK, Approval
<1>4. ApprovalsTypeOK'
  BY <1>1, <1>2, <1>3 DEF ApprovalsTypeOK
<1>5. /\ BillingInv' /\ AnswerTruthful' /\ TypeOK'
      /\ PostedStanding' /\ OnlyApprovedRefunded' /\ ExecutedIsPaid'
  BY <1>1, <1>3, <1>4, RowsKeep DEF IInv, ApprovalInv, ExecutedIsPaid, Standing
<1>6. RowsConsistent'
  BY <1>3 DEF IInv, ApprovalInv, RowsConsistent, Standing
<1>7. \A d \in Calls : desk[d].pc \notin {"idle", "done"} => desk[d].ref \in ApprovalRefs
  BY <1>1 DEF ApprovalsTypeOK
<1>8. DecidesLocked' /\ ExecutesStanding' /\ HasPayment'
  BY <1>1, <1>2, <1>3, <1>7
     DEF IInv, ApprovalInv, DecidesLocked, ExecutesStanding, HasPayment, Standing, RowOf
<1>9. AwaitsOwn'
  BY <1>1, <1>2 DEF IInv, ApprovalInv, AwaitsOwn, billingVars
<1> QED BY <1>5, <1>6, <1>8, <1>9 DEF IInv, ApprovalInv

LEMMA MarkExecutedKeeps ==
    ASSUME IInv, NEW c \in Calls, MarkExecuted(c)
    PROVE  IInv'
<1> DEFINE a == desk[c].ref
<1>1. /\ BillingTypeOK /\ ApprovalsTypeOK /\ desk[c].pc = "finish" /\ a \in ApprovalRefs
      /\ rowLock[a] = None
      /\ UNCHANGED <<rowLock, due, billingVars, evaluatorVars>>
  BY DEF IInv, ApprovalInv, TypeOK, ApprovalsTypeOK, MarkExecuted
<1>2. /\ desk' \in [Calls -> Desk] /\ \A d \in Calls \ {c} : desk'[d] = desk[d]
      /\ desk'[c].pc = "done"
  BY <1>1, EndMoves DEF MarkExecuted
<1>3. Standing(a)
  BY <1>1 DEF IInv, ApprovalInv, ExecutesStanding
<1>4. /\ approvals' \in [ApprovalRefs -> Approval]
      /\ \A b \in ApprovalRefs \ {a} : approvals'[b] = approvals[b]
      /\ approvals'[a].status = "executed" /\ approvals'[a].refundRef = http[c].ref
      /\ approvals'[a].requestedBy = approvals[a].requestedBy
      /\ approvals'[a].decidedBy = approvals[a].decidedBy
      /\ approvals'[a].amount = approvals[a].amount
  <2>1. http[c].ref \in Calls \cup {None}
    BY <1>1 DEF BillingTypeOK, Request
  <2>2. approvals[a] \in Approval
    BY <1>1 DEF ApprovalsTypeOK
  <2>3. [approvals[a] EXCEPT !.status = "executed", !.refundRef = http[c].ref] \in Approval
    BY <2>1, <2>2 DEF Approval, Decided
  <2> QED BY <1>1, <2>3 DEF MarkExecuted, ApprovalsTypeOK, Approval
<1>5. \E r \in Paid(a) : r.ref = http[c].ref
  <2>1. [ref |-> http[c].ref, key |-> http[c].key,
         payment |-> http[c].payment, amount |-> http[c].amount] \in refunds
    BY <1>1 DEF IInv, ApprovalInv, AwaitsOwn, AnswerTruthful
  <2>2. http[c].key = ApprovalKey[a]
    BY <1>1 DEF IInv, ApprovalInv, AwaitsOwn
  <2> QED BY <2>1, <2>2 DEF Paid, Under
<1>6. ApprovalsTypeOK'
  <2>1. approvals[a].requestedBy \in Users /\ approvals[a].amount \in Amounts
    BY <1>1, <1>3 DEF ApprovalsTypeOK, Standing
  <2> QED BY <1>1, <1>2, <1>4, <2>1 DEF ApprovalsTypeOK
<1>7. /\ BillingInv' /\ AnswerTruthful' /\ TypeOK'
      /\ PostedStanding' /\ OnlyApprovedRefunded' /\ ExecutedIsPaid'
  <2>1. \A b \in ApprovalRefs :
           /\ Standing(b) => /\ Standing(b)'
                             /\ approvals'[b].amount = approvals[b].amount
                             /\ approvals'[b].decidedBy = approvals[b].decidedBy
                             /\ approvals'[b].requestedBy = approvals[b].requestedBy
           /\ approvals'[b].status = "executed" =>
                 \E r \in Paid(b) : r.ref = approvals'[b].refundRef
    BY <1>4, <1>5 DEF IInv, ApprovalInv, ExecutedIsPaid, Standing
  <2> QED BY <1>1, <1>6, <2>1, RowsKeep
<1>8. RowsConsistent'
  BY <1>3, <1>4 DEF IInv, ApprovalInv, RowsConsistent, Standing
<1>9. \A d \in Calls : desk[d].pc \notin {"idle", "done"} => desk[d].ref \in ApprovalRefs
  BY <1>1 DEF ApprovalsTypeOK
<1>10. DecidesLocked'
  <2>1. \A d \in Calls : desk[d].pc \in {"check", "mark"} => desk[d].ref \in ApprovalRefs \ {a}
    BY <1>1, <1>9, BillingAssumption DEF IInv, ApprovalInv, DecidesLocked
  <2> QED BY <1>1, <1>2, <1>4, <2>1 DEF IInv, ApprovalInv, DecidesLocked, RowOf
<1>11. ExecutesStanding' /\ HasPayment'
  BY <1>2, <1>4, <1>9 DEF IInv, ApprovalInv, ExecutesStanding, HasPayment, Standing
<1>12. AwaitsOwn'
  BY <1>1, <1>2 DEF IInv, ApprovalInv, AwaitsOwn, billingVars
<1> QED BY <1>7, <1>8, <1>10, <1>11, <1>12 DEF IInv, ApprovalInv

-----------------------------------------------------------------------------
(* Talking to billing *)

(* What a request that has just been received brings with it. *)
LEMMA PostMoves ==
    ASSUME BillingTypeOK, NEW c \in Calls, NEW k, NEW p, NEW amount, Post(c, k, p, amount)
    PROVE  /\ \A d \in Calls \ {c} : http'[d] = http[d]
           /\ http[c].pc = "idle" /\ http'[c].pc = "received"
           /\ http'[c].key = k /\ http'[c].amount = amount
BY DEF BillingTypeOK, Post

LEMMA PostRefundKeeps ==
    ASSUME IInv, NEW c \in Calls, PostRefund(c)
    PROVE  IInv'
<1> DEFINE a == desk[c].ref
           amount == RowOf(c).amount
<1>1. /\ BillingInv /\ BillingTypeOK /\ TypeOK /\ ApprovalsTypeOK
      /\ desk[c].pc = "post" /\ a \in ApprovalRefs /\ desk[c].payment \in Payments
      /\ Post(c, ApprovalKey[a], desk[c].payment, amount) /\ Step(c, "posted")
      /\ UNCHANGED <<refunds, payLock, approvals, rowLock, due, evaluatorVars>>
  BY DEF IInv, ApprovalInv, TypeOK, ApprovalsTypeOK, HasPayment, PostRefund
<1>2. Standing(a) /\ amount = approvals[a].amount /\ amount \in Amounts
  BY <1>1 DEF IInv, ApprovalInv, ExecutesStanding, ApprovalsTypeOK, Standing, RowOf
<1>3. ApprovalKey[a] \in Keys
  BY <1>1, ApprovalsAssumption
<1> HIDE DEF amount
<1>4. BillingInv' /\ AnswerTruthful'
  BY <1>1, <1>2, <1>3, BillingPostInv, AnswerPost DEF IInv
<1>5. /\ \A d \in Calls \ {c} : http'[d] = http[d]
      /\ http[c].pc = "idle" /\ http'[c].pc = "received"
      /\ http'[c].key = ApprovalKey[a] /\ http'[c].amount = amount
  BY <1>1, PostMoves
<1>6. /\ desk' \in [Calls -> Desk] /\ \A d \in Calls \ {c} : desk'[d] = desk[d]
      /\ desk'[c].pc = "posted" /\ desk'[c].user = desk[c].user /\ desk'[c].ref = desk[c].ref
      /\ desk'[c].policy = desk[c].policy
  BY <1>1, StepMoves DEF DeskSteps
<1>7. TypeOK'
  <2>1. ApprovalsTypeOK'
    BY <1>1, <1>6 DEF ApprovalsTypeOK
  <2> QED BY <1>1, <1>4, <2>1 DEF TypeOK, BillingInv, EvaluatorTypeOK, evaluatorVars
<1>8. DecidesLocked' /\ ExecutesStanding' /\ HasPayment' /\ RowsConsistent'
  BY <1>1, <1>6 DEF IInv, ApprovalInv, DecidesLocked, ExecutesStanding, HasPayment,
                    RowsConsistent, Standing, RowOf
<1>9. PostedStanding'
  <2>1. \A b \in ApprovalRefs : ApprovalKey[b] = ApprovalKey[a] => b = a
    BY <1>1, ApprovalsAssumption
  <2> QED BY <1>1, <1>2, <1>5, <2>1 DEF IInv, ApprovalInv, PostedStanding, Standing
<1>10. AwaitsOwn'
  BY <1>1, <1>5, <1>6 DEF IInv, ApprovalInv, AwaitsOwn
<1>11. OnlyApprovedRefunded' /\ ExecutedIsPaid'
  BY <1>1 DEF IInv, ApprovalInv, OnlyApprovedRefunded, ExecutedIsPaid, Paid, Under
<1> QED BY <1>4, <1>7, <1>8, <1>9, <1>10, <1>11 DEF IInv, ApprovalInv

LEMMA ReceiveAnswerKeeps ==
    ASSUME IInv, NEW c \in Calls, ReceiveAnswer(c)
    PROVE  IInv'
<1>1. /\ ApprovalsTypeOK /\ desk[c].pc = "posted" /\ http[c].pc = "done"
      /\ UNCHANGED <<approvals, rowLock, due, billingVars, evaluatorVars>>
  BY DEF IInv, ApprovalInv, TypeOK, ReceiveAnswer
<1>2. CASE End(c, "failed")
  BY <1>1, <1>2, EndKeeps DEF ApprovalsTypeOK
<1>3. CASE http[c].reply \in {"created", "replayed"} /\ Step(c, "finish")
  <2>1. /\ BillingInv' /\ AnswerTruthful' /\ TypeOK'
        /\ RowsConsistent' /\ PostedStanding' /\ OnlyApprovedRefunded' /\ ExecutedIsPaid'
    BY <1>1, <1>3, StepKeeps DEF ApprovalsTypeOK, DeskSteps
  <2>2. /\ \A d \in Calls \ {c} : desk'[d] = desk[d]
        /\ desk'[c].pc = "finish" /\ desk'[c].ref = desk[c].ref
    BY <1>1, <1>3, StepMoves DEF DeskSteps
  <2>3. DecidesLocked' /\ ExecutesStanding' /\ HasPayment'
    BY <1>1, <2>2
       DEF IInv, ApprovalInv, DecidesLocked, ExecutesStanding, HasPayment, Standing, RowOf
  <2>4. AwaitsOwn'
    BY <1>1, <1>3, <2>2 DEF IInv, ApprovalInv, AwaitsOwn, billingVars
  <2> QED BY <2>1, <2>3, <2>4 DEF IInv, ApprovalInv
<1> QED BY <1>2, <1>3 DEF ReceiveAnswer

LEMMA TimeOutKeeps ==
    ASSUME IInv, NEW c \in Calls, TimeOut(c)
    PROVE  IInv'
BY EndKeeps DEF TimeOut, IInv, ApprovalInv, TypeOK, ApprovalsTypeOK

LEMMA CrashKeeps ==
    ASSUME IInv, NEW c \in Calls, Crash(c)
    PROVE  IInv'
<1>1. rowLock \in [ApprovalRefs -> Calls \cup {None}]
  BY DEF IInv, ApprovalInv, TypeOK, ApprovalsTypeOK
<1>2. /\ rowLock' \in [ApprovalRefs -> Calls \cup {None}]
      /\ \A a \in ApprovalRefs : rowLock'[a] = rowLock[a] \/ rowLock[a] = c
  BY <1>1 DEF Crash
<1> QED BY <1>2, EndKeeps DEF Crash

LEMMA DirectRefundKeeps ==
    ASSUME IInv, NEW c \in Calls, NEW k \in Keys, NEW p \in Payments,
           NEW amount \in OtherAmounts, DirectRefund(c, k, p, amount)
    PROVE  IInv'
<1>1. /\ BillingInv /\ BillingTypeOK /\ TypeOK /\ desk[c].pc = "idle" /\ amount \in Amounts
      /\ \A a \in ApprovalRefs : ApprovalKey[a] # k
      /\ Post(c, k, p, amount)
      /\ UNCHANGED <<refunds, payLock, evaluatorVars, approvalVars>>
  BY ApprovalsAssumption DEF IInv, ApprovalInv, TypeOK, DirectRefund
<1>2. BillingInv' /\ AnswerTruthful'
  BY <1>1, BillingPostInv, AnswerPost DEF IInv
<1>3. /\ \A d \in Calls \ {c} : http'[d] = http[d]
      /\ http[c].pc = "idle" /\ http'[c].pc = "received" /\ http'[c].key = k
  BY <1>1, PostMoves
<1>4. TypeOK'
  BY <1>1, <1>2 DEF TypeOK, BillingInv, EvaluatorTypeOK, ApprovalsTypeOK, evaluatorVars, approvalVars
<1>5. DecidesLocked' /\ ExecutesStanding' /\ HasPayment' /\ RowsConsistent'
  BY <1>1 DEF IInv, ApprovalInv, DecidesLocked, ExecutesStanding, HasPayment, RowsConsistent,
              Standing, RowOf, approvalVars
<1>6. PostedStanding' /\ AwaitsOwn'
  BY <1>1, <1>3 DEF IInv, ApprovalInv, PostedStanding, AwaitsOwn, Standing, approvalVars
<1>7. OnlyApprovedRefunded' /\ ExecutedIsPaid'
  BY <1>1 DEF IInv, ApprovalInv, OnlyApprovedRefunded, ExecutedIsPaid, Paid, Under, approvalVars
<1> QED BY <1>2, <1>4, <1>5, <1>6, <1>7 DEF IInv, ApprovalInv

-----------------------------------------------------------------------------
(* Rows written by others than approve() *)

(* A row that is neither locked nor standing is written: nobody was relying on it. *)
LEMMA LooseRowsKeep ==
    ASSUME IInv, ApprovalsTypeOK', RowsConsistent',
           UNCHANGED <<rowLock, desk, billingVars, evaluatorVars>>,
           \A a \in ApprovalRefs :
              \/ approvals'[a] = approvals[a]
              \/ rowLock[a] = None /\ ~ Standing(a) /\ approvals'[a].status # "executed"
    PROVE  IInv'
<1>1. ApprovalsTypeOK
  BY DEF IInv, ApprovalInv, TypeOK
<1>2. /\ BillingInv' /\ AnswerTruthful' /\ TypeOK'
      /\ PostedStanding' /\ OnlyApprovedRefunded' /\ ExecutedIsPaid'
  <2>1. \A a \in ApprovalRefs :
           /\ Standing(a) => /\ Standing(a)'
                             /\ approvals'[a].amount = approvals[a].amount
                             /\ approvals'[a].decidedBy = approvals[a].decidedBy
                             /\ approvals'[a].requestedBy = approvals[a].requestedBy
           /\ approvals'[a].status = "executed" =>
                 \E r \in Paid(a) : r.ref = approvals'[a].refundRef
    BY DEF IInv, ApprovalInv, ExecutedIsPaid, Standing
  <2> QED BY <2>1, RowsKeep
<1>3. \A d \in Calls : desk[d].pc \notin {"idle", "done"} => desk[d].ref \in ApprovalRefs
  BY <1>1 DEF ApprovalsTypeOK
<1>4. DecidesLocked'
  <2>1. \A d \in Calls : desk[d].pc \in {"check", "mark"} =>
           approvals'[desk[d].ref] = approvals[desk[d].ref]
    BY <1>3, BillingAssumption DEF IInv, ApprovalInv, DecidesLocked
  <2> QED BY <2>1 DEF IInv, ApprovalInv, DecidesLocked, RowOf
<1>5. ExecutesStanding' /\ HasPayment' /\ AwaitsOwn'
  BY <1>3 DEF IInv, ApprovalInv, ExecutesStanding, HasPayment, AwaitsOwn, Standing, billingVars
<1> QED BY <1>2, <1>4, <1>5 DEF IInv, ApprovalInv

LEMMA RequestApprovalKeeps ==
    ASSUME IInv, NEW a \in ApprovalRefs, NEW u \in Users, NEW amount \in Amounts,
           RequestApproval(a, u, amount)
    PROVE  IInv'
<1> DEFINE row == [NoApproval EXCEPT !.status = "pending", !.requestedBy = u, !.amount = amount]
<1>1. /\ ApprovalsTypeOK /\ approvals[a].status = "none"
      /\ UNCHANGED <<rowLock, due, desk, billingVars, evaluatorVars>>
  BY DEF IInv, ApprovalInv, TypeOK, RequestApproval
<1>2. /\ row \in Approval /\ row.status = "pending" /\ row.requestedBy = u
      /\ row.amount = amount /\ row.decidedBy = None /\ row.refundRef = None
  BY DEF Approval, NoApproval, Decided
<1>3. approvals' = [approvals EXCEPT ![a] = row]
  BY DEF RequestApproval
<1> HIDE DEF row
<1>4. ApprovalsTypeOK'
  BY <1>1, <1>2, <1>3 DEF ApprovalsTypeOK
<1>5. RowsConsistent'
  BY <1>1, <1>2, <1>3 DEF IInv, ApprovalInv, RowsConsistent, Standing, ApprovalsTypeOK
<1>6. DecidesLocked' /\ ExecutesStanding' /\ HasPayment' /\ AwaitsOwn'
  <2>1. \A d \in Calls : desk[d].pc \notin {"idle", "done"} => desk[d].ref \in ApprovalRefs
    BY <1>1 DEF ApprovalsTypeOK
  <2>2. \A b \in ApprovalRefs : approvals[b].status # "none" => approvals'[b] = approvals[b]
    BY <1>1, <1>3 DEF ApprovalsTypeOK
  <2> QED BY <1>1, <2>1, <2>2 DEF IInv, ApprovalInv, DecidesLocked, ExecutesStanding, HasPayment,
                                  AwaitsOwn, Standing, RowOf, billingVars
<1>7. /\ BillingInv' /\ AnswerTruthful' /\ TypeOK'
      /\ PostedStanding' /\ OnlyApprovedRefunded' /\ ExecutedIsPaid'
  <2>1. \A b \in ApprovalRefs :
           /\ Standing(b) => /\ Standing(b)'
                             /\ approvals'[b].amount = approvals[b].amount
                             /\ approvals'[b].decidedBy = approvals[b].decidedBy
                             /\ approvals'[b].requestedBy = approvals[b].requestedBy
           /\ approvals'[b].status = "executed" =>
                 \E r \in Paid(b) : r.ref = approvals'[b].refundRef
    BY <1>1, <1>2, <1>3 DEF IInv, ApprovalInv, ExecutedIsPaid, Standing, ApprovalsTypeOK
  <2> QED BY <1>1, <1>4, <2>1, RowsKeep
<1> QED BY <1>5, <1>6, <1>7 DEF IInv, ApprovalInv

LEMMA RejectKeeps ==
    ASSUME IInv, NEW a \in ApprovalRefs, NEW u \in Users, NEW pol, Reject(u, pol, a)
    PROVE  IInv'
<1> DEFINE row == [approvals[a] EXCEPT !.status = "rejected", !.decidedBy = u, !.note = "given"]
<1>1. /\ ApprovalsTypeOK /\ approvals[a] \in Approval /\ approvals[a].status = "pending"
      /\ rowLock[a] = None
      /\ UNCHANGED <<rowLock, due, desk, billingVars, evaluatorVars>>
  BY DEF IInv, ApprovalInv, TypeOK, ApprovalsTypeOK, Reject
<1>2. /\ row \in Approval /\ row.status = "rejected"
      /\ row.requestedBy = approvals[a].requestedBy /\ row.amount = approvals[a].amount
      /\ row.refundRef = approvals[a].refundRef
  BY <1>1 DEF Approval, Decided
<1>3. approvals' = [approvals EXCEPT ![a] = row]
  BY DEF Reject
<1> HIDE DEF row
<1>4. ApprovalsTypeOK'
  BY <1>1, <1>2, <1>3 DEF ApprovalsTypeOK
<1>5. RowsConsistent'
  BY <1>1, <1>2, <1>3 DEF IInv, ApprovalInv, RowsConsistent, Standing, ApprovalsTypeOK
<1> QED
  BY <1>1, <1>2, <1>3, <1>4, <1>5, LooseRowsKeep DEF Standing, ApprovalsTypeOK

LEMMA ListApprovalsKeeps ==
    ASSUME IInv, NEW u \in Users, ListApprovals(u)
    PROVE  IInv'
<1>1. /\ ApprovalsTypeOK
      /\ \A a \in ApprovalRefs : IsExpired(a) => rowLock[a] = None
      /\ UNCHANGED <<rowLock, due, desk, billingVars, evaluatorVars>>
  BY DEF IInv, ApprovalInv, TypeOK, ListApprovals
<1>2. \A a \in ApprovalRefs :
         IF IsExpired(a)
         THEN /\ approvals'[a] \in Approval /\ approvals'[a].status = "expired"
              /\ approvals'[a].requestedBy = approvals[a].requestedBy
              /\ approvals'[a].amount = approvals[a].amount
              /\ approvals'[a].decidedBy = approvals[a].decidedBy
              /\ approvals'[a].refundRef = approvals[a].refundRef
         ELSE approvals'[a] = approvals[a]
  <2> SUFFICES ASSUME NEW a \in ApprovalRefs, IsExpired(a)
               PROVE  /\ approvals'[a] \in Approval /\ approvals'[a].status = "expired"
                      /\ approvals'[a].requestedBy = approvals[a].requestedBy
                      /\ approvals'[a].amount = approvals[a].amount
                      /\ approvals'[a].decidedBy = approvals[a].decidedBy
                      /\ approvals'[a].refundRef = approvals[a].refundRef
    BY DEF ListApprovals
  <2>1. approvals[a] \in Approval
    BY <1>1 DEF ApprovalsTypeOK
  <2>2. approvals'[a] = [approvals[a] EXCEPT !.status = "expired"]
    BY DEF ListApprovals
  <2> QED BY <2>1, <2>2 DEF Approval
<1>3. DOMAIN approvals' = ApprovalRefs /\ approvals' = [a \in ApprovalRefs |-> approvals'[a]]
  BY DEF ListApprovals
<1>4. approvals' \in [ApprovalRefs -> Approval]
  BY <1>1, <1>2, <1>3 DEF ApprovalsTypeOK
<1>5. ApprovalsTypeOK'
  BY <1>1, <1>2, <1>4 DEF ApprovalsTypeOK, IsExpired
<1>6. RowsConsistent'
  BY <1>2 DEF IInv, ApprovalInv, RowsConsistent, Standing, IsExpired
<1> QED
  BY <1>1, <1>2, <1>5, <1>6, LooseRowsKeep DEF Standing, IsExpired

(* A call begins. *)
LEMMA ApproveKeeps ==
    ASSUME IInv, NEW a \in ApprovalRefs, NEW u \in Users, NEW c \in Calls, Approve(c, u, a)
    PROVE  IInv'
<1>1. /\ BillingTypeOK /\ EvaluatorTypeOK /\ ApprovalsTypeOK
      /\ UNCHANGED <<approvals, rowLock, due, billingVars, evaluatorVars>>
  BY DEF IInv, ApprovalInv, TypeOK, Approve
<1>2. /\ desk' \in [Calls -> Desk] /\ \A d \in Calls \ {c} : desk'[d] = desk[d]
      /\ desk'[c].pc = "lock" /\ desk'[c].user = u /\ desk'[c].ref = a
      /\ desk'[c].policy \in Policies
  <2>1. policy[u] \in Policies
    BY <1>1 DEF EvaluatorTypeOK
  <2> QED BY <1>1, <2>1 DEF Approve, ApprovalsTypeOK, Desk
<1>3. BillingInv' /\ AnswerTruthful'
  BY <1>1, BillingUntouched
<1>4. TypeOK'
  BY <1>1, <1>2, <1>3 DEF TypeOK, BillingInv, EvaluatorTypeOK, ApprovalsTypeOK, evaluatorVars
<1>5. DecidesLocked' /\ ExecutesStanding' /\ HasPayment' /\ RowsConsistent'
  BY <1>1, <1>2 DEF IInv, ApprovalInv, DecidesLocked, ExecutesStanding, HasPayment,
                    RowsConsistent, Standing, RowOf
<1>6. PostedStanding' /\ AwaitsOwn' /\ OnlyApprovedRefunded' /\ ExecutedIsPaid'
  BY <1>1, <1>2 DEF IInv, ApprovalInv, PostedStanding, AwaitsOwn, OnlyApprovedRefunded,
                    ExecutedIsPaid, Standing, Paid, Under, billingVars
<1> QED BY <1>3, <1>4, <1>5, <1>6 DEF IInv, ApprovalInv

(* The rest changes neither a row, nor a lock, nor a call. *)
LEMMA AsideKeeps ==
    ASSUME IInv, UNCHANGED <<billingVars, approvals, rowLock, desk>>,
           EvaluatorTypeOK', due' \subseteq ApprovalRefs
    PROVE  IInv'
<1>1. BillingInv' /\ AnswerTruthful'
  BY BillingUntouched
<1>2. TypeOK'
  BY <1>1 DEF IInv, ApprovalInv, TypeOK, BillingInv, ApprovalsTypeOK
<1>3. DecidesLocked' /\ ExecutesStanding' /\ HasPayment' /\ RowsConsistent'
  BY DEF IInv, ApprovalInv, DecidesLocked, ExecutesStanding, HasPayment, RowsConsistent,
         Standing, RowOf
<1>4. PostedStanding' /\ AwaitsOwn' /\ OnlyApprovedRefunded' /\ ExecutedIsPaid'
  BY DEF IInv, ApprovalInv, PostedStanding, AwaitsOwn, OnlyApprovedRefunded, ExecutedIsPaid,
         Standing, Paid, Under, billingVars
<1> QED BY <1>1, <1>2, <1>3, <1>4 DEF IInv, ApprovalInv

LEMMA SurroundingsTyped ==
    ASSUME EvaluatorTypeOK, Surroundings
    PROVE  EvaluatorTypeOK'
<1>1. changes' \in 0..MaxChanges
  BY EvaluatorAssumption DEF EvaluatorTypeOK, Surroundings
<1>2. customerActive' \in BOOLEAN /\ pastWindow' \subseteq Payments /\ policy' \in [Users -> Policies]
  <2>1. CASE ChangeStatus
    BY <2>1 DEF ChangeStatus, EvaluatorTypeOK
  <2>2. ASSUME NEW p \in Payments, ShiftWindow(p)
        PROVE  customerActive' \in BOOLEAN /\ pastWindow' \subseteq Payments
               /\ policy' \in [Users -> Policies]
    BY <2>2 DEF ShiftWindow, EvaluatorTypeOK
  <2>3. ASSUME NEW u \in Users, ChangePolicy(u)
        PROVE  customerActive' \in BOOLEAN /\ pastWindow' \subseteq Payments
               /\ policy' \in [Users -> Policies]
    BY <2>3 DEF ChangePolicy, EvaluatorTypeOK
  <2> QED BY <2>1, <2>2, <2>3 DEF Surroundings
<1> QED BY <1>1, <1>2 DEF EvaluatorTypeOK

LEMMA NextInv == IInv /\ [Next]_vars => IInv'
<1> SUFFICES ASSUME IInv, [Next]_vars
             PROVE  IInv'
  OBVIOUS
<1>1. ASSUME NEW c \in Calls, ApproveStep(c)
      PROVE  IInv'
  BY <1>1, LockRowKeeps, CheckLockedKeeps, MarkApprovedKeeps, RecheckKeeps,
     NoteNotExecutedKeeps, PostRefundKeeps, ReceiveAnswerKeeps, TimeOutKeeps, MarkExecutedKeeps
     DEF ApproveStep
<1>2. ASSUME NEW a \in ApprovalRefs, BecomeDue(a)
      PROVE  IInv'
  BY <1>2, AsideKeeps DEF BecomeDue, IInv, ApprovalInv, TypeOK, ApprovalsTypeOK,
                          EvaluatorTypeOK, evaluatorVars
<1>3. CASE Surroundings /\ UNCHANGED <<billingVars, approvalVars>>
  BY <1>3, AsideKeeps, SurroundingsTyped DEF IInv, ApprovalInv, TypeOK, ApprovalsTypeOK,
                                             approvalVars
<1>4. CASE UNCHANGED vars
  BY <1>4, AsideKeeps DEF vars, IInv, ApprovalInv, TypeOK, ApprovalsTypeOK, EvaluatorTypeOK,
                          evaluatorVars, approvalVars
<1> QED
  BY <1>1, <1>2, <1>3, <1>4, RequestApprovalKeeps, RejectKeeps, ApproveKeeps,
     ListApprovalsKeeps, CrashKeeps, BillingKeeps, DirectRefundKeeps
     DEF Next

-----------------------------------------------------------------------------
(* The inductive invariant holds in every run of the composed system. *)
THEOREM ApprovalsInvariant == Spec => []IInv
BY InitInv, NextInv, PTL DEF Spec

(* Every variable of the composition keeps its type. *)
THEOREM TypeCorrect == Spec => []TypeOK
BY ApprovalsInvariant, PTL DEF IInv, ApprovalInv

(* For any number of people, approvals and concurrent calls, money moves for an
   approval only when somebody other than the requester approved it, and only the
   requested amount (approval-service.ts:99-303). *)
THEOREM MoneyNeedsApproval == Spec => []OnlyApprovedRefunded
BY ApprovalsInvariant, PTL DEF IInv, ApprovalInv

(* A row marked executed names a refund that billing really made under its key. *)
THEOREM ExecutedMeansPaid == Spec => []ExecutedIsPaid
BY ApprovalsInvariant, PTL DEF IInv, ApprovalInv

(* The approval desk cannot make the billing system over-refund either. *)
THEOREM ApprovalsNeverOverRefund == Spec => []NoOverRefund
BY ApprovalsInvariant, PTL DEF IInv, BillingInv

-----------------------------------------------------------------------------
(* One refund per approval, whatever key it was booked under. *)

(* A call of approve() posts under the key of its own approval, and a row is under the key
   that the request which inserted it carries. *)
PostsOwn ==
    \A c \in Calls :
       /\ desk[c].pc = "idle" => desk[c].ref = None
       /\ desk[c].ref # None /\ http[c].pc # "idle" => http[c].key = ApprovalKey[desk[c].ref]

RowsPosted == \A r \in refunds : http[r.ref].pc # "idle" /\ http[r.ref].key = r.key

KeyInv == PostsOwn /\ RowsPosted

LEMMA KeyInitInv == Init => KeyInv
BY DEF Init, BillingInit, NoRequest, NoDesk, KeyInv, PostsOwn, RowsPosted

(* Steps of a call that send nothing. *)
LEMMA DeskKeepsRefs ==
    ASSUME ApprovalsTypeOK, NEW c \in Calls, ApproveStep(c) \/ Crash(c)
    PROVE  /\ desk[c].pc # "idle"
           /\ desk'[c].pc # "idle" /\ desk'[c].ref = desk[c].ref
           /\ \A d \in Calls \ {c} : desk'[d] = desk[d]
<1>1. desk[c].pc # "idle" /\ desk[c] \in Desk
  BY DEF ApprovalsTypeOK, ApproveStep, LockRow, CheckLocked, MarkApproved, Recheck,
         NoteNotExecuted, PostRefund, ReceiveAnswer, TimeOut, MarkExecuted, Crash
<1>2. \/ \E pc \in DeskSteps : Step(c, pc)
      \/ \E result \in {"none", "executed", "not_executed", "failed"} : End(c, result)
      \/ Recheck(c)
  <2>1. desk[c].result \in {"none", "executed", "not_executed", "failed"}
    BY <1>1 DEF Desk
  <2> QED
    BY <2>1 DEF ApproveStep, LockRow, CheckLocked, MarkApproved, NoteNotExecuted, PostRefund,
                ReceiveAnswer, TimeOut, MarkExecuted, Crash, DeskSteps
<1>3. CASE Recheck(c)
  <2> DEFINE amount == RowOf(c).amount
  <2>1. \/ \E result \in {"not_executed", "failed"} :
              desk' = [desk EXCEPT ![c].pc = "noting", ![c].result = result]
        \/ desk' = [desk EXCEPT ![c].pc = "post", ![c].payment = Chosen(amount)]
    BY <1>3 DEF Recheck
  <2> HIDE DEF amount
  <2> QED BY <1>1, <2>1 DEF ApprovalsTypeOK, Desk
<1> QED BY <1>1, <1>2, <1>3, StepMoves, EndMoves DEF DeskSteps

LEMMA KeyStep == IInv /\ KeyInv /\ [Next]_vars => KeyInv'
<1> SUFFICES ASSUME IInv, KeyInv, [Next]_vars
             PROVE  KeyInv'
  OBVIOUS
<1>1. /\ BillingInv /\ BillingTypeOK /\ ApprovalsTypeOK
      /\ \A r \in refunds : r.ref \in Calls
  BY DEF IInv, ApprovalInv, TypeOK, BillingInv, BillingTypeOK, Row
<1>2. ASSUME UNCHANGED <<refunds, http, desk>>
      PROVE  KeyInv'
  BY <1>2 DEF KeyInv, PostsOwn, RowsPosted
<1>3. ASSUME NEW c \in Calls, ApproveStep(c) \/ Crash(c), UNCHANGED <<refunds, http>>
      PROVE  KeyInv'
  BY <1>1, <1>3, DeskKeepsRefs DEF KeyInv, PostsOwn, RowsPosted
<1>4. ASSUME NEW c \in Calls, PostRefund(c)
      PROVE  KeyInv'
  <2>1. /\ \A d \in Calls \ {c} : desk'[d] = desk[d] /\ http'[d] = http[d]
        /\ desk'[c].pc # "idle" /\ desk'[c].ref = desk[c].ref
        /\ http[c].pc = "idle" /\ http'[c].key = ApprovalKey[desk[c].ref]
        /\ UNCHANGED refunds
    <3> DEFINE amount == RowOf(c).amount
    <3>1. Post(c, ApprovalKey[desk[c].ref], desk[c].payment, amount) /\ UNCHANGED refunds
      BY <1>4 DEF PostRefund
    <3> HIDE DEF amount
    <3>2. /\ \A d \in Calls \ {c} : http'[d] = http[d]
          /\ http[c].pc = "idle" /\ http'[c].key = ApprovalKey[desk[c].ref]
      BY <1>1, <3>1, PostMoves
    <3>3. /\ desk'[c].pc # "idle" /\ desk'[c].ref = desk[c].ref
          /\ \A d \in Calls \ {c} : desk'[d] = desk[d]
      BY <1>1, <1>4, DeskKeepsRefs DEF ApproveStep
    <3> QED BY <3>1, <3>2, <3>3
  <2>2. \A r \in refunds : r.ref # c
    BY <2>1 DEF KeyInv, RowsPosted
  <2> QED BY <1>1, <2>1, <2>2 DEF KeyInv, PostsOwn, RowsPosted
<1>5. ASSUME NEW c \in Calls, NEW k \in Keys, NEW p \in Payments, NEW amount \in OtherAmounts,
             DirectRefund(c, k, p, amount)
      PROVE  KeyInv'
  <2>1. /\ desk[c].pc = "idle" /\ UNCHANGED <<refunds, desk>>
        /\ \A d \in Calls \ {c} : http'[d] = http[d]
        /\ http[c].pc = "idle"
    BY <1>1, <1>5, PostMoves DEF DirectRefund, approvalVars
  <2>2. \A r \in refunds : r.ref # c
    BY <2>1 DEF KeyInv, RowsPosted
  <2> QED BY <1>1, <2>1, <2>2 DEF KeyInv, PostsOwn, RowsPosted
<1>6. ASSUME NEW c \in Calls, BillingStep(c), UNCHANGED <<evaluatorVars, approvalVars>>
      PROVE  KeyInv'
  BY <1>1, <1>6, BillingEffect DEF KeyInv, PostsOwn, RowsPosted, approvalVars
<1>7. ASSUME NEW c \in Calls, NEW u \in Users, NEW a \in ApprovalRefs, Approve(c, u, a)
      PROVE  KeyInv'
  <2>1. /\ http[c].pc = "idle" /\ UNCHANGED <<refunds, http>>
        /\ desk'[c].pc = "lock"
        /\ \A d \in Calls \ {c} : desk'[d] = desk[d]
    BY <1>1, <1>7 DEF Approve, ApprovalsTypeOK, billingVars
  <2> QED BY <1>1, <2>1 DEF KeyInv, PostsOwn, RowsPosted
<1>8. ASSUME NEW c \in Calls, ApproveStep(c), ~ PostRefund(c)
      PROVE  UNCHANGED <<refunds, http>>
  BY <1>8 DEF ApproveStep, LockRow, CheckLocked, MarkApproved, Recheck, NoteNotExecuted,
              ReceiveAnswer, TimeOut, MarkExecuted, billingVars
<1>9. ASSUME NEW c \in Calls, Crash(c)
      PROVE  UNCHANGED <<refunds, http>>
  BY <1>9 DEF Crash, billingVars
<1>10. ASSUME NEW a \in ApprovalRefs, NEW u \in Users,
              \/ \E amount \in Amounts : RequestApproval(a, u, amount)
              \/ Reject(u, policy[u], a)
       PROVE  UNCHANGED <<refunds, http, desk>>
  BY <1>10 DEF RequestApproval, Reject, billingVars
<1>11. CASE UNCHANGED vars \/ (Surroundings /\ UNCHANGED <<billingVars, approvalVars>>)
  BY <1>11, <1>2 DEF vars, billingVars, approvalVars
<1>12. ASSUME NEW a \in ApprovalRefs, BecomeDue(a) PROVE UNCHANGED <<refunds, http, desk>>
  BY <1>12 DEF BecomeDue, billingVars
<1>13. ASSUME NEW u \in Users, ListApprovals(u) PROVE UNCHANGED <<refunds, http, desk>>
  BY <1>13 DEF ListApprovals, billingVars
<1> QED
  BY <1>2, <1>3, <1>4, <1>5, <1>6, <1>7, <1>8, <1>9, <1>10, <1>11, <1>12, <1>13 DEF Next

(* No number of double clicks, resumes, retries and crashes refunds an approval twice.
   Every call of approve() posts under the one key of its approval, and billing pays a key
   once, so of the rows its calls have made there is one (approval-service.ts:209-214). *)
THEOREM NeverRefundedTwice == Spec => []OneRefundPerApproval
<1>1. IInv /\ KeyInv => OneRefundPerApproval
  <2> SUFFICES ASSUME IInv, KeyInv, NEW r \in refunds, NEW s \in refunds,
                      desk[r.ref].ref # None, desk[r.ref].ref = desk[s.ref].ref
               PROVE  r = s
    BY DEF OneRefundPerApproval
  <2>1. r.ref \in Calls /\ s.ref \in Calls
    BY DEF IInv, BillingInv, BillingTypeOK, Row
  <2>2. r.key = ApprovalKey[desk[r.ref].ref] /\ s.key = ApprovalKey[desk[s.ref].ref]
    BY <2>1 DEF KeyInv, PostsOwn, RowsPosted
  <2> QED BY <2>2 DEF IInv, BillingInv, OneRefundPerKey
<1> QED BY <1>1, ApprovalsInvariant, KeyInitInv, KeyStep, PTL DEF Spec

-----------------------------------------------------------------------------
(* Decisions *)

(* What a step may do to a row. *)
Final(a) ==
    /\ approvals'[a].status # approvals[a].status =>
          \/ approvals[a].status \in {"none", "pending"}
          \/ approvals[a].status = "approved" /\ approvals'[a].status = "executed"
    /\ approvals[a].decidedBy # None => approvals'[a].decidedBy = approvals[a].decidedBy
    /\ approvals[a].refundRef # None => approvals'[a].refundRef = approvals[a].refundRef

LEMMA DeskFinal ==
    ASSUME IInv, NEW c \in Calls, ApproveStep(c), NEW b \in ApprovalRefs
    PROVE  Final(b)
<1> DEFINE a == desk[c].ref
<1>1. ApprovalsTypeOK /\ approvals[b] \in Approval
  BY DEF IInv, ApprovalInv, TypeOK, ApprovalsTypeOK
<1>2. CASE MarkApproved(c)
  <2>1. a \in ApprovalRefs /\ approvals[a].status = "pending"
    BY <1>1, <1>2 DEF IInv, ApprovalInv, DecidesLocked, ApprovalsTypeOK, MarkApproved, RowOf
  <2>2. approvals[a].decidedBy = None
    BY <2>1 DEF IInv, ApprovalInv, RowsConsistent
  <2>3. /\ \A d \in ApprovalRefs \ {a} : approvals'[d] = approvals[d]
        /\ approvals'[a].refundRef = approvals[a].refundRef
    BY <1>1, <1>2, <2>1 DEF MarkApproved, ApprovalsTypeOK, Approval
  <2> QED BY <2>1, <2>2, <2>3 DEF Final
<1>3. CASE NoteNotExecuted(c)
  <2>1. /\ approvals'[b].status = approvals[b].status
        /\ approvals'[b].decidedBy = approvals[b].decidedBy
        /\ approvals'[b].refundRef = approvals[b].refundRef
    BY <1>1, <1>3 DEF NoteNotExecuted, ApprovalsTypeOK, Approval
  <2> QED BY <2>1 DEF Final
<1>4. CASE MarkExecuted(c)
  <2>1. a \in ApprovalRefs /\ Standing(a)
    BY <1>1, <1>4 DEF IInv, ApprovalInv, ExecutesStanding, ApprovalsTypeOK, MarkExecuted
  <2>2. /\ \A d \in ApprovalRefs \ {a} : approvals'[d] = approvals[d]
        /\ approvals'[a].status = "executed" /\ approvals'[a].refundRef = http[c].ref
        /\ approvals'[a].decidedBy = approvals[a].decidedBy
    BY <1>1, <1>4, <2>1 DEF MarkExecuted, ApprovalsTypeOK, Approval
  <2>3. approvals[a].refundRef # None => approvals[a].refundRef = http[c].ref
    <3>1. [ref |-> http[c].ref, key |-> ApprovalKey[a],
           payment |-> http[c].payment, amount |-> http[c].amount] \in refunds
      BY <1>4 DEF IInv, ApprovalInv, AwaitsOwn, AnswerTruthful, MarkExecuted
    <3>2. approvals[a].refundRef # None => approvals[a].status = "executed"
      BY <2>1 DEF IInv, ApprovalInv, RowsConsistent
    <3>3. approvals[a].refundRef # None =>
             \E r \in refunds : r.key = ApprovalKey[a] /\ r.ref = approvals[a].refundRef
      BY <2>1, <3>2 DEF IInv, ApprovalInv, ExecutedIsPaid, Paid, Under
    <3> QED BY <3>1, <3>3 DEF IInv, BillingInv, OneRefundPerKey
  <2> QED BY <2>1, <2>2, <2>3 DEF Final, Standing
<1>5. CASE UNCHANGED approvals
  BY <1>5 DEF Final
<1> QED
  BY <1>2, <1>3, <1>4, <1>5 DEF ApproveStep, LockRow, CheckLocked, Recheck, PostRefund,
                                ReceiveAnswer, TimeOut

LEMMA NextFinal ==
    ASSUME IInv, Next, NEW b \in ApprovalRefs
    PROVE  Final(b)
<1>1. ApprovalsTypeOK /\ approvals[b] \in Approval
  BY DEF IInv, ApprovalInv, TypeOK, ApprovalsTypeOK
<1>2. ASSUME NEW a \in ApprovalRefs, NEW u \in Users, NEW amount \in Amounts,
             RequestApproval(a, u, amount)
      PROVE  Final(b)
  <2>1. approvals[a].decidedBy = None /\ approvals[a].refundRef = None
    BY <1>2 DEF IInv, ApprovalInv, RowsConsistent, RequestApproval
  <2>2. approvals[a].status = "none" /\ \A d \in ApprovalRefs \ {a} : approvals'[d] = approvals[d]
    BY <1>1, <1>2 DEF RequestApproval, ApprovalsTypeOK
  <2> QED BY <2>1, <2>2 DEF Final
<1>3. ASSUME NEW a \in ApprovalRefs, NEW u \in Users, NEW pol, Reject(u, pol, a)
      PROVE  Final(b)
  <2>1. approvals[a].decidedBy = None /\ approvals[a].refundRef = None
    BY <1>3 DEF IInv, ApprovalInv, RowsConsistent, Reject
  <2>2. approvals[a].status = "pending" /\ \A d \in ApprovalRefs \ {a} : approvals'[d] = approvals[d]
    BY <1>1, <1>3 DEF Reject, ApprovalsTypeOK
  <2> QED BY <2>1, <2>2 DEF Final
<1>4. ASSUME NEW u \in Users, ListApprovals(u)
      PROVE  Final(b)
  <2>1. CASE IsExpired(b)
    <3>1. approvals[b].status = "pending"
      BY <2>1 DEF IsExpired
    <3>2. approvals'[b] = [approvals[b] EXCEPT !.status = "expired"]
      BY <1>4, <2>1 DEF ListApprovals
    <3> QED BY <1>1, <3>1, <3>2 DEF Final, Approval
  <2>2. CASE ~ IsExpired(b)
    BY <1>4, <2>2 DEF ListApprovals, Final
  <2> QED BY <2>1, <2>2
<1>5. CASE UNCHANGED approvals
  BY <1>5 DEF Final
<1> QED
  BY <1>2, <1>3, <1>4, <1>5, DeskFinal
     DEF Next, Approve, BecomeDue, Crash, DirectRefund, approvalVars

(* A decision is final: no interleaving of approvers, expiry and resumed calls changes
   who decided, undoes a decision or exchanges the refund (approval-service.ts:112-174). *)
THEOREM DecisionsAreFinal == Spec => DecisionIsFinal
<1>1. IInv /\ [Next]_vars => [\A a \in ApprovalRefs : Final(a)]_approvals
  BY NextFinal DEF vars, approvalVars
<1> QED
  BY <1>1, ApprovalsInvariant, PTL DEF Spec, DecisionIsFinal, Final

-----------------------------------------------------------------------------
(* Billing under the approval desk is still the ledger of RefundLedger.tla. *)

LEMMA ApprovalsOnlyInsert == [Next]_vars => OnlyInserts
<1> USE DEF evaluatorVars, billingVars
<1>1. ASSUME NEW c \in Calls, ApproveStep(c) PROVE UNCHANGED refunds
  BY <1>1 DEF ApproveStep, LockRow, CheckLocked, MarkApproved, Recheck, NoteNotExecuted,
     PostRefund, ReceiveAnswer, TimeOut, MarkExecuted
<1>2. ASSUME NEW c \in Calls, NEW k \in Keys, NEW p \in Payments, NEW amount \in OtherAmounts,
             DirectRefund(c, k, p, amount)
      PROVE  UNCHANGED refunds
  BY <1>2 DEF DirectRefund
<1>3. ASSUME NEW c \in Calls, Crash(c) PROVE UNCHANGED refunds
  BY <1>3 DEF Crash
<1>4. ASSUME NEW a \in ApprovalRefs, NEW u \in Users,
             \/ \E amount \in Amounts : RequestApproval(a, u, amount)
             \/ Reject(u, policy[u], a)
             \/ \E c \in Calls : Approve(c, u, a)
      PROVE  UNCHANGED refunds
  BY <1>4 DEF RequestApproval, Reject, Approve
<1>5. ASSUME NEW a \in ApprovalRefs, BecomeDue(a) PROVE UNCHANGED refunds
  BY <1>5 DEF BecomeDue
<1>6. ASSUME NEW u \in Users, ListApprovals(u) PROVE UNCHANGED refunds
  BY <1>6 DEF ListApprovals
<1>7. CASE UNCHANGED vars \/ (Surroundings /\ UNCHANGED <<billingVars, approvalVars>>)
  BY <1>7 DEF vars, OnlyInserts
<1> QED BY <1>1, <1>2, <1>3, <1>4, <1>5, <1>6, <1>7, HandlersOnlyInsert DEF Next, OnlyInserts

(* Approvals, resumed executions, crashes and direct refunds beside them pay only as the
   ledger allows: once per key, and never beyond the payment. *)
THEOREM ApprovalsImplementLedger == Spec => ImplementsLedger
<1>1. Init => BillingInit
  BY DEF Init
<1>2. IInv => BillingInv
  BY DEF IInv
<1> QED BY <1>1, <1>2, LedgerBegins, ApprovalsOnlyInsert, InsertsPay, ApprovalsInvariant, PTL
        DEF Spec, Ledger!Spec, ImplementsLedger

=============================================================================
