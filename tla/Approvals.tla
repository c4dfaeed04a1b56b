------------------------------ MODULE Approvals ------------------------------
(***************************************************************************)
(* Refund approvals: the second person who says yes or no                  *)
(* (server/src/services/approval-service.ts), with the evaluator it asks   *)
(* and the billing system it refunds through.                              *)
(*                                                                         *)
(* A call of approve() locks the approval row, checks the rules, re-checks *)
(* the refund while it holds the lock, marks the row approved and commits; *)
(* then, outside the lock, it re-checks again, posts the refund to billing *)
(* under the key approval:<ref>, and marks the row executed.  Between any  *)
(* two of these steps other calls run, the customer, the window and the    *)
(* policies change, the HTTP call can time out while billing still works   *)
(* on it, and the process can die.  Ticket notes are left out: a failed    *)
(* one changes nothing else.                                               *)
(***************************************************************************)
EXTENDS RefundEvaluator

CONSTANTS
    ApprovalRefs,   \* approval references
    ApprovalKey,    \* [ApprovalRefs -> Keys], billing key approval:<ref>
    OtherAmounts    \* bound: amounts of refunds that no approval asked for

ASSUME ApprovalsAssumption ==
    /\ ApprovalKey \in [ApprovalRefs -> Keys]
    /\ \A a, b \in ApprovalRefs : ApprovalKey[a] = ApprovalKey[b] => a = b
    /\ OtherAmounts \subseteq Amounts
    /\ None \notin Users

VARIABLES
    approvals,      \* the approvals table
    rowLock,        \* [ApprovalRefs -> Calls \cup {None}], row locks on it
    due,            \* approvals whose expires_at has passed
    desk            \* [Calls -> record], calls of approve() in progress

approvalVars == <<approvals, rowLock, due, desk>>

vars == <<billingVars, evaluatorVars, approvalVars>>

-----------------------------------------------------------------------------
(* Types *)

Decided == {"approved", "rejected", "executed"}

Approval ==
    [status      : {"none", "pending", "expired"} \cup Decided,
     requestedBy : Users \cup {None},
     amount      : Amounts \cup {0},
     decidedBy   : Users \cup {None},
     refundRef   : Calls \cup {None},
     note        : {"none", "given", "not_executed"}]

NoApproval ==
    [status |-> "none", requestedBy |-> None, amount |-> 0, decidedBy |-> None,
     refundRef |-> None, note |-> "none"]

Desk ==
    [pc      : {"idle", "lock", "check", "mark", "recheck", "noting", "post", "posted",
                "finish", "done"},
     user    : Users \cup {None},
     ref     : ApprovalRefs \cup {None},
     policy  : Policies \cup {None},
     payment : Payments \cup {None},
     result  : {"none", "executed", "not_executed", "failed"}]

NoDesk ==
    [pc |-> "idle", user |-> None, ref |-> None, policy |-> None, payment |-> None,
     result |-> "none"]

ApprovalsTypeOK ==
    /\ approvals \in [ApprovalRefs -> Approval]
    /\ rowLock \in [ApprovalRefs -> Calls \cup {None}]
    /\ due \subseteq ApprovalRefs
    /\ desk \in [Calls -> Desk]
    /\ \A a \in ApprovalRefs :
          approvals[a].status # "none" => /\ approvals[a].requestedBy \in Users
                                          /\ approvals[a].amount \in Amounts
    /\ \A c \in Calls :
          desk[c].pc \notin {"idle", "done"} =>
             /\ desk[c].user \in Users
             /\ desk[c].ref \in ApprovalRefs
             /\ desk[c].policy \in Policies

TypeOK == BillingTypeOK /\ EvaluatorTypeOK /\ ApprovalsTypeOK

Init ==
    /\ BillingInit
    /\ EvaluatorInit
    /\ approvals = [a \in ApprovalRefs |-> NoApproval]
    /\ rowLock = [a \in ApprovalRefs |-> None]
    /\ due = {}
    /\ desk = [c \in Calls |-> NoDesk]

-----------------------------------------------------------------------------
(* Helpers *)

RowOf(c) == approvals[desk[c].ref]

Step(c, pc) == desk' = [desk EXCEPT ![c].pc = pc]

(* A call that ended only keeps what it answered: "executed", "not_executed" when its
   re-check after the approval refused the refund, and "failed" for every other error. *)
End(c, result) ==
    desk' = [desk EXCEPT ![c] =
                [NoDesk EXCEPT !.pc = "done", !.ref = desk[c].ref, !.result = result]]

Take(a, c) == rowLock' = [rowLock EXCEPT ![a] = c]

Free(a) == rowLock' = [rowLock EXCEPT ![a] = None]

(* isExpired: still pending, though its time is over. *)
IsExpired(a) == approvals[a].status = "pending" /\ a \in due

(* Approved, but the refund has not been recorded: execution failed midway. *)
Unexecuted(row) == row.status = "approved" /\ row.refundRef = None

(* Mutant: requesters may approve their own refunds. *)
WhyCannotDecideAnyone(u, pol, row) ==
    \/ ~ pol.canApprove
    \/ row.amount > pol.approval
    \/ row.status # "pending" /\ ~ Unexecuted(row)

(* whyCannotDecide: the caller may not decide this row. *)
WhyCannotDecide(u, pol, row) ==
    \/ ~ pol.canApprove
    \/ row.requestedBy = u
    \/ row.amount > pol.approval
    \/ row.status # "pending" /\ ~ Unexecuted(row)

-----------------------------------------------------------------------------
(* Requesting, expiring, rejecting *)

(* RefundService.requestApproval inserts a pending row, whatever its confirm call
   decided (RefundService.tla). *)
RequestApproval(a, u, amount) ==
    /\ approvals[a].status = "none"
    /\ approvals' = [approvals EXCEPT ![a] =
           [NoApproval EXCEPT !.status = "pending", !.requestedBy = u, !.amount = amount]]
    /\ UNCHANGED <<rowLock, due, desk, billingVars, evaluatorVars>>

(* 72 hours pass. *)
BecomeDue(a) ==
    /\ approvals[a].status # "none"
    /\ a \notin due
    /\ due' = due \cup {a}
    /\ UNCHANGED <<approvals, rowLock, desk, billingVars, evaluatorVars>>

(* list(): an approver lists approvals, which first marks the overdue ones; the
   UPDATE waits for rows that are locked. *)
ListApprovals(u) ==
    /\ policy[u].canApprove
    /\ \A a \in ApprovalRefs : IsExpired(a) => rowLock[a] = None
    /\ approvals' = [a \in ApprovalRefs |->
           IF IsExpired(a) THEN [approvals[a] EXCEPT !.status = "expired"] ELSE approvals[a]]
    /\ UNCHANGED <<rowLock, due, desk, billingVars, evaluatorVars>>

(* Mutant: the row is read without FOR UPDATE. *)
RejectUnlocked(u, pol, a) ==
    /\ approvals[a].status = "pending"
    /\ ~ IsExpired(a)
    /\ ~ WhyCannotDecide(u, pol, approvals[a])
    /\ approvals' = [approvals EXCEPT ![a].status = "rejected", ![a].decidedBy = u,
                                      ![a].note = "given"]
    /\ UNCHANGED <<rowLock, due, desk, billingVars, evaluatorVars>>

(* reject(): lock, rules (under the policy just read) and update in one
   transaction.  Calls that end in an error change nothing. *)
Reject(u, pol, a) ==
    /\ rowLock[a] = None
    /\ approvals[a].status = "pending"
    /\ ~ IsExpired(a)
    /\ ~ WhyCannotDecide(u, pol, approvals[a])
    /\ approvals' = [approvals EXCEPT ![a].status = "rejected", ![a].decidedBy = u,
                                      ![a].note = "given"]
    /\ UNCHANGED <<rowLock, due, desk, billingVars, evaluatorVars>>

-----------------------------------------------------------------------------
(* approve() *)

(* The call begins with the policy its user has now. *)
Approve(c, u, a) ==
    /\ desk[c].pc = "idle" /\ http[c].pc = "idle"
    /\ approvals[a].status # "none"
    /\ desk' = [desk EXCEPT ![c] = [pc |-> "lock", user |-> u, ref |-> a,
                                    policy |-> policy[u], payment |-> None,
                                    result |-> "none"]]
    /\ UNCHANGED <<approvals, rowLock, due, billingVars, evaluatorVars>>

(* select ... for update: expired rows are refused, the approver of an approved but
   unexecuted row resumes it, and anyone else must be allowed to decide it. *)
LockRow(c) ==
    LET a == desk[c].ref
        row == RowOf(c)
        u == desk[c].user
    IN  /\ desk[c].pc = "lock"
        /\ rowLock[a] = None
        /\ \/ /\ ~ IsExpired(a) /\ Unexecuted(row) /\ row.decidedBy = u
              /\ Step(c, "recheck")
              /\ UNCHANGED rowLock
           \/ /\ \/ IsExpired(a)
                 \/ Unexecuted(row) /\ row.decidedBy # u
                 \/ row.status \notin {"pending", "approved"}
                 \/ row.status = "approved" /\ row.refundRef # None
              /\ End(c, "failed")
              /\ UNCHANGED rowLock
           \/ /\ ~ IsExpired(a) /\ row.status = "pending"
              /\ IF WhyCannotDecide(u, desk[c].policy, row)
                 THEN End(c, "failed") /\ UNCHANGED rowLock
                 ELSE Step(c, "check") /\ Take(a, c)
        /\ UNCHANGED <<approvals, due, billingVars, evaluatorVars>>

(* Still a valid refund?  Evaluated while the row is locked; whatever error evaluate()
   ends in, a system that cannot be reached included, rolls back. *)
CheckLocked(c) ==
    /\ desk[c].pc = "check"
    /\ \/ End(c, "failed") /\ Free(desk[c].ref)
       \/ /\ ~ Refused(desk[c].policy, RowOf(c).amount)
          /\ Step(c, "mark") /\ UNCHANGED rowLock
    /\ UNCHANGED <<approvals, due, billingVars, evaluatorVars>>

(* Mark the row approved and commit. *)
MarkApproved(c) ==
    LET a == desk[c].ref
    IN  /\ desk[c].pc = "mark"
        /\ approvals' = [approvals EXCEPT ![a].status = "approved",
                                          ![a].decidedBy = desk[c].user,
                                          ![a].note = "given"]
        /\ Step(c, "recheck")
        /\ Free(a)
        /\ UNCHANGED <<due, billingVars, evaluatorVars>>

(* Re-check outside the lock; it also picks the payment to refund.  It fails when the
   refund is refused, or when a system it asks cannot be reached. *)
Recheck(c) ==
    LET amount == RowOf(c).amount
        NoteAs(result) == desk' = [desk EXCEPT ![c].pc = "noting", ![c].result = result]
    IN  /\ desk[c].pc = "recheck"
        /\ \/ NoteAs("failed")
           \/ IF Refused(desk[c].policy, amount)
              THEN NoteAs("not_executed")
              ELSE desk' = [desk EXCEPT ![c].pc = "post", ![c].payment = Chosen(amount)]
        /\ UNCHANGED <<approvals, rowLock, due, billingVars, evaluatorVars>>

(* The re-check failed: record it on the row, whatever the row says by now. *)
NoteNotExecuted(c) ==
    /\ desk[c].pc = "noting"
    /\ rowLock[desk[c].ref] = None
    /\ approvals' = [approvals EXCEPT ![desk[c].ref].note = "not_executed"]
    /\ End(c, desk[c].result)
    /\ UNCHANGED <<rowLock, due, billingVars, evaluatorVars>>

(* Mutant: every execution has a key of its own. *)
PostUnderAnyKey(c) ==
    /\ desk[c].pc = "post"
    /\ \E k \in Keys : Post(c, k, desk[c].payment, RowOf(c).amount)
    /\ Step(c, "posted")
    /\ UNCHANGED <<refunds, payLock, approvals, rowLock, due, evaluatorVars>>

(* executeRefund: post to billing under the approval's own key. *)
PostRefund(c) ==
    /\ desk[c].pc = "post"
    /\ Post(c, ApprovalKey[desk[c].ref], desk[c].payment, RowOf(c).amount)
    /\ Step(c, "posted")
    /\ UNCHANGED <<refunds, payLock, approvals, rowLock, due, evaluatorVars>>

(* Mutant: any answer is taken for success. *)
ReceiveAnyAnswer(c) ==
    /\ desk[c].pc = "posted"
    /\ http[c].pc = "done"
    /\ Step(c, "finish")
    /\ UNCHANGED <<approvals, rowLock, due, billingVars, evaluatorVars>>

(* Billing answers; a refusal or an error ends the call. *)
ReceiveAnswer(c) ==
    /\ desk[c].pc = "posted"
    /\ http[c].pc = "done"
    /\ IF http[c].reply \in {"created", "replayed"} THEN Step(c, "finish") ELSE End(c, "failed")
    /\ UNCHANGED <<approvals, rowLock, due, billingVars, evaluatorVars>>

(* The HTTP call times out.  A POST is not retried, and billing works on. *)
TimeOut(c) ==
    /\ desk[c].pc = "posted"
    /\ End(c, "failed")
    /\ UNCHANGED <<approvals, rowLock, due, billingVars, evaluatorVars>>

(* Mutant: the payment is recorded in place of the refund. *)
MarkExecutedWithPayment(c) ==
    LET a == desk[c].ref
    IN  /\ desk[c].pc = "finish"
        /\ rowLock[a] = None
        /\ approvals' = [approvals EXCEPT ![a].status = "executed",
                                          ![a].refundRef = http[c].payment]
        /\ End(c, "executed")
        /\ UNCHANGED <<rowLock, due, billingVars, evaluatorVars>>

(* Mark the row executed. *)
MarkExecuted(c) ==
    LET a == desk[c].ref
    IN  /\ desk[c].pc = "finish"
        /\ rowLock[a] = None
        /\ approvals' = [approvals EXCEPT ![a].status = "executed",
                                          ![a].refundRef = http[c].ref]
        /\ End(c, "executed")
        /\ UNCHANGED <<rowLock, due, billingVars, evaluatorVars>>

(* The server process dies: an open transaction rolls back. *)
Crash(c) ==
    /\ desk[c].pc \notin {"idle", "done"}
    /\ End(c, "failed")
    /\ rowLock' = [a \in ApprovalRefs |-> IF rowLock[a] = c THEN None ELSE rowLock[a]]
    /\ UNCHANGED <<approvals, due, billingVars, evaluatorVars>>

ApproveStep(c) ==
    \/ LockRow(c) \/ CheckLocked(c) \/ MarkApproved(c) \/ Recheck(c) \/ NoteNotExecuted(c)
    \/ PostRefund(c) \/ ReceiveAnswer(c) \/ TimeOut(c) \/ MarkExecuted(c)

-----------------------------------------------------------------------------
(* Everything together *)

(* Refunds of the same payments that do not come from an approval. *)
DirectRefund(c, k, p, amount) ==
    /\ desk[c].pc = "idle"
    /\ \A a \in ApprovalRefs : ApprovalKey[a] # k
    /\ Post(c, k, p, amount)
    /\ UNCHANGED <<refunds, payLock, evaluatorVars, approvalVars>>

Next ==
    \/ \E a \in ApprovalRefs, u \in Users :
          \/ \E amount \in Amounts : RequestApproval(a, u, amount)
          \/ Reject(u, policy[u], a)
          \/ \E c \in Calls : Approve(c, u, a)
    \/ \E a \in ApprovalRefs : BecomeDue(a)
    \/ \E u \in Users : ListApprovals(u)
    \/ \E c \in Calls :
          \/ ApproveStep(c)
          \/ Crash(c)
          \/ BillingStep(c) /\ UNCHANGED <<evaluatorVars, approvalVars>>
          \/ \E k \in Keys, p \in Payments, amount \in OtherAmounts : DirectRefund(c, k, p, amount)
    \/ Surroundings /\ UNCHANGED <<billingVars, approvalVars>>

Spec == Init /\ [][Next]_vars

-----------------------------------------------------------------------------
(* Properties *)

Paid(a) == Under(ApprovalKey[a])

(* Money moves for an approval only while it stands approved: a refund under its key
   means somebody other than the requester approved it, and it is for the requested
   amount.  A rejected or expired approval is never refunded, even by calls that were
   under way. *)
OnlyApprovedRefunded ==
    \A a \in ApprovalRefs : \A r \in Paid(a) :
       /\ approvals[a].status \in {"approved", "executed"}
       /\ approvals[a].decidedBy \in Users \ {approvals[a].requestedBy}
       /\ r.amount = approvals[a].amount

(* Approving twice, resuming, retrying and crashing never refund an approval twice: of
   all the refunds that calls of approve() have made billing book, under whatever key, one
   is for this approval (approval-service.ts:214). *)
OneRefundPerApproval ==
    \A r, s \in refunds :
       desk[r.ref].ref # None /\ desk[r.ref].ref = desk[s.ref].ref => r = s

(* "executed" on the row means its refund exists at billing, under the ref it names. *)
ExecutedIsPaid ==
    \A a \in ApprovalRefs :
       approvals[a].status = "executed" =>
          \E r \in Paid(a) : r.ref = approvals[a].refundRef

(* A decision is final: an approval leaves "pending" once, the decider and the executed
   refund never change, and only "approved" goes on (to "executed"). *)
DecisionIsFinal ==
    [][\A a \in ApprovalRefs :
          /\ approvals'[a].status # approvals[a].status =>
                \/ approvals[a].status \in {"none", "pending"}
                \/ approvals[a].status = "approved" /\ approvals'[a].status = "executed"
          /\ approvals[a].decidedBy # None => approvals'[a].decidedBy = approvals[a].decidedBy
          /\ approvals[a].refundRef # None => approvals'[a].refundRef = approvals[a].refundRef
      ]_approvals

(* approval-service.ts:17-19, "If execution fails after approval, approving again
   resumes it": no call is turned away by its re-check after another call for the same
   approval was answered with an error although it made the refund. *)
ResumeCompletes ==
    [][\A c, d \in Calls :
          /\ desk[c].result # desk'[c].result
          /\ desk[d].ref = desk[c].ref
          /\ desk[d].result = "failed"
          /\ \E r \in Paid(desk[d].ref) : r.ref = d
          => desk'[c].result # "not_executed"
      ]_desk

=============================================================================
