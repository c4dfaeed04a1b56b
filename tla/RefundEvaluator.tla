--------------------------- MODULE RefundEvaluator ---------------------------
(***************************************************************************)
(* The refund policy engine (server/src/services/refund-evaluator.ts): for *)
(* one invoice whose payments are Payments, decides whether a refund may   *)
(* be executed, needs a second person, or is refused, and which payment it *)
(* comes from.  It only reads: the customer's status, the refunds billing  *)
(* holds (through Billing.tla), the refund window and the caller's policy. *)
(*                                                                         *)
(* The customer and the invoice are read from two systems at the same      *)
(* time; here that is one read, since what it saw may be stale by the next *)
(* step anyway.                                                            *)
(*                                                                         *)
(* The conflicts "nothing left", "more than is left" and "no single        *)
(* payment covers it" are one case here: no payment covers the amount.     *)
(* The request names an invoice of its own customer.                       *)
(***************************************************************************)
EXTENDS Billing

CONSTANTS
    PaidAt,         \* [Payments -> Nat], order in which payments were made
    Users,          \* callers of the server
    Policies,       \* effective policies a user's roles can give
    MaxChanges      \* bound: changes of status, window and policies in a behaviour

ASSUME EvaluatorAssumption ==
    /\ PaidAt \in [Payments -> Nat]
    /\ \A p, q \in Payments : PaidAt[p] = PaidAt[q] => p = q
    /\ \A S \in (SUBSET Payments) \ {{}} :      \* finitely many: some payment is the newest
          \E p \in S : \A q \in S : PaidAt[p] >= PaidAt[q]
    /\ Policies \subseteq [canApprove : BOOLEAN, direct : Nat, approval : Nat]
    /\ MaxChanges \in Nat

VARIABLES
    customerActive, \* whether the customer's status is "active"
    pastWindow,     \* payments whose refund window has closed
    policy,         \* [Users -> Policies], from the role policy store
    changes         \* counts the changes, up to MaxChanges

evaluatorVars == <<customerActive, pastWindow, policy, changes>>

EvaluatorTypeOK ==
    /\ customerActive \in BOOLEAN
    /\ pastWindow \subseteq Payments
    /\ policy \in [Users -> Policies]
    /\ changes \in 0..MaxChanges

EvaluatorInit ==
    /\ customerActive = TRUE
    /\ pastWindow = {}
    /\ policy \in [Users -> Policies]
    /\ changes = 0

-----------------------------------------------------------------------------
(* The decision for policy pol and amount a. *)

(* refundableOn: what is left of a succeeded payment, 0 on any other. *)
RefundableOn(p) == IF p \in Succeeded /\ Left(p) > 0 THEN Left(p) ELSE 0

Candidates(a) == {p \in Payments : RefundableOn(p) >= a}

(* The newest payment that covers the whole amount. *)
Chosen(a) ==
    CHOOSE p \in Candidates(a) : \A q \in Candidates(a) : PaidAt[p] >= PaidAt[q]

NeedsApproval(pol, a) == Chosen(a) \in pastWindow \/ a > pol.direct

(* evaluate() throws. *)
Refused(pol, a) ==
    \/ pol.direct = 0 /\ pol.approval = 0
    \/ ~ customerActive
    \/ Candidates(a) = {}
    \/ NeedsApproval(pol, a) /\ a > pol.approval

Action(pol, a) == IF NeedsApproval(pol, a) THEN "request_approval" ELSE "execute"

-----------------------------------------------------------------------------
(* What the decision reads changes under it. *)

(* Support suspends the customer or lifts the suspension. *)
ChangeStatus ==
    /\ customerActive' = ~ customerActive
    /\ UNCHANGED <<pastWindow, policy>>

(* Days pass, or the customer moves to a tier with another window. *)
ShiftWindow(p) ==
    /\ pastWindow' = IF p \in pastWindow THEN pastWindow \ {p} ELSE pastWindow \cup {p}
    /\ UNCHANGED <<customerActive, policy>>

(* An administrator edits role policies. *)
ChangePolicy(u) ==
    /\ policy' \in {[policy EXCEPT ![u] = pol] : pol \in Policies}
    /\ UNCHANGED <<customerActive, pastWindow>>

Surroundings ==
    /\ changes < MaxChanges
    /\ changes' = changes + 1
    /\ \/ ChangeStatus
       \/ \E p \in Payments : ShiftWindow(p)
       \/ \E u \in Users : ChangePolicy(u)

=============================================================================
