----------------------------- MODULE MCApprovals -----------------------------
(* One approval over an invoice with two payments, three people whose roles may or
   may not approve, and three calls that approve it or refund elsewhere. *)
EXTENDS Approvals, TLC

CONSTANTS p1, p2, a1, ka

MCAmount == (p1 :> 2) @@ (p2 :> 1)
MCSeed   == (p1 :> 0) @@ (p2 :> 0)
MCPaidAt == (p1 :> 2) @@ (p2 :> 1)
MCKey    == (a1 :> ka)

AskOnly    == [canApprove |-> FALSE, direct |-> 1, approval |-> 2]
MayApprove == [canApprove |-> TRUE, direct |-> 1, approval |-> 2]
MCPolicies == {AskOnly, MayApprove}

MCSymmetry == Permutations(Calls) \cup Permutations(Users)

=============================================================================
