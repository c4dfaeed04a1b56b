--------------------------- MODULE MCRefundService ---------------------------
(* One person confirms one request on an invoice with two payments, from up to two
   previews and with up to two calls at once, under two policies. *)
EXTENDS RefundService, TLC

CONSTANTS p1, p2, u1, r1, key1, key2

MCAmount   == (p1 :> 1) @@ (p2 :> 1)
MCRoomy    == (p1 :> 2) @@ (p2 :> 1)    \* p1 covers the request twice
MCSeed     == (p1 :> 0) @@ (p2 :> 0)
MCPaidAt   == (p1 :> 2) @@ (p2 :> 1)
MCAmountOf == (r1 :> 1)
MCKeyFor   == (<<u1, r1, p1>> :> key1) @@ (<<u1, r1, p2>> :> key2)

Direct  == [canApprove |-> FALSE, direct |-> 1, approval |-> 1]
AskOnly == [canApprove |-> FALSE, direct |-> 0, approval |-> 1]
MCPolicies == {Direct, AskOnly}

MCSymmetry == Permutations(Calls) \cup Permutations(Tokens)

=============================================================================
