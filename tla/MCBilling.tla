------------------------------ MODULE MCBilling ------------------------------
(* A small billing system for TLC: three requests over three payments, one of
   them partly refunded by the seed and one that cannot be refunded. *)
EXTENDS Billing, TLC

CONSTANTS p1, p2, p3

MCAmount == (p1 :> 3) @@ (p2 :> 2) @@ (p3 :> 0)
MCSeed   == (p1 :> 1) @@ (p2 :> 0) @@ (p3 :> 0)

=============================================================================
