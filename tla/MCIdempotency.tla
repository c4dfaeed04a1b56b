---------------------------- MODULE MCIdempotency ----------------------------
(* Three identical requests, whose runs return one of two results. *)
EXTENDS Idempotency

=============================================================================
