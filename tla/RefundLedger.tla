---------------------------- MODULE RefundLedger ----------------------------
(***************************************************************************)
(* What the billing system promises about refunds, without saying how:     *)
(* a payment is never refunded beyond its amount, and an idempotency key   *)
(* pays out at most once, for the payment and the amount it named.  The    *)
(* handler of Billing.tla, with its replay lookup, row lock and unique     *)
(* index, is shown to implement this specification.                        *)
(***************************************************************************)
EXTENDS Integers

CONSTANTS
    Payments,       \* payment references
    PaymentAmount,  \* [Payments -> Nat], what each payment collected
    SeedRefunded,   \* [Payments -> Nat], refunds that exist at the start
    Keys,           \* idempotency keys
    Amounts         \* amounts a refund may ask for

VARIABLES
    entries,        \* set of [key, payment, amount] paid out
    paid            \* [Payments -> Nat], total paid out of each payment

ledgerVars == <<entries, paid>>

Init ==
    /\ entries = {}
    /\ paid = SeedRefunded

(* Pays amount a out of payment p under key k. *)
Pay(k, p, a) ==
    /\ \A e \in entries : e.key # k
    /\ paid[p] + a <= PaymentAmount[p]
    /\ entries' = entries \cup {[key |-> k, payment |-> p, amount |-> a]}
    /\ paid' = [paid EXCEPT ![p] = @ + a]

Next == \E k \in Keys, p \in Payments, a \in Amounts : Pay(k, p, a)

Spec == Init /\ [][Next]_ledgerVars

=============================================================================
