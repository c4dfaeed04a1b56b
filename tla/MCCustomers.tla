------------------------------ MODULE MCCustomers ------------------------------
(* Two parts, of which a behaviour is one.  Writes: one customer, and three calls that
   each send one of five requests: two creates with one address, of which the first looks
   like the customer by its name, an agent's change of the customer's address to it, alone
   or with a new tier, and a lead's change of the tier.  Overview: one getAccount. *)
EXTENDS Customers, AccountOverview, TLC

CONSTANTS first, second, readdress, grab, upgrade, acme, traders, bolt, old, new

MCNames == {<<acme>>, <<acme, traders>>, <<bolt>>}

Asked(op, ref, name, email, tier, sets) ==
    [op |-> op, ref |-> ref, name |-> name, email |-> email, tier |-> tier, sets |-> sets]

MCRequestOf ==
    (first     :> Asked("create", 0, <<acme, traders>>, new, "standard", {}))
 @@ (second    :> Asked("create", 0, <<bolt>>, new, "standard", {}))
 @@ (readdress :> Asked("update", 1, <<bolt>>, new, "standard", {"email"}))
 @@ (grab      :> Asked("update", 1, <<bolt>>, new, "enterprise", {"email", "tier"}))
 @@ (upgrade   :> Asked("update", 1, <<bolt>>, old, "enterprise", {"tier"}))

MCFirstCustomers == <<[name |-> <<acme, traders>>, email |-> old, tier |-> "standard", emailBy |-> None]>>

MCDomainOf == (old :> "acme.example") @@ (new :> "gmail.com")

VARIABLE part       \* which part this behaviour is of

vars == <<part, customerVars, overviewVars>>

Init == part \in {"writes", "overview"} /\ CustomerInit /\ OverviewInit

Next ==
    \/ part = "writes" /\ CustomerNext /\ UNCHANGED <<part, overviewVars>>
    \/ part = "overview" /\ OverviewNext /\ UNCHANGED <<part, customerVars>>

Spec == Init /\ [][Next]_vars

MCSymmetry == Permutations(Calls)

=============================================================================
