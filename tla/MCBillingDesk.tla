----------------------------- MODULE MCBillingDesk -----------------------------
(***************************************************************************)
(* The two parts of billing that share nothing but the invoices' order:    *)
(* creating subscriptions, and reading invoices page by page.  A behaviour *)
(* is one of the one part or one of the other; what creating adds to the   *)
(* list is IssueInvoice in the reading part.                               *)
(***************************************************************************)
EXTENDS Subscriptions, InvoicePaging

CONSTANT u1

VARIABLE part       \* which part this behaviour is of

vars == <<part, subVars, pageVars>>

(* One invoice is there from the start. *)
MCFirstInvoices == {[customer |-> u1, year |-> 0, seq |-> 1, plan |-> None,
                     paying |-> None]}

Init ==
    /\ part \in {"subscriptions", "pages"}
    /\ SubInit /\ PagingInit
    /\ part = "subscriptions" => rows = << >>
    /\ part = "pages" => custStatus = [u \in Customers |-> "active"] /\ subs = {}

Creating == part = "subscriptions" /\ UNCHANGED <<part, pageVars>>

Reads == part = "pages" /\ UNCHANGED <<part, subVars>>

Next == (SubNext /\ Creating) \/ (PagingNext /\ Reads)

Spec == Init /\ [][Next]_vars /\ \A c \in Calls : SF_vars(SubStep(c) /\ Creating)

=============================================================================
