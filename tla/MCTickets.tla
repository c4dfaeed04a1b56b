------------------------------- MODULE MCTickets -------------------------------
(* One ticket of high priority in any status, and three calls that each send one of four
   requests: open an urgent ticket, resolve the first ticket with a note, close it with
   high priority, and reopen it with normal priority. *)
EXTENDS Tickets, TLC

CONSTANTS create, resolve, close, reopen

MCRequestOf ==
    (create  :> [op |-> "create", ticket |-> 0, status |-> "keep", priority |-> "urgent", note |-> FALSE])
 @@ (resolve :> [op |-> "update", ticket |-> 1, status |-> "resolved", priority |-> "keep", note |-> TRUE])
 @@ (close   :> [op |-> "update", ticket |-> 1, status |-> "closed", priority |-> "high", note |-> FALSE])
 @@ (reopen  :> [op |-> "update", ticket |-> 1, status |-> "open", priority |-> "normal", note |-> FALSE])

MCSeeds == {<<[status |-> s, priority |-> "high", by |-> None]>> : s \in Statuses}

MCSymmetry == Permutations(Calls)

=============================================================================
