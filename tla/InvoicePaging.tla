----------------------------- MODULE InvoicePaging -----------------------------
(***************************************************************************)
(* get_customer_invoices: the pages of one customer's invoices             *)
(* (BillingService.listInvoices, server/src/services/billing-service.ts),  *)
(* newest first, with an opaque cursor (services/cursor.ts), over the list *)
(* endpoint of billing (server/src/crm-system/routes/billing.ts).          *)
(*                                                                         *)
(* Billing filters by its own status; whether a paid invoice is refunded   *)
(* in part or in full is worked out here, so one page may take several     *)
(* upstream calls.  Between those calls, and between pages, invoices are   *)
(* issued and refunded.  Invoices are numbered in the order they were      *)
(* issued, no two at the same moment; dates are left out of the filter.    *)
(***************************************************************************)
EXTENDS Integers, Sequences, FiniteSets

CONSTANTS
    Filters,        \* the filters a reader uses
    Limits,         \* page sizes a reader asks for
    BatchSize,      \* BATCH_SIZE: invoices per upstream call
    MaxCalls,       \* MAX_UPSTREAM_CALLS: upstream calls per page
    MaxInvoices,    \* bound: invoices of the customer
    MaxMoves        \* bound: invoices issued or refunded during the walk

FilterStatuses == {"any", "open", "paid", "partially_refunded", "refunded"}

ASSUME PagingAssumption ==
    /\ Filters \subseteq FilterStatuses
    /\ Limits \subseteq Nat \ {0}
    /\ BatchSize \in Nat \ {0} /\ MaxCalls \in Nat \ {0} /\ MaxInvoices \in Nat /\ MaxMoves \in Nat

VARIABLES
    rows,           \* the invoices, oldest first: status at billing and what is refunded
    walk,           \* the reader: filter, cursor, and the page being put together
    shown,          \* sequence of the invoices on the pages shown so far
    steady          \* history: invoices that were there and matched since the walk began

pageVars == <<rows, walk, shown, steady>>

-----------------------------------------------------------------------------
(* Types *)

Row == [status : {"open", "paid"}, refunded : {"none", "part", "full"}]

Walk == [pc        : {"idle", "page", "between", "refused", "done"},
         filter    : FilterStatuses,
         offset    : Nat,
         limit     : Nat,
         calls     : 0..MaxCalls,
         collected : Seq(1..MaxInvoices),
         more      : BOOLEAN,
         moves     : 0..MaxMoves]   \* invoices issued or refunded meanwhile

PagingTypeOK ==
    /\ rows \in Seq(Row) /\ Len(rows) <= MaxInvoices
    /\ walk \in Walk
    /\ shown \in Seq(1..MaxInvoices)
    /\ steady \subseteq 1..MaxInvoices

PagingInit ==
    /\ \E n \in 0..MaxInvoices : rows \in [1..n -> {r \in Row : r.status = "open" => r.refunded = "none"}]
    /\ walk = [pc |-> "idle", filter |-> "any", offset |-> 0, limit |-> 0, calls |-> 0,
               collected |-> << >>, more |-> TRUE, moves |-> 0]
    /\ shown = << >>
    /\ steady = {}

-----------------------------------------------------------------------------
(* Statuses *)

(* The status shown: billing's, refined by what has been refunded. *)
DeriveStatus(r) ==
    IF r.status # "paid" \/ r.refunded = "none" THEN r.status
    ELSE IF r.refunded = "full" THEN "refunded" ELSE "partially_refunded"

(* The status billing is asked for. *)
UpstreamStatus(f) == IF f \in {"partially_refunded", "refunded"} THEN "paid" ELSE f

Matches(f, r) == f = "any" \/ DeriveStatus(r) = f

MatchingIds(f) == {i \in DOMAIN rows : Matches(f, rows[i])}

-----------------------------------------------------------------------------
(* GET /billing/v1/invoices *)

(* The place of invoice i among ids, newest first. *)
Place(ids, i) == Cardinality({j \in ids : j >= i})

NewestFirst(ids) == [k \in 1..Cardinality(ids) |-> CHOOSE i \in ids : Place(ids, i) = k]

Listed(f) == {i \in DOMAIN rows : f = "any" \/ rows[i].status = UpstreamStatus(f)}

HasMore(f, offset) == Cardinality(Listed(f)) > offset + BatchSize

UpstreamPage(f, offset) ==
    {i \in Listed(f) : Place(Listed(f), i) \in (offset + 1)..(offset + BatchSize)}

-----------------------------------------------------------------------------
(* listInvoices *)

(* Mutant: the cursor is good for any filter. *)
DecodeAnyCursor(f, limit) ==
    walk' = [walk EXCEPT !.pc = "page", !.filter = f, !.limit = limit, !.calls = 0,
                         !.more = TRUE, !.collected = << >>]

(* decodeCursor: the offset to go on from, if the cursor belongs to these filters. *)
DecodeCursor(f, limit) ==
    walk' = IF f = walk.filter
            THEN [walk EXCEPT !.pc = "page", !.limit = limit, !.calls = 0, !.more = TRUE,
                              !.collected = << >>]
            ELSE [walk EXCEPT !.pc = "refused"]

(* The first page: no cursor. *)
FirstPage(f, limit) ==
    /\ walk.pc = "idle"
    /\ walk' = [walk EXCEPT !.pc = "page", !.filter = f, !.limit = limit]
    /\ steady' = MatchingIds(f)
    /\ UNCHANGED <<rows, shown>>

NextPage(f, limit) ==
    /\ walk.pc = "between"
    /\ DecodeCursor(f, limit)
    /\ UNCHANGED <<rows, shown, steady>>

Reading ==
    walk.pc = "page" /\ Len(walk.collected) < walk.limit /\ walk.more /\ walk.calls < MaxCalls

(* What the page takes of a batch: the first wanted matches. *)
Taken(batch, wanted) ==
    LET matching == batch \cap MatchingIds(walk.filter)
    IN  {i \in matching : Place(matching, i) <= wanted}

(* Mutant: the whole batch counts as read. *)
ConsumedWhole(batch, wanted) == batch

(* What is read of a batch: down to the invoice that fills the page. *)
Consumed(batch, wanted) ==
    IF Cardinality(Taken(batch, wanted)) < wanted
    THEN batch
    ELSE {i \in batch : \E j \in Taken(batch, wanted) : i >= j}

(* One upstream call. *)
ReadBatch ==
    LET batch == UpstreamPage(walk.filter, walk.offset)
        wanted == walk.limit - Len(walk.collected)
        consumed == Consumed(batch, wanted)
    IN  /\ Reading
        /\ walk' = [walk EXCEPT !.calls = @ + 1,
                       !.collected = @ \o NewestFirst(Taken(batch, wanted)),
                       !.offset = @ + Cardinality(consumed),
                       !.more = consumed # batch \/ HasMore(walk.filter, walk.offset)]
        /\ UNCHANGED <<rows, shown, steady>>

(* The page, and the cursor of the next one if there is more to read. *)
ShowPage ==
    /\ walk.pc = "page" /\ ~ Reading
    /\ shown' = shown \o walk.collected
    /\ walk' = [walk EXCEPT !.pc = IF walk.more THEN "between" ELSE "done", !.collected = << >>]
    /\ UNCHANGED <<rows, steady>>

-----------------------------------------------------------------------------
(* Meanwhile *)

(* What happens before the walk begins, PagingInit covers. *)
Move ==
    /\ walk.pc # "idle" /\ walk.moves < MaxMoves
    /\ walk' = [walk EXCEPT !.moves = @ + 1]

(* A new invoice goes to the front of the list. *)
IssueInvoice(status) ==
    /\ Len(rows) < MaxInvoices
    /\ rows' = Append(rows, [status |-> status, refunded |-> "none"])
    /\ Move
    /\ UNCHANGED <<shown, steady>>

(* A refund changes what an invoice matches. *)
RefundInvoice(i) ==
    /\ rows[i].status = "paid" /\ rows[i].refunded # "full"
    /\ \E amount \in {"part", "full"} : rows' = [rows EXCEPT ![i].refunded = amount]
    /\ Move
    /\ steady' = {j \in steady : j = i => Matches(walk.filter, rows'[i])}
    /\ UNCHANGED shown

PagingNext ==
    \/ \E f \in Filters, limit \in Limits : FirstPage(f, limit) \/ NextPage(f, limit)
    \/ ReadBatch \/ ShowPage
    \/ \E status \in {"open", "paid"} : IssueInvoice(status)
    \/ \E i \in DOMAIN rows : RefundInvoice(i)

PagingSpec == PagingInit /\ [][PagingNext]_pageVars

-----------------------------------------------------------------------------
(* Properties *)

(* As long as nothing is issued or refunded, the pages are the matching invoices, newest
   first, each once, whatever the page sizes and however they fall on the batches. *)
PagesAreTheList ==
    walk.moves = 0 =>
       LET wanted == NewestFirst(MatchingIds(walk.filter))
           got == shown \o walk.collected
       IN  walk.pc # "idle" =>
              /\ Len(got) <= Len(wanted) /\ got = SubSeq(wanted, 1, Len(got))
              /\ walk.pc = "done" => got = wanted
              /\ Len(walk.collected) <= walk.limit

(* A walk to the last page has shown every invoice that was there and matched from its
   beginning to its end, also when others are issued and refunded meanwhile
   (billing-service.ts:155-182). *)
NothingSkipped ==
    walk.pc = "done" => \A i \in steady : \E k \in DOMAIN shown : shown[k] = i

=============================================================================
