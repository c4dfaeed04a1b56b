-------------------------------- MODULE Tickets --------------------------------
(***************************************************************************)
(* Support tickets: create_support_ticket and update_ticket                *)
(* (server/src/services/support-service.ts) inside withIdempotency         *)
(* (Idempotency.tla), on top of the ticketing system                       *)
(* (server/src/crm-system/routes/ticketing.ts).                            *)
(*                                                                         *)
(* A ticket is its status and its priority; the assignee is handled as the *)
(* priority is, and texts play no part.  Every write of the service is one *)
(* HTTP request, never retried, which may still take effect after the      *)
(* service gave up on it.  Requests that validation, a missing customer or *)
(* a missing ticket turn away change nothing and are left out.  As it      *)
(* stands support-service.ts lacks the imports of withIdempotency and      *)
(* hasRole that its lines 51, 226 and 308 use; they are taken as there.    *)
(***************************************************************************)
EXTENDS Integers, Sequences, FiniteSets

CONSTANTS
    Calls,          \* calls of createTicket and updateTicket
    Ids,            \* user + operation + arguments, as withIdempotency tells them apart
    RequestOf,      \* [Ids -> Request], what each of them asks for
    Leads,          \* ids whose user is a support lead or an admin
    None,           \* no call, no id, no result
    Seeds,          \* the rows the table may start with: a set of sequences of rows
    MaxTickets,     \* bound: ticket numbers
    MaxFaults       \* bound: failures and expiries in a behaviour

Statuses == {"open", "pending", "resolved", "closed"}
Priorities == {"normal", "high", "urgent"}
Fields == {"status", "priority"}
Numbers == 1..MaxTickets

(* What the caller asks for.  "keep" leaves a field out of the request. *)
Request ==
    [op       : {"create", "update"},
     ticket   : Numbers \cup {0},
     status   : Statuses \cup {"keep"},
     priority : Priorities \cup {"keep"},
     note     : BOOLEAN]

Result == [by : Calls, ticket : Numbers]

ASSUME TicketsAssumption ==
    /\ MaxTickets \in Nat /\ MaxFaults \in Nat
    /\ \A s \in Seeds : s \in Seq([status : Statuses, priority : Priorities, by : {None}]) /\ Len(s) <= MaxTickets
    /\ RequestOf \in [Ids -> Request]
    /\ \A i \in Ids : RequestOf[i].op = "update" => RequestOf[i].ticket \in Numbers
    /\ Leads \subseteq Ids
    /\ None \notin Calls \cup Ids \cup Result

VARIABLES
    idemResult, idemLock, idem, overran, forgotten,   \* see Idempotency.tla
    ticket,         \* [Numbers -> row], mock.tickets
    log,            \* [Numbers -> sequence of entries], mock.ticket_comments as they were committed
    begun,          \* [Numbers -> Nat], the transactions begun on each ticket: the time of created_at
    request,        \* [Calls -> record], the HTTP request each call has sent last
    run,            \* [Calls -> step], where each run is
    raced,          \* history: calls whose ticket changed between their check and their write
    faults          \* counts the faults, up to MaxFaults

Idem == INSTANCE Idempotency WITH Results <- Result

idemVars == <<idemResult, idemLock, idem, overran, forgotten>>
deskVars == <<ticket, log, begun, raced>>
ticketVars == <<idemVars, deskVars, request, run, faults>>

-----------------------------------------------------------------------------
(* Types *)

Row == [status : Statuses, priority : Priorities, by : Ids \cup {None}]
NoRow == [status |-> "none", priority |-> "none", by |-> None]

Change == [field : Fields, from : Statuses \cup Priorities, to : Statuses \cup Priorities]

(* "at" is created_at, which is when the transaction began: comments are read in this
   order.  "was" is what the row really held when the entry was written. *)
Entry == [kind : {"created", "changed", "note", "lowered"}, call : Calls \cup {None}, at : Nat,
          changes : SUBSET Change, was : [status : Statuses, priority : Priorities]]

HttpRequest ==
    [pc      : {"none", "post", "read", "apply", "comment", "done", "failed"},
     ticket  : Numbers \cup {0},
     patch   : SUBSET [field : Fields, to : Statuses \cup Priorities],
     changes : SUBSET Change,
     kind    : {"none", "note", "lowered"},
     at      : Nat]                         \* 0 before its transaction begins

NoRequest == [pc |-> "none", ticket |-> 0, patch |-> {}, changes |-> {}, kind |-> "none", at |-> 0]

TicketTypeOK ==
    /\ Idem!IdemTypeOK
    /\ \A n \in Numbers : ticket[n] \in Row \cup {NoRow}
    /\ \A n \in Numbers : \A k \in DOMAIN log[n] : log[n][k] \in Entry
    /\ request \in [Calls -> HttpRequest]
    /\ run \in [Calls -> {"out", "creating", "lowering", "patching", "noting"}]
    /\ begun \in [Numbers -> Nat]
    /\ raced \subseteq Calls
    /\ faults \in 0..MaxFaults

TicketInit ==
    /\ Idem!IdemInit
    /\ \E s \in Seeds : ticket = [n \in Numbers |-> IF n \in DOMAIN s THEN s[n] ELSE NoRow]
    /\ log = [n \in Numbers |-> << >>]
    /\ request = [c \in Calls |-> NoRequest]
    /\ run = [c \in Calls |-> "out"]
    /\ begun = [n \in Numbers |-> 0]
    /\ raced = {}
    /\ faults = 0

-----------------------------------------------------------------------------
(* The rules of the service *)

Allowed ==
    [open     |-> {"pending", "resolved"},
     pending  |-> {"open", "resolved"},
     resolved |-> {"open", "closed"},
     closed   |-> {"open"}]

(* "urgent" is for leads and admins; anybody else gets "high". *)
Granted(i, p) == IF p = "urgent" /\ i \notin Leads THEN "high" ELSE p

Applied(i) == Granted(i, IF RequestOf[i].priority = "keep" THEN "normal" ELSE RequestOf[i].priority)

Lowered(i) == RequestOf[i].op = "create" /\ RequestOf[i].priority = "urgent" /\ i \notin Leads

PatchOf(i) ==
    LET q == RequestOf[i]
    IN  {p \in {[field |-> "status", to |-> q.status],
                [field |-> "priority", to |-> Granted(i, q.priority)]} : p.to # "keep"}

(* Mutant: anybody may reopen a closed ticket. *)
PermittedToAnyone(i, status) ==
    RequestOf[i].status \notin {"keep", status} => RequestOf[i].status \in Allowed[status]

(* The status asked for can follow this one, and this user may reopen what is closed. *)
Permitted(i, status) ==
    RequestOf[i].status \notin {"keep", status} =>
       /\ RequestOf[i].status \in Allowed[status]
       /\ status = "closed" => i \in Leads

-----------------------------------------------------------------------------
(* The ticketing system *)

FieldsOf(n) == [f \in Fields |-> ticket[n][f]]

WriteEntry(n, kind, c, changes) ==
    log' = [log EXCEPT ![n] =
       Append(@, [kind |-> kind, call |-> c, at |-> request[c].at,
                  changes |-> changes, was |-> FieldsOf(n)])]

Reached(c, pc) == request' = [request EXCEPT ![c].pc = pc]

(* POST /tickets: number, row and first comment in one transaction.  nextval may skip
   numbers, but never gives one out twice. *)
PostTicket(c) ==
    LET i == idem[c].id
    IN  /\ request[c].pc = "post"
        /\ \E n \in Numbers :
              /\ ticket[n] = NoRow
              /\ ticket' = [ticket EXCEPT ![n] =
                    [status |-> "open", priority |-> Applied(i), by |-> i]]
              /\ log' = [log EXCEPT ![n] = << [kind |-> "created", call |-> c, at |-> 0,
                    changes |-> {}, was |-> [status |-> "open", priority |-> Applied(i)]] >>]
              /\ request' = [request EXCEPT ![c].pc = "done", ![c].ticket = n]
        /\ UNCHANGED <<begun, raced>>

(* PATCH: the row is read, and what the patch would change in it is noted. *)
ReadForPatch(c) ==
    LET n == request[c].ticket
        changes == {[field |-> p.field, from |-> ticket[n][p.field], to |-> p.to] :
                      p \in {q \in request[c].patch : q.to # ticket[n][q.field]}}
    IN  /\ request[c].pc = "read"
        /\ request' = [request EXCEPT ![c].changes = changes,
                                      ![c].pc = IF changes = {} THEN "done" ELSE "apply"]
        /\ UNCHANGED deskVars

(* BEGIN of the transaction that writes: its time will be created_at of its comment. *)
BeginWrite(c) ==
    LET n == request[c].ticket
    IN  /\ request[c].pc \in {"apply", "comment"} /\ request[c].at = 0
        /\ begun' = [begun EXCEPT ![n] = @ + 1]
        /\ request' = [request EXCEPT ![c].at = begun[n] + 1]
        /\ UNCHANGED <<ticket, log, raced>>

(* Mutant: the whole patch is written, beyond the changes that are listed. *)
ApplyWholePatch(c) ==
    LET n == request[c].ticket
        To(f) == IF \E p \in request[c].patch : p.field = f
                 THEN (CHOOSE p \in request[c].patch : p.field = f).to
                 ELSE ticket[n][f]
    IN  /\ request[c].pc = "apply" /\ request[c].at # 0
        /\ ticket' = [ticket EXCEPT ![n].status = To("status"), ![n].priority = To("priority")]
        /\ WriteEntry(n, "changed", c, request[c].changes)
        /\ Reached(c, "done")
        /\ UNCHANGED <<begun, raced>>

(* ... and the changed fields are written, with a comment that lists them, in one
   transaction, which takes effect once it has the lock of the row.  The row is not
   locked since it was read. *)
ApplyPatch(c) ==
    LET n == request[c].ticket
        To(f) == IF \E e \in request[c].changes : e.field = f
                 THEN (CHOOSE e \in request[c].changes : e.field = f).to
                 ELSE ticket[n][f]
    IN  /\ request[c].pc = "apply" /\ request[c].at # 0
        /\ ticket' = [ticket EXCEPT ![n].status = To("status"), ![n].priority = To("priority")]
        /\ WriteEntry(n, "changed", c, request[c].changes)
        /\ raced' = IF To("status") = ticket[n].status THEN raced
                    ELSE raced \cup {d \in Calls \ {c} : /\ request[d].pc \in {"read", "apply"}
                                                         /\ request[d].ticket = n}
        /\ Reached(c, "done")
        /\ UNCHANGED begun

(* POST /tickets/:ticketNumber/comments. *)
PostComment(c) ==
    /\ request[c].pc = "comment" /\ request[c].at # 0
    /\ WriteEntry(request[c].ticket, request[c].kind, c, {})
    /\ Reached(c, "done")
    /\ UNCHANGED <<ticket, begun, raced>>

DeskStep(c) ==
    /\ \/ PostTicket(c)
       \/ ReadForPatch(c) \/ BeginWrite(c) \/ ApplyPatch(c)
       \/ PostComment(c)
    /\ UNCHANGED <<idemVars, run>>

-----------------------------------------------------------------------------
(* The service *)

Send(c, pc, n, patch, kind) ==
    request' = [request EXCEPT ![c] =
       [pc |-> pc, ticket |-> n, patch |-> patch, changes |-> {}, kind |-> kind, at |-> 0]]

At(c, step) == run' = [run EXCEPT ![c] = step]

Return(c, n) ==
    /\ Idem!RunDone(c, [by |-> c, ticket |-> n])
    /\ At(c, "out")
    /\ UNCHANGED request

Throw(c) == Idem!RunFails(c) /\ At(c, "out")

(* A tool call reaches the service, whose input is valid. *)
Ask(c, i) ==
    /\ idem[c].pc = "idle"
    /\ Idem!Enter(c, i)
    /\ UNCHANGED <<deskVars, request, run>>

Running(c, op) == idem[c].pc = "run" /\ RequestOf[idem[c].id].op = op

StartCreate(c) ==
    /\ Running(c, "create") /\ run[c] = "out"
    /\ Send(c, "post", 0, {}, "none")
    /\ At(c, "creating")
    /\ UNCHANGED <<idemVars, deskVars>>

(* GET the ticket, check the rules, and send the patch, or else the note. *)
StartUpdate(c) ==
    LET i == idem[c].id
        n == RequestOf[i].ticket
    IN  /\ Running(c, "update") /\ run[c] = "out"
        /\ IF ticket[n] = NoRow \/ ~ Permitted(i, ticket[n].status)
           THEN Throw(c) /\ UNCHANGED request
           ELSE /\ IF PatchOf(i) # {}
                   THEN Send(c, "read", n, PatchOf(i), "none") /\ At(c, "patching")
                   ELSE Send(c, "comment", n, {}, "note") /\ At(c, "noting")
                /\ UNCHANGED idemVars
        /\ UNCHANGED deskVars

(* The ticket is there: if its priority was lowered, a comment says why. *)
TicketCreated(c) ==
    LET n == request[c].ticket
    IN  /\ run[c] = "creating" /\ request[c].pc = "done"
        /\ IF Lowered(idem[c].id)
           THEN Send(c, "comment", n, {}, "lowered") /\ At(c, "lowering") /\ UNCHANGED idemVars
           ELSE Return(c, n)
        /\ UNCHANGED deskVars

(* Mutant: the answer to the patch ends the run, note or no note. *)
TicketPatchedOnly(c) ==
    /\ run[c] = "patching" /\ request[c].pc = "done"
    /\ Return(c, request[c].ticket)
    /\ UNCHANGED deskVars

TicketPatched(c) ==
    LET n == request[c].ticket
    IN  /\ run[c] = "patching" /\ request[c].pc = "done"
        /\ IF RequestOf[idem[c].id].note
           THEN Send(c, "comment", n, {}, "note") /\ At(c, "noting") /\ UNCHANGED idemVars
           ELSE Return(c, n)
        /\ UNCHANGED deskVars

CommentAdded(c) ==
    /\ run[c] \in {"lowering", "noting"} /\ request[c].pc = "done"
    /\ Return(c, request[c].ticket)
    /\ UNCHANGED deskVars

RunStep(c) ==
    \/ StartCreate(c) \/ StartUpdate(c)
    \/ TicketCreated(c) \/ TicketPatched(c) \/ CommentAdded(c)

-----------------------------------------------------------------------------
(* Failures *)

(* The request fails over there and is rolled back; the service hears of it. *)
RequestFails(c) ==
    /\ request[c].pc \in {"post", "read", "apply", "comment"}
    /\ Reached(c, "failed")
    /\ IF run[c] = "out" THEN UNCHANGED <<idemVars, run>> ELSE Throw(c)
    /\ UNCHANGED deskVars

(* No answer in time, or none that can be read, also to the first GET: the request may go
   on over there. *)
CallFails(c) ==
    /\ idem[c].pc = "run"
    /\ Throw(c)
    /\ UNCHANGED <<deskVars, request>>

(* The process dies. *)
ServerDies(c) ==
    /\ Idem!Die(c)
    /\ At(c, "out")
    /\ UNCHANGED <<deskVars, request>>

IdemFault ==
    /\ \/ \E c \in Calls : Idem!RedisFails(c)
       \/ \E i \in Ids : Idem!LockExpires(i) \/ Idem!ResultExpires(i)
    /\ UNCHANGED <<deskVars, request, run>>

Fault == IdemFault \/ \E c \in Calls : RequestFails(c) \/ CallFails(c) \/ ServerDies(c)

TicketNext ==
    \/ /\ \E c \in Calls :
             \/ \E i \in Ids : Ask(c, i)
             \/ Idem!IdemStep(c) /\ UNCHANGED <<deskVars, request, run>>
             \/ RunStep(c)
             \/ DeskStep(c)
       /\ UNCHANGED faults
    \/ Fault /\ faults < MaxFaults /\ faults' = faults + 1

TicketSpec == TicketInit /\ [][TicketNext]_ticketVars

-----------------------------------------------------------------------------
(* Properties *)

Changes(e, f) == \E ch \in e.changes : ch.field = f
ChangedTo(e, f) == (CHOOSE ch \in e.changes : ch.field = f).to

(* What the fields of a ticket were once an entry had been written. *)
After(e) == [f \in Fields |-> IF Changes(e, f) THEN ChangedTo(e, f) ELSE e.was[f]]

(* The entries, in the order they took effect, lead from each state to the next. *)
StatesFollow(n) ==
    log[n] # << >> =>
       /\ FieldsOf(n) = After(log[n][Len(log[n])])
       /\ \A k \in 1..(Len(log[n]) - 1) : log[n][k + 1].was = After(log[n][k])

(* The change of f that is read last is the present value, unless it was overtaken: a
   change that began before it took effect after it. *)
LastReadIsPresent(n, f) ==
    \A k \in DOMAIN log[n] :
       /\ Changes(log[n][k], f)
       /\ \A j \in DOMAIN log[n] : Changes(log[n][j], f) => log[n][j].at <= log[n][k].at
       => \/ ChangedTo(log[n][k], f) = ticket[n][f]
          \/ \E j \in DOMAIN log[n] : /\ j > k /\ Changes(log[n][j], f)
                                       /\ log[n][j].at <= log[n][k].at

(* "Every change is recorded on the ticket" (support-service.ts:255): the listed changes
   account for every state of the ticket, so concurrent updates of two fields do not undo
   each other; and whoever reads the comments, which come by created_at
   (ticketing.ts:77), finds the present value of each field in the last change of it,
   unless two changes of that field were under way at once. *)
HistoryLeadsToState ==
    \A n \in Numbers : StatesFollow(n) /\ \A f \in Fields : LastReadIsPresent(n, f)

(* The recorded status changes follow ALLOWED_TRANSITIONS, start from the status the
   ticket had, and reopen a closed ticket for leads only, but for updates during which
   somebody else changed the status (support-service.ts:254-255, 313). *)
RulesUnlessRaced ==
    \A n \in Numbers : \A k \in DOMAIN log[n] : \A ch \in log[n][k].changes :
       LET e == log[n][k]
       IN  ch.field = "status" /\ e.call \notin raced =>
              /\ ch.from = e.was.status
              /\ ch.to \in Allowed[ch.from]
              /\ ch.from = "closed" => idem[e.call].id \in Leads

CallsOf(i) == {c \in Calls : idem[c].id = i}

(* The number of notes that calls of i have put on ticket n. *)
Notes(i, n) ==
    Cardinality({k \in DOMAIN log[n] : log[n][k].kind = "note" /\ log[n][k].call \in CallsOf(i)})

(* A request creates one ticket or adds one note, however often it is repeated and also
   when its repetitions run beside each other, unless one of its calls failed or outlived
   its lock, or its stored result has expired (create-support-ticket.ts:20). *)
OncePerRequest ==
    \A i \in Ids \ forgotten :
       \/ /\ Cardinality({n \in Numbers : ticket[n].by = i}) <= 1
          /\ \A n \in Numbers : Notes(i, n) <= 1
       \/ \E c \in CallsOf(i) : idem[c].answer = "failed" \/ c \in overran

(* A success, at once or from the store, means that all of the request was done: the
   ticket exists with the comment on its lowered priority, or the ticket had the values
   asked for at some point and carries the note (support-service.ts:230-243, 343-367). *)
SuccessIsWhole ==
    \A c \in Calls :
       idem[c].answer \in Idem!Success =>
          LET i == idem[c].id
              n == idem[c].result.ticket
              Written(kind) == \E k \in DOMAIN log[n] :
                                  log[n][k].kind = kind /\ log[n][k].call \in CallsOf(i)
          IN  IF RequestOf[i].op = "create"
              THEN ticket[n].by = i /\ (Lowered(i) => Written("lowered"))
              ELSE /\ n = RequestOf[i].ticket
                   /\ RequestOf[i].note => Written("note")
                   /\ \A p \in PatchOf(i) :
                         \/ ticket[n][p.field] = p.to
                         \/ \E k \in DOMAIN log[n] : log[n][k].was[p.field] = p.to

=============================================================================
