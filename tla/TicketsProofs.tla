---------------------------- MODULE TicketsProofs ----------------------------
(***************************************************************************)
(* Proofs about Tickets.tla for every number of calls, requests and        *)
(* tickets, on top of the proofs about Idempotency.tla.                    *)
(*                                                                         *)
(* The inductive invariant says what a request at the ticketing system     *)
(* carries: a patch that was permitted on the status its ticket still has, *)
(* or changes that start from it, unless the call is marked as raced; and  *)
(* that the last change of a field to take effect left it as it is, which  *)
(* is what the reader of the comments can rely on.                         *)
(*                                                                         *)
(* Composed, the calls still implement withIdempotency.                    *)
(***************************************************************************)
EXTENDS Tickets, FiniteSetTheorems, TLAPS

IP == INSTANCE IdempotencyProofs WITH Results <- Result

(* What the desk and the service keep of their own. *)
DeskTypeOK ==
    /\ ticket \in [Numbers -> Row \cup {NoRow}]
    /\ log \in [Numbers -> Seq(Entry)]
    /\ request \in [Calls -> HttpRequest]
    /\ run \in [Calls -> {"out", "creating", "lowering", "patching", "noting"}]
    /\ begun \in [Numbers -> Nat] /\ raced \subseteq Calls
    /\ faults \in 0..MaxFaults

(* The steps of a run are inside it. *)
InsideRun == \A c \in Calls : run[c] # "out" => idem[c].pc = "run"

(* A status that follows the present one, for a user who may ask for it. *)
Follows(c, ch, status) ==
    /\ ch.from = status
    /\ ch.to \in Allowed[ch.from]
    /\ ch.from = "closed" => idem[c].id \in Leads

(* Call c has sent nothing before it began, and names a ticket that exists.  A patch on
   its way is what was asked for, and permitted unless raced; changes on their way have
   the values of their field, and follow unless raced. *)
RequestOK(c) ==
    /\ request[c].pc # "none" => idem[c].pc # "idle"
    /\ request[c].pc \in {"read", "apply", "comment", "done"} =>
          request[c].ticket \in Numbers /\ ticket[request[c].ticket] # NoRow
    /\ request[c].pc = "read" =>
          /\ request[c].patch = PatchOf(idem[c].id)
          /\ c \notin raced => Permitted(idem[c].id, ticket[request[c].ticket].status)
    /\ request[c].pc = "apply" =>
          \A ch \in request[c].changes :
             /\ ch.field = "status" => ch.to \in Statuses
             /\ ch.field = "priority" => ch.to \in Priorities
             /\ ch.field = "status" /\ c \notin raced =>
                   Follows(c, ch, ticket[request[c].ticket].status)
    /\ request[c].pc = "comment" => request[c].kind # "none"

(* The last change of a field to take effect left it as it is. *)
LastChanges ==
    \A n \in Numbers : \A f \in Fields : \A k \in DOMAIN log[n] :
       /\ Changes(log[n][k], f)
       /\ \A j \in DOMAIN log[n] : j > k => ~ Changes(log[n][j], f)
       => ChangedTo(log[n][k], f) = ticket[n][f]

HistoryInv == LastChanges /\ \A n \in Numbers : StatesFollow(n)

(* Comments are written by calls that have begun. *)
EntriesOfCalls ==
    \A n \in Numbers : \A k \in DOMAIN log[n] :
       log[n][k].call \in Calls /\ idem[log[n][k].call].pc # "idle"

TicketInv ==
    /\ IP!IdemInv /\ DeskTypeOK /\ InsideRun
    /\ \A c \in Calls : RequestOK(c)
    /\ EntriesOfCalls
    /\ HistoryInv /\ RulesUnlessRaced

-----------------------------------------------------------------------------
LEMMA ResultsAreNotNone == None \notin Calls \cup Ids \cup Result
BY TicketsAssumption

LEMMA TicketInitInv == TicketInit => TicketInv
<1> SUFFICES ASSUME TicketInit PROVE TicketInv
  OBVIOUS
<1> USE DEF TicketInit
<1>1. IP!IdemInit
  BY DEF Idem!IdemInit, IP!IdemInit, Idem!NoCall, IP!NoCall
<1>2. IP!IdemInv
  BY <1>1, ResultsAreNotNone, IP!IdemInitInv
<1>3. PICK s \in Seeds : ticket = [n \in Numbers |-> IF n \in DOMAIN s THEN s[n] ELSE NoRow]
  OBVIOUS
<1> DEFINE SeedRow == [status : Statuses, priority : Priorities, by : {None}]
<1>4. /\ Len(s) \in Nat /\ DOMAIN s = 1..Len(s)
      /\ \A n \in DOMAIN s : s[n] \in SeedRow
  <2>1. s \in Seq(SeedRow)
    BY TicketsAssumption
  <2> HIDE DEF SeedRow
  <2> QED BY <2>1
<1>5. \A n \in DOMAIN s : s[n] \in Row /\ s[n] # NoRow
  <2> SUFFICES ASSUME NEW n \in DOMAIN s PROVE s[n] \in Row /\ s[n] # NoRow
    OBVIOUS
  <2>1. s[n] \in SeedRow
    BY <1>4
  <2>2. s[n].status \in Statuses
    BY <2>1
  <2> QED BY <2>1, <2>2 DEF Row, NoRow, Statuses
<1>6. DeskTypeOK
  <2>1. ticket \in [Numbers -> Row \cup {NoRow}]
    BY <1>3, <1>5
  <2>2. request \in [Calls -> HttpRequest]
    BY DEF NoRequest, HttpRequest
  <2> QED BY <2>1, <2>2, TicketsAssumption DEF DeskTypeOK
<1>8. InsideRun /\ \A c \in Calls : RequestOK(c)
  BY DEF InsideRun, RequestOK, NoRequest
<1>9. EntriesOfCalls /\ HistoryInv /\ RulesUnlessRaced
  BY DEF EntriesOfCalls, HistoryInv, StatesFollow, LastChanges, RulesUnlessRaced
<1> QED BY <1>2, <1>6, <1>8, <1>9 DEF TicketInv

-----------------------------------------------------------------------------
(* The wrapper of this module is the one the proofs of Idempotency.tla are about. *)

LEMMA SameSteps ==
    ASSUME NEW c \in Calls
    PROVE  /\ Idem!IdemStep(c) => IP!IdemStep(c)
           /\ Idem!RedisFails(c) => IP!RedisFails(c)
           /\ Idem!Die(c) => IP!Die(c)
           /\ \A i \in Ids : Idem!Enter(c, i) => IP!Enter(c, i)
           /\ \A r \in Result : Idem!RunDone(c, r) => IP!RunEnds(c)
           /\ Idem!RunFails(c) => IP!RunEnds(c)
<1> USE DEF Idem!Go, IP!Go, Idem!Settle, IP!Settle, Idem!Stored, IP!Stored, Idem!Released,
            IP!Released
<1>1. Idem!IdemStep(c) => IP!IdemStep(c)
  <2>1. /\ Idem!FirstLook(c) => IP!FirstLook(c)
        /\ Idem!TryLock(c) => IP!TryLock(c)
    BY DEF Idem!FirstLook, IP!FirstLook, Idem!TryLock, IP!TryLock
  <2>2. /\ Idem!Poll(c) => IP!Poll(c)
        /\ Idem!LateLook(c) => IP!LateLook(c)
    BY DEF Idem!Poll, IP!Poll, Idem!LateLook, IP!LateLook
  <2>3. /\ Idem!Store(c) => IP!Store(c)
        /\ Idem!Release(c) => IP!Release(c)
    BY DEF Idem!Store, IP!Store, Idem!Release, IP!Release
  <2> QED BY <2>1, <2>2, <2>3 DEF Idem!IdemStep, IP!IdemStep
<1>2. Idem!RedisFails(c) => IP!RedisFails(c)
  BY DEF Idem!RedisFails, IP!RedisFails
<1>3. Idem!Die(c) => IP!Die(c)
  BY DEF Idem!Die, IP!Die
<1>4. ASSUME NEW i \in Ids, Idem!Enter(c, i) PROVE IP!Enter(c, i)
  BY <1>4 DEF Idem!Enter, IP!Enter
<1>5. ASSUME NEW r \in Result, Idem!RunDone(c, r) PROVE IP!RunEnds(c)
  <2>1. IP!RunDone(c, r)
    BY <1>5 DEF Idem!RunDone, IP!RunDone
  <2> QED BY <2>1 DEF IP!RunEnds
<1>6. Idem!RunFails(c) => IP!RunEnds(c)
  BY DEF Idem!RunFails, IP!RunFails, IP!RunEnds
<1> QED BY <1>1, <1>2, <1>3, <1>4, <1>5, <1>6

LEMMA SameExpiry ==
    ASSUME NEW i \in Ids
    PROVE  /\ Idem!LockExpires(i) => IP!LockExpires(i)
           /\ Idem!ResultExpires(i) => IP!ResultExpires(i)
BY DEF Idem!LockExpires, IP!LockExpires, Idem!ResultExpires, IP!ResultExpires, Idem!Holding,
       IP!Holding

(* A step of the wrapper keeps its invariant and the ids of the calls that have begun. *)
IdsStay == \A c \in Calls : idem[c].pc # "idle" => idem'[c].pc # "idle" /\ idem'[c].id = idem[c].id

(* What the ticketing system did stays what it was. *)
LEMMA DeskQuiet ==
    ASSUME TicketInv, IdsStay, UNCHANGED <<ticket, log, raced>>
    PROVE  EntriesOfCalls' /\ HistoryInv' /\ RulesUnlessRaced'
<1> USE DEF TicketInv
<1>1. EntriesOfCalls'
  BY DEF EntriesOfCalls, IdsStay
<1>2. HistoryInv'
  BY DEF HistoryInv, StatesFollow, LastChanges, FieldsOf
<1>3. \A n \in Numbers : \A k \in DOMAIN log[n] : idem'[log[n][k].call].id = idem[log[n][k].call].id
  BY DEF EntriesOfCalls, IdsStay
<1>4. RulesUnlessRaced'
  BY <1>3 DEF RulesUnlessRaced
<1> QED BY <1>1, <1>2, <1>4

(* ... and so do the requests of call d. *)
LEMMA RequestKept ==
    ASSUME TicketInv, IdsStay, NEW d \in Calls, request'[d] = request[d], raced \subseteq raced',
           request[d].pc \in {"read", "apply", "comment", "done"} =>
              ticket'[request[d].ticket] # NoRow,
           request[d].pc \in {"read", "apply"} /\ d \notin raced' =>
              ticket'[request[d].ticket].status = ticket[request[d].ticket].status
    PROVE  RequestOK(d)'
<1>1. RequestOK(d)
  BY DEF TicketInv
<1>2. request[d].pc # "none" =>
         idem[d].pc # "idle" /\ idem'[d].pc # "idle" /\ idem'[d].id = idem[d].id
  BY <1>1 DEF RequestOK, IdsStay
<1>3. (request[d].pc = "read" =>
          /\ request[d].patch = PatchOf(idem[d].id)
          /\ d \notin raced => Permitted(idem[d].id, ticket[request[d].ticket].status))'
  BY <1>1, <1>2 DEF RequestOK, PatchOf, Granted, Permitted
<1>4. (request[d].pc = "apply" =>
          \A ch \in request[d].changes :
             /\ ch.field = "status" => ch.to \in Statuses
             /\ ch.field = "priority" => ch.to \in Priorities
             /\ ch.field = "status" /\ d \notin raced =>
                   Follows(d, ch, ticket[request[d].ticket].status))'
  BY <1>1, <1>2 DEF RequestOK, Follows
<1> QED BY <1>1, <1>2, <1>3, <1>4 DEF RequestOK

LEMMA RequestQuiet ==
    ASSUME TicketInv, IdsStay, UNCHANGED <<ticket, raced>>, NEW d \in Calls,
           request'[d] = request[d]
    PROVE  RequestOK(d)'
<1>1. RequestOK(d)
  BY DEF TicketInv
<1> QED BY <1>1, RequestKept DEF RequestOK

LEMMA IdemMoves ==
    ASSUME IP!IdemInv, NEW c \in Calls,
           IP!IdemStep(c) \/ IP!RunEnds(c) \/ IP!RedisFails(c) \/ IP!Die(c)
    PROVE  /\ IP!IdemInv' /\ IdsStay
           /\ \A d \in Calls \ {c} : idem'[d] = idem[d]
           /\ IP!IdemStep(c) \/ IP!RedisFails(c) => idem[c].pc # "run"
<1>1. IP!IdemTypeOK
  BY DEF IP!IdemInv
<1>2. IP!IdemNext
  BY DEF IP!IdemNext
<1>3. IP!IdemInv'
  BY <1>2, ResultsAreNotNone, IP!IdemNextInv
<1>4. /\ \A d \in Calls \ {c} : idem'[d] = idem[d]
      /\ idem[c].pc # "idle" /\ idem'[c].pc # "idle" /\ idem'[c].id = idem[c].id
      /\ IP!IdemStep(c) \/ IP!RedisFails(c) => idem[c].pc # "run"
  BY <1>1, ResultsAreNotNone, IP!StepLeaves
<1> QED BY <1>3, <1>4 DEF IdsStay

(* Steps that send nothing. *)
LEMMA SilentKeeps ==
    ASSUME TicketInv, IP!IdemInv', IdsStay, UNCHANGED <<deskVars, request>>,
           run' \in [Calls -> {"out", "creating", "lowering", "patching", "noting"}], InsideRun',
           faults' \in 0..MaxFaults
    PROVE  TicketInv'
<1>1. DeskTypeOK'
  BY DEF TicketInv, DeskTypeOK, deskVars
<1>2. EntriesOfCalls' /\ HistoryInv' /\ RulesUnlessRaced'
  BY DeskQuiet DEF deskVars
<1>3. \A d \in Calls : RequestOK(d)'
  BY RequestQuiet DEF deskVars
<1> QED BY <1>1, <1>2, <1>3 DEF TicketInv

LEMMA WrapperKeeps ==
    ASSUME TicketInv, NEW c \in Calls, Idem!IdemStep(c) \/ Idem!RedisFails(c),
           UNCHANGED <<deskVars, request, run>>, faults' \in 0..MaxFaults
    PROVE  TicketInv'
<1>1. IP!IdemStep(c) \/ IP!RedisFails(c)
  BY SameSteps
<1>2. /\ IP!IdemInv' /\ IdsStay
      /\ \A d \in Calls \ {c} : idem'[d] = idem[d]
      /\ idem[c].pc # "run"
  BY <1>1, IdemMoves DEF TicketInv
<1>3. InsideRun'
  BY <1>2 DEF TicketInv, InsideRun
<1> QED BY <1>2, <1>3, SilentKeeps DEF TicketInv, DeskTypeOK

LEMMA ExpiryKeeps ==
    ASSUME TicketInv, NEW i \in Ids, Idem!LockExpires(i) \/ Idem!ResultExpires(i),
           UNCHANGED <<deskVars, request, run>>, faults' \in 0..MaxFaults
    PROVE  TicketInv'
<1>1. IP!LockExpires(i) \/ IP!ResultExpires(i)
  BY SameExpiry
<1>2. IP!IdemInv'
  BY <1>1, ResultsAreNotNone, IP!IdemNextInv DEF TicketInv, IP!IdemNext
<1>3. UNCHANGED idem
  BY DEF Idem!LockExpires, Idem!ResultExpires
<1>4. IdsStay /\ InsideRun'
  BY <1>3 DEF IdsStay, TicketInv, InsideRun
<1> QED BY <1>2, <1>4, SilentKeeps DEF TicketInv, DeskTypeOK

LEMMA AskKeeps ==
    ASSUME TicketInv, NEW c \in Calls, NEW i \in Ids, Ask(c, i), UNCHANGED faults
    PROVE  TicketInv'
<1>1. /\ idem[c].pc = "idle" /\ Idem!Enter(c, i) /\ UNCHANGED <<deskVars, request, run>>
  BY DEF Ask
<1>2. IP!IdemInv'
  BY <1>1, SameSteps, ResultsAreNotNone, IP!IdemNextInv DEF TicketInv, IP!IdemNext
<1>3. \A d \in Calls \ {c} : idem'[d] = idem[d]
  BY <1>1 DEF Idem!Enter, TicketInv, IP!IdemInv, IP!IdemTypeOK
<1>4. IdsStay /\ InsideRun'
  BY <1>1, <1>3 DEF IdsStay, TicketInv, InsideRun
<1> QED BY <1>1, <1>2, <1>4, SilentKeeps DEF TicketInv, DeskTypeOK

(* The end of a run, with its request left as it is or failed. *)
LEMMA EndKeeps ==
    ASSUME TicketInv, NEW c \in Calls, IP!RunEnds(c) \/ IP!Die(c), At(c, "out"),
           \/ UNCHANGED request
           \/ Reached(c, "failed") /\ request[c].pc # "none",
           UNCHANGED deskVars, faults' \in 0..MaxFaults
    PROVE  TicketInv'
<1>1. /\ IP!IdemInv' /\ IdsStay
      /\ \A d \in Calls \ {c} : idem'[d] = idem[d]
  BY IdemMoves DEF TicketInv
<1>2. /\ run' \in [Calls -> {"out", "creating", "lowering", "patching", "noting"}]
      /\ run'[c] = "out" /\ \A d \in Calls \ {c} : run'[d] = run[d]
  BY DEF TicketInv, DeskTypeOK, At
<1>3. InsideRun'
  BY <1>1, <1>2 DEF TicketInv, InsideRun
<1>4. CASE UNCHANGED request
  BY <1>1, <1>2, <1>3, <1>4, SilentKeeps DEF TicketInv, DeskTypeOK
<1>5. CASE Reached(c, "failed") /\ request[c].pc # "none"
  <2>1. /\ request' \in [Calls -> HttpRequest]
        /\ request'[c].pc = "failed" /\ \A d \in Calls \ {c} : request'[d] = request[d]
    <3>1. [request[c] EXCEPT !.pc = "failed"] \in HttpRequest
      BY DEF TicketInv, DeskTypeOK, HttpRequest
    <3> QED BY <1>5, <3>1 DEF TicketInv, DeskTypeOK, Reached, HttpRequest
  <2>2. DeskTypeOK'
    BY <1>2, <2>1 DEF TicketInv, DeskTypeOK, deskVars
  <2>3. EntriesOfCalls' /\ HistoryInv' /\ RulesUnlessRaced'
    BY <1>1, DeskQuiet DEF deskVars
  <2>4. RequestOK(c)'
    <3>1. idem'[c].pc # "idle"
      BY <1>1, <1>5 DEF TicketInv, RequestOK, IdsStay
    <3> QED BY <2>1, <3>1 DEF RequestOK
  <2>5. \A d \in Calls \ {c} : RequestOK(d)'
    BY <1>1, <2>1, RequestQuiet DEF deskVars
  <2> QED BY <1>1, <1>3, <2>2, <2>3, <2>4, <2>5 DEF TicketInv
<1> QED BY <1>4, <1>5

(* A patch sets fields to values of theirs. *)
LEMMA PatchTyped ==
    ASSUME NEW i \in Ids
    PROVE  /\ PatchOf(i) \in SUBSET [field : Fields, to : Statuses \cup Priorities]
           /\ \A p \in PatchOf(i) :
                 /\ p.field = "status" => p.to = RequestOf[i].status /\ p.to \in Statuses
                 /\ p.field = "priority" => p.to \in Priorities
<1>1. RequestOf[i] \in Request
  BY TicketsAssumption
<1>2. RequestOf[i].status \in Statuses \cup {"keep"} /\ RequestOf[i].priority \in Priorities \cup {"keep"}
  BY <1>1 DEF Request
<1>3. /\ Granted(i, RequestOf[i].priority) \in Priorities \cup {"keep"}
  BY <1>2 DEF Granted, Priorities
<1> QED BY <1>2, <1>3 DEF PatchOf, Fields

LEMMA SendKeeps ==
    ASSUME TicketInv, NEW c \in Calls, idem[c].pc = "run",
           NEW pc \in {"post", "read", "comment"}, NEW n \in Numbers \cup {0},
           NEW patch \in SUBSET [field : Fields, to : Statuses \cup Priorities],
           NEW kind \in {"none", "note", "lowered"},
           Send(c, pc, n, patch, kind),
           pc # "post" => n \in Numbers /\ ticket[n] # NoRow,
           pc = "comment" => kind # "none",
           pc = "read" => patch = PatchOf(idem[c].id) /\ Permitted(idem[c].id, ticket[n].status),
           NEW step \in {"creating", "lowering", "patching", "noting"}, At(c, step),
           UNCHANGED <<idemVars, deskVars, faults>>
    PROVE  TicketInv'
<1> DEFINE sent == [pc |-> pc, ticket |-> n, patch |-> patch, changes |-> {}, kind |-> kind,
                       at |-> 0]
<1>1. sent \in HttpRequest
  BY DEF HttpRequest
<1>2. /\ sent.pc = pc /\ sent.ticket = n /\ sent.patch = patch /\ sent.kind = kind
      /\ request' = [request EXCEPT ![c] = sent]
  BY DEF Send
<1> HIDE DEF sent
<1>3. /\ request' \in [Calls -> HttpRequest] /\ request'[c] = sent
      /\ \A d \in Calls \ {c} : request'[d] = request[d]
  BY <1>1, <1>2 DEF TicketInv, DeskTypeOK
<1>4. /\ run' \in [Calls -> {"out", "creating", "lowering", "patching", "noting"}]
      /\ \A d \in Calls \ {c} : run'[d] = run[d]
  BY DEF TicketInv, DeskTypeOK, At
<1>5. IdsStay /\ idem' = idem
  BY DEF IdsStay, idemVars
<1>6. IP!IdemInv'
  BY ResultsAreNotNone, IP!IdemNextInv DEF TicketInv, idemVars, IP!idemVars
<1>7. DeskTypeOK' /\ InsideRun'
  BY <1>3, <1>4, <1>5 DEF TicketInv, DeskTypeOK, InsideRun, deskVars
<1>8. EntriesOfCalls' /\ HistoryInv' /\ RulesUnlessRaced'
  BY <1>5, DeskQuiet DEF deskVars
<1>9. RequestOK(c)'
  BY <1>2, <1>3, <1>5 DEF RequestOK, deskVars, PatchOf, Granted, Permitted
<1>10. \A d \in Calls \ {c} : RequestOK(d)'
  BY <1>3, <1>5, RequestQuiet DEF deskVars
<1> QED BY <1>6, <1>7, <1>8, <1>9, <1>10 DEF TicketInv

LEMMA ReturnKeeps ==
    ASSUME TicketInv, NEW c \in Calls, NEW n \in Numbers, Return(c, n),
           UNCHANGED <<deskVars, faults>>
    PROVE  TicketInv'
<1>1. [by |-> c, ticket |-> n] \in Result
  BY DEF Result
<1>2. IP!RunEnds(c) /\ At(c, "out") /\ UNCHANGED request
  BY <1>1, SameSteps DEF Return
<1> QED BY <1>2, EndKeeps DEF TicketInv, DeskTypeOK

LEMMA ThrowKeeps ==
    ASSUME TicketInv, NEW c \in Calls, Throw(c),
           \/ UNCHANGED request
           \/ Reached(c, "failed") /\ request[c].pc # "none",
           UNCHANGED deskVars, faults' \in 0..MaxFaults
    PROVE  TicketInv'
<1>1. IP!RunEnds(c) /\ At(c, "out")
  BY SameSteps DEF Throw
<1> QED BY <1>1, EndKeeps

LEMMA RunStepKeeps ==
    ASSUME TicketInv, NEW c \in Calls, RunStep(c), UNCHANGED faults
    PROVE  TicketInv'
<1>1. faults \in 0..MaxFaults /\ {} \in SUBSET [field : Fields, to : Statuses \cup Priorities]
  BY DEF TicketInv, DeskTypeOK
<1>2. ASSUME run[c] # "out", request[c].pc = "done"
      PROVE  /\ idem[c].pc = "run" /\ request[c].ticket \in Numbers
             /\ ticket[request[c].ticket] # NoRow
  BY <1>2 DEF TicketInv, InsideRun, RequestOK
<1>3. CASE StartCreate(c)
  BY <1>1, <1>3, SendKeeps DEF StartCreate, Running
<1>4. CASE StartUpdate(c)
  <2> DEFINE i == idem[c].id
             n == RequestOf[i].ticket
  <2>1. idem[c].pc = "run" /\ RequestOf[i].op = "update" /\ UNCHANGED deskVars
    BY <1>4 DEF StartUpdate, Running
  <2>2. i \in Ids
    BY <2>1 DEF TicketInv, IP!IdemInv, IP!IdemTypeOK
  <2>3. n \in Numbers /\ PatchOf(i) \in SUBSET [field : Fields, to : Statuses \cup Priorities]
    BY <2>1, <2>2, PatchTyped, TicketsAssumption
  <2>4. CASE Throw(c) /\ UNCHANGED request
    BY <1>1, <2>1, <2>4, ThrowKeeps
  <2>5. CASE /\ ticket[n] # NoRow /\ Permitted(i, ticket[n].status) /\ UNCHANGED idemVars
             /\ Send(c, "read", n, PatchOf(i), "none") /\ At(c, "patching")
    BY <2>1, <2>3, <2>5, SendKeeps
  <2>6. CASE /\ ticket[n] # NoRow /\ UNCHANGED idemVars
             /\ Send(c, "comment", n, {}, "note") /\ At(c, "noting")
    BY <1>1, <2>1, <2>3, <2>6, SendKeeps
  <2> QED BY <1>4, <2>4, <2>5, <2>6 DEF StartUpdate
<1>5. CASE TicketCreated(c)
  BY <1>1, <1>2, <1>5, SendKeeps, ReturnKeeps DEF TicketCreated
<1>6. CASE TicketPatched(c)
  BY <1>1, <1>2, <1>6, SendKeeps, ReturnKeeps DEF TicketPatched
<1>7. CASE CommentAdded(c)
  BY <1>2, <1>7, ReturnKeeps DEF CommentAdded
<1> QED BY <1>3, <1>4, <1>5, <1>6, <1>7 DEF RunStep

-----------------------------------------------------------------------------
(* The steps of the ticketing system. *)

LEMMA FieldsAreFields ==
    ASSUME NEW r \in Row
    PROVE  /\ r["status"] = r.status /\ r["priority"] = r.priority
           /\ r.status \in Statuses /\ r.priority \in Priorities
BY DEF Row

LEMMA ReadForPatchKeeps ==
    ASSUME TicketInv, NEW c \in Calls, ReadForPatch(c),
           UNCHANGED <<idemVars, run, faults>>
    PROVE  TicketInv'
<1> DEFINE n == request[c].ticket
           i == idem[c].id
           ChangeOf(p) == [field |-> p.field, from |-> ticket[n][p.field], to |-> p.to]
           changes == {ChangeOf(p) : p \in {q \in request[c].patch : q.to # ticket[n][q.field]}}
           next == IF changes = {} THEN "done" ELSE "apply"
<1>1. /\ request[c].pc = "read" /\ UNCHANGED deskVars
      /\ request' = [request EXCEPT ![c].changes = changes, ![c].pc = next]
  BY DEF ReadForPatch
<1>2. /\ RequestOK(c) /\ idem[c].pc # "idle" /\ i \in Ids
      /\ n \in Numbers /\ ticket[n] # NoRow /\ ticket[n] \in Row
      /\ request[c].patch = PatchOf(i)
      /\ c \notin raced => Permitted(i, ticket[n].status)
  BY <1>1 DEF TicketInv, RequestOK, DeskTypeOK, IP!IdemInv, IP!IdemTypeOK
<1>3. ASSUME NEW p \in PatchOf(i), p.to # ticket[n][p.field]
      PROVE  /\ ChangeOf(p) \in Change
             /\ p.field = "status" => p.to \in Statuses
             /\ p.field = "priority" => p.to \in Priorities
             /\ p.field = "status" /\ c \notin raced => Follows(c, ChangeOf(p), ticket[n].status)
  <2>1. /\ p.field \in Fields /\ p.to \in Statuses \cup Priorities
        /\ p.field = "status" => p.to = RequestOf[i].status /\ p.to \in Statuses
        /\ p.field = "priority" => p.to \in Priorities
    BY <1>2, PatchTyped
  <2>2. /\ ticket[n]["status"] = ticket[n].status /\ ticket[n]["priority"] = ticket[n].priority
        /\ ticket[n].status \in Statuses /\ ticket[n].priority \in Priorities
    BY <1>2, FieldsAreFields
  <2>3. ticket[n][p.field] \in Statuses \cup Priorities
    BY <2>1, <2>2 DEF Fields
  <2>4. ChangeOf(p) \in Change
    BY <2>1, <2>3 DEF Change
  <2>5. ASSUME p.field = "status", c \notin raced
        PROVE  Follows(c, ChangeOf(p), ticket[n].status)
    <3>1. RequestOf[i].status = p.to /\ p.to # ticket[n].status /\ p.to # "keep"
      BY <1>3, <2>1, <2>2, <2>5 DEF Statuses
    <3>2. p.to \in Allowed[ticket[n].status] /\ (ticket[n].status = "closed" => i \in Leads)
      BY <1>2, <2>5, <3>1 DEF Permitted
    <3> QED BY <2>2, <2>5, <3>2 DEF Follows
  <2> QED BY <2>1, <2>4, <2>5
<1>4. \A ch \in changes : \E p \in PatchOf(i) : p.to # ticket[n][p.field] /\ ch = ChangeOf(p)
  BY <1>2
<1>5. \A ch \in changes :
         /\ ch \in Change
         /\ ch.field = "status" => ch.to \in Statuses
         /\ ch.field = "priority" => ch.to \in Priorities
         /\ ch.field = "status" /\ c \notin raced => Follows(c, ch, ticket[n].status)
  <2> SUFFICES ASSUME NEW ch \in changes
               PROVE  /\ ch \in Change
                      /\ ch.field = "status" => ch.to \in Statuses
                      /\ ch.field = "priority" => ch.to \in Priorities
                      /\ ch.field = "status" /\ c \notin raced => Follows(c, ch, ticket[n].status)
    OBVIOUS
  <2>1. PICK p \in PatchOf(i) : p.to # ticket[n][p.field] /\ ch = ChangeOf(p)
    BY <1>4
  <2>2. ch.field = p.field /\ ch.to = p.to
    BY <2>1
  <2> HIDE DEF ChangeOf, changes
  <2> QED BY <1>3, <2>1, <2>2
<1> HIDE DEF changes
<1>6. [request[c] EXCEPT !.changes = changes, !.pc = next] \in HttpRequest
  BY <1>5 DEF TicketInv, DeskTypeOK, HttpRequest
<1>7. request' = [request EXCEPT ![c] = [request[c] EXCEPT !.changes = changes, !.pc = next]]
  BY <1>1 DEF TicketInv, DeskTypeOK, HttpRequest
<1>8. /\ request' \in [Calls -> HttpRequest]
      /\ request'[c].changes = changes /\ request'[c].pc = next /\ request'[c].ticket = n
      /\ \A d \in Calls \ {c} : request'[d] = request[d]
  BY <1>6, <1>7 DEF TicketInv, DeskTypeOK, HttpRequest
<1>9. IdsStay /\ idem' = idem /\ UNCHANGED <<ticket, raced>>
  BY <1>1 DEF IdsStay, idemVars, deskVars
<1>10. IP!IdemInv'
  BY ResultsAreNotNone, IP!IdemNextInv DEF TicketInv, idemVars, IP!idemVars
<1>11. DeskTypeOK' /\ InsideRun'
  BY <1>1, <1>8, <1>9 DEF TicketInv, DeskTypeOK, InsideRun, deskVars
<1>12. EntriesOfCalls' /\ HistoryInv' /\ RulesUnlessRaced'
  BY <1>1, <1>9, DeskQuiet DEF deskVars
<1>13. RequestOK(c)'
  <2>1. next \in {"done", "apply"}
    OBVIOUS
  <2> HIDE DEF next
  <2> QED BY <1>2, <1>5, <1>8, <1>9, <2>1 DEF RequestOK, Follows
<1>14. \A d \in Calls \ {c} : RequestOK(d)'
  BY <1>8, <1>9, RequestQuiet
<1> QED BY <1>10, <1>11, <1>12, <1>13, <1>14 DEF TicketInv

(* BEGIN notes the time, and nothing else. *)
LEMMA BeginWriteKeeps ==
    ASSUME TicketInv, NEW c \in Calls, BeginWrite(c),
           UNCHANGED <<idemVars, run, faults>>
    PROVE  TicketInv'
<1>1. /\ request[c].pc \in {"apply", "comment"} /\ UNCHANGED <<ticket, log, raced>>
      /\ begun' = [begun EXCEPT ![request[c].ticket] = @ + 1]
      /\ request' = [request EXCEPT ![c].at = begun[request[c].ticket] + 1]
  BY DEF BeginWrite
<1>2. RequestOK(c) /\ request[c].ticket \in Numbers /\ begun[request[c].ticket] + 1 \in Nat
  BY <1>1 DEF TicketInv, DeskTypeOK, RequestOK
<1>3. [request[c] EXCEPT !.at = begun[request[c].ticket] + 1] \in HttpRequest
  BY <1>2 DEF TicketInv, DeskTypeOK, HttpRequest
<1>4. /\ request' \in [Calls -> HttpRequest]
      /\ request'[c] = [request[c] EXCEPT !.at = begun[request[c].ticket] + 1]
      /\ \A d \in Calls \ {c} : request'[d] = request[d]
  BY <1>1, <1>3 DEF TicketInv, DeskTypeOK
<1>5. /\ request'[c].pc = request[c].pc /\ request'[c].ticket = request[c].ticket
      /\ request'[c].patch = request[c].patch /\ request'[c].changes = request[c].changes
      /\ request'[c].kind = request[c].kind
  BY <1>4 DEF TicketInv, DeskTypeOK, HttpRequest
<1>6. begun' \in [Numbers -> Nat]
  BY <1>1, <1>2 DEF TicketInv, DeskTypeOK
<1>7. IdsStay /\ idem' = idem
  BY DEF IdsStay, idemVars
<1>8. IP!IdemInv'
  BY ResultsAreNotNone, IP!IdemNextInv DEF TicketInv, idemVars, IP!idemVars
<1>9. DeskTypeOK' /\ InsideRun'
  BY <1>1, <1>4, <1>6, <1>7 DEF TicketInv, DeskTypeOK, InsideRun
<1>10. EntriesOfCalls' /\ HistoryInv' /\ RulesUnlessRaced'
  BY <1>1, <1>7, DeskQuiet DEF deskVars
<1>11. RequestOK(c)'
  BY <1>1, <1>2, <1>5, <1>7 DEF RequestOK, Follows
<1>12. \A d \in Calls \ {c} : RequestOK(d)'
  BY <1>1, <1>4, <1>7, RequestQuiet
<1> QED BY <1>8, <1>9, <1>10, <1>11, <1>12 DEF TicketInv

(* An entry that starts from what the ticket holds, and ends at what it holds then. *)
LEMMA WriteKeeps ==
    ASSUME TicketInv, IdsStay, NEW n \in Numbers, NEW e \in Entry,
           e.call \in Calls, idem[e.call].pc # "idle",
           log' = [log EXCEPT ![n] = Append(@, e)],
           e.was = FieldsOf(n), FieldsOf(n)' = After(e),
           \A m \in Numbers \ {n} : ticket'[m] = ticket[m],
           raced \subseteq raced',
           \A ch \in e.changes :
              ch.field = "status" /\ e.call \notin raced' => Follows(e.call, ch, e.was.status)
    PROVE  /\ log' \in [Numbers -> Seq(Entry)]
           /\ EntriesOfCalls' /\ HistoryInv' /\ RulesUnlessRaced'
<1>1. /\ log \in [Numbers -> Seq(Entry)] /\ log[n] \in Seq(Entry)
      /\ Len(log[n]) \in Nat /\ DOMAIN log[n] = 1..Len(log[n])
  BY DEF TicketInv, DeskTypeOK
<1>2. /\ log'[n] = Append(log[n], e) /\ log'[n] \in Seq(Entry)
      /\ \A m \in Numbers \ {n} : log'[m] = log[m]
  BY <1>1
<1>3. log' \in [Numbers -> Seq(Entry)]
  BY <1>1, <1>2
<1>4. /\ Len(log'[n]) = Len(log[n]) + 1 /\ log'[n] # << >>
      /\ DOMAIN log'[n] = 1..(Len(log[n]) + 1)
      /\ log'[n][Len(log[n]) + 1] = e
      /\ \A k \in 1..Len(log[n]) : log'[n][k] = log[n][k]
  BY <1>1, <1>2
<1>5. \A m \in Numbers : \A k \in DOMAIN log'[m] :
         \/ m = n /\ log'[m][k] = e
         \/ k \in DOMAIN log[m] /\ log'[m][k] = log[m][k]
  <2> SUFFICES ASSUME NEW m \in Numbers, NEW k \in DOMAIN log'[m]
               PROVE  \/ m = n /\ log'[m][k] = e
                      \/ k \in DOMAIN log[m] /\ log'[m][k] = log[m][k]
    OBVIOUS
  <2>1. CASE m = n
    <3>1. k \in 1..Len(log[n]) \/ k = Len(log[n]) + 1
      BY <1>1, <1>4, <2>1
    <3> QED BY <1>1, <1>4, <2>1, <3>1
  <2>2. CASE m # n
    BY <1>2, <2>2
  <2> QED BY <2>1, <2>2
<1>6. EntriesOfCalls'
  BY <1>5 DEF EntriesOfCalls, TicketInv, IdsStay
<1>7. \A m \in Numbers : StatesFollow(m)'
  <2> SUFFICES ASSUME NEW m \in Numbers, log'[m] # << >>
               PROVE  /\ FieldsOf(m)' = After(log'[m][Len(log'[m])])
                      /\ \A k \in 1..(Len(log'[m]) - 1) : log'[m][k + 1].was = After(log'[m][k])
    BY DEF StatesFollow, After
  <2>1. CASE m # n
    <3>1. log'[m] = log[m] /\ FieldsOf(m)' = FieldsOf(m)
      BY <1>2, <2>1 DEF FieldsOf
    <3> QED BY <3>1 DEF TicketInv, HistoryInv, StatesFollow
  <2>2. CASE m = n
    <3>1. FieldsOf(m)' = After(log'[m][Len(log'[m])])
      BY <1>4, <2>2
    <3>2. ASSUME NEW k \in 1..Len(log[n]) PROVE log'[n][k + 1].was = After(log'[n][k])
      <4>1. log[n] # << >>
        BY <1>1, <3>2
      <4>2. CASE k = Len(log[n])
        BY <1>4, <4>1, <4>2 DEF TicketInv, HistoryInv, StatesFollow
      <4>3. CASE k # Len(log[n])
        <5>1. k \in 1..(Len(log[n]) - 1) /\ k + 1 \in 1..Len(log[n])
          <6> DEFINE length == Len(log[n])
          <6>1. length \in Nat /\ k \in 1..length /\ k # length
            BY <1>1, <3>2, <4>3
          <6> HIDE DEF length
          <6>2. k \in 1..(length - 1) /\ k + 1 \in 1..length
            BY <6>1
          <6> QED BY <6>2 DEF length
        <5> QED BY <1>4, <4>1, <5>1 DEF TicketInv, HistoryInv, StatesFollow
      <4> QED BY <4>2, <4>3
    <3>3. 1..(Len(log'[n]) - 1) = 1..Len(log[n])
      BY <1>1, <1>4
    <3> QED BY <2>2, <3>1, <3>2, <3>3
  <2> QED BY <2>1, <2>2
<1>9. LastChanges'
  <2> SUFFICES ASSUME NEW m \in Numbers, NEW f \in Fields, NEW k \in DOMAIN log'[m],
                      Changes(log'[m][k], f),
                      \A j \in DOMAIN log'[m] : j > k => ~ Changes(log'[m][j], f)
               PROVE  ChangedTo(log'[m][k], f) = ticket'[m][f]
    BY DEF LastChanges
  <2>1. CASE m # n
    BY <1>2, <2>1 DEF TicketInv, HistoryInv, LastChanges
  <2>2. CASE m = n
    <3>1. ticket'[n][f] = After(e)[f] /\ e.was[f] = ticket[n][f]
      BY DEF FieldsOf
    <3>2. CASE k = Len(log[n]) + 1
      BY <1>4, <2>2, <3>1, <3>2 DEF After
    <3>3. CASE k # Len(log[n]) + 1
      <4>1. /\ k \in 1..Len(log[n]) /\ Len(log[n]) + 1 > k
            /\ Len(log[n]) + 1 \in DOMAIN log'[n]
        BY <1>1, <1>4, <2>2, <3>3
      <4>2. ~ Changes(e, f) /\ log'[n][k] = log[n][k]
        BY <1>4, <2>2, <4>1
      <4>3. \A j \in DOMAIN log[n] : j > k => ~ Changes(log[n][j], f)
        BY <1>1, <1>4, <2>2
      <4>4. ChangedTo(log[n][k], f) = ticket[n][f]
        BY <1>1, <2>2, <4>1, <4>2, <4>3 DEF TicketInv, HistoryInv, LastChanges
      <4> QED BY <2>2, <3>1, <4>2, <4>4 DEF After
    <3> QED BY <3>2, <3>3
  <2> QED BY <2>1, <2>2
<1>8. RulesUnlessRaced'
  <2> SUFFICES ASSUME NEW m \in Numbers, NEW k \in DOMAIN log'[m],
                      NEW ch \in log'[m][k].changes,
                      ch.field = "status", log'[m][k].call \notin raced'
               PROVE  /\ ch.from = log'[m][k].was.status
                      /\ ch.to \in Allowed[ch.from]
                      /\ ch.from = "closed" => idem'[log'[m][k].call].id \in Leads
    BY DEF RulesUnlessRaced
  <2>1. CASE log'[m][k] = e
    BY <2>1 DEF Follows, IdsStay
  <2>2. CASE k \in DOMAIN log[m] /\ log'[m][k] = log[m][k]
    <3>1. /\ log[m][k].call \in Calls /\ idem[log[m][k].call].pc # "idle"
          /\ log[m][k].call \notin raced
      BY <2>2 DEF TicketInv, EntriesOfCalls
    <3> QED BY <2>2, <3>1 DEF TicketInv, RulesUnlessRaced, IdsStay
  <2> QED BY <1>5, <2>1, <2>2
<1> QED BY <1>3, <1>6, <1>7, <1>8, <1>9 DEF HistoryInv

LEMMA PostCommentKeeps ==
    ASSUME TicketInv, NEW c \in Calls, PostComment(c),
           UNCHANGED <<idemVars, run, faults>>
    PROVE  TicketInv'
<1>1. /\ request[c].pc = "comment" /\ UNCHANGED <<ticket, begun, raced>>
      /\ WriteEntry(request[c].ticket, request[c].kind, c, {})
      /\ request' = [request EXCEPT ![c].pc = "done"]
  BY DEF PostComment, Reached
<1>2. PICK n \in Numbers : n = request[c].ticket
  BY <1>1 DEF TicketInv, RequestOK
<1>3. /\ idem[c].pc # "idle" /\ ticket[n] # NoRow /\ ticket[n] \in Row
      /\ request[c].kind \in {"note", "lowered"} /\ request[c].at \in Nat
  BY <1>1, <1>2 DEF TicketInv, RequestOK, DeskTypeOK, HttpRequest
<1>4. FieldsOf(n) \in [status : Statuses, priority : Priorities]
  BY <1>3 DEF Fields, Row, FieldsOf
<1>5. PICK e \in Entry :
         e = [kind |-> request[c].kind, call |-> c, at |-> request[c].at, changes |-> {},
              was |-> FieldsOf(n)]
  BY <1>3, <1>4 DEF Entry
<1>6. e.call = c /\ e.was = FieldsOf(n) /\ e.changes = {}
  BY <1>5
<1>7. FieldsOf(n)' = After(e)
  BY <1>1, <1>6 DEF FieldsOf, After, Changes
<1>8. log' = [log EXCEPT ![n] = Append(@, e)]
  BY <1>1, <1>2, <1>5 DEF WriteEntry
<1>9. IdsStay /\ idem' = idem
  BY DEF IdsStay, idemVars
<1>10. log' \in [Numbers -> Seq(Entry)] /\ EntriesOfCalls' /\ HistoryInv' /\ RulesUnlessRaced'
  BY <1>1, <1>3, <1>6, <1>7, <1>8, <1>9, WriteKeeps
<1>11. IP!IdemInv'
  BY ResultsAreNotNone, IP!IdemNextInv DEF TicketInv, idemVars, IP!idemVars
<1>12. /\ request' \in [Calls -> HttpRequest]
       /\ request'[c].pc = "done" /\ request'[c].ticket = n
       /\ \A d \in Calls \ {c} : request'[d] = request[d]
  <2>1. [request[c] EXCEPT !.pc = "done"] \in HttpRequest
    BY DEF TicketInv, DeskTypeOK, HttpRequest
  <2> QED BY <1>1, <1>2, <2>1 DEF TicketInv, DeskTypeOK, HttpRequest
<1>13. DeskTypeOK' /\ InsideRun'
  BY <1>1, <1>9, <1>10, <1>12 DEF TicketInv, DeskTypeOK, InsideRun
<1>14. RequestOK(c)'
  BY <1>1, <1>3, <1>9, <1>12 DEF RequestOK
<1>15. \A d \in Calls \ {c} : RequestOK(d)'
  BY <1>1, <1>9, <1>12, RequestQuiet
<1> QED BY <1>10, <1>11, <1>13, <1>14, <1>15 DEF TicketInv

LEMMA ApplyPatchKeeps ==
    ASSUME TicketInv, NEW c \in Calls, ApplyPatch(c),
           UNCHANGED <<idemVars, run, faults>>
    PROVE  TicketInv'
<1>1. /\ request[c].pc = "apply" /\ begun' = begun
      /\ WriteEntry(request[c].ticket, "changed", c, request[c].changes)
      /\ request' = [request EXCEPT ![c].pc = "done"]
  BY DEF ApplyPatch, Reached
<1>2. PICK n \in Numbers : n = request[c].ticket
  BY <1>1 DEF TicketInv, RequestOK
<1>3. /\ request[c].at \in Nat
      /\ \E changes \in SUBSET Change : changes = request[c].changes
  BY DEF TicketInv, DeskTypeOK, HttpRequest
<1> PICK changes \in SUBSET Change : changes = request[c].changes
  BY <1>3
<1>4. /\ idem[c].pc # "idle" /\ ticket[n] # NoRow /\ ticket[n] \in Row
      /\ \A ch \in changes : /\ ch.field = "status" => ch.to \in Statuses
                             /\ ch.field = "priority" => ch.to \in Priorities
                             /\ ch.field = "status" /\ c \notin raced =>
                                   Follows(c, ch, ticket[n].status)
  BY <1>1, <1>2, <1>3 DEF TicketInv, RequestOK, DeskTypeOK
<1>5. /\ FieldsOf(n) \in [status : Statuses, priority : Priorities]
      /\ FieldsOf(n).status = ticket[n].status
      /\ \A f \in Fields : FieldsOf(n)[f] = ticket[n][f]
  BY <1>4 DEF Fields, Row, FieldsOf
<1>6. PICK e \in Entry :
         e = [kind |-> "changed", call |-> c, at |-> request[c].at, changes |-> changes,
              was |-> FieldsOf(n)]
  BY <1>3, <1>5 DEF Entry
<1>7. e.call = c /\ e.was = FieldsOf(n) /\ e.changes = changes
  BY <1>6
<1>8. log' = [log EXCEPT ![n] = Append(@, e)]
  BY <1>1, <1>2, <1>3, <1>6 DEF WriteEntry
<1> DEFINE To(f) == IF \E ch \in changes : ch.field = f
                    THEN (CHOOSE ch \in changes : ch.field = f).to
                    ELSE ticket[n][f]
<1>9. /\ ticket' = [ticket EXCEPT ![n].status = To("status"), ![n].priority = To("priority")]
      /\ raced' = IF To("status") = ticket[n].status THEN raced
                  ELSE raced \cup {d \in Calls \ {c} : /\ request[d].pc \in {"read", "apply"}
                                                       /\ request[d].ticket = n}
  BY <1>2, <1>3 DEF ApplyPatch
<1>10. To("status") \in Statuses /\ To("priority") \in Priorities
  BY <1>4, FieldsAreFields
<1>11. \A f \in Fields : After(e)[f] = To(f)
  BY <1>5, <1>7 DEF After, Changes, ChangedTo
<1> HIDE DEF To
<1>12. /\ ticket'[n] \in Row /\ ticket'[n] # NoRow
       /\ ticket'[n].status = To("status") /\ ticket'[n].priority = To("priority")
       /\ \A m \in Numbers \ {n} : ticket'[m] = ticket[m]
       /\ ticket' \in [Numbers -> Row \cup {NoRow}]
  <2>1. ticket \in [Numbers -> Row \cup {NoRow}]
    BY DEF TicketInv, DeskTypeOK
  <2>2. /\ ticket'[n] = [ticket[n] EXCEPT !.status = To("status"), !.priority = To("priority")]
        /\ \A m \in Numbers \ {n} : ticket'[m] = ticket[m]
    BY <1>4, <1>9, <2>1 DEF Row
  <2>3. ticket'[n] \in Row /\ ticket'[n].status = To("status") /\ ticket'[n].priority = To("priority")
    BY <1>4, <1>10, <2>2 DEF Row
  <2>4. ticket'[n] # NoRow
    BY <1>10, <2>3 DEF NoRow, Statuses
  <2> QED BY <1>9, <2>1, <2>2, <2>3, <2>4
<1>13. FieldsOf(n)' = After(e)
  <2>1. ticket'[n]["status"] = To("status") /\ ticket'[n]["priority"] = To("priority")
    BY <1>12, FieldsAreFields
  <2>2. \A f \in Fields : ticket'[n][f] = After(e)[f]
    BY <1>11, <2>1 DEF Fields
  <2>3. FieldsOf(n)' = [f \in Fields |-> ticket'[n][f]]
    BY DEF FieldsOf
  <2>4. After(e) = [f \in Fields |-> After(e)[f]]
    BY DEF After
  <2> QED BY <2>2, <2>3, <2>4
<1>14. raced \subseteq raced' /\ raced' \subseteq Calls
  BY <1>9 DEF TicketInv, DeskTypeOK
<1>15. IdsStay /\ idem' = idem
  BY DEF IdsStay, idemVars
<1>16. log' \in [Numbers -> Seq(Entry)] /\ EntriesOfCalls' /\ HistoryInv' /\ RulesUnlessRaced'
  <2>1. \A ch \in e.changes :
           ch.field = "status" /\ e.call \notin raced' => Follows(e.call, ch, e.was.status)
    BY <1>4, <1>5, <1>7, <1>14
  <2> QED BY <1>4, <1>7, <1>8, <1>12, <1>13, <1>14, <1>15, <2>1, WriteKeeps
<1>17. IP!IdemInv'
  BY ResultsAreNotNone, IP!IdemNextInv DEF TicketInv, idemVars, IP!idemVars
<1>18. /\ request' \in [Calls -> HttpRequest]
       /\ request'[c].pc = "done" /\ request'[c].ticket = n
       /\ \A d \in Calls \ {c} : request'[d] = request[d]
  <2>1. [request[c] EXCEPT !.pc = "done"] \in HttpRequest
    BY DEF TicketInv, DeskTypeOK, HttpRequest
  <2> QED BY <1>1, <1>2, <2>1 DEF TicketInv, DeskTypeOK, HttpRequest
<1>19. DeskTypeOK' /\ InsideRun'
  BY <1>1, <1>12, <1>14, <1>15, <1>16, <1>18 DEF TicketInv, DeskTypeOK, InsideRun
<1>21. RequestOK(c)'
  BY <1>12, <1>4, <1>15, <1>18 DEF RequestOK
<1>22. ASSUME NEW d \in Calls \ {c} PROVE RequestOK(d)'
  <2>1. RequestOK(d) /\ request'[d] = request[d]
    BY <1>18 DEF TicketInv
  <2>2. request[d].pc \in {"read", "apply", "comment", "done"} =>
           request[d].ticket \in Numbers /\ ticket'[request[d].ticket] # NoRow
    BY <1>12, <2>1 DEF RequestOK
  <2>3. request[d].pc \in {"read", "apply"} /\ d \notin raced' =>
           ticket'[request[d].ticket].status = ticket[request[d].ticket].status
    BY <1>9, <1>12, <2>2
  <2> QED BY <1>14, <1>15, <2>1, <2>2, <2>3, RequestKept
<1> QED BY <1>16, <1>17, <1>19, <1>21, <1>22 DEF TicketInv

LEMMA PostTicketKeeps ==
    ASSUME TicketInv, NEW c \in Calls, PostTicket(c),
           UNCHANGED <<idemVars, run, faults>>
    PROVE  TicketInv'
<1>2. PICK i : i = idem[c].id
  OBVIOUS
<1>1. PICK n \in Numbers :
         /\ ticket[n] = NoRow
         /\ ticket' = [ticket EXCEPT ![n] =
               [status |-> "open", priority |-> Applied(i), by |-> i]]
         /\ log' = [log EXCEPT ![n] = << [kind |-> "created", call |-> c, at |-> 0,
               changes |-> {}, was |-> [status |-> "open", priority |-> Applied(i)]] >>]
         /\ request' = [request EXCEPT ![c].pc = "done", ![c].ticket = n]
  BY <1>2 DEF PostTicket
<1>3. /\ request[c].pc = "post" /\ idem[c].pc # "idle" /\ i \in Ids
      /\ raced' = raced /\ begun' = begun
  BY <1>2 DEF PostTicket, TicketInv, RequestOK, IP!IdemInv, IP!IdemTypeOK
<1>4. PICK row \in Row : row = [status |-> "open", priority |-> Applied(i), by |-> i]
  <2>1. RequestOf[i] \in Request
    BY <1>3, TicketsAssumption
  <2>2. RequestOf[i].priority \in Priorities \cup {"keep"}
    BY <2>1 DEF Request
  <2>3. Applied(i) \in Priorities
    BY <2>2 DEF Applied, Granted, Priorities
  <2> QED BY <1>3, <2>3 DEF Row, Statuses
<1>5. PICK e \in Entry : e = [kind |-> "created", call |-> c, at |-> 0, changes |-> {},
                              was |-> [status |-> "open", priority |-> Applied(i)]]
  <2>1. Applied(i) \in Priorities
    BY <1>4, FieldsAreFields
  <2> QED BY <2>1 DEF Entry, Statuses
<1>6. /\ e.call = c /\ e.changes = {}
      /\ e.was["status"] = row.status /\ e.was["priority"] = row.priority
  BY <1>4, <1>5
<1>7. /\ ticket' = [ticket EXCEPT ![n] = row]
      /\ log' = [log EXCEPT ![n] = <<e>>]
      /\ request' = [request EXCEPT ![c].pc = "done", ![c].ticket = n]
  BY <1>1, <1>4, <1>5
<1>8. row # NoRow
  BY <1>4 DEF NoRow
<1>9. /\ ticket' \in [Numbers -> Row \cup {NoRow}] /\ ticket'[n] = row
      /\ \A m \in Numbers \ {n} : ticket'[m] = ticket[m]
      /\ log' \in [Numbers -> Seq(Entry)] /\ log'[n] = <<e>>
      /\ \A m \in Numbers \ {n} : log'[m] = log[m]
  BY <1>7 DEF TicketInv, DeskTypeOK
<1>12. IdsStay /\ idem' = idem
  BY DEF IdsStay, idemVars
<1>13. IP!IdemInv'
  BY ResultsAreNotNone, IP!IdemNextInv DEF TicketInv, idemVars, IP!idemVars
<1>14. /\ request' \in [Calls -> HttpRequest]
       /\ request'[c].pc = "done" /\ request'[c].ticket = n
       /\ \A d \in Calls \ {c} : request'[d] = request[d]
  <2>1. [request[c] EXCEPT !.pc = "done", !.ticket = n] \in HttpRequest
    BY DEF TicketInv, DeskTypeOK, HttpRequest
  <2> QED BY <1>7, <2>1 DEF TicketInv, DeskTypeOK, HttpRequest
<1>15. DeskTypeOK' /\ InsideRun'
  BY <1>3, <1>9, <1>12, <1>14 DEF TicketInv, DeskTypeOK, InsideRun
<1>16. RequestOK(c)'
  BY <1>3, <1>8, <1>9, <1>12, <1>14 DEF RequestOK
<1>17. ASSUME NEW d \in Calls \ {c} PROVE RequestOK(d)'
  <2>1. RequestOK(d) /\ request'[d] = request[d]
    BY <1>14 DEF TicketInv
  <2>2. request[d].pc \in {"read", "apply", "comment", "done"} =>
           /\ request[d].ticket \in Numbers \ {n}
           /\ ticket[request[d].ticket] # NoRow
    BY <1>1, <2>1 DEF RequestOK
  <2> QED BY <1>3, <1>9, <1>12, <2>1, <2>2, RequestKept
<1>18. \A m \in Numbers \ {n} : log'[m] = log[m] /\ FieldsOf(m)' = FieldsOf(m)
  BY <1>9 DEF FieldsOf
<1>19. FieldsOf(n)' = After(e)
  <2>1. ticket'[n]["status"] = row.status /\ ticket'[n]["priority"] = row.priority
    BY <1>9, FieldsAreFields
  <2>2. \A f \in Fields : ticket'[n][f] = After(e)[f]
    BY <1>6, <2>1 DEF After, Changes, Fields
  <2>3. FieldsOf(n)' = [f \in Fields |-> ticket'[n][f]]
    BY DEF FieldsOf
  <2>4. After(e) = [f \in Fields |-> After(e)[f]]
    BY DEF After
  <2> QED BY <2>2, <2>3, <2>4
<1>20. Len(log'[n]) = 1 /\ DOMAIN log'[n] = {1} /\ log'[n][1] = e
  BY <1>9
<1>21. EntriesOfCalls'
  <2> SUFFICES ASSUME NEW m \in Numbers, NEW k \in DOMAIN log'[m]
               PROVE  log'[m][k].call \in Calls /\ idem'[log'[m][k].call].pc # "idle"
    BY DEF EntriesOfCalls
  <2>1. CASE m = n
    BY <1>3, <1>6, <1>12, <1>20, <2>1
  <2>2. CASE m # n
    BY <1>12, <1>18, <2>2 DEF TicketInv, EntriesOfCalls
  <2> QED BY <2>1, <2>2
<1>22. \A m \in Numbers : StatesFollow(m)'
  <2> SUFFICES ASSUME NEW m \in Numbers, log'[m] # << >>
               PROVE  /\ FieldsOf(m)' = After(log'[m][Len(log'[m])])
                      /\ \A k \in 1..(Len(log'[m]) - 1) : log'[m][k + 1].was = After(log'[m][k])
    BY DEF StatesFollow, After
  <2>1. CASE m = n
    BY <1>19, <1>20, <2>1
  <2>2. CASE m # n
    BY <1>18, <2>2 DEF TicketInv, HistoryInv, StatesFollow
  <2> QED BY <2>1, <2>2
<1>24. LastChanges'
  <2> SUFFICES ASSUME NEW m \in Numbers, NEW f \in Fields, NEW k \in DOMAIN log'[m],
                      Changes(log'[m][k], f),
                      \A j \in DOMAIN log'[m] : j > k => ~ Changes(log'[m][j], f)
               PROVE  ChangedTo(log'[m][k], f) = ticket'[m][f]
    BY DEF LastChanges
  <2>1. CASE m = n
    BY <1>6, <1>20, <2>1 DEF Changes
  <2>2. CASE m # n
    BY <1>9, <2>2 DEF TicketInv, HistoryInv, LastChanges
  <2> QED BY <2>1, <2>2
<1>23. RulesUnlessRaced'
  <2> SUFFICES ASSUME NEW m \in Numbers, NEW k \in DOMAIN log'[m],
                      NEW ch \in log'[m][k].changes,
                      ch.field = "status", log'[m][k].call \notin raced'
               PROVE  /\ ch.from = log'[m][k].was.status
                      /\ ch.to \in Allowed[ch.from]
                      /\ ch.from = "closed" => idem'[log'[m][k].call].id \in Leads
    BY DEF RulesUnlessRaced
  <2>1. CASE m = n
    BY <1>6, <1>20, <2>1
  <2>2. CASE m # n
    BY <1>3, <1>12, <1>18, <2>2 DEF TicketInv, RulesUnlessRaced
  <2> QED BY <2>1, <2>2
<1> QED BY <1>13, <1>15, <1>16, <1>17, <1>21, <1>22, <1>23, <1>24 DEF TicketInv, HistoryInv

LEMMA DeskStepKeeps ==
    ASSUME TicketInv, NEW c \in Calls, DeskStep(c), UNCHANGED faults
    PROVE  TicketInv'
BY PostTicketKeeps, ReadForPatchKeeps, BeginWriteKeeps, ApplyPatchKeeps, PostCommentKeeps DEF DeskStep

-----------------------------------------------------------------------------
LEMMA RequestFailsKeeps ==
    ASSUME TicketInv, NEW c \in Calls, RequestFails(c), faults' \in 0..MaxFaults
    PROVE  TicketInv'
<1>1. /\ request[c].pc \in {"post", "read", "apply", "comment"}
      /\ Reached(c, "failed") /\ UNCHANGED deskVars
  BY DEF RequestFails
<1>2. CASE Throw(c)
  BY <1>1, <1>2, ThrowKeeps
<1>3. CASE UNCHANGED <<idemVars, run>>
  <2>1. IdsStay /\ idem' = idem
    BY <1>3 DEF IdsStay, idemVars
  <2>2. IP!IdemInv'
    BY <1>3, ResultsAreNotNone, IP!IdemNextInv DEF TicketInv, idemVars, IP!idemVars
  <2>3. /\ request' \in [Calls -> HttpRequest] /\ request'[c].pc = "failed"
        /\ \A d \in Calls \ {c} : request'[d] = request[d]
    <3>1. [request[c] EXCEPT !.pc = "failed"] \in HttpRequest
      BY DEF TicketInv, DeskTypeOK, HttpRequest
    <3> QED BY <1>1, <3>1 DEF TicketInv, DeskTypeOK, Reached, HttpRequest
  <2>4. DeskTypeOK' /\ InsideRun'
    BY <1>1, <1>3, <2>1, <2>3 DEF TicketInv, DeskTypeOK, InsideRun, deskVars
  <2>5. EntriesOfCalls' /\ HistoryInv' /\ RulesUnlessRaced'
    BY <1>1, <2>1, DeskQuiet DEF deskVars
  <2>6. RequestOK(c)'
    BY <1>1, <2>1, <2>3 DEF TicketInv, RequestOK
  <2>7. \A d \in Calls \ {c} : RequestOK(d)'
    BY <1>1, <2>1, <2>3, RequestQuiet DEF deskVars
  <2> QED BY <2>2, <2>4, <2>5, <2>6, <2>7 DEF TicketInv
<1> QED BY <1>2, <1>3 DEF RequestFails

LEMMA FaultKeeps ==
    ASSUME TicketInv, Fault, faults' \in 0..MaxFaults
    PROVE  TicketInv'
<1>1. CASE IdemFault
  BY <1>1, WrapperKeeps, ExpiryKeeps DEF IdemFault
<1>2. ASSUME NEW c \in Calls, CallFails(c) PROVE TicketInv'
  BY <1>2, ThrowKeeps DEF CallFails
<1>3. ASSUME NEW c \in Calls, ServerDies(c) PROVE TicketInv'
  <2>1. IP!Die(c)
    BY <1>3, SameSteps DEF ServerDies
  <2> QED BY <1>3, <2>1, EndKeeps DEF ServerDies
<1> QED BY <1>1, <1>2, <1>3, RequestFailsKeeps DEF Fault

LEMMA TicketNextInv == TicketInv /\ [TicketNext]_ticketVars => TicketInv'
<1> SUFFICES ASSUME TicketInv, [TicketNext]_ticketVars PROVE TicketInv'
  OBVIOUS
<1>1. faults \in 0..MaxFaults /\ MaxFaults \in Nat
  BY TicketsAssumption DEF TicketInv, DeskTypeOK
<1>2. ASSUME NEW c \in Calls, NEW i \in Ids, Ask(c, i), UNCHANGED faults PROVE TicketInv'
  BY <1>2, AskKeeps
<1>3. ASSUME NEW c \in Calls, Idem!IdemStep(c), UNCHANGED <<deskVars, request, run>>,
             UNCHANGED faults
      PROVE  TicketInv'
  BY <1>1, <1>3, WrapperKeeps
<1>4. ASSUME NEW c \in Calls, RunStep(c) \/ DeskStep(c), UNCHANGED faults PROVE TicketInv'
  BY <1>4, RunStepKeeps, DeskStepKeeps
<1>5. CASE Fault /\ faults < MaxFaults /\ faults' = faults + 1
  BY <1>1, <1>5, FaultKeeps
<1>6. CASE UNCHANGED ticketVars
  <2>1. UNCHANGED <<idemVars, deskVars, request, run, faults>>
    BY <1>6 DEF ticketVars
  <2>2. IdsStay /\ idem' = idem
    BY <2>1 DEF IdsStay, idemVars
  <2>3. IP!IdemInv'
    BY <2>1, ResultsAreNotNone, IP!IdemNextInv DEF TicketInv, idemVars, IP!idemVars
  <2>4. InsideRun'
    BY <2>1, <2>2 DEF TicketInv, InsideRun
  <2> QED BY <1>1, <2>1, <2>2, <2>3, <2>4, SilentKeeps DEF TicketInv, DeskTypeOK
<1> QED BY <1>2, <1>3, <1>4, <1>5, <1>6 DEF TicketNext

(* For any number of calls, requests and tickets: requests at the ticketing system carry
   what was permitted on the status the ticket still has, unless raced, and the last change
   of a field to take effect left it as it is. *)
THEOREM TicketInvariant == TicketSpec => []TicketInv
BY TicketInitInv, TicketNextInv, PTL DEF TicketSpec

(* However many updates, comments and lost answers there are, and in whatever order they
   reach the ticketing system, the changes recorded on a ticket account for each of its
   states, and the change of a field with the latest created_at names its present value,
   unless another change of that field was under way beside it and took effect later. *)
THEOREM HistoriesLead == TicketSpec => []HistoryLeadsToState
<1>1. TicketInv => HistoryLeadsToState
  <2> SUFFICES ASSUME TicketInv PROVE HistoryLeadsToState
    OBVIOUS
  <2>1. ASSUME NEW n \in Numbers, NEW f \in Fields PROVE LastReadIsPresent(n, f)
    <3> SUFFICES ASSUME NEW k \in DOMAIN log[n], Changes(log[n][k], f),
                        \A j \in DOMAIN log[n] :
                           Changes(log[n][j], f) => log[n][j].at <= log[n][k].at
                 PROVE  \/ ChangedTo(log[n][k], f) = ticket[n][f]
                        \/ \E j \in DOMAIN log[n] : /\ j > k /\ Changes(log[n][j], f)
                                                     /\ log[n][j].at <= log[n][k].at
      BY DEF LastReadIsPresent
    <3> QED BY DEF TicketInv, HistoryInv, LastChanges
  <2> QED BY <2>1 DEF TicketInv, HistoryInv, HistoryLeadsToState
<1> QED BY <1>1, TicketInvariant, PTL

(* For any number of calls, a status changes against the rules only where somebody else
   changed it between the check and the write. *)
THEOREM OnlyRacesBreakRules == TicketSpec => []RulesUnlessRaced
<1>1. TicketInv => RulesUnlessRaced
  BY DEF TicketInv
<1> QED BY <1>1, TicketInvariant, PTL

(* The types of the tickets, of the requests and of the wrapper hold in every instance. *)
THEOREM TicketTypesHold == TicketSpec => []TicketTypeOK
<1>1. TicketInv => TicketTypeOK
  <2>1. IP!IdemInv => Idem!IdemTypeOK
    BY DEF IP!IdemInv, IP!IdemTypeOK, Idem!IdemTypeOK, IP!IdemCall, Idem!IdemCall,
           IP!Success, Idem!Success
  <2> QED BY <2>1 DEF TicketInv, DeskTypeOK, TicketTypeOK
<1> QED BY <1>1, TicketInvariant, PTL

-----------------------------------------------------------------------------
(* Once per request.  The wrapper lets the runs of an id act one after the other, and none
   after one that succeeded, unless a call of it failed or outlived its lock; and a run
   posts one ticket, or one note, at the most. *)

Sent == {c \in Calls : request[c].pc # "none"}

(* A call sends its first request in its run, where it has nothing noted yet. *)
SendsInRun ==
    \A c \in Calls :
       /\ c \in Sent => idem[c].pc \in {"run", "store", "release", "done"}
       /\ idem[c].pc = "run" /\ run[c] = "out" => c \notin Sent
       /\ run[c] \in {"creating", "patching"} => request[c].kind = "none"

(* One call sends anything for an untroubled id. *)
SoleSender ==
    \A c, d \in Sent : idem[c].id = idem[d].id /\ IP!Untroubled(idem[c].id) => c = d

(* What sent something for an untroubled id is still at it, or has its result stored. *)
SentKept ==
    \A c \in Sent :
       IP!Untroubled(idem[c].id) =>
          idem[c].pc \in {"run", "store"} \/ idemResult[idem[c].id] # None

(* A ticket is the one its first comment's call has posted for its id. *)
Made ==
    \A n \in Numbers :
       ticket[n].by \in Ids =>
          /\ log[n] # << >>
          /\ log[n][1].call \in Sent
          /\ idem[log[n][1].call].id = ticket[n].by
          /\ request[log[n][1].call].ticket = n
          /\ request[log[n][1].call].pc # "post"

(* A call that has put a note on a ticket sends nothing after it. *)
NotesDone ==
    \A n \in Numbers : \A k \in DOMAIN log[n] :
       log[n][k].kind = "note" => /\ request[log[n][k].call].pc = "done"
                                  /\ request[log[n][k].call].kind = "note"

NoteOnce ==
    \A n \in Numbers : \A k, l \in DOMAIN log[n] :
       log[n][k].kind = "note" /\ log[n][l].kind = "note" /\ log[n][k].call = log[n][l].call
       => k = l

OnceInv ==
    /\ TicketInv /\ IP!FailedAtEnd
    /\ SendsInRun /\ SoleSender /\ SentKept /\ Made /\ NotesDone /\ NoteOnce

LEMMA OnceInitInv == TicketInit => OnceInv
<1> SUFFICES ASSUME TicketInit PROVE OnceInv
  OBVIOUS
<1>1. IP!FailedAtEnd
  BY DEF TicketInit, Idem!IdemInit, Idem!NoCall, IP!FailedAtEnd
<1>2. Sent = {} /\ SendsInRun
  BY DEF TicketInit, Sent, NoRequest, SendsInRun
<1>3. Made
  <2>1. PICK s \in Seeds : ticket = [n \in Numbers |-> IF n \in DOMAIN s THEN s[n] ELSE NoRow]
    BY DEF TicketInit
  <2>2. \A n \in DOMAIN s : s[n].by = None
    <3> DEFINE SeedRow == [status : Statuses, priority : Priorities, by : {None}]
    <3>1. s \in Seq(SeedRow)
      BY TicketsAssumption
    <3>2. \A r \in SeedRow : r.by = None
      OBVIOUS
    <3> HIDE DEF SeedRow
    <3> QED BY <3>1, <3>2
  <2>3. \A n \in Numbers : ticket[n].by = None
    BY <2>1, <2>2 DEF NoRow
  <2> QED BY <2>3, ResultsAreNotNone DEF Made
<1>4. NotesDone /\ NoteOnce
  BY DEF TicketInit, NotesDone, NoteOnce
<1> QED BY <1>1, <1>2, <1>3, <1>4, TicketInitInv DEF OnceInv, SoleSender, SentKept

(* Every step is one of the wrapper, or none to it. *)
LEMMA WrapperSteps ==
    ASSUME TicketInv, [TicketNext]_ticketVars
    PROVE  [IP!IdemNext]_(IP!idemVars)
<1>1. ASSUME UNCHANGED idemVars PROVE UNCHANGED IP!idemVars
  BY <1>1 DEF idemVars, IP!idemVars
<1>2. ASSUME NEW c \in Calls, Throw(c) PROVE IP!IdemNext
  BY <1>2, SameSteps DEF Throw, IP!IdemNext
<1>3. ASSUME NEW c \in Calls, NEW n \in Numbers, Return(c, n) PROVE IP!IdemNext
  <2>1. [by |-> c, ticket |-> n] \in Result
    BY DEF Result
  <2> QED BY <1>3, <2>1, SameSteps DEF Return, IP!IdemNext
<1>4. ASSUME NEW c \in Calls, NEW i \in Ids, Ask(c, i) PROVE IP!IdemNext \/ UNCHANGED IP!idemVars
  BY <1>1, <1>4, SameSteps DEF Ask, IP!IdemNext
<1>5. ASSUME NEW c \in Calls, RunStep(c) PROVE IP!IdemNext \/ UNCHANGED IP!idemVars
  <2>1. request[c].pc = "done" => request[c].ticket \in Numbers
    BY DEF TicketInv, RequestOK
  <2>2. CASE StartCreate(c) \/ StartUpdate(c)
    BY <1>1, <1>2, <2>2 DEF StartCreate, StartUpdate
  <2>3. CASE TicketCreated(c) \/ TicketPatched(c) \/ CommentAdded(c)
    BY <1>1, <1>3, <2>1, <2>3 DEF TicketCreated, TicketPatched, CommentAdded
  <2> QED BY <1>5, <2>2, <2>3 DEF RunStep
<1>6. ASSUME NEW c \in Calls, DeskStep(c) PROVE UNCHANGED IP!idemVars
  BY <1>1, <1>6 DEF DeskStep
<1>7. ASSUME NEW c \in Calls, Idem!IdemStep(c) PROVE IP!IdemNext
  BY <1>7, SameSteps DEF IP!IdemNext
<1>8. CASE Fault
  <2>1. CASE IdemFault
    BY <2>1, SameSteps, SameExpiry DEF IdemFault, IP!IdemNext
  <2>2. ASSUME NEW c \in Calls, RequestFails(c) \/ CallFails(c) \/ ServerDies(c)
        PROVE  IP!IdemNext \/ UNCHANGED IP!idemVars
    BY <1>1, <1>2, <2>2, SameSteps DEF RequestFails, CallFails, ServerDies, IP!IdemNext
  <2> QED BY <1>8, <2>1, <2>2 DEF Fault
<1>9. CASE UNCHANGED ticketVars
  BY <1>1, <1>9 DEF ticketVars
<1> QED BY <1>4, <1>5, <1>6, <1>7, <1>8, <1>9 DEF TicketNext

(* What a step does to the requests. *)
LEMMA RequestMoves ==
    ASSUME TicketInv, SendsInRun, [TicketNext]_ticketVars
    PROVE  \/ UNCHANGED request
           \/ \E c \in Calls :
                 /\ request' \in [Calls -> HttpRequest]
                 /\ \A d \in Calls \ {c} : request'[d] = request[d]
                 /\ \/ /\ c \notin Sent /\ idem[c].pc = "run" /\ run[c] = "out"
                       /\ UNCHANGED <<idemVars, deskVars>>
                       /\ run'[c] # "out"
                       /\ run'[c] \in {"creating", "patching"} => request'[c].kind = "none"
                    \/ /\ c \in Sent /\ ~ (request[c].pc = "done" /\ request[c].kind = "note")
                       /\ request[c].pc # "post" => request'[c].ticket = request[c].ticket
                       /\ run'[c] \in {"creating", "patching"} =>
                             request'[c].kind = request[c].kind /\ run'[c] = run[c]
                 /\ request'[c].pc # "none"
                 /\ c \in Sent => request'[c].pc # "post"
<1> USE DEF TicketInv, DeskTypeOK
<1>1. ASSUME NEW c \in Calls, NEW pc, Reached(c, pc), pc \in {"done", "failed"}
      PROVE  /\ request' \in [Calls -> HttpRequest]
             /\ \A d \in Calls \ {c} : request'[d] = request[d]
             /\ request'[c].pc = pc /\ request'[c].ticket = request[c].ticket
             /\ request'[c].kind = request[c].kind
  <2>1. [request[c] EXCEPT !.pc = pc] \in HttpRequest
    BY <1>1 DEF HttpRequest
  <2> QED BY <1>1, <2>1 DEF Reached, HttpRequest
<1>2. ASSUME NEW c \in Calls, NEW pc \in {"post", "read", "comment"}, NEW n \in Numbers \cup {0},
             NEW patch \in SUBSET [field : Fields, to : Statuses \cup Priorities],
             NEW kind \in {"none", "note", "lowered"}, Send(c, pc, n, patch, kind)
      PROVE  /\ request' \in [Calls -> HttpRequest]
             /\ \A d \in Calls \ {c} : request'[d] = request[d]
             /\ request'[c].pc = pc /\ request'[c].ticket = n /\ request'[c].kind = kind
  <2> DEFINE sent == [pc |-> pc, ticket |-> n, patch |-> patch, changes |-> {}, kind |-> kind,
                       at |-> 0]
  <2>1. sent \in HttpRequest
    BY DEF HttpRequest
  <2>2. /\ sent.pc = pc /\ sent.ticket = n /\ sent.kind = kind
        /\ request' = [request EXCEPT ![c] = sent]
    BY <1>2 DEF Send
  <2> HIDE DEF sent
  <2> QED BY <2>1, <2>2
<1>3. {} \in SUBSET [field : Fields, to : Statuses \cup Priorities]
  OBVIOUS
<1>4. ASSUME NEW c \in Calls, NEW step, At(c, step) PROVE run'[c] = step
  BY <1>4 DEF At
<1> DEFINE Goal(c) == /\ request' \in [Calls -> HttpRequest]
                      /\ \A d \in Calls \ {c} : request'[d] = request[d]
                      /\ \/ /\ c \notin Sent /\ idem[c].pc = "run" /\ run[c] = "out"
                            /\ UNCHANGED <<idemVars, deskVars>>
                            /\ run'[c] # "out"
                            /\ run'[c] \in {"creating", "patching"} => request'[c].kind = "none"
                         \/ /\ c \in Sent /\ ~ (request[c].pc = "done" /\ request[c].kind = "note")
                            /\ request[c].pc # "post" => request'[c].ticket = request[c].ticket
                            /\ run'[c] \in {"creating", "patching"} =>
                                  request'[c].kind = request[c].kind /\ run'[c] = run[c]
                      /\ request'[c].pc # "none"
                      /\ c \in Sent => request'[c].pc # "post"
<1>5. ASSUME NEW c \in Calls, StartCreate(c) PROVE Goal(c)
  BY <1>2, <1>3, <1>4, <1>5 DEF StartCreate, Running, SendsInRun
<1>6. ASSUME NEW c \in Calls, StartUpdate(c) PROVE Goal(c) \/ UNCHANGED request
  <2>1. idem[c].id \in Ids /\ RequestOf[idem[c].id].ticket \in Numbers
    <3>1. idem[c].id \in Ids
      BY <1>6 DEF IP!IdemInv, IP!IdemTypeOK, StartUpdate, Running
    <3> QED BY <1>6, <3>1, TicketsAssumption DEF StartUpdate, Running
  <2>2. PatchOf(idem[c].id) \in SUBSET [field : Fields, to : Statuses \cup Priorities]
    BY <2>1, PatchTyped
  <2> QED BY <1>2, <1>3, <1>4, <1>6, <2>1, <2>2 DEF StartUpdate, Running, SendsInRun
<1>7. ASSUME NEW c \in Calls, TicketCreated(c) \/ TicketPatched(c)
      PROVE  Goal(c) \/ UNCHANGED request
  <2>1. c \in Sent /\ request[c].ticket \in Numbers /\ request[c].kind = "none"
    BY <1>7 DEF TicketCreated, TicketPatched, Sent, RequestOK, SendsInRun
  <2> QED BY <1>2, <1>3, <1>4, <1>7, <2>1 DEF TicketCreated, TicketPatched, Return
<1>8. ASSUME NEW c \in Calls, DeskStep(c), UNCHANGED faults
      PROVE  Goal(c) \/ UNCHANGED request
  <2>1. CASE ApplyPatch(c) \/ PostComment(c)
    BY <1>1, <1>8, <2>1 DEF ApplyPatch, PostComment, DeskStep, Sent
  <2>2. CASE PostTicket(c)
    <3>2. PICK n \in Numbers : request' = [request EXCEPT ![c].pc = "done", ![c].ticket = n]
      BY <2>2 DEF PostTicket
    <3>3. [request[c] EXCEPT !.pc = "done", !.ticket = n] \in HttpRequest
      BY DEF HttpRequest
    <3>4. /\ request' \in [Calls -> HttpRequest]
          /\ \A d \in Calls \ {c} : request'[d] = request[d]
          /\ request'[c].pc = "done" /\ request'[c].kind = request[c].kind
      BY <3>2, <3>3 DEF HttpRequest
    <3> QED BY <1>8, <2>2, <3>4 DEF PostTicket, DeskStep, Sent
  <2>3. CASE ReadForPatch(c)
    <3> DEFINE changes ==
                 {[field |-> p.field, from |-> ticket[request[c].ticket][p.field], to |-> p.to] :
                    p \in {q \in request[c].patch : q.to # ticket[request[c].ticket][q.field]}}
               next == IF changes = {} THEN "done" ELSE "apply"
    <3>1. /\ request' = [request EXCEPT ![c].changes = changes, ![c].pc = next]
          /\ request[c].pc = "read" /\ next \in {"done", "apply"}
      BY <2>3 DEF ReadForPatch
    <3> HIDE DEF next, changes
    <3>2. request' \in [Calls -> HttpRequest]
      BY <1>8, DeskStepKeeps
    <3>3. /\ \A d \in Calls \ {c} : request'[d] = request[d]
          /\ request'[c].pc = next /\ request'[c].ticket = request[c].ticket
          /\ request'[c].kind = request[c].kind
      BY <3>1 DEF HttpRequest
    <3> QED BY <1>8, <3>1, <3>2, <3>3 DEF DeskStep, Sent
  <2>4. CASE BeginWrite(c)
    <3>1. /\ request[c].pc \in {"apply", "comment"}
          /\ request' = [request EXCEPT ![c].at = begun[request[c].ticket] + 1]
      BY <2>4 DEF BeginWrite
    <3>2. request' \in [Calls -> HttpRequest]
      BY <1>8, DeskStepKeeps
    <3>3. /\ \A d \in Calls \ {c} : request'[d] = request[d]
          /\ request'[c].pc = request[c].pc /\ request'[c].ticket = request[c].ticket
          /\ request'[c].kind = request[c].kind
      BY <3>1 DEF HttpRequest
    <3> QED BY <1>8, <3>1, <3>2, <3>3 DEF DeskStep, Sent
  <2> QED BY <1>8, <2>1, <2>2, <2>3, <2>4 DEF DeskStep
<1>9. ASSUME NEW c \in Calls, RequestFails(c) PROVE Goal(c)
  BY <1>1, <1>4, <1>9 DEF RequestFails, Throw, Sent
<1> HIDE DEF Goal
<1>10. UNCHANGED request \/ \E c \in Calls : Goal(c)
  BY <1>5, <1>6, <1>7, <1>8, <1>9
     DEF TicketNext, RunStep, CommentAdded, Return, Ask, Fault, IdemFault, CallFails, ServerDies,
         ticketVars
<1> QED BY <1>10 DEF Goal

(* Call c opens ticket n. *)
Opens(c, n) ==
    /\ request[c].pc = "post" /\ ticket[n] = NoRow
    /\ UNCHANGED <<idemVars, run>>
    /\ ticket'[n].by = idem[c].id
    /\ DOMAIN log'[n] = {1} /\ log'[n][1].call = c /\ log'[n][1].kind = "created"
    /\ request'[c].pc = "done" /\ request'[c].ticket = n
    /\ \A m \in Numbers \ {n} : ticket'[m] = ticket[m] /\ log'[m] = log[m]

(* Call c adds entry e to ticket n. *)
Adds(c, n, e) ==
    /\ request[c].ticket = n /\ ticket[n] # NoRow
    /\ UNCHANGED <<idemVars, run>>
    /\ e.call = c /\ e.was = FieldsOf(n) /\ FieldsOf(n)' = After(e)
    /\ \/ request[c].pc = "comment" /\ e.kind = request[c].kind /\ e.changes = {}
       \/ request[c].pc = "apply" /\ e.kind = "changed" /\ e.changes = request[c].changes
    /\ ticket'[n].by = ticket[n].by
    /\ Len(log[n]) \in Nat /\ DOMAIN log[n] = 1..Len(log[n])
    /\ DOMAIN log'[n] = 1..(Len(log[n]) + 1) /\ log'[n][Len(log[n]) + 1] = e
    /\ \A k \in 1..Len(log[n]) : log'[n][k] = log[n][k]
    /\ request'[c].pc = "done" /\ request'[c].kind = request[c].kind
    /\ \A m \in Numbers \ {n} : ticket'[m] = ticket[m] /\ log'[m] = log[m]

LEMMA PostTicketOpens ==
    ASSUME TicketInv, NEW c \in Calls, PostTicket(c), UNCHANGED <<idemVars, run>>
    PROVE  \E n \in Numbers : Opens(c, n)
<1>2. PICK i : i = idem[c].id
  OBVIOUS
<1>1. PICK n \in Numbers :
         /\ ticket[n] = NoRow
         /\ ticket' = [ticket EXCEPT ![n] =
               [status |-> "open", priority |-> Applied(i), by |-> i]]
         /\ log' = [log EXCEPT ![n] = << [kind |-> "created", call |-> c, at |-> 0,
               changes |-> {}, was |-> [status |-> "open", priority |-> Applied(i)]] >>]
         /\ request' = [request EXCEPT ![c].pc = "done", ![c].ticket = n]
  BY <1>2 DEF PostTicket
<1>3. PICK row : row = [status |-> "open", priority |-> Applied(i), by |-> i]
  OBVIOUS
<1>4. PICK e : e = [kind |-> "created", call |-> c, at |-> 0, changes |-> {},
                    was |-> [status |-> "open", priority |-> Applied(i)]]
  OBVIOUS
<1>5. /\ ticket' = [ticket EXCEPT ![n] = row]
      /\ log' = [log EXCEPT ![n] = <<e>>]
      /\ request' = [request EXCEPT ![c].pc = "done", ![c].ticket = n]
      /\ request[c].pc = "post"
  BY <1>1, <1>2, <1>3, <1>4 DEF PostTicket
<1>6. row.by = i /\ e.call = c /\ e.kind = "created"
  BY <1>3, <1>4
<1>7. ticket[n] = NoRow
  BY <1>1
<1>8. /\ ticket'[n] = row /\ log'[n] = <<e>>
      /\ \A m \in Numbers \ {n} : ticket'[m] = ticket[m] /\ log'[m] = log[m]
  BY <1>5 DEF TicketInv, DeskTypeOK
<1>9. DOMAIN log'[n] = {1} /\ log'[n][1] = e
  BY <1>8
<1>10. request'[c].pc = "done" /\ request'[c].ticket = n
  BY <1>5 DEF TicketInv, DeskTypeOK, HttpRequest
<1> QED BY <1>2, <1>5, <1>6, <1>7, <1>8, <1>9, <1>10 DEF Opens

LEMMA EntryAdded ==
    ASSUME TicketInv, NEW n \in Numbers, NEW e, log' = [log EXCEPT ![n] = Append(@, e)]
    PROVE  /\ Len(log[n]) \in Nat /\ DOMAIN log[n] = 1..Len(log[n])
           /\ DOMAIN log'[n] = 1..(Len(log[n]) + 1) /\ log'[n][Len(log[n]) + 1] = e
           /\ \A k \in 1..Len(log[n]) : log'[n][k] = log[n][k]
           /\ \A m \in Numbers \ {n} : log'[m] = log[m]
<1>1. /\ log \in [Numbers -> Seq(Entry)] /\ log[n] \in Seq(Entry)
  BY DEF TicketInv, DeskTypeOK
<1>2. log'[n] = Append(log[n], e) /\ \A m \in Numbers \ {n} : log'[m] = log[m]
  BY <1>1
<1>3. PICK s \in Seq(Entry \cup {e}) : s = log[n]
  BY <1>1
<1>4. /\ Len(s) \in Nat /\ DOMAIN s = 1..Len(s)
      /\ DOMAIN Append(s, e) = 1..(Len(s) + 1) /\ Append(s, e)[Len(s) + 1] = e
      /\ \A k \in 1..Len(s) : Append(s, e)[k] = s[k]
  BY <1>3
<1> QED BY <1>2, <1>3, <1>4

LEMMA CommentAdds ==
    ASSUME TicketInv, NEW c \in Calls, PostComment(c), UNCHANGED <<idemVars, run>>
    PROVE  \E n \in Numbers : \E e : Adds(c, n, e)
<1>1. /\ request[c].pc = "comment" /\ ticket' = ticket
      /\ WriteEntry(request[c].ticket, request[c].kind, c, {})
      /\ request' = [request EXCEPT ![c].pc = "done"]
  BY DEF PostComment, Reached
<1>2. PICK n \in Numbers : n = request[c].ticket /\ ticket[n] # NoRow
  BY <1>1 DEF TicketInv, RequestOK
<1>3. PICK e : e = [kind |-> request[c].kind, call |-> c, at |-> request[c].at, changes |-> {},
              was |-> FieldsOf(n)]
  OBVIOUS
<1>4. log' = [log EXCEPT ![n] = Append(@, e)]
  BY <1>1, <1>2, <1>3 DEF WriteEntry
<1>5. e.call = c /\ e.was = FieldsOf(n) /\ e.kind = request[c].kind /\ e.changes = {}
  BY <1>3
<1>6. FieldsOf(n)' = After(e)
  BY <1>1, <1>5 DEF FieldsOf, After, Changes
<1>7. request'[c].pc = "done" /\ request'[c].kind = request[c].kind
  BY <1>1 DEF TicketInv, DeskTypeOK, HttpRequest
<1>8. /\ Len(log[n]) \in Nat /\ DOMAIN log[n] = 1..Len(log[n])
      /\ DOMAIN log'[n] = 1..(Len(log[n]) + 1) /\ log'[n][Len(log[n]) + 1] = e
      /\ \A k \in 1..Len(log[n]) : log'[n][k] = log[n][k]
      /\ \A m \in Numbers \ {n} : log'[m] = log[m]
  BY <1>4, EntryAdded
<1> QED BY <1>1, <1>2, <1>5, <1>6, <1>7, <1>8 DEF Adds

LEMMA PatchAdds ==
    ASSUME TicketInv, NEW c \in Calls, ApplyPatch(c), UNCHANGED <<idemVars, run>>
    PROVE  \E n \in Numbers : \E e : Adds(c, n, e)
<1>1. /\ request[c].pc = "apply"
      /\ WriteEntry(request[c].ticket, "changed", c, request[c].changes)
      /\ request' = [request EXCEPT ![c].pc = "done"]
  BY DEF ApplyPatch, Reached
<1>2. PICK n \in Numbers : n = request[c].ticket
  BY <1>1 DEF TicketInv, RequestOK
<1>3. PICK changes \in SUBSET Change : changes = request[c].changes
  BY DEF TicketInv, DeskTypeOK, HttpRequest
<1>4. ticket[n] # NoRow /\ ticket[n] \in Row
  BY <1>1, <1>2 DEF TicketInv, RequestOK, DeskTypeOK
<1>5. PICK e : e = [kind |-> "changed", call |-> c, at |-> request[c].at, changes |-> changes,
                    was |-> FieldsOf(n)]
  OBVIOUS
<1>6. e.call = c /\ e.was = FieldsOf(n) /\ e.changes = changes /\ e.kind = "changed"
  BY <1>5
<1>7. log' = [log EXCEPT ![n] = Append(@, e)]
  BY <1>1, <1>2, <1>3, <1>5 DEF WriteEntry
<1> DEFINE To(f) == IF \E ch \in changes : ch.field = f
                    THEN (CHOOSE ch \in changes : ch.field = f).to
                    ELSE ticket[n][f]
<1>8. ticket' = [ticket EXCEPT ![n].status = To("status"), ![n].priority = To("priority")]
  BY <1>2, <1>3 DEF ApplyPatch
<1>9. \A f \in Fields : After(e)[f] = To(f)
  BY <1>6 DEF After, Changes, ChangedTo, FieldsOf
<1> HIDE DEF To
<1>10. /\ ticket'[n].status = To("status") /\ ticket'[n].priority = To("priority")
       /\ ticket'[n].by = ticket[n].by
       /\ ticket'[n]["status"] = To("status") /\ ticket'[n]["priority"] = To("priority")
       /\ \A m \in Numbers \ {n} : ticket'[m] = ticket[m]
  <2>1. ticket \in [Numbers -> Row \cup {NoRow}]
    BY DEF TicketInv, DeskTypeOK
  <2>2. /\ ticket'[n] = [ticket[n] EXCEPT !.status = To("status"), !.priority = To("priority")]
        /\ \A m \in Numbers \ {n} : ticket'[m] = ticket[m]
    BY <1>4, <1>8, <2>1 DEF Row
  <2> QED BY <1>4, <2>2 DEF Row
<1>11. FieldsOf(n)' = After(e)
  <2>1. \A f \in Fields : ticket'[n][f] = After(e)[f]
    BY <1>9, <1>10 DEF Fields
  <2>2. FieldsOf(n)' = [f \in Fields |-> ticket'[n][f]]
    BY DEF FieldsOf
  <2>3. After(e) = [f \in Fields |-> After(e)[f]]
    BY DEF After
  <2> QED BY <2>1, <2>2, <2>3
<1>12. request'[c].pc = "done" /\ request'[c].kind = request[c].kind
  BY <1>1 DEF TicketInv, DeskTypeOK, HttpRequest
<1>13. /\ Len(log[n]) \in Nat /\ DOMAIN log[n] = 1..Len(log[n])
       /\ DOMAIN log'[n] = 1..(Len(log[n]) + 1) /\ log'[n][Len(log[n]) + 1] = e
       /\ \A k \in 1..Len(log[n]) : log'[n][k] = log[n][k]
       /\ \A m \in Numbers \ {n} : log'[m] = log[m]
  BY <1>7, EntryAdded
<1>14. /\ ticket'[n].by = ticket[n].by
       /\ \A m \in Numbers \ {n} : ticket'[m] = ticket[m] /\ log'[m] = log[m]
  BY <1>10, <1>13
<1>15. Adds(c, n, e)
  BY <1>1, <1>2, <1>3, <1>4, <1>6, <1>11, <1>12, <1>13, <1>14 DEF Adds
<1> QED BY <1>15

(* What a step does to the tickets and their comments. *)
LEMMA LogMoves ==
    ASSUME TicketInv, [TicketNext]_ticketVars
    PROVE  \/ UNCHANGED <<ticket, log>>
           \/ \E c \in Calls, n \in Numbers : Opens(c, n)
           \/ \E c \in Calls, n \in Numbers : \E e : Adds(c, n, e)
<1>1. ASSUME NEW c \in Calls, DeskStep(c)
      PROVE  \/ UNCHANGED <<ticket, log>>
             \/ \E n \in Numbers : Opens(c, n)
             \/ \E n \in Numbers : \E e : Adds(c, n, e)
  BY <1>1, PostTicketOpens, CommentAdds, PatchAdds DEF DeskStep, ReadForPatch, BeginWrite, deskVars
<1>2. ASSUME NEW c \in Calls, RunStep(c) PROVE UNCHANGED deskVars
  BY <1>2 DEF RunStep, StartCreate, StartUpdate, TicketCreated, TicketPatched, CommentAdded
<1>3. CASE Fault
  BY <1>3 DEF Fault, IdemFault, RequestFails, CallFails, ServerDies, deskVars
<1>4. CASE UNCHANGED ticketVars
  BY <1>4 DEF ticketVars, deskVars
<1> QED BY <1>1, <1>2, <1>3, <1>4 DEF TicketNext, Ask, deskVars

(* What a step does to the calls: as the wrapper does, and a run that is left is at its end. *)
LEMMA CallMoves ==
    ASSUME OnceInv, [TicketNext]_ticketVars
    PROVE  \A c \in Calls :
              /\ IP!StaysOf(c)
              /\ run'[c] = "out" /\ run[c] # "out" => idem'[c].pc # "run"
              /\ run'[c] \in {"creating", "patching"} => run'[c] = run[c] \/ request'[c] # request[c]
<1> USE DEF OnceInv, TicketInv, DeskTypeOK
<1>1. \A c \in Calls : IP!StaysOf(c)
  BY WrapperSteps, ResultsAreNotNone, IP!RunsEnd
<1> DEFINE Goal == \A d \in Calls :
                      /\ run'[d] = "out" /\ run[d] # "out" => idem'[d].pc # "run"
                      /\ run'[d] \in {"creating", "patching"} =>
                            run'[d] = run[d] \/ request'[d] # request[d]
<1>2. ASSUME NEW c \in Calls, NEW step \in {"out", "creating", "lowering", "patching", "noting"},
             At(c, step), step = "out" => idem'[c].pc # "run",
             step \in {"creating", "patching"} => request'[c] # request[c]
      PROVE  Goal
  BY <1>2 DEF At
<1>3. ASSUME NEW c \in Calls, NEW pc \in IP!Steps, NEW answer \in {"none", "failed"},
             NEW r \in Result \cup {None}, Idem!Settle(c, pc, answer, r)
      PROVE  idem'[c].pc = pc
  BY <1>3 DEF Idem!Settle, IP!IdemInv, IP!IdemTypeOK, IP!IdemCall
<1>4. ASSUME NEW c \in Calls, Throw(c) PROVE Goal
  BY <1>2, <1>3, <1>4 DEF Throw, Idem!RunFails, IP!Steps
<1>5. ASSUME NEW c \in Calls, NEW n \in Numbers, Return(c, n) PROVE Goal
  <2>1. [by |-> c, ticket |-> n] \in Result
    BY DEF Result
  <2> QED BY <1>2, <1>3, <1>5, <2>1 DEF Return, Idem!RunDone, IP!Steps
<1>6. ASSUME NEW c \in Calls, ServerDies(c) PROVE Goal
  BY <1>2, <1>3, <1>6 DEF ServerDies, Idem!Die, IP!Steps
<1>7. ASSUME NEW c \in Calls, NEW pc, NEW n, NEW patch, NEW kind, Send(c, pc, n, patch, kind)
      PROVE  request'[c].pc = pc
  BY <1>7 DEF Send
<1>8. ASSUME NEW c \in Calls, StartCreate(c) \/ StartUpdate(c) PROVE Goal
  <2>1. request[c].pc = "none"
    BY <1>8 DEF StartCreate, StartUpdate, Running, SendsInRun, Sent
  <2> QED BY <1>2, <1>4, <1>7, <1>8, <2>1 DEF StartCreate, StartUpdate
<1>9. ASSUME NEW c \in Calls, TicketCreated(c) \/ TicketPatched(c) \/ CommentAdded(c) PROVE Goal
  <2>1. request[c].ticket \in Numbers
    BY <1>9 DEF TicketCreated, TicketPatched, CommentAdded, RequestOK
  <2> QED BY <1>2, <1>5, <1>9, <2>1 DEF TicketCreated, TicketPatched, CommentAdded
<1>10. ASSUME UNCHANGED run PROVE Goal
  BY <1>10
<1> HIDE DEF Goal
<1>11. Goal
  <2>1. ASSUME NEW c \in Calls, RunStep(c) PROVE Goal
    BY <1>8, <1>9, <2>1 DEF RunStep
  <2>2. CASE Fault
    BY <1>4, <1>6, <1>10, <2>2 DEF Fault, IdemFault, RequestFails, CallFails
  <2> QED BY <1>10, <2>1, <2>2 DEF TicketNext, Ask, DeskStep, ticketVars
<1> QED BY <1>1, <1>11 DEF Goal

LEMMA SendsInRunKept ==
    ASSUME OnceInv, [TicketNext]_ticketVars
    PROVE  SendsInRun'
<1>1. SUFFICES ASSUME NEW d \in Calls
               PROVE  /\ request'[d].pc # "none" => idem'[d].pc \in IP!BegunToRun
                      /\ idem'[d].pc = "run" /\ run'[d] = "out" => request'[d].pc = "none"
                      /\ run'[d] \in {"creating", "patching"} => request'[d].kind = "none"
  BY DEF SendsInRun, Sent, IP!BegunToRun
<1>2. /\ idem[d].pc \in IP!BegunToRun => idem'[d].pc \in IP!BegunToRun
      /\ idem'[d].pc = "run" => idem[d].pc \in {"late", "run"}
      /\ run'[d] = "out" /\ run[d] # "out" => idem'[d].pc # "run"
      /\ run'[d] \in {"creating", "patching"} => run'[d] = run[d] \/ request'[d] # request[d]
  BY CallMoves DEF IP!StaysOf
<1>3. /\ request[d].pc # "none" => idem[d].pc \in IP!BegunToRun
      /\ idem[d].pc = "run" /\ run[d] = "out" => request[d].pc = "none"
      /\ run[d] \in {"creating", "patching"} => request[d].kind = "none"
  BY DEF OnceInv, SendsInRun, Sent, IP!BegunToRun
<1>4. \/ request'[d] = request[d]
      \/ /\ idem[d].pc = "run" /\ run'[d] # "out" /\ UNCHANGED idemVars
         /\ run'[d] \in {"creating", "patching"} => request'[d].kind = "none"
      \/ /\ request[d].pc # "none"
         /\ run'[d] \in {"creating", "patching"} =>
               request'[d].kind = request[d].kind /\ run'[d] = run[d]
  BY RequestMoves DEF OnceInv, Sent
<1> QED BY <1>2, <1>3, <1>4 DEF idemVars, IP!BegunToRun

(* A call sends its first request as it runs. *)
LEMMA WhoSends ==
    ASSUME OnceInv, [TicketNext]_ticketVars
    PROVE  /\ Sent \subseteq Sent'
           /\ \/ Sent' = Sent
              \/ \E c \in Calls : /\ Sent' = Sent \cup {c} /\ idem[c].pc = "run"
                                  /\ UNCHANGED idemVars
<1>1. CASE UNCHANGED request
  BY <1>1 DEF Sent
<1>2. ASSUME NEW c \in Calls, \A d \in Calls \ {c} : request'[d] = request[d],
             request'[c].pc # "none",
             c \in Sent \/ (idem[c].pc = "run" /\ UNCHANGED idemVars)
      PROVE  /\ Sent \subseteq Sent'
             /\ Sent' = Sent \/ (Sent' = Sent \cup {c} /\ idem[c].pc = "run" /\ UNCHANGED idemVars)
  BY <1>2 DEF Sent
<1> QED BY <1>1, <1>2, RequestMoves DEF OnceInv

(* Of a call that has sent something: it stays begun, and, while its id is untroubled, so does
   its run or the result of it. *)
LEMMA SendersStay ==
    ASSUME OnceInv, [TicketNext]_ticketVars, NEW c \in Sent
    PROVE  /\ c \in Calls /\ idem[c].id \in Ids /\ idem'[c].id = idem[c].id
           /\ IP!Untroubled(idem[c].id)' =>
                 /\ IP!Untroubled(idem[c].id)
                 /\ idem'[c].pc \in {"run", "store"} \/ idemResult'[idem[c].id] # None
<1>1. [IP!IdemNext]_(IP!idemVars) /\ IP!IdemInv /\ IP!FailedAtEnd
  BY WrapperSteps DEF OnceInv, TicketInv
<1>2. c \in Calls /\ idem[c].pc # "idle" /\ idem[c].id \in Ids
  BY <1>1 DEF OnceInv, SendsInRun, Sent, IP!IdemInv, IP!IdemTypeOK
<1>3. idem'[c].id = idem[c].id
  BY <1>2, CallMoves DEF IP!StaysOf
<1>4. PICK i \in Ids : i = idem[c].id
  BY <1>2
<1>5. ASSUME IP!Untroubled(i)'
      PROVE  /\ IP!Untroubled(i)
             /\ idemResult[i] # None => idemResult'[i] # None
             /\ idem[c].pc \in {"run", "store"} =>
                   idem'[c].pc \in {"run", "store"} \/ idemResult'[i] # None
  BY <1>1, <1>2, <1>4, <1>5, ResultsAreNotNone, IP!UntroubledStays
<1>6. IP!Untroubled(i) => idem[c].pc \in {"run", "store"} \/ idemResult[i] # None
  BY <1>4 DEF OnceInv, SentKept
<1>7. IP!Untroubled(idem[c].id)' => IP!Untroubled(i)'
  BY <1>3, <1>4 DEF IP!Untroubled
<1> QED BY <1>2, <1>3, <1>4, <1>5, <1>6, <1>7

LEMMA SoleSenderKept ==
    ASSUME OnceInv, [TicketNext]_ticketVars
    PROVE  SoleSender' /\ SentKept'
<1>1. IP!IdemInv
  BY DEF OnceInv, TicketInv
<1>2. Sent' = Sent \/ \E c \in Calls : /\ Sent' = Sent \cup {c} /\ idem[c].pc = "run"
                                       /\ UNCHANGED idemVars
  BY WhoSends
<1>3. SoleSender'
  <2>1. CASE Sent' = Sent
    <3> SUFFICES ASSUME NEW c \in Sent, NEW d \in Sent, idem'[c].id = idem'[d].id,
                        IP!Untroubled(idem[c].id)'
                 PROVE  c = d
      BY <2>1 DEF SoleSender
    <3> QED BY SendersStay DEF OnceInv, SoleSender
  <2>2. ASSUME NEW c \in Calls, Sent' = Sent \cup {c}, idem[c].pc = "run", UNCHANGED idemVars
        PROVE  SoleSender'
    <3>1. ASSUME NEW d \in Sent, idem[c].id = idem[d].id, IP!Untroubled(idem[c].id)
          PROVE  c = d
      <4>1. d \in Calls /\ (idem[d].pc \in {"run", "store"} \/ idemResult[idem[d].id] # None)
        BY <3>1 DEF OnceInv, SentKept, Sent
      <4> QED BY <1>1, <2>2, <3>1, <4>1, ResultsAreNotNone, IP!FirstToRun
    <3>2. ASSUME NEW x \in Sent', NEW y \in Sent', idem[x].id = idem[y].id, IP!Untroubled(idem[x].id)
          PROVE  x = y
      BY <2>2, <3>1, <3>2 DEF OnceInv, SoleSender
    <3>3. \A i : IP!Untroubled(i)' <=> IP!Untroubled(i)
      BY <2>2 DEF IP!Untroubled, idemVars
    <3> QED BY <2>2, <3>2, <3>3 DEF SoleSender, idemVars
  <2> QED BY <1>2, <2>1, <2>2
<1>4. SentKept'
  <2>1. ASSUME NEW c \in Sent, IP!Untroubled(idem[c].id)'
        PROVE  idem'[c].pc \in {"run", "store"} \/ idemResult'[idem'[c].id] # None
    BY <2>1, SendersStay
  <2>2. ASSUME NEW c \in Sent', c \notin Sent
        PROVE  idem'[c].pc = "run"
    BY <1>2, <2>2 DEF idemVars
  <2> QED BY <2>1, <2>2 DEF SentKept
<1> QED BY <1>3, <1>4

(* What a step leaves of a call that has sent something. *)
LEMMA SenderMoves ==
    ASSUME OnceInv, [TicketNext]_ticketVars, NEW c \in Sent
    PROVE  /\ c \in Sent' /\ idem'[c].id = idem[c].id
           /\ request[c].pc # "post" =>
                 request'[c].pc # "post" /\ request'[c].ticket = request[c].ticket
           /\ request[c].pc = "done" /\ request[c].kind = "note" => request'[c] = request[c]
<1>1. c \in Sent' /\ idem'[c].id = idem[c].id
  BY WhoSends, SendersStay
<1>2. CASE UNCHANGED request
  BY <1>1, <1>2
<1>3. ASSUME NEW d \in Calls, \A b \in Calls \ {d} : request'[b] = request[b],
             d \in Sent =>
                /\ ~ (request[d].pc = "done" /\ request[d].kind = "note")
                /\ request[d].pc # "post" => request'[d].ticket = request[d].ticket
                /\ request'[d].pc # "post"
      PROVE  /\ request[c].pc # "post" =>
                   request'[c].pc # "post" /\ request'[c].ticket = request[c].ticket
             /\ request[c].pc = "done" /\ request[c].kind = "note" => request'[c] = request[c]
  BY <1>3 DEF Sent
<1>4. UNCHANGED request \/ \E d \in Calls :
         /\ \A b \in Calls \ {d} : request'[b] = request[b]
         /\ d \in Sent =>
               /\ ~ (request[d].pc = "done" /\ request[d].kind = "note")
               /\ request[d].pc # "post" => request'[d].ticket = request[d].ticket
               /\ request'[d].pc # "post"
  BY RequestMoves DEF OnceInv
<1> QED BY <1>1, <1>2, <1>3, <1>4

LEMMA MadeKept ==
    ASSUME OnceInv, [TicketNext]_ticketVars
    PROVE  Made'
<1> SUFFICES ASSUME NEW m \in Numbers, ticket'[m].by \in Ids
             PROVE  /\ log'[m] # << >>
                    /\ log'[m][1].call \in Sent'
                    /\ idem'[log'[m][1].call].id = ticket'[m].by
                    /\ request'[log'[m][1].call].ticket = m
                    /\ request'[log'[m][1].call].pc # "post"
  BY DEF Made
<1>1. /\ log \in [Numbers -> Seq(Entry)] /\ Len(log[m]) \in Nat /\ DOMAIN log[m] = 1..Len(log[m])
      /\ log[m] # << >> => 1 \in 1..Len(log[m])
  BY DEF OnceInv, TicketInv, DeskTypeOK
<1>2. ASSUME ticket[m].by = ticket'[m].by, log'[m] # << >>, log'[m][1] = log[m][1]
      PROVE  /\ log'[m][1].call \in Sent'
             /\ idem'[log'[m][1].call].id = ticket'[m].by
             /\ request'[log'[m][1].call].ticket = m
             /\ request'[log'[m][1].call].pc # "post"
  <2>1. PICK c : c = log[m][1].call
    OBVIOUS
  <2>2. /\ c \in Sent /\ idem[c].id = ticket[m].by
        /\ request[c].ticket = m /\ request[c].pc # "post"
    BY <1>2, <2>1 DEF OnceInv, Made
  <2> QED BY <1>2, <2>1, <2>2, SenderMoves
<1>3. CASE UNCHANGED <<ticket, log>>
  BY <1>2, <1>3 DEF OnceInv, Made
<1>4. ASSUME NEW c \in Calls, NEW n \in Numbers, Opens(c, n)
      PROVE  /\ log'[m] # << >>
             /\ log'[m][1].call \in Sent'
             /\ idem'[log'[m][1].call].id = ticket'[m].by
             /\ request'[log'[m][1].call].ticket = m
             /\ request'[log'[m][1].call].pc # "post"
  <2>1. CASE m = n
    BY <1>4, <2>1 DEF Opens, Sent, idemVars
  <2>2. CASE m # n
    <3>1. ticket'[m] = ticket[m] /\ log'[m] = log[m]
      BY <1>4, <2>2 DEF Opens
    <3> QED BY <1>2, <3>1 DEF OnceInv, Made
  <2> QED BY <2>1, <2>2
<1>5. ASSUME NEW c \in Calls, NEW n \in Numbers, NEW e, Adds(c, n, e)
      PROVE  ticket[m].by = ticket'[m].by /\ log'[m] # << >> /\ log'[m][1] = log[m][1]
  <2>1. CASE m = n
    <3>1. ticket'[m].by = ticket[m].by /\ DOMAIN log'[m] = 1..(Len(log[m]) + 1)
      BY <1>5, <2>1 DEF Adds
    <3>2. log[m] # << >>
      BY <3>1 DEF OnceInv, Made
    <3>3. log'[m][1] = log[m][1]
      BY <1>1, <1>5, <2>1, <3>2 DEF Adds
    <3>4. 1 \in DOMAIN log'[m]
      BY <1>1, <3>1
    <3> QED BY <3>1, <3>3, <3>4
  <2>2. CASE m # n
    <3>1. ticket'[m] = ticket[m] /\ log'[m] = log[m]
      BY <1>5, <2>2 DEF Adds
    <3> QED BY <3>1 DEF OnceInv, Made
  <2> QED BY <2>1, <2>2
<1> QED BY <1>2, <1>3, <1>4, <1>5, LogMoves DEF OnceInv

(* Where an entry comes from. *)
LEMMA EntriesFrom ==
    ASSUME OnceInv, NEW m \in Numbers, NEW k \in DOMAIN log'[m],
           NEW c \in Calls, NEW n \in Numbers
    PROVE  /\ Opens(c, n) =>
                 \/ m = n /\ k = 1 /\ log'[m][k].kind = "created"
                 \/ m # n /\ k \in DOMAIN log[m] /\ log'[m][k] = log[m][k]
           /\ \A e : Adds(c, n, e) =>
                 \/ m = n /\ k = Len(log[n]) + 1 /\ log'[m][k] = e
                 \/ k \in DOMAIN log[m] /\ log'[m][k] = log[m][k]
<1>1. ASSUME Opens(c, n)
      PROVE  \/ m = n /\ k = 1 /\ log'[m][k].kind = "created"
             \/ m # n /\ k \in DOMAIN log[m] /\ log'[m][k] = log[m][k]
  BY <1>1 DEF Opens
<1>2. ASSUME NEW e, Adds(c, n, e)
      PROVE  \/ m = n /\ k = Len(log[n]) + 1 /\ log'[m][k] = e
             \/ k \in DOMAIN log[m] /\ log'[m][k] = log[m][k]
  <2>1. CASE m = n
    <3>1. k \in 1..(Len(log[n]) + 1) /\ Len(log[n]) \in Nat
      BY <1>2, <2>1 DEF Adds
    <3>2. k \in 1..Len(log[n]) \/ k = Len(log[n]) + 1
      BY <3>1
    <3> QED BY <1>2, <2>1, <3>2 DEF Adds
  <2>2. CASE m # n
    BY <1>2, <2>2 DEF Adds
  <2> QED BY <2>1, <2>2
<1> QED BY <1>1, <1>2

LEMMA NotesKept ==
    ASSUME OnceInv, [TicketNext]_ticketVars
    PROVE  NotesDone' /\ NoteOnce'
<1>1. ASSUME NEW m \in Numbers, NEW k \in DOMAIN log[m], log[m][k].kind = "note"
      PROVE  /\ request[log[m][k].call].pc = "done"
             /\ request'[log[m][k].call].pc = "done"
             /\ request'[log[m][k].call].kind = "note"
  <2>1. PICK d : d = log[m][k].call
    OBVIOUS
  <2>2. d \in Calls /\ request[d].pc = "done" /\ request[d].kind = "note"
    BY <1>1, <2>1 DEF OnceInv, TicketInv, EntriesOfCalls, NotesDone
  <2>3. d \in Sent
    BY <2>2 DEF Sent
  <2>4. request'[d] = request[d]
    BY <2>2, <2>3, SenderMoves
  <2> QED BY <2>1, <2>2, <2>4
<1>2. CASE UNCHANGED <<ticket, log>>
  BY <1>1, <1>2 DEF OnceInv, NotesDone, NoteOnce
<1>3. ASSUME NEW c \in Calls, NEW n \in Numbers, Opens(c, n)
      PROVE  NotesDone' /\ NoteOnce'
  <2>1. \A m \in Numbers : \A k \in DOMAIN log'[m] :
           \/ m = n /\ k = 1 /\ log'[m][k].kind = "created"
           \/ m # n /\ k \in DOMAIN log[m] /\ log'[m][k] = log[m][k]
    BY <1>3, EntriesFrom
  <2>2. NotesDone'
    BY <1>1, <2>1 DEF NotesDone
  <2>3. NoteOnce'
    BY <2>1 DEF OnceInv, NoteOnce
  <2> QED BY <2>2, <2>3
<1>4. ASSUME NEW c \in Calls, NEW n \in Numbers, NEW e, Adds(c, n, e)
      PROVE  NotesDone' /\ NoteOnce'
  <2>1. \A m \in Numbers : \A k \in DOMAIN log'[m] :
           \/ m = n /\ k = Len(log[n]) + 1 /\ log'[m][k] = e
           \/ k \in DOMAIN log[m] /\ log'[m][k] = log[m][k]
    BY <1>4, EntriesFrom
  <2>2. /\ e.call = c /\ request'[c].pc = "done" /\ request'[c].kind = request[c].kind
        /\ request[c].pc \in {"comment", "apply"}
        /\ e.kind = "note" => request[c].kind = "note"
    BY <1>4 DEF Adds
  <2>3. NotesDone'
    BY <1>1, <2>1, <2>2 DEF NotesDone
  <2>4. \A m \in Numbers : \A k \in DOMAIN log[m] : log[m][k].kind = "note" => log[m][k].call # c
    BY <1>1, <2>2
  <2>5. NoteOnce'
    BY <2>1, <2>2, <2>4 DEF OnceInv, NoteOnce
  <2> QED BY <2>3, <2>5
<1> QED BY <1>2, <1>3, <1>4, LogMoves DEF OnceInv

LEMMA OnceNextInv == OnceInv /\ [TicketNext]_ticketVars => OnceInv'
<1> SUFFICES ASSUME OnceInv, [TicketNext]_ticketVars PROVE OnceInv'
  OBVIOUS
<1>1. TicketInv'
  BY TicketNextInv DEF OnceInv
<1>2. IP!FailedAtEnd'
  BY WrapperSteps, ResultsAreNotNone, IP!RunsEnd DEF OnceInv, TicketInv
<1> QED BY <1>1, <1>2, SendsInRunKept, SoleSenderKept, MadeKept, NotesKept DEF OnceInv

(* However often a request is repeated, and however its repetitions run beside each other,
   it creates one ticket or adds one note, unless one of its calls failed or outlived its
   lock, or its stored result has expired (create-support-ticket.ts:20). *)
THEOREM RequestsActOnce == TicketSpec => []OncePerRequest
<1>1. OnceInv => OncePerRequest
  <2> SUFFICES ASSUME OnceInv, NEW i \in Ids, IP!Untroubled(i)
               PROVE  /\ Cardinality({n \in Numbers : ticket[n].by = i}) <= 1
                      /\ \A n \in Numbers : Notes(i, n) <= 1
    BY DEF OncePerRequest, CallsOf, IP!Untroubled
  <2>1. ASSUME NEW S, \A x, y \in S : x = y
        PROVE  Cardinality(S) <= 1
    <3>1. CASE S = {}
      BY <3>1, FS_EmptySet
    <3>2. ASSUME NEW x \in S PROVE Cardinality(S) <= 1
      <4>1. S = {x}
        BY <2>1, <3>2
      <4>2. Cardinality({x}) = 1
        BY FS_Singleton
      <4> QED BY <4>1, <4>2
    <3> QED BY <3>1, <3>2
  <2>2. Cardinality({n \in Numbers : ticket[n].by = i}) <= 1
    <3>1. ASSUME NEW n \in Numbers, NEW m \in Numbers, ticket[n].by = i, ticket[m].by = i
          PROVE  n = m
      <4>1. PICK c, d : c = log[n][1].call /\ d = log[m][1].call
        OBVIOUS
      <4>2. /\ c \in Sent /\ idem[c].id = i /\ request[c].ticket = n
            /\ d \in Sent /\ idem[d].id = i /\ request[d].ticket = m
        BY <3>1, <4>1 DEF OnceInv, Made
      <4>3. c = d
        BY <4>2 DEF OnceInv, SoleSender
      <4> QED BY <4>2, <4>3
    <3> QED BY <2>1, <3>1
  <2>3. ASSUME NEW n \in Numbers PROVE Notes(i, n) <= 1
    <3> DEFINE S == {k \in DOMAIN log[n] : log[n][k].kind = "note" /\ log[n][k].call \in CallsOf(i)}
    <3>1. ASSUME NEW k \in S, NEW l \in S PROVE k = l
      <4>1. \A x \in S : log[n][x].call \in Sent /\ idem[log[n][x].call].id = i
        BY DEF OnceInv, NotesDone, Sent, CallsOf
      <4>2. log[n][k].call = log[n][l].call
        BY <4>1 DEF OnceInv, SoleSender
      <4> QED BY <4>2 DEF OnceInv, NoteOnce
    <3> HIDE DEF S
    <3>2. Cardinality(S) <= 1
      BY <2>1, <3>1
    <3> QED BY <3>2 DEF S, Notes
  <2> QED BY <2>2, <2>3
<1>2. TicketSpec => []OnceInv
  BY OnceInitInv, OnceNextInv, PTL DEF TicketSpec
<1> QED BY <1>1, <1>2, PTL

-----------------------------------------------------------------------------
(* Success is whole.  Each stage of a run leaves its part of what was asked for on the
   ticket, where later writes bury but never remove it; a result stands for all of it. *)

Was(n, p) ==
    ticket[n][p.field] = p.to \/ \E k \in DOMAIN log[n] : log[n][k].was[p.field] = p.to

Patched(i, n) == \A p \in PatchOf(i) : Was(n, p)

Written(i, n, kind) ==
    \E k \in DOMAIN log[n] : log[n][k].kind = kind /\ log[n][k].call \in CallsOf(i)

Whole(i, n) ==
    /\ n \in Numbers /\ ticket[n] # NoRow
    /\ RequestOf[i].op = "create" =>
          ticket[n].by = i /\ (Lowered(i) => Written(i, n, "lowered"))
    /\ RequestOf[i].op # "create" =>
          n = RequestOf[i].ticket /\ (RequestOf[i].note => Written(i, n, "note")) /\ Patched(i, n)

(* How far the run of call c has come with its id i on ticket n. *)
CreatingOK(c, i, n) ==
    /\ RequestOf[i].op = "create" /\ request[c].pc \in {"post", "done"}
    /\ request[c].pc = "done" => ticket[n].by = i

LoweringOK(c, i, n) ==
    /\ RequestOf[i].op = "create" /\ ticket[n].by = i
    /\ request[c].pc \in {"comment", "done"} /\ request[c].kind = "lowered"
    /\ request[c].pc = "done" => Written(i, n, "lowered")

PatchingOK(c, i, n) ==
    /\ RequestOf[i].op = "update" /\ n = RequestOf[i].ticket
    /\ request[c].pc \in {"read", "apply", "done"}
    /\ request[c].pc = "apply" =>
          /\ \A ch \in request[c].changes :
                \E p \in PatchOf(i) : ch.field = p.field /\ ch.to = p.to
          /\ \A p \in PatchOf(i) :
                Was(n, p) \/ \E ch \in request[c].changes : ch.field = p.field
    /\ request[c].pc = "done" => Patched(i, n)

NotingOK(c, i, n) ==
    /\ RequestOf[i].op = "update" /\ n = RequestOf[i].ticket /\ Patched(i, n)
    /\ request[c].pc \in {"comment", "done"} /\ request[c].kind = "note"
    /\ request[c].pc = "done" => Written(i, n, "note")

StageOK(c) ==
    LET i == idem[c].id
        n == request[c].ticket
    IN  /\ run[c] = "creating" => CreatingOK(c, i, n)
        /\ run[c] = "lowering" => LoweringOK(c, i, n)
        /\ run[c] = "patching" => PatchingOK(c, i, n)
        /\ run[c] = "noting" => NotingOK(c, i, n)

ResultsWhole ==
    /\ \A i \in Ids : idemResult[i] # None => Whole(i, idemResult[i].ticket)
    /\ \A c \in Calls : idem[c].pc = "store" \/ idem[c].answer \in Idem!Success =>
          Whole(idem[c].id, idem[c].result.ticket)

WholeInv == OnceInv /\ (\A c \in Calls : StageOK(c)) /\ ResultsWhole

LEMMA WholeInitInv == TicketInit => WholeInv
<1> SUFFICES ASSUME TicketInit PROVE WholeInv
  OBVIOUS
<1>1. \A c \in Calls : StageOK(c)
  BY DEF TicketInit, StageOK
<1>2. ResultsWhole
  BY DEF TicketInit, Idem!IdemInit, Idem!NoCall, Idem!Success, ResultsWhole
<1> QED BY <1>1, <1>2, OnceInitInv DEF WholeInv

(* What was, was written, or was opened, remains so. *)
LEMMA Remains ==
    ASSUME OnceInv, [TicketNext]_ticketVars, NEW n \in Numbers, ticket[n] # NoRow
    PROVE  /\ ticket'[n] # NoRow /\ ticket'[n].by = ticket[n].by
           /\ \A p : p.field \in Fields /\ Was(n, p) => Was(n, p)'
           /\ \A i, kind : Written(i, n, kind) => Written(i, n, kind)'
<1>1. \A k \in DOMAIN log[n] : log[n][k].call \in Calls
                               /\ idem'[log[n][k].call].id = idem[log[n][k].call].id
  BY CallMoves DEF OnceInv, TicketInv, EntriesOfCalls, IP!StaysOf
<1>2. ASSUME ticket'[n] # NoRow, ticket'[n].by = ticket[n].by,
             \A k \in DOMAIN log[n] : k \in DOMAIN log'[n] /\ log'[n][k] = log[n][k],
             \A f \in Fields : \/ ticket'[n][f] = ticket[n][f]
                               \/ \E k \in DOMAIN log'[n] : log'[n][k].was[f] = ticket[n][f]
      PROVE  /\ ticket'[n] # NoRow /\ ticket'[n].by = ticket[n].by
             /\ \A p : p.field \in Fields /\ Was(n, p) => Was(n, p)'
             /\ \A i, kind : Written(i, n, kind) => Written(i, n, kind)'
  <2>1. \A p : p.field \in Fields /\ Was(n, p) => Was(n, p)'
    BY <1>2 DEF Was
  <2>2. \A i, kind : Written(i, n, kind) => Written(i, n, kind)'
    BY <1>1, <1>2 DEF Written, CallsOf
  <2> QED BY <1>2, <2>1, <2>2
<1>3. CASE UNCHANGED <<ticket, log>>
  BY <1>2, <1>3
<1>4. ASSUME NEW m \in Numbers,
             \A x \in Numbers \ {m} : ticket'[x] = ticket[x] /\ log'[x] = log[x],
             m # n
      PROVE  /\ ticket'[n] # NoRow /\ ticket'[n].by = ticket[n].by
             /\ \A p : p.field \in Fields /\ Was(n, p) => Was(n, p)'
             /\ \A i, kind : Written(i, n, kind) => Written(i, n, kind)'
  BY <1>2, <1>4
<1>5. ASSUME NEW c \in Calls, NEW e, Adds(c, n, e)
      PROVE  /\ ticket'[n] # NoRow /\ ticket'[n].by = ticket[n].by
             /\ \A p : p.field \in Fields /\ Was(n, p) => Was(n, p)'
             /\ \A i, kind : Written(i, n, kind) => Written(i, n, kind)'
  <2>1. TicketInv'
    BY TicketNextInv DEF OnceInv
  <2>2. request[c].ticket = n /\ c \in Sent /\ request[c].pc # "post" /\ request'[c].pc = "done"
    BY <1>5 DEF Adds, Sent
  <2>3. request'[c].ticket = n
    BY <2>2, SenderMoves
  <2>4. ticket'[n] # NoRow
    BY <2>1, <2>2, <2>3 DEF TicketInv, RequestOK
  <2>5. \A k \in DOMAIN log[n] : k \in DOMAIN log'[n] /\ log'[n][k] = log[n][k]
    <3>1. \A k \in 1..Len(log[n]) : k \in 1..(Len(log[n]) + 1)
      BY <1>5 DEF Adds
    <3> QED BY <1>5, <3>1 DEF Adds
  <2>6. Len(log[n]) + 1 \in DOMAIN log'[n] /\ log'[n][Len(log[n]) + 1].was = FieldsOf(n)
    BY <1>5 DEF Adds
  <2>7. \A f \in Fields : FieldsOf(n)[f] = ticket[n][f]
    BY DEF FieldsOf
  <2>8. \A f \in Fields : \E k \in DOMAIN log'[n] : log'[n][k].was[f] = ticket[n][f]
    BY <2>6, <2>7
  <2>9. ticket'[n].by = ticket[n].by
    BY <1>5 DEF Adds
  <2> QED BY <1>2, <2>4, <2>5, <2>8, <2>9
<1>6. ASSUME NEW c \in Calls, NEW m \in Numbers, Opens(c, m) PROVE m # n
  BY <1>6 DEF Opens
<1> QED BY <1>3, <1>4, <1>5, <1>6, LogMoves DEF OnceInv, Opens, Adds

LEMMA PatchFields == \A i \in Ids : \A p \in PatchOf(i) : p.field \in Fields
BY DEF PatchOf, Fields

LEMMA WholeRemains ==
    ASSUME OnceInv, [TicketNext]_ticketVars, NEW i \in Ids, NEW n, Whole(i, n)
    PROVE  Whole(i, n)'
<1>1. n \in Numbers /\ ticket[n] # NoRow
  BY DEF Whole
<1>2. Patched(i, n) => Patched(i, n)'
  BY <1>1, Remains, PatchFields DEF Patched
<1> QED BY <1>1, <1>2, Remains DEF Whole

(* A call whose run and request stay as they are stays where it is. *)
(* The request of call c is as it was, but for the time it began. *)
SameRequest(c) ==
    /\ request'[c].pc = request[c].pc /\ request'[c].ticket = request[c].ticket
    /\ request'[c].patch = request[c].patch /\ request'[c].changes = request[c].changes
    /\ request'[c].kind = request[c].kind

LEMMA StageStays ==
    ASSUME WholeInv, [TicketNext]_ticketVars, NEW c \in Calls,
           run'[c] = "out" \/ (run'[c] = run[c] /\ SameRequest(c))
    PROVE  StageOK(c)'
<1>1. CASE run'[c] = "out"
  BY <1>1 DEF StageOK
<1>2. CASE run[c] # "out" /\ run'[c] = run[c] /\ SameRequest(c)
  <2> USE DEF SameRequest
  <2>1. PICK i \in Ids : i = idem[c].id /\ idem'[c].id = i
    BY <1>2, CallMoves DEF WholeInv, OnceInv, TicketInv, InsideRun, IP!IdemInv, IP!IdemTypeOK, IP!StaysOf
  <2>2. PICK n : n = request[c].ticket
    OBVIOUS
  <2>3. request[c].pc \in {"read", "apply", "comment", "done"} => n \in Numbers /\ ticket[n] # NoRow
    BY <2>2 DEF WholeInv, OnceInv, TicketInv, RequestOK
  <2>4. n \in Numbers /\ ticket[n] # NoRow =>
           /\ ticket'[n].by = ticket[n].by
           /\ \A p \in PatchOf(i) : Was(n, p) => Was(n, p)'
           /\ Patched(i, n) => Patched(i, n)'
           /\ \A kind : Written(i, n, kind) => Written(i, n, kind)'
    BY <2>1, Remains, PatchFields DEF WholeInv, Patched
  <2>5. /\ run[c] = "creating" => CreatingOK(c, i, n)'
        /\ run[c] = "lowering" => LoweringOK(c, i, n)'
    BY <1>2, <2>1, <2>2, <2>3, <2>4 DEF WholeInv, StageOK, CreatingOK, LoweringOK
  <2>6. run[c] = "patching" => PatchingOK(c, i, n)'
    BY <1>2, <2>1, <2>2, <2>3, <2>4 DEF WholeInv, StageOK, PatchingOK
  <2>7. run[c] = "noting" => NotingOK(c, i, n)'
    BY <1>2, <2>1, <2>2, <2>3, <2>4 DEF WholeInv, StageOK, NotingOK
  <2> QED BY <1>2, <2>1, <2>2, <2>5, <2>6, <2>7 DEF StageOK, CreatingOK, LoweringOK, PatchingOK, NotingOK
<1> QED BY <1>1, <1>2

LEMMA Sending ==
    ASSUME WholeInv, NEW c \in Calls, NEW pc, NEW n, NEW patch, NEW kind, NEW step,
           Send(c, pc, n, patch, kind), At(c, step)
    PROVE  /\ request'[c].pc = pc /\ request'[c].ticket = n /\ request'[c].kind = kind
           /\ run'[c] = step
           /\ \A d \in Calls \ {c} : request'[d] = request[d] /\ run'[d] = run[d]
BY DEF WholeInv, OnceInv, TicketInv, DeskTypeOK, Send, At

LEMMA Ending ==
    ASSUME WholeInv, NEW c \in Calls, At(c, "out")
    PROVE  run'[c] = "out" /\ \A d \in Calls \ {c} : run'[d] = run[d]
BY DEF WholeInv, OnceInv, TicketInv, DeskTypeOK, At

(* The service's own steps. *)
LEMMA RunStepStages ==
    ASSUME WholeInv, [TicketNext]_ticketVars, NEW c \in Calls, RunStep(c)
    PROVE  \A d \in Calls : StageOK(d)'
<1>1. PICK i, n : i = idem[c].id /\ n = request[c].ticket
  OBVIOUS
<1>2. /\ run[c] = "creating" => CreatingOK(c, i, n)
      /\ run[c] = "patching" => PatchingOK(c, i, n)
  BY <1>1 DEF WholeInv, StageOK
<1>3. UNCHANGED deskVars
  BY DEF RunStep, StartCreate, StartUpdate, TicketCreated, TicketPatched, CommentAdded
<1>4. Patched(i, n) => Patched(i, n)'
  BY <1>3 DEF Patched, Was, deskVars
<1>5. ASSUME run'[c] = "out" \/ StageOK(c)',
             \A d \in Calls \ {c} : request'[d] = request[d] /\ run'[d] = run[d]
      PROVE  \A d \in Calls : StageOK(d)'
  BY <1>5, StageStays DEF SameRequest
<1>6. ASSUME At(c, "out"), UNCHANGED request PROVE \A d \in Calls : StageOK(d)'
  BY <1>5, <1>6, Ending
<1>7. CASE StartCreate(c)
  <2>1. /\ Send(c, "post", 0, {}, "none") /\ At(c, "creating") /\ UNCHANGED idem
        /\ RequestOf[i].op = "create"
    BY <1>1, <1>7 DEF StartCreate, Running, idemVars
  <2>2. StageOK(c)'
    BY <1>1, <2>1, Sending DEF StageOK, CreatingOK
  <2> QED BY <1>5, <2>1, <2>2, Sending
<1>8. CASE StartUpdate(c)
  <2>1. RequestOf[i].op = "update"
    BY <1>1, <1>8 DEF StartUpdate, Running
  <2>2. CASE Throw(c) /\ UNCHANGED request
    BY <1>6, <2>2 DEF Throw
  <2>3. CASE /\ Send(c, "read", RequestOf[i].ticket, PatchOf(i), "none") /\ At(c, "patching")
             /\ UNCHANGED idemVars
    <3>1. StageOK(c)'
      BY <1>1, <2>1, <2>3, Sending DEF StageOK, PatchingOK, idemVars
    <3> QED BY <1>5, <2>3, <3>1, Sending
  <2>4. CASE /\ Send(c, "comment", RequestOf[i].ticket, {}, "note") /\ At(c, "noting")
             /\ UNCHANGED idemVars /\ PatchOf(i) = {}
    <3>1. StageOK(c)'
      BY <1>1, <2>1, <2>4, Sending DEF StageOK, NotingOK, Patched, idemVars
    <3> QED BY <1>5, <2>4, <3>1, Sending
  <2> QED BY <1>1, <1>8, <2>2, <2>3, <2>4 DEF StartUpdate
<1>9. CASE TicketCreated(c)
  <2>1. RequestOf[i].op = "create" /\ ticket[n].by = i
    BY <1>2, <1>9 DEF TicketCreated, CreatingOK
  <2>2. CASE /\ Send(c, "comment", n, {}, "lowered") /\ At(c, "lowering") /\ UNCHANGED idemVars
    <3>1. StageOK(c)'
      BY <1>1, <1>3, <2>1, <2>2, Sending DEF StageOK, LoweringOK, idemVars, deskVars
    <3> QED BY <1>5, <2>2, <3>1, Sending
  <2> QED BY <1>1, <1>6, <1>9, <2>2 DEF TicketCreated, Return
<1>10. CASE TicketPatched(c)
  <2>1. RequestOf[i].op = "update" /\ n = RequestOf[i].ticket /\ Patched(i, n)
    BY <1>2, <1>10 DEF TicketPatched, PatchingOK
  <2>2. CASE /\ Send(c, "comment", n, {}, "note") /\ At(c, "noting") /\ UNCHANGED idemVars
    <3>1. NotingOK(c, i, n)'
      BY <1>4, <2>1, <2>2, Sending DEF NotingOK
    <3>2. StageOK(c)'
      BY <1>1, <2>2, <3>1, Sending DEF StageOK, NotingOK, Patched, idemVars
    <3> QED BY <1>5, <2>2, <3>2, Sending
  <2> QED BY <1>1, <1>6, <1>10, <2>2 DEF TicketPatched, Return
<1>11. CASE CommentAdded(c)
  BY <1>6, <1>11 DEF CommentAdded, Return
<1> QED BY <1>7, <1>8, <1>9, <1>10, <1>11 DEF RunStep

(* A patch sets a field once. *)
LEMMA PatchOnce == \A i \in Ids : \A p, q \in PatchOf(i) : p.field = q.field => p.to = q.to
BY DEF PatchOf

LEMMA ReadStages ==
    ASSUME WholeInv, NEW c \in Calls, ReadForPatch(c), UNCHANGED <<idemVars, run>>
    PROVE  StageOK(c)'
<1>1. PICK i, n : i = idem[c].id /\ n = request[c].ticket
  OBVIOUS
<1> DEFINE changes == {[field |-> p.field, from |-> ticket[n][p.field], to |-> p.to] :
                         p \in {q \in request[c].patch : q.to # ticket[n][q.field]}}
           next == IF changes = {} THEN "done" ELSE "apply"
<1>2. /\ request' = [request EXCEPT ![c].changes = changes, ![c].pc = next]
      /\ request[c].pc = "read" /\ UNCHANGED deskVars
  BY <1>1 DEF ReadForPatch
<1>3. request[c].patch = PatchOf(i)
  BY <1>1, <1>2 DEF WholeInv, OnceInv, TicketInv, RequestOK
<1>4. \A ch \in changes : \E p \in PatchOf(i) : ch.field = p.field /\ ch.to = p.to
  BY <1>3
<1>5. ASSUME NEW p \in PatchOf(i)
      PROVE  Was(n, p) \/ \E ch \in changes : ch.field = p.field
  <2>1. CASE p.to = ticket[n][p.field]
    BY <2>1 DEF Was
  <2>2. CASE p.to # ticket[n][p.field]
    <3>1. PICK ch : ch = [field |-> p.field, from |-> ticket[n][p.field], to |-> p.to]
      OBVIOUS
    <3>2. ch \in changes
      BY <1>3, <2>2, <3>1
    <3>3. ch.field = p.field
      BY <3>1
    <3> QED BY <3>2, <3>3
  <2> QED BY <2>1, <2>2
<1>6. next \in {"done", "apply"} /\ (next = "done" => changes = {})
  OBVIOUS
<1> HIDE DEF changes, next
<1>7. /\ request'[c].pc = next /\ request'[c].ticket = n /\ request'[c].changes = changes
  BY <1>1, <1>2 DEF WholeInv, OnceInv, TicketInv, DeskTypeOK, HttpRequest
<1>8. StageOK(c)
  BY DEF WholeInv
<1>9. \A p : Was(n, p)' <=> Was(n, p)
  BY <1>2 DEF Was, deskVars
<1>10. run[c] \in {"patching", "out"}
  BY <1>1, <1>2, <1>8
     DEF StageOK, CreatingOK, LoweringOK, NotingOK, WholeInv, OnceInv, TicketInv, DeskTypeOK
<1>11. run[c] = "patching" => PatchingOK(c, i, n)'
  BY <1>1, <1>4, <1>5, <1>6, <1>7, <1>8, <1>9 DEF StageOK, PatchingOK, Patched
<1> QED BY <1>1, <1>7, <1>10, <1>11 DEF StageOK, PatchingOK, idemVars

LEMMA OpenStages ==
    ASSUME WholeInv, NEW c \in Calls, NEW m \in Numbers, Opens(c, m)
    PROVE  StageOK(c)'
<1>1. /\ request[c].pc = "post" /\ request'[c].pc = "done" /\ request'[c].ticket = m
      /\ ticket'[m].by = idem[c].id /\ UNCHANGED <<idem, run>>
  BY DEF Opens, idemVars
<1>2. StageOK(c)
  BY DEF WholeInv
<1> QED BY <1>1, <1>2 DEF StageOK, CreatingOK, LoweringOK, PatchingOK, NotingOK

LEMMA AddStages ==
    ASSUME WholeInv, [TicketNext]_ticketVars, NEW c \in Calls, NEW n \in Numbers, NEW e, Adds(c, n, e)
    PROVE  StageOK(c)'
<1>1. PICK i : i = idem[c].id
  OBVIOUS
<1>2. /\ request[c].ticket = n /\ ticket[n] # NoRow /\ UNCHANGED <<idem, run>>
      /\ e.call = c /\ FieldsOf(n)' = After(e)
      /\ \/ request[c].pc = "comment" /\ e.kind = request[c].kind
         \/ request[c].pc = "apply" /\ e.changes = request[c].changes
      /\ request'[c].pc = "done" /\ request'[c].kind = request[c].kind
      /\ Len(log[n]) + 1 \in DOMAIN log'[n] /\ log'[n][Len(log[n]) + 1] = e
  <2>1. Len(log[n]) \in Nat /\ DOMAIN log'[n] = 1..(Len(log[n]) + 1)
    BY DEF Adds
  <2>2. Len(log[n]) + 1 \in DOMAIN log'[n]
    BY <2>1
  <2> QED BY <2>2 DEF Adds, idemVars
<1>3. c \in Sent /\ request[c].pc # "post" /\ i \in Ids
  BY <1>1, <1>2, SendersStay DEF WholeInv, Sent
<1>4. request'[c].ticket = n
  BY <1>2, <1>3, SenderMoves DEF WholeInv
<1>5. /\ run[c] = "creating" => CreatingOK(c, i, n)
      /\ run[c] = "lowering" => LoweringOK(c, i, n)
      /\ run[c] = "patching" => PatchingOK(c, i, n)
      /\ run[c] = "noting" => NotingOK(c, i, n)
  BY <1>1, <1>2 DEF WholeInv, StageOK
<1>6. /\ ticket'[n].by = ticket[n].by
      /\ \A p \in PatchOf(i) : Was(n, p) => Was(n, p)'
      /\ Patched(i, n) => Patched(i, n)'
  BY <1>2, <1>3, Remains, PatchFields DEF WholeInv, Patched
<1>7. Written(i, n, e.kind)'
  BY <1>1, <1>2 DEF Written, CallsOf
<1>8. run[c] # "creating"
  BY <1>2, <1>5 DEF CreatingOK
<1>9. run[c] = "lowering" => LoweringOK(c, i, n)'
  BY <1>2, <1>5, <1>6, <1>7 DEF LoweringOK
<1>10. run[c] = "noting" => NotingOK(c, i, n)'
  BY <1>2, <1>5, <1>6, <1>7 DEF NotingOK
<1>11. run[c] = "patching" => PatchingOK(c, i, n)'
  <2> SUFFICES ASSUME run[c] = "patching" PROVE PatchingOK(c, i, n)'
    OBVIOUS
  <2>1. /\ request[c].pc = "apply" /\ e.changes = request[c].changes
        /\ \A ch \in e.changes : \E p \in PatchOf(i) : ch.field = p.field /\ ch.to = p.to
        /\ \A p \in PatchOf(i) : Was(n, p) \/ \E ch \in e.changes : ch.field = p.field
    BY <1>2, <1>5 DEF PatchingOK
  <2>2. ASSUME NEW p \in PatchOf(i), \E ch \in e.changes : ch.field = p.field
        PROVE  Was(n, p)'
    <3>1. \A ch \in e.changes : ch.field = p.field => ch.to = p.to
      BY <1>3, <2>1, PatchOnce
    <3>2. p.field \in Fields
      BY <1>3, PatchFields
    <3>3. After(e)[p.field] = p.to
      BY <2>2, <3>1, <3>2 DEF After, Changes, ChangedTo
    <3>4. FieldsOf(n)' = [f \in Fields |-> ticket'[n][f]]
      BY DEF FieldsOf
    <3>5. ticket'[n][p.field] = p.to
      BY <1>2, <3>2, <3>3, <3>4
    <3> QED BY <3>5 DEF Was
  <2>3. Patched(i, n)'
    BY <1>6, <2>1, <2>2 DEF Patched
  <2> QED BY <1>2, <1>4, <1>5, <2>3 DEF PatchingOK
<1> QED BY <1>1, <1>2, <1>4, <1>8, <1>9, <1>10, <1>11
    DEF StageOK, LoweringOK, PatchingOK, NotingOK

LEMMA StagesKept ==
    ASSUME WholeInv, [TicketNext]_ticketVars
    PROVE  \A d \in Calls : StageOK(d)'
<1>1. ASSUME NEW c \in Calls, DeskStep(c), UNCHANGED faults
      PROVE  \A d \in Calls : StageOK(d)'
  <2>1. UNCHANGED <<idemVars, run>>
    BY <1>1 DEF DeskStep
  <2>2. \A d \in Calls \ {c} : request'[d] = request[d]
    BY <1>1 DEF DeskStep, PostTicket, ReadForPatch, BeginWrite, ApplyPatch, PostComment, Reached,
                WholeInv, OnceInv, TicketInv, DeskTypeOK
  <2>3. CASE BeginWrite(c)
    <3>1. SameRequest(c)
      BY <2>3 DEF BeginWrite, SameRequest, WholeInv, OnceInv, TicketInv, DeskTypeOK, HttpRequest
    <3> QED BY <2>1, <2>2, <3>1, StageStays DEF SameRequest
  <2>4. CASE PostTicket(c) \/ ReadForPatch(c) \/ ApplyPatch(c) \/ PostComment(c)
    <3>1. StageOK(c)'
      BY <1>1, <2>1, <2>4, PostTicketOpens, CommentAdds, PatchAdds, ReadStages, OpenStages, AddStages
         DEF WholeInv, OnceInv
    <3> QED BY <2>1, <2>2, <3>1, StageStays DEF SameRequest
  <2> QED BY <1>1, <2>3, <2>4 DEF DeskStep
<1>2. ASSUME NEW c \in Calls, At(c, "out"), \A d \in Calls \ {c} : request'[d] = request[d]
      PROVE  \A d \in Calls : StageOK(d)'
  BY <1>2, Ending, StageStays DEF SameRequest
<1>3. CASE Fault
  <2>1. CASE IdemFault
    BY <2>1, StageStays DEF IdemFault, SameRequest
  <2>2. ASSUME NEW c \in Calls, CallFails(c) \/ ServerDies(c)
        PROVE  \A d \in Calls : StageOK(d)'
    BY <1>2, <2>2 DEF CallFails, ServerDies, Throw
  <2>3. ASSUME NEW c \in Calls, RequestFails(c)
        PROVE  \A d \in Calls : StageOK(d)'
    <3>1. \A d \in Calls \ {c} : request'[d] = request[d]
      BY <2>3 DEF RequestFails, Reached, WholeInv, OnceInv, TicketInv, DeskTypeOK
    <3>2. CASE Throw(c)
      BY <1>2, <3>1, <3>2 DEF Throw
    <3>3. CASE run[c] = "out" /\ UNCHANGED run
      BY <3>1, <3>3, StageStays DEF SameRequest
    <3> QED BY <2>3, <3>2, <3>3 DEF RequestFails
  <2> QED BY <1>3, <2>1, <2>2, <2>3 DEF Fault
<1>4. CASE UNCHANGED <<request, run>>
  BY <1>4, StageStays DEF SameRequest
<1> QED BY <1>1, <1>3, <1>4, RunStepStages DEF TicketNext, Ask, ticketVars

(* A run returns when all of its stages are done. *)
LEMMA ReturnsWhole ==
    ASSUME WholeInv, NEW c \in Calls, RunStep(c)
    PROVE  \/ IP!NoNewResult
           \/ \E n : /\ [by |-> c, ticket |-> n] \in Result
                     /\ IP!RunDone(c, [by |-> c, ticket |-> n])
                     /\ idem[c].id \in Ids /\ Whole(idem[c].id, n)
<1>1. PICK i, n : i = idem[c].id /\ n = request[c].ticket
  OBVIOUS
<1>2. CASE UNCHANGED idemVars
  BY <1>2 DEF IP!NoNewResult, IP!idemVars, idemVars
<1>3. CASE Throw(c)
  <2>1. IP!RunFails(c)
    BY <1>3 DEF Throw, Idem!RunFails, IP!RunFails, Idem!Settle, IP!Settle
  <2> QED BY <2>1 DEF IP!NoNewResult
<1>4. ASSUME Return(c, n), Whole(i, n)
      PROVE  /\ [by |-> c, ticket |-> n] \in Result
             /\ IP!RunDone(c, [by |-> c, ticket |-> n])
             /\ idem[c].id \in Ids /\ Whole(idem[c].id, n)
  <2>1. IP!RunDone(c, [by |-> c, ticket |-> n])
    BY <1>4 DEF Return, Idem!RunDone, IP!RunDone, Idem!Settle, IP!Settle
  <2>2. idem[c].id \in Ids
    BY <2>1 DEF WholeInv, OnceInv, TicketInv, IP!IdemInv, IP!IdemTypeOK, IP!RunDone
  <2>3. n \in Numbers
    BY <1>4 DEF Whole
  <2> QED BY <1>1, <1>4, <2>1, <2>2, <2>3 DEF Result
<1>5. request[c].pc = "done" => n \in Numbers /\ ticket[n] # NoRow
  BY <1>1 DEF WholeInv, OnceInv, TicketInv, RequestOK
<1>6. /\ run[c] = "creating" => CreatingOK(c, i, n)
      /\ run[c] = "lowering" => LoweringOK(c, i, n)
      /\ run[c] = "patching" => PatchingOK(c, i, n)
      /\ run[c] = "noting" => NotingOK(c, i, n)
  BY <1>1 DEF WholeInv, StageOK
<1>7. CASE StartCreate(c) \/ StartUpdate(c)
  BY <1>2, <1>3, <1>7 DEF StartCreate, StartUpdate
<1>8. CASE TicketCreated(c)
  <2>1. ~ Lowered(i) => Whole(i, n)
    BY <1>5, <1>6, <1>8 DEF TicketCreated, CreatingOK, Whole
  <2> QED BY <1>1, <1>2, <1>4, <1>8, <2>1 DEF TicketCreated
<1>9. CASE TicketPatched(c)
  <2>1. ~ RequestOf[i].note => Whole(i, n)
    BY <1>5, <1>6, <1>9 DEF TicketPatched, PatchingOK, Whole
  <2> QED BY <1>1, <1>2, <1>4, <1>9, <2>1 DEF TicketPatched
<1>10. CASE CommentAdded(c)
  <2>1. Whole(i, n)
    BY <1>5, <1>6, <1>10 DEF CommentAdded, LoweringOK, NotingOK, Whole
  <2> QED BY <1>1, <1>4, <1>10, <2>1 DEF CommentAdded
<1> QED BY <1>7, <1>8, <1>9, <1>10 DEF RunStep

LEMMA NewResults ==
    ASSUME WholeInv, [TicketNext]_ticketVars
    PROVE  \/ IP!NoNewResult
           \/ \E c \in Calls : \E n :
                 /\ [by |-> c, ticket |-> n] \in Result
                 /\ IP!RunDone(c, [by |-> c, ticket |-> n])
                 /\ idem[c].id \in Ids /\ Whole(idem[c].id, n)
<1>1. ASSUME UNCHANGED idemVars PROVE IP!NoNewResult
  BY <1>1 DEF idemVars, IP!idemVars, IP!NoNewResult
<1>2. ASSUME NEW c \in Calls, Throw(c) PROVE IP!NoNewResult
  <2>1. IP!RunFails(c)
    BY <1>2 DEF Throw, Idem!RunFails, IP!RunFails, Idem!Settle, IP!Settle
  <2> QED BY <2>1 DEF IP!NoNewResult
<1>3. ASSUME NEW c \in Calls, NEW i \in Ids, Ask(c, i) PROVE IP!NoNewResult
  BY <1>1, <1>3, SameSteps DEF Ask, IP!NoNewResult
<1>4. ASSUME NEW c \in Calls, DeskStep(c) PROVE IP!NoNewResult
  BY <1>1, <1>4 DEF DeskStep
<1>5. ASSUME NEW c \in Calls, Idem!IdemStep(c) PROVE IP!NoNewResult
  BY <1>5, SameSteps DEF IP!NoNewResult
<1>6. CASE Fault
  <2>1. CASE IdemFault
    BY <2>1, SameSteps, SameExpiry DEF IdemFault, IP!NoNewResult
  <2>2. ASSUME NEW c \in Calls, RequestFails(c) \/ CallFails(c) \/ ServerDies(c)
        PROVE  IP!NoNewResult
    BY <1>1, <1>2, <2>2, SameSteps DEF RequestFails, CallFails, ServerDies, IP!NoNewResult
  <2> QED BY <1>6, <2>1, <2>2 DEF Fault
<1>7. CASE UNCHANGED ticketVars
  BY <1>1, <1>7 DEF ticketVars
<1> QED BY <1>3, <1>4, <1>5, <1>6, <1>7, ReturnsWhole DEF TicketNext

LEMMA ResultsStayWhole ==
    ASSUME WholeInv, [TicketNext]_ticketVars
    PROVE  ResultsWhole'
<1>1. PICK G : G = {g \in Ids \X Result : Whole(g[1], g[2].ticket)}
  OBVIOUS
<1>2. \A i \in Ids, r \in Result : Whole(i, r.ticket) => <<i, r>> \in G
  BY <1>1
<1>3. IP!IdemInv /\ IP!IdemTypeOK
  BY DEF WholeInv, OnceInv, TicketInv, IP!IdemInv
<1>4. \A i \in Ids : idemResult[i] # None => <<i, idemResult[i]>> \in G
  BY <1>2, <1>3 DEF WholeInv, ResultsWhole, IP!IdemTypeOK
<1>5. \A c \in Calls : idem[c].pc = "store" \/ idem[c].answer \in IP!Success =>
         <<idem[c].id, idem[c].result>> \in G
  <2> SUFFICES ASSUME NEW c \in Calls, idem[c].pc = "store" \/ idem[c].answer \in IP!Success
               PROVE  <<idem[c].id, idem[c].result>> \in G
    OBVIOUS
  <2>1. idem[c].result \in Result
    BY <1>3 DEF IP!IdemInv, IP!HasResult, IP!AnsweredStored
  <2>2. idem[c].id \in Ids
    BY <1>3 DEF IP!IdemInv, IP!IdemTypeOK, IP!AnsweredStored, IP!Success
  <2>3. Whole(idem[c].id, idem[c].result.ticket)
    BY DEF WholeInv, ResultsWhole, IP!Success, Idem!Success
  <2> QED BY <1>2, <2>1, <2>2, <2>3
<1>6. \/ IP!NoNewResult
      \/ \E c \in Calls, r \in Result : IP!RunDone(c, r) /\ <<idem[c].id, r>> \in G
  <2>1. ASSUME NEW c \in Calls, NEW n, [by |-> c, ticket |-> n] \in Result,
               IP!RunDone(c, [by |-> c, ticket |-> n]),
               idem[c].id \in Ids, Whole(idem[c].id, n)
        PROVE  \E r \in Result : IP!RunDone(c, r) /\ <<idem[c].id, r>> \in G
    <3>1. [by |-> c, ticket |-> n].ticket = n
      OBVIOUS
    <3> QED BY <1>2, <2>1, <3>1
  <2> QED BY <2>1, NewResults
<1>7. /\ \A i \in Ids : idemResult'[i] # None => <<i, idemResult'[i]>> \in G
      /\ \A c \in Calls : idem'[c].pc = "store" \/ idem'[c].answer \in IP!Success =>
            <<idem'[c].id, idem'[c].result>> \in G
  BY <1>3, <1>4, <1>5, <1>6, ResultsAreNotNone, IP!ResultsIn
<1>8. ASSUME NEW i, NEW r, <<i, r>> \in G
      PROVE  Whole(i, r.ticket)'
  <2>1. i \in Ids /\ Whole(i, r.ticket)
    BY <1>1, <1>8
  <2>2. PICK n : n = r.ticket
    OBVIOUS
  <2>3. Whole(i, n)'
    BY <2>1, <2>2, WholeRemains DEF WholeInv
  <2> QED BY <2>2, <2>3
<1>9. \A i \in Ids : idemResult'[i] # None => Whole(i, idemResult[i].ticket)'
  <2> SUFFICES ASSUME NEW i \in Ids, idemResult'[i] # None
               PROVE  Whole(i, idemResult[i].ticket)'
    OBVIOUS
  <2>1. PICK n, r : r = idemResult'[i] /\ n = r.ticket
    OBVIOUS
  <2>2. Whole(i, n)'
    BY <1>7, <1>8, <2>1
  <2> QED BY <2>1, <2>2
<1>10. \A c \in Calls : idem'[c].pc = "store" \/ idem'[c].answer \in Idem!Success =>
          Whole(idem[c].id, idem[c].result.ticket)'
  <2> SUFFICES ASSUME NEW c \in Calls, idem'[c].pc = "store" \/ idem'[c].answer \in Idem!Success
               PROVE  Whole(idem[c].id, idem[c].result.ticket)'
    OBVIOUS
  <2>1. PICK i, r : i = idem'[c].id /\ r = idem'[c].result
    OBVIOUS
  <2>2. <<i, r>> \in G
    BY <1>7, <2>1 DEF IP!Success, Idem!Success
  <2>3. Whole(i, r.ticket)'
    BY <1>8, <2>2
  <2> QED BY <2>1, <2>3
<1> QED BY <1>9, <1>10 DEF ResultsWhole, Idem!Success

(* A success, at once or from the store, stands for all of what was asked for
   (support-service.ts:230-243, 343-367). *)
THEOREM SuccessesAreWhole == TicketSpec => []SuccessIsWhole
<1>1. WholeInv => SuccessIsWhole
  <2> SUFFICES ASSUME WholeInv, NEW c \in Calls, idem[c].answer \in Idem!Success
               PROVE  LET i == idem[c].id
                          n == idem[c].result.ticket
                      IN  IF RequestOf[i].op = "create"
                          THEN ticket[n].by = i /\ (Lowered(i) => Written(i, n, "lowered"))
                          ELSE /\ n = RequestOf[i].ticket
                               /\ RequestOf[i].note => Written(i, n, "note")
                               /\ Patched(i, n)
    BY DEF SuccessIsWhole, Written, Patched, Was
  <2> QED BY DEF WholeInv, ResultsWhole, Whole
<1>2. WholeInv /\ [TicketNext]_ticketVars => WholeInv'
  BY OnceNextInv, StagesKept, ResultsStayWhole DEF WholeInv
<1>3. TicketSpec => []WholeInv
  BY WholeInitInv, <1>2, PTL DEF TicketSpec
<1> QED BY <1>1, <1>3, PTL

-----------------------------------------------------------------------------
(* Refinement.  The calls of this module are behaviours of the wrapper of Idempotency.tla:
   entering, waiting, running, failing and expiring are its steps, and what the run does
   at the desk in between is none of them. *)
THEOREM TicketsImplementWrapper == TicketSpec => IP!IdemSpec
<1>1. TicketInit => IP!IdemInit
  BY DEF TicketInit, Idem!IdemInit, IP!IdemInit, Idem!NoCall, IP!NoCall
<1>2. TicketInv /\ [TicketNext]_ticketVars => [IP!IdemNext]_(IP!idemVars)
  BY WrapperSteps
<1> QED BY <1>1, <1>2, TicketInvariant, PTL DEF TicketSpec, IP!IdemSpec

(* Two calls of the same create or update run at the same time only when one of them
   outlived its lock, and all that are told of success are told of one ticket. *)
THEOREM TicketsRunAlone == TicketSpec => [](Idem!RunsAlone /\ Idem!OneResult)
<1>1. IP!RunsAlone <=> Idem!RunsAlone
  BY DEF IP!RunsAlone, Idem!RunsAlone
<1>2. IP!OneResult <=> Idem!OneResult
  BY DEF IP!OneResult, Idem!OneResult, IP!Success, Idem!Success
<1>3. IP!IdemSpec => []IP!RunsAlone
  BY ResultsAreNotNone, IP!AlwaysRunsAlone
<1>4. IP!IdemSpec => []IP!OneResult
  BY ResultsAreNotNone, IP!AlwaysOneResult
<1> QED BY <1>1, <1>2, <1>3, <1>4, TicketsImplementWrapper, PTL

=============================================================================
