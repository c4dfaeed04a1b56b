---------------------------- MODULE CustomersProofs ----------------------------
(***************************************************************************)
(* Proofs about Customers.tla for every set of calls, requests, addresses  *)
(* and names, on top of the proofs about Idempotency.tla.                  *)
(*                                                                         *)
(* The inductive invariant says what a request at the CRM knows: the       *)
(* address it is about to write is nobody else's, unless the call is       *)
(* marked as raced; and that a request with a tier in it is a lead's. A    *)
(* create that was answered before finds its result, or the result has     *)
(* expired. Composed, the calls still implement withIdempotency. Of        *)
(* AccountOverview.tla: what an overview shows is made of reads that have  *)
(* settled.                                                                *)
(***************************************************************************)
EXTENDS Customers, AccountOverview, FiniteSetTheorems, TLAPS

IP == INSTANCE IdempotencyProofs WITH Results <- Result

(* What the CRM and the service keep of their own. *)
CrmTypeOK ==
    /\ customer \in [Numbers -> Row \cup {NoRow}]
    /\ request \in [Calls -> HttpRequest]
    /\ ask \in [Calls -> Asking]
    /\ raced \subseteq Calls
    /\ faults \in 0..MaxFaults

(* Customers are numbered from 1 without gaps. *)
Filled == \E k \in Nat : \A n \in Numbers : customer[n] # NoRow <=> n <= k

(* Only a lead's request sets a tier. *)
MaySetTier(i) == "tier" \in RequestOf[i].sets => i \in Leads

(* Nobody but the customer it is for has the address that call c is about to write,
   unless c is marked as raced; what it is about to write was permitted. *)
RequestOK(c) ==
    /\ request[c].pc # "none" => request[c].id \in Ids
    /\ request[c].pc \in {"read", "recheck", "apply"} => request[c].ref \in Rows /\ MaySetTier(request[c].id)
    /\ request[c].pc = "done" => request[c].ref \in Numbers
    /\ request[c].pc = "insert" /\ c \notin raced => HasEmail(RequestOf[request[c].id].email) = {}
    /\ request[c].pc \in {"recheck", "apply"} => request[c].was \in Row
    /\ request[c].pc = "apply" /\ c \notin raced /\ "email" \in Changed(c, request[c].was) =>
          HasEmail(RequestOf[request[c].id].email) \subseteq {request[c].ref}

(* The wrapper runs a call under the id it came with, and after its checks; a repetition
   finds the result of its request, or the result has expired. *)
AskOK(c) ==
    /\ ask[c].pc # "idle" => ask[c].id \in Ids
    /\ idem[c].pc # "idle" => ask[c].pc = "idem" /\ idem[c].id = ask[c].id
    /\ ask[c].pc = "search" => RequestOf[ask[c].id].op = "create"
    /\ ask[c].pc = "idem" /\ RequestOf[ask[c].id].op = "update" => MaySetTier(ask[c].id)
    /\ ask[c].again => ask[c].pc # "idle"
    /\ ask[c].again /\ ask[c].id \notin forgotten =>
          /\ idemResult[ask[c].id] # None
          /\ ask[c].pc # "search" /\ ask[c].answer \notin {"exists", "duplicates"}

CustomerInv ==
    /\ IP!IdemInv /\ IP!Remembered
    /\ CrmTypeOK /\ Filled
    /\ \A c \in Calls : RequestOK(c) /\ AskOK(c)
    /\ EmailsUniqueUnlessRaced

-----------------------------------------------------------------------------
LEMMA ResultsAreNotNone == None \notin Calls \cup Ids \cup Result
BY CustomersAssumption

LEMMA RowsAreRows ==
    ASSUME NEW r \in Row
    PROVE  /\ r # NoRow /\ r.email \in Emails
           /\ r["name"] = r.name /\ r["email"] = r.email /\ r["tier"] = r.tier
BY CustomersAssumption DEF Row, NoRow

LEMMA CustomerInitInv == CustomerInit => CustomerInv
<1> SUFFICES ASSUME CustomerInit PROVE CustomerInv
  OBVIOUS
<1> USE DEF CustomerInit
<1>1. IP!IdemInit
  BY DEF Idem!IdemInit, IP!IdemInit, Idem!NoCall, IP!NoCall
<1>2. IP!IdemInv
  BY <1>1, ResultsAreNotNone, IP!IdemInitInv
<1>3. IP!Remembered
  BY DEF IP!Remembered, IP!Success, Idem!IdemInit, Idem!NoCall
<1> DEFINE s == FirstCustomers
           SeedRow == [name : Names, email : Emails, tier : Tiers, emailBy : {None}]
<1>4. /\ Len(s) \in Nat /\ DOMAIN s = 1..Len(s)
      /\ \A n \in DOMAIN s : s[n] \in SeedRow
  <2>1. s \in Seq(SeedRow)
    BY CustomersAssumption
  <2> HIDE DEF SeedRow, s
  <2> QED BY <2>1
<1>5. \A n \in DOMAIN s : s[n] \in Row /\ s[n] # NoRow
  <2>1. \A n \in DOMAIN s : s[n] \in Row
    BY <1>4 DEF Row
  <2> QED BY <2>1, RowsAreRows
<1>6. customer = [n \in Numbers |-> IF n \in DOMAIN s THEN s[n] ELSE NoRow]
  OBVIOUS
<1>7. \A m, n \in DOMAIN s : s[m].email = s[n].email => m = n
  BY CustomersAssumption
<1> HIDE DEF s
<1>8. CrmTypeOK
  <2>1. customer \in [Numbers -> Row \cup {NoRow}]
    BY <1>5, <1>6
  <2>2. request \in [Calls -> HttpRequest] /\ ask \in [Calls -> Asking]
    BY DEF NoRequest, HttpRequest, NotAsking, Asking
  <2> QED BY <2>1, <2>2, CustomersAssumption DEF CrmTypeOK
<1>9. Filled
  <2>1. \A n \in Numbers : n \in DOMAIN s <=> n <= Len(s)
    BY <1>4, CustomersAssumption DEF Numbers
  <2>2. \A n \in Numbers : customer[n] # NoRow <=> n <= Len(s)
    BY <1>5, <1>6, <2>1
  <2> QED BY <1>4, <2>2 DEF Filled
<1>10. \A c \in Calls : RequestOK(c) /\ AskOK(c)
  BY DEF RequestOK, NoRequest, AskOK, NotAsking, Idem!IdemInit, Idem!NoCall
<1>11. EmailsUniqueUnlessRaced
  <2>1. \A n \in Rows : n \in DOMAIN s /\ customer[n] = s[n]
    BY <1>6 DEF Rows
  <2> QED BY <1>7, <2>1 DEF EmailsUniqueUnlessRaced
<1> QED BY <1>2, <1>3, <1>8, <1>9, <1>10, <1>11 DEF CustomerInv

-----------------------------------------------------------------------------
(* The wrapper of this module is the one the proofs of Idempotency.tla are about. *)

LEMMA SameSteps ==
    ASSUME NEW c \in Calls
    PROVE  /\ Idem!IdemStep(c) => IP!IdemStep(c)
           /\ Idem!RedisFails(c) => IP!RedisFails(c)
           /\ Idem!Die(c) => IP!Die(c)
           /\ \A i \in Ids : Idem!Enter(c, i) => IP!Enter(c, i)
           /\ \A r \in Result : Idem!RunDone(c, r) => IP!RunEnds(c)
           /\ Idem!RunFails(c) => IP!RunEnds(c)
<1> USE DEF Idem!Go, IP!Go, Idem!Settle, IP!Settle, Idem!Stored, IP!Stored, Idem!Released,
            IP!Released
<1>1. Idem!IdemStep(c) => IP!IdemStep(c)
  <2>1. /\ Idem!FirstLook(c) => IP!FirstLook(c)
        /\ Idem!TryLock(c) => IP!TryLock(c)
    BY DEF Idem!FirstLook, IP!FirstLook, Idem!TryLock, IP!TryLock
  <2>2. /\ Idem!Poll(c) => IP!Poll(c)
        /\ Idem!LateLook(c) => IP!LateLook(c)
    BY DEF Idem!Poll, IP!Poll, Idem!LateLook, IP!LateLook
  <2>3. /\ Idem!Store(c) => IP!Store(c)
        /\ Idem!Release(c) => IP!Release(c)
    BY DEF Idem!Store, IP!Store, Idem!Release, IP!Release
  <2> QED BY <2>1, <2>2, <2>3 DEF Idem!IdemStep, IP!IdemStep
<1>2. Idem!RedisFails(c) => IP!RedisFails(c)
  BY DEF Idem!RedisFails, IP!RedisFails
<1>3. Idem!Die(c) => IP!Die(c)
  BY DEF Idem!Die, IP!Die
<1>4. ASSUME NEW i \in Ids, Idem!Enter(c, i) PROVE IP!Enter(c, i)
  BY <1>4 DEF Idem!Enter, IP!Enter
<1>5. ASSUME NEW r \in Result, Idem!RunDone(c, r) PROVE IP!RunEnds(c)
  <2>1. IP!RunDone(c, r)
    BY <1>5 DEF Idem!RunDone, IP!RunDone
  <2> QED BY <2>1 DEF IP!RunEnds
<1>6. Idem!RunFails(c) => IP!RunEnds(c)
  BY DEF Idem!RunFails, IP!RunFails, IP!RunEnds
<1> QED BY <1>1, <1>2, <1>3, <1>4, <1>5, <1>6

LEMMA SameExpiry ==
    ASSUME NEW i \in Ids
    PROVE  /\ Idem!LockExpires(i) => IP!LockExpires(i)
           /\ Idem!ResultExpires(i) => IP!ResultExpires(i)
BY DEF Idem!LockExpires, IP!LockExpires, Idem!ResultExpires, IP!ResultExpires, Idem!Holding,
       IP!Holding

(* Any step of the wrapper. *)
LEMMA WrapperMoves ==
    ASSUME CustomerInv,
           \/ \E c \in Calls : \/ Idem!IdemStep(c) \/ Idem!RedisFails(c) \/ Idem!Die(c)
                               \/ \E i \in Ids : Idem!Enter(c, i)
                               \/ \E r \in Result : Idem!RunDone(c, r)
                               \/ Idem!RunFails(c)
           \/ \E i \in Ids : Idem!LockExpires(i) \/ Idem!ResultExpires(i)
           \/ UNCHANGED idemVars
    PROVE  /\ IP!IdemInv' /\ IP!Remembered'
           /\ forgotten \subseteq forgotten'
           /\ \A i \in Ids : idemResult[i] # None => idemResult'[i] # None \/ i \in forgotten'
<1>1. [IP!IdemNext]_(IP!idemVars)
  BY SameSteps, SameExpiry DEF IP!IdemNext, IP!idemVars, idemVars
<1>2. IP!IdemInv' /\ IP!Remembered'
  BY <1>1, ResultsAreNotNone, IP!IdemNextInv, IP!RememberedKept DEF CustomerInv
<1>3. /\ forgotten \subseteq forgotten'
      /\ \A i \in Ids : idemResult[i] # None => idemResult'[i] # None \/ i \in forgotten'
  BY <1>1, ResultsAreNotNone, IP!StoredStays DEF CustomerInv
<1> QED BY <1>2, <1>3

LEMMA CrmQuiet ==
    ASSUME CustomerInv, UNCHANGED <<crmVars, request>>
    PROVE  Filled' /\ EmailsUniqueUnlessRaced' /\ \A d \in Calls : RequestOK(d)'
<1> USE DEF CustomerInv, crmVars
<1>1. Filled' /\ EmailsUniqueUnlessRaced'
  BY DEF Filled, EmailsUniqueUnlessRaced, Rows
<1>2. ASSUME NEW d \in Calls PROVE RequestOK(d)'
  BY DEF RequestOK, Rows, HasEmail, Changed, MaySetTier
<1> QED BY <1>1, <1>2

LEMMA AskKept ==
    ASSUME CustomerInv, forgotten \subseteq forgotten',
           \A i \in Ids : idemResult[i] # None => idemResult'[i] # None \/ i \in forgotten',
           NEW d \in Calls, ask'[d] = ask[d],
           idem'[d].pc # "idle" => idem[d].pc # "idle" /\ idem'[d].id = idem[d].id
    PROVE  AskOK(d)'
<1>1. AskOK(d)
  BY DEF CustomerInv
<1> QED BY <1>1 DEF AskOK, MaySetTier

(* A step of the wrapper alone, of a call that has begun or of time. *)
LEMMA WrapperKeeps ==
    ASSUME CustomerInv,
           \/ \E c \in Calls : \/ Idem!IdemStep(c) \/ Idem!RedisFails(c) \/ Idem!Die(c)
                               \/ \E r \in Result : Idem!RunDone(c, r)
                               \/ Idem!RunFails(c)
           \/ \E i \in Ids : Idem!LockExpires(i) \/ Idem!ResultExpires(i)
           \/ UNCHANGED idemVars,
           UNCHANGED <<crmVars, request, ask>>, faults' \in 0..MaxFaults
    PROVE  CustomerInv'
<1>1. /\ IP!IdemInv' /\ IP!Remembered'
      /\ forgotten \subseteq forgotten'
      /\ \A i \in Ids : idemResult[i] # None => idemResult'[i] # None \/ i \in forgotten'
  BY WrapperMoves
<1>2. \A d \in Calls : idem'[d].pc # "idle" => idem[d].pc # "idle" /\ idem'[d].id = idem[d].id
  <2>1. ASSUME NEW c \in Calls, IP!IdemStep(c) \/ IP!RunEnds(c) \/ IP!RedisFails(c) \/ IP!Die(c)
        PROVE  \A d \in Calls : idem'[d].pc # "idle" => idem[d].pc # "idle" /\ idem'[d].id = idem[d].id
    BY <2>1, ResultsAreNotNone, IP!StepLeaves DEF CustomerInv, IP!IdemInv
  <2>2. CASE \E i \in Ids : Idem!LockExpires(i) \/ Idem!ResultExpires(i)
    BY <2>2 DEF Idem!LockExpires, Idem!ResultExpires
  <2>3. CASE UNCHANGED idemVars
    BY <2>3 DEF idemVars
  <2> QED BY <2>1, <2>2, <2>3, SameSteps
<1>3. \A d \in Calls : AskOK(d)'
  BY <1>1, <1>2, AskKept
<1>4. Filled' /\ EmailsUniqueUnlessRaced' /\ \A d \in Calls : RequestOK(d)'
  BY CrmQuiet
<1>5. CrmTypeOK'
  BY DEF CustomerInv, CrmTypeOK, crmVars
<1> QED BY <1>1, <1>3, <1>4, <1>5 DEF CustomerInv

-----------------------------------------------------------------------------
(* The part of a call outside the wrapper. *)

(* Call c moves on outside the wrapper, or into it. *)
LEMMA CallMoves ==
    ASSUME CustomerInv, NEW c \in Calls,
           UNCHANGED idemVars \/ \E i \in Ids : Idem!Enter(c, i),
           \A d \in Calls \ {c} : idem'[d] = idem[d] /\ ask'[d] = ask[d],
           ask' \in [Calls -> Asking], AskOK(c)',
           UNCHANGED <<crmVars, request, faults>>
    PROVE  CustomerInv'
<1>1. /\ IP!IdemInv' /\ IP!Remembered'
      /\ forgotten \subseteq forgotten'
      /\ \A i \in Ids : idemResult[i] # None => idemResult'[i] # None \/ i \in forgotten'
  BY WrapperMoves
<1>2. \A d \in Calls \ {c} : AskOK(d)'
  BY <1>1, AskKept
<1>3. Filled' /\ EmailsUniqueUnlessRaced' /\ \A d \in Calls : RequestOK(d)'
  BY CrmQuiet
<1>4. CrmTypeOK'
  BY DEF CustomerInv, CrmTypeOK, crmVars
<1> QED BY <1>1, <1>2, <1>3, <1>4 DEF CustomerInv

LEMMA AskKeeps ==
    ASSUME CustomerInv, NEW c \in Calls, NEW i \in Ids, NEW unsure \in BOOLEAN, Ask(c, i, unsure),
           UNCHANGED faults
    PROVE  CustomerInv'
<1>1. ask[c].pc = "idle" /\ UNCHANGED <<idemVars, crmVars, request>>
  BY DEF Ask
<1>2. PICK again \in BOOLEAN : again = Answered(i)
  BY DEF Answered
<1>3. ask' = [ask EXCEPT ![c] = [NotAsking EXCEPT !.pc = "peek", !.id = i, !.unsure = unsure,
                                                  !.again = again]]
  BY <1>2 DEF Ask
<1>4. PICK asking : asking = [NotAsking EXCEPT !.pc = "peek", !.id = i, !.unsure = unsure,
                                               !.again = again]
  OBVIOUS
<1>5. /\ asking \in Asking
      /\ asking.pc = "peek" /\ asking.id = i /\ asking.again = again /\ asking.answer = "none"
  BY <1>4 DEF Asking, NotAsking
<1>6. /\ ask' \in [Calls -> Asking] /\ ask'[c] = asking
      /\ \A d \in Calls \ {c} : ask'[d] = ask[d]
  BY <1>3, <1>4, <1>5 DEF CustomerInv, CrmTypeOK
<1>7. idem[c].pc = "idle"
  BY <1>1 DEF CustomerInv, AskOK
<1>8. again /\ i \notin forgotten => idemResult[i] # None
  BY <1>2 DEF Answered, CustomerInv, IP!Remembered, IP!Stored, IP!Success, Idem!Success
<1>9. AskOK(c)'
  <2>1. idem' = idem /\ idemResult' = idemResult /\ forgotten' = forgotten
    BY <1>1 DEF idemVars
  <2> QED BY <1>5, <1>6, <1>7, <1>8, <2>1 DEF AskOK
<1> QED BY <1>1, <1>6, <1>9, CallMoves DEF idemVars

(* The call is turned away, or goes on into the wrapper. *)
LEMMA TurnAwayKeeps ==
    ASSUME CustomerInv, NEW c \in Calls,
           NEW answer \in {"replayed", "exists", "duplicates", "denied"},
           ask[c].pc \in {"peek", "search"}, TurnAway(c, answer),
           answer \in {"exists", "duplicates"} => ask[c].pc = "search",
           UNCHANGED <<crmVars, request, faults>>
    PROVE  CustomerInv'
<1>1. [ask[c] EXCEPT !.pc = "out", !.answer = answer] \in Asking
  BY DEF CustomerInv, CrmTypeOK, Asking
<1>2. /\ ask' \in [Calls -> Asking]
      /\ ask'[c] = [ask[c] EXCEPT !.pc = "out", !.answer = answer]
      /\ \A d \in Calls \ {c} : ask'[d] = ask[d]
  BY <1>1 DEF CustomerInv, CrmTypeOK, TurnAway, Asking
<1>3. /\ ask'[c].pc = "out" /\ ask'[c].answer = answer
      /\ ask'[c].id = ask[c].id /\ ask'[c].again = ask[c].again
  BY <1>2 DEF CustomerInv, CrmTypeOK, Asking
<1>4. UNCHANGED idemVars /\ idem' = idem /\ idemResult' = idemResult /\ forgotten' = forgotten
  BY DEF TurnAway, idemVars
<1>5. AskOK(c)'
  BY <1>3, <1>4 DEF CustomerInv, AskOK
<1> QED BY <1>2, <1>4, <1>5, CallMoves

LEMMA GoOnKeeps ==
    ASSUME CustomerInv, NEW c \in Calls, ask[c].pc \in {"peek", "search"}, GoOn(c),
           RequestOf[ask[c].id].op = "update" => MaySetTier(ask[c].id),
           UNCHANGED <<crmVars, request, faults>>
    PROVE  CustomerInv'
<1>1. [ask[c] EXCEPT !.pc = "idem"] \in Asking
  BY DEF CustomerInv, CrmTypeOK, Asking
<1>2. /\ ask' \in [Calls -> Asking]
      /\ ask'[c] = [ask[c] EXCEPT !.pc = "idem"]
      /\ \A d \in Calls \ {c} : ask'[d] = ask[d]
  BY <1>1 DEF CustomerInv, CrmTypeOK, GoOn, Asking
<1>3. /\ ask'[c].pc = "idem" /\ ask'[c].answer = ask[c].answer
      /\ ask'[c].id = ask[c].id /\ ask'[c].again = ask[c].again
  BY <1>2 DEF CustomerInv, CrmTypeOK, Asking
<1>4. ask[c].id \in Ids /\ Idem!Enter(c, ask[c].id)
  BY DEF CustomerInv, AskOK, GoOn
<1>5. /\ idem' = [idem EXCEPT ![c].pc = "look", ![c].id = ask[c].id]
      /\ idemResult' = idemResult /\ forgotten' = forgotten
  BY <1>4 DEF Idem!Enter
<1>6. idem'[c].id = ask[c].id /\ \A d \in Calls \ {c} : idem'[d] = idem[d]
  BY <1>5 DEF CustomerInv, IP!IdemInv, IP!IdemTypeOK, IP!IdemCall
<1>7. AskOK(c)'
  BY <1>3, <1>5, <1>6 DEF CustomerInv, AskOK, MaySetTier
<1> QED BY <1>2, <1>4, <1>6, <1>7, CallMoves

LEMMA ServiceKeeps ==
    ASSUME CustomerInv, NEW c \in Calls, Peek(c) \/ Search(c) \/ CheckFields(c), UNCHANGED faults
    PROVE  CustomerInv'
<1>1. UNCHANGED <<crmVars, request, faults>>
  BY DEF Peek, Search, CheckFields
<1>2. CASE /\ ask[c].pc = "peek" /\ RequestOf[ask[c].id].op = "create"
           /\ idemResult[ask[c].id] = None
           /\ ask' = [ask EXCEPT ![c].pc = "search"] /\ UNCHANGED idemVars
  <2>1. [ask[c] EXCEPT !.pc = "search"] \in Asking
    BY DEF CustomerInv, CrmTypeOK, Asking
  <2>2. /\ ask' \in [Calls -> Asking]
        /\ ask'[c] = [ask[c] EXCEPT !.pc = "search"]
        /\ \A d \in Calls \ {c} : ask'[d] = ask[d]
    BY <1>2, <2>1 DEF CustomerInv, CrmTypeOK, Asking
  <2>3. /\ ask'[c].pc = "search" /\ ask'[c].answer = ask[c].answer
        /\ ask'[c].id = ask[c].id /\ ask'[c].again = ask[c].again
    BY <2>2 DEF CustomerInv, CrmTypeOK, Asking
  <2>4. idem' = idem /\ idemResult' = idemResult /\ forgotten' = forgotten
    BY <1>2 DEF idemVars
  <2>5. AskOK(c)'
    BY <1>2, <2>3, <2>4 DEF CustomerInv, AskOK
  <2> QED BY <1>1, <1>2, <2>2, <2>4, <2>5, CallMoves
<1>3. CASE Peek(c)
  <2>1. ask[c].pc = "peek" /\ RequestOf[ask[c].id].op = "create"
    BY <1>3 DEF Peek
  <2>2. CASE TurnAway(c, "replayed")
    BY <1>1, <2>1, <2>2, TurnAwayKeeps
  <2>3. CASE GoOn(c)
    BY <1>1, <2>1, <2>3, GoOnKeeps
  <2> QED BY <1>2, <1>3, <2>2, <2>3 DEF Peek
<1>4. CASE Search(c)
  <2>1. ask[c].pc = "search" /\ RequestOf[ask[c].id].op = "create"
    BY <1>4 DEF Search, CustomerInv, AskOK
  <2>2. CASE TurnAway(c, "exists") \/ TurnAway(c, "duplicates")
    BY <1>1, <2>1, <2>2, TurnAwayKeeps
  <2>3. CASE GoOn(c)
    BY <1>1, <2>1, <2>3, GoOnKeeps
  <2> QED BY <1>4, <2>2, <2>3 DEF Search
<1>5. CASE CheckFields(c)
  <2>1. ask[c].pc = "peek"
    BY <1>5 DEF CheckFields
  <2>2. CASE TurnAway(c, "denied")
    BY <1>1, <2>1, <2>2, TurnAwayKeeps
  <2>3. CASE GoOn(c) /\ MaySetTier(ask[c].id)
    BY <1>1, <2>1, <2>3, GoOnKeeps
  <2> QED BY <1>5, <2>2, <2>3 DEF CheckFields, MaySetTier
<1> QED BY <1>3, <1>4, <1>5

LEMMA RequestAnsweredKeeps ==
    ASSUME CustomerInv, NEW c \in Calls, RequestAnswered(c), UNCHANGED faults
    PROVE  CustomerInv'
<1>1. UNCHANGED <<crmVars, request, ask, faults>> /\ faults \in 0..MaxFaults
  BY DEF RequestAnswered, CustomerInv, CrmTypeOK
<1>2. CASE request[c].pc = "done" /\ Idem!RunDone(c, [by |-> c, ref |-> request[c].ref])
  <2>1. [by |-> c, ref |-> request[c].ref] \in Result
    BY <1>2 DEF CustomerInv, RequestOK, Result
  <2> QED BY <1>1, <1>2, <2>1, WrapperKeeps
<1>3. CASE Idem!RunFails(c)
  BY <1>1, <1>3, WrapperKeeps
<1> QED BY <1>2, <1>3 DEF RequestAnswered

-----------------------------------------------------------------------------
(* The requests at the CRM. *)

(* A request of call c goes a step on, and writes nothing. *)
LEMMA RequestMoves ==
    ASSUME CustomerInv, NEW c \in Calls,
           request' \in [Calls -> HttpRequest], RequestOK(c)',
           \A d \in Calls \ {c} : request'[d] = request[d],
           UNCHANGED <<idemVars, crmVars, ask>>, faults' \in 0..MaxFaults
    PROVE  CustomerInv'
<1> USE DEF CustomerInv
<1>1. /\ IP!IdemInv' /\ IP!Remembered'
      /\ forgotten \subseteq forgotten'
      /\ \A i \in Ids : idemResult[i] # None => idemResult'[i] # None \/ i \in forgotten'
  BY WrapperMoves
<1>2. \A d \in Calls : AskOK(d)'
  BY <1>1, AskKept DEF idemVars
<1>3. Filled' /\ EmailsUniqueUnlessRaced' /\ CrmTypeOK'
  BY DEF Filled, EmailsUniqueUnlessRaced, Rows, CrmTypeOK, crmVars
<1>4. ASSUME NEW d \in Calls \ {c} PROVE RequestOK(d)'
  BY DEF RequestOK, Rows, HasEmail, Changed, MaySetTier, crmVars
<1> QED BY <1>1, <1>2, <1>3, <1>4

LEMMA RequestFailsKeeps ==
    ASSUME CustomerInv, NEW c \in Calls, RequestFails(c), faults' \in 0..MaxFaults
    PROVE  CustomerInv'
<1>1. [request[c] EXCEPT !.pc = "failed"] \in HttpRequest
  BY DEF CustomerInv, CrmTypeOK, HttpRequest
<1>2. /\ request' \in [Calls -> HttpRequest]
      /\ request'[c].pc = "failed" /\ request'[c].id = request[c].id
      /\ \A d \in Calls \ {c} : request'[d] = request[d]
  BY <1>1 DEF CustomerInv, CrmTypeOK, RequestFails, Reached, HttpRequest
<1>3. RequestOK(c)'
  BY <1>2 DEF CustomerInv, RequestOK, RequestFails
<1> QED BY <1>2, <1>3, RequestMoves DEF RequestFails

LEMMA SendRequestKeeps ==
    ASSUME CustomerInv, NEW c \in Calls, SendRequest(c), UNCHANGED faults
    PROVE  CustomerInv'
<1>1. PICK i \in Ids : i = idem[c].id /\ i = ask[c].id
  BY DEF SendRequest, CustomerInv, AskOK
<1>2. /\ idem[c].pc = "run" /\ request[c].pc = "none"
      /\ RequestOf[i].op = "update" => MaySetTier(i)
      /\ UNCHANGED <<idemVars, crmVars, ask>>
  BY <1>1 DEF SendRequest, CustomerInv, AskOK
<1>3. /\ RequestOf[i] \in Request /\ RequestOf[i].op \in {"create", "update"}
      /\ RequestOf[i].ref \in Numbers \cup {0}
  BY CustomersAssumption DEF Request
<1>4. request[c] \in HttpRequest /\ request \in [Calls -> HttpRequest] /\ faults \in 0..MaxFaults
  BY DEF CustomerInv, CrmTypeOK
<1>5. CASE RequestOf[i].op = "create"
  <2>1. request' = [request EXCEPT ![c].pc = "check", ![c].id = i]
    BY <1>1, <1>5 DEF SendRequest
  <2>2. [request[c] EXCEPT !.pc = "check", !.id = i] \in HttpRequest
    BY <1>4 DEF HttpRequest
  <2>3. /\ request' \in [Calls -> HttpRequest]
        /\ request'[c].pc = "check" /\ request'[c].id = i
        /\ \A d \in Calls \ {c} : request'[d] = request[d]
    BY <1>4, <2>1, <2>2 DEF HttpRequest
  <2>4. RequestOK(c)'
    BY <2>3 DEF RequestOK
  <2> QED BY <1>2, <1>4, <2>3, <2>4, RequestMoves
<1>6. CASE RequestOf[i].op = "update"
  <2> DEFINE pc == IF RequestOf[i].ref \in Rows THEN "read" ELSE "failed"
  <2>1. request' = [request EXCEPT ![c].pc = pc, ![c].id = i, ![c].ref = RequestOf[i].ref]
    BY <1>1, <1>6 DEF SendRequest
  <2>2. pc \in {"read", "failed"} /\ (pc = "read" => RequestOf[i].ref \in Rows)
    OBVIOUS
  <2> HIDE DEF pc
  <2>3. [request[c] EXCEPT !.pc = pc, !.id = i, !.ref = RequestOf[i].ref] \in HttpRequest
    BY <1>3, <1>4, <2>2 DEF HttpRequest
  <2>4. /\ request' \in [Calls -> HttpRequest]
        /\ request'[c].pc = pc /\ request'[c].id = i /\ request'[c].ref = RequestOf[i].ref
        /\ \A d \in Calls \ {c} : request'[d] = request[d]
    BY <1>4, <2>1, <2>3 DEF HttpRequest
  <2>5. Rows' = Rows
    BY <1>2 DEF Rows, crmVars
  <2>6. RequestOK(c)'
    BY <1>2, <1>6, <2>2, <2>4, <2>5 DEF RequestOK, MaySetTier
  <2> QED BY <1>2, <1>4, <2>4, <2>6, RequestMoves
<1> QED BY <1>3, <1>5, <1>6

LEMMA CheckEmailKeeps ==
    ASSUME CustomerInv, NEW c \in Calls, CheckEmail(c), UNCHANGED <<idemVars, ask, faults>>
    PROVE  CustomerInv'
<1> DEFINE free == HasEmail(RequestOf[request[c].id].email) = {}
           pc == IF free THEN "insert" ELSE "failed"
<1>1. /\ request[c].pc = "check" /\ UNCHANGED crmVars
      /\ request' = [request EXCEPT ![c].pc = pc]
  BY DEF CheckEmail, Reached
<1>2. pc \in {"insert", "failed"} /\ (pc = "insert" => free)
  OBVIOUS
<1> HIDE DEF pc
<1>3. [request[c] EXCEPT !.pc = pc] \in HttpRequest
  BY <1>2 DEF CustomerInv, CrmTypeOK, HttpRequest
<1>4. /\ request' \in [Calls -> HttpRequest]
      /\ request'[c].pc = pc /\ request'[c].id = request[c].id
      /\ \A d \in Calls \ {c} : request'[d] = request[d]
  BY <1>1, <1>3 DEF CustomerInv, CrmTypeOK, HttpRequest
<1>5. \A e : HasEmail(e)' = HasEmail(e)
  BY <1>1 DEF HasEmail, Rows, crmVars
<1>6. request[c].id \in Ids
  BY <1>1 DEF CustomerInv, RequestOK
<1>7. RequestOK(c)'
  BY <1>2, <1>4, <1>5, <1>6 DEF RequestOK
<1> QED BY <1>1, <1>4, <1>7, RequestMoves DEF CustomerInv, CrmTypeOK

LEMMA ReadCustomerKeeps ==
    ASSUME CustomerInv, NEW c \in Calls, ReadCustomer(c), UNCHANGED <<idemVars, ask, faults>>
    PROVE  CustomerInv'
<1>1. PICK n \in Numbers : n = request[c].ref /\ n \in Rows /\ customer[n] # NoRow
  BY DEF ReadCustomer, CustomerInv, RequestOK, Rows
<1>2. PICK was \in Row : was = customer[n]
  BY <1>1 DEF CustomerInv, CrmTypeOK
<1>3. PICK i \in Ids : i = request[c].id /\ MaySetTier(i)
  BY DEF ReadCustomer, CustomerInv, RequestOK
<1>4. PICK changed : changed = Changed(c, was) /\ changed = {f \in RequestOf[i].sets : RequestOf[i][f] # was[f]}
  BY <1>3 DEF Changed
<1> DEFINE next == IF changed = {} THEN "done"
                   ELSE IF "email" \in changed THEN "recheck" ELSE "apply"
<1>5. /\ request[c].pc = "read" /\ UNCHANGED crmVars
      /\ request' = [request EXCEPT ![c].pc = next, ![c].was = was]
  BY <1>1, <1>2, <1>3, <1>4 DEF ReadCustomer
<1>6. /\ next \in {"done", "recheck", "apply"}
      /\ next = "apply" => "email" \notin changed
  OBVIOUS
<1> HIDE DEF next
<1>7. [request[c] EXCEPT !.pc = next, !.was = was] \in HttpRequest
  BY <1>6 DEF CustomerInv, CrmTypeOK, HttpRequest
<1>8. /\ request' \in [Calls -> HttpRequest]
      /\ request'[c].pc = next /\ request'[c].id = i /\ request'[c].ref = n /\ request'[c].was = was
      /\ \A d \in Calls \ {c} : request'[d] = request[d]
  BY <1>1, <1>3, <1>5, <1>7 DEF CustomerInv, CrmTypeOK, HttpRequest
<1>9. /\ Rows' = Rows /\ raced' = raced
      /\ \A e : HasEmail(e)' = HasEmail(e)
  BY <1>5 DEF HasEmail, Rows, crmVars
<1>10. "email" \in Changed(c, request[c].was)' => "email" \in changed
  BY <1>4, <1>8 DEF Changed
<1>11. RequestOK(c)'
  BY <1>1, <1>3, <1>6, <1>8, <1>9, <1>10 DEF RequestOK, MaySetTier
<1> QED BY <1>5, <1>8, <1>11, RequestMoves DEF CustomerInv, CrmTypeOK

LEMMA CheckNewEmailKeeps ==
    ASSUME CustomerInv, NEW c \in Calls, CheckNewEmail(c), UNCHANGED <<idemVars, ask, faults>>
    PROVE  CustomerInv'
<1> DEFINE free == HasEmail(RequestOf[request[c].id].email) \ {request[c].ref} = {}
           pc == IF free THEN "apply" ELSE "failed"
<1>1. /\ request[c].pc = "recheck" /\ UNCHANGED crmVars
      /\ request' = [request EXCEPT ![c].pc = pc]
  BY DEF CheckNewEmail, Reached
<1>2. /\ pc \in {"apply", "failed"}
      /\ pc = "apply" => HasEmail(RequestOf[request[c].id].email) \subseteq {request[c].ref}
  OBVIOUS
<1> HIDE DEF pc
<1>3. [request[c] EXCEPT !.pc = pc] \in HttpRequest
  BY <1>2 DEF CustomerInv, CrmTypeOK, HttpRequest
<1>4. /\ request' \in [Calls -> HttpRequest]
      /\ request'[c].pc = pc /\ request'[c].id = request[c].id
      /\ request'[c].ref = request[c].ref /\ request'[c].was = request[c].was
      /\ \A d \in Calls \ {c} : request'[d] = request[d]
  BY <1>1, <1>3 DEF CustomerInv, CrmTypeOK, HttpRequest
<1>5. Rows' = Rows /\ \A e : HasEmail(e)' = HasEmail(e)
  BY <1>1 DEF HasEmail, Rows, crmVars
<1>6. /\ request[c].id \in Ids /\ request[c].ref \in Rows /\ request[c].was \in Row
      /\ MaySetTier(request[c].id)
  BY <1>1 DEF CustomerInv, RequestOK
<1>7. RequestOK(c)'
  BY <1>2, <1>4, <1>5, <1>6 DEF RequestOK, MaySetTier
<1> QED BY <1>1, <1>4, <1>7, RequestMoves DEF CustomerInv, CrmTypeOK

(* Call c writes row n: it leaves the address as it is, or it takes one that it had found
   free, or is raced, and marks the calls that have found it free too. *)
LEMMA WriteKeeps ==
    ASSUME CustomerInv, NEW c \in Calls, NEW n \in Numbers, NEW row \in Row,
           customer' = [customer EXCEPT ![n] = row], Filled',
           request' \in [Calls -> HttpRequest],
           request'[c].pc = "done", request'[c].id \in Ids, request'[c].ref = n,
           \A d \in Calls \ {c} : request'[d] = request[d],
           raced \subseteq raced', raced' \subseteq Calls,
           \/ /\ n \in Rows
              /\ row.email = customer[n].email /\ row.emailBy = customer[n].emailBy
           \/ /\ row.emailBy = c
              /\ Checked(c, row.email) \subseteq raced'
              /\ c \notin raced => HasEmail(row.email) \subseteq {n},
           UNCHANGED <<idemVars, ask, faults>>
    PROVE  CustomerInv'
<1>1. /\ IP!IdemInv' /\ IP!Remembered'
      /\ forgotten \subseteq forgotten'
      /\ \A i \in Ids : idemResult[i] # None => idemResult'[i] # None \/ i \in forgotten'
  BY WrapperMoves
<1>2. \A d \in Calls : AskOK(d)'
  BY <1>1, AskKept DEF idemVars
<1>3. /\ customer' \in [Numbers -> Row \cup {NoRow}]
      /\ customer'[n] = row /\ row # NoRow
      /\ \A m \in Numbers \ {n} : customer'[m] = customer[m]
  BY RowsAreRows DEF CustomerInv, CrmTypeOK
<1>4. CrmTypeOK'
  BY <1>3 DEF CustomerInv, CrmTypeOK
<1>5. Rows' = Rows \cup {n}
  BY <1>3 DEF Rows
<1>6. \A e : HasEmail(e)' \subseteq IF e = row.email THEN HasEmail(e) \cup {n} ELSE HasEmail(e)
  BY <1>3, <1>5 DEF HasEmail, Rows
<1>7. RequestOK(c)'
  BY DEF RequestOK
<1>8. ASSUME NEW d \in Calls \ {c} PROVE RequestOK(d)'
  <2>1. RequestOK(d) /\ request'[d] = request[d]
    BY DEF CustomerInv
  <2>2. Changed(d, request[d].was)' = Changed(d, request[d].was)
    BY <2>1 DEF Changed
  <2> DEFINE writes == \/ request[d].pc = "insert"
                       \/ request[d].pc = "apply" /\ "email" \in Changed(d, request[d].was)
             e == RequestOf[request[d].id].email
  <2>3. ASSUME writes, d \notin raced'
        PROVE  HasEmail(e)' \subseteq HasEmail(e)
    <3>1. CASE n \in Rows /\ row.email = customer[n].email
      BY <1>6, <3>1, <2>1 DEF HasEmail
    <3>2. CASE Checked(c, row.email) \subseteq raced'
      <4>1. d \notin Checked(c, row.email)
        BY <2>3, <3>2
      <4>2. e # row.email
        BY <2>3, <4>1 DEF Checked
      <4> QED BY <1>6, <2>1, <4>2
    <3> QED BY <3>1, <3>2
  <2> HIDE DEF e, writes
  <2>4. /\ request[d].pc = "insert" /\ d \notin raced' => HasEmail(e)' = {}
        /\ request[d].pc = "apply" /\ d \notin raced' /\ "email" \in Changed(d, request[d].was) =>
              HasEmail(e)' \subseteq {request[d].ref}
    BY <2>1, <2>3 DEF RequestOK, e, writes
  <2> QED BY <1>5, <2>1, <2>2, <2>4 DEF RequestOK, MaySetTier, e
<1>9. EmailsUniqueUnlessRaced'
  <2> SUFFICES ASSUME NEW m \in Rows', NEW k \in Rows', m # k, customer'[m].email = customer'[k].email
               PROVE  customer'[m].emailBy \in raced' \/ customer'[k].emailBy \in raced'
    BY DEF EmailsUniqueUnlessRaced
  <2>1. m \in Numbers /\ k \in Numbers
    BY DEF Rows
  <2>2. CASE /\ n \in Rows
             /\ row.email = customer[n].email /\ row.emailBy = customer[n].emailBy
    <3>1. /\ m \in Rows /\ k \in Rows
          /\ customer'[m].email = customer[m].email /\ customer'[m].emailBy = customer[m].emailBy
          /\ customer'[k].email = customer[k].email /\ customer'[k].emailBy = customer[k].emailBy
      BY <1>3, <1>5, <2>1, <2>2
    <3> QED BY <3>1 DEF CustomerInv, EmailsUniqueUnlessRaced
  <2>3. CASE row.emailBy = c /\ (c \notin raced => HasEmail(row.email) \subseteq {n})
    <3>1. CASE m # n /\ k # n
      BY <1>3, <1>5, <2>1, <3>1 DEF CustomerInv, EmailsUniqueUnlessRaced
    <3>2. ASSUME NEW other \in Rows', other # n, customer'[other].email = row.email PROVE c \in raced
      <4>1. other \in HasEmail(row.email)
        BY <1>3, <1>5, <3>2 DEF HasEmail, Rows
      <4> QED BY <2>3, <3>2, <4>1
    <3>3. CASE m = n \/ k = n
      BY <1>3, <2>3, <3>2, <3>3
    <3> QED BY <3>1, <3>3
  <2> QED BY <2>2, <2>3
<1> QED BY <1>1, <1>2, <1>4, <1>7, <1>8, <1>9 DEF CustomerInv

(* The next number is free. *)
LEMMA NextNumber ==
    ASSUME CustomerInv, NEW n \in Numbers, n = 1 + Cardinality(Rows)
    PROVE  \A m \in Numbers : customer[m] # NoRow <=> m < n
<1>1. PICK k \in Nat : \A m \in Numbers : customer[m] # NoRow <=> m <= k
  BY DEF CustomerInv, Filled
<1>2. MaxCustomers \in Nat /\ n \in 1..MaxCustomers
  BY CustomersAssumption DEF Numbers
<1>3. PICK l \in Nat : l = IF k <= MaxCustomers THEN k ELSE MaxCustomers
  BY <1>1, <1>2
<1>4. Rows = 1..l
  <2>1. \A m : m \in 1..l <=> m \in Numbers /\ m <= k
    BY <1>1, <1>2, <1>3 DEF Numbers
  <2> QED BY <1>1, <2>1 DEF Rows
<1>5. Cardinality(1..l) = l
  BY FS_Interval
<1>6. n = 1 + l
  BY <1>4, <1>5
<1> QED BY <1>1, <1>2, <1>3, <1>6 DEF Numbers

LEMMA InsertCustomerKeeps ==
    ASSUME CustomerInv, NEW c \in Calls, InsertCustomer(c), UNCHANGED <<idemVars, ask, faults>>
    PROVE  CustomerInv'
<1>1. PICK n \in Numbers : n = 1 + Cardinality(Rows)
  BY DEF InsertCustomer
<1>2. request[c].pc = "insert" /\ request[c].id \in Ids
  BY DEF InsertCustomer, CustomerInv, RequestOK
<1>3. PICK q \in Request : q = RequestOf[request[c].id]
  BY <1>2, CustomersAssumption
<1>4. PICK row \in Row : row = [name |-> q.name, email |-> q.email, tier |-> q.tier, emailBy |-> c]
  BY DEF Request, Row
<1>5. row.email = q.email /\ row.emailBy = c
  BY <1>4
<1>6. /\ customer' = [customer EXCEPT ![n] = row]
      /\ raced' = raced \cup Checked(c, row.email)
      /\ request' = [request EXCEPT ![c].pc = "done", ![c].ref = n]
  BY <1>1, <1>3, <1>4, <1>5 DEF InsertCustomer
<1>7. /\ request' \in [Calls -> HttpRequest]
      /\ request'[c].pc = "done" /\ request'[c].id = request[c].id /\ request'[c].ref = n
      /\ \A d \in Calls \ {c} : request'[d] = request[d]
  <2>1. [request[c] EXCEPT !.pc = "done", !.ref = n] \in HttpRequest
    BY DEF CustomerInv, CrmTypeOK, HttpRequest
  <2> QED BY <1>6, <2>1 DEF CustomerInv, CrmTypeOK, HttpRequest
<1>8. raced \subseteq raced' /\ raced' \subseteq Calls
  BY <1>6 DEF CustomerInv, CrmTypeOK, Checked
<1>9. c \notin raced => HasEmail(row.email) \subseteq {n}
  BY <1>2, <1>3, <1>5 DEF CustomerInv, RequestOK
<1>10. Filled'
  <2>1. n \in Nat /\ \A m \in Numbers : m \in Int /\ (m <= n <=> m < n \/ m = n)
    BY CustomersAssumption DEF Numbers
  <2>2. \A m \in Numbers : customer'[m] # NoRow <=> m < n \/ m = n
    <3>1. \A m \in Numbers : customer[m] # NoRow <=> m < n
      BY <1>1, NextNumber
    <3>2. row # NoRow
      BY RowsAreRows
    <3> QED BY <1>6, <3>1, <3>2 DEF CustomerInv, CrmTypeOK
  <2>3. \A m \in Numbers : customer'[m] # NoRow <=> m <= n
    BY <2>1, <2>2
  <2> QED BY <2>1, <2>3 DEF Filled
<1> QED BY <1>2, <1>5, <1>6, <1>7, <1>8, <1>9, <1>10, WriteKeeps

(* What the update of a row leaves of it. *)
LEMMA AppliedChanges ==
    ASSUME CustomerInv, NEW c \in Calls, ApplyChanges(c)
    PROVE  \E n \in Rows, row \in Row :
              /\ n = request[c].ref /\ customer' = [customer EXCEPT ![n] = row]
              /\ row.tier # customer[n].tier => request[c].id \in Leads
              /\ \/ /\ "email" \notin Changed(c, request[c].was) /\ raced' = raced
                    /\ row.email = customer[n].email /\ row.emailBy = customer[n].emailBy
                 \/ /\ "email" \in Changed(c, request[c].was)
                    /\ row.email = RequestOf[request[c].id].email /\ row.emailBy = c
                    /\ raced' = raced \cup Checked(c, row.email)
<1>1. PICK n \in Rows : n = request[c].ref /\ n \in Numbers /\ customer[n] \in Row
  BY DEF ApplyChanges, CustomerInv, RequestOK, Rows, CrmTypeOK
<1>2. /\ request[c].id \in Ids /\ MaySetTier(request[c].id)
      /\ RequestOf[request[c].id] \in Request
  BY CustomersAssumption DEF ApplyChanges, CustomerInv, RequestOK
<1>3. PICK q \in Request : q = RequestOf[request[c].id]
  BY <1>2
<1>4. PICK changed : changed = Changed(c, request[c].was) /\ changed \subseteq q.sets
  BY <1>3 DEF Changed
<1> DEFINE To(f) == IF f \in changed THEN q[f] ELSE customer[n][f]
           new == [name |-> To("name"), email |-> To("email"), tier |-> To("tier"),
                   emailBy |-> IF "email" \in changed THEN c ELSE customer[n].emailBy]
<1>5. customer' = [customer EXCEPT ![n] = new]
  BY <1>1, <1>3, <1>4 DEF ApplyChanges
<1>6. raced' = IF "email" \in changed THEN raced \cup Checked(c, q.email) ELSE raced
  BY <1>3, <1>4 DEF ApplyChanges
<1>7. /\ q["name"] = q.name /\ q["email"] = q.email /\ q["tier"] = q.tier
      /\ q.name \in Names /\ q.email \in Emails /\ q.tier \in Tiers
  BY DEF Request
<1>8. /\ customer[n]["name"] = customer[n].name /\ customer[n]["email"] = customer[n].email
      /\ customer[n]["tier"] = customer[n].tier
      /\ customer[n].name \in Names /\ customer[n].email \in Emails /\ customer[n].tier \in Tiers
      /\ customer[n].emailBy \in Calls \cup {None}
  BY <1>1, RowsAreRows DEF Row
<1>9. /\ To("name") \in Names /\ To("email") \in Emails /\ To("tier") \in Tiers
      /\ "email" \in changed => To("email") = q.email
      /\ "email" \notin changed => To("email") = customer[n].email
      /\ "tier" \notin changed => To("tier") = customer[n].tier
  BY <1>7, <1>8
<1> HIDE DEF To
<1>10. new \in Row
  BY <1>8, <1>9 DEF Row
<1>11. /\ new.email = To("email") /\ new.tier = To("tier")
       /\ new.emailBy = IF "email" \in changed THEN c ELSE customer[n].emailBy
  OBVIOUS
<1> HIDE DEF new
<1>12. new.tier # customer[n].tier => request[c].id \in Leads
  BY <1>2, <1>3, <1>4, <1>9, <1>11 DEF MaySetTier
<1> QED BY <1>1, <1>3, <1>4, <1>5, <1>6, <1>9, <1>10, <1>11, <1>12

LEMMA ApplyChangesKeeps ==
    ASSUME CustomerInv, NEW c \in Calls, ApplyChanges(c), UNCHANGED <<idemVars, ask, faults>>
    PROVE  CustomerInv'
<1>1. PICK n \in Rows, row \in Row :
         /\ n = request[c].ref /\ customer' = [customer EXCEPT ![n] = row]
         /\ \/ /\ raced' = raced
               /\ row.email = customer[n].email /\ row.emailBy = customer[n].emailBy
            \/ /\ "email" \in Changed(c, request[c].was)
               /\ row.email = RequestOf[request[c].id].email /\ row.emailBy = c
               /\ raced' = raced \cup Checked(c, row.email)
  BY AppliedChanges
<1>2. request[c].pc = "apply" /\ RequestOK(c) /\ n \in Numbers
  BY <1>1 DEF ApplyChanges, CustomerInv, Rows
<1>3. /\ request' \in [Calls -> HttpRequest]
      /\ request'[c].pc = "done" /\ request'[c].id = request[c].id /\ request'[c].ref = n
      /\ \A d \in Calls \ {c} : request'[d] = request[d]
  <2>1. [request[c] EXCEPT !.pc = "done"] \in HttpRequest
    BY DEF CustomerInv, CrmTypeOK, HttpRequest
  <2> QED BY <1>1, <2>1 DEF ApplyChanges, Reached, CustomerInv, CrmTypeOK, HttpRequest
<1>4. raced \subseteq raced' /\ raced' \subseteq Calls
  BY <1>1 DEF CustomerInv, CrmTypeOK, Checked
<1>5. Filled'
  <2>1. \A m \in Numbers : customer'[m] # NoRow <=> customer[m] # NoRow
    BY <1>1, RowsAreRows DEF CustomerInv, CrmTypeOK, Rows
  <2> QED BY <2>1 DEF CustomerInv, Filled
<1>6. "email" \in Changed(c, request[c].was) /\ c \notin raced =>
         HasEmail(RequestOf[request[c].id].email) \subseteq {n}
  BY <1>1, <1>2 DEF RequestOK
<1>7. request[c].id \in Ids
  BY <1>2 DEF RequestOK
<1> QED BY <1>1, <1>2, <1>3, <1>4, <1>5, <1>6, <1>7, WriteKeeps

-----------------------------------------------------------------------------
LEMMA CustomerNextInv == CustomerInv /\ [CustomerNext]_customerVars => CustomerInv'
<1> SUFFICES ASSUME CustomerInv, [CustomerNext]_customerVars PROVE CustomerInv'
  OBVIOUS
<1>1. faults \in 0..MaxFaults /\ MaxFaults \in Nat
  BY CustomersAssumption DEF CustomerInv, CrmTypeOK
<1>2. ASSUME NEW c \in Calls, NEW i \in Ids, NEW unsure \in BOOLEAN, Ask(c, i, unsure), UNCHANGED faults
      PROVE  CustomerInv'
  BY <1>2, AskKeeps
<1>3. ASSUME NEW c \in Calls, CallStep(c), UNCHANGED faults PROVE CustomerInv'
  BY <1>3, ServiceKeeps, SendRequestKeeps, RequestAnsweredKeeps DEF CallStep
<1>4. ASSUME NEW c \in Calls, Idem!IdemStep(c), UNCHANGED <<crmVars, request, ask, faults>>
      PROVE  CustomerInv'
  BY <1>1, <1>4, WrapperKeeps
<1>5. ASSUME NEW c \in Calls, CrmStep(c), UNCHANGED faults PROVE CustomerInv'
  BY <1>5, CheckEmailKeeps, InsertCustomerKeeps, ReadCustomerKeeps, CheckNewEmailKeeps,
     ApplyChangesKeeps DEF CrmStep
<1>6. CASE (IdemFault \/ \E c \in Calls : CallFails(c) \/ RequestFails(c)) /\ faults < MaxFaults /\ faults' = faults + 1
  <2>1. faults' \in 0..MaxFaults
    BY <1>1, <1>6
  <2>2. CASE IdemFault
    BY <2>1, <2>2, WrapperKeeps DEF IdemFault
  <2>3. ASSUME NEW c \in Calls, CallFails(c) PROVE CustomerInv'
    BY <2>1, <2>3, WrapperKeeps DEF CallFails
  <2> QED BY <1>6, <2>1, <2>2, <2>3, RequestFailsKeeps
<1>7. CASE UNCHANGED customerVars
  BY <1>1, <1>7, WrapperKeeps DEF customerVars
<1> QED BY <1>2, <1>3, <1>4, <1>5, <1>6, <1>7 DEF CustomerNext

(* For any number of calls, requests and addresses: the address a request at the CRM is
   about to write is nobody else's unless the call is raced, and repetitions find their
   result while it lives. *)
THEOREM CustomerInvariant == CustomerSpec => []CustomerInv
BY CustomerInitInv, CustomerNextInv, PTL DEF CustomerSpec

(* However many creates and changes of address run beside each other, two customers share
   an address only if one of the two writes was raced. *)
THEOREM EmailsStayUnique == CustomerSpec => []EmailsUniqueUnlessRaced
<1>1. CustomerInv => EmailsUniqueUnlessRaced
  BY DEF CustomerInv
<1> QED BY <1>1, CustomerInvariant, PTL

(* No repetition of an answered create is turned away as a duplicate while the result is
   remembered. *)
THEOREM RepeatsAreReplayed == CustomerSpec => []RepeatIsNoDuplicate
<1>1. CustomerInv => RepeatIsNoDuplicate
  BY DEF CustomerInv, AskOK, RepeatIsNoDuplicate
<1> QED BY <1>1, CustomerInvariant, PTL

(* No interleaving of patches changes a customer's tier but a lead's. *)
THEOREM TiersByLeads == CustomerSpec => TierByLeadsOnly
<1>1. CustomerInv /\ [CustomerNext]_customerVars =>
         [\A n \in Rows :
             customer'[n].tier # customer[n].tier =>
                \E c \in Calls : /\ request[c].pc = "apply" /\ request'[c].pc = "done"
                                 /\ request[c].id \in Leads]_customerVars
  <2> SUFFICES ASSUME CustomerInv, CustomerNext, NEW n \in Rows, customer'[n].tier # customer[n].tier
               PROVE  \E c \in Calls : /\ request[c].pc = "apply" /\ request'[c].pc = "done"
                                       /\ request[c].id \in Leads
    OBVIOUS
  <2>1. PICK c \in Calls : InsertCustomer(c) \/ ApplyChanges(c)
    BY DEF CustomerNext, Ask, CallStep, Peek, Search, CheckFields, SendRequest, RequestAnswered,
           CrmStep, CheckEmail, ReadCustomer, CheckNewEmail, IdemFault, CallFails, RequestFails, crmVars
  <2>2. CASE InsertCustomer(c)
    <3>1. PICK m \in Numbers : m = 1 + Cardinality(Rows) /\ \A k \in Numbers : k # m => customer'[k] = customer[k]
      BY <2>2 DEF InsertCustomer, CustomerInv, CrmTypeOK
    <3>2. n # m
      BY <3>1, NextNumber, CustomersAssumption DEF Rows, Numbers
    <3> QED BY <3>1, <3>2 DEF Rows
  <2>3. CASE ApplyChanges(c)
    <3>1. PICK m \in Rows, row \in Row :
             /\ customer' = [customer EXCEPT ![m] = row]
             /\ row.tier # customer[m].tier => request[c].id \in Leads
      BY <2>3, AppliedChanges
    <3>2. n = m /\ customer'[n] = row
      BY <3>1 DEF CustomerInv, CrmTypeOK, Rows
    <3>3. request[c].pc = "apply" /\ request'[c].pc = "done"
      BY <2>3 DEF ApplyChanges, Reached, CustomerInv, CrmTypeOK, HttpRequest
    <3> QED BY <3>1, <3>2, <3>3
  <2> QED BY <2>1, <2>2, <2>3
<1> QED BY <1>1, CustomerInvariant, PTL DEF CustomerSpec, TierByLeadsOnly

-----------------------------------------------------------------------------
(* Refinement.  What a call does before it enters the wrapper, and at the CRM, is no step
   of the wrapper; the rest is. *)
LEMMA WrapperSteps ==
    ASSUME CustomerInv, [CustomerNext]_customerVars
    PROVE  [IP!IdemNext]_(IP!idemVars)
<1>1. ASSUME UNCHANGED idemVars PROVE UNCHANGED IP!idemVars
  BY <1>1 DEF idemVars, IP!idemVars
<1>2. ASSUME NEW c \in Calls, NEW i \in Ids, NEW unsure \in BOOLEAN, Ask(c, i, unsure)
      PROVE  UNCHANGED IP!idemVars
  BY <1>1, <1>2 DEF Ask
<1>3. ASSUME NEW c \in Calls, GoOn(c), ask[c].pc # "idle" PROVE IP!IdemNext
  <2>1. ask[c].id \in Ids
    BY <1>3 DEF CustomerInv, AskOK
  <2> QED BY <1>3, <2>1, SameSteps DEF GoOn, IP!IdemNext
<1>4. ASSUME NEW c \in Calls, CallStep(c) PROVE IP!IdemNext \/ UNCHANGED IP!idemVars
  <2>1. CASE Peek(c) \/ Search(c) \/ CheckFields(c)
    BY <1>1, <1>3, <2>1 DEF Peek, Search, CheckFields, TurnAway
  <2>2. CASE SendRequest(c)
    BY <1>1, <2>2 DEF SendRequest
  <2>3. CASE RequestAnswered(c)
    <3>1. request[c].pc = "done" => [by |-> c, ref |-> request[c].ref] \in Result
      BY DEF CustomerInv, RequestOK, Result
    <3> QED BY <2>3, <3>1, SameSteps DEF RequestAnswered, IP!IdemNext
  <2> QED BY <1>4, <2>1, <2>2, <2>3 DEF CallStep
<1>5. ASSUME NEW c \in Calls, Idem!IdemStep(c) PROVE IP!IdemNext
  BY <1>5, SameSteps DEF IP!IdemNext
<1>6. ASSUME NEW c \in Calls, CrmStep(c) PROVE UNCHANGED IP!idemVars
  BY <1>1, <1>6 DEF CrmStep
<1>7. ASSUME IdemFault PROVE IP!IdemNext
  BY <1>7, SameSteps, SameExpiry DEF IdemFault, IP!IdemNext
<1>8. ASSUME NEW c \in Calls, CallFails(c) \/ RequestFails(c)
      PROVE  IP!IdemNext \/ UNCHANGED IP!idemVars
  BY <1>1, <1>8, SameSteps DEF CallFails, RequestFails, IP!IdemNext
<1>9. ASSUME UNCHANGED customerVars PROVE UNCHANGED IP!idemVars
  BY <1>1, <1>9 DEF customerVars
<1> QED BY <1>2, <1>4, <1>5, <1>6, <1>7, <1>8, <1>9 DEF CustomerNext

(* Calls that were turned away, searched or replayed beside each other: what is inside
   withIdempotency is a behaviour of the wrapper of Idempotency.tla. *)
THEOREM CustomersImplementWrapper == CustomerSpec => IP!IdemSpec
<1>1. CustomerInit => IP!IdemInit
  BY DEF CustomerInit, Idem!IdemInit, IP!IdemInit, Idem!NoCall, IP!NoCall
<1>2. CustomerInv /\ [CustomerNext]_customerVars => [IP!IdemNext]_(IP!idemVars)
  BY WrapperSteps
<1> QED BY <1>1, <1>2, CustomerInvariant, PTL DEF CustomerSpec, IP!IdemSpec

(* Two calls of the same create or update run at the same time only when one of them
   outlived its lock, and all that are told of success are told of one customer. *)
THEOREM CustomersRunAlone == CustomerSpec => [](Idem!RunsAlone /\ Idem!OneResult)
<1>1. IP!RunsAlone <=> Idem!RunsAlone
  BY DEF IP!RunsAlone, Idem!RunsAlone
<1>2. IP!OneResult <=> Idem!OneResult
  BY DEF IP!OneResult, Idem!OneResult, IP!Success, Idem!Success
<1>3. IP!IdemSpec => []IP!RunsAlone
  BY ResultsAreNotNone, IP!AlwaysRunsAlone
<1>4. IP!IdemSpec => []IP!OneResult
  BY ResultsAreNotNone, IP!AlwaysOneResult
<1> QED BY <1>1, <1>2, <1>3, <1>4, CustomersImplementWrapper, PTL

-----------------------------------------------------------------------------
(* The account overview. *)

(* A read counts the attempts that its system left unanswered, and an overview that is
   shown is made of reads that will not change. *)
OverviewInv ==
    /\ OverviewTypeOK
    /\ \A r \in Reads :
          /\ settled[r] \in {"idle", "first"} => struck[r] = 0
          /\ settled[r] = "second" => struck[r] = 1
          /\ settled[r] = "outage" => struck[r] = 2
    /\ overview.pc = "shown" =>
          /\ \A r \in Reads : settled[r] \in {"ok", "outage"}
          /\ overview.present = Present /\ overview.unavailable = Unavailable

LEMMA OverviewInitInv == OverviewInit => OverviewInv
BY OverviewAssumption DEF OverviewInit, OverviewInv, OverviewTypeOK

LEMMA OverviewStepInv == OverviewInv /\ [OverviewNext]_overviewVars => OverviewInv'
<1> SUFFICES ASSUME OverviewInv, [OverviewNext]_overviewVars PROVE OverviewInv'
  OBVIOUS
<1> USE OverviewAssumption DEF OverviewInv, OverviewTypeOK
<1>1. CASE SendAll
  <2>1. Reads # {}
    BY DEF Reads
  <2>2. overview.pc # "shown"
    BY <1>1, <2>1 DEF SendAll
  <2> QED BY <1>1, <2>2 DEF SendAll
<1>2. ASSUME NEW r \in Reads, SystemAnswers(r) PROVE OverviewInv'
  BY <1>2 DEF SystemAnswers, Settle
<1>3. ASSUME NEW r \in Reads, SystemSilent(r) PROVE OverviewInv'
  <2>1. overview.pc # "shown"
    BY <1>3 DEF SystemSilent
  <2>2. settled' \in [Reads -> {"idle", "first", "second", "ok", "outage", "error"}]
    BY <1>3 DEF SystemSilent, Settle
  <2>3. struck[r] \in 0..1
    BY <1>3 DEF SystemSilent
  <2>4. struck' \in [Reads -> 0..2]
    <3>1. struck[r] + 1 \in 0..2
      BY <2>3
    <3> QED BY <1>3, <3>1 DEF SystemSilent
  <2>5. \A i \in Reads : /\ settled'[i] \in {"idle", "first"} => struck'[i] = 0
                         /\ settled'[i] = "second" => struck'[i] = 1
                         /\ settled'[i] = "outage" => struck'[i] = 2
    BY <1>3 DEF SystemSilent, Settle
  <2> QED BY <1>3, <2>1, <2>2, <2>4, <2>5 DEF SystemSilent
<1>4. CASE Compose
  <2>1. Present \subseteq Sections /\ Unavailable \subseteq Sections
    BY DEF Present, Unavailable
  <2>2. Present' = Present /\ Unavailable' = Unavailable
    BY <1>4 DEF Compose, Present, Unavailable
  <2>3. overview'.pc = "shown" =>
           /\ \A r \in Reads : settled[r] \in {"ok", "outage"}
           /\ overview'.present = Present /\ overview'.unavailable = Unavailable
    BY <1>4 DEF Compose
  <2>4. overview' \in [pc : {"reading", "shown", "thrown"}, present : SUBSET Sections,
                       unavailable : SUBSET Sections]
    BY <1>4, <2>1 DEF Compose
  <2> QED BY <1>4, <2>2, <2>3, <2>4 DEF Compose
<1>5. ASSUME NEW s \in Systems, Turn(s) PROVE OverviewInv'
  BY <1>5 DEF Turn
<1>6. CASE UNCHANGED overviewVars
  BY <1>6 DEF overviewVars, Present, Unavailable
<1> QED BY <1>1, <1>2, <1>3, <1>4, <1>5, <1>6 DEF OverviewNext

LEMMA OverviewInvHonest == OverviewInv => OverviewHonest
<1> SUFFICES ASSUME OverviewInv, overview.pc = "shown"
             PROVE  /\ overview.unavailable = Sections \ overview.present
                    /\ \A s \in overview.unavailable : \E r \in ReadsOf(s) : struck[r] = 2
  BY DEF OverviewHonest
<1>1. \A s \in Sections : ReadsOf(s) \subseteq Reads
  BY DEF Sections, Reads, ReadsOf
<1>2. \A r \in Reads : settled[r] = "ok" \/ settled[r] = "outage"
  BY DEF OverviewInv
<1>3. overview.present = Present /\ overview.unavailable = Unavailable
  BY DEF OverviewInv
<1>4. Unavailable = Sections \ Present
  BY <1>1, <1>2 DEF Unavailable, Present
<1>5. \A r \in Reads : settled[r] = "outage" => struck[r] = 2
  BY DEF OverviewInv
<1>6. \A s \in Unavailable : \E r \in ReadsOf(s) : struck[r] = 2
  BY <1>1, <1>5 DEF Unavailable
<1> QED BY <1>3, <1>4, <1>6

(* getAccount shows exactly the sections that it does not list as unavailable, and each
   of those stands for a read that its system left unanswered twice
   (customer-service.ts:268-375). *)
THEOREM OverviewIsHonest == OverviewSpec => []OverviewHonest
<1>1. OverviewInit => OverviewInv
  BY OverviewInitInv
<1>2. OverviewInv /\ [OverviewNext]_overviewVars => OverviewInv'
  BY OverviewStepInv
<1>3. OverviewInv => OverviewHonest
  BY OverviewInvHonest
<1> QED BY <1>1, <1>2, <1>3, PTL DEF OverviewSpec

=============================================================================
