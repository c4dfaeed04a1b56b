-------------------------- MODULE SubscriptionsProofs --------------------------
(***************************************************************************)
(* Proofs about Subscriptions.tla for every number of requests, customers, *)
(* keys and years, and about InvoicePaging.tla for every list of invoices, *)
(* batch size and page size.                                               *)
(*                                                                         *)
(* Of the subscriptions, the inductive invariant says what each lock keeps *)
(* still: the customer's row lock, its status and its live subscriptions;  *)
(* the unique key, the rows under it; the advisory lock, the numbers.  Of  *)
(* the pages: what has been read of the list, down to the offset, is on    *)
(* them, each matching invoice at its place among those that match.  That  *)
(* rests on lemmas about the place of a number in a finite set.            *)
(***************************************************************************)
EXTENDS Subscriptions, InvoicePaging, FiniteSetTheorems, SequenceTheorems, TLAPS

(* Past the check of live subscriptions. *)
Checked == {"insert", "number", "commit"}

(* A transaction holds its customer's row, whose status it has seen. *)
RowHeld ==
    \A c \in Calls : post[c].pc \in InTransaction =>
       custLock[post[c].customer] = c /\ custStatus[post[c].customer] = "active"

(* Behind the row lock, what the check of live subscriptions saw is still so. *)
NothingLive ==
    \A c \in Calls : post[c].pc \in Checked => LiveOf(post[c].customer) = {}

(* A transaction that has inserted its key is the only one, and no row has it. *)
KeyIsOwn ==
    \A c \in Calls : post[c].pc \in Inserted =>
       /\ Under(post[c].key) = {}
       /\ \A d \in Calls : post[d].pc \in Inserted /\ post[d].key = post[c].key => d = c

(* A key that is not the seed's None belongs to one row. *)
KeyOfOneRow ==
    \A s, t \in subs : s.key = t.key /\ s.key \in Keys => s = t

(* A request without an end has no answer. *)
NoAnswerYet == \A c \in Calls : post[c].pc # "done" => post[c].answer = "none"

(* The number taken under the advisory lock is the next one still. *)
NumberHeld ==
    \A c \in Calls : post[c].pc = "commit" =>
       /\ numberLock = c
       /\ \E m \in Seqs(post[c].year, invoices) :
             IsHighest(m, post[c].year, invoices) /\ post[c].seq = 1 + m

(* Every year has a highest number, from which the next one is taken. *)
HasHighest ==
    \A y \in 0..LastYear : \E m \in Seqs(y, invoices) : IsHighest(m, y, invoices)

SubInv ==
    /\ SubTypeOK
    /\ RowHeld /\ NothingLive /\ KeyIsOwn /\ KeyOfOneRow
    /\ NoAnswerYet /\ NumberHeld /\ HasHighest
    /\ OneLiveSubscription /\ InvoicesNumbered /\ KeyNamesOneRequest

LEMMA SubInitInv == SubInit => SubInv
<1> SUFFICES ASSUME SubInit PROVE SubInv
  OBVIOUS
<1> USE SubscriptionsAssumption DEF SubInit
<1>1. SubTypeOK
  BY DEF SubTypeOK, NoPost, Post, Subscription, Statuses
<1>2. /\ RowHeld /\ NothingLive /\ KeyIsOwn /\ NoAnswerYet
      /\ NumberHeld /\ KeyNamesOneRequest
  BY DEF RowHeld, NothingLive, KeyIsOwn, NoAnswerYet, NumberHeld, KeyNamesOneRequest, NoPost, InTransaction,
     Checked, Inserted
<1>3. KeyOfOneRow /\ OneLiveSubscription
  BY DEF KeyOfOneRow, OneLiveSubscription
<1>4. HasHighest /\ InvoicesNumbered
  BY DEF HasHighest, InvoicesNumbered
<1> QED BY <1>1, <1>2, <1>3, <1>4 DEF SubInv

-----------------------------------------------------------------------------
(* Numbers *)

(* The next number continues its year, and is the new highest; other years stay. *)
LEMMA NextIsHighest ==
    ASSUME SubTypeOK, HasHighest, InvoicesNumbered,
           NEW i \in Invoice, NEW m \in Seqs(i.year, invoices),
           IsHighest(m, i.year, invoices), i.seq = 1 + m,
           invoices' = invoices \cup {i}
    PROVE  HasHighest' /\ InvoicesNumbered'
<1> USE SubscriptionsAssumption
<1>1. /\ \A j \in invoices : j.year \in 0..LastYear /\ j.seq \in Nat \ {0}
      /\ i.year \in 0..LastYear /\ i.seq \in Nat \ {0} /\ m \in Nat
  BY DEF SubTypeOK, Invoice, Seqs
<1>2. \A j \in invoices : j.year = i.year => j.seq <= m
  BY DEF Seqs, IsHighest
<1>3. HasHighest'
  <2> SUFFICES ASSUME NEW y \in 0..LastYear
               PROVE  \E n \in Seqs(y, invoices') : IsHighest(n, y, invoices')
    BY DEF HasHighest
  <2>1. CASE y = i.year
    <3>1. i.seq \in Seqs(y, invoices')
      BY <2>1 DEF Seqs
    <3>2. IsHighest(i.seq, y, invoices')
      BY <1>1, <1>2, <2>1 DEF Seqs, IsHighest
    <3> QED BY <3>1, <3>2
  <2>2. CASE y # i.year
    <3>1. Seqs(y, invoices') = Seqs(y, invoices)
      BY <2>2 DEF Seqs
    <3> QED BY <3>1 DEF HasHighest, IsHighest
  <2> QED BY <2>1, <2>2
<1>4. Numbered(invoices')
  <2>1. \A k \in 1..i.seq : \E j \in invoices' : j.year = i.year /\ j.seq = k
    <3> SUFFICES ASSUME NEW k \in 1..i.seq, k # i.seq
                 PROVE  \E j \in invoices' : j.year = i.year /\ j.seq = k
      OBVIOUS
    <3>1. k \in 1..m /\ m # 0
      BY <1>1
    <3>2. PICK j \in invoices : j.year = i.year /\ j.seq = m
      BY <3>1 DEF Seqs
    <3> QED BY <3>1, <3>2 DEF InvoicesNumbered, Numbered
  <2>2. \A j \in invoices : ~ (j.year = i.year /\ j.seq = i.seq)
    BY <1>1, <1>2
  <2> QED BY <2>1, <2>2 DEF InvoicesNumbered, Numbered
<1> QED BY <1>3, <1>4 DEF InvoicesNumbered

(* NextSeq follows the highest number there is. *)
LEMMA NextFollows ==
    ASSUME HasHighest, NEW y \in 0..LastYear
    PROVE  \E m \in Seqs(y, invoices) : IsHighest(m, y, invoices) /\ NextSeq(y) = 1 + m
BY DEF HasHighest, NextSeq

-----------------------------------------------------------------------------
(* Steps that leave the rows alone *)

Rows == <<subs, invoices>>

(* Nothing that the properties say of rows can be disturbed by a step that adds none. *)
LEMMA RowsStay ==
    ASSUME SubInv, UNCHANGED Rows
    PROVE  KeyOfOneRow' /\ HasHighest' /\ OneLiveSubscription' /\ InvoicesNumbered'
BY DEF Rows, SubInv, KeyOfOneRow, HasHighest, OneLiveSubscription, InvoicesNumbered, Numbered,
   Seqs, IsHighest

(* A request that ends gives up its locks; the others keep what they have. *)
LEMMA Ends ==
    ASSUME SubInv, UNCHANGED <<Rows, custStatus, year>>, faults' \in 0..MaxFaults,
           NEW c \in Calls, post[c].pc # "idle",
           NEW r \in Post, post' = [post EXCEPT ![c] = r],
           r.pc \in {"raced", "done"}, r.pc = "raced" => r.answer = "none",
           r.customer = post[c].customer, r.plan = post[c].plan, r.key = post[c].key,
           r.answer # "created",
           r.answer = "replayed" =>
              \E s \in Under(r.key) : s.customer = r.customer /\ s.plan = r.plan /\ s.by = r.ref,
           custLock' = custLock \/ FreeCustomer(c),
           \/ FreeNumber(c)
           \/ UNCHANGED numberLock /\ post[c].pc # "commit"
    PROVE  SubInv'
<1> USE SubscriptionsAssumption DEF SubInv, Rows
<1>1. post'[c] = r /\ (\A d \in Calls : d # c => post'[d] = post[d]) /\ post' \in [Calls -> Post]
  BY DEF SubTypeOK
<1>2. r.pc \notin InTransaction /\ r.pc \notin Checked /\ r.pc \notin Inserted /\ r.pc # "commit"
  BY DEF InTransaction, Checked, Inserted
<1>3. SubTypeOK'
  <2>1. custLock' \in [Customers -> Calls \cup {None}] /\ numberLock' \in Calls \cup {None}
    BY DEF SubTypeOK, FreeCustomer, FreeNumber
  <2> QED BY <1>1, <2>1 DEF SubTypeOK
<1>4. \A u \in Customers : custLock[u] \in Calls /\ custLock[u] # c => custLock'[u] = custLock[u]
  BY DEF SubTypeOK, FreeCustomer
<1>5. numberLock \in Calls /\ numberLock # c => numberLock' = numberLock
  BY DEF FreeNumber
<1>6. RowHeld'
  BY <1>1, <1>2, <1>4 DEF RowHeld, SubTypeOK, InTransaction
<1>7. NothingLive'
  BY <1>1, <1>2 DEF NothingLive, LiveOf
<1>8. KeyIsOwn'
  BY <1>1, <1>2 DEF KeyIsOwn, Under
<1>9. NumberHeld'
  BY <1>1, <1>2, <1>5 DEF NumberHeld, Seqs, IsHighest
<1>10. KeyNamesOneRequest'
  <2>1. r.key \in Keys
    BY DEF SubTypeOK
  <2>2. r.answer = "replayed" =>
           /\ \A s \in Under(r.key) : s.by = r.ref /\ s.customer = r.customer /\ s.plan = r.plan
           /\ Under(r.key) # {}
    BY <2>1 DEF KeyOfOneRow, Under
  <2> QED BY <1>1, <2>2 DEF KeyNamesOneRequest, Under
<1>11. NoAnswerYet'
  BY <1>1 DEF NoAnswerYet
<1> QED BY <1>3, <1>6, <1>7, <1>8, <1>9, <1>10, <1>11, RowsStay

(* A request that goes on, or begins, keeps its body and has no answer. *)
LEMMA GoesOn ==
    ASSUME SubInv, UNCHANGED <<Rows, custStatus, year, faults>>,
           NEW c \in Calls, NEW r \in Post,
           post' = [post EXCEPT ![c] = r],
           r.customer \in Customers, r.plan \in Plans, r.key \in Keys, r.answer = "none",
           r.pc \notin {"idle", "done", "raced"},
           custLock' \in [Customers -> Calls \cup {None}],
           numberLock' \in Calls \cup {None},
           \A u \in Customers : custLock[u] \in Calls => custLock'[u] = custLock[u],
           numberLock \in Calls => numberLock' = numberLock,
           r.pc \in InTransaction => custLock'[r.customer] = c /\ custStatus[r.customer] = "active",
           r.pc \in Checked => LiveOf(r.customer) = {},
           r.pc \in Inserted =>
              /\ Under(r.key) = {}
              /\ \A d \in Calls : post[d].pc \in Inserted /\ post[d].key = r.key => d = c,
           r.pc = "commit" =>
              /\ numberLock' = c
              /\ \E m \in Seqs(r.year, invoices) : IsHighest(m, r.year, invoices) /\ r.seq = 1 + m
    PROVE  SubInv'
<1> USE SubscriptionsAssumption DEF SubInv, Rows
<1>1. post'[c] = r /\ (\A d \in Calls : d # c => post'[d] = post[d]) /\ post' \in [Calls -> Post]
  BY DEF SubTypeOK
<1>2. SubTypeOK'
  BY <1>1 DEF SubTypeOK
<1>3. RowHeld'
  BY <1>1 DEF RowHeld, SubTypeOK, InTransaction
<1>4. NothingLive'
  BY <1>1 DEF NothingLive, LiveOf
<1>5. KeyIsOwn'
  BY <1>1 DEF KeyIsOwn, Under
<1>6. NoAnswerYet' /\ KeyNamesOneRequest'
  BY <1>1 DEF NoAnswerYet, KeyNamesOneRequest, Under
<1>7. NumberHeld'
  BY <1>1 DEF NumberHeld, Seqs, IsHighest
<1> QED BY <1>2, <1>3, <1>4, <1>5, <1>6, <1>7, RowsStay

-----------------------------------------------------------------------------
(* One lemma for each action *)

LEMMA BeginInv ==
    ASSUME SubInv, NEW c \in Calls, NEW u \in Customers, NEW p \in Plans, NEW m \in Payings,
           NEW k \in Keys, Begin(c, u, p, m, k)
    PROVE  SubInv'
<1> DEFINE r == [post[c] EXCEPT !.pc = "replay", !.customer = u, !.plan = p, !.paying = m,
                                !.key = k]
<1>1. post \in [Calls -> Post] /\ post[c] \in Post /\ post[c].answer = "none"
  BY DEF SubInv, SubTypeOK, NoAnswerYet, Begin
<1>2. /\ r \in Post /\ r.customer \in Customers /\ r.plan \in Plans /\ r.key \in Keys
      /\ r.answer = "none" /\ r.pc = "replay"
  BY <1>1 DEF Post
<1>3. post' = [post EXCEPT ![c] = r]
  BY <1>1 DEF Begin
<1>4. /\ UNCHANGED <<Rows, custStatus, year, faults, custLock, numberLock>>
      /\ custLock \in [Customers -> Calls \cup {None}] /\ numberLock \in Calls \cup {None}
  BY DEF Begin, Rows, SubInv, SubTypeOK
<1> HIDE DEF r
<1> QED BY <1>2, <1>3, <1>4, GoesOn DEF InTransaction, Checked, Inserted

(* What a request that has begun is made of. *)
LEMMA Begun ==
    ASSUME SubInv, NEW c \in Calls, post[c].pc # "idle"
    PROVE  /\ post \in [Calls -> Post] /\ post[c] \in Post
           /\ post[c].customer \in Customers /\ post[c].plan \in Plans /\ post[c].key \in Keys
           /\ post[c].pc # "done" => post[c].answer = "none"
           /\ custLock \in [Customers -> Calls \cup {None}] /\ numberLock \in Calls \cup {None}
           /\ faults \in 0..MaxFaults
BY DEF SubInv, SubTypeOK, NoAnswerYet

(* Goto in the form of GoesOn, Answer in the form of Ends. *)
LEMMA GotoIs ==
    ASSUME NEW c \in Calls, NEW pc, post \in [Calls -> Post], Goto(c, pc)
    PROVE  post' = [post EXCEPT ![c] = [post[c] EXCEPT !.pc = pc]]
BY DEF Goto

LEMMA AnswerIs ==
    ASSUME SubInv, NEW c \in Calls, NEW answer \in {"replayed", "reused", "inactive", "exists", "failed"},
           NEW ref \in Calls \cup {None}, Answer(c, answer, ref), post[c].pc # "idle"
    PROVE  \E r \in Post :
              /\ post' = [post EXCEPT ![c] = r]
              /\ r.pc = "done" /\ r.answer = answer /\ r.ref = ref
              /\ r.customer = post[c].customer /\ r.plan = post[c].plan /\ r.key = post[c].key
<1> DEFINE r == [post[c] EXCEPT !.pc = "done", !.answer = answer, !.ref = ref]
<1>1. post \in [Calls -> Post] /\ post[c] \in Post
  BY Begun
<1>2. r \in Post /\ r.pc = "done" /\ r.answer = answer /\ r.ref = ref
      /\ r.customer = post[c].customer /\ r.plan = post[c].plan /\ r.key = post[c].key
  BY <1>1 DEF Post
<1>3. post' = [post EXCEPT ![c] = r]
  BY <1>1 DEF Answer
<1> QED BY <1>2, <1>3

(* A request that is refused, or fails. *)
LEMMA Refused ==
    ASSUME SubInv, NEW c \in Calls, NEW answer \in {"reused", "inactive", "exists", "failed"},
           Answer(c, answer, None), post[c].pc # "idle",
           UNCHANGED <<Rows, custStatus, year>>, faults' \in 0..MaxFaults,
           custLock' = custLock \/ FreeCustomer(c),
           \/ FreeNumber(c)
           \/ UNCHANGED numberLock /\ post[c].pc # "commit"
    PROVE  SubInv'
<1>1. PICK r \in Post :
              /\ post' = [post EXCEPT ![c] = r]
              /\ r.pc = "done" /\ r.answer = answer /\ r.ref = None
              /\ r.customer = post[c].customer /\ r.plan = post[c].plan /\ r.key = post[c].key
  BY AnswerIs
<1> QED BY <1>1, Ends

(* A replay answers with the row's request, which is a request of this system. *)
LEMMA ReplayInv ==
    ASSUME SubInv, NEW c \in Calls, post[c].pc \in {"replay", "raced"},
           Under(post[c].key) # {}, NEW otherwise, ReplayOr(c, otherwise),
           UNCHANGED <<custStatus, subs, invoices, custLock, numberLock, year, faults>>
    PROVE  SubInv'
<1>1. PICK s \in Under(post[c].key) :
         IF s.customer = post[c].customer /\ s.plan = post[c].plan
         THEN Answer(c, "replayed", s.by)
         ELSE Answer(c, "reused", None)
  BY DEF ReplayOr
<1>2. /\ UNCHANGED <<Rows, custStatus, year>> /\ faults' \in 0..MaxFaults /\ post[c].pc # "idle"
      /\ custLock' = custLock /\ numberLock' = numberLock /\ post[c].pc # "commit"
  BY DEF Rows, SubInv, SubTypeOK
<1>3. s.by \in Calls \cup {None}
  BY DEF SubInv, SubTypeOK, Subscription, Under
<1>4. CASE s.customer = post[c].customer /\ s.plan = post[c].plan
  <2>1. PICK r \in Post :
              /\ post' = [post EXCEPT ![c] = r]
              /\ r.pc = "done" /\ r.answer = "replayed" /\ r.ref = s.by
              /\ r.customer = post[c].customer /\ r.plan = post[c].plan /\ r.key = post[c].key
    BY <1>1, <1>2, <1>3, <1>4, AnswerIs
  <2>2. \E t \in Under(r.key) : t.customer = r.customer /\ t.plan = r.plan /\ t.by = r.ref
    BY <1>4, <2>1
  <2> QED BY <1>2, <2>1, <2>2, Ends
<1>5. CASE ~ (s.customer = post[c].customer /\ s.plan = post[c].plan)
  BY <1>1, <1>2, <1>5, Refused
<1> QED BY <1>4, <1>5

LEMMA LockCustomerInv ==
    ASSUME SubInv, NEW c \in Calls, LockCustomer(c)
    PROVE  SubInv'
<1> DEFINE u == post[c].customer
<1>1. post[c].pc = "lock" /\ custLock[u] = None /\ UNCHANGED <<Rows, custStatus, year, faults>>
      /\ UNCHANGED numberLock
  BY DEF LockCustomer, Rows
<1> USE <1>1, Begun
<1>2. CASE custStatus[u] = "active"
  <2> DEFINE r == [post[c] EXCEPT !.pc = "live"]
  <2>1. post' = [post EXCEPT ![c] = r] /\ custLock' = [custLock EXCEPT ![u] = c]
    BY <1>2, GotoIs DEF LockCustomer
  <2>2. r \in Post /\ r.pc = "live" /\ r.customer = u /\ r.answer = "none"
        /\ r.plan \in Plans /\ r.key \in Keys
    BY DEF Post
  <2>3. /\ custLock' \in [Customers -> Calls \cup {None}] /\ custLock'[u] = c
        /\ \A w \in Customers : custLock[w] \in Calls => custLock'[w] = custLock[w]
    BY <2>1, SubscriptionsAssumption
  <2> HIDE DEF r
  <2> QED BY <1>2, <2>1, <2>2, <2>3, GoesOn DEF Checked, Inserted
<1>3. CASE custStatus[u] # "active"
  BY <1>3, Refused DEF LockCustomer, Rows
<1> QED BY <1>2, <1>3

LEMMA CheckLiveInv ==
    ASSUME SubInv, NEW c \in Calls, CheckLive(c)
    PROVE  SubInv'
<1> DEFINE u == post[c].customer
<1>1. post[c].pc = "live" /\ UNCHANGED <<Rows, custStatus, year, faults>>
      /\ UNCHANGED numberLock
  BY DEF CheckLive, Rows
<1> USE <1>1, Begun
<1>2. CASE LiveOf(u) = {}
  <2> DEFINE r == [post[c] EXCEPT !.pc = "insert"]
  <2>1. post' = [post EXCEPT ![c] = r] /\ UNCHANGED custLock
    BY <1>2, GotoIs DEF CheckLive
  <2>2. r \in Post /\ r.pc = "insert" /\ r.customer = u /\ r.answer = "none"
        /\ r.plan \in Plans /\ r.key \in Keys
    BY DEF Post
  <2>3. custLock[u] = c /\ custStatus[u] = "active"
    BY DEF SubInv, RowHeld, InTransaction
  <2> HIDE DEF r
  <2> QED BY <1>2, <2>1, <2>2, <2>3, GoesOn DEF Inserted
<1>3. CASE LiveOf(u) # {}
  BY <1>3, Refused DEF CheckLive, Rows
<1> QED BY <1>2, <1>3

LEMMA InsertInv ==
    ASSUME SubInv, NEW c \in Calls, InsertSubscription(c)
    PROVE  SubInv'
<1> DEFINE u == post[c].customer
           k == post[c].key
<1>1. post[c].pc = "insert" /\ UNCHANGED <<Rows, custStatus, year, faults>>
      /\ UNCHANGED numberLock
  BY DEF InsertSubscription, Rows
<1> USE <1>1, Begun
<1>2. CASE Under(k) = {}
  <2> DEFINE r == [post[c] EXCEPT !.pc = "number", !.year = year]
  <2>1. post' = [post EXCEPT ![c] = r] /\ UNCHANGED custLock
    BY <1>2 DEF InsertSubscription
  <2>2. r \in Post /\ r.pc = "number" /\ r.customer = u /\ r.answer = "none"
        /\ r.plan \in Plans /\ r.key = k
    BY DEF Post, SubInv, SubTypeOK
  <2>3. custLock[u] = c /\ custStatus[u] = "active" /\ LiveOf(u) = {}
    BY DEF SubInv, RowHeld, NothingLive, InTransaction, Checked
  <2>4. \A d \in Calls : post[d].pc \in Inserted /\ post[d].key = k => d = c
    BY DEF InsertSubscription
  <2> HIDE DEF r
  <2> QED BY <1>2, <2>1, <2>2, <2>3, <2>4, GoesOn
<1>3. CASE Under(k) # {}
  <2> DEFINE r == [post[c] EXCEPT !.pc = "raced"]
  <2>1. post' = [post EXCEPT ![c] = r] /\ FreeCustomer(c)
    BY <1>3, GotoIs DEF InsertSubscription
  <2>2. r \in Post /\ r.pc = "raced" /\ r.answer = "none" /\ r.customer = u
        /\ r.plan = post[c].plan /\ r.key = k
    BY DEF Post
  <2> HIDE DEF r
  <2> QED BY <2>1, <2>2, Ends
<1> QED BY <1>2, <1>3

LEMMA TakeNumberInv ==
    ASSUME SubInv, NEW c \in Calls, TakeNumber(c)
    PROVE  SubInv'
<1> DEFINE y == post[c].year
           r == [post[c] EXCEPT !.pc = "commit", !.seq = NextSeq(y)]
<1>1. post[c].pc = "number" /\ UNCHANGED <<Rows, custStatus, year, faults>>
      /\ UNCHANGED custLock /\ numberLock = None /\ numberLock' = c
      /\ post' = [post EXCEPT ![c].pc = "commit", ![c].seq = NextSeq(y)]
  BY DEF TakeNumber, Rows
<1> USE <1>1, Begun
<1>2. PICK m \in Seqs(y, invoices) : IsHighest(m, y, invoices) /\ NextSeq(y) = 1 + m
  BY NextFollows DEF SubInv, Post
<1>3. m \in Nat
  BY DEF Seqs, SubInv, SubTypeOK, Invoice
<1>4. post' = [post EXCEPT ![c] = r] /\ post[c] \in Post /\ post[c].answer = "none"
      /\ post[c].plan \in Plans
  OBVIOUS
<1>5. /\ r \in Post /\ r.pc = "commit" /\ r.customer = post[c].customer
      /\ r.answer = "none" /\ r.plan \in Plans /\ r.key = post[c].key
      /\ r.year = y /\ r.seq = 1 + m
  BY <1>2, <1>3, <1>4 DEF Post
<1>6. /\ custLock[r.customer] = c /\ custStatus[r.customer] = "active"
      /\ LiveOf(r.customer) = {} /\ Under(r.key) = {}
      /\ \A d \in Calls : post[d].pc \in Inserted /\ post[d].key = r.key => d = c
  BY <1>5 DEF SubInv, RowHeld, NothingLive, KeyIsOwn, InTransaction, Checked, Inserted
<1>7. numberLock' \in Calls \cup {None} /\ (numberLock \in Calls => numberLock' = numberLock)
  BY SubscriptionsAssumption
<1>8. \E n \in Seqs(r.year, invoices) : IsHighest(n, r.year, invoices) /\ r.seq = 1 + n
  BY <1>2, <1>5
<1>9. /\ UNCHANGED <<Rows, custStatus, year, faults>>
      /\ custLock' \in [Customers -> Calls \cup {None}]
      /\ \A u \in Customers : custLock[u] \in Calls => custLock'[u] = custLock[u]
      /\ r.customer \in Customers /\ r.plan \in Plans /\ r.key \in Keys
      /\ custLock'[r.customer] = c /\ numberLock' = c
  BY <1>5, <1>6
<1> HIDE DEF r, y
<1> QED BY <1>4, <1>5, <1>6, <1>7, <1>8, <1>9, GoesOn

(* A commit adds the subscription and the invoice that the locks kept room for. *)
LEMMA CommitInv ==
    ASSUME SubInv, NEW c \in Calls, CommitRows(c), UNCHANGED <<custStatus, year>>,
           faults' \in 0..MaxFaults,
           NEW r \in Post, post' = [post EXCEPT ![c] = r], r.pc = "done",
           r.customer = post[c].customer, r.plan = post[c].plan, r.key = post[c].key,
           (r.answer = "created" /\ r.ref = c) \/ r.answer = "failed"
    PROVE  SubInv'
<1> DEFINE u == post[c].customer
           k == post[c].key
           sub == [by |-> c, customer |-> u, plan |-> post[c].plan, key |-> k]
           inv == [customer |-> u, year |-> post[c].year, seq |-> post[c].seq,
                   plan |-> post[c].plan, paying |-> post[c].paying]
<1>1. /\ post[c].pc = "commit" /\ subs' = subs \cup {sub} /\ invoices' = invoices \cup {inv}
      /\ FreeCustomer(c) /\ FreeNumber(c)
  BY DEF CommitRows
<1>2. /\ post \in [Calls -> Post] /\ post[c] \in Post /\ u \in Customers
      /\ post[c].plan \in Plans /\ k \in Keys
  BY <1>1, Begun
<1>3. /\ custLock[u] = c /\ custStatus[u] = "active" /\ LiveOf(u) = {} /\ Under(k) = {}
      /\ \A d \in Calls : post[d].pc \in Inserted /\ post[d].key = k => d = c
      /\ numberLock = c
  BY <1>1 DEF SubInv, RowHeld, NothingLive, KeyIsOwn, NumberHeld, InTransaction, Checked, Inserted
<1>4. post'[c] = r /\ (\A d \in Calls : d # c => post'[d] = post[d]) /\ post' \in [Calls -> Post]
  BY <1>2
<1>5. PICK m \in Seqs(post[c].year, invoices) :
         IsHighest(m, post[c].year, invoices) /\ post[c].seq = 1 + m
  BY <1>1 DEF SubInv, NumberHeld
<1>6. sub \in Subscription /\ inv \in Invoice
  <2>1. m \in Nat
    BY DEF Seqs, SubInv, SubTypeOK, Invoice
  <2> QED BY <1>2, <1>5, <2>1 DEF Subscription, Invoice, Post
<1>7. SubTypeOK'
  <2>1. custLock' \in [Customers -> Calls \cup {None}] /\ numberLock' \in Calls \cup {None}
    BY <1>1 DEF SubInv, SubTypeOK, FreeCustomer, FreeNumber
  <2>2. subs' \subseteq Subscription /\ invoices' \subseteq Invoice
    BY <1>1, <1>6 DEF SubInv, SubTypeOK
  <2> HIDE DEF sub, inv
  <2> QED BY <1>2, <1>4, <2>1, <2>2 DEF SubInv, SubTypeOK
<1>8. RowHeld'
  <2>1. \A w \in Customers : custLock[w] \in Calls /\ custLock[w] # c => custLock'[w] = custLock[w]
    BY <1>1 DEF SubInv, SubTypeOK, FreeCustomer
  <2> QED BY <1>4, <2>1 DEF SubInv, SubTypeOK, RowHeld, InTransaction
<1>9. NothingLive'
  <2> SUFFICES ASSUME NEW d \in Calls, post'[d].pc \in Checked
               PROVE  LiveOf(post[d].customer)' = {}
    BY DEF NothingLive
  <2>1. d # c /\ post'[d] = post[d]
    BY <1>4 DEF Checked
  <2>2. post[d].customer # u
    BY <1>3, <2>1, SubscriptionsAssumption DEF SubInv, RowHeld, InTransaction, Checked
  <2> QED BY <1>1, <2>1, <2>2 DEF SubInv, NothingLive, LiveOf
<1>10. KeyIsOwn'
  <2> SUFFICES ASSUME NEW d \in Calls, post'[d].pc \in Inserted
               PROVE  /\ Under(post[d].key)' = {}
                      /\ \A e \in Calls : post'[e].pc \in Inserted /\ post'[e].key = post'[d].key => e = d
    BY DEF KeyIsOwn
  <2>1. d # c /\ post'[d] = post[d]
    BY <1>4 DEF Inserted
  <2>2. post[d].key # k
    BY <1>3, <2>1
  <2>3. Under(post[d].key)' = {}
    BY <1>1, <2>1, <2>2 DEF SubInv, KeyIsOwn, Under
  <2>4. \A e \in Calls : post'[e].pc \in Inserted => e # c /\ post'[e] = post[e]
    BY <1>4 DEF Inserted
  <2> QED BY <2>1, <2>3, <2>4 DEF SubInv, KeyIsOwn
<1>11. KeyOfOneRow'
  BY <1>1, <1>3 DEF SubInv, KeyOfOneRow, Under
<1>12. NoAnswerYet'
  BY <1>4 DEF SubInv, NoAnswerYet
<1>13. NumberHeld'
  BY <1>3, <1>4 DEF SubInv, NumberHeld
<1>14. HasHighest' /\ InvoicesNumbered'
  <2>1. inv.year = post[c].year /\ inv.seq = 1 + m
    BY <1>5
  <2> HIDE DEF inv
  <2> QED BY <1>1, <1>5, <1>6, <2>1, NextIsHighest DEF SubInv
<1>15. OneLiveSubscription'
  BY <1>1, <1>3 DEF SubInv, OneLiveSubscription, LiveOf
<1>16. KeyNamesOneRequest'
  <2> SUFFICES ASSUME NEW d \in Calls, post'[d].answer \in {"created", "replayed"}
               PROVE  /\ \A s \in Under(post[d].key)' :
                            /\ s.by = post'[d].ref /\ s.customer = post'[d].customer
                            /\ s.plan = post'[d].plan
                      /\ Under(post[d].key)' # {}
    BY DEF KeyNamesOneRequest
  <2>1. CASE d = c
    <3>1. post'[d] = r /\ r.ref = c /\ r.key = k /\ r.customer = u /\ r.plan = post[c].plan
          /\ post[d].key = k
      BY <1>4, <2>1
    <3>2. {s \in subs' : s.key = k} = {sub}
      BY <1>1, <1>3 DEF Under
    <3>3. Under(post[d].key)' = {sub}
      BY <3>1, <3>2 DEF Under
    <3>4. sub.by = c /\ sub.customer = u /\ sub.plan = post[c].plan
      OBVIOUS
    <3> HIDE DEF sub
    <3> QED BY <3>1, <3>3, <3>4
  <2>2. CASE d # c
    <3>1. /\ Under(post[d].key) # {} /\ post'[d] = post[d]
          /\ \A s \in Under(post[d].key) :
                s.by = post[d].ref /\ s.customer = post[d].customer /\ s.plan = post[d].plan
      BY <1>4, <2>2 DEF SubInv, KeyNamesOneRequest
    <3>2. post[d].key # k
      BY <1>3, <3>1
    <3> QED BY <1>1, <3>1, <3>2 DEF Under
  <2> QED BY <2>1, <2>2
<1> HIDE DEF sub, inv, u, k
<1> QED
  BY <1>7, <1>8, <1>9, <1>10, <1>11, <1>12, <1>13, <1>14, <1>15, <1>16 DEF SubInv

LEMMA CommitsInv ==
    ASSUME SubInv, NEW c \in Calls, Commit(c) \/ CommitUnheard(c)
    PROVE  SubInv'
<1>1. post[c].pc = "commit" /\ CommitRows(c) /\ UNCHANGED <<custStatus, year>>
  BY DEF Commit, CommitUnheard, CommitRows
<1> USE <1>1, Begun
<1>2. CASE Commit(c)
  <2> DEFINE r == [post[c] EXCEPT !.pc = "done", !.answer = "created", !.ref = c]
  <2>1. post' = [post EXCEPT ![c] = r] /\ faults' \in 0..MaxFaults
    BY <1>2 DEF Commit, Answer
  <2>2. r \in Post /\ r.pc = "done" /\ r.customer = post[c].customer /\ r.plan = post[c].plan
        /\ r.key = post[c].key /\ r.answer = "created" /\ r.ref = c
    BY DEF Post
  <2> HIDE DEF r
  <2> QED BY <2>1, <2>2, CommitInv
<1>3. CASE CommitUnheard(c)
  <2>1. faults' \in 0..MaxFaults
    BY <1>3, SubscriptionsAssumption DEF CommitUnheard
  <2>2. PICK r \in Post :
              /\ post' = [post EXCEPT ![c] = r]
              /\ r.pc = "done" /\ r.answer = "failed" /\ r.ref = None
              /\ r.customer = post[c].customer /\ r.plan = post[c].plan /\ r.key = post[c].key
    BY <1>3, AnswerIs DEF CommitUnheard
  <2> QED BY <2>1, <2>2, CommitInv
<1> QED BY <1>2, <1>3

(* A customer's status changes only where no transaction holds the row. *)
LEMMA SurroundingsInv ==
    ASSUME SubInv,
           \/ \E u \in Customers, s \in Statuses : ChangeStatus(u, s)
           \/ NewYear
    PROVE  SubInv'
<1> USE SubscriptionsAssumption DEF SubInv
<1>1. CASE NewYear
  <2>1. SubTypeOK'
    BY <1>1 DEF NewYear, SubTypeOK
  <2>2. RowHeld' /\ NothingLive' /\ KeyIsOwn' /\ NoAnswerYet' /\ NumberHeld' /\ KeyNamesOneRequest'
    BY <1>1 DEF NewYear, RowHeld, NothingLive, KeyIsOwn, NoAnswerYet, NumberHeld,
       KeyNamesOneRequest, LiveOf, Under, Seqs, IsHighest
  <2> QED BY <1>1, <2>1, <2>2, RowsStay DEF NewYear, Rows
<1>2. ASSUME NEW u \in Customers, NEW s \in Statuses, ChangeStatus(u, s)
      PROVE  SubInv'
  <2>1. SubTypeOK'
    BY <1>2 DEF ChangeStatus, SubTypeOK
  <2>2. RowHeld'
    BY <1>2 DEF ChangeStatus, RowHeld, SubTypeOK
  <2>3. NothingLive' /\ KeyIsOwn' /\ NoAnswerYet' /\ NumberHeld' /\ KeyNamesOneRequest'
    BY <1>2 DEF ChangeStatus, NothingLive, KeyIsOwn, NoAnswerYet, NumberHeld,
       KeyNamesOneRequest, LiveOf, Under, Seqs, IsHighest
  <2> QED BY <1>2, <2>1, <2>2, <2>3, RowsStay DEF ChangeStatus, Rows
<1> QED BY <1>1, <1>2

LEMMA SubStepInv ==
    ASSUME SubInv, NEW c \in Calls, SubStep(c)
    PROVE  SubInv'
<1>1. CASE Replay(c)
  <2>1. CASE Under(post[c].key) # {}
    BY <1>1, <2>1, ReplayInv DEF Replay
  <2>2. CASE Under(post[c].key) = {}
    <3> DEFINE r == [post[c] EXCEPT !.pc = "lock"]
    <3>1. post[c].pc = "replay" /\ Goto(c, "lock")
          /\ UNCHANGED <<Rows, custStatus, year, faults>> /\ UNCHANGED <<custLock, numberLock>>
      BY <1>1, <2>2 DEF Replay, ReplayOr, Rows
    <3> USE <3>1, Begun
    <3>2. post' = [post EXCEPT ![c] = r]
      BY GotoIs
    <3>3. r \in Post /\ r.pc = "lock" /\ r.customer = post[c].customer /\ r.answer = "none"
          /\ r.plan = post[c].plan /\ r.key = post[c].key
      BY DEF Post
    <3> HIDE DEF r
    <3> QED BY <3>2, <3>3, GoesOn DEF InTransaction, Checked, Inserted
  <2> QED BY <2>1, <2>2
<1>2. CASE ReplayRaced(c)
  <2>1. CASE Under(post[c].key) # {}
    BY <1>2, <2>1, ReplayInv DEF ReplayRaced
  <2>2. CASE Under(post[c].key) = {}
    BY <1>2, <2>2, Refused, Begun DEF ReplayRaced, Rows
  <2> QED BY <2>1, <2>2
<1> QED
  BY <1>1, <1>2, LockCustomerInv, CheckLiveInv, InsertInv, TakeNumberInv, CommitsInv DEF SubStep

LEMMA SubNextInv == SubInv /\ [SubNext]_subVars => SubInv'
<1> SUFFICES ASSUME SubInv, [SubNext]_subVars
             PROVE  SubInv'
  OBVIOUS
<1>1. ASSUME NEW c \in Calls, RollBack(c)
      PROVE  SubInv'
  <2>1. faults' \in 0..MaxFaults /\ post[c].pc # "idle" /\ UNCHANGED <<Rows, custStatus, year>>
        /\ Answer(c, "failed", None) /\ FreeCustomer(c) /\ FreeNumber(c)
    BY <1>1, SubscriptionsAssumption DEF RollBack, SubInv, SubTypeOK, Rows, InTransaction
  <2> QED BY <2>1, Refused
<1>2. CASE SubNext
  BY <1>1, <1>2, BeginInv, SubStepInv, CommitsInv, SurroundingsInv DEF SubNext
<1>3. CASE UNCHANGED subVars
  BY <1>3 DEF subVars, SubInv, SubTypeOK, RowHeld, NothingLive, KeyIsOwn, KeyOfOneRow, NoAnswerYet,
     NumberHeld, HasHighest, OneLiveSubscription, InvoicesNumbered, KeyNamesOneRequest, LiveOf,
     Under, Seqs, IsHighest
<1> QED BY <1>2, <1>3

-----------------------------------------------------------------------------
(* The invariant: each lock keeps still what was read under it. *)
THEOREM SubscriptionsInvariant == SubSpec => []SubInv
BY SubInitInv, SubNextInv, PTL DEF SubSpec

(* For any number of concurrent requests, a customer has at most one live subscription
   (billing.ts:269-301). *)
THEOREM OneSubscriptionEach == SubSpec => []OneLiveSubscription
BY SubscriptionsInvariant, PTL DEF SubInv

(* For any number of concurrent requests, rollbacks and years, the invoice numbers of
   each year run from 1 without gaps or duplicates (billing.ts:57-73). *)
THEOREM NumbersWithoutGaps == SubSpec => []InvoicesNumbered
BY SubscriptionsInvariant, PTL DEF SubInv

(* For any number of concurrent requests, everybody told of a subscription under a key
   is told of the one row with that key and asked for its customer, plan, cycle and amount,
   which is what is compared; how the first invoice was to be paid is not, and a replay may
   have asked for that to be otherwise (billing.ts:248-259). *)
THEOREM KeysNameOneRequest == SubSpec => []KeyNamesOneRequest
BY SubscriptionsInvariant, PTL DEF SubInv

(* For any number of concurrent requests and status changes, a subscription appears only
   while its customer is active (billing.ts:269-283). *)
THEOREM OnlyActiveSubscribe == SubSpec => ActiveOnly
<1>1. SubInv /\ [SubNext]_subVars =>
         [\A s \in (subs' \ subs) : custStatus[s.customer] = "active"]_subVars
  <2> SUFFICES ASSUME SubInv, SubNext
               PROVE  \A s \in (subs' \ subs) : custStatus[s.customer] = "active"
    OBVIOUS
  <2>1. CASE \E c \in Calls : CommitRows(c)
    BY <2>1 DEF CommitRows, SubInv, RowHeld, InTransaction
  <2>2. CASE subs' = subs
    BY <2>2
  <2>3. ASSUME NEW c \in Calls, NEW u \in Customers, NEW p \in Plans, NEW m \in Payings,
               NEW k \in Keys, Begin(c, u, p, m, k)
        PROVE  subs' = subs
    BY <2>3 DEF Begin
  <2> QED
    BY <2>1, <2>2, <2>3 DEF SubNext, SubStep, Replay, LockCustomer, CheckLive,
       InsertSubscription, TakeNumber, Commit, ReplayRaced, CommitUnheard, RollBack,
       ChangeStatus, NewYear
<1> QED BY <1>1, SubscriptionsInvariant, PTL DEF SubSpec, ActiveOnly

-----------------------------------------------------------------------------
(* Places in a finite set of numbers, newest first. *)

(* The places are a numbering. *)
LEMMA Places ==
    ASSUME NEW ids \in SUBSET Int, IsFiniteSet(ids)
    PROVE  /\ Cardinality(ids) \in Nat
           /\ \A i \in ids : Place(ids, i) \in 1..Cardinality(ids)
           /\ \A i, j \in ids : i < j => Place(ids, j) < Place(ids, i)
           /\ \A i, j \in ids : Place(ids, i) = Place(ids, j) => i = j
           /\ \A k \in 1..Cardinality(ids) : \E i \in ids : Place(ids, i) = k
<1>1. Cardinality(ids) \in Nat /\ \A i \in ids : i \in Int
  BY FS_CardinalityType
<1>2. ASSUME NEW i \in ids
      PROVE  Place(ids, i) \in 1..Cardinality(ids) /\ IsFiniteSet({j \in ids : j >= i})
  <2> DEFINE above == {j \in ids : j >= i}
  <2>1. above \in SUBSET ids /\ i \in above
    OBVIOUS
  <2>2. IsFiniteSet(above) /\ Cardinality(above) <= Cardinality(ids) /\ Cardinality(above) # 0
    <3> HIDE DEF above
    <3> QED BY <2>1, FS_Subset, FS_EmptySet
  <2>3. Cardinality(above) \in Nat
    BY <2>2, FS_CardinalityType
  <2> QED BY <1>1, <2>2, <2>3 DEF Place
<1>0. \A i \in ids : Place(ids, i) \in Int
  <2>1. \A k \in 1..Cardinality(ids) : k \in Int
    BY <1>1
  <2>2. \A i \in ids : Place(ids, i) \in 1..Cardinality(ids)
    BY <1>2
  <2> QED BY <2>1, <2>2
<1>3. ASSUME NEW i \in ids, NEW j \in ids, i < j PROVE Place(ids, j) < Place(ids, i)
  <2> DEFINE aboveI == {m \in ids : m >= i}
             aboveJ == {m \in ids : m >= j}
  <2>1. aboveJ \in SUBSET aboveI /\ i \in aboveI /\ i \notin aboveJ
    <3>1. \A m \in ids : m >= j => m >= i
      BY <1>1, <1>3
    <3>2. i >= i /\ ~ (i >= j)
      BY <1>1, <1>3
    <3> QED BY <3>1, <3>2
  <2>2. Cardinality(aboveJ) <= Cardinality(aboveI) /\ Cardinality(aboveJ) # Cardinality(aboveI)
    <3>1. IsFiniteSet(aboveI)
      BY <1>2
    <3> HIDE DEF aboveI, aboveJ
    <3> QED BY <2>1, <3>1, FS_Subset
  <2> QED BY <1>0, <2>2 DEF Place
<1>4. \A i, j \in ids : Place(ids, i) = Place(ids, j) => i = j
  <2>1. \A i, j \in ids : i # j => i < j \/ j < i
    BY <1>1
  <2> QED BY <1>0, <1>3, <2>1
<1>5. \A k \in 1..Cardinality(ids) : \E i \in ids : Place(ids, i) = k
  <2> DEFINE places == 1..Cardinality(ids)
             place == [i \in ids |-> Place(ids, i)]
  <2>1. place \in Injection(ids, places)
    BY <1>2, <1>4 DEF Injection, IsInjective
  <2>2. IsFiniteSet(places) /\ Cardinality(places) = Cardinality(ids)
    BY <1>1, FS_Interval
  <2>3. place \in Surjection(ids, places)
    <3> HIDE DEF place, places
    <3> QED BY <2>1, <2>2, FS_Injection
  <2>4. \A k \in places : \E i \in ids : place[i] = k
    <3> HIDE DEF place, places
    <3> QED BY <2>3 DEF Surjection
  <2> QED BY <2>4
<1> QED BY <1>1, <1>2, <1>3, <1>4, <1>5

(* As many as n have one of the first n places. *)
LEMMA FirstPlaces ==
    ASSUME NEW ids \in SUBSET Int, IsFiniteSet(ids), NEW n \in 0..Cardinality(ids)
    PROVE  Cardinality({i \in ids : Place(ids, i) <= n}) = n
<1> DEFINE first == {i \in ids : Place(ids, i) <= n}
           places == 1..n
           place == [i \in first |-> Place(ids, i)]
<1>1. n \in Nat /\ n <= Cardinality(ids) /\ Cardinality(ids) \in Nat
  BY FS_CardinalityType
<1>2. \A i \in first : Place(ids, i) \in places
  BY <1>1, Places
<1>3. \A k \in places : \E i \in first : Place(ids, i) = k
  <2>1. \A k \in places : k \in 1..Cardinality(ids) /\ k <= n
    BY <1>1
  <2>2. \A k \in 1..Cardinality(ids) : \E i \in ids : Place(ids, i) = k
    BY Places
  <2> QED BY <2>1, <2>2
<1>4. \A i, j \in first : Place(ids, i) = Place(ids, j) => i = j
  BY Places
<1>5. place \in Injection(first, places) /\ place \in Surjection(first, places)
  <2> HIDE DEF first, places
  <2> QED BY <1>2, <1>3, <1>4 DEF Injection, IsInjective, Surjection
<1>6. IsFiniteSet(places) /\ Cardinality(places) = n
  BY <1>1, FS_Interval
<1>7. Cardinality(first) = Cardinality(places)
  <2> HIDE DEF first, places, place
  <2> QED BY <1>5, <1>6, FS_Injection
<1> QED BY <1>6, <1>7

(* NewestFirst is the sequence with each one at its place. *)
LEMMA NewestFirstOrders ==
    ASSUME NEW ids \in SUBSET Int, IsFiniteSet(ids)
    PROVE  /\ NewestFirst(ids) \in Seq(ids) /\ Len(NewestFirst(ids)) = Cardinality(ids)
           /\ Cardinality(ids) \in Nat
           /\ \A k \in 1..Cardinality(ids) :
                 NewestFirst(ids)[k] \in ids /\ Place(ids, NewestFirst(ids)[k]) = k
           /\ \A i \in ids :
                 Place(ids, i) \in 1..Cardinality(ids) /\ NewestFirst(ids)[Place(ids, i)] = i
<1> DEFINE s == NewestFirst(ids)
           n == Cardinality(ids)
<1>1. n \in Nat
  BY FS_CardinalityType
<1>2. s = [k \in 1..n |-> CHOOSE i \in ids : Place(ids, i) = k]
  BY DEF NewestFirst
<1>3. \A k \in 1..n : s[k] \in ids /\ Place(ids, s[k]) = k
  <2> SUFFICES ASSUME NEW k \in 1..n PROVE s[k] \in ids /\ Place(ids, s[k]) = k
    OBVIOUS
  <2>1. \E i \in ids : Place(ids, i) = k
    BY Places
  <2>2. s[k] = CHOOSE i \in ids : Place(ids, i) = k
    BY <1>2
  <2> HIDE DEF s, n
  <2> QED BY <2>1, <2>2
<1>4. s \in [1..n -> ids]
  BY <1>2, <1>3
<1>5. s \in Seq(ids) /\ Len(s) = n
  <2> HIDE DEF s, n
  <2>1. s \in Seq(ids)
    BY <1>1, <1>4, SeqDef
  <2>2. DOMAIN s = 1..n
    BY <1>4
  <2> QED BY <1>1, <2>1, <2>2
<1>6. ASSUME NEW i \in ids PROVE Place(ids, i) \in 1..n /\ s[Place(ids, i)] = i
  <2>1. Place(ids, i) \in 1..n
    BY Places
  <2>2. s[Place(ids, i)] \in ids /\ Place(ids, s[Place(ids, i)]) = Place(ids, i)
    BY <1>3, <2>1
  <2>3. \A j \in ids : Place(ids, j) = Place(ids, i) => j = i
    BY Places
  <2> HIDE DEF s
  <2> QED BY <2>1, <2>2, <2>3
<1> QED BY <1>1, <1>3, <1>5, <1>6

(* The place below a part that is newer: all of that part, and the place in the rest. *)
LEMMA PlaceBelow ==
    ASSUME NEW ids \in SUBSET Int, IsFiniteSet(ids), NEW top \in SUBSET ids,
           NEW part \in SUBSET ids, top \cap part = {},
           NEW i \in part, {j \in ids : j >= i} = top \cup {j \in part : j >= i}
    PROVE  Place(ids, i) = Cardinality(top) + Place(part, i)
<1> DEFINE above == {j \in part : j >= i}
<1>1. above \in SUBSET ids /\ top \cap above = {}
  OBVIOUS
<1>2. IsFiniteSet(top) /\ IsFiniteSet(above)
  <2> HIDE DEF above
  <2> QED BY <1>1, FS_Subset
<1>3. Cardinality(top \cup above) = Cardinality(top) + Cardinality(above) - Cardinality(top \cap above)
  <2> HIDE DEF above
  <2> QED BY <1>2, FS_Union
<1>4. Cardinality(top) \in Nat /\ Cardinality(above) \in Nat /\ Cardinality(top \cap above) = 0
  BY <1>1, <1>2, FS_CardinalityType, FS_EmptySet
<1>5. Place(ids, i) = Cardinality(top \cup above) /\ Place(part, i) = Cardinality(above)
  BY DEF Place
<1> HIDE DEF above
<1> QED BY <1>3, <1>4, <1>5

-----------------------------------------------------------------------------
(* One upstream call. *)

(* A batch is what follows the offset. *)
LEMMA BatchFollows ==
    ASSUME NEW ids \in SUBSET Int, IsFiniteSet(ids), NEW offset \in 0..Cardinality(ids),
           NEW batch, batch = {i \in ids : Place(ids, i) \in (offset + 1)..(offset + BatchSize)}
    PROVE  /\ IsFiniteSet(batch) /\ Cardinality(batch) \in Nat
           /\ \A i \in batch : Place(ids, i) = offset + Place(batch, i)
           /\ Cardinality(batch) <= BatchSize
           /\ offset + Cardinality(batch) <= Cardinality(ids)
<1>1. /\ offset \in Nat /\ BatchSize \in Nat /\ Cardinality(ids) \in Nat
      /\ \A i \in ids : i \in Int /\ Place(ids, i) \in Int /\ Place(ids, i) <= Cardinality(ids)
      /\ \A i, j \in ids : i < j => Place(ids, j) < Place(ids, i)
  <2>1. Cardinality(ids) \in Nat
    BY FS_CardinalityType
  <2>2. \A i \in ids : Place(ids, i) \in 1..Cardinality(ids)
    BY Places
  <2>3. \A k \in 1..Cardinality(ids) : k \in Int /\ k <= Cardinality(ids)
    BY <2>1
  <2> QED BY <2>1, <2>2, <2>3, Places, PagingAssumption
<1>2. IsFiniteSet(batch) /\ Cardinality(batch) \in Nat /\ batch \in SUBSET Int
  BY FS_Subset, FS_CardinalityType
<1> DEFINE top == {i \in ids : Place(ids, i) <= offset}
<1>3. Cardinality(top) = offset
  BY FirstPlaces
<1>4. ASSUME NEW i \in batch PROVE Place(ids, i) = offset + Place(batch, i)
  <2>1. i \in ids /\ offset < Place(ids, i) /\ Place(ids, i) <= offset + BatchSize
    BY <1>1
  <2>2. ASSUME NEW j \in ids, j >= i PROVE j \in top \/ j \in batch
    <3>1. Place(ids, j) <= Place(ids, i)
      BY <1>1, <2>1, <2>2
    <3>2. Place(ids, j) <= offset \/ Place(ids, j) \in (offset + 1)..(offset + BatchSize)
      BY <1>1, <2>1, <3>1
    <3> QED BY <3>2
  <2>3. ASSUME NEW j \in top PROVE j >= i
    BY <1>1, <2>1
  <2>4. {j \in ids : j >= i} = top \cup {j \in batch : j >= i}
    BY <2>2, <2>3
  <2>5. top \cap batch = {} /\ top \in SUBSET ids /\ batch \in SUBSET ids
    BY <1>1
  <2>6. Place(ids, i) = Cardinality(top) + Place(batch, i)
    <3> HIDE DEF top
    <3> QED BY <2>4, <2>5, PlaceBelow
  <2> QED BY <1>3, <2>6
<1>5. Cardinality(batch) <= BatchSize /\ offset + Cardinality(batch) <= Cardinality(ids)
  <2>1. CASE Cardinality(batch) = 0
    BY <1>1, <2>1
  <2>2. CASE Cardinality(batch) # 0
    <3>1. Cardinality(batch) \in 1..Cardinality(batch)
      BY <1>2, <2>2
    <3>2. PICK i \in batch : Place(batch, i) = Cardinality(batch)
      BY <1>2, <3>1, Places
    <3>3. Place(ids, i) = offset + Cardinality(batch)
      BY <1>4, <3>2
    <3>4. i \in ids /\ Place(ids, i) <= offset + BatchSize
      BY <1>1
    <3> QED BY <1>1, <1>2, <3>3, <3>4
  <2> QED BY <2>1, <2>2
<1> QED BY <1>2, <1>4, <1>5

(* The part of the batch at an offset down to some invoice of it. *)
ReadFrom(ids, offset, batch, read) ==
    /\ batch = {i \in ids : Place(ids, i) \in (offset + 1)..(offset + BatchSize)}
    /\ read \in SUBSET batch /\ \A i \in batch, j \in read : i >= j => i \in read

(* Reading that part moves the offset below just that. *)
LEMMA OffsetMoves ==
    ASSUME NEW ids \in SUBSET Int, IsFiniteSet(ids), NEW offset \in 0..Cardinality(ids),
           NEW batch, NEW read, ReadFrom(ids, offset, batch, read)
    PROVE  /\ Cardinality(read) \in Nat
           /\ offset + Cardinality(read) \in 0..Cardinality(ids)
           /\ \A i \in ids : Place(ids, i) <= offset + Cardinality(read) <=>
                                Place(ids, i) <= offset \/ i \in read
           /\ read = batch /\ Cardinality(ids) <= offset + BatchSize =>
                 offset + Cardinality(read) = Cardinality(ids)
<1>0. /\ batch = {i \in ids : Place(ids, i) \in (offset + 1)..(offset + BatchSize)}
      /\ read \in SUBSET batch /\ \A i \in batch, j \in read : i >= j => i \in read
  BY DEF ReadFrom
<1>1. /\ IsFiniteSet(batch) /\ Cardinality(batch) \in Nat /\ batch \in SUBSET Int
      /\ \A i \in batch : Place(ids, i) = offset + Place(batch, i)
      /\ Cardinality(batch) <= BatchSize /\ offset + Cardinality(batch) <= Cardinality(ids)
  <2>1. batch \in SUBSET ids /\ batch \in SUBSET Int
    BY <1>0
  <2> QED BY <1>0, <2>1, BatchFollows
<1>2. /\ offset \in Nat /\ BatchSize \in Nat /\ Cardinality(ids) \in Nat
      /\ \A i \in ids : i \in Int /\ Place(ids, i) \in Int /\ Place(ids, i) <= Cardinality(ids)
      /\ \A i \in batch : Place(batch, i) \in Int
  <2>1. Cardinality(ids) \in Nat
    BY FS_CardinalityType
  <2>2. \A i \in ids : Place(ids, i) \in 1..Cardinality(ids)
    BY Places
  <2>3. \A k \in 1..Cardinality(ids) : k \in Int /\ k <= Cardinality(ids)
    BY <2>1
  <2>4. \A i \in batch : Place(batch, i) \in 1..Cardinality(batch)
    BY <1>1, Places
  <2>5. \A k \in 1..Cardinality(batch) : k \in Int
    BY <1>1
  <2> QED BY <2>1, <2>2, <2>3, <2>4, <2>5, PagingAssumption
<1>3. IsFiniteSet(read) /\ Cardinality(read) \in Nat /\ Cardinality(read) <= Cardinality(batch)
  BY <1>0, <1>1, FS_Subset, FS_CardinalityType
<1>4. offset + Cardinality(read) \in 0..Cardinality(ids)
  BY <1>1, <1>2, <1>3
<1>5. ASSUME NEW i \in read PROVE Place(ids, i) <= offset + Cardinality(read)
  <2> DEFINE above == {j \in batch : j >= i}
  <2>1. above \in SUBSET read
    BY <1>0
  <2>2. Cardinality(above) <= Cardinality(read)
    <3> HIDE DEF above
    <3> QED BY <1>3, <2>1, FS_Subset
  <2>3. Place(batch, i) <= Cardinality(read)
    BY <2>2 DEF Place
  <2>4. i \in ids /\ i \in batch /\ Place(ids, i) = offset + Place(batch, i)
    BY <1>0, <1>1
  <2> QED BY <1>2, <1>3, <2>3, <2>4
<1>6. ASSUME NEW i \in ids, Place(ids, i) <= offset + Cardinality(read), ~ (Place(ids, i) <= offset)
      PROVE  i \in read
  <2>1. i \in batch
    <3>1. Place(ids, i) \in (offset + 1)..(offset + BatchSize)
      BY <1>1, <1>2, <1>3, <1>6
    <3> QED BY <1>0, <3>1
  <2> SUFFICES ASSUME i \notin read PROVE FALSE
    OBVIOUS
  <2> DEFINE above == {j \in batch : j >= i}
  <2>2. read \in SUBSET above /\ i \in above
    <3>1. \A j \in read : j \in batch /\ ~ (i >= j)
      BY <1>0, <2>1
    <3>2. \A j \in read : j >= i
      BY <1>0, <1>1, <2>1, <3>1
    <3> QED BY <1>1, <2>1, <3>1, <3>2
  <2>3. IsFiniteSet(above) /\ Cardinality(above) \in Nat
    BY <1>1, FS_Subset, FS_CardinalityType
  <2>4. Cardinality(read) <= Cardinality(above) /\ Cardinality(read) # Cardinality(above)
    <3> HIDE DEF above
    <3> QED BY <2>2, <2>3, FS_Subset
  <2>5. Place(batch, i) > Cardinality(read)
    <3>1. Place(batch, i) = Cardinality(above)
      BY DEF Place
    <3> HIDE DEF above
    <3> QED BY <1>3, <2>3, <2>4, <3>1
  <2>6. Place(ids, i) = offset + Place(batch, i)
    BY <1>1, <2>1
  <2> QED BY <1>2, <1>3, <1>6, <2>1, <2>5, <2>6
<1>7. ASSUME NEW i \in ids, Place(ids, i) <= offset PROVE Place(ids, i) <= offset + Cardinality(read)
  BY <1>2, <1>3, <1>7
<1>8. ASSUME read = batch, Cardinality(ids) <= offset + BatchSize
      PROVE  offset + Cardinality(read) = Cardinality(ids)
  <2>1. CASE Cardinality(ids) = 0
    BY <1>1, <1>2, <1>3, <2>1
  <2>2. CASE Cardinality(ids) # 0
    <3>1. Cardinality(ids) \in 1..Cardinality(ids)
      BY <1>2, <2>2
    <3>2. PICK i \in ids : Place(ids, i) = Cardinality(ids)
      BY <3>1, Places
    <3>3. Place(ids, i) <= offset \/ i \in batch
      BY <1>0, <1>2, <1>8, <3>2
    <3>4. Cardinality(ids) <= offset + Cardinality(read)
      BY <1>5, <1>7, <1>8, <3>2, <3>3
    <3> QED BY <1>2, <1>3, <1>4, <3>4
  <2> QED BY <2>1, <2>2
<1> QED BY <1>3, <1>4, <1>5, <1>6, <1>7, <1>8

(* What is taken of a batch is what matches in the part of it that is read. *)
LEMMA TakenIsRead ==
    ASSUME NEW batch \in SUBSET Int, IsFiniteSet(batch), NEW wanted \in Nat
    PROVE  LET taken == Taken(batch, wanted)
               read == Consumed(batch, wanted)
           IN  /\ read \in SUBSET batch
               /\ \A i \in batch, j \in read : i >= j => i \in read
               /\ taken = read \cap MatchingIds(walk.filter)
               /\ IsFiniteSet(taken) /\ Cardinality(taken) <= wanted
<1> DEFINE matching == batch \cap MatchingIds(walk.filter)
           taken == Taken(batch, wanted)
           read == Consumed(batch, wanted)
<1>1. PICK m : m = matching
  OBVIOUS
<1>2. m \in SUBSET batch /\ m \in SUBSET Int /\ IsFiniteSet(m) /\ Cardinality(m) \in Nat
  BY <1>1, FS_Subset, FS_CardinalityType
<1>3. taken = {i \in m : Place(m, i) <= wanted}
  BY <1>1 DEF Taken
<1>4. IsFiniteSet(taken) /\ taken \in SUBSET m /\ Cardinality(taken) \in Nat
  BY <1>2, <1>3, FS_Subset, FS_CardinalityType
<1>5. read = IF Cardinality(taken) < wanted THEN batch
             ELSE {i \in batch : \E j \in taken : i >= j}
  BY DEF Consumed
<1>6. \A i \in batch : i \in Int
  OBVIOUS
<1> HIDE DEF taken, read, matching
<1>7. \/ taken = m /\ Cardinality(m) <= wanted
      \/ Cardinality(taken) = wanted
  <2>1. CASE Cardinality(m) <= wanted
    <3>1. \A k \in 1..Cardinality(m) : k <= wanted
      BY <1>2, <2>1
    <3>2. \A i \in m : Place(m, i) \in 1..Cardinality(m)
      BY <1>2, Places
    <3> QED BY <1>3, <2>1, <3>1, <3>2
  <2>2. CASE ~ (Cardinality(m) <= wanted)
    <3>1. wanted \in 0..Cardinality(m)
      BY <1>2, <2>2
    <3> QED BY <1>2, <1>3, <3>1, FirstPlaces
  <2> QED BY <2>1, <2>2
<1>8. Cardinality(taken) <= wanted
  BY <1>2, <1>4, <1>7
<1>9. read \in SUBSET batch
  BY <1>5
<1>10. ASSUME NEW i \in batch, NEW j \in read, i >= j PROVE i \in read
  <2>1. CASE Cardinality(taken) < wanted
    BY <1>5, <2>1
  <2>2. CASE ~ (Cardinality(taken) < wanted)
    <3>1. PICK k \in taken : j >= k
      BY <1>5, <2>2
    <3>2. i \in Int /\ j \in Int /\ k \in Int
      BY <1>2, <1>4, <1>6, <1>9
    <3>3. i >= k
      BY <1>10, <3>1, <3>2
    <3> QED BY <1>5, <2>2, <3>3
  <2> QED BY <2>1, <2>2
<1>11. taken = read \cap m
  <2>1. CASE Cardinality(taken) < wanted
    <3>1. taken = m
      BY <1>4, <1>7, <2>1
    <3>2. read = batch
      BY <1>5, <2>1
    <3> QED BY <1>2, <3>1, <3>2
  <2>2. CASE ~ (Cardinality(taken) < wanted)
    <3>1. ASSUME NEW i \in taken PROVE i \in read \cap m
      <4>1. i \in batch /\ i \in m /\ i >= i
        BY <1>2, <1>4, <1>6
      <4> QED BY <1>5, <2>2, <4>1
    <3>2. ASSUME NEW i \in read, i \in m PROVE i \in taken
      <4>1. PICK j \in taken : i >= j
        BY <1>5, <2>2
      <4>2. j \in m /\ Place(m, j) <= wanted
        BY <1>3
      <4>3. i \in Int /\ j \in Int
        BY <1>2, <3>2, <4>2
      <4>4. i = j \/ j < i
        BY <4>1, <4>3
      <4>5. j < i => Place(m, i) < Place(m, j)
        BY <1>2, <3>2, <4>2, Places
      <4>6. Place(m, i) \in Int /\ Place(m, j) \in Int
        <5>1. Place(m, i) \in 1..Cardinality(m) /\ Place(m, j) \in 1..Cardinality(m)
          BY <1>2, <3>2, <4>2, Places
        <5> QED BY <1>2, <5>1
      <4>7. Place(m, i) <= wanted
        BY <4>2, <4>4, <4>5, <4>6
      <4> QED BY <1>3, <3>2, <4>7
    <3> QED BY <3>1, <3>2
  <2> QED BY <2>1, <2>2
<1>12. taken = read \cap MatchingIds(walk.filter)
  BY <1>1, <1>9, <1>11 DEF matching
<1> QED BY <1>4, <1>8, <1>9, <1>10, <1>12 DEF taken, read

-----------------------------------------------------------------------------
(* The pages so far, the one being put together included. *)
Got == shown \o walk.collected

Seen(i) == \E k \in DOMAIN Got : Got[k] = i

(* What has been read of the list, down to the offset, is on the pages: each matching
   invoice at its place among those that match. *)
ReadInOrder ==
    LET listed == Listed(walk.filter)
        matching == MatchingIds(walk.filter)
    IN  /\ \A k \in DOMAIN Got : Got[k] \in matching /\ Place(matching, Got[k]) = k
        /\ Cardinality({i \in matching : Place(listed, i) <= walk.offset}) = Len(Got)
        /\ ~ walk.more => walk.offset = Cardinality(listed)

PagingInv ==
    /\ PagingTypeOK
    /\ walk.offset <= Cardinality(Listed(walk.filter))
    /\ walk.pc = "idle" => walk.offset = 0 /\ shown = << >> /\ steady = {} /\ walk.more
    /\ walk.pc # "page" => walk.collected = << >>
    /\ walk.pc = "between" => walk.more
    /\ walk.pc = "done" => ~ walk.more
    /\ Len(walk.collected) <= walk.limit
    /\ steady \subseteq MatchingIds(walk.filter)
    /\ \A i \in steady : Place(Listed(walk.filter), i) <= walk.offset \/ ~ walk.more => Seen(i)
    /\ walk.moves = 0 => ReadInOrder

LEMMA PagingConstants ==
    /\ BatchSize \in Nat /\ BatchSize # 0 /\ MaxCalls \in Nat /\ MaxInvoices \in Nat /\ MaxMoves \in Nat
    /\ \A f \in Filters : f \in FilterStatuses
    /\ \A limit \in Limits : limit \in Nat
BY PagingAssumption

(* The sets of the list are finite sets of numbers, and billing's filter lets through
   what the filter here asks for. *)
LEMMA ListSets ==
    ASSUME PagingTypeOK, NEW f \in FilterStatuses
    PROVE  /\ DOMAIN rows \in SUBSET (1..MaxInvoices) /\ IsFiniteSet(DOMAIN rows)
           /\ Listed(f) \in SUBSET Int /\ Listed(f) \in SUBSET (1..MaxInvoices)
           /\ IsFiniteSet(Listed(f)) /\ Cardinality(Listed(f)) \in Nat
           /\ MatchingIds(f) \in SUBSET Listed(f) /\ IsFiniteSet(MatchingIds(f))
           /\ MatchingIds(f) \in SUBSET Int
<1>1. rows \in Seq(Row) /\ Len(rows) \in Nat /\ Len(rows) <= MaxInvoices /\ DOMAIN rows = 1..Len(rows)
  BY DEF PagingTypeOK
<1>2. \A i \in DOMAIN rows : rows[i] \in Row
  BY <1>1
<1>3. DOMAIN rows \in SUBSET (1..MaxInvoices) /\ IsFiniteSet(DOMAIN rows) /\ DOMAIN rows \in SUBSET Int
  BY <1>1, FS_Interval, PagingConstants
<1>4. Listed(f) \in SUBSET DOMAIN rows
  BY DEF Listed
<1>5. IsFiniteSet(Listed(f)) /\ Cardinality(Listed(f)) \in Nat
  BY <1>3, <1>4, FS_Subset, FS_CardinalityType
<1>6. \A i \in DOMAIN rows : Matches(f, rows[i]) => f = "any" \/ rows[i].status = UpstreamStatus(f)
  BY <1>2 DEF Matches, DeriveStatus, UpstreamStatus, Row, FilterStatuses
<1>7. MatchingIds(f) \in SUBSET Listed(f)
  BY <1>6 DEF MatchingIds, Listed
<1>8. IsFiniteSet(MatchingIds(f))
  BY <1>5, <1>7, FS_Subset
<1> QED BY <1>3, <1>4, <1>5, <1>7, <1>8

LEMMA PagingTypes ==
    ASSUME PagingTypeOK
    PROVE  /\ walk.pc \in {"idle", "page", "between", "refused", "done"}
           /\ walk.filter \in FilterStatuses /\ walk.offset \in Nat /\ walk.limit \in Nat
           /\ walk.calls \in 0..MaxCalls /\ walk.collected \in Seq(1..MaxInvoices)
           /\ walk.more \in BOOLEAN /\ walk.moves \in 0..MaxMoves
           /\ Got \in Seq(1..MaxInvoices) /\ Len(Got) \in Nat /\ DOMAIN Got = 1..Len(Got)
           /\ Len(walk.collected) \in Nat
<1>1. walk \in Walk /\ shown \in Seq(1..MaxInvoices)
  BY DEF PagingTypeOK
<1>2. walk.collected \in Seq(1..MaxInvoices) /\ Len(walk.collected) \in Nat
  BY <1>1 DEF Walk
<1>3. Got \in Seq(1..MaxInvoices)
  BY <1>1, <1>2, ConcatProperties DEF Got
<1>4. Len(Got) \in Nat /\ DOMAIN Got = 1..Len(Got)
  BY <1>3
<1> QED BY <1>1, <1>2, <1>3, <1>4 DEF Walk

(* Before anything is read, there is nothing to be in order. *)
LEMMA NothingRead ==
    ASSUME PagingTypeOK, NEW f \in FilterStatuses
    PROVE  Cardinality({i \in MatchingIds(f) : Place(Listed(f), i) <= 0}) = 0
<1>1. \A i \in MatchingIds(f) : Place(Listed(f), i) \in 1..Cardinality(Listed(f))
  BY ListSets, Places
<1>2. \A k \in 1..Cardinality(Listed(f)) : ~ (k <= 0)
  BY ListSets
<1>3. {i \in MatchingIds(f) : Place(Listed(f), i) <= 0} = {}
  BY <1>1, <1>2
<1> QED BY <1>3, FS_EmptySet

LEMMA PagingInitInv == PagingInit => PagingInv
<1> SUFFICES ASSUME PagingInit PROVE PagingInv
  OBVIOUS
<1> USE DEF PagingInit
<1>1. PICK n \in 0..MaxInvoices :
         rows \in [1..n -> {r \in Row : r.status = "open" => r.refunded = "none"}]
  OBVIOUS
<1>2. rows \in [1..n -> Row] /\ n \in Nat /\ n <= MaxInvoices
  BY <1>1, PagingConstants
<1>3. rows \in Seq(Row) /\ Len(rows) = n
  <2>1. rows \in Seq(Row)
    BY <1>2, SeqDef
  <2>2. DOMAIN rows = 1..n
    BY <1>2
  <2> QED BY <1>2, <2>1, <2>2
<1>4. << >> \in Seq(1..MaxInvoices) /\ Len(<< >>) = 0
  BY EmptySeq
<1>5. /\ walk.pc = "idle" /\ walk.filter = "any" /\ walk.offset = 0 /\ walk.limit = 0
      /\ walk.calls = 0 /\ walk.collected = << >> /\ walk.more /\ walk.moves = 0
  OBVIOUS
<1>6. PagingTypeOK
  <2>1. walk \in Walk
    BY <1>4, PagingConstants DEF Walk, FilterStatuses
  <2> QED BY <1>2, <1>3, <1>4, <2>1 DEF PagingTypeOK
<1>7. "any" \in FilterStatuses
  BY DEF FilterStatuses
<1>8. walk.offset <= Cardinality(Listed(walk.filter))
  BY <1>5, <1>6, <1>7, ListSets
<1>9. Got = << >>
  BY <1>4, <1>5, ConcatEmptySeq DEF Got
<1>10. Cardinality({i \in MatchingIds("any") : Place(Listed("any"), i) <= 0}) = 0
  BY <1>6, <1>7, NothingRead
<1>11. ReadInOrder
  BY <1>4, <1>5, <1>9, <1>10 DEF ReadInOrder
<1> QED BY <1>4, <1>5, <1>6, <1>8, <1>11 DEF PagingInv

(* The list is the same as long as the invoices are. *)
LEMMA SameList ==
    ASSUME UNCHANGED rows, NEW f
    PROVE  Listed(f)' = Listed(f) /\ MatchingIds(f)' = MatchingIds(f)
BY DEF Listed, MatchingIds

LEMMA FirstPageKeeps ==
    ASSUME PagingInv, NEW f \in Filters, NEW limit \in Limits, FirstPage(f, limit)
    PROVE  PagingInv'
<1>1. /\ walk.pc = "idle" /\ walk.offset = 0 /\ shown = << >> /\ walk.more /\ walk.collected = << >>
      /\ UNCHANGED <<rows, shown>> /\ steady' = MatchingIds(f)
      /\ PagingTypeOK /\ walk \in Walk
  BY DEF PagingInv, FirstPage, PagingTypeOK
<1>2. f \in FilterStatuses /\ limit \in Nat
  BY PagingConstants
<1>3. /\ walk' \in Walk
      /\ walk'.pc = "page" /\ walk'.filter = f /\ walk'.limit = limit /\ walk'.offset = 0
      /\ walk'.collected = << >> /\ walk'.more = walk.more
  BY <1>1, <1>2 DEF FirstPage, Walk
<1>4. /\ Listed(f)' = Listed(f) /\ MatchingIds(f)' = MatchingIds(f)
      /\ MatchingIds(f) \in SUBSET Listed(f) /\ Listed(f) \in SUBSET (1..MaxInvoices)
      /\ Cardinality(Listed(f)) \in Nat
  BY <1>1, <1>2, SameList, ListSets
<1>5. PagingTypeOK'
  BY <1>1, <1>3, <1>4 DEF PagingTypeOK
<1>6. << >> \in Seq(1..MaxInvoices) /\ Len(<< >>) = 0 /\ << >> \o << >> = << >>
  BY EmptySeq, ConcatEmptySeq
<1>7. Got' = << >>
  BY <1>1, <1>3, <1>6 DEF Got
<1>8. \A i \in steady' : ~ (Place(Listed(f), i) <= 0)
  <2>1. \A i \in Listed(f) : Place(Listed(f), i) \in 1..Cardinality(Listed(f))
    BY <1>1, <1>2, ListSets, Places
  <2>2. \A k \in 1..Cardinality(Listed(f)) : ~ (k <= 0)
    BY <1>4
  <2> QED BY <1>1, <1>4, <2>1, <2>2
<1>9. ReadInOrder'
  BY <1>1, <1>2, <1>3, <1>4, <1>6, <1>7, NothingRead DEF ReadInOrder
<1> QED BY <1>1, <1>2, <1>3, <1>4, <1>5, <1>6, <1>8, <1>9 DEF PagingInv

(* The reader turns to the next page, is refused, or is shown the page: what has been
   read stays where it is. *)
LEMMA ReaderKeeps ==
    ASSUME PagingInv, UNCHANGED <<rows, steady>>, walk' \in Walk, shown' \in Seq(1..MaxInvoices),
           /\ walk'.filter = walk.filter /\ walk'.offset = walk.offset /\ walk'.more = walk.more
           /\ walk'.moves = walk.moves /\ walk'.collected = << >>,
           Got' = Got, walk'.pc # "idle",
           walk'.pc = "between" => walk.more, walk'.pc = "done" => ~ walk.more
    PROVE  PagingInv'
<1>1. /\ Listed(walk.filter)' = Listed(walk.filter)
      /\ MatchingIds(walk.filter)' = MatchingIds(walk.filter)
  <2>1. PICK f : f = walk.filter
    OBVIOUS
  <2>2. Listed(walk.filter)' = Listed(f)' /\ MatchingIds(walk.filter)' = MatchingIds(f)'
    BY <2>1 DEF Listed, MatchingIds
  <2> QED BY <2>1, <2>2, SameList
<1>2. PagingTypeOK' /\ Len(<< >>) = 0 /\ walk'.limit \in Nat
  BY EmptySeq DEF PagingInv, PagingTypeOK, Walk
<1>3. ReadInOrder => ReadInOrder'
  BY <1>1 DEF ReadInOrder
<1>4. \A i : Seen(i)' <=> Seen(i)
  BY DEF Seen
<1> QED BY <1>1, <1>2, <1>3, <1>4 DEF PagingInv

LEMMA NextPageKeeps ==
    ASSUME PagingInv, NEW f \in Filters, NEW limit \in Limits, NextPage(f, limit)
    PROVE  PagingInv'
<1>1. /\ walk \in Walk /\ shown \in Seq(1..MaxInvoices) /\ walk.pc = "between"
      /\ walk.collected = << >> /\ walk.more = TRUE /\ UNCHANGED <<rows, shown, steady>>
  BY PagingTypes DEF PagingInv, NextPage, PagingTypeOK
<1>2. limit \in Nat /\ 0 \in 0..MaxCalls /\ << >> \in Seq(1..MaxInvoices)
  BY PagingConstants, EmptySeq
<1>3. \/ walk' = [walk EXCEPT !.pc = "page", !.limit = limit, !.calls = 0, !.more = TRUE,
                              !.collected = << >>]
      \/ walk' = [walk EXCEPT !.pc = "refused"]
  BY DEF NextPage, DecodeCursor
<1>4. /\ walk' \in Walk /\ walk'.pc \in {"page", "refused"}
      /\ walk'.filter = walk.filter /\ walk'.offset = walk.offset /\ walk'.more = walk.more
      /\ walk'.moves = walk.moves /\ walk'.collected = << >>
  BY <1>1, <1>2, <1>3 DEF Walk
<1>5. Got' = Got
  BY <1>1, <1>4 DEF Got
<1> QED BY <1>1, <1>4, <1>5, ReaderKeeps

LEMMA ShowPageKeeps ==
    ASSUME PagingInv, ShowPage
    PROVE  PagingInv'
<1>1. walk \in Walk /\ shown \in Seq(1..MaxInvoices) /\ UNCHANGED <<rows, steady>>
  BY DEF PagingInv, ShowPage, PagingTypeOK
<1>2. << >> \in Seq(1..MaxInvoices) /\ Got \in Seq(1..MaxInvoices)
  BY PagingTypes, EmptySeq DEF PagingInv
<1>3. /\ walk' \in Walk /\ walk'.pc = (IF walk.more THEN "between" ELSE "done")
      /\ walk'.filter = walk.filter /\ walk'.offset = walk.offset /\ walk'.more = walk.more
      /\ walk'.moves = walk.moves /\ walk'.collected = << >>
  BY <1>1, <1>2 DEF ShowPage, Walk
<1>4. shown' = Got
  BY DEF ShowPage, Got
<1>5. Got' = Got
  BY <1>2, <1>3, <1>4, ConcatEmptySeq DEF Got
<1> QED BY <1>1, <1>2, <1>3, <1>4, <1>5, ReaderKeeps

(* Others move: what is listed and matches remains so, and nothing moves up. *)
LEMMA OthersKeep ==
    ASSUME PagingInv, Move, UNCHANGED shown,
           rows' \in Seq(Row), Len(rows') <= MaxInvoices,
           \A i \in Listed(walk.filter) : i \in Listed(walk.filter)',
           steady' \subseteq steady, steady' \subseteq MatchingIds(walk.filter)'
    PROVE  PagingInv'
<1>1. PagingTypeOK /\ walk \in Walk /\ walk.filter \in FilterStatuses
  BY PagingTypes DEF PagingInv, PagingTypeOK
<1>2. /\ walk' = [walk EXCEPT !.moves = @ + 1] /\ walk.pc # "idle"
      /\ walk.moves + 1 \in 0..MaxMoves /\ walk.moves + 1 # 0
  BY <1>1, PagingTypes, PagingConstants DEF Move
<1>3. /\ walk' \in Walk /\ walk'.moves # 0
      /\ walk'.pc = walk.pc /\ walk'.filter = walk.filter /\ walk'.offset = walk.offset
      /\ walk'.limit = walk.limit /\ walk'.collected = walk.collected /\ walk'.more = walk.more
  BY <1>1, <1>2 DEF Walk
<1>4. PagingTypeOK'
  BY <1>1, <1>3 DEF PagingTypeOK
<1>5. PICK before, after : before = Listed(walk.filter) /\ after = Listed(walk.filter)'
  OBVIOUS
<1>6. after \in SUBSET (1..Len(rows')) /\ Len(rows') \in Nat
  BY <1>5 DEF Listed
<1>7. /\ before \in SUBSET after /\ after \in SUBSET Int /\ IsFiniteSet(after)
      /\ IsFiniteSet(before) /\ before \in SUBSET Int
      /\ Cardinality(before) \in Nat /\ Cardinality(after) \in Nat
  <2>1. after \in SUBSET Int /\ IsFiniteSet(after) /\ Cardinality(after) \in Nat
    <3>1. IsFiniteSet(1..Len(rows')) /\ 1..Len(rows') \in SUBSET Int
      BY <1>6, FS_Interval
    <3> QED BY <1>6, <3>1, FS_Subset, FS_CardinalityType
  <2>2. before \in SUBSET Int /\ IsFiniteSet(before) /\ Cardinality(before) \in Nat
    BY <1>1, <1>5, ListSets
  <2> QED BY <1>5, <2>1, <2>2
<1>8. Cardinality(before) <= Cardinality(after)
  BY <1>7, FS_Subset
<1>9. ASSUME NEW i \in before PROVE Place(before, i) <= Place(after, i)
  <2> DEFINE above == {j \in after : j >= i}
             aboveBefore == {j \in before : j >= i}
  <2>1. aboveBefore \in SUBSET above /\ above \in SUBSET after
    BY <1>7
  <2>2. Cardinality(aboveBefore) <= Cardinality(above)
    <3> HIDE DEF above, aboveBefore
    <3> QED BY <1>7, <2>1, FS_Subset
  <2> QED BY <2>2 DEF Place
<1>10. \A i \in before : Place(before, i) \in Int /\ Place(after, i) \in Int
  <2>1. \A i \in before : Place(before, i) \in 1..Cardinality(before)
    BY <1>7, Places
  <2>2. \A i \in after : Place(after, i) \in 1..Cardinality(after)
    BY <1>7, Places
  <2>3. \A k \in 1..Cardinality(before) : k \in Int
    BY <1>7
  <2>4. \A k \in 1..Cardinality(after) : k \in Int
    BY <1>7
  <2> QED BY <1>7, <2>1, <2>2, <2>3, <2>4
<1>11. walk.offset \in Nat /\ walk.offset <= Cardinality(before)
  BY <1>1, <1>5, PagingTypes DEF PagingInv
<1>12. walk.offset <= Cardinality(after)
  BY <1>7, <1>8, <1>11
<1>13. \A i : Seen(i)' <=> Seen(i)
  BY <1>3 DEF Seen, Got
<1>14. \A i \in steady : i \in before
  BY <1>1, <1>5, ListSets DEF PagingInv
<1>15. ASSUME NEW i \in steady', Place(after, i) <= walk.offset \/ ~ walk.more PROVE Seen(i)'
  <2>1. i \in steady /\ i \in before
    BY <1>14
  <2>2. Place(before, i) <= walk.offset \/ ~ walk.more
    BY <1>9, <1>10, <1>11, <1>15, <2>1
  <2> QED BY <1>5, <1>13, <2>1, <2>2 DEF PagingInv
<1>16. /\ walk'.offset <= Cardinality(after)
       /\ \A i \in steady' : Place(after, i) <= walk'.offset \/ ~ walk'.more => Seen(i)'
  BY <1>3, <1>12, <1>15
<1>17. Listed(walk.filter)' = after
  BY <1>5
<1>18. /\ (walk.offset <= Cardinality(Listed(walk.filter)))'
       /\ (\A i \in steady : Place(Listed(walk.filter), i) <= walk.offset \/ ~ walk.more => Seen(i))'
  BY <1>16, <1>17 DEF Place
<1> QED BY <1>2, <1>3, <1>4, <1>18 DEF PagingInv

LEMMA IssueInvoiceKeeps ==
    ASSUME PagingInv, NEW status \in {"open", "paid"}, IssueInvoice(status)
    PROVE  PagingInv'
<1>1. /\ rows \in Seq(Row) /\ Len(rows) < MaxInvoices /\ Len(rows) \in Nat
      /\ rows' = Append(rows, [status |-> status, refunded |-> "none"])
      /\ Move /\ UNCHANGED <<shown, steady>>
  BY DEF PagingInv, PagingTypeOK, IssueInvoice
<1>2. [status |-> status, refunded |-> "none"] \in Row
  BY DEF Row
<1>3. /\ rows' \in Seq(Row) /\ Len(rows') = Len(rows) + 1
      /\ \A i \in DOMAIN rows : i \in DOMAIN rows' /\ rows'[i] = rows[i]
  <2>1. PICK row \in Row : row = [status |-> status, refunded |-> "none"]
    BY <1>2
  <2> QED BY <1>1, <2>1, AppendProperties
<1>4. Len(rows') <= MaxInvoices
  BY <1>1, <1>3, PagingConstants
<1>5. walk'.filter = walk.filter
  BY <1>1 DEF Move, PagingInv, PagingTypeOK, Walk
<1>6. \A i \in Listed(walk.filter) : i \in Listed(walk.filter)'
  BY <1>3, <1>5 DEF Listed
<1>7. \A i \in MatchingIds(walk.filter) : i \in MatchingIds(walk.filter)'
  BY <1>3, <1>5 DEF MatchingIds, Matches
<1>8. steady' \subseteq MatchingIds(walk.filter)'
  BY <1>1, <1>7 DEF PagingInv
<1> QED BY <1>1, <1>3, <1>4, <1>6, <1>8, OthersKeep

LEMMA RefundInvoiceKeeps ==
    ASSUME PagingInv, NEW i \in DOMAIN rows, RefundInvoice(i)
    PROVE  PagingInv'
<1>1. PICK amount \in {"part", "full"} : rows' = [rows EXCEPT ![i].refunded = amount]
  BY DEF RefundInvoice
<1>2. /\ rows \in Seq(Row) /\ Len(rows) \in Nat /\ Len(rows) <= MaxInvoices /\ DOMAIN rows = 1..Len(rows)
      /\ Move /\ UNCHANGED shown
      /\ steady' = {j \in steady : j = i => Matches(walk.filter, rows'[i])}
  BY DEF PagingInv, PagingTypeOK, RefundInvoice
<1>3. /\ DOMAIN rows' = DOMAIN rows
      /\ \A j \in DOMAIN rows : rows'[j] \in Row /\ rows'[j].status = rows[j].status
      /\ \A j \in DOMAIN rows : j # i => rows'[j] = rows[j]
  <2>1. \A j \in DOMAIN rows : rows[j] \in Row
    BY <1>2
  <2>2. [rows[i] EXCEPT !.refunded = amount] \in Row
    BY <2>1 DEF Row
  <2> QED BY <1>1, <2>1, <2>2 DEF Row
<1>4. rows' \in Seq(Row) /\ Len(rows') = Len(rows)
  <2>1. rows' = [j \in 1..Len(rows) |-> rows'[j]]
    BY <1>1, <1>2
  <2>2. rows' \in [1..Len(rows) -> Row]
    BY <1>2, <1>3, <2>1
  <2>3. rows' \in Seq(Row)
    BY <1>2, <2>2, SeqDef
  <2> QED BY <1>2, <1>3, <2>3
<1>5. walk'.filter = walk.filter
  BY <1>2 DEF Move, PagingInv, PagingTypeOK, Walk
<1>6. \A j \in Listed(walk.filter) : j \in Listed(walk.filter)'
  BY <1>3, <1>5 DEF Listed
<1>7. steady' \subseteq MatchingIds(walk.filter)'
  BY <1>2, <1>3, <1>5 DEF PagingInv, MatchingIds, Matches
<1>8. steady' \subseteq steady
  BY <1>2
<1> QED BY <1>2, <1>4, <1>6, <1>7, <1>8, OthersKeep

(* What an upstream call adds to the page, and to the offset. *)
LEMMA BatchRead ==
    ASSUME PagingInv, ReadBatch
    PROVE  \E listed \in SUBSET Int : \E matching \in SUBSET listed : \E read \in SUBSET listed :
           \E taken \in SUBSET listed, more \in BOOLEAN :
              /\ listed = Listed(walk.filter) /\ matching = MatchingIds(walk.filter)
              /\ listed \in SUBSET (1..MaxInvoices) /\ IsFiniteSet(listed)
              /\ taken = read \cap matching
              /\ Cardinality(taken) <= walk.limit - Len(walk.collected)
              /\ Cardinality(read) \in Nat
              /\ walk.offset + Cardinality(read) \in 0..Cardinality(listed)
              /\ \A i \in listed : Place(listed, i) <= walk.offset + Cardinality(read) <=>
                                      Place(listed, i) <= walk.offset \/ i \in read
              /\ \A i \in read : ~ (Place(listed, i) <= walk.offset)
              /\ ~ more => walk.offset + Cardinality(read) = Cardinality(listed)
              /\ walk' = [walk EXCEPT !.calls = @ + 1, !.collected = @ \o NewestFirst(taken),
                                      !.offset = @ + Cardinality(read), !.more = more]
<1> DEFINE listed == Listed(walk.filter)
           matching == MatchingIds(walk.filter)
           batch == UpstreamPage(walk.filter, walk.offset)
           wanted == walk.limit - Len(walk.collected)
           taken == Taken(batch, wanted)
           read == Consumed(batch, wanted)
           more == read # batch \/ HasMore(walk.filter, walk.offset)
<1>1. PagingTypeOK /\ walk.offset \in Nat /\ wanted \in Nat
  <2>1. PagingTypeOK
    BY DEF PagingInv
  <2>2. walk.offset \in Nat /\ walk.limit \in Nat /\ Len(walk.collected) \in Nat
    BY <2>1, PagingTypes
  <2>3. Len(walk.collected) < walk.limit
    BY DEF ReadBatch, Reading
  <2> QED BY <2>1, <2>2, <2>3
<1>2. /\ listed \in SUBSET Int /\ listed \in SUBSET (1..MaxInvoices) /\ IsFiniteSet(listed)
      /\ Cardinality(listed) \in Nat /\ matching \in SUBSET listed
  BY <1>1, PagingTypes, ListSets
<1>3. walk.offset \in 0..Cardinality(listed)
  BY <1>1, <1>2 DEF PagingInv
<1>4. batch = {i \in listed : Place(listed, i) \in (walk.offset + 1)..(walk.offset + BatchSize)}
  BY DEF UpstreamPage
<1>5. HasMore(walk.filter, walk.offset) <=> (Cardinality(listed) > walk.offset + BatchSize)
  BY DEF HasMore
<1>6. walk' = [walk EXCEPT !.calls = @ + 1, !.collected = @ \o NewestFirst(taken),
                           !.offset = @ + Cardinality(read), !.more = more]
  BY DEF ReadBatch
<1>7. batch \in SUBSET listed /\ batch \in SUBSET Int
  <2> HIDE DEF listed, batch
  <2> QED BY <1>2, <1>4
<1>8. IsFiniteSet(batch)
  <2> HIDE DEF listed, batch
  <2> QED BY <1>2, <1>7, FS_Subset
<1>9. /\ read \in SUBSET batch /\ \A i \in batch, j \in read : i >= j => i \in read
      /\ taken = read \cap matching /\ Cardinality(taken) <= wanted
  <2> HIDE DEF batch, wanted
  <2> QED BY <1>1, <1>7, <1>8, TakenIsRead
<1> HIDE DEF listed, matching, batch, wanted, taken, read
<1>10. PICK ids, offset, page, part :
          ids = listed /\ offset = walk.offset /\ page = batch /\ part = read
  OBVIOUS
<1>11. /\ Cardinality(part) \in Nat
       /\ offset + Cardinality(part) \in 0..Cardinality(ids)
       /\ \A i \in ids : Place(ids, i) <= offset + Cardinality(part) <=>
                            Place(ids, i) <= offset \/ i \in part
       /\ part = page /\ Cardinality(ids) <= offset + BatchSize =>
             offset + Cardinality(part) = Cardinality(ids)
  <2>1. ids \in SUBSET Int /\ IsFiniteSet(ids) /\ offset \in 0..Cardinality(ids)
    BY <1>2, <1>3, <1>10
  <2>2. page = {i \in ids : Place(ids, i) \in (offset + 1)..(offset + BatchSize)}
    BY <1>4, <1>10
  <2>3. part \in SUBSET page /\ \A i \in page, j \in part : i >= j => i \in part
    BY <1>9, <1>10
  <2>4. ReadFrom(ids, offset, page, part)
    BY <2>2, <2>3 DEF ReadFrom
  <2> QED BY <2>1, <2>4, OffsetMoves
<1>12. \A i \in read : ~ (Place(listed, i) <= walk.offset)
  <2>1. \A i \in batch : Place(listed, i) \in (walk.offset + 1)..(walk.offset + BatchSize)
    BY <1>4
  <2>2. \A k \in (walk.offset + 1)..(walk.offset + BatchSize) : ~ (k <= walk.offset)
    BY <1>1, PagingConstants
  <2> QED BY <1>9, <2>1, <2>2
<1>13. ~ more => walk.offset + Cardinality(read) = Cardinality(listed)
  <2>1. walk.offset + BatchSize \in Nat
    BY <1>1, PagingConstants
  <2> QED BY <1>2, <1>5, <1>10, <1>11, <2>1
<1>14. read \in SUBSET listed /\ taken \in SUBSET listed
  BY <1>7, <1>9
<1>15. more \in BOOLEAN
  OBVIOUS
<1> HIDE DEF more
<1>16. /\ listed = Listed(walk.filter) /\ matching = MatchingIds(walk.filter)
       /\ Cardinality(taken) <= walk.limit - Len(walk.collected)
  BY <1>9 DEF listed, matching, wanted
<1>17. /\ Cardinality(read) \in Nat
       /\ walk.offset + Cardinality(read) \in 0..Cardinality(listed)
       /\ \A i \in listed : Place(listed, i) <= walk.offset + Cardinality(read) <=>
                               Place(listed, i) <= walk.offset \/ i \in read
  BY <1>10, <1>11
<1>18. listed \in SUBSET Int /\ matching \in SUBSET listed
  BY <1>2
<1> USE <1>14, <1>15, <1>18
<1> WITNESS listed \in SUBSET Int
<1> WITNESS matching \in SUBSET listed
<1> WITNESS read \in SUBSET listed
<1> WITNESS taken \in SUBSET listed, more \in BOOLEAN
<1> QED BY <1>2, <1>6, <1>9, <1>12, <1>13, <1>16, <1>17

LEMMA ReadBatchKeeps ==
    ASSUME PagingInv, ReadBatch
    PROVE  PagingInv'
<1>1. PICK listed \in SUBSET Int : \E matching \in SUBSET listed : \E read \in SUBSET listed :
           \E taken \in SUBSET listed, more \in BOOLEAN :
              /\ listed = Listed(walk.filter) /\ matching = MatchingIds(walk.filter)
              /\ listed \in SUBSET (1..MaxInvoices) /\ IsFiniteSet(listed)
              /\ taken = read \cap matching
              /\ Cardinality(taken) <= walk.limit - Len(walk.collected)
              /\ Cardinality(read) \in Nat
              /\ walk.offset + Cardinality(read) \in 0..Cardinality(listed)
              /\ \A i \in listed : Place(listed, i) <= walk.offset + Cardinality(read) <=>
                                      Place(listed, i) <= walk.offset \/ i \in read
              /\ \A i \in read : ~ (Place(listed, i) <= walk.offset)
              /\ ~ more => walk.offset + Cardinality(read) = Cardinality(listed)
              /\ walk' = [walk EXCEPT !.calls = @ + 1, !.collected = @ \o NewestFirst(taken),
                                      !.offset = @ + Cardinality(read), !.more = more]
  BY BatchRead
<1>2. PICK matching \in SUBSET listed, read \in SUBSET listed, taken \in SUBSET listed,
            more \in BOOLEAN, n \in Nat :
              /\ listed = Listed(walk.filter) /\ matching = MatchingIds(walk.filter)
              /\ listed \in SUBSET (1..MaxInvoices) /\ IsFiniteSet(listed)
              /\ taken = read \cap matching
              /\ Cardinality(taken) <= walk.limit - Len(walk.collected)
              /\ n = Cardinality(read)
              /\ walk.offset + n \in 0..Cardinality(listed)
              /\ \A i \in listed : Place(listed, i) <= walk.offset + n <=>
                                      Place(listed, i) <= walk.offset \/ i \in read
              /\ \A i \in read : ~ (Place(listed, i) <= walk.offset)
              /\ ~ more => walk.offset + n = Cardinality(listed)
              /\ walk' = [walk EXCEPT !.calls = @ + 1, !.collected = @ \o NewestFirst(taken),
                                      !.offset = @ + n, !.more = more]
  BY <1>1
<1>3. /\ PagingTypeOK /\ walk \in Walk /\ UNCHANGED <<rows, shown, steady>> /\ walk.pc = "page"
      /\ Len(walk.collected) < walk.limit /\ walk.more /\ walk.calls < MaxCalls
  BY DEF PagingInv, ReadBatch, Reading, PagingTypeOK
<1>4. /\ walk.offset \in Nat /\ walk.limit \in Nat /\ walk.calls \in 0..MaxCalls
      /\ walk.collected \in Seq(1..MaxInvoices) /\ Len(walk.collected) \in Nat
      /\ Got \in Seq(1..MaxInvoices) /\ Len(Got) \in Nat /\ DOMAIN Got = 1..Len(Got)
      /\ shown \in Seq(1..MaxInvoices)
  BY <1>3, PagingTypes DEF PagingTypeOK
<1>5. /\ taken \in SUBSET listed /\ taken \in SUBSET Int /\ IsFiniteSet(taken)
      /\ Cardinality(taken) \in Nat /\ IsFiniteSet(matching) /\ Cardinality(listed) \in Nat
      /\ matching \in SUBSET Int
  BY <1>2, FS_Subset, FS_CardinalityType
<1> DEFINE new == NewestFirst(taken)
<1>6. /\ new \in Seq(taken) /\ Len(new) = Cardinality(taken) /\ DOMAIN new = 1..Len(new)
      /\ \A k \in 1..Len(new) : new[k] \in taken /\ Place(taken, new[k]) = k
      /\ \A i \in taken : Place(taken, i) \in 1..Len(new) /\ new[Place(taken, i)] = i
  BY <1>5, NewestFirstOrders
<1>7. new \in Seq(1..MaxInvoices) /\ Len(new) \in Nat
  <2> HIDE DEF new
  <2> QED BY <1>2, <1>5, <1>6, SeqMonotonic
<1>8. walk' = [walk EXCEPT !.calls = @ + 1, !.collected = @ \o new, !.offset = @ + n, !.more = more]
  BY <1>2
<1> HIDE DEF new
<1>9. /\ walk.collected \o new \in Seq(1..MaxInvoices)
      /\ Len(walk.collected \o new) = Len(walk.collected) + Len(new)
      /\ Got \o new \in Seq(1..MaxInvoices) /\ Len(Got \o new) = Len(Got) + Len(new)
      /\ \A k \in 1..Len(Got) : (Got \o new)[k] = Got[k]
      /\ \A k \in 1..Len(new) : (Got \o new)[Len(Got) + k] = new[k]
  BY <1>4, <1>7, ConcatProperties
<1>10. /\ walk' \in Walk /\ walk'.offset = walk.offset + n /\ walk'.more = more
       /\ walk'.collected = walk.collected \o new /\ walk'.pc = "page" /\ walk'.filter = walk.filter
       /\ walk'.limit = walk.limit /\ walk'.moves = walk.moves
  <2>1. walk.calls + 1 \in 0..MaxCalls /\ walk.offset + n \in Nat
    BY <1>2, <1>3, <1>4, PagingConstants
  <2> QED BY <1>2, <1>3, <1>8, <1>9, <2>1 DEF Walk
<1>11. PagingTypeOK'
  BY <1>3, <1>10 DEF PagingTypeOK
<1>12. Got' = Got \o new
  <2>1. shown \o (walk.collected \o new) = (shown \o walk.collected) \o new
    <3>1. PICK S, a, b, d : S = 1..MaxInvoices /\ a = shown /\ b = walk.collected /\ d = new
      OBVIOUS
    <3>2. a \in Seq(S) /\ b \in Seq(S) /\ d \in Seq(S)
      BY <1>4, <1>7, <3>1
    <3>3. (a \o b) \o d = a \o (b \o d)
      BY <3>2, ConcatAssociative
    <3> QED BY <3>1, <3>3
  <2> QED BY <1>3, <1>10, <2>1 DEF Got
<1>13. /\ Listed(walk.filter)' = listed /\ MatchingIds(walk.filter)' = matching
  BY <1>2, <1>3, <1>10 DEF Listed, MatchingIds
<1>14. Len(walk'.collected) <= walk'.limit
  BY <1>2, <1>4, <1>5, <1>6, <1>9, <1>10
<1>15. DOMAIN Got' = 1..(Len(Got) + Len(new)) /\ Len(Got') = Len(Got) + Len(new)
  BY <1>9, <1>12
<1>16. ASSUME NEW i, Seen(i) \/ i \in taken PROVE Seen(i)'
  <2>1. CASE Seen(i)
    <3>1. PICK k \in 1..Len(Got) : Got[k] = i
      BY <1>4, <2>1 DEF Seen
    <3>2. k \in DOMAIN Got' /\ Got'[k] = i
      BY <1>4, <1>7, <1>9, <1>12, <1>15, <3>1
    <3> QED BY <3>2 DEF Seen
  <2>2. CASE i \in taken
    <3>1. PICK k \in 1..Len(new) : new[k] = i
      BY <1>6, <2>2
    <3>2. Len(Got) + k \in DOMAIN Got' /\ Got'[Len(Got) + k] = i
      BY <1>4, <1>7, <1>9, <1>12, <1>15, <3>1
    <3> QED BY <3>2 DEF Seen
  <2> QED BY <1>16, <2>1, <2>2
<1>17. ASSUME NEW i \in steady, Place(listed, i) <= walk.offset + n \/ ~ more PROVE Seen(i)'
  <2>1. i \in matching /\ i \in listed
    BY <1>2 DEF PagingInv
  <2>2. Place(listed, i) <= walk.offset + n
    <3>1. Place(listed, i) \in 1..Cardinality(listed)
      BY <1>2, <2>1, Places
    <3>2. Place(listed, i) <= Cardinality(listed)
      BY <1>5, <3>1
    <3> QED BY <1>2, <1>17, <3>2
  <2>3. CASE Place(listed, i) <= walk.offset
    BY <1>2, <1>16, <2>3 DEF PagingInv
  <2>4. CASE i \in read
    BY <1>2, <1>16, <2>1, <2>4
  <2> QED BY <1>2, <2>1, <2>2, <2>3, <2>4
<1>18. ASSUME walk.moves = 0 PROVE ReadInOrder'
  <2> DEFINE top == {i \in matching : Place(listed, i) <= walk.offset}
  <2>1. /\ \A k \in 1..Len(Got) : Got[k] \in matching /\ Place(matching, Got[k]) = k
        /\ Cardinality(top) = Len(Got)
    BY <1>2, <1>4, <1>18 DEF PagingInv, ReadInOrder
  <2>2. top \in SUBSET matching /\ taken \in SUBSET matching /\ top \cap taken = {}
    BY <1>2
  <2>3. ASSUME NEW x \in taken
        PROVE  {j \in matching : j >= x} = top \cup {j \in taken : j >= x}
    <3>0. \A i \in listed : i \in Int /\ Place(listed, i) \in Int
      <4>1. \A i \in listed : Place(listed, i) \in 1..Cardinality(listed)
        BY <1>2, Places
      <4>2. \A k \in 1..Cardinality(listed) : k \in Int
        BY <1>5
      <4> QED BY <4>1, <4>2
    <3>1. /\ x \in read /\ x \in matching /\ x \in listed
          /\ Place(listed, x) <= walk.offset + n /\ ~ (Place(listed, x) <= walk.offset)
      BY <1>2
    <3>2. ASSUME NEW j \in matching, j >= x PROVE j \in top \/ j \in taken
      <4>1. j = x \/ x < j
        BY <3>0, <3>1, <3>2
      <4>2. x < j => Place(listed, j) < Place(listed, x)
        BY <1>2, <3>1, Places
      <4>3. Place(listed, j) <= walk.offset + n
        BY <1>2, <1>4, <3>0, <3>1, <4>1, <4>2
      <4> QED BY <1>2, <4>3
    <3>3. ASSUME NEW j \in top PROVE j \in matching /\ j >= x
      <4>1. j \in listed /\ Place(listed, j) <= walk.offset
        BY <1>2
      <4>2. j < x => Place(listed, x) < Place(listed, j)
        BY <1>2, <3>1, <4>1, Places
      <4>3. ~ (j < x)
        BY <1>4, <3>0, <3>1, <4>1, <4>2
      <4> QED BY <3>0, <3>1, <4>1, <4>3
    <3> QED BY <2>2, <3>2, <3>3
  <2>4. ASSUME NEW k \in 1..Len(new) PROVE new[k] \in matching /\ Place(matching, new[k]) = Len(Got) + k
    <3>1. new[k] \in taken /\ Place(taken, new[k]) = k
      BY <1>6
    <3>2. Place(matching, new[k]) = Cardinality(top) + Place(taken, new[k])
      <4>1. PICK x \in taken : x = new[k]
        BY <3>1
      <4>2. {j \in matching : j >= x} = top \cup {j \in taken : j >= x}
        BY <2>3
      <4> HIDE DEF top
      <4>3. Place(matching, x) = Cardinality(top) + Place(taken, x)
        BY <1>5, <2>2, <4>2, PlaceBelow
      <4> QED BY <4>1, <4>3
    <3> QED BY <2>1, <2>2, <3>1, <3>2
  <2>5. \A k \in DOMAIN Got' : Got'[k] \in matching /\ Place(matching, Got'[k]) = k
    <3> SUFFICES ASSUME NEW k \in DOMAIN Got'
                 PROVE  Got'[k] \in matching /\ Place(matching, Got'[k]) = k
      OBVIOUS
    <3>1. CASE k \in 1..Len(Got)
      <4>1. Got'[k] = Got[k]
        BY <1>9, <1>12, <3>1
      <4> QED BY <2>1, <3>1, <4>1
    <3>2. CASE k \notin 1..Len(Got)
      <4>1. PICK m \in 1..Len(new) : k = Len(Got) + m
        <5>1. k - Len(Got) \in 1..Len(new) /\ k = Len(Got) + (k - Len(Got))
          BY <1>4, <1>7, <1>15, <3>2
        <5> QED BY <5>1
      <4>2. Got'[k] = new[m]
        BY <1>9, <1>12, <4>1
      <4> QED BY <2>4, <4>1, <4>2
    <3> QED BY <3>1, <3>2
  <2>6. {i \in matching : Place(listed, i) <= walk.offset + n} = top \cup taken
    BY <1>2
  <2>7. Cardinality(top \cup taken) = Len(Got) + Len(new)
    <3>1. IsFiniteSet(top)
      BY <1>5, FS_Subset
    <3>2. Cardinality(top \cup taken) = Cardinality(top) + Cardinality(taken) - Cardinality(top \cap taken)
      <4> HIDE DEF top
      <4> QED BY <1>5, <3>1, FS_Union
    <3>3. Cardinality(top \cap taken) = 0
      BY <2>2, FS_EmptySet
    <3> HIDE DEF top
    <3> QED BY <1>4, <1>5, <1>6, <2>1, <3>2, <3>3
  <2> HIDE DEF top
  <2>8. ~ walk'.more => walk'.offset = Cardinality(listed)
    BY <1>2, <1>10
  <2>9. Cardinality({i \in matching : Place(listed, i) <= walk'.offset}) = Len(Got')
    BY <1>10, <1>15, <2>6, <2>7
  <2>10. /\ \A k \in DOMAIN Got' : Got'[k] \in matching /\ Place(matching, Got'[k]) = k
         /\ Cardinality({i \in matching : Place(listed, i) <= walk'.offset}) = Len(Got')
         /\ ~ walk'.more => walk'.offset = Cardinality(listed)
    BY <2>5, <2>8, <2>9
  <2> QED BY <1>13, <2>10 DEF ReadInOrder, Place
<1>19. walk'.offset <= Cardinality(listed)
  BY <1>2, <1>4, <1>5, <1>10
<1>20. \A i \in steady' : Place(listed, i) <= walk'.offset \/ ~ walk'.more => Seen(i)'
  BY <1>3, <1>10, <1>17
<1>21. /\ (walk.offset <= Cardinality(Listed(walk.filter)))'
       /\ (\A i \in steady : Place(Listed(walk.filter), i) <= walk.offset \/ ~ walk.more => Seen(i))'
       /\ (steady \subseteq MatchingIds(walk.filter))'
  BY <1>2, <1>3, <1>13, <1>19, <1>20 DEF Place, PagingInv
<1> QED BY <1>10, <1>11, <1>14, <1>18, <1>21 DEF PagingInv

-----------------------------------------------------------------------------
LEMMA PagingNextInv == PagingInv /\ [PagingNext]_pageVars => PagingInv'
<1> SUFFICES ASSUME PagingInv, [PagingNext]_pageVars PROVE PagingInv'
  OBVIOUS
<1>1. CASE PagingNext
  BY <1>1, FirstPageKeeps, NextPageKeeps, ReadBatchKeeps, ShowPageKeeps, IssueInvoiceKeeps,
     RefundInvoiceKeeps DEF PagingNext
<1>2. CASE UNCHANGED pageVars
  <2>1. /\ UNCHANGED <<rows, walk, shown, steady>>
        /\ Listed(walk.filter)' = Listed(walk.filter)
        /\ MatchingIds(walk.filter)' = MatchingIds(walk.filter)
    BY <1>2 DEF pageVars, Listed, MatchingIds
  <2>2. Got' = Got /\ \A i : Seen(i)' <=> Seen(i)
    BY <2>1 DEF Seen, Got
  <2>3. ReadInOrder => ReadInOrder'
    BY <2>1, <2>2 DEF ReadInOrder, Place
  <2> QED BY <2>1, <2>2, <2>3 DEF PagingInv, PagingTypeOK, Place
<1> QED BY <1>1, <1>2

(* For every batch size, page size, list and history of invoices issued and refunded: what
   has been read of the list is on the pages. *)
THEOREM PagingInvariant == PagingSpec => []PagingInv
BY PagingInitInv, PagingNextInv, PTL DEF PagingSpec

(* A walk to the last page leaves out nothing that was there and matched throughout
   (billing-service.ts:155-182). *)
THEOREM NothingIsSkipped == PagingSpec => []NothingSkipped
<1>1. PagingInv => NothingSkipped
  <2> SUFFICES ASSUME PagingInv, walk.pc = "done", NEW i \in steady
               PROVE  \E k \in DOMAIN shown : shown[k] = i
    BY DEF NothingSkipped
  <2>1. Seen(i) /\ walk.collected = << >>
    BY DEF PagingInv
  <2>2. Got = shown
    BY <2>1, ConcatEmptySeq DEF Got, PagingInv, PagingTypeOK
  <2> QED BY <2>1, <2>2 DEF Seen
<1> QED BY <1>1, PagingInvariant, PTL

(* While nothing is issued or refunded, the pages are the list: each matching invoice
   once, newest first (billing-service.ts:155-182, cursor.ts:18-66). *)
THEOREM PagesShowTheList == PagingSpec => []PagesAreTheList
<1>1. PagingInv => PagesAreTheList
  <2> SUFFICES ASSUME PagingInv, walk.moves = 0, walk.pc # "idle"
               PROVE  LET wanted == NewestFirst(MatchingIds(walk.filter))
                      IN  /\ Len(Got) <= Len(wanted) /\ Got = SubSeq(wanted, 1, Len(Got))
                          /\ walk.pc = "done" => Got = wanted
                          /\ Len(walk.collected) <= walk.limit
    BY DEF PagesAreTheList, Got
  <2>1. /\ PagingTypeOK /\ walk.filter \in FilterStatuses /\ Got \in Seq(1..MaxInvoices)
        /\ Len(Got) \in Nat /\ DOMAIN Got = 1..Len(Got)
    BY PagingTypes DEF PagingInv
  <2>2. PICK listed, matching : listed = Listed(walk.filter) /\ matching = MatchingIds(walk.filter)
    OBVIOUS
  <2>3. /\ matching \in SUBSET listed /\ matching \in SUBSET Int /\ IsFiniteSet(matching)
        /\ listed \in SUBSET Int /\ IsFiniteSet(listed) /\ Cardinality(listed) \in Nat
    BY <2>1, <2>2, ListSets
  <2>4. /\ \A k \in 1..Len(Got) : Got[k] \in matching /\ Place(matching, Got[k]) = k
        /\ Cardinality({i \in matching : Place(listed, i) <= walk.offset}) = Len(Got)
        /\ ~ walk.more => walk.offset = Cardinality(listed)
    BY <2>1, <2>2 DEF PagingInv, ReadInOrder
  <2>5. PICK wanted : wanted = NewestFirst(matching)
    OBVIOUS
  <2>6. /\ wanted \in Seq(matching) /\ Len(wanted) = Cardinality(matching)
        /\ Cardinality(matching) \in Nat
        /\ \A i \in matching : Place(matching, i) \in 1..Len(wanted) /\ wanted[Place(matching, i)] = i
    BY <2>3, <2>5, NewestFirstOrders
  <2>7. Len(Got) <= Len(wanted)
    <3> DEFINE top == {i \in matching : Place(listed, i) <= walk.offset}
    <3>1. top \in SUBSET matching
      OBVIOUS
    <3>2. Cardinality(top) <= Cardinality(matching)
      <4> HIDE DEF top
      <4> QED BY <2>3, <3>1, FS_Subset
    <3> QED BY <2>4, <2>6, <3>2
  <2>8. \A k \in 1..Len(Got) : wanted[k] = Got[k]
    BY <2>4, <2>6
  <2>9. Got = SubSeq(wanted, 1, Len(Got))
    <3> DEFINE prefix == SubSeq(wanted, 1, Len(Got))
    <3>1. /\ prefix \in Seq(matching) /\ Len(prefix) = Len(Got)
          /\ \A k \in 1..Len(Got) : prefix[k] = wanted[k]
      BY <2>1, <2>6, <2>7, SubSeqProperties
    <3> HIDE DEF prefix
    <3>2. Got = prefix
      BY <2>1, <2>8, <3>1, SeqEqual
    <3> QED BY <3>2 DEF prefix
  <2>10. ASSUME walk.pc = "done" PROVE Got = wanted
    <3>1. walk.offset = Cardinality(listed)
      BY <2>4, <2>10 DEF PagingInv
    <3>2. \A i \in matching : Place(listed, i) <= walk.offset
      <4>1. \A i \in matching : Place(listed, i) \in 1..Cardinality(listed)
        BY <2>3, Places
      <4> QED BY <2>3, <3>1, <4>1
    <3>3. {i \in matching : Place(listed, i) <= walk.offset} = matching
      BY <3>2
    <3>4. Len(Got) = Len(wanted)
      BY <2>4, <2>6, <3>3
    <3> QED BY <2>1, <2>6, <2>8, <3>4, SeqEqual
  <2>11. Len(walk.collected) <= walk.limit
    BY DEF PagingInv
  <2> QED BY <2>2, <2>5, <2>7, <2>9, <2>10, <2>11
<1> QED BY <1>1, PagingInvariant, PTL

=============================================================================
