---------------------------- MODULE BillingProofs ----------------------------
(***************************************************************************)
(* Proofs about Billing.tla for every set of payments, keys, amounts and   *)
(* concurrent requests. The inductive invariant says what the row lock and *)
(* the sum buy: a request between its sum and its insert holds its         *)
(* payment's row, so what it saw as refundable still is. What a sum over   *)
(* rows gains with one more row is by induction over finite sets.          *)
(***************************************************************************)
EXTENDS Billing, FiniteSetTheorems, WellFoundedInduction, TLAPS

-----------------------------------------------------------------------------
(* Sums over finite sets of rows.  The library's sum takes the elements one by one in an
   order that it chooses; the order does not matter. *)

(* Induction over the subsets of a finite set: what has the empty set, and each set whose
   sets of one element less it has, has the whole. *)
LEMMA SetInduction ==
    ASSUME NEW S, IsFiniteSet(S), NEW F, {} \in F,
           \A T \in SUBSET S : T # {} /\ (\A x \in T : T \ {x} \in F) => T \in F
    PROVE  \A T \in SUBSET S : T \in F
<1> DEFINE Missing == (SUBSET S) \ F
<1> SUFFICES ASSUME Missing # {} PROVE FALSE
  OBVIOUS
<1>1. IsWellFoundedOn(StrictSubsetOrdering(S), FiniteSubsetsOf(S))
  BY FS_StrictSubsetOrderingWellFounded
<1>2. Missing \subseteq FiniteSubsetsOf(S)
  BY FS_FiniteSubsetsOfFinite
<1>3. PICK T \in Missing : \A U \in Missing : ~ (<<U, T>> \in StrictSubsetOrdering(S))
  <2> HIDE DEF Missing
  <2> QED BY <1>1, <1>2, WFMin
<1>4. PICK x \in T : T \ {x} \notin F
  OBVIOUS
<1>5. T \ {x} \in Missing
  BY <1>4
<1>6. <<T \ {x}, T>> \in StrictSubsetOrdering(S)
  BY <1>4 DEF StrictSubsetOrdering
<1> QED BY <1>3, <1>5, <1>6

(* f gives each subset of S its sum, whichever element is taken first. *)
IsSum(S, f) ==
    /\ f \in [SUBSET S -> Int] /\ f[{}] = 0
    /\ \A T \in SUBSET S : \A x \in T : f[T] = x.amount + f[T \ {x}]

LEMMA SumExists ==
    ASSUME NEW S, IsFiniteSet(S), \A x \in S : x.amount \in Int
    PROVE  \E f : IsSum(S, f)
<1> DEFINE F == {T \in SUBSET S : \E f : IsSum(T, f)}
<1>1. {} \in F
  <2> DEFINE f == [T \in {{}} |-> 0]
  <2>1. IsSum({}, f)
    BY DEF IsSum
  <2> QED BY <2>1
<1>2. ASSUME NEW T \in SUBSET S, T # {}, \A x \in T : T \ {x} \in F
      PROVE  T \in F
  <2>1. PICK x \in T : TRUE
    BY <1>2
  <2>2. PICK f : IsSum(T \ {x}, f)
    BY <1>2
  <2> DEFINE g == [U \in SUBSET T |-> IF x \in U THEN x.amount + f[U \ {x}] ELSE f[U]]
  <2>3. /\ f \in [SUBSET (T \ {x}) -> Int] /\ f[{}] = 0 /\ x.amount \in Int
        /\ \A U \in SUBSET (T \ {x}) : \A y \in U : f[U] = y.amount + f[U \ {y}]
    BY <2>2 DEF IsSum
  <2>4. \A U \in SUBSET T : U \ {x} \in SUBSET (T \ {x})
    OBVIOUS
  <2>5. \A U \in SUBSET T : x \notin U => U \in SUBSET (T \ {x})
    OBVIOUS
  <2>6. g \in [SUBSET T -> Int]
    BY <2>3, <2>4, <2>5
  <2>7. g[{}] = 0
    BY <2>3
  <2>8. ASSUME NEW U \in SUBSET T, NEW y \in U PROVE g[U] = y.amount + g[U \ {y}]
    <3>1. y.amount \in Int
      OBVIOUS
    <3>2. CASE x \notin U
      <4>1. U \in SUBSET (T \ {x}) /\ x \notin U \ {y} /\ U \ {y} \in SUBSET T
        BY <3>2
      <4>2. g[U] = f[U] /\ g[U \ {y}] = f[U \ {y}]
        BY <3>2, <4>1
      <4> QED BY <2>3, <4>1, <4>2
    <3>3. CASE x \in U /\ y = x
      <4>1. U \ {x} \in SUBSET T /\ x \notin U \ {x}
        OBVIOUS
      <4>2. g[U] = x.amount + f[U \ {x}] /\ g[U \ {x}] = f[U \ {x}]
        BY <3>3, <4>1
      <4> QED BY <3>3, <4>2
    <3>4. CASE x \in U /\ y # x
      <4> DEFINE R == U \ {x}
      <4>1. /\ R \in SUBSET (T \ {x}) /\ y \in R
            /\ x \in U \ {y} /\ U \ {y} \in SUBSET T /\ (U \ {y}) \ {x} = R \ {y}
            /\ R \ {y} \in SUBSET (T \ {x})
        BY <3>4
      <4>2. g[U] = x.amount + f[R] /\ g[U \ {y}] = x.amount + f[(U \ {y}) \ {x}]
        BY <3>4, <4>1
      <4>3. f[R] = y.amount + f[R \ {y}] /\ f[R \ {y}] \in Int
        BY <2>3, <4>1
      <4>4. g[U \ {y}] = x.amount + f[R \ {y}]
        BY <4>1, <4>2
      <4> HIDE DEF g, R
      <4> QED BY <2>3, <3>1, <4>2, <4>3, <4>4
    <3> QED BY <3>2, <3>3, <3>4
  <2>9. IsSum(T, g)
    <3> HIDE DEF g
    <3> QED BY <2>6, <2>7, <2>8 DEF IsSum
  <2> QED BY <2>9
<1>3. \A T \in SUBSET S : T \in F
  <2>1. \A T \in SUBSET S : T # {} /\ (\A x \in T : T \ {x} \in F) => T \in F
    BY <1>2
  <2> HIDE DEF F
  <2> QED BY <1>1, <2>1, SetInduction
<1>4. S \in F
  BY <1>3
<1> QED BY <1>4

(* The library's sum is that sum. *)
LEMMA SumIs ==
    ASSUME NEW S, IsFiniteSet(S), NEW f, IsSum(S, f)
    PROVE  SumOf(S) = f[S]
<1> DEFINE First(s) == CHOOSE x \in s : TRUE
           Takes(g) == g = [s \in SUBSET S |->
                              IF s = {} THEN 0 ELSE First(s).amount + g[s \ {First(s)}]]
           iter == CHOOSE g : Takes(g)
<1>1. SumOf(S) = iter[S]
  BY DEF SumOf, MapThenSumSet, MapThenFoldSet
<1>2. \A s \in SUBSET S : s # {} => First(s) \in s
  OBVIOUS
<1>3. Takes(f)
  <2> DEFINE h == [s \in SUBSET S |->
                     IF s = {} THEN 0 ELSE First(s).amount + f[s \ {First(s)}]]
  <2>1. f \in [SUBSET S -> Int]
    BY DEF IsSum
  <2>2. ASSUME NEW s \in SUBSET S PROVE f[s] = h[s]
    <3>1. CASE s = {}
      BY <3>1 DEF IsSum
    <3>2. CASE s # {}
      <4>1. First(s) \in s
        BY <1>2, <3>2
      <4>2. f[s] = First(s).amount + f[s \ {First(s)}]
        <5> HIDE DEF First
        <5> QED BY <4>1 DEF IsSum
      <4> QED BY <3>2, <4>2
    <3> QED BY <3>1, <3>2
  <2>3. f = h
    <3>1. DOMAIN f = SUBSET S /\ DOMAIN h = SUBSET S
      BY <2>1
    <3> HIDE DEF h
    <3>2. f = [s \in SUBSET S |-> f[s]]
      BY <2>1
    <3>3. h = [s \in SUBSET S |-> h[s]]
      BY DEF h
    <3> QED BY <2>2, <3>2, <3>3
  <2> QED BY <2>3
<1>4. Takes(iter)
  <2> HIDE DEF Takes
  <2> QED BY <1>3
<1>5. \A s \in SUBSET S : iter[s] = IF s = {} THEN 0 ELSE First(s).amount + iter[s \ {First(s)}]
  <2> HIDE DEF iter, First
  <2> QED BY <1>4
<1> HIDE DEF iter, First, Takes
<1> DEFINE F == {s \in SUBSET S : iter[s] = f[s]}
<1>6. {} \in F
  BY <1>5 DEF IsSum
<1>7. ASSUME NEW s \in SUBSET S, s # {}, \A x \in s : s \ {x} \in F PROVE s \in F
  <2>1. First(s) \in s
    BY <1>2, <1>7
  <2>2. iter[s \ {First(s)}] = f[s \ {First(s)}]
    BY <1>7, <2>1
  <2>3. iter[s] = First(s).amount + iter[s \ {First(s)}]
    BY <1>5, <1>7
  <2>4. f[s] = First(s).amount + f[s \ {First(s)}]
    BY <2>1 DEF IsSum
  <2> QED BY <2>2, <2>3, <2>4
<1>8. \A s \in SUBSET S : s \in F
  <2>1. \A s \in SUBSET S : s # {} /\ (\A x \in s : s \ {x} \in F) => s \in F
    BY <1>7
  <2> HIDE DEF F
  <2> QED BY <1>6, <2>1, SetInduction
<1> QED BY <1>1, <1>8

(* What a row adds to the sum. *)
LEMMA SumOfEmpty == SumOf({}) = 0
<1>1. IsFiniteSet({})
  BY FS_EmptySet
<1>2. PICK f : IsSum({}, f)
  BY <1>1, SumExists
<1> QED BY <1>1, <1>2, SumIs DEF IsSum

LEMMA SumAdds ==
    ASSUME NEW S, IsFiniteSet(S), \A x \in S : x.amount \in Int,
           NEW y, y \notin S, y.amount \in Int
    PROVE  SumOf(S \cup {y}) = SumOf(S) + y.amount /\ SumOf(S) \in Int
<1> DEFINE R == S \cup {y}
<1>1. IsFiniteSet(R) /\ \A x \in R : x.amount \in Int
  BY FS_AddElement
<1>2. PICK f : IsSum(R, f)
  BY <1>1, SumExists
<1>3. f \in [SUBSET R -> Int] /\ f[{}] = 0
      /\ \A T \in SUBSET R : \A x \in T : f[T] = x.amount + f[T \ {x}]
  BY <1>2 DEF IsSum
<1>4. SumOf(R) = f[R]
  <2> HIDE DEF R
  <2> QED BY <1>1, <1>2, SumIs
<1> DEFINE h == [T \in SUBSET S |-> f[T]]
<1>5. IsSum(S, h)
  <2>1. SUBSET S \subseteq SUBSET R
    OBVIOUS
  <2>2. h \in [SUBSET S -> Int] /\ h[{}] = 0
    BY <1>3, <2>1
  <2>3. ASSUME NEW T \in SUBSET S, NEW x \in T PROVE h[T] = x.amount + h[T \ {x}]
    <3>1. T \in SUBSET R /\ T \ {x} \in SUBSET S
      OBVIOUS
    <3> QED BY <1>3, <3>1
  <2> HIDE DEF h
  <2> QED BY <2>2, <2>3 DEF IsSum
<1>6. SumOf(S) = f[S]
  <2>1. SumOf(S) = h[S]
    <3> HIDE DEF h
    <3> QED BY <1>5, SumIs
  <2> QED BY <2>1
<1>7. f[R] = y.amount + f[S] /\ f[S] \in Int
  <2>1. y \in R /\ R \ {y} = S /\ R \in SUBSET R /\ S \in SUBSET R
    OBVIOUS
  <2> HIDE DEF R
  <2> QED BY <1>3, <2>1
<1> QED BY <1>4, <1>6, <1>7

LEMMA SumIsInt ==
    ASSUME NEW S, IsFiniteSet(S), \A x \in S : x.amount \in Int
    PROVE  SumOf(S) \in Int
<1>1. PICK f : IsSum(S, f)
  BY SumExists
<1>2. SumOf(S) = f[S]
  BY <1>1, SumIs
<1> QED BY <1>1, <1>2 DEF IsSum

-----------------------------------------------------------------------------
(* What a payment's sum is made of, and what an insert does to it. *)
RowsTyped == refunds \subseteq Row /\ IsFiniteSet(refunds)

LEMMA AmountsAreInts == \A r \in Row : r.payment \in Payments /\ r.amount \in Int
<1>1. \A r \in Row : r.payment \in Payments /\ r.amount \in Amounts
  BY DEF Row
<1>2. Amounts \subseteq Int
  BY BillingAssumption
<1> QED BY <1>1, <1>2

LEMMA RefundedIsInt ==
    ASSUME RowsTyped, NEW p \in Payments
    PROVE  refunded[p] \in Int /\ Left(p) \in Int
<1> DEFINE Of == {r \in refunds : r.payment = p}
<1>1. IsFiniteSet(Of) /\ \A r \in Of : r.amount \in Int
  BY FS_Subset, AmountsAreInts DEF RowsTyped
<1>2. SumOf(Of) \in Int
  <2> HIDE DEF Of
  <2> QED BY <1>1, SumIsInt
<1>3. SeedRefunded[p] \in Int /\ PaymentAmount[p] \in Int
  BY BillingAssumption
<1>4. refunded[p] = SeedRefunded[p] + SumOf(Of)
  BY DEF refunded
<1> HIDE DEF Of
<1> QED BY <1>2, <1>3, <1>4 DEF Left

LEMMA SumsStand ==
    ASSUME UNCHANGED refunds
    PROVE  /\ refunded' = refunded
           /\ \A p \in Payments : Left(p)' = Left(p)
BY DEF refunded, Left

LEMMA InsertAdds ==
    ASSUME RowsTyped, NEW STATE x, x \in Row, x \notin refunds, refunds' = refunds \cup {x}
    PROVE  /\ RowsTyped'
           /\ refunded'[x.payment] = refunded[x.payment] + x.amount
           /\ \A p \in Payments \ {x.payment} :
                 refunded'[p] = refunded[p] /\ Left(p)' = Left(p)
<1> DEFINE Of(p) == {r \in refunds : r.payment = p}
<1>1. x.payment \in Payments /\ x.amount \in Int /\ \A r \in refunds : r.amount \in Int
  BY AmountsAreInts DEF RowsTyped
<1>2. RowsTyped'
  BY FS_AddElement DEF RowsTyped
<1>3. refunded'[x.payment] = refunded[x.payment] + x.amount
  <2> DEFINE S == Of(x.payment)
  <2>1. {r \in refunds' : r.payment = x.payment} = S \cup {x}
    OBVIOUS
  <2>2. IsFiniteSet(S) /\ x \notin S /\ \A r \in S : r.amount \in Int
    BY <1>1, FS_Subset DEF RowsTyped
  <2>3. SumOf(S \cup {x}) = SumOf(S) + x.amount /\ SumOf(S) \in Int
    <3> HIDE DEF S
    <3> QED BY <1>1, <2>2, SumAdds
  <2>4. /\ refunded[x.payment] = SeedRefunded[x.payment] + SumOf(S)
        /\ refunded'[x.payment] = SeedRefunded[x.payment] + SumOf(S \cup {x})
    BY <1>1, <2>1 DEF refunded
  <2>5. SeedRefunded[x.payment] \in Int
    BY <1>1, BillingAssumption
  <2> HIDE DEF S
  <2> QED BY <1>1, <2>3, <2>4, <2>5
<1>4. ASSUME NEW p \in Payments \ {x.payment} PROVE refunded'[p] = refunded[p] /\ Left(p)' = Left(p)
  <2>1. {r \in refunds' : r.payment = p} = Of(p)
    BY <1>4
  <2> QED BY <2>1 DEF refunded, Left
<1> QED BY <1>2, <1>3, <1>4

-----------------------------------------------------------------------------
(* A request inside its transaction holds the row lock of its payment. *)
HoldsLock ==
    \A c \in Calls :
       http[c].pc \in {"locked", "summed"} => payLock[http[c].payment] = c

(* A request that passed the check still fits when it inserts. *)
StillFits ==
    \A c \in Calls :
       http[c].pc = "summed" => http[c].amount <= Left(http[c].payment)

BillingInv ==
    /\ BillingTypeOK
    /\ RowsTyped
    /\ HoldsLock
    /\ StillFits
    /\ NoOverRefund
    /\ OneRefundPerKey

LEMMA BillingInitInv == BillingInit => BillingInv
<1> SUFFICES ASSUME BillingInit PROVE BillingInv
  OBVIOUS
<1>1. \A p \in Payments : refunded[p] = SeedRefunded[p]
  <2>1. \A p \in Payments : {r \in refunds : r.payment = p} = {}
    BY DEF BillingInit
  <2> QED BY <2>1, SumOfEmpty, BillingAssumption DEF refunded
<1>2. NoOverRefund
  BY <1>1, BillingAssumption DEF NoOverRefund
<1> QED
  BY <1>2, FS_EmptySet DEF BillingInit, BillingInv, BillingTypeOK, RowsTyped, HoldsLock, StillFits,
     OneRefundPerKey, NoRequest, Request

(* Rows and sums are as before, and so is what they say. *)
LEMMA SumsKeep ==
    ASSUME BillingInv, UNCHANGED refunds
    PROVE  /\ RowsTyped' /\ NoOverRefund' /\ OneRefundPerKey'
           /\ \A p \in Payments : Left(p)' = Left(p)
BY SumsStand DEF BillingInv, RowsTyped, NoOverRefund, OneRefundPerKey

(* A row is inserted: it was checked under the lock that its request still holds. *)
LEMMA InsertKeeps ==
    ASSUME BillingInv, NEW c \in Calls, InsertRefund(c), Under(http[c].key) = {}
    PROVE  /\ NewRow(c) \in Row /\ NewRow(c) \notin refunds
           /\ refunds' = refunds \cup {NewRow(c)}
           /\ refunded'[http[c].payment] = refunded[http[c].payment] + http[c].amount
           /\ \A p \in Payments \ {http[c].payment} :
                 refunded'[p] = refunded[p] /\ Left(p)' = Left(p)
           /\ RowsTyped' /\ NoOverRefund' /\ OneRefundPerKey'
<1> DEFINE x == NewRow(c)
           p == http[c].payment
<1>1. /\ http[c].pc = "summed" /\ http[c].key \in Keys /\ p \in Payments
      /\ http[c].amount \in Amounts /\ refunds' = refunds \cup {x}
  BY DEF InsertRefund, BillingInv, BillingTypeOK
<1>2. x \in Row /\ x.payment = p /\ x.amount = http[c].amount /\ x.key = http[c].key
  BY <1>1 DEF NewRow, Row
<1>3. x \notin refunds
  BY <1>2 DEF Under
<1>4. /\ RowsTyped' /\ refunded'[p] = refunded[p] + http[c].amount
      /\ \A q \in Payments \ {p} : refunded'[q] = refunded[q] /\ Left(q)' = Left(q)
  <2>1. RowsTyped
    BY DEF BillingInv
  <2> HIDE DEF x
  <2> QED BY <1>1, <1>2, <1>3, <2>1, InsertAdds
<1>5. refunded'[p] <= PaymentAmount[p]
  <2>1. http[c].amount <= PaymentAmount[p] - refunded[p]
    BY <1>1 DEF BillingInv, StillFits, Left
  <2>2. refunded[p] \in Int /\ PaymentAmount[p] \in Int /\ http[c].amount \in Int
    BY <1>1, RefundedIsInt, BillingAssumption DEF BillingInv
  <2> HIDE DEF p
  <2> QED BY <1>4, <2>1, <2>2
<1>6. NoOverRefund'
  <2> HIDE DEF p
  <2> QED BY <1>4, <1>5 DEF BillingInv, NoOverRefund
<1>7. OneRefundPerKey'
  <2> HIDE DEF x
  <2> QED BY <1>1, <1>2 DEF BillingInv, OneRefundPerKey, Under
<1> QED BY <1>1, <1>2, <1>3, <1>4, <1>6, <1>7

(* What a request's own step leaves of everyone else's. *)
LEMMA BillingStepInv ==
    ASSUME BillingInv, NEW c \in Calls, BillingStep(c)
    PROVE  BillingInv'
<1> USE BillingAssumption DEF BillingInv
<1>1. CASE LookUp(c)
  <2>1. CASE Replay(c)
    BY <2>1, <1>1, SumsKeep DEF LookUp, Replay, Answer, Under, BillingTypeOK, Request, Row,
       HoldsLock, StillFits, Refusal
  <2>2. CASE Goto(c, "open") /\ UNCHANGED <<refunds, payLock>>
    BY <2>2, <1>1, SumsKeep DEF LookUp, Goto, BillingTypeOK, Request, HoldsLock, StillFits
  <2> QED BY <1>1, <2>1, <2>2 DEF LookUp
<1>2. CASE LockPayment(c)
  BY <1>2, SumsKeep DEF LockPayment, Lock, Goto, Answer, BillingTypeOK, Request, HoldsLock,
     StillFits, Refusal
<1>3. CASE SumRefunds(c)
  <2>1. http[c].payment \in Payments /\ http[c].amount \in Amounts /\ http[c].amount \in Int
    <3>1. http[c].pc # "idle"
      BY <1>3 DEF SumRefunds
    <3>2. Amounts \subseteq Int
      OBVIOUS
    <3> QED BY <3>1, <3>2 DEF BillingTypeOK
  <2>2. Left(http[c].payment) \in Int
    BY <2>1, RefundedIsInt
  <2> QED
    BY <1>3, <2>1, <2>2, SumsKeep DEF SumRefunds, Unlock, Goto, Answer, BillingTypeOK, Request,
       HoldsLock, StillFits, Refusal
<1>4. CASE InsertRefund(c)
  <2>1. CASE Under(http[c].key) # {}
    BY <1>4, <2>1, SumsKeep DEF InsertRefund, Unlock, Goto, BillingTypeOK, Request, HoldsLock,
       StillFits
  <2>2. CASE Under(http[c].key) = {}
    <3> DEFINE x == NewRow(c)
    <3>1. /\ http[c].pc = "summed" /\ Unlock(http[c].payment) /\ Answer(c, "created", c)
          /\ x \in Row /\ refunds' = refunds \cup {x}
          /\ \A p \in Payments \ {http[c].payment} : Left(p)' = Left(p)
      BY <1>4, <2>2, InsertKeeps DEF InsertRefund
    <3> HIDE DEF x
    <3>2. BillingTypeOK'
      <4>1. http[c].pc # "idle" /\ http[c] \in Request
        BY <3>1 DEF BillingTypeOK
      <4>2. [http[c] EXCEPT !.pc = "done", !.reply = "created", !.ref = c] \in Request
        BY <4>1 DEF Request
      <4>3. http' = [http EXCEPT ![c] = [@ EXCEPT !.pc = "done", !.reply = "created", !.ref = c]]
        BY <3>1 DEF Answer, BillingTypeOK
      <4>4. http' \in [Calls -> Request] /\ payLock' \in [Payments -> Calls \cup {None}]
        BY <3>1, <4>2, <4>3 DEF Unlock, BillingTypeOK
      <4> QED BY <3>1, <4>1, <4>3, <4>4 DEF BillingTypeOK
    <3>3. HoldsLock' /\ StillFits'
      BY <3>1 DEF Unlock, Answer, BillingTypeOK, Request, HoldsLock, StillFits
    <3> QED BY <1>4, <2>2, <3>2, <3>3, InsertKeeps
  <2> QED BY <2>1, <2>2
<1>5. CASE ReplayRaced(c)
  BY <1>5, SumsKeep DEF ReplayRaced, Replay, Answer, Under, BillingTypeOK, Request, Row,
     HoldsLock, StillFits, Refusal
<1>6. CASE RollBack(c)
  <2> USE <1>6 DEF RollBack, Unlock, Answer
  <2>1. BillingTypeOK'
    <3>1. http[c].pc # "idle" /\ http[c] \in Request
      BY DEF BillingTypeOK
    <3>2. [http[c] EXCEPT !.pc = "done", !.reply = "error", !.ref = None] \in Request
      BY <3>1 DEF Request, Refusal
    <3> QED BY <3>1, <3>2 DEF BillingTypeOK
  <2>2. HoldsLock' /\ StillFits'
    BY SumsKeep DEF BillingTypeOK, Request, HoldsLock, StillFits
  <2> QED BY <2>1, <2>2, SumsKeep
<1> QED
  BY <1>1, <1>2, <1>3, <1>4, <1>5, <1>6 DEF BillingStep, HandlerStep

LEMMA BillingPostInv ==
    ASSUME BillingInv, NEW c \in Calls, NEW k \in Keys, NEW p \in Payments, NEW a \in Amounts,
           Post(c, k, p, a), UNCHANGED <<refunds, payLock>>
    PROVE  BillingInv'
BY BillingAssumption, SumsKeep
   DEF BillingInv, Post, BillingTypeOK, Request, HoldsLock, StillFits

-----------------------------------------------------------------------------
LEMMA BillingNextInv == BillingInv /\ [BillingNext]_billingVars => BillingInv'
<1> SUFFICES ASSUME BillingInv, [BillingNext]_billingVars
             PROVE  BillingInv'
  OBVIOUS
<1>1. CASE BillingNext
  BY <1>1, BillingStepInv, BillingPostInv DEF BillingNext
<1>2. CASE UNCHANGED billingVars
  BY <1>2, SumsKeep DEF billingVars, BillingInv, BillingTypeOK, HoldsLock, StillFits
<1> QED BY <1>1, <1>2

(* The row lock, the sum it protects and the two bounds hold of every run. *)
THEOREM BillingInvariant == BillingSpec => []BillingInv
BY BillingInitInv, BillingNextInv, PTL DEF BillingSpec

(* For every number of payments, keys and concurrent requests, no payment is
   refunded beyond its amount (billing.ts:577-612). *)
THEOREM NeverOverRefunds == BillingSpec => []NoOverRefund
BY BillingInvariant, PTL DEF BillingInv

(* A key never pays out twice (billing.ts:552-574, 637-644). *)
THEOREM KeysPayOnce == BillingSpec => []OneRefundPerKey
BY BillingInvariant, PTL DEF BillingInv

-----------------------------------------------------------------------------
(* Answers: rows are never removed, so what an answer reported stays true. *)

LEMMA AnswerStep ==
    ASSUME BillingInv, AnswerTruthful, NEW c \in Calls, BillingStep(c)
    PROVE  AnswerTruthful'
<1> USE BillingAssumption DEF BillingInv, BillingTypeOK, AnswerTruthful, Under, Request, Refusal
<1>1. CASE LookUp(c) \/ ReplayRaced(c)
  <2>1. CASE Replay(c)
    BY <2>1 DEF Replay, Answer, Row
  <2>2. CASE Goto(c, "open") /\ UNCHANGED <<refunds, payLock>>
    BY <2>2 DEF Goto
  <2> QED BY <1>1, <2>1, <2>2 DEF LookUp, ReplayRaced
<1>2. CASE LockPayment(c)
  BY <1>2 DEF LockPayment, Goto, Answer
<1>3. CASE SumRefunds(c)
  BY <1>3 DEF SumRefunds, Goto, Answer
<1>4. CASE InsertRefund(c)
  BY <1>4 DEF InsertRefund, Goto, Answer
<1>5. CASE RollBack(c)
  BY <1>5 DEF RollBack, Answer
<1> QED BY <1>1, <1>2, <1>3, <1>4, <1>5 DEF BillingStep, HandlerStep

LEMMA AnswerPost ==
    ASSUME BillingInv, AnswerTruthful, UNCHANGED <<refunds, payLock>>,
           NEW c \in Calls, NEW k, NEW p, NEW a, Post(c, k, p, a)
    PROVE  AnswerTruthful'
BY DEF BillingInv, BillingTypeOK, AnswerTruthful, Under, Post

(* For every number of concurrent requests, a success answer names a stored refund of
   what was asked, and a refused key belongs to a different refund (billing.ts:552-574). *)
THEOREM AnswersTruthful == BillingSpec => []AnswerTruthful
<1>1. BillingInit => AnswerTruthful
  BY DEF BillingInit, AnswerTruthful, NoRequest
<1>2. BillingInv /\ AnswerTruthful /\ [BillingNext]_billingVars => AnswerTruthful'
  <2> SUFFICES ASSUME BillingInv, AnswerTruthful, [BillingNext]_billingVars
               PROVE  AnswerTruthful'
    OBVIOUS
  <2>1. CASE BillingNext
    BY <2>1, AnswerStep, AnswerPost DEF BillingNext
  <2>2. CASE UNCHANGED billingVars
    BY <2>2 DEF billingVars, AnswerTruthful, Under
  <2> QED BY <2>1, <2>2
<1> QED BY <1>1, <1>2, BillingInvariant, PTL DEF BillingSpec

-----------------------------------------------------------------------------
(* The handler implements the abstract ledger of RefundLedger.tla. *)

LEMMA InsertPays ==
    ASSUME BillingInv, NEW c \in Calls, InsertRefund(c)
    PROVE  Ledger!Next \/ UNCHANGED Ledger!ledgerVars
<1> DEFINE k == http[c].key
           p == http[c].payment
           a == http[c].amount
<1>1. k \in Keys /\ p \in Payments /\ a \in Amounts /\ http[c].pc = "summed"
  BY DEF BillingInv, BillingTypeOK, InsertRefund
<1>2. CASE Under(k) # {}
  BY <1>2, SumsStand DEF InsertRefund, Ledger!ledgerVars
<1>3. CASE Under(k) = {}
  <2>1. /\ refunds' = refunds \cup {NewRow(c)}
        /\ refunded'[p] = refunded[p] + a
        /\ \A q \in Payments \ {p} : refunded'[q] = refunded[q]
    BY <1>3, InsertKeeps
  <2>2. refunded[p] + a <= PaymentAmount[p]
    <3>1. a <= PaymentAmount[p] - refunded[p]
      BY <1>1 DEF BillingInv, StillFits, Left
    <3>2. refunded[p] \in Int /\ PaymentAmount[p] \in Int /\ a \in Int
      BY <1>1, RefundedIsInt, BillingAssumption DEF BillingInv
    <3> HIDE DEF p, a
    <3> QED BY <3>1, <3>2
  <2>3. \A r \in refunds : Entry(r).key # k
    BY <1>3 DEF Under, Entry
  <2>4. Entry(NewRow(c)) = [key |-> k, payment |-> p, amount |-> a]
    BY DEF Entry, NewRow
  <2>5. {Entry(r) : r \in refunds'} = {Entry(r) : r \in refunds} \cup {Entry(NewRow(c))}
    BY <2>1
  <2>6. refunded' = [refunded EXCEPT ![p] = @ + a]
    <3> HIDE DEF p, a
    <3> QED BY <1>1, <2>1 DEF refunded
  <2> HIDE DEF k, p, a
  <2>7. Ledger!Pay(k, p, a)
    BY <2>2, <2>3, <2>4, <2>5, <2>6 DEF Ledger!Pay
  <2> QED BY <1>1, <2>7 DEF Ledger!Next
<1> QED BY <1>2, <1>3

(* A step of a composition moves money in one way only: a row is inserted. *)
OnlyInserts == UNCHANGED refunds \/ \E c \in Calls : InsertRefund(c)

LEMMA HandlersOnlyInsert ==
    ASSUME NEW c \in Calls, BillingStep(c)
    PROVE  OnlyInserts
BY DEF OnlyInserts, BillingStep, HandlerStep, LookUp, LockPayment, SumRefunds, ReplayRaced,
   Replay, RollBack

LEMMA BillingOnlyInserts == [BillingNext]_billingVars => OnlyInserts
<1>1. CASE BillingNext
  BY <1>1, HandlersOnlyInsert DEF BillingNext, OnlyInserts
<1>2. CASE UNCHANGED billingVars
  BY <1>2 DEF billingVars, OnlyInserts
<1> QED BY <1>1, <1>2

LEMMA InsertsPay == BillingInv /\ OnlyInserts => [Ledger!Next]_(Ledger!ledgerVars)
<1> SUFFICES ASSUME BillingInv, OnlyInserts
             PROVE  Ledger!Next \/ UNCHANGED Ledger!ledgerVars
  OBVIOUS
<1>1. CASE UNCHANGED refunds
  BY <1>1, SumsStand DEF Ledger!ledgerVars
<1>2. ASSUME NEW c \in Calls, InsertRefund(c)
      PROVE  Ledger!Next \/ UNCHANGED Ledger!ledgerVars
  BY <1>2, InsertPays
<1> QED BY <1>1, <1>2 DEF OnlyInserts

LEMMA LedgerBegins == BillingInit => Ledger!Init
<1> SUFFICES ASSUME BillingInit PROVE Ledger!Init
  OBVIOUS
<1>1. \A p \in Payments : {r \in refunds : r.payment = p} = {}
  BY DEF BillingInit
<1>2. \A p \in Payments : refunded[p] = SeedRefunded[p]
  BY <1>1, SumOfEmpty, BillingAssumption DEF refunded
<1>3. refunded = SeedRefunded
  BY <1>2, BillingAssumption DEF refunded
<1> QED BY <1>3 DEF BillingInit, Ledger!Init

(* Every behaviour of the concurrent handler is one of the ledger: each commit of a
   new row is one payment of it, everything else leaves it alone. *)
THEOREM BillingImplementsLedger == BillingSpec => ImplementsLedger
BY LedgerBegins, BillingOnlyInserts, InsertsPay, BillingInvariant, PTL
   DEF BillingSpec, Ledger!Spec, ImplementsLedger

=============================================================================
