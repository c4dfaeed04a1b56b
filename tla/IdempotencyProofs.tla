-------------------------- MODULE IdempotencyProofs --------------------------
(***************************************************************************)
(* Proofs about Idempotency.tla for every set of calls, ids and results.   *)
(* The inductive invariant: a call that holds its lock, and has not        *)
(* outlived it, is named by it; so while nobody has outlived the lock of   *)
(* an id and its result has not expired, the stored result is the one      *)
(* every successful caller was given, and whoever runs finds none stored.  *)
(***************************************************************************)
EXTENDS Idempotency, TLAPS

(* A call past the lock still owns it, unless it outlived it. *)
OwnsLock ==
    \A c \in Calls :
       idem[c].pc \in Holding /\ c \notin overran => idemLock[idem[c].id] = c

(* Only calls that have started outlive a lock. *)
OverranStarted == \A c \in overran : idem[c].pc # "idle"

(* Nobody outlived the lock of i, and its result has not expired. *)
Clean(i) == i \notin forgotten /\ \A e \in overran : idem[e].id # i

(* Whoever runs for a clean id finds no result stored. *)
RunsUnstored ==
    \A c \in Calls :
       idem[c].pc \in {"run", "store"} /\ Clean(idem[c].id) => Stored(c) = None

(* What a finished run waits to store is a result. *)
HasResult == \A c \in Calls : idem[c].pc = "store" => idem[c].result \in Results

(* Success comes with the stored result of a clean id. *)
AnsweredStored ==
    \A c \in Calls :
       idem[c].answer \in Success =>
          /\ idem[c].pc \in {"release", "done"}
          /\ idem[c].result \in Results
          /\ Clean(idem[c].id) => Stored(c) = idem[c].result

IdemInv ==
    /\ IdemTypeOK
    /\ OwnsLock
    /\ OverranStarted
    /\ RunsUnstored
    /\ HasResult
    /\ AnsweredStored

LEMMA IdemInitInv == IdemInit => IdemInv
BY IdempotencyAssumption
   DEF IdemInit, IdemInv, IdemTypeOK, IdemCall, NoCall, OwnsLock, OverranStarted, RunsUnstored,
       HasResult, AnsweredStored, Holding, Success

-----------------------------------------------------------------------------
(* What a step of call c leaves of the calls. *)

Steps == {"idle", "look", "lock", "poll", "late", "run", "store", "release", "done"}

LEMMA SettleMoves ==
    ASSUME IdemTypeOK, NEW c \in Calls, NEW pc \in Steps, NEW r \in Results \cup {None},
           NEW answer \in {"none", "conflict", "failed"} \cup Success,
           Settle(c, pc, answer, r)
    PROVE  /\ idem' \in [Calls -> IdemCall]
           /\ \A d \in Calls \ {c} : idem'[d] = idem[d]
           /\ idem'[c].pc = pc /\ idem'[c].id = idem[c].id
           /\ idem'[c].answer = answer /\ idem'[c].result = r
<1>1. [idem[c] EXCEPT !.pc = pc, !.answer = answer, !.result = r] \in IdemCall
  BY DEF IdemTypeOK, IdemCall, Steps
<1>2. idem' = [idem EXCEPT ![c] = [idem[c] EXCEPT !.pc = pc, !.answer = answer, !.result = r]]
  BY DEF Settle, IdemTypeOK, IdemCall
<1> QED BY <1>1, <1>2 DEF IdemTypeOK, IdemCall

LEMMA GoMoves ==
    ASSUME IdemTypeOK, NEW c \in Calls, NEW pc \in Steps, Go(c, pc)
    PROVE  /\ idem' \in [Calls -> IdemCall]
           /\ \A d \in Calls \ {c} : idem'[d] = idem[d]
           /\ idem'[c].pc = pc /\ idem'[c].id = idem[c].id
           /\ idem'[c].answer = idem[c].answer /\ idem'[c].result = idem[c].result
<1>1. [idem[c] EXCEPT !.pc = pc] \in IdemCall
  BY DEF IdemTypeOK, IdemCall, Steps
<1> QED BY <1>1 DEF Go, IdemTypeOK, IdemCall

LEMMA EnterMoves ==
    ASSUME IdemTypeOK, NEW c \in Calls, NEW i \in Ids, Enter(c, i)
    PROVE  /\ idem' \in [Calls -> IdemCall]
           /\ \A d \in Calls \ {c} : idem'[d] = idem[d]
           /\ idem'[c].pc = "look" /\ idem'[c].id = i
           /\ idem'[c].answer = idem[c].answer
<1>1. idem[c] \in IdemCall
  BY DEF IdemTypeOK
<1>2. [idem[c] EXCEPT !.pc = "look", !.id = i] \in IdemCall
  BY <1>1 DEF IdemCall
<1>3. idem' = [idem EXCEPT ![c] = [idem[c] EXCEPT !.pc = "look", !.id = i]]
  BY DEF Enter
<1> QED BY <1>1, <1>2, <1>3 DEF IdemTypeOK, IdemCall

(* A call that gives up answers no success and holds nothing from now on. *)
LEMMA EndsOtherwise ==
    ASSUME IdemInv, NEW c \in Calls, idem[c].pc # "idle",
           NEW pc \in {"done", "release"}, idem[c].pc \in Holding \/ pc = "done",
           NEW answer \in {"conflict", "failed"},
           Settle(c, pc, answer, None), UNCHANGED <<idemResult, idemLock, overran, forgotten>>
    PROVE  IdemInv'
<1>1. /\ idem' \in [Calls -> IdemCall]
      /\ \A d \in Calls \ {c} : idem'[d] = idem[d]
      /\ idem'[c].pc = pc /\ idem'[c].id = idem[c].id
      /\ idem'[c].answer = answer /\ idem'[c].result = None
  BY SettleMoves DEF IdemInv, Steps
<1>2. \A d \in Calls : idem'[d].id = idem[d].id
  BY <1>1
<1> QED
  BY <1>1, <1>2, IdempotencyAssumption
     DEF IdemInv, IdemTypeOK, OwnsLock, OverranStarted, RunsUnstored, HasResult,
         AnsweredStored, Clean, Stored, Holding, Success

(* The run ends with a result: the call keeps its lock and stores it next. *)
LEMMA RunDoneKeeps ==
    ASSUME IdemInv, NEW c \in Calls, NEW r \in Results, RunDone(c, r)
    PROVE  IdemInv'
<1>1. /\ idem' \in [Calls -> IdemCall]
      /\ \A d \in Calls \ {c} : idem'[d] = idem[d]
      /\ idem'[c].pc = "store" /\ idem'[c].id = idem[c].id
      /\ idem'[c].answer = "none" /\ idem'[c].result = r
  BY SettleMoves DEF IdemInv, RunDone, Steps
<1>2. idem[c].pc = "run" /\ UNCHANGED <<idemResult, idemLock, overran, forgotten>>
  BY DEF RunDone
<1>3. \A d \in Calls : idem'[d].id = idem[d].id
  BY <1>1
<1>4. \A d \in Calls : idem'[d].pc # idem[d].pc => d = c
  BY <1>1
<1>5. IdemTypeOK'
  BY <1>1, <1>2, <1>3, <1>4 DEF IdemInv, IdemTypeOK
<1>6. OwnsLock'
  BY <1>1, <1>2, <1>3, <1>4 DEF IdemInv, OwnsLock, Holding
<1>7. OverranStarted'
  BY <1>1, <1>2, <1>4 DEF IdemInv, IdemTypeOK, OverranStarted
<1>8. RunsUnstored'
  BY <1>1, <1>2, <1>3, <1>4 DEF IdemInv, IdemTypeOK, RunsUnstored, OwnsLock, Holding, Clean, Stored
<1>9. HasResult'
  BY <1>1, <1>4 DEF IdemInv, HasResult
<1>10. AnsweredStored'
  BY <1>1, <1>2, <1>3, <1>4 DEF IdemInv, IdemTypeOK, AnsweredStored, Clean, Stored, Success
<1> QED BY <1>5, <1>6, <1>7, <1>8, <1>9, <1>10 DEF IdemInv

(* Storing: while the id is clean, nobody has been answered another result. *)
LEMMA StoreKeeps ==
    ASSUME IdemInv, NEW c \in Calls, Store(c)
    PROVE  IdemInv'
<1>1. /\ idem[c].pc = "store" /\ idem[c].id \in Ids /\ idem[c].result \in Results
      /\ Settle(c, "release", "ran", idem[c].result)
      /\ UNCHANGED <<idemLock, overran, forgotten>>
  BY DEF Store, IdemInv, IdemTypeOK, HasResult
<1>2. /\ idem' \in [Calls -> IdemCall]
      /\ \A d \in Calls \ {c} : idem'[d] = idem[d]
      /\ idem'[c].pc = "release" /\ idem'[c].id = idem[c].id
      /\ idem'[c].answer = "ran" /\ idem'[c].result = idem[c].result
  BY <1>1, SettleMoves DEF IdemInv, Steps, Success
<1>3. /\ idemResult' \in [Ids -> Results \cup {None}]
      /\ idemResult'[idem[c].id] = idem[c].result
      /\ \A i \in Ids : i # idem[c].id => idemResult'[i] = idemResult[i]
  BY <1>1 DEF Store, IdemInv, IdemTypeOK
<1>4. \A d \in Calls : idem'[d].id = idem[d].id
  BY <1>2
<1>5. \A d \in Calls : idem'[d].pc # idem[d].pc => d = c
  BY <1>2
<1>6. IdemTypeOK'
  BY <1>1, <1>2, <1>3, <1>4, <1>5 DEF IdemInv, IdemTypeOK
<1>7. OwnsLock'
  BY <1>1, <1>2, <1>4, <1>5 DEF IdemInv, OwnsLock, Holding
<1>8. OverranStarted'
  BY <1>1, <1>2, <1>5 DEF IdemInv, IdemTypeOK, OverranStarted
<1>9. RunsUnstored'
  BY <1>1, <1>2, <1>3, <1>4, <1>5, IdempotencyAssumption
     DEF IdemInv, IdemTypeOK, RunsUnstored, OwnsLock, Holding, Clean, Stored
<1>10. HasResult'
  BY <1>1, <1>2, <1>5 DEF IdemInv, HasResult
<1>11. AnsweredStored'
  BY <1>1, <1>2, <1>3, <1>4, <1>5, IdempotencyAssumption
     DEF IdemInv, IdemTypeOK, AnsweredStored, RunsUnstored, Clean, Stored, Success
<1> QED BY <1>6, <1>7, <1>8, <1>9, <1>10, <1>11 DEF IdemInv

-----------------------------------------------------------------------------
LEMMA IdemNextInv == IdemInv /\ [IdemNext]_idemVars => IdemInv'
<1> SUFFICES ASSUME IdemInv, [IdemNext]_idemVars
             PROVE  IdemInv'
  OBVIOUS
<1> USE IdempotencyAssumption
    DEF IdemInv, IdemTypeOK, OwnsLock, OverranStarted, RunsUnstored, HasResult,
        AnsweredStored, Clean, Stored, Holding, Success, Steps
<1>1. ASSUME NEW c \in Calls, NEW i \in Ids, Enter(c, i)
      PROVE  IdemInv'
  <2>1. c \notin overran /\ idem[c].answer \notin Success
    BY <1>1 DEF Enter
  <2>2. /\ idem' \in [Calls -> IdemCall]
        /\ \A d \in Calls \ {c} : idem'[d] = idem[d]
        /\ idem'[c].pc = "look" /\ idem'[c].id = i
        /\ idem'[c].answer = idem[c].answer
    BY <1>1, EnterMoves
  <2>3. UNCHANGED <<idemResult, idemLock, overran, forgotten>>
    BY <1>1 DEF Enter
  <2> QED BY <2>1, <2>2, <2>3
<1>2. ASSUME NEW c \in Calls, FirstLook(c)
      PROVE  IdemInv'
  BY <1>2, GoMoves, SettleMoves DEF FirstLook
<1>3. ASSUME NEW c \in Calls, TryLock(c)
      PROVE  IdemInv'
  <2>1. CASE idemLock[idem[c].id] = None
    BY <1>3, <2>1, GoMoves DEF TryLock
  <2>2. CASE idemLock[idem[c].id] # None /\ Go(c, "poll")
    BY <1>3, <2>2, GoMoves DEF TryLock
  <2>3. CASE idemLock[idem[c].id] # None /\ Settle(c, "done", "conflict", None)
    BY <1>3, <2>3, EndsOtherwise DEF TryLock
  <2> QED BY <1>3, <2>1, <2>2, <2>3 DEF TryLock
<1>4. ASSUME NEW c \in Calls, Poll(c)
      PROVE  IdemInv'
  BY <1>4, GoMoves, SettleMoves DEF Poll
<1>5. ASSUME NEW c \in Calls, LateLook(c)
      PROVE  IdemInv'
  <2>1. CASE Stored(c) # None
    BY <1>5, <2>1, SettleMoves DEF LateLook
  <2>2. CASE Stored(c) = None
    BY <1>5, <2>2, GoMoves DEF LateLook
  <2> QED BY <2>1, <2>2
<1>6. ASSUME NEW c \in Calls, Store(c)
      PROVE  IdemInv'
  BY <1>6, StoreKeeps
<1>7. ASSUME NEW c \in Calls, Release(c)
      PROVE  IdemInv'
  BY <1>7, GoMoves DEF Release, Released
<1>8. ASSUME NEW c \in Calls, RunEnds(c)
      PROVE  IdemInv'
  <2>1. ASSUME NEW r \in Results, RunDone(c, r)
        PROVE  IdemInv'
    BY <2>1, RunDoneKeeps
  <2>2. CASE RunFails(c)
    BY <2>2, EndsOtherwise DEF RunFails
  <2> QED BY <1>8, <2>1, <2>2 DEF RunEnds
<1>9. ASSUME NEW c \in Calls, RedisFails(c)
      PROVE  IdemInv'
  <2>1. CASE idem[c].pc = "release" /\ Go(c, "done")
    BY <1>9, <2>1, GoMoves DEF RedisFails
  <2>2. CASE idem[c].pc # "release" \/ ~ Go(c, "done")
    BY <1>9, <2>2, EndsOtherwise DEF RedisFails
  <2> QED BY <2>1, <2>2
<1>10. ASSUME NEW c \in Calls, Die(c)
       PROVE  IdemInv'
  BY <1>10, EndsOtherwise DEF Die
<1>11. ASSUME NEW i \in Ids, LockExpires(i)
       PROVE  IdemInv'
  BY <1>11 DEF LockExpires
<1>12. ASSUME NEW i \in Ids, ResultExpires(i)
       PROVE  IdemInv'
  BY <1>12 DEF ResultExpires
<1>13. CASE UNCHANGED idemVars
  BY <1>13 DEF idemVars
<1> QED
  BY <1>1, <1>2, <1>3, <1>4, <1>5, <1>6, <1>7, <1>8, <1>9, <1>10, <1>11, <1>12, <1>13
     DEF IdemNext, IdemStep

-----------------------------------------------------------------------------
(* What compositions with the run rely on: calls keep their ids, and the wrapper leaves
   calls alone that are in their run. *)
LEMMA StepLeaves ==
    ASSUME IdemTypeOK, NEW c \in Calls,
           IdemStep(c) \/ RunEnds(c) \/ RedisFails(c) \/ Die(c)
    PROVE  /\ \A d \in Calls \ {c} : idem'[d] = idem[d]
           /\ idem[c].pc # "idle" /\ idem'[c].pc # "idle" /\ idem'[c].id = idem[c].id
           /\ IdemStep(c) \/ RedisFails(c) => idem[c].pc # "run"
<1> USE DEF Steps, Success
<1>1. CASE FirstLook(c) \/ Poll(c) \/ LateLook(c)
  <2>1. idem[c].pc \in {"look", "poll", "late"}
    BY <1>1 DEF FirstLook, Poll, LateLook
  <2>2. Stored(c) \in Results \cup {None}
    BY <2>1 DEF IdemTypeOK, Stored
  <2> QED BY <1>1, <2>1, <2>2, GoMoves, SettleMoves DEF FirstLook, Poll, LateLook
<1>2. CASE TryLock(c) \/ Release(c)
  BY <1>2, GoMoves, SettleMoves DEF TryLock, Release
<1>3. CASE Store(c)
  <2>1. idem[c].result \in Results \cup {None}
    BY DEF IdemTypeOK, IdemCall
  <2> QED BY <1>3, <2>1, SettleMoves DEF Store
<1>4. CASE RunEnds(c)
  BY <1>4, SettleMoves
     DEF RunEnds, RunDone, RunFails, IdemStep, FirstLook, TryLock, Poll, LateLook, Store, Release,
         RedisFails
<1>5. CASE RedisFails(c)
  BY <1>5, GoMoves, SettleMoves DEF RedisFails
<1>6. CASE Die(c)
  BY <1>6, SettleMoves
     DEF Die, IdemStep, FirstLook, TryLock, Poll, LateLook, Store, Release, RedisFails
<1> QED BY <1>1, <1>2, <1>3, <1>4, <1>5, <1>6 DEF IdemStep

(* What was answered is stored until it expires. *)
Remembered ==
    \A c \in Calls : idem[c].answer \in Success => Stored(c) # None \/ idem[c].id \in forgotten

LEMMA StoredStays ==
    ASSUME IdemInv, [IdemNext]_idemVars
    PROVE  /\ forgotten \subseteq forgotten'
           /\ \A i \in Ids : idemResult[i] # None => idemResult'[i] # None \/ i \in forgotten'
<1> USE DEF IdemInv, IdemTypeOK
<1>1. ASSUME NEW c \in Calls, Store(c)
      PROVE  /\ forgotten' = forgotten
             /\ \A i \in Ids : idemResult[i] # None => idemResult'[i] # None
  <2>1. idem[c].result # None
    BY <1>1, IdempotencyAssumption DEF Store, HasResult
  <2> QED BY <1>1, <2>1 DEF Store
<1>2. ASSUME NEW i \in Ids, ResultExpires(i)
      PROVE  /\ forgotten \subseteq forgotten'
             /\ \A j \in Ids : idemResult[j] # None => idemResult'[j] # None \/ j \in forgotten'
  BY <1>2 DEF ResultExpires
<1>3. ASSUME UNCHANGED <<idemResult, forgotten>>
      PROVE  /\ forgotten \subseteq forgotten'
             /\ \A i \in Ids : idemResult[i] # None => idemResult'[i] # None
  BY <1>3
<1>4. \/ UNCHANGED <<idemResult, forgotten>>
      \/ \E c \in Calls : Store(c)
      \/ \E i \in Ids : ResultExpires(i)
  BY DEF IdemNext, IdemStep, Enter, FirstLook, TryLock, Poll, LateLook, Release, RunEnds, RunDone,
         RunFails, RedisFails, Die, LockExpires, idemVars
<1> QED BY <1>1, <1>2, <1>3, <1>4

LEMMA RememberedKept == IdemInv /\ Remembered /\ [IdemNext]_idemVars => Remembered'
<1> SUFFICES ASSUME IdemInv, Remembered, [IdemNext]_idemVars PROVE Remembered'
  OBVIOUS
<1>1. IdemTypeOK
  BY DEF IdemInv
<1>2. /\ forgotten \subseteq forgotten'
      /\ \A i \in Ids : idemResult[i] # None => idemResult'[i] # None \/ i \in forgotten'
  BY StoredStays
<1>3. ASSUME NEW d \in Calls, idem'[d] = idem[d], idem'[d].answer \in Success
      PROVE  Stored(d)' # None \/ idem'[d].id \in forgotten'
  <2>1. idem[d].id \in Ids
    BY <1>1, <1>3 DEF IdemInv, AnsweredStored, IdemTypeOK
  <2> QED BY <1>2, <1>3, <2>1 DEF Remembered, Stored
<1>4. ASSUME NEW c \in Calls, FirstLook(c) \/ Poll(c) \/ LateLook(c) PROVE Remembered'
  <2>1. ASSUME Stored(c) # None, NEW pc \in {"done", "release"}, Settle(c, pc, "replayed", Stored(c)),
               UNCHANGED idemResult
        PROVE  Remembered'
    <3>1. Stored(c) \in Results \cup {None}
      BY <1>1, <1>4 DEF IdemTypeOK, Stored, FirstLook, Poll, LateLook
    <3>2. /\ \A d \in Calls \ {c} : idem'[d] = idem[d]
          /\ idem'[c].id = idem[c].id
      BY <1>1, <2>1, <3>1, SettleMoves DEF Steps, Success
    <3>3. Stored(c)' # None
      BY <2>1, <3>2 DEF Stored
    <3> QED BY <1>3, <3>2, <3>3 DEF Remembered
  <2>2. ASSUME NEW pc \in {"lock", "run"}, Go(c, pc) PROVE Remembered'
    <3>1. /\ \A d \in Calls \ {c} : idem'[d] = idem[d]
          /\ idem'[c].pc = pc /\ idem'[c].answer = idem[c].answer
      BY <1>1, <2>2, GoMoves DEF Steps
    <3>2. idem[c].answer \notin Success
      BY <1>4 DEF IdemInv, AnsweredStored, FirstLook, Poll, LateLook
    <3> QED BY <1>3, <3>1, <3>2 DEF Remembered
  <2> QED BY <1>4, <2>1, <2>2 DEF FirstLook, Poll, LateLook
<1>5. ASSUME NEW c \in Calls, Store(c) PROVE Remembered'
  <2>1. /\ idem[c].result \in Results /\ idem[c].id \in Ids /\ idem[c].result # None
    BY <1>1, <1>5, IdempotencyAssumption DEF Store, IdemInv, HasResult, IdemTypeOK
  <2>2. /\ \A d \in Calls \ {c} : idem'[d] = idem[d]
        /\ idem'[c].id = idem[c].id
    BY <1>1, <1>5, <2>1, SettleMoves DEF Store, Steps, Success
  <2>3. Stored(c)' # None
    BY <1>1, <1>5, <2>1, <2>2 DEF Store, Stored, IdemTypeOK
  <2> QED BY <1>3, <2>2, <2>3 DEF Remembered
<1>6. ASSUME NEW c \in Calls, \A d \in Calls \ {c} : idem'[d] = idem[d],
             idem'[c].answer \in Success => idem[c].answer \in Success /\ idem'[c].id = idem[c].id
      PROVE  Remembered'
  <2>1. idem[c].answer \in Success => idem[c].id \in Ids
    BY <1>1 DEF IdemInv, AnsweredStored, IdemTypeOK
  <2>2. idem'[c].answer \in Success => Stored(c)' # None \/ idem'[c].id \in forgotten'
    BY <1>2, <1>6, <2>1 DEF Remembered, Stored
  <2> QED BY <1>3, <1>6, <2>2 DEF Remembered
<1>7. ASSUME NEW c \in Calls, NEW pc \in Steps, Go(c, pc) PROVE Remembered'
  BY <1>1, <1>6, <1>7, GoMoves
<1>8. ASSUME NEW c \in Calls, NEW pc \in Steps, NEW answer \in {"none", "conflict", "failed"},
             NEW r \in Results \cup {None}, Settle(c, pc, answer, r)
      PROVE  Remembered'
  <2>1. \A d \in Calls \ {c} : idem'[d] = idem[d]
    BY <1>1, <1>8, SettleMoves
  <2>2. idem'[c].answer \notin Success
    BY <1>1, <1>8, SettleMoves DEF Success
  <2> QED BY <1>6, <2>1, <2>2
<1>9. ASSUME NEW c \in Calls, NEW i \in Ids, Enter(c, i) PROVE Remembered'
  <2>1. idem[c].answer \notin Success
    BY <1>9 DEF Enter, IdemInv, AnsweredStored
  <2> QED BY <1>1, <1>6, <1>9, <2>1, EnterMoves
<1>10. ASSUME NEW c \in Calls, TryLock(c) \/ Release(c) \/ RunEnds(c) \/ RedisFails(c) \/ Die(c)
       PROVE  Remembered'
  BY <1>7, <1>8, <1>10 DEF TryLock, Release, RunEnds, RunDone, RunFails, RedisFails, Die, Steps
<1>11. ASSUME UNCHANGED idem PROVE Remembered'
  BY <1>3, <1>11 DEF Remembered
<1> QED BY <1>4, <1>5, <1>9, <1>10, <1>11
    DEF IdemNext, IdemStep, LockExpires, ResultExpires, idemVars

(* A failure is the end of a call. *)
FailedAtEnd == \A c \in Calls : idem[c].answer = "failed" => idem[c].pc \in {"release", "done"}

BegunToRun == {"run", "store", "release", "done"}

(* What a step leaves of call c: its id, its failure, how far it has come, and of a run at
   work that or its result in the store. *)
StaysOf(c) ==
    /\ idem[c].pc \in BegunToRun => idem'[c].pc \in BegunToRun
    /\ idem'[c].pc = "run" => idem[c].pc \in {"late", "run"}
    /\ idem[c].pc # "idle" => idem'[c].pc # "idle" /\ idem'[c].id = idem[c].id
    /\ idem[c].answer = "failed" => idem'[c].answer = "failed"
    /\ idem[c].pc \in {"run", "store"} => \/ idem'[c].pc \in {"run", "store"}
                                          \/ idem'[c].answer = "failed"
                                          \/ idemResult'[idem[c].id] # None

LEMMA RunsEnd ==
    ASSUME IdemInv, FailedAtEnd, [IdemNext]_idemVars
    PROVE  FailedAtEnd' /\ overran \subseteq overran' /\ \A c \in Calls : StaysOf(c)
<1> USE DEF Steps, Success, BegunToRun
<1>1. IdemTypeOK
  BY DEF IdemInv
<1>2. ASSUME NEW c \in Calls, IdemStep(c) \/ RunEnds(c) \/ RedisFails(c) \/ Die(c)
      PROVE  StaysOf(c) /\ (idem'[c].answer = "failed" => idem'[c].pc \in {"release", "done"})
  <2>1. idem[c].pc # "idle" => idem'[c].pc # "idle" /\ idem'[c].id = idem[c].id
    BY <1>1, <1>2, StepLeaves
  <2>2. idem[c].answer = "failed" => idem[c].pc \in {"release", "done"}
    BY DEF FailedAtEnd
  <2>3. CASE FirstLook(c) \/ Poll(c) \/ LateLook(c)
    <3>1. idem[c].pc \in {"look", "poll", "late"} /\ Stored(c) \in Results \cup {None}
      BY <1>1, <2>3 DEF IdemTypeOK, Stored, FirstLook, Poll, LateLook
    <3> QED BY <1>1, <2>1, <2>2, <2>3, <3>1, GoMoves, SettleMoves DEF StaysOf, FirstLook, Poll, LateLook
  <2>4. CASE TryLock(c) \/ Release(c)
    BY <1>1, <2>1, <2>2, <2>4, GoMoves, SettleMoves DEF StaysOf, TryLock, Release
  <2>5. CASE Store(c)
    <3>1. idem[c].result \in Results /\ idem[c].result # None /\ idem[c].id \in Ids
      BY <1>1, <2>5, IdempotencyAssumption DEF IdemInv, HasResult, Store, IdemTypeOK
    <3>2. idemResult'[idem[c].id] # None
      BY <1>1, <2>5, <3>1 DEF Store, IdemTypeOK
    <3> QED BY <1>1, <2>1, <2>2, <2>5, <3>1, <3>2, SettleMoves DEF StaysOf, Store
  <2>6. CASE RunEnds(c)
    BY <1>1, <2>1, <2>2, <2>6, SettleMoves DEF StaysOf, RunEnds, RunDone, RunFails
  <2>7. CASE RedisFails(c)
    BY <1>1, <2>1, <2>2, <2>7, GoMoves, SettleMoves DEF StaysOf, RedisFails
  <2>8. CASE Die(c)
    BY <1>1, <2>1, <2>2, <2>8, SettleMoves DEF StaysOf, Die
  <2> QED BY <1>2, <2>3, <2>4, <2>5, <2>6, <2>7, <2>8 DEF IdemStep
<1>3. \A c \in Calls : idem'[c] = idem[c] =>
         StaysOf(c) /\ (idem'[c].answer = "failed" => idem'[c].pc \in {"release", "done"})
  BY DEF StaysOf, FailedAtEnd
<1>4. ASSUME NEW c \in Calls, NEW i \in Ids, Enter(c, i) PROVE FailedAtEnd' /\ \A d \in Calls : StaysOf(d)
  <2>1. idem[c].pc = "idle" /\ idem[c].answer # "failed"
    BY <1>4 DEF Enter, FailedAtEnd
  <2>2. /\ \A d \in Calls \ {c} : idem'[d] = idem[d]
        /\ idem'[c].pc = "look" /\ idem'[c].answer = idem[c].answer
    BY <1>1, <1>4, EnterMoves
  <2> QED BY <1>3, <2>1, <2>2 DEF FailedAtEnd, StaysOf
<1>5. ASSUME NEW c \in Calls, IdemStep(c) \/ RunEnds(c) \/ RedisFails(c) \/ Die(c)
      PROVE  FailedAtEnd' /\ \A d \in Calls : StaysOf(d)
  <2>1. \A d \in Calls \ {c} : idem'[d] = idem[d]
    BY <1>1, <1>5, StepLeaves
  <2> QED BY <1>2, <1>3, <1>5, <2>1 DEF FailedAtEnd
<1>6. ASSUME UNCHANGED idem PROVE FailedAtEnd' /\ \A d \in Calls : StaysOf(d)
  BY <1>3, <1>6 DEF FailedAtEnd
<1>7. overran \subseteq overran'
  BY DEF IdemNext, IdemStep, Enter, FirstLook, TryLock, Poll, LateLook, Store, Release, RunEnds,
         RunDone, RunFails, RedisFails, Die, LockExpires, ResultExpires, idemVars
<1> QED BY <1>4, <1>5, <1>6, <1>7 DEF IdemNext, LockExpires, ResultExpires, idemVars

(* No call of i failed or outlived its lock, and its result has not expired. *)
Untroubled(i) ==
    /\ i \notin forgotten
    /\ \A c \in Calls : idem[c].id = i => idem[c].answer # "failed" /\ c \notin overran

(* What was not troubled after a step was not before it; its result stays, and so does every
   run for it, or the result of the run. *)
LEMMA UntroubledStays ==
    ASSUME IdemInv, FailedAtEnd, [IdemNext]_idemVars, NEW i \in Ids, Untroubled(i)'
    PROVE  /\ Untroubled(i)
           /\ idemResult[i] # None => idemResult'[i] # None
           /\ \A c \in Calls : idem[c].id = i /\ idem[c].pc \in {"run", "store"} =>
                 idem'[c].pc \in {"run", "store"} \/ idemResult'[i] # None
<1>1. \A c \in Calls : StaysOf(c) /\ overran \subseteq overran'
  BY RunsEnd
<1>2. forgotten \subseteq forgotten' /\ (idemResult[i] # None => idemResult'[i] # None \/ i \in forgotten')
  BY StoredStays
<1>3. \A c \in Calls : idem[c].answer = "failed" \/ c \in overran => idem[c].pc # "idle"
  BY DEF FailedAtEnd, IdemInv, OverranStarted
<1> QED BY <1>1, <1>2, <1>3 DEF Untroubled, StaysOf

(* Whoever runs for an untroubled id is the first to: no other runs, and none has stored. *)
LEMMA FirstToRun ==
    ASSUME IdemInv, NEW c \in Calls, NEW d \in Calls, idem[c].pc = "run", idem[d].id = idem[c].id,
           Untroubled(idem[c].id),
           idem[d].pc \in {"run", "store"} \/ idemResult[idem[d].id] # None
    PROVE  c = d
<1>1. c \notin overran /\ d \notin overran
  BY DEF Untroubled
<1>2. Clean(idem[c].id)
  BY DEF Untroubled, Clean, IdemInv, IdemTypeOK
<1>3. idem[d].pc \in {"run", "store"}
  BY <1>2 DEF IdemInv, RunsUnstored, Stored
<1> QED BY <1>1, <1>3 DEF IdemInv, OwnsLock, Holding

(* A step that ends no run with a result. *)
NoNewResult ==
    \/ \E c \in Calls : \/ \E i \in Ids : Enter(c, i)
                        \/ IdemStep(c) \/ RunFails(c) \/ RedisFails(c) \/ Die(c)
    \/ \E i \in Ids : LockExpires(i) \/ ResultExpires(i)
    \/ UNCHANGED idemVars

(* Results under way, stored or answered are in G: those of the runs that end are. *)
LEMMA ResultsIn ==
    ASSUME IdemInv, NEW G,
           \A i \in Ids : idemResult[i] # None => <<i, idemResult[i]>> \in G,
           \A c \in Calls : idem[c].pc = "store" \/ idem[c].answer \in Success =>
              <<idem[c].id, idem[c].result>> \in G,
           \/ NoNewResult
           \/ \E c \in Calls, r \in Results : RunDone(c, r) /\ <<idem[c].id, r>> \in G
    PROVE  /\ \A i \in Ids : idemResult'[i] # None => <<i, idemResult'[i]>> \in G
           /\ \A c \in Calls : idem'[c].pc = "store" \/ idem'[c].answer \in Success =>
                 <<idem'[c].id, idem'[c].result>> \in G
<1> USE DEF Steps, Success
<1>1. IdemTypeOK
  BY DEF IdemInv
<1> DEFINE Kept == \A i \in Ids : idemResult'[i] # None => <<i, idemResult'[i]>> \in G
           Good(c) == idem'[c].pc = "store" \/ idem'[c].answer \in Success =>
                         <<idem'[c].id, idem'[c].result>> \in G
<1>2. \A c \in Calls : idem'[c] = idem[c] => Good(c)
  OBVIOUS
<1>3. ASSUME NEW c \in Calls, NEW i \in Ids, Enter(c, i) PROVE Kept /\ \A d \in Calls : Good(d)
  <2>1. /\ \A d \in Calls \ {c} : idem'[d] = idem[d]
        /\ idem'[c].pc = "look" /\ idem'[c].answer = idem[c].answer
    BY <1>1, <1>3, EnterMoves
  <2>2. idem[c].answer \notin Success
    BY <1>3 DEF Enter, IdemInv, AnsweredStored
  <2> QED BY <1>2, <1>3, <2>1, <2>2 DEF Enter
<1>4. ASSUME NEW c \in Calls, FirstLook(c) \/ Poll(c) \/ LateLook(c)
      PROVE  Kept /\ \A d \in Calls : Good(d)
  <2>1. /\ Stored(c) \in Results \cup {None} /\ UNCHANGED idemResult
        /\ Stored(c) # None => <<idem[c].id, Stored(c)>> \in G
        /\ idem[c].answer \notin Success
    BY <1>1, <1>4 DEF IdemTypeOK, Stored, FirstLook, Poll, LateLook, IdemInv, AnsweredStored
  <2>2. ASSUME NEW pc \in {"done", "release"}, Stored(c) # None, Settle(c, pc, "replayed", Stored(c))
        PROVE  \A d \in Calls : Good(d)
    BY <1>1, <1>2, <2>1, <2>2, SettleMoves
  <2>3. ASSUME NEW pc \in {"lock", "run"}, Go(c, pc) PROVE \A d \in Calls : Good(d)
    BY <1>1, <1>2, <2>1, <2>3, GoMoves
  <2> QED BY <1>4, <2>1, <2>2, <2>3 DEF FirstLook, Poll, LateLook
<1>5. ASSUME NEW c \in Calls, NEW pc \in Steps \ {"store"}, Go(c, pc)
      PROVE  \A d \in Calls : Good(d)
  BY <1>1, <1>2, <1>5, GoMoves
<1>6. ASSUME NEW c \in Calls, NEW pc \in Steps \ {"store"}, NEW answer \in {"conflict", "failed"},
             Settle(c, pc, answer, None)
      PROVE  \A d \in Calls : Good(d)
  BY <1>1, <1>2, <1>6, SettleMoves
<1>7. ASSUME NEW c \in Calls, TryLock(c) \/ Release(c) \/ RunFails(c) \/ RedisFails(c) \/ Die(c)
      PROVE  Kept /\ \A d \in Calls : Good(d)
  BY <1>5, <1>6, <1>7 DEF TryLock, Release, RunFails, RedisFails, Die
<1>8. ASSUME NEW c \in Calls, Store(c) PROVE Kept /\ \A d \in Calls : Good(d)
  <2>1. idem[c].result \in Results /\ idem[c].id \in Ids /\ <<idem[c].id, idem[c].result>> \in G
    BY <1>1, <1>8 DEF IdemInv, HasResult, Store, IdemTypeOK
  <2>2. Kept
    BY <1>1, <1>8, <2>1 DEF Store, IdemTypeOK
  <2>3. \A d \in Calls : Good(d)
    BY <1>1, <1>2, <1>8, <2>1, SettleMoves DEF Store
  <2> QED BY <2>2, <2>3
<1>9. ASSUME NEW c \in Calls, NEW r \in Results, RunDone(c, r), <<idem[c].id, r>> \in G
      PROVE  Kept /\ \A d \in Calls : Good(d)
  BY <1>1, <1>2, <1>9, SettleMoves DEF RunDone
<1>10. ASSUME UNCHANGED idem, Kept PROVE \A d \in Calls : Good(d)
  BY <1>2, <1>10
<1>11. ASSUME NEW i \in Ids, LockExpires(i) \/ ResultExpires(i) PROVE Kept /\ UNCHANGED idem
  BY <1>1, <1>11 DEF LockExpires, ResultExpires, IdemTypeOK
<1>12. ASSUME UNCHANGED idemVars PROVE Kept /\ UNCHANGED idem
  BY <1>12 DEF idemVars
<1> HIDE DEF Kept, Good
<1>13. Kept /\ \A d \in Calls : Good(d)
  BY <1>3, <1>4, <1>7, <1>8, <1>9, <1>10, <1>11, <1>12 DEF NoNewResult, IdemStep
<1> QED BY <1>13 DEF Kept, Good

(* Locks name their owners and clean ids keep their results, in every run. *)
THEOREM IdemInvariant == IdemSpec => []IdemInv
BY IdemInitInv, IdemNextInv, PTL DEF IdemSpec

(* For any number of calls, two identical requests run at the same time only when
   one of them outlived the 30 seconds of its lock (idempotency.ts:61-88). *)
THEOREM AlwaysRunsAlone == IdemSpec => []RunsAlone
<1>1. IdemInv => RunsAlone
  BY DEF IdemInv, OwnsLock, RunsAlone, Holding
<1> QED BY <1>1, IdemInvariant, PTL

(* For any number of calls, everybody who is told of success is given the same
   result, up to the expiry of locks and results (idempotency.ts:7-9). *)
THEOREM AlwaysOneResult == IdemSpec => []OneResult
<1>1. IdemInv => OneResult
  BY DEF IdemInv, AnsweredStored, Clean, Stored, OneResult
<1> QED BY <1>1, IdemInvariant, PTL

=============================================================================
