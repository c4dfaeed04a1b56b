----------------------------- MODULE Idempotency -----------------------------
(***************************************************************************)
(* withIdempotency (server/src/gateway/idempotency.ts): identical requests *)
(* share one run.  The result of a finished run is kept in Redis for 24    *)
(* hours, a Redis lock of 30 seconds lets one request run at a time, and   *)
(* the others poll for its result.                                         *)
(*                                                                         *)
(* The run itself is the caller's: RunDone and RunFails end it.  Time is   *)
(* left out: a lock or a result may expire in any state, and a request     *)
(* that finds the lock taken may find its deadline passed.                 *)
(***************************************************************************)
CONSTANTS
    Calls,          \* calls of withIdempotency
    Ids,            \* idempotencyKeyFor values: user + operation + arguments
    Results,        \* what a run can return
    None            \* not a call, not a result

ASSUME IdempotencyAssumption == None \notin Calls \cup Ids \cup Results

VARIABLES
    idemResult,     \* [Ids -> Results \cup {None}], idem:{id}:result in Redis
    idemLock,       \* [Ids -> Calls \cup {None}], idem:{id}:lock, naming its owner
    idem,           \* [Calls -> record], progress of each call
    overran,        \* history: calls whose lock expired before they released it
    forgotten       \* history: ids whose result has expired

idemVars == <<idemResult, idemLock, idem, overran, forgotten>>

-----------------------------------------------------------------------------
(* Types *)

Success == {"ran", "replayed"}

IdemCall ==
    [pc     : {"idle", "look", "lock", "poll", "late", "run", "store", "release", "done"},
     id     : Ids \cup {None},
     result : Results \cup {None},
     answer : {"none", "conflict", "failed"} \cup Success]

NoCall == [pc |-> "idle", id |-> None, result |-> None, answer |-> "none"]

IdemTypeOK ==
    /\ idemResult \in [Ids -> Results \cup {None}]
    /\ idemLock \in [Ids -> Calls \cup {None}]
    /\ idem \in [Calls -> IdemCall]
    /\ overran \subseteq Calls
    /\ forgotten \subseteq Ids
    /\ \A c \in Calls : idem[c].pc # "idle" => idem[c].id \in Ids

IdemInit ==
    /\ idemResult = [i \in Ids |-> None]
    /\ idemLock = [i \in Ids |-> None]
    /\ idem = [c \in Calls |-> NoCall]
    /\ overran = {}
    /\ forgotten = {}

-----------------------------------------------------------------------------
(* Helpers *)

Stored(c) == idemResult[idem[c].id]

Go(c, pc) == idem' = [idem EXCEPT ![c].pc = pc]

(* The call leaves for pc with an answer settled. *)
Settle(c, pc, answer, result) ==
    idem' = [idem EXCEPT ![c].pc = pc, ![c].answer = answer, ![c].result = result]

(* The call owns the lock, unless it has expired. *)
Holding == {"late", "run", "store", "release"}

(* Mutant: the lock is deleted, whoever owns it. *)
ReleasedBlindly(c) == [idemLock EXCEPT ![idem[c].id] = None]

(* RELEASE_LOCK deletes the lock only if it still names this call. *)
Released(c) ==
    [i \in Ids |-> IF i = idem[c].id /\ idemLock[i] = c THEN None ELSE idemLock[i]]

-----------------------------------------------------------------------------
(* The steps of a call *)

Enter(c, i) ==
    /\ idem[c].pc = "idle"
    /\ idem' = [idem EXCEPT ![c].pc = "look", ![c].id = i]
    /\ UNCHANGED <<idemResult, idemLock, overran, forgotten>>

(* 1. Already done?  Return the original result. *)
FirstLook(c) ==
    /\ idem[c].pc = "look"
    /\ IF Stored(c) # None
       THEN Settle(c, "done", "replayed", Stored(c))
       ELSE Go(c, "lock")
    /\ UNCHANGED <<idemResult, idemLock, overran, forgotten>>

(* 2. SET NX: take the lock, or wait for its holder, or give up at the deadline. *)
TryLock(c) ==
    LET i == idem[c].id
    IN  /\ idem[c].pc = "lock"
        /\ IF idemLock[i] = None
           THEN idemLock' = [idemLock EXCEPT ![i] = c] /\ Go(c, "late")
           ELSE /\ Go(c, "poll") \/ Settle(c, "done", "conflict", None)
                /\ UNCHANGED idemLock
        /\ UNCHANGED <<idemResult, overran, forgotten>>

(* While waiting: the holder's result may have appeared. *)
Poll(c) ==
    /\ idem[c].pc = "poll"
    /\ IF Stored(c) # None
       THEN Settle(c, "done", "replayed", Stored(c))
       ELSE Go(c, "lock")
    /\ UNCHANGED <<idemResult, idemLock, overran, forgotten>>

(* Mutant: straight to the run, without looking again. *)
LateLookSkipped(c) ==
    /\ idem[c].pc = "late"
    /\ Go(c, "run")
    /\ UNCHANGED <<idemResult, idemLock, overran, forgotten>>

(* A result stored between the first look and taking the lock. *)
LateLook(c) ==
    /\ idem[c].pc = "late"
    /\ IF Stored(c) # None
       THEN Settle(c, "release", "replayed", Stored(c))
       ELSE Go(c, "run")
    /\ UNCHANGED <<idemResult, idemLock, overran, forgotten>>

(* 3. The run returns a result, or throws: failures are not stored. *)
RunDone(c, r) ==
    /\ idem[c].pc = "run"
    /\ Settle(c, "store", "none", r)
    /\ UNCHANGED <<idemResult, idemLock, overran, forgotten>>

RunFails(c) ==
    /\ idem[c].pc = "run"
    /\ Settle(c, "release", "failed", None)
    /\ UNCHANGED <<idemResult, idemLock, overran, forgotten>>

Store(c) ==
    /\ idem[c].pc = "store"
    /\ idemResult' = [idemResult EXCEPT ![idem[c].id] = idem[c].result]
    /\ Settle(c, "release", "ran", idem[c].result)
    /\ UNCHANGED <<idemLock, overran, forgotten>>

Release(c) ==
    /\ idem[c].pc = "release"
    /\ idemLock' = Released(c)
    /\ Go(c, "done")
    /\ UNCHANGED <<idemResult, overran, forgotten>>

(* A Redis command fails.  Before the run the call ends at once, even when it has
   taken the lock; a failed store still goes on to the release, and a failed
   release is ignored. *)
RedisFails(c) ==
    /\ \/ idem[c].pc \in {"look", "lock", "poll", "late"} /\ Settle(c, "done", "failed", None)
       \/ idem[c].pc = "store" /\ Settle(c, "release", "failed", None)
       \/ idem[c].pc = "release" /\ Go(c, "done")
    /\ UNCHANGED <<idemResult, idemLock, overran, forgotten>>

(* The process dies. *)
Die(c) ==
    /\ idem[c].pc \notin {"idle", "done"}
    /\ Settle(c, "done", "failed", None)
    /\ UNCHANGED <<idemResult, idemLock, overran, forgotten>>

(* Mutant: the lock is set without EX. *)
LockNeverExpires(i) == idemLock[i] # None /\ UNCHANGED idemVars

(* 30 seconds pass, whether or not the owner has finished. *)
LockExpires(i) ==
    /\ idemLock[i] # None
    /\ idemLock' = [idemLock EXCEPT ![i] = None]
    /\ overran' = overran \cup {c \in {idemLock[i]} : idem[c].pc \in Holding}
    /\ UNCHANGED <<idemResult, idem, forgotten>>

(* 24 hours pass. *)
ResultExpires(i) ==
    /\ idemResult[i] # None
    /\ idemResult' = [idemResult EXCEPT ![i] = None]
    /\ forgotten' = forgotten \cup {i}
    /\ UNCHANGED <<idemLock, idem, overran>>

IdemStep(c) ==
    FirstLook(c) \/ TryLock(c) \/ Poll(c) \/ LateLook(c) \/ Store(c) \/ Release(c)

-----------------------------------------------------------------------------
(* On its own: every run takes effect under a result that names its call. *)

RunEnds(c) == (\E r \in Results : RunDone(c, r)) \/ RunFails(c)

IdemNext ==
    \/ \E c \in Calls :
          \/ \E i \in Ids : Enter(c, i)
          \/ IdemStep(c)
          \/ RunEnds(c)
          \/ RedisFails(c)
          \/ Die(c)
    \/ \E i \in Ids : LockExpires(i) \/ ResultExpires(i)

IdemSpec == IdemInit /\ [][IdemNext]_idemVars

(* The event loop runs every call on, runs end (their upstream calls time out), and
   Redis expires the lock of a dead owner. *)
IdemFairSpec ==
    /\ IdemSpec
    /\ \A c \in Calls : WF_idemVars(IdemStep(c)) /\ WF_idemVars(RunEnds(c))
    /\ \A i \in Ids : WF_idemVars(LockExpires(i))

-----------------------------------------------------------------------------
(* Properties *)

(* Identical requests run one at a time, except beside a call that outlived its lock:
   a late release never opens the lock of somebody else (idempotency.ts:85-88). *)
RunsAlone ==
    \A c, d \in Calls :
       /\ c # d
       /\ idem[c].pc \in {"run", "store"} /\ idem[d].pc \in {"run", "store"}
       /\ idem[c].id = idem[d].id
       => c \in overran \/ d \in overran

(* All callers that are told of success are told of the same run, as long as its
   result is remembered and no run outlived its lock (idempotency.ts:7-9). *)
OneResult ==
    \A c, d \in Calls :
       /\ idem[c].answer \in Success /\ idem[d].answer \in Success
       /\ idem[c].id = idem[d].id
       /\ idem[c].id \notin forgotten
       => \/ idem[c].result = idem[d].result
          \/ \E e \in overran : idem[e].id = idem[c].id

(* Every call ends, even when the holder of its lock died. *)
EveryCallEnds == \A c \in Calls : idem[c].pc = "look" ~> idem[c].pc = "done"

=============================================================================
