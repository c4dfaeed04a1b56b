----------------------------- MODULE AccessTokens -----------------------------
(***************************************************************************)
(* Personal access tokens of one user: created and revoked by              *)
(* server/src/services/auth-service.ts, looked up with a cache of one      *)
(* minute by server/src/gateway/auth.ts.  Every server process has its own *)
(* cache; the rows are in the database.  Signatures, claims and the size   *)
(* of the cache are left out; a token's row is never deleted.              *)
(***************************************************************************)
EXTENDS RateLimiter

CONSTANTS
    Tokens,         \* ids of personal_access_tokens rows
    Creators,       \* requests POST /auth/tokens
    Servers,        \* server processes
    None,           \* no request, nothing read, nothing cached
    MaxActive,      \* MAX_ACTIVE_PATS
    PatTTL          \* PAT_CACHE_TTL_MS, in ticks

ASSUME TokensAssumption ==
    /\ "pat-create" \in Rules /\ "user" \in Subjects
    /\ Creators \subseteq Members
    /\ MaxActive \in Nat /\ PatTTL \in Nat
    /\ IsFiniteSet(Tokens)
    /\ None \notin Tokens \cup Creators \cup Servers

VARIABLES
    token,          \* [Tokens -> status of the row]
    userActive,     \* users.isActive
    userLock,       \* request that holds the row lock on the user, or None
    creating,       \* [Creators -> step of each request]
    revoking,       \* [Tokens -> server whose revocation has not reached its cache yet]
    cache,          \* [Servers -> [Tokens -> cached reading or None]], patCache
    deadSince,      \* history: [Tokens -> when the row stopped being valid, or None]
    forgotten       \* history: [Servers -> tokens whose revocation the server answered]

tokenRows == <<token, userActive, userLock, creating, revoking>>
tokenVars == <<hits, now, tokenRows, cache, deadSince, forgotten>>

-----------------------------------------------------------------------------
(* Types *)

TokenStatus == {"none", "active", "expired", "revoked"}

(* What loadPat reads of a row; "overtaken" is a history variable: the row stopped being
   valid between the reading and its arrival in the cache. *)
Reading == [valid : BOOLEAN, at : 0..MaxTime, overtaken : BOOLEAN]

TokensTypeOK ==
    /\ LimiterTypeOK
    /\ token \in [Tokens -> TokenStatus]
    /\ userActive \in BOOLEAN
    /\ userLock \in Creators \cup {None}
    /\ creating \in [Creators -> {"idle", "lock", "count", "insert", "done", "refused"}]
    /\ revoking \in [Tokens -> Servers \cup {None}]
    /\ cache \in [Servers -> [Tokens -> Reading \cup {None}]]
    /\ deadSince \in [Tokens -> 0..MaxTime \cup {None}]
    /\ forgotten \in [Servers -> SUBSET Tokens]

TokensInit ==
    /\ \E there \in SUBSET Tokens :
          /\ Cardinality(there) <= MaxActive
          /\ token = [t \in Tokens |-> IF t \in there THEN "active" ELSE "none"]
    /\ userActive = TRUE
    /\ userLock = None
    /\ creating = [r \in Creators |-> "idle"]
    /\ revoking = [t \in Tokens |-> None]
    /\ cache = [s \in Servers |-> [t \in Tokens |-> None]]
    /\ deadSince = [t \in Tokens |-> None]
    /\ forgotten = [s \in Servers |-> {}]

-----------------------------------------------------------------------------
(* POST /auth/tokens *)

Active == {t \in Tokens : token[t] = "active"}

To(r, step) == creating' = [creating EXCEPT ![r] = step]

(* The rate limit of token creation comes first. *)
AskForToken(r) ==
    /\ creating[r] = "idle"
    /\ IF Admits({"pat-create"}, "user")
       THEN Charge({"pat-create"}, "user", r) /\ To(r, "lock")
       ELSE UNCHANGED hits /\ To(r, "refused")
    /\ UNCHANGED <<now, token, userActive, userLock, revoking, cache, deadSince, forgotten>>

(* Mutant: the user's row is read without FOR UPDATE. *)
ReadUser(r) ==
    /\ creating[r] = "lock"
    /\ To(r, IF userActive THEN "count" ELSE "refused")
    /\ UNCHANGED <<hits, now, token, userActive, userLock, revoking, cache, deadSince, forgotten>>

(* createPat: SELECT ... FOR UPDATE on the user; an inactive one ends the transaction. *)
LockUser(r) ==
    /\ creating[r] = "lock" /\ userLock = None
    /\ IF userActive
       THEN To(r, "count") /\ userLock' = r
       ELSE To(r, "refused") /\ UNCHANGED userLock
    /\ UNCHANGED <<hits, now, token, userActive, revoking, cache, deadSince, forgotten>>

Unlock(r) == userLock' = IF userLock = r THEN None ELSE userLock

CountActive(r) ==
    /\ creating[r] = "count"
    /\ IF Cardinality(Active) < MaxActive
       THEN To(r, "insert") /\ UNCHANGED userLock
       ELSE To(r, "refused") /\ Unlock(r)
    /\ UNCHANGED <<hits, now, token, userActive, revoking, cache, deadSince, forgotten>>

(* The row, its token and its hint, and COMMIT. *)
InsertToken(r) ==
    /\ creating[r] = "insert"
    /\ \E t \in Tokens : token[t] = "none" /\ token' = [token EXCEPT ![t] = "active"]
    /\ To(r, "done") /\ Unlock(r)
    /\ UNCHANGED <<hits, now, userActive, revoking, cache, deadSince, forgotten>>

(* An error rolls the transaction back. *)
CreateFails(r) ==
    /\ creating[r] \in {"count", "insert"}
    /\ To(r, "refused") /\ Unlock(r)
    /\ UNCHANGED <<hits, now, token, userActive, revoking, cache, deadSince, forgotten>>

-----------------------------------------------------------------------------
(* The end of a token *)

(* DELETE /auth/tokens/:id on server s: the row is updated ... *)
RevokeToken(s, t) ==
    /\ token[t] \in {"active", "expired"} /\ revoking[t] = None
    /\ token' = [token EXCEPT ![t] = "revoked"]
    /\ revoking' = [revoking EXCEPT ![t] = s]
    /\ deadSince' = [deadSince EXCEPT ![t] = IF @ = None THEN now ELSE @]
    /\ UNCHANGED <<hits, now, userActive, userLock, creating, cache, forgotten>>

(* Mutant: the cache is left alone. *)
ForgetNothing(t) ==
    LET s == revoking[t]
    IN  /\ s # None
        /\ revoking' = [revoking EXCEPT ![t] = None]
        /\ forgotten' = [forgotten EXCEPT ![s] = @ \cup {t}]
        /\ UNCHANGED <<hits, now, token, userActive, userLock, creating, cache, deadSince>>

(* ... and then forgetPat drops the entry of this server. *)
ForgetPat(t) ==
    LET s == revoking[t]
    IN  /\ s # None
        /\ cache' = [cache EXCEPT ![s][t] = None]
        /\ revoking' = [revoking EXCEPT ![t] = None]
        /\ forgotten' = [forgotten EXCEPT ![s] = @ \cup {t}]
        /\ UNCHANGED <<hits, now, token, userActive, userLock, creating, deadSince>>

(* The expiry date passes; readings carry it with them. *)
TokenExpires(t) ==
    /\ token[t] = "active"
    /\ token' = [token EXCEPT ![t] = "expired"]
    /\ UNCHANGED <<hits, now, userActive, userLock, creating, revoking, cache, deadSince, forgotten>>

(* The account is disabled in the database; the update waits for the row lock. *)
DisableUser ==
    /\ userActive /\ userLock = None
    /\ userActive' = FALSE
    /\ deadSince' = [t \in Tokens |-> IF token[t] # "none" /\ deadSince[t] = None THEN now ELSE deadSince[t]]
    /\ UNCHANGED <<hits, now, token, userLock, creating, revoking, cache, forgotten>>

-----------------------------------------------------------------------------
(* loadPat *)

(* The row says that the token may be used, but for its expiry. *)
ReadsValid(t) == token[t] \in {"active", "expired"} /\ userActive

Fresh(s, t) == cache[s][t] # None /\ now - cache[s][t].at < PatTTL

(* patCache.set, when the answer of the database arrives on server s. *)
Keep(s, t, valid, overtaken) ==
    cache' = [cache EXCEPT ![s][t] = [valid |-> valid, at |-> now, overtaken |-> overtaken]]

TokenCreation ==
    \E r \in Creators :
       AskForToken(r) \/ LockUser(r) \/ CountActive(r) \/ InsertToken(r) \/ CreateFails(r)

TokenEnds ==
    \/ \E t \in Tokens :
          TokenExpires(t) \/ ForgetPat(t) \/ \E s \in Servers : RevokeToken(s, t)
    \/ DisableUser

TokensNext == TokenCreation \/ TokenEnds

TokensSpec == LimiterInit /\ TokensInit /\ [][TokensNext]_tokenVars

(* A user has at most MAX_ACTIVE_PATS active tokens, also when tokens are created at the
   same time (auth-service.ts:283-332). *)
TokensWithinMax == Cardinality(Active) <= MaxActive

=============================================================================
