------------------------------ MODULE McpGateway ------------------------------
(***************************************************************************)
(* POST /mcp (server/src/transport/mcp.ts) with a tool call: the gates a   *)
(* call of a token passes, in order, up to the handler of its tool         *)
(* (server/src/tools/define-tool.ts) and its audit row.  The gates are the *)
(* rate limit of the address, the token (AccessTokens), the rate limit of  *)
(* the user, the role policies with their cache                            *)
(* (server/src/policy/role-policy-store.ts), and the limits of the tool.   *)
(*                                                                         *)
(* The policies are reduced to whether they allow the tool.  Requests that *)
(* carry several tool calls are left out.                                  *)
(***************************************************************************)
EXTENDS AccessTokens

CONSTANTS
    Requests,       \* tool calls
    PolicyTTL,      \* CACHE_TTL_MS, in ticks
    MaxStale,       \* MAX_STALE_MS, in ticks
    MaxFailures     \* bound: failed queries and inserts, and crashes

ASSUME GatewayAssumption ==
    /\ {"mcp-ip", "mcp-user", "tool-minute", "tool-day"} \subseteq Rules
    /\ Window["tool-minute"] <= Window["tool-day"]
    /\ {"address", "user", "tool"} \subseteq Subjects
    /\ Requests \subseteq Members
    /\ PolicyTTL \in Nat /\ MaxStale \in Nat /\ MaxFailures \in Nat

VARIABLES
    mcp,            \* [Requests -> record], progress of each request
    policy,         \* the tool is allowed, in platform.role_policies
    policies,       \* [Servers -> cached policies or None], cache
    inFlight,       \* [Servers -> record], the load in progress, if any
    withdrawn,      \* history: when the policies stopped allowing the tool, or None
    failures        \* counts the failures, up to MaxFailures

gateVars == <<mcp, policy, policies, inFlight, withdrawn, failures>>
gatewayVars == <<tokenVars, gateVars>>

-----------------------------------------------------------------------------
(* Types *)

(* When and how a request passed the two gates that ask the database: the time, whether
   the answer was overtaken on its way, and for the policies whether they were old ones,
   used because the database was down. *)
Request ==
    [pc        : {"idle", "look", "load", "arrive", "user", "policy", "wait", "tool", "limit",
                  "done", "refused"},
     server    : Servers \cup {None},
     token     : Tokens \cup {None},
     read      : BOOLEAN,
     overtaken : BOOLEAN,
     asked     : 0..MaxTime,
     allowed   : BOOLEAN,
     late      : BOOLEAN,
     stale     : BOOLEAN]

NoRequest == [pc |-> "idle", server |-> None, token |-> None, read |-> FALSE,
              overtaken |-> FALSE, asked |-> 0, allowed |-> FALSE, late |-> FALSE,
              stale |-> FALSE]

Policies == [allowed : BOOLEAN, at : 0..MaxTime, overtaken : BOOLEAN]

Load == [pc : {"none", "query", "answer"}, allowed : BOOLEAN, overtaken : BOOLEAN]

NoLoad == [pc |-> "none", allowed |-> FALSE, overtaken |-> FALSE]

GatewayTypeOK ==
    /\ TokensTypeOK
    /\ mcp \in [Requests -> Request]
    /\ policy \in BOOLEAN
    /\ policies \in [Servers -> Policies \cup {None}]
    /\ inFlight \in [Servers -> Load]
    /\ withdrawn \in 0..MaxTime \cup {None}
    /\ failures \in 0..MaxFailures

GatewayInit ==
    /\ mcp = [q \in Requests |-> NoRequest]
    /\ policy = TRUE
    /\ policies = [s \in Servers |-> None]
    /\ inFlight = [s \in Servers |-> NoLoad]
    /\ withdrawn = None
    /\ failures = 0

-----------------------------------------------------------------------------
(* The gates *)

(* The request comes to its next gate, or ends. *)
Pass(q, pc) ==
    mcp' = [mcp EXCEPT ![q] =
       IF pc \in {"done", "refused"} THEN [NoRequest EXCEPT !.pc = pc] ELSE [@ EXCEPT !.pc = pc]]

Fail == failures < MaxFailures /\ failures' = failures + 1

StoreUnchanged == UNCHANGED <<policy, policies, inFlight, withdrawn, failures>>

(* 1. The rate limit of the address. *)
Arrive(q, s, t) ==
    /\ mcp[q].pc = "idle" /\ token[t] # "none"
    /\ IF Admits({"mcp-ip"}, "address")
       THEN /\ Charge({"mcp-ip"}, "address", q)
            /\ mcp' = [mcp EXCEPT ![q].pc = "look", ![q].server = s, ![q].token = t]
       ELSE UNCHANGED hits /\ Pass(q, "refused")
    /\ UNCHANGED <<now, tokenRows, cache, deadSince, forgotten>> /\ StoreUnchanged

(* verifyAccessOrPat, with the reading of the row at hand. *)
Verdict(q, valid, overtaken) ==
    IF valid /\ token[mcp[q].token] # "expired"
    THEN mcp' = [mcp EXCEPT ![q] = [@ EXCEPT !.pc = "user", !.read = FALSE, !.overtaken = overtaken]]
    ELSE Pass(q, "refused")

(* 2. The token: a fresh entry of the cache decides ... *)
LookUpToken(q) ==
    LET entry == cache[mcp[q].server][mcp[q].token]
    IN  /\ mcp[q].pc = "look"
        /\ IF Fresh(mcp[q].server, mcp[q].token)
           THEN Verdict(q, entry.valid, entry.overtaken)
           ELSE Pass(q, "load")
        /\ UNCHANGED tokenVars /\ StoreUnchanged

(* ... or the row ... *)
ReadRow(q) ==
    /\ mcp[q].pc = "load"
    /\ mcp' = [mcp EXCEPT ![q].pc = "arrive", ![q].read = ReadsValid(mcp[q].token)]
    /\ UNCHANGED tokenVars /\ StoreUnchanged

(* ... which is cached when it arrives. *)
KeepRow(q) ==
    LET t == mcp[q].token
        overtaken == mcp[q].read /\ ~ ReadsValid(t)
    IN  /\ mcp[q].pc = "arrive"
        /\ Keep(mcp[q].server, t, mcp[q].read, overtaken)
        /\ Verdict(q, mcp[q].read, overtaken)
        /\ UNCHANGED <<hits, now, tokenRows, deadSince, forgotten>> /\ StoreUnchanged

(* 3. The rate limit of the user. *)
UserGate(q) ==
    /\ mcp[q].pc = "user"
    /\ IF Admits({"mcp-user"}, "user")
       THEN /\ Charge({"mcp-user"}, "user", q)
            /\ mcp' = [mcp EXCEPT ![q].pc = "policy", ![q].overtaken = FALSE]
       ELSE UNCHANGED hits /\ Pass(q, "refused")
    /\ UNCHANGED <<now, tokenRows, cache, deadSince, forgotten>> /\ StoreUnchanged

PassPolicy(q, allowed, overtaken, stale) ==
    [mcp[q] EXCEPT !.pc = "tool", !.allowed = allowed, !.late = overtaken, !.stale = stale]

(* 4. policiesByRole: from the cache for CACHE_TTL_MS, else one load for all that wait. *)
AskPolicies(q) ==
    LET s == mcp[q].server
        entry == policies[s]
    IN  /\ mcp[q].pc = "policy"
        /\ IF entry # None /\ now - entry.at < PolicyTTL
           THEN /\ mcp' = [mcp EXCEPT ![q] =
                      [PassPolicy(q, entry.allowed, entry.overtaken, FALSE) EXCEPT !.asked = now]]
                /\ UNCHANGED inFlight
           ELSE /\ mcp' = [mcp EXCEPT ![q].pc = "wait", ![q].asked = now]
                /\ inFlight' = IF inFlight[s].pc = "none"
                               THEN [inFlight EXCEPT ![s].pc = "query"] ELSE inFlight
        /\ UNCHANGED <<policy, policies, withdrawn, failures, tokenVars>>

(* loadFromDb: the query runs. *)
QueryPolicies(s) ==
    /\ inFlight[s].pc = "query"
    /\ inFlight' = [inFlight EXCEPT ![s].pc = "answer", ![s].allowed = policy]
    /\ UNCHANGED <<mcp, policy, policies, withdrawn, failures, tokenVars>>

Waiting(s) == {q \in Requests : mcp[q].pc = "wait" /\ mcp[q].server = s}

(* Its answer becomes the cache, and all that wait go on with it. *)
PoliciesLoaded(s) ==
    LET allowed == inFlight[s].allowed
        overtaken == allowed /\ ~ policy
    IN  /\ inFlight[s].pc = "answer"
        /\ policies' = [policies EXCEPT ![s] = [allowed |-> allowed, at |-> now, overtaken |-> overtaken]]
        /\ mcp' = [q \in Requests |->
              IF q \in Waiting(s) THEN PassPolicy(q, allowed, overtaken, FALSE) ELSE mcp[q]]
        /\ inFlight' = [inFlight EXCEPT ![s] = NoLoad]
        /\ UNCHANGED <<policy, withdrawn, failures, tokenVars>>

(* Mutant: without the database, whatever was loaded last is good. *)
UsableForever(q, entry) == entry # None

(* The cache is used when the database is down, for MAX_STALE_MS from its load. *)
Usable(q, entry) == entry # None /\ mcp[q].asked - entry.at < MaxStale

(* The query fails: with no usable policies, access is refused. *)
LoadFails(s) ==
    LET entry == policies[s]
    IN  /\ inFlight[s].pc # "none" /\ Fail
        /\ mcp' = [q \in Requests |->
              IF q \notin Waiting(s) THEN mcp[q]
              ELSE IF Usable(q, entry) THEN PassPolicy(q, entry.allowed, entry.overtaken, TRUE)
              ELSE [NoRequest EXCEPT !.pc = "refused"]]
        /\ inFlight' = [inFlight EXCEPT ![s] = NoLoad]
        /\ UNCHANGED <<policy, policies, withdrawn, tokenVars>>

(* registerTools: a tool that is not allowed is not found. *)
FindTool(q) ==
    /\ mcp[q].pc = "tool"
    /\ IF mcp[q].allowed
       THEN mcp' = [mcp EXCEPT ![q] = [@ EXCEPT !.pc = "limit", !.asked = 0, !.allowed = FALSE,
                                                !.late = FALSE, !.stale = FALSE]]
       ELSE Pass(q, "refused")
    /\ UNCHANGED tokenVars /\ StoreUnchanged

(* Mutant: each rule that has room is charged. *)
ToolGateOneByOne(q) ==
    LET rules == {"tool-minute", "tool-day"}
        open == {r \in rules : HasRoom(<<r, "tool">>)}
    IN  /\ mcp[q].pc = "limit"
        /\ Charge(open, "tool", q)
        /\ Pass(q, "done")
        /\ UNCHANGED <<now, tokenRows, cache, deadSince, forgotten>> /\ StoreUnchanged

(* 5. defineTool: the limits of the tool, all of them or none.  The handler runs or does
   not, and an audit row tells of it either way: neither has state here. *)
ToolGate(q) ==
    /\ mcp[q].pc = "limit"
    /\ IF Admits({"tool-minute", "tool-day"}, "tool")
       THEN Charge({"tool-minute", "tool-day"}, "tool", q)
       ELSE UNCHANGED hits
    /\ Pass(q, "done")
    /\ UNCHANGED <<now, tokenRows, cache, deadSince, forgotten>> /\ StoreUnchanged

RequestStep(q) ==
    \/ LookUpToken(q) \/ ReadRow(q) \/ KeepRow(q) \/ UserGate(q) \/ AskPolicies(q)
    \/ FindTool(q) \/ ToolGate(q)

-----------------------------------------------------------------------------
(* Around the requests *)

(* An administrator changes the policies in the database. *)
EditPolicies ==
    /\ policy
    /\ policy' = FALSE /\ withdrawn' = now
    /\ UNCHANGED <<mcp, policies, inFlight, failures, tokenVars>>

(* A server process dies, with its caches and its requests. *)
ServerDies(s) ==
    /\ Fail
    /\ mcp' = [q \in Requests |->
          IF mcp[q].server = s THEN [NoRequest EXCEPT !.pc = "refused"] ELSE mcp[q]]
    /\ cache' = [cache EXCEPT ![s] = [t \in Tokens |-> None]]
    /\ policies' = [policies EXCEPT ![s] = None]
    /\ inFlight' = [inFlight EXCEPT ![s] = NoLoad]
    /\ revoking' = [t \in Tokens |-> IF revoking[t] = s THEN None ELSE revoking[t]]
    /\ UNCHANGED <<hits, now, token, userActive, userLock, creating, deadSince, forgotten,
                   policy, withdrawn>>

GatewayNext ==
    \/ \E q \in Requests :
          RequestStep(q) \/ \E s \in Servers, t \in Tokens : Arrive(q, s, t)
    \/ \E s \in Servers : QueryPolicies(s) \/ PoliciesLoaded(s) \/ LoadFails(s) \/ ServerDies(s)
    \/ EditPolicies
    \/ TokenEnds /\ UNCHANGED gateVars
    \/ Tick /\ UNCHANGED <<tokenRows, cache, deadSince, forgotten, gateVars>>

(* Calls run while tokens are created. *)
GatewaySpec ==
    /\ LimiterInit /\ TokensInit /\ GatewayInit
    /\ [][GatewayNext \/ (TokenCreation /\ UNCHANGED gateVars)]_gatewayVars

-----------------------------------------------------------------------------
(* Properties *)

(* No window of a rule sees more requests pass than its limit,
   and the two rules of a tool count the same requests: one that is refused by one of
   them is charged to none (rate-limiter.ts:9-12). *)
WithinLimits ==
    /\ \A w \in {"mcp-ip", "mcp-user", "tool-minute", "tool-day", "pat-create"} \X Subjects :
          Cardinality(hits[w]) <= Limit[w[1]]
    /\ hits[<<"tool-minute", "tool">>] =
          {h \in hits[<<"tool-day", "tool">>] : h.at > now - Window["tool-minute"]}

(* A request whose token has been revoked, or whose user was disabled, passes for less
   than PAT_CACHE_TTL_MS, and not at all on the server that answered the revocation:
   unless the reading it passes on was overtaken on its way to the cache
   (auth-service.ts:352, token.ts:14-16, auth.ts:113-160). *)
RevokedTokensStop ==
    [][\A q \in Requests :
          mcp[q].pc \in {"look", "arrive"} /\ mcp'[q].pc = "user" =>
             LET t == mcp[q].token
             IN  \/ deadSince[t] = None
                 \/ mcp'[q].overtaken
                 \/ now - deadSince[t] < PatTTL /\ t \notin forgotten[mcp[q].server]]_gatewayVars

(* A tool that a role may no longer use is found for less than CACHE_TTL_MS, or less than
   MAX_STALE_MS while the database is down, unless the policies were overtaken by the
   change on their way to the cache (role-policy-store.ts:9-14). *)
PolicyChangesApply ==
    [][\A q \in Requests :
          mcp[q].pc \in {"policy", "wait"} /\ mcp'[q].pc = "tool" /\ mcp'[q].allowed =>
             \/ withdrawn = None
             \/ mcp'[q].late
             \/ mcp'[q].asked - withdrawn < (IF mcp'[q].stale THEN MaxStale ELSE PolicyTTL)]_gatewayVars

=============================================================================
