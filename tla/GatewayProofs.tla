----------------------------- MODULE GatewayProofs -----------------------------
(***************************************************************************)
(* Proofs about the gateway, for every number of requests, tokens, server  *)
(* processes, visitors and rows, and every length of the windows and of    *)
(* the caches' times to live.                                              *)
(*                                                                         *)
(* McpGateway.tla: what a cache still says of a token or of the policies   *)
(* is no older than its time to live, or was overtaken on its way into the *)
(* cache.  LoginThrottle.tla: what the address's counter holds and the     *)
(* logins under way are bounded together.  AuditTrail.tla: a walk has      *)
(* shown all that was there above the place where its next page begins.    *)
(***************************************************************************)
EXTENDS McpGateway, LoginThrottle, AuditTrail, FiniteSetTheorems, SequenceTheorems,
        TLAPS

WholeNext == GatewayNext \/ (TokenCreation /\ UNCHANGED gateVars)

(* A request at a gate is of a server and of a token. *)
Located ==
    \A q \in Requests :
       mcp[q].pc \notin {"idle", "done", "refused"} =>
          mcp[q].server \in Servers /\ mcp[q].token \in Tokens

(* A token that stopped being valid never is again. *)
DeadStaysDead ==
    \A t \in Tokens : deadSince[t] # None =>
       deadSince[t] \in 0..now /\ token[t] # "none" /\ ~ ReadsValid(t)

(* A revocation under way or answered is in the row. *)
RevocationsHold ==
    \A t \in Tokens :
       /\ revoking[t] # None => token[t] = "revoked"
       /\ \A s \in Servers : t \in forgotten[s] => token[t] = "revoked"

(* What a cache holds was true when it came, or was overtaken. *)
CacheTells ==
    \A s \in Servers : \A t \in Tokens : cache[s][t] # None =>
       /\ cache[s][t].at \in 0..now
       /\ cache[s][t].valid /\ ~ cache[s][t].overtaken =>
             /\ t \notin forgotten[s]
             /\ deadSince[t] # None => cache[s][t].at <= deadSince[t]

(* The same of the policies. *)
PoliciesTell ==
    /\ withdrawn # None => withdrawn \in 0..now /\ ~ policy
    /\ \A s \in Servers : policies[s] # None =>
          /\ policies[s].at \in 0..now
          /\ policies[s].allowed /\ ~ policies[s].overtaken /\ withdrawn # None =>
                policies[s].at <= withdrawn

GateInv ==
    GatewayTypeOK /\ Located /\ DeadStaysDead /\ RevocationsHold /\ CacheTells /\ PoliciesTell

LEMMA GateInitInv == LimiterInit /\ TokensInit /\ GatewayInit => GateInv
<1> SUFFICES ASSUME LimiterInit, TokensInit, GatewayInit PROVE GateInv
  OBVIOUS
<1> USE RateLimiterAssumption, TokensAssumption, GatewayAssumption
        DEF LimiterInit, TokensInit, GatewayInit
<1>1. GatewayTypeOK
  <2>1. LimiterTypeOK
    BY DEF LimiterTypeOK
  <2>2. TokensTypeOK
    BY <2>1 DEF TokensTypeOK, TokenStatus, Reading
  <2> QED BY <2>2 DEF GatewayTypeOK, Request, NoRequest, Policies, Load, NoLoad
<1>2. Located /\ DeadStaysDead /\ RevocationsHold /\ CacheTells /\ PoliciesTell
  BY DEF Located, DeadStaysDead, RevocationsHold, CacheTells, PoliciesTell, NoRequest
<1> QED BY <1>1, <1>2 DEF GateInv

-----------------------------------------------------------------------------
(* Types *)

(* A charge adds an entry of this moment. *)
LEMMA ChargeTypes ==
    ASSUME LimiterTypeOK, NEW rules, NEW subject, NEW m \in Members,
           Charge(rules, subject, m), now' = now
    PROVE  LimiterTypeOK'
BY DEF LimiterTypeOK, Charge, Entry

LEMMA TickTypes ==
    ASSUME LimiterTypeOK, Tick
    PROVE  LimiterTypeOK'
BY RateLimiterAssumption DEF LimiterTypeOK, Tick, Entry

Gates == {"idle", "look", "load", "arrive", "user", "policy", "wait", "tool", "limit", "done",
          "refused"}

(* A request may be at any gate, with any reading. *)
LEMMA AtAnyGate ==
    ASSUME NEW r \in Request, NEW pc \in Gates
    PROVE  [r EXCEPT !.pc = pc] \in Request
BY DEF Request, Gates

LEMMA WithReading ==
    ASSUME NEW r \in Request, NEW pc \in Gates, NEW read \in BOOLEAN, NEW overtaken \in BOOLEAN
    PROVE  /\ [r EXCEPT !.pc = pc, !.read = read] \in Request
           /\ [r EXCEPT !.pc = pc, !.overtaken = overtaken] \in Request
           /\ [r EXCEPT !.pc = pc, !.read = read, !.overtaken = overtaken] \in Request
BY DEF Request, Gates

LEMMA WithPolicies ==
    ASSUME NEW r \in Request, NEW pc \in Gates,
           NEW allowed \in BOOLEAN, NEW late \in BOOLEAN, NEW stale \in BOOLEAN
    PROVE  [r EXCEPT !.pc = pc, !.allowed = allowed, !.late = late, !.stale = stale] \in Request
BY DEF Request, Gates

LEMMA WithTime ==
    ASSUME NEW r \in Request, NEW pc \in Gates, NEW asked \in 0..MaxTime
    PROVE  [r EXCEPT !.pc = pc, !.asked = asked] \in Request
BY DEF Request, Gates

LEMMA Asked ==
    ASSUME NEW r \in Request, NEW asked \in 0..MaxTime
    PROVE  [r EXCEPT !.asked = asked] \in Request
BY DEF Request

LEMMA NoRequestType == NoRequest \in Request
<1>1. 0 \in 0..MaxTime
  BY RateLimiterAssumption
<1> QED BY <1>1 DEF NoRequest, Request

(* Passing keeps a request what it is. *)
LEMMA PassTypes ==
    ASSUME mcp \in [Requests -> Request], Located, NEW q \in Requests,
           NEW pc \in {"load", "done", "refused"}, Pass(q, pc),
           mcp[q].pc \notin {"idle", "done", "refused"}
    PROVE  mcp' \in [Requests -> Request] /\ Located'
<1>1. [NoRequest EXCEPT !.pc = pc] \in Request /\ [mcp[q] EXCEPT !.pc = pc] \in Request
  BY AtAnyGate, NoRequestType DEF Gates
<1>2. mcp' \in [Requests -> Request]
  BY <1>1 DEF Pass
<1>3. Located'
  BY DEF Pass, Located, Request, NoRequest
<1> QED BY <1>2, <1>3

LEMMA LoadTypes ==
    ASSUME NEW l \in Load
    PROVE  /\ [l EXCEPT !.pc = "query"] \in Load
           /\ \A b \in BOOLEAN : [l EXCEPT !.pc = "answer", !.allowed = b] \in Load
           /\ NoLoad \in Load
BY DEF Load, NoLoad

(* Verdict passes a request on with what the reading says, or refuses it. *)
Judged(q) ==
    \/ Pass(q, "refused")
    \/ \E b \in BOOLEAN :
          mcp' = [mcp EXCEPT ![q] = [mcp[q] EXCEPT !.pc = "user", !.read = FALSE, !.overtaken = b]]

LEMMA JudgedTypes ==
    ASSUME mcp \in [Requests -> Request], Located, NEW q \in Requests, Judged(q),
           mcp[q].pc \notin {"idle", "done", "refused"}
    PROVE  mcp' \in [Requests -> Request] /\ Located'
<1>1. CASE Pass(q, "refused")
  BY <1>1, PassTypes
<1>2. ASSUME NEW b \in BOOLEAN,
             mcp' = [mcp EXCEPT ![q] = [mcp[q] EXCEPT !.pc = "user", !.read = FALSE, !.overtaken = b]]
      PROVE  mcp' \in [Requests -> Request] /\ Located'
  <2>1. [mcp[q] EXCEPT !.pc = "user", !.read = FALSE, !.overtaken = b] \in Request
    BY DEF Request
  <2> QED BY <1>2, <2>1 DEF Located, Request
<1> QED BY <1>1, <1>2 DEF Judged

LEMMA RequestTypes ==
    ASSUME GatewayTypeOK, Located, NEW q \in Requests, RequestStep(q)
    PROVE  GatewayTypeOK' /\ Located'
<1> USE RateLimiterAssumption, TokensAssumption, GatewayAssumption DEF GatewayTypeOK, TokensTypeOK
<1>1. CASE LookUpToken(q)
  <2> DEFINE entry == cache[mcp[q].server][mcp[q].token]
  <2>1. mcp' \in [Requests -> Request] /\ Located'
    <3>1. CASE Fresh(mcp[q].server, mcp[q].token)
      <4>1. entry \in Reading
        BY <1>1, <3>1 DEF LookUpToken, Fresh, Located
      <4>2. entry.valid \in BOOLEAN /\ entry.overtaken \in BOOLEAN
        BY <4>1 DEF Reading
      <4>3. Judged(q) /\ mcp[q].pc = "look"
        BY <1>1, <3>1, <4>2 DEF LookUpToken, Verdict, Judged
      <4> QED BY <4>3, JudgedTypes
    <3>2. CASE ~ Fresh(mcp[q].server, mcp[q].token)
      BY <1>1, <3>2, PassTypes DEF LookUpToken
    <3> QED BY <3>1, <3>2
  <2> QED BY <1>1, <2>1 DEF LookUpToken, tokenVars, tokenRows, StoreUnchanged, LimiterTypeOK
<1>2. CASE ReadRow(q)
  <2>1. [mcp[q] EXCEPT !.pc = "arrive", !.read = ReadsValid(mcp[q].token)] \in Request
    <3>1. ReadsValid(mcp[q].token) \in BOOLEAN
      BY DEF ReadsValid
    <3> QED BY <3>1, WithReading DEF Gates
  <2>2. mcp' = [mcp EXCEPT ![q] = [mcp[q] EXCEPT !.pc = "arrive", !.read = ReadsValid(mcp[q].token)]]
    BY <1>2 DEF ReadRow
  <2>3. mcp' \in [Requests -> Request] /\ Located'
    <3> DEFINE r == [mcp[q] EXCEPT !.pc = "arrive", !.read = ReadsValid(mcp[q].token)]
    <3>1. r.server = mcp[q].server /\ r.token = mcp[q].token /\ mcp[q].pc = "load"
      BY <1>2 DEF Request, ReadRow
    <3>2. r \in Request /\ mcp' = [mcp EXCEPT ![q] = r]
      BY <2>1, <2>2
    <3> HIDE DEF r
    <3> QED BY <3>1, <3>2 DEF Located
  <2> QED BY <1>2, <2>3 DEF ReadRow, tokenVars, tokenRows, StoreUnchanged, LimiterTypeOK
<1>3. CASE KeepRow(q)
  <2> DEFINE overtaken == mcp[q].read /\ ~ ReadsValid(mcp[q].token)
  <2>1. mcp[q].read \in BOOLEAN /\ overtaken \in BOOLEAN /\ now \in 0..MaxTime
    BY DEF Request, LimiterTypeOK
  <2>2. [valid |-> mcp[q].read, at |-> now, overtaken |-> overtaken] \in Reading
    BY <2>1 DEF Reading
  <2>3. cache' \in [Servers -> [Tokens -> Reading \cup {None}]]
    BY <1>3, <2>2 DEF KeepRow, Keep
  <2>4. mcp' \in [Requests -> Request] /\ Located'
    <3>1. Judged(q) /\ mcp[q].pc = "arrive"
      BY <1>3, <2>1 DEF KeepRow, Verdict, Judged
    <3> QED BY <3>1, JudgedTypes
  <2> QED BY <1>3, <2>3, <2>4 DEF KeepRow, tokenRows, StoreUnchanged, LimiterTypeOK
<1>4. CASE UserGate(q)
  <2>1. CASE Pass(q, "refused") /\ UNCHANGED hits
    BY <1>4, <2>1, PassTypes DEF UserGate, tokenRows, StoreUnchanged, LimiterTypeOK
  <2>2. CASE /\ Charge({"mcp-user"}, "user", q)
             /\ mcp' = [mcp EXCEPT ![q].pc = "policy", ![q].overtaken = FALSE]
    <3>1. [mcp[q] EXCEPT !.pc = "policy", !.overtaken = FALSE] \in Request
      BY WithReading DEF Gates
    <3>2. mcp' \in [Requests -> Request] /\ Located'
      BY <1>4, <2>2, <3>1 DEF Located, Request, UserGate
    <3>3. LimiterTypeOK'
      BY <1>4, <2>2, ChargeTypes DEF UserGate
    <3> QED BY <1>4, <3>2, <3>3 DEF UserGate, tokenRows, StoreUnchanged
  <2> QED BY <1>4, <2>1, <2>2 DEF UserGate
<1>5. CASE AskPolicies(q)
  <2> DEFINE entry == policies[mcp[q].server]
  <2>1. mcp[q].pc = "policy" /\ mcp[q].server \in Servers /\ now \in 0..MaxTime
    BY <1>5 DEF AskPolicies, Located, LimiterTypeOK
  <2>2. mcp' \in [Requests -> Request] /\ Located'
    <3>1. CASE mcp' = [mcp EXCEPT ![q].pc = "wait", ![q].asked = now]
      <4>1. [mcp[q] EXCEPT !.pc = "wait", !.asked = now] \in Request
        BY <2>1, WithTime DEF Gates
      <4> QED BY <2>1, <3>1, <4>1 DEF Located, Request
    <3>2. CASE /\ entry # None
               /\ mcp' = [mcp EXCEPT ![q] =
                      [PassPolicy(q, entry.allowed, entry.overtaken, FALSE) EXCEPT !.asked = now]]
      <4>1. entry \in Policies
        BY <2>1, <3>2
      <4>2. entry.allowed \in BOOLEAN /\ entry.overtaken \in BOOLEAN
        BY <4>1 DEF Policies
      <4>3. [PassPolicy(q, entry.allowed, entry.overtaken, FALSE) EXCEPT !.asked = now] \in Request
        <5>1. PassPolicy(q, entry.allowed, entry.overtaken, FALSE) \in Request
          <6>1. "tool" \in Gates /\ FALSE \in BOOLEAN /\ mcp[q] \in Request
            BY DEF Gates
          <6> QED BY <4>2, <6>1, WithPolicies DEF PassPolicy
        <5> QED BY <2>1, <5>1, Asked
      <4>4. mcp' \in [Requests -> Request]
        BY <3>2, <4>3
      <4>5. mcp'[q].server = mcp[q].server /\ mcp'[q].token = mcp[q].token
        BY <3>2 DEF PassPolicy, Request
      <4> QED BY <2>1, <3>2, <4>4, <4>5 DEF Located
    <3> QED BY <1>5, <3>1, <3>2 DEF AskPolicies
  <2>3. inFlight' \in [Servers -> Load]
    <3>1. [inFlight[mcp[q].server] EXCEPT !.pc = "query"] \in Load
      BY <2>1, LoadTypes
    <3> QED BY <1>5, <3>1 DEF AskPolicies
  <2> QED BY <1>5, <2>2, <2>3 DEF AskPolicies, tokenVars, tokenRows, LimiterTypeOK
<1>6. CASE FindTool(q)
  <2>1. CASE Pass(q, "refused")
    BY <1>6, <2>1, PassTypes DEF FindTool, tokenVars, tokenRows, StoreUnchanged, LimiterTypeOK
  <2>2. CASE mcp' = [mcp EXCEPT ![q] = [@ EXCEPT !.pc = "limit", !.asked = 0, !.allowed = FALSE,
                                                !.late = FALSE, !.stale = FALSE]]
    <3>1. [mcp[q] EXCEPT !.pc = "limit", !.asked = 0, !.allowed = FALSE, !.late = FALSE,
                         !.stale = FALSE] \in Request
      <4>1. 0 \in 0..MaxTime /\ mcp[q] \in Request
        BY RateLimiterAssumption
      <4> HIDE DEF GatewayTypeOK, TokensTypeOK
      <4> QED BY <4>1 DEF Request
    <3>2. mcp' \in [Requests -> Request] /\ Located'
      BY <1>6, <2>2, <3>1 DEF Located, Request, FindTool
    <3> QED BY <1>6, <3>2 DEF FindTool, tokenVars, tokenRows, StoreUnchanged, LimiterTypeOK
  <2> QED BY <1>6, <2>1, <2>2 DEF FindTool
<1>7. CASE ToolGate(q)
  <2>1. mcp' \in [Requests -> Request] /\ Located'
    BY <1>7, PassTypes DEF ToolGate
  <2>2. LimiterTypeOK'
    <3>1. CASE UNCHANGED hits
      BY <1>7, <3>1 DEF ToolGate, LimiterTypeOK
    <3>2. CASE Charge({"tool-minute", "tool-day"}, "tool", q)
      BY <1>7, <3>2, ChargeTypes DEF ToolGate
    <3> QED BY <1>7, <3>1, <3>2 DEF ToolGate
  <2> QED BY <1>7, <2>1, <2>2 DEF ToolGate, tokenRows, StoreUnchanged
<1> QED BY <1>1, <1>2, <1>3, <1>4, <1>5, <1>6, <1>7 DEF RequestStep

(* Requests that wait are passed on or refused together. *)
LEMMA WaitingTypes ==
    ASSUME mcp \in [Requests -> Request], Located,
           mcp' = [q \in Requests |-> mcp'[q]],
           \A q \in Requests :
              \/ mcp'[q] = mcp[q]
              \/ mcp[q].pc = "wait" /\ \E x \in BOOLEAN, y \in BOOLEAN, z \in BOOLEAN :
                    mcp'[q] = PassPolicy(q, x, y, z)
              \/ mcp'[q] = [NoRequest EXCEPT !.pc = "refused"]
    PROVE  mcp' \in [Requests -> Request] /\ Located'
<1>1. [NoRequest EXCEPT !.pc = "refused"] \in Request /\ [NoRequest EXCEPT !.pc = "refused"].pc = "refused"
  <2>1. [NoRequest EXCEPT !.pc = "refused"] \in Request
    BY AtAnyGate, NoRequestType DEF Gates
  <2>2. [NoRequest EXCEPT !.pc = "refused"].pc = "refused"
    BY DEF NoRequest
  <2> QED BY <2>1, <2>2
<1>2. ASSUME NEW q \in Requests, NEW x \in BOOLEAN, NEW y \in BOOLEAN, NEW z \in BOOLEAN
      PROVE  /\ PassPolicy(q, x, y, z) \in Request
             /\ PassPolicy(q, x, y, z).server = mcp[q].server
             /\ PassPolicy(q, x, y, z).token = mcp[q].token
  <2>1. mcp[q] \in Request /\ "tool" \in Gates
    BY DEF Gates
  <2>2. PassPolicy(q, x, y, z) \in Request
    BY <2>1, WithPolicies DEF PassPolicy
  <2> QED BY <2>1, <2>2 DEF PassPolicy, Request
<1>3. \A q \in Requests : mcp'[q] \in Request
  BY <1>1, <1>2
<1>4. mcp' \in [Requests -> Request]
  BY <1>3
<1>5. Located'
  <2> SUFFICES ASSUME NEW q \in Requests, mcp'[q].pc \notin {"idle", "done", "refused"}
               PROVE  mcp'[q].server \in Servers /\ mcp'[q].token \in Tokens
    BY DEF Located
  <2>1. CASE mcp'[q] = mcp[q]
    BY <2>1 DEF Located
  <2>2. CASE mcp[q].pc = "wait" /\ \E x \in BOOLEAN, y \in BOOLEAN, z \in BOOLEAN :
                mcp'[q] = PassPolicy(q, x, y, z)
    <3>1. PICK x \in BOOLEAN, y \in BOOLEAN, z \in BOOLEAN : mcp'[q] = PassPolicy(q, x, y, z)
      BY <2>2
    <3>2. mcp[q].server \in Servers /\ mcp[q].token \in Tokens
      BY <2>2 DEF Located
    <3>3. /\ PassPolicy(q, x, y, z).server = mcp[q].server
          /\ PassPolicy(q, x, y, z).token = mcp[q].token
      BY <1>2
    <3> QED BY <3>1, <3>2, <3>3
  <2> QED BY <1>1, <2>1, <2>2
<1> QED BY <1>4, <1>5

LEMMA PolicyTypes ==
    ASSUME GatewayTypeOK, Located, NEW s \in Servers,
           QueryPolicies(s) \/ PoliciesLoaded(s) \/ LoadFails(s)
    PROVE  GatewayTypeOK' /\ Located'
<1> USE RateLimiterAssumption, TokensAssumption, GatewayAssumption DEF GatewayTypeOK, TokensTypeOK
<1>1. CASE QueryPolicies(s)
  <2>1. inFlight' \in [Servers -> Load]
    BY <1>1, LoadTypes DEF QueryPolicies
  <2> QED BY <1>1, <2>1 DEF QueryPolicies, tokenVars, tokenRows, LimiterTypeOK, Located
<1>2. CASE PoliciesLoaded(s)
  <2> DEFINE allowed == inFlight[s].allowed
             overtaken == allowed /\ ~ policy
  <2>1. allowed \in BOOLEAN /\ overtaken \in BOOLEAN /\ now \in 0..MaxTime
    BY DEF Load, LimiterTypeOK
  <2>2. [allowed |-> allowed, at |-> now, overtaken |-> overtaken] \in Policies
    BY <2>1 DEF Policies
  <2>3. policies' \in [Servers -> Policies \cup {None}]
    BY <1>2, <2>2 DEF PoliciesLoaded
  <2>4. mcp' \in [Requests -> Request] /\ Located'
    <3>1. mcp' = [q \in Requests |->
             IF q \in Waiting(s) THEN PassPolicy(q, allowed, overtaken, FALSE) ELSE mcp[q]]
      BY <1>2 DEF PoliciesLoaded
    <3> HIDE DEF allowed, overtaken
    <3>2. \A q \in Requests :
             \/ mcp'[q] = mcp[q]
             \/ mcp[q].pc = "wait" /\ mcp'[q] = PassPolicy(q, allowed, overtaken, FALSE)
      BY <3>1 DEF Waiting
    <3>3. mcp' = [q \in Requests |-> mcp'[q]]
      BY <3>1
    <3> HIDE DEF GatewayTypeOK
    <3>4. mcp \in [Requests -> Request]
      BY DEF GatewayTypeOK
    <3>5. \A q \in Requests : mcp'[q] = PassPolicy(q, allowed, overtaken, FALSE) =>
             \E x \in BOOLEAN, y \in BOOLEAN, z \in BOOLEAN : mcp'[q] = PassPolicy(q, x, y, z)
      BY <2>1, Zenon
    <3> QED BY <3>2, <3>3, <3>4, <3>5, WaitingTypes
  <2>5. inFlight' \in [Servers -> Load]
    BY <1>2, LoadTypes DEF PoliciesLoaded
  <2> QED BY <1>2, <2>3, <2>4, <2>5 DEF PoliciesLoaded, tokenVars, tokenRows, LimiterTypeOK
<1>3. CASE LoadFails(s)
  <2>1. mcp' \in [Requests -> Request] /\ Located'
    <3> DEFINE entry == policies[s]
    <3>1. mcp' = [q \in Requests |->
             IF q \notin Waiting(s) THEN mcp[q]
             ELSE IF Usable(q, entry) THEN PassPolicy(q, entry.allowed, entry.overtaken, TRUE)
             ELSE [NoRequest EXCEPT !.pc = "refused"]]
      BY <1>3 DEF LoadFails
    <3>2. \A q \in Requests :
             \/ mcp'[q] = mcp[q]
             \/ /\ mcp[q].pc = "wait" /\ Usable(q, entry)
                /\ mcp'[q] = PassPolicy(q, entry.allowed, entry.overtaken, TRUE)
             \/ mcp'[q] = [NoRequest EXCEPT !.pc = "refused"]
      BY <3>1 DEF Waiting
    <3>3. mcp' = [q \in Requests |-> mcp'[q]]
      BY <3>1
    <3>4. mcp \in [Requests -> Request] /\ (entry # None => entry \in Policies)
      OBVIOUS
    <3> HIDE DEF GatewayTypeOK, entry
    <3>5. \A q \in Requests :
             Usable(q, entry) /\ mcp'[q] = PassPolicy(q, entry.allowed, entry.overtaken, TRUE) =>
             \E x \in BOOLEAN, y \in BOOLEAN, z \in BOOLEAN : mcp'[q] = PassPolicy(q, x, y, z)
      <4>1. entry # None => entry.allowed \in BOOLEAN /\ entry.overtaken \in BOOLEAN
        BY <3>4 DEF Policies
      <4>2. \A q \in Requests : Usable(q, entry) => entry # None
        BY DEF Usable
      <4> QED BY <4>1, <4>2, Zenon
    <3> QED BY <3>2, <3>3, <3>4, <3>5, WaitingTypes
  <2>2. inFlight' \in [Servers -> Load]
    BY <1>3, LoadTypes DEF LoadFails
  <2>3. failures' \in 0..MaxFailures
    BY <1>3 DEF LoadFails, Fail
  <2> QED BY <1>3, <2>1, <2>2, <2>3 DEF LoadFails, tokenVars, tokenRows, LimiterTypeOK
<1> QED BY <1>1, <1>2, <1>3

(* Tokens come and go; requests and policies stay. *)
LEMMA TokenTypes ==
    ASSUME GatewayTypeOK, Located, TokenCreation \/ TokenEnds, UNCHANGED gateVars
    PROVE  GatewayTypeOK' /\ Located'
<1> USE RateLimiterAssumption, TokensAssumption DEF TokensTypeOK
<1>1. TokensTypeOK /\ LimiterTypeOK /\ now \in 0..MaxTime
  BY DEF GatewayTypeOK, LimiterTypeOK
<1>2. ASSUME NEW r \in Creators, AskForToken(r)
      PROVE  TokensTypeOK'
  <2>1. CASE UNCHANGED hits
    BY <1>1, <1>2, <2>1 DEF AskForToken, To, LimiterTypeOK
  <2>2. CASE Charge({"pat-create"}, "user", r)
    <3>1. LimiterTypeOK'
      BY <1>1, <1>2, <2>2, ChargeTypes DEF AskForToken
    <3> QED BY <1>1, <1>2, <3>1 DEF AskForToken, To
  <2> QED BY <1>2, <2>1, <2>2 DEF AskForToken
<1>3. ASSUME NEW r \in Creators, LockUser(r) \/ CountActive(r) \/ InsertToken(r) \/ CreateFails(r)
      PROVE  TokensTypeOK'
  BY <1>1, <1>3 DEF LockUser, CountActive, InsertToken, CreateFails, To, Unlock, LimiterTypeOK,
     TokenStatus
<1>4. ASSUME NEW t \in Tokens, TokenExpires(t)
      PROVE  TokensTypeOK'
  BY <1>1, <1>4 DEF TokenExpires, LimiterTypeOK, TokenStatus
<1>5. ASSUME NEW t \in Tokens, ForgetPat(t)
      PROVE  TokensTypeOK'
  <2> DEFINE s == revoking[t]
  <2>1. s \in Servers
    BY <1>1, <1>5 DEF ForgetPat
  <2>2. cache' \in [Servers -> [Tokens -> Reading \cup {None}]]
    BY <1>1, <1>5, <2>1 DEF ForgetPat
  <2>3. forgotten' \in [Servers -> SUBSET Tokens] /\ revoking' \in [Tokens -> Servers \cup {None}]
    BY <1>1, <1>5, <2>1 DEF ForgetPat
  <2> QED BY <1>1, <1>5, <2>2, <2>3 DEF ForgetPat, LimiterTypeOK
<1>6. ASSUME NEW t \in Tokens, NEW s \in Servers, RevokeToken(s, t)
      PROVE  TokensTypeOK'
  <2>1. deadSince' \in [Tokens -> 0..MaxTime \cup {None}]
    BY <1>1, <1>6 DEF RevokeToken
  <2> QED BY <1>1, <1>6, <2>1 DEF RevokeToken, LimiterTypeOK, TokenStatus
<1>7. ASSUME DisableUser PROVE TokensTypeOK'
  <2>1. deadSince' \in [Tokens -> 0..MaxTime \cup {None}]
    BY <1>1, <1>7 DEF DisableUser
  <2>2. userActive' \in BOOLEAN
    BY <1>7 DEF DisableUser
  <2>3. UNCHANGED <<hits, now, token, userLock, creating, revoking, cache, forgotten>>
    BY <1>7 DEF DisableUser
  <2> QED BY <1>1, <2>1, <2>2, <2>3 DEF LimiterTypeOK
<1>8. TokensTypeOK'
  <2> HIDE DEF TokensTypeOK
  <2>1. CASE TokenCreation
    BY <1>2, <1>3, <2>1 DEF TokenCreation
  <2>2. CASE TokenEnds
    BY <1>4, <1>5, <1>6, <1>7, <2>2 DEF TokenEnds
  <2> QED BY <2>1, <2>2
<1> QED BY <1>8 DEF GatewayTypeOK, Located, gateVars

LEMMA ArriveTypes ==
    ASSUME GatewayTypeOK, Located, NEW q \in Requests, NEW s \in Servers, NEW t \in Tokens,
           Arrive(q, s, t)
    PROVE  GatewayTypeOK' /\ Located'
<1> USE GatewayAssumption
<1>1. mcp \in [Requests -> Request] /\ LimiterTypeOK
  BY DEF GatewayTypeOK, TokensTypeOK
<1>2. mcp' \in [Requests -> Request] /\ Located' /\ LimiterTypeOK'
  <2>1. CASE UNCHANGED hits /\ Pass(q, "refused")
    <3>1. [NoRequest EXCEPT !.pc = "refused"] \in Request
      BY AtAnyGate, NoRequestType DEF Gates
    <3>2. mcp' = [mcp EXCEPT ![q] = [NoRequest EXCEPT !.pc = "refused"]]
      BY <2>1 DEF Pass
    <3>3. [NoRequest EXCEPT !.pc = "refused"].pc = "refused"
      BY DEF NoRequest
    <3>4. Located'
      BY <1>1, <3>2, <3>3 DEF Located
    <3> QED BY <1>1, <2>1, <3>1, <3>2, <3>4 DEF Arrive, LimiterTypeOK
  <2>2. CASE /\ Charge({"mcp-ip"}, "address", q)
             /\ mcp' = [mcp EXCEPT ![q].pc = "look", ![q].server = s, ![q].token = t]
    <3> DEFINE r == [mcp[q] EXCEPT !.pc = "look", !.server = s, !.token = t]
    <3>1. r \in Request /\ r.server = s /\ r.token = t
      BY <1>1 DEF Request
    <3>2. mcp' = [mcp EXCEPT ![q] = r]
      BY <1>1, <2>2
    <3>3. LimiterTypeOK'
      BY <1>1, <2>2, ChargeTypes DEF Arrive
    <3> HIDE DEF r
    <3> QED BY <1>1, <3>1, <3>2, <3>3 DEF Located
  <2> QED BY <2>1, <2>2 DEF Arrive
<1> QED BY <1>2 DEF Arrive, GatewayTypeOK, TokensTypeOK, tokenRows, StoreUnchanged

(* A crash, an edit, and the clock. *)
LEMMA AroundTypes ==
    ASSUME GatewayTypeOK, Located,
           \/ EditPolicies
           \/ \E s \in Servers : ServerDies(s)
           \/ Tick /\ UNCHANGED <<tokenRows, cache, deadSince, forgotten, gateVars>>
           \/ UNCHANGED gatewayVars
    PROVE  GatewayTypeOK' /\ Located'
<1> USE TokensAssumption, GatewayAssumption DEF GatewayTypeOK, TokensTypeOK
<1>1. CASE EditPolicies
  BY <1>1 DEF EditPolicies, tokenVars, tokenRows, LimiterTypeOK, Located
<1>2. ASSUME NEW s \in Servers, ServerDies(s)
      PROVE  GatewayTypeOK' /\ Located'
  <2>1. mcp' \in [Requests -> Request] /\ Located'
    <3>1. /\ \A q \in Requests : mcp'[q] = mcp[q] \/ mcp'[q] = [NoRequest EXCEPT !.pc = "refused"]
          /\ mcp' = [q \in Requests |-> mcp'[q]]
      BY <1>2 DEF ServerDies
    <3> QED BY <3>1, WaitingTypes
  <2>2. inFlight' \in [Servers -> Load]
    BY <1>2, LoadTypes DEF ServerDies
  <2>3. failures' \in 0..MaxFailures
    BY <1>2 DEF ServerDies, Fail
  <2>4. policies' \in [Servers -> Policies \cup {None}]
        /\ cache' \in [Servers -> [Tokens -> Reading \cup {None}]]
        /\ revoking' \in [Tokens -> Servers \cup {None}]
    BY <1>2 DEF ServerDies
  <2> QED BY <1>2, <2>1, <2>2, <2>3, <2>4 DEF ServerDies, LimiterTypeOK
<1>3. CASE Tick /\ UNCHANGED <<tokenRows, cache, deadSince, forgotten, gateVars>>
  BY <1>3, TickTypes DEF tokenRows, gateVars, Located
<1>4. CASE UNCHANGED gatewayVars
  BY <1>4 DEF gatewayVars, tokenVars, tokenRows, gateVars, LimiterTypeOK, Located
<1> QED BY <1>1, <1>2, <1>3, <1>4

LEMMA WholeTypes == GatewayTypeOK /\ Located /\ [WholeNext]_gatewayVars => GatewayTypeOK' /\ Located'
BY RequestTypes, PolicyTypes, TokenTypes, ArriveTypes, AroundTypes DEF WholeNext, GatewayNext

-----------------------------------------------------------------------------
(* What changes tokens, and what changes caches *)

TokenFacts == <<now, token, userActive, revoking, deadSince, forgotten>>

(* A request changes no token, and the policies' loads neither. *)
LEMMA CallsLeaveTokens ==
    /\ \A q \in Requests : RequestStep(q) => UNCHANGED TokenFacts
    /\ \A q \in Requests, s \in Servers, t \in Tokens :
          Arrive(q, s, t) => UNCHANGED TokenFacts /\ UNCHANGED cache
    /\ \A q \in Requests : RequestStep(q) /\ ~ KeepRow(q) => UNCHANGED cache
    /\ \A s \in Servers : QueryPolicies(s) \/ PoliciesLoaded(s) \/ LoadFails(s) =>
          UNCHANGED TokenFacts /\ UNCHANGED cache
    /\ EditPolicies => UNCHANGED TokenFacts /\ UNCHANGED cache
<1> USE DEF TokenFacts, tokenVars, tokenRows
<1>1. ASSUME NEW q \in Requests, RequestStep(q)
      PROVE  UNCHANGED TokenFacts /\ (KeepRow(q) \/ UNCHANGED cache)
  BY <1>1 DEF RequestStep, LookUpToken, ReadRow, KeepRow, UserGate, AskPolicies, FindTool, ToolGate
<1>2. ASSUME NEW q \in Requests, NEW s \in Servers, NEW t \in Tokens, Arrive(q, s, t)
      PROVE  UNCHANGED TokenFacts /\ UNCHANGED cache
  BY <1>2 DEF Arrive
<1>3. ASSUME NEW s \in Servers, QueryPolicies(s) \/ PoliciesLoaded(s) \/ LoadFails(s)
      PROVE  UNCHANGED TokenFacts /\ UNCHANGED cache
  BY <1>3 DEF QueryPolicies, PoliciesLoaded, LoadFails
<1>4. EditPolicies => UNCHANGED TokenFacts /\ UNCHANGED cache
  BY DEF EditPolicies
<1> QED BY <1>1, <1>2, <1>3, <1>4

LEMMA CreationLeavesTokens ==
    ASSUME NEW r \in Creators,
           AskForToken(r) \/ LockUser(r) \/ CountActive(r) \/ CreateFails(r)
    PROVE  UNCHANGED TokenFacts /\ UNCHANGED cache
BY DEF TokenFacts, AskForToken, LockUser, CountActive, CreateFails

TokenStories == DeadStaysDead /\ RevocationsHold /\ CacheTells

(* Where neither tokens nor caches change, nothing is to be shown. *)
LEMMA StoriesStay ==
    TokenStories /\ UNCHANGED TokenFacts /\ UNCHANGED cache => TokenStories'
BY DEF TokenStories, TokenFacts, DeadStaysDead, RevocationsHold, CacheTells, ReadsValid

(* A reading is cached: it is of this moment, and a token that has died since overtook it. *)
LEMMA KeepStories ==
    ASSUME GateInv, NEW q \in Requests, KeepRow(q)
    PROVE  TokenStories'
<1> DEFINE s == mcp[q].server
           t == mcp[q].token
           entry == [valid |-> mcp[q].read, at |-> now, overtaken |-> mcp[q].read /\ ~ ReadsValid(t)]
<1>1. s \in Servers /\ t \in Tokens /\ now \in Nat /\ mcp[q].read \in BOOLEAN
  BY RateLimiterAssumption DEF GateInv, GatewayTypeOK, TokensTypeOK, LimiterTypeOK, Located, KeepRow, Request
<1>2. cache' = [cache EXCEPT ![s][t] = entry] /\ UNCHANGED TokenFacts
  BY DEF KeepRow, Keep, TokenFacts, tokenRows
<1>3. DeadStaysDead' /\ RevocationsHold'
  BY <1>2 DEF GateInv, DeadStaysDead, RevocationsHold, TokenFacts, ReadsValid
<1>4. CacheTells'
  <2> SUFFICES ASSUME NEW s2 \in Servers, NEW t2 \in Tokens, cache'[s2][t2] # None
               PROVE  /\ cache'[s2][t2].at \in 0..now'
                      /\ cache'[s2][t2].valid /\ ~ cache'[s2][t2].overtaken =>
                            /\ t2 \notin forgotten'[s2]
                            /\ deadSince'[t2] # None => cache'[s2][t2].at <= deadSince'[t2]
    BY DEF CacheTells
  <2>1. CASE s2 = s /\ t2 = t
    <3>1. cache'[s2][t2] = entry
      BY <1>1, <1>2, <2>1 DEF GateInv, GatewayTypeOK, TokensTypeOK
    <3>2. entry.at = now /\ (entry.valid => mcp[q].read)
      OBVIOUS
    <3>3. mcp[q].read /\ ~ ReadsValid(t) => entry.overtaken
      OBVIOUS
    <3>4. t \in forgotten[s] => ~ ReadsValid(t)
      BY <1>1 DEF GateInv, RevocationsHold, ReadsValid
    <3>5. deadSince[t] # None => ~ ReadsValid(t)
      BY <1>1 DEF GateInv, DeadStaysDead
    <3> HIDE DEF entry, s, t
    <3> QED BY <1>1, <1>2, <2>1, <3>1, <3>2, <3>3, <3>4, <3>5 DEF TokenFacts
  <2>2. CASE ~ (s2 = s /\ t2 = t)
    <3>1. cache'[s2][t2] = cache[s2][t2]
      BY <1>1, <1>2, <2>2 DEF GateInv, GatewayTypeOK, TokensTypeOK
    <3> QED BY <1>2, <3>1 DEF GateInv, CacheTells, TokenFacts
  <2> QED BY <2>1, <2>2
<1> QED BY <1>3, <1>4 DEF TokenStories

LEMMA InsertStories ==
    ASSUME GateInv, NEW r \in Creators, InsertToken(r)
    PROVE  TokenStories'
<1>1. PICK t \in Tokens : token[t] = "none" /\ token' = [token EXCEPT ![t] = "active"]
  BY DEF InsertToken
<1>2. UNCHANGED <<now, userActive, revoking, cache, deadSince, forgotten>>
  BY DEF InsertToken
<1>3. deadSince[t] = None
  BY <1>1 DEF GateInv, DeadStaysDead, ReadsValid
<1>4. DeadStaysDead'
  BY <1>1, <1>2, <1>3 DEF GateInv, GatewayTypeOK, TokensTypeOK, DeadStaysDead, ReadsValid
<1>5. RevocationsHold'
  BY <1>1, <1>2 DEF GateInv, GatewayTypeOK, TokensTypeOK, RevocationsHold
<1>6. CacheTells'
  BY <1>2 DEF GateInv, CacheTells
<1> QED BY <1>4, <1>5, <1>6 DEF TokenStories

(* The row says revoked from now on. *)
LEMMA RevokeStories ==
    ASSUME GateInv, NEW s \in Servers, NEW t \in Tokens, RevokeToken(s, t)
    PROVE  TokenStories'
<1>1. /\ token' = [token EXCEPT ![t] = "revoked"] /\ revoking' = [revoking EXCEPT ![t] = s]
      /\ deadSince' = [deadSince EXCEPT ![t] = IF @ = None THEN now ELSE @]
      /\ UNCHANGED <<now, userActive, cache, forgotten>>
  BY DEF RevokeToken
<1>2. /\ token \in [Tokens -> TokenStatus] /\ revoking \in [Tokens -> Servers \cup {None}]
      /\ deadSince \in [Tokens -> 0..MaxTime \cup {None}] /\ now \in Nat
  BY RateLimiterAssumption DEF GateInv, GatewayTypeOK, TokensTypeOK, LimiterTypeOK
<1>3. \A u \in Tokens : deadSince'[u] = deadSince[u] \/ (deadSince[u] = None /\ deadSince'[u] = now)
  BY <1>1, <1>2
<1>4. DeadStaysDead'
  BY <1>1, <1>2 DEF GateInv, DeadStaysDead, ReadsValid
<1>5. RevocationsHold'
  BY <1>1, <1>2 DEF GateInv, RevocationsHold
<1>6. CacheTells'
  BY <1>1, <1>2, <1>3 DEF GateInv, CacheTells
<1> QED BY <1>4, <1>5, <1>6 DEF TokenStories

(* The entry goes, so this server's cache says nothing of the token. *)
LEMMA ForgetStories ==
    ASSUME GateInv, NEW t \in Tokens, ForgetPat(t)
    PROVE  TokenStories'
<1> DEFINE s == revoking[t]
<1>1. /\ s \in Servers
      /\ cache' = [cache EXCEPT ![s][t] = None] /\ revoking' = [revoking EXCEPT ![t] = None]
      /\ forgotten' = [forgotten EXCEPT ![s] = @ \cup {t}]
      /\ UNCHANGED <<now, token, userActive, deadSince>>
  BY DEF ForgetPat, GateInv, GatewayTypeOK, TokensTypeOK
<1>2. /\ cache \in [Servers -> [Tokens -> Reading \cup {None}]]
      /\ forgotten \in [Servers -> SUBSET Tokens] /\ revoking \in [Tokens -> Servers \cup {None}]
  BY DEF GateInv, GatewayTypeOK, TokensTypeOK
<1>3. token[t] = "revoked"
  BY <1>1, TokensAssumption DEF GateInv, RevocationsHold
<1>4. DeadStaysDead'
  <2>1. UNCHANGED <<now, token, userActive, deadSince>>
    BY <1>1
  <2> QED BY <2>1 DEF GateInv, DeadStaysDead, ReadsValid
<1>5. RevocationsHold'
  BY <1>1, <1>2, <1>3 DEF GateInv, RevocationsHold
<1>6. \A s2 \in Servers, t2 \in Tokens : cache'[s2][t2] # None =>
         cache'[s2][t2] = cache[s2][t2] /\ (t2 \in forgotten'[s2] => t2 \in forgotten[s2])
  BY <1>1, <1>2
<1>7. CacheTells'
  <2> HIDE DEF s
  <2> QED BY <1>1, <1>6 DEF GateInv, CacheTells
<1> QED BY <1>4, <1>5, <1>7 DEF TokenStories

LEMMA DisableStories ==
    ASSUME GateInv, DisableUser
    PROVE  TokenStories'
<1>1. /\ userActive' = FALSE /\ UNCHANGED <<now, token, revoking, cache, forgotten>>
      /\ deadSince' = [t \in Tokens |->
            IF token[t] # "none" /\ deadSince[t] = None THEN now ELSE deadSince[t]]
  BY DEF DisableUser
<1>2. now \in Nat
  BY RateLimiterAssumption DEF GateInv, GatewayTypeOK, TokensTypeOK, LimiterTypeOK
<1>3. \A u \in Tokens : deadSince'[u] = deadSince[u] \/ (deadSince[u] = None /\ deadSince'[u] = now)
  BY <1>1
<1>4. DeadStaysDead'
  BY <1>1, <1>2, <1>3 DEF GateInv, DeadStaysDead, ReadsValid
<1>5. RevocationsHold'
  BY <1>1 DEF GateInv, RevocationsHold
<1>6. CacheTells'
  BY <1>1, <1>2, <1>3 DEF GateInv, CacheTells
<1> QED BY <1>4, <1>5, <1>6 DEF TokenStories

LEMMA ExpiryStories ==
    ASSUME GateInv, NEW t \in Tokens, TokenExpires(t)
    PROVE  TokenStories'
<1>1. /\ token[t] = "active" /\ token' = [token EXCEPT ![t] = "expired"]
      /\ UNCHANGED <<now, userActive, revoking, cache, deadSince, forgotten>>
  BY DEF TokenExpires
<1>2. token \in [Tokens -> TokenStatus]
  BY DEF GateInv, GatewayTypeOK, TokensTypeOK
<1>3. DeadStaysDead'
  BY <1>1, <1>2 DEF GateInv, DeadStaysDead, ReadsValid
<1>4. RevocationsHold'
  BY <1>1, <1>2 DEF GateInv, RevocationsHold
<1>5. CacheTells'
  BY <1>1 DEF GateInv, CacheTells
<1> QED BY <1>3, <1>4, <1>5 DEF TokenStories

LEMMA CrashStories ==
    ASSUME GateInv, NEW s \in Servers, ServerDies(s)
    PROVE  TokenStories'
<1>1. /\ cache' = [cache EXCEPT ![s] = [t \in Tokens |-> None]]
      /\ revoking' = [t \in Tokens |-> IF revoking[t] = s THEN None ELSE revoking[t]]
      /\ UNCHANGED <<now, token, userActive, deadSince, forgotten>>
  BY DEF ServerDies
<1>2. cache \in [Servers -> [Tokens -> Reading \cup {None}]]
  BY DEF GateInv, GatewayTypeOK, TokensTypeOK
<1>3. \A s2 \in Servers, t2 \in Tokens : cache'[s2][t2] # None => cache'[s2][t2] = cache[s2][t2]
  BY <1>1, <1>2
<1>4. DeadStaysDead' /\ RevocationsHold'
  BY <1>1 DEF GateInv, DeadStaysDead, RevocationsHold, ReadsValid
<1>5. CacheTells'
  BY <1>1, <1>3 DEF GateInv, CacheTells
<1> QED BY <1>4, <1>5 DEF TokenStories

LEMMA TickStories ==
    ASSUME GateInv, Tick, UNCHANGED <<tokenRows, cache, deadSince, forgotten, gateVars>>
    PROVE  TokenStories' /\ PoliciesTell'
<1>1. now \in Nat /\ now' = now + 1
  BY RateLimiterAssumption DEF Tick, GateInv, GatewayTypeOK, TokensTypeOK, LimiterTypeOK
<1>2. \A n \in 0..now : n \in 0..now'
  BY <1>1
<1>3. UNCHANGED <<token, userActive, revoking, cache, deadSince, forgotten, policy, policies, withdrawn>>
  BY DEF tokenRows, gateVars
<1> HIDE <1>1
<1>4. DeadStaysDead' /\ RevocationsHold'
  BY <1>2, <1>3 DEF GateInv, DeadStaysDead, RevocationsHold, ReadsValid
<1>5. CacheTells'
  BY <1>2, <1>3 DEF GateInv, CacheTells
<1>6. PoliciesTell'
  BY <1>2, <1>3 DEF GateInv, PoliciesTell
<1> QED BY <1>4, <1>5, <1>6 DEF TokenStories

LEMMA WholeStories == GateInv /\ [WholeNext]_gatewayVars => TokenStories'
<1> SUFFICES ASSUME GateInv, [WholeNext]_gatewayVars PROVE TokenStories'
  OBVIOUS
<1>1. TokenStories
  BY DEF GateInv, TokenStories
<1>2. CASE UNCHANGED gatewayVars
  BY <1>1, <1>2, StoriesStay DEF gatewayVars, tokenVars, tokenRows, TokenFacts
<1>3. CASE TokenCreation
  BY <1>1, <1>3, StoriesStay, CreationLeavesTokens, InsertStories DEF TokenCreation
<1>4. CASE TokenEnds
  BY <1>4, RevokeStories, ForgetStories, DisableStories, ExpiryStories DEF TokenEnds
<1>5. CASE \E q \in Requests : RequestStep(q)
  BY <1>1, <1>5, StoriesStay, CallsLeaveTokens, KeepStories
<1>6. CASE \E q \in Requests, s \in Servers, t \in Tokens : Arrive(q, s, t)
  BY <1>1, <1>6, StoriesStay, CallsLeaveTokens
<1>7. CASE \E s \in Servers : QueryPolicies(s) \/ PoliciesLoaded(s) \/ LoadFails(s) \/ ServerDies(s)
  BY <1>1, <1>7, StoriesStay, CallsLeaveTokens, CrashStories
<1>8. CASE EditPolicies
  BY <1>1, <1>8, StoriesStay, CallsLeaveTokens
<1>9. CASE Tick /\ UNCHANGED <<tokenRows, cache, deadSince, forgotten, gateVars>>
  BY <1>9, TickStories
<1> QED BY <1>2, <1>3, <1>4, <1>5, <1>6, <1>7, <1>8, <1>9 DEF WholeNext, GatewayNext

-----------------------------------------------------------------------------
(* The policies *)

LEMMA WholePolicies == GateInv /\ [WholeNext]_gatewayVars => PoliciesTell'
<1> SUFFICES ASSUME GateInv, [WholeNext]_gatewayVars PROVE PoliciesTell'
  OBVIOUS
<1> DEFINE Stays == UNCHANGED <<now, policy, policies, withdrawn>>
<1>1. now \in Nat /\ PoliciesTell
  BY RateLimiterAssumption DEF GateInv, GatewayTypeOK, TokensTypeOK, LimiterTypeOK
<1>2. CASE Stays
  BY <1>1, <1>2 DEF PoliciesTell
<1>3. CASE EditPolicies
  BY <1>1, <1>3 DEF EditPolicies, PoliciesTell, tokenVars
<1>4. ASSUME NEW s \in Servers, PoliciesLoaded(s)
      PROVE  PoliciesTell'
  <2> DEFINE new == [allowed |-> inFlight[s].allowed, at |-> now,
                     overtaken |-> inFlight[s].allowed /\ ~ policy]
  <2>1. policies' = [policies EXCEPT ![s] = new] /\ UNCHANGED <<now, policy, withdrawn>>
    BY <1>4 DEF PoliciesLoaded, tokenVars
  <2>2. policies \in [Servers -> Policies \cup {None}] /\ inFlight[s].allowed \in BOOLEAN
    BY DEF GateInv, GatewayTypeOK, Load
  <2>3. new.at = now /\ (new.allowed /\ ~ policy => new.overtaken)
    OBVIOUS
  <2> HIDE DEF new
  <2>4. \A s2 \in Servers : policies'[s2] = policies[s2] \/ policies'[s2] = new
    BY <2>1, <2>2
  <2> QED BY <1>1, <2>1, <2>3, <2>4 DEF PoliciesTell
<1>5. ASSUME NEW s \in Servers, ServerDies(s)
      PROVE  PoliciesTell'
  <2>1. policies' = [policies EXCEPT ![s] = None] /\ UNCHANGED <<now, policy, withdrawn>>
    BY <1>5 DEF ServerDies
  <2>2. policies \in [Servers -> Policies \cup {None}]
    BY DEF GateInv, GatewayTypeOK
  <2> QED BY <1>1, <2>1, <2>2 DEF PoliciesTell
<1>6. CASE Tick /\ UNCHANGED <<tokenRows, cache, deadSince, forgotten, gateVars>>
  BY <1>6, TickStories
<1>7. CASE UNCHANGED gatewayVars \/ (TokenCreation /\ UNCHANGED gateVars)
  <2>1. TokenCreation => now' = now
    BY DEF TokenCreation, AskForToken, LockUser, CountActive, InsertToken, CreateFails
  <2> QED BY <1>2, <1>7, <2>1 DEF gatewayVars, gateVars, tokenVars
<1>8. CASE TokenEnds /\ UNCHANGED gateVars
  <2>1. TokenEnds => now' = now
    BY DEF TokenEnds, TokenExpires, ForgetPat, RevokeToken, DisableUser
  <2> QED BY <1>2, <1>8, <2>1 DEF gateVars
<1>9. ASSUME NEW q \in Requests, RequestStep(q) \/ \E s \in Servers, t \in Tokens : Arrive(q, s, t)
      PROVE  Stays
  BY <1>9 DEF RequestStep, LookUpToken, ReadRow, KeepRow, UserGate, AskPolicies, FindTool,
     ToolGate, Arrive, StoreUnchanged, tokenVars
<1>10. ASSUME NEW s \in Servers, QueryPolicies(s) \/ LoadFails(s)
       PROVE  Stays
  BY <1>10 DEF QueryPolicies, LoadFails, tokenVars
<1> QED
  BY <1>2, <1>3, <1>4, <1>5, <1>6, <1>7, <1>8, <1>9, <1>10 DEF WholeNext, GatewayNext

LEMMA WholeInv == GateInv /\ [WholeNext]_gatewayVars => GateInv'
BY WholeTypes, WholeStories, WholePolicies DEF GateInv, TokenStories

(* What the caches hold, for every number of servers and tokens. *)
THEOREM GatewayInvariant == GatewaySpec => []GateInv
BY GateInitInv, WholeInv, PTL DEF GatewaySpec, WholeNext

-----------------------------------------------------------------------------
(* Who passes *)

(* A request moves by its own step, or with others that wait, or is refused. *)
LEMMA WhoMoves ==
    ASSUME GateInv, WholeNext, NEW q \in Requests, mcp'[q].pc \in {"user", "tool"},
           mcp[q].pc \in {"look", "arrive", "policy", "wait"}
    PROVE  \/ LookUpToken(q) \/ KeepRow(q) \/ AskPolicies(q)
           \/ mcp[q].pc = "wait" /\ \E s \in Servers : PoliciesLoaded(s) \/ LoadFails(s)
<1>1. mcp \in [Requests -> Request] /\ mcp'[q] # mcp[q]
  BY DEF GateInv, GatewayTypeOK
<1>2. [NoRequest EXCEPT !.pc = "refused"].pc = "refused"
  BY DEF NoRequest
<1>3. ASSUME NEW r \in Requests, RequestStep(r)
      PROVE  r = q /\ (LookUpToken(q) \/ KeepRow(q) \/ AskPolicies(q))
  <2>1. \A x \in Requests : x # r => mcp'[x] = mcp[x]
    BY <1>1, <1>3 DEF RequestStep, LookUpToken, ReadRow, KeepRow, UserGate, AskPolicies, FindTool,
       ToolGate, Verdict, Pass
  <2>2. r = q
    BY <1>1, <2>1
  <2>3. ~ ReadRow(q)
    BY <1>1 DEF ReadRow, Request
  <2> QED BY <1>3, <2>2, <2>3 DEF RequestStep, UserGate, FindTool, ToolGate
<1>4. ASSUME NEW r \in Requests, NEW s \in Servers, NEW t \in Tokens, Arrive(r, s, t)
      PROVE  FALSE
  BY <1>1, <1>4 DEF Arrive, Pass
<1>5. ASSUME NEW s \in Servers, QueryPolicies(s) \/ ServerDies(s)
      PROVE  FALSE
  BY <1>1, <1>2, <1>5 DEF QueryPolicies, ServerDies
<1>6. ASSUME NEW s \in Servers, PoliciesLoaded(s) \/ LoadFails(s)
      PROVE  mcp[q].pc = "wait"
  BY <1>1, <1>6 DEF PoliciesLoaded, LoadFails, Waiting
<1>7. ASSUME UNCHANGED mcp PROVE FALSE
  BY <1>1, <1>7
<1>8. EditPolicies \/ UNCHANGED gateVars => UNCHANGED mcp
  BY DEF EditPolicies, gateVars
<1>9. CASE \E r \in Requests : RequestStep(r)
  BY <1>3, <1>9
<1>10. CASE \E s \in Servers : PoliciesLoaded(s) \/ LoadFails(s)
  BY <1>6, <1>10
<1>11. Tick /\ UNCHANGED <<tokenRows, cache, deadSince, forgotten, gateVars>> => UNCHANGED gateVars
  OBVIOUS
<1> QED
  BY <1>4, <1>5, <1>7, <1>8, <1>9, <1>10, <1>11 DEF WholeNext, GatewayNext

(* For any number of servers and tokens and any time to live, a revoked token, or one of
   a disabled user, passes for less than PAT_CACHE_TTL_MS, and not at all on the server
   that answered the revocation, unless the revocation overtook a reading
   (auth.ts:113-160, auth-service.ts:352-382). *)
THEOREM RevocationsBite == GatewaySpec => RevokedTokensStop
<1> DEFINE Step ==
       \A q \in Requests :
          mcp[q].pc \in {"look", "arrive"} /\ mcp'[q].pc = "user" =>
             LET t == mcp[q].token
             IN  \/ deadSince[t] = None
                 \/ mcp'[q].overtaken
                 \/ now - deadSince[t] < PatTTL /\ t \notin forgotten[mcp[q].server]
<1>1. ASSUME GateInv, WholeNext PROVE Step
  <2> SUFFICES ASSUME NEW q \in Requests, mcp[q].pc \in {"look", "arrive"}, mcp'[q].pc = "user",
                      deadSince[mcp[q].token] # None, ~ mcp'[q].overtaken
               PROVE  /\ now - deadSince[mcp[q].token] < PatTTL
                      /\ mcp[q].token \notin forgotten[mcp[q].server]
    OBVIOUS
  <2> DEFINE t == mcp[q].token
             s == mcp[q].server
  <2>1. /\ mcp \in [Requests -> Request] /\ s \in Servers /\ t \in Tokens
        /\ now \in Nat /\ PatTTL \in Nat
    BY <1>1, TokensAssumption, RateLimiterAssumption
       DEF GateInv, GatewayTypeOK, TokensTypeOK, LimiterTypeOK, Located
  <2>2. deadSince[t] \in 0..now /\ ~ ReadsValid(t)
    BY <1>1, <2>1 DEF GateInv, DeadStaysDead
  <2>3. ~ Pass(q, "refused") /\ ~ Pass(q, "load")
    <3>1. [NoRequest EXCEPT !.pc = "refused"].pc = "refused" /\ [mcp[q] EXCEPT !.pc = "load"].pc = "load"
      BY <2>1 DEF NoRequest, Request
    <3> QED BY <2>1, <3>1 DEF Pass
  <2>4. CASE LookUpToken(q)
    <3> DEFINE entry == cache[s][t]
    <3>1. /\ Fresh(s, t) /\ entry.valid
          /\ mcp' = [mcp EXCEPT ![q] = [mcp[q] EXCEPT !.pc = "user", !.read = FALSE,
                                                      !.overtaken = entry.overtaken]]
      BY <2>4, <2>3 DEF LookUpToken, Verdict
    <3>2. ~ entry.overtaken
      BY <2>1, <3>1 DEF Request
    <3>3. entry # None /\ now - entry.at < PatTTL
      BY <3>1 DEF Fresh
    <3>4. entry.at \in 0..now /\ t \notin forgotten[s] /\ entry.at <= deadSince[t]
      BY <1>1, <2>1, <3>1, <3>2, <3>3 DEF GateInv, CacheTells
    <3> HIDE DEF entry, t, s
    <3>5. now - deadSince[t] < PatTTL
      BY <2>1, <2>2, <3>3, <3>4
    <3> QED BY <3>4, <3>5 DEF t, s
  <2>5. CASE KeepRow(q)
    <3>1. mcp' = [mcp EXCEPT ![q] = [mcp[q] EXCEPT !.pc = "user", !.read = FALSE,
                            !.overtaken = mcp[q].read /\ ~ ReadsValid(t)]] /\ mcp[q].read
      BY <2>5, <2>3 DEF KeepRow, Verdict
    <3>2. mcp'[q].overtaken
      BY <2>1, <2>2, <3>1 DEF Request
    <3> QED BY <3>2
  <2>6. ~ AskPolicies(q) /\ mcp[q].pc # "wait"
    BY DEF AskPolicies
  <2> QED BY <1>1, <2>4, <2>5, <2>6, WhoMoves
<1>2. GateInv /\ [WholeNext]_gatewayVars => [Step]_gatewayVars
  BY <1>1
<1> QED BY <1>2, GatewayInvariant, PTL DEF GatewaySpec, WholeNext, RevokedTokensStop

(* For any number of servers and any times to live, a tool that the policies no longer
   allow is found for less than CACHE_TTL_MS, or MAX_STALE_MS without the database, unless
   the change overtook a load (role-policy-store.ts:69-102). *)
THEOREM PolicyChangesBite == GatewaySpec => PolicyChangesApply
<1> DEFINE Step ==
       \A q \in Requests :
          mcp[q].pc \in {"policy", "wait"} /\ mcp'[q].pc = "tool" /\ mcp'[q].allowed =>
             \/ withdrawn = None
             \/ mcp'[q].late
             \/ mcp'[q].asked - withdrawn < (IF mcp'[q].stale THEN MaxStale ELSE PolicyTTL)
<1>1. ASSUME GateInv, WholeNext PROVE Step
  <2> SUFFICES ASSUME NEW q \in Requests, mcp[q].pc \in {"policy", "wait"}, mcp'[q].pc = "tool",
                      mcp'[q].allowed, withdrawn # None, ~ mcp'[q].late
               PROVE  mcp'[q].asked - withdrawn < (IF mcp'[q].stale THEN MaxStale ELSE PolicyTTL)
    OBVIOUS
  <2>1. /\ mcp \in [Requests -> Request] /\ mcp[q].server \in Servers /\ mcp[q].asked \in Nat
        /\ now \in Nat /\ withdrawn \in 0..now /\ ~ policy
    <3>1. mcp \in [Requests -> Request] /\ now \in 0..MaxTime
      BY <1>1 DEF GateInv, GatewayTypeOK, TokensTypeOK, LimiterTypeOK
    <3>2. mcp[q].server \in Servers /\ withdrawn \in 0..now /\ ~ policy
      BY <1>1 DEF GateInv, Located, PoliciesTell
    <3>3. mcp[q].asked \in 0..MaxTime
      BY <3>1 DEF Request
    <3> QED BY <3>1, <3>2, <3>3, RateLimiterAssumption
  <2>2. ASSUME NEW s \in Servers, policies[s] # None, policies[s].allowed, ~ policies[s].overtaken
        PROVE  policies[s].at \in 0..now /\ policies[s].at <= withdrawn
    BY <1>1, <2>2 DEF GateInv, PoliciesTell
  <2>3. CASE AskPolicies(q)
    <3> DEFINE entry == policies[mcp[q].server]
               r == [PassPolicy(q, entry.allowed, entry.overtaken, FALSE) EXCEPT !.asked = now]
    <3>1. \/ mcp' = [mcp EXCEPT ![q].pc = "wait", ![q].asked = now]
          \/ entry # None /\ now - entry.at < PolicyTTL /\ mcp' = [mcp EXCEPT ![q] = r]
      BY <2>3 DEF AskPolicies
    <3>2. entry # None /\ now - entry.at < PolicyTTL /\ mcp'[q] = r
      <4>1. mcp[q] \in Request /\ mcp' # [mcp EXCEPT ![q].pc = "wait", ![q].asked = now]
        BY <2>1 DEF Request
      <4> QED BY <2>1, <3>1, <4>1
    <3>3. r.asked = now /\ r.allowed = entry.allowed /\ r.late = entry.overtaken /\ r.stale = FALSE
      BY <2>1 DEF PassPolicy, Request
    <3>4. entry.at \in 0..now /\ entry.at <= withdrawn
      BY <2>1, <2>2, <3>2, <3>3
    <3> HIDE DEF r, entry
    <3>5. now - withdrawn < PolicyTTL
      BY <2>1, <3>2, <3>4, GatewayAssumption
    <3> QED BY <3>2, <3>3, <3>5
  <2>4. ASSUME NEW s \in Servers, PoliciesLoaded(s), mcp[q].pc = "wait"
        PROVE  FALSE
    <3> DEFINE r == PassPolicy(q, inFlight[s].allowed, inFlight[s].allowed /\ ~ policy, FALSE)
    <3>1. mcp'[q] = r
      BY <2>1, <2>4 DEF PoliciesLoaded
    <3>2. r.allowed = inFlight[s].allowed /\ r.late = (inFlight[s].allowed /\ ~ policy)
      BY <2>1 DEF PassPolicy, Request
    <3> HIDE DEF r
    <3> QED BY <2>1, <3>1, <3>2
  <2>5. ASSUME NEW s \in Servers, LoadFails(s), mcp[q].pc = "wait"
        PROVE  mcp'[q].asked - withdrawn < (IF mcp'[q].stale THEN MaxStale ELSE PolicyTTL)
    <3> DEFINE entry == policies[s]
               r == PassPolicy(q, entry.allowed, entry.overtaken, TRUE)
    <3>1. [NoRequest EXCEPT !.pc = "refused"].pc = "refused"
      BY DEF NoRequest
    <3>2. Usable(q, entry) /\ mcp'[q] = r
      BY <2>1, <2>5, <3>1 DEF LoadFails
    <3>3. r.asked = mcp[q].asked /\ r.allowed = entry.allowed /\ r.late = entry.overtaken
          /\ r.stale = TRUE
      BY <2>1 DEF PassPolicy, Request
    <3>4. entry # None /\ mcp[q].asked - entry.at < MaxStale
      BY <3>2 DEF Usable
    <3>5. entry.at \in 0..now /\ entry.at <= withdrawn
      BY <2>2, <3>2, <3>3, <3>4
    <3> HIDE DEF r, entry
    <3>6. mcp[q].asked - withdrawn < MaxStale
      BY <2>1, <3>4, <3>5, GatewayAssumption
    <3> QED BY <3>2, <3>3, <3>6
  <2>6. ~ LookUpToken(q) /\ ~ KeepRow(q)
    BY DEF LookUpToken, KeepRow
  <2> QED BY <1>1, <2>3, <2>4, <2>5, <2>6, WhoMoves
<1>2. GateInv /\ [WholeNext]_gatewayVars => [Step]_gatewayVars
  BY <1>1
<1> QED BY <1>2, GatewayInvariant, PTL DEF GatewaySpec, WholeNext, PolicyChangesApply

-----------------------------------------------------------------------------
(* The limit on active tokens *)

(* A creation that has counted holds the user's row, and has room still. *)
RoomHeld ==
    /\ \A r \in Creators : creating[r] \in {"count", "insert"} => userLock = r
    /\ \A r \in Creators : creating[r] = "insert" => Cardinality(Active) < MaxActive
    /\ TokensWithinMax

LEMMA ActiveFinite == IsFiniteSet(Active) /\ Cardinality(Active) \in Nat
<1>1. Active \in SUBSET Tokens
  BY DEF Active
<1>2. IsFiniteSet(Active)
  BY <1>1, TokensAssumption, FS_Subset
<1> QED BY <1>2, FS_CardinalityType

(* Fewer active tokens, and nobody nearer to an insert: the limit holds. *)
LEMMA FewerActive ==
    ASSUME RoomHeld, Active' \subseteq Active,
           \A r \in Creators : creating'[r] \in {"count", "insert"} => userLock' = r,
           \A r \in Creators : creating'[r] = "insert" => creating[r] = "insert"
    PROVE  RoomHeld'
<1>1. Cardinality(Active') <= Cardinality(Active) /\ Cardinality(Active') \in Nat
  BY ActiveFinite, FS_Subset, FS_CardinalityType
<1>2. Cardinality(Active)' = Cardinality(Active')
  OBVIOUS
<1> QED BY <1>1, <1>2, ActiveFinite, TokensAssumption DEF RoomHeld, TokensWithinMax

LEMMA RoomNext == GateInv /\ RoomHeld /\ [WholeNext]_gatewayVars => RoomHeld'
<1> SUFFICES ASSUME GateInv, RoomHeld, [WholeNext]_gatewayVars PROVE RoomHeld'
  OBVIOUS
<1>1. /\ token \in [Tokens -> TokenStatus] /\ userLock \in Creators \cup {None}
      /\ creating \in [Creators -> {"idle", "lock", "count", "insert", "done", "refused"}]
  BY DEF GateInv, GatewayTypeOK, TokensTypeOK
<1>2. CASE UNCHANGED <<token, creating, userLock>>
  BY <1>2 DEF RoomHeld, TokensWithinMax, Active
<1>3. ASSUME NEW r \in Creators, AskForToken(r) \/ LockUser(r) \/ CreateFails(r)
      PROVE  RoomHeld'
  <2>1. UNCHANGED token /\ Active' = Active
    BY <1>3 DEF AskForToken, LockUser, CreateFails, Active
  <2>2. \A c \in Creators : creating'[c] \in {"count", "insert"} => userLock' = c
    BY <1>1, <1>3, TokensAssumption DEF AskForToken, LockUser, CreateFails, To, Unlock, RoomHeld
  <2>3. \A c \in Creators : creating'[c] = "insert" => creating[c] = "insert"
    BY <1>1, <1>3 DEF AskForToken, LockUser, CreateFails, To
  <2> QED BY <2>1, <2>2, <2>3, FewerActive
<1>4. ASSUME NEW r \in Creators, CountActive(r)
      PROVE  RoomHeld'
  <2>1. UNCHANGED token /\ Active' = Active
    BY <1>4 DEF CountActive, Active
  <2>2. \A c \in Creators : creating'[c] \in {"count", "insert"} => userLock' = c
    BY <1>1, <1>4, TokensAssumption DEF CountActive, To, Unlock, RoomHeld
  <2>3. \A c \in Creators : creating'[c] = "insert" => Cardinality(Active) < MaxActive
    BY <1>1, <1>4 DEF CountActive, To, RoomHeld
  <2> QED BY <2>1, <2>2, <2>3 DEF RoomHeld, TokensWithinMax
<1>5. ASSUME NEW r \in Creators, InsertToken(r)
      PROVE  RoomHeld'
  <2>1. PICK t \in Tokens : token[t] = "none" /\ token' = [token EXCEPT ![t] = "active"]
    BY <1>5 DEF InsertToken
  <2>2. Active' = Active \cup {t} /\ t \notin Active
    BY <1>1, <2>1 DEF Active
  <2>3. Cardinality(Active \cup {t}) = Cardinality(Active) + 1
    BY <2>2, ActiveFinite, FS_AddElement
  <2>4. Cardinality(Active) < MaxActive /\ userLock = r
    BY <1>5 DEF InsertToken, RoomHeld
  <2>5. \A c \in Creators : creating'[c] \notin {"count", "insert"}
    BY <1>1, <1>5, <2>4 DEF InsertToken, To, RoomHeld
  <2>6. TokensWithinMax'
    BY <2>2, <2>3, <2>4, ActiveFinite, TokensAssumption DEF TokensWithinMax
  <2> QED BY <2>5, <2>6 DEF RoomHeld
<1>6. ASSUME TokenEnds PROVE RoomHeld'
  <2>1. UNCHANGED <<creating, userLock>>
    BY <1>6 DEF TokenEnds, TokenExpires, ForgetPat, RevokeToken, DisableUser
  <2>2. Active' \subseteq Active
    BY <1>1, <1>6 DEF TokenEnds, TokenExpires, ForgetPat, RevokeToken, DisableUser, Active
  <2> QED BY <2>1, <2>2, FewerActive DEF RoomHeld
<1>7. ASSUME GatewayNext, ~ TokenEnds PROVE UNCHANGED <<token, creating, userLock>>
  BY <1>7 DEF GatewayNext, RequestStep, LookUpToken, ReadRow, KeepRow, UserGate, AskPolicies,
     FindTool, ToolGate, Arrive, QueryPolicies, PoliciesLoaded, LoadFails, ServerDies, EditPolicies,
     tokenVars, tokenRows
<1>8. UNCHANGED gatewayVars => UNCHANGED <<token, creating, userLock>>
  BY DEF gatewayVars, tokenVars, tokenRows
<1> QED
  BY <1>2, <1>3, <1>4, <1>5, <1>6, <1>7, <1>8 DEF WholeNext, TokenCreation

(* For any number of concurrent creations, a user has at most MAX_ACTIVE_PATS active
   tokens (auth-service.ts:283-332). *)
THEOREM ActiveTokensBounded == GatewaySpec => []TokensWithinMax
<1>1. LimiterInit /\ TokensInit /\ GatewayInit => RoomHeld
  <2> SUFFICES ASSUME TokensInit PROVE RoomHeld
    OBVIOUS
  <2>1. PICK there \in SUBSET Tokens :
           /\ Cardinality(there) <= MaxActive
           /\ token = [t \in Tokens |-> IF t \in there THEN "active" ELSE "none"]
    BY DEF TokensInit
  <2>2. Active = there
    BY <2>1 DEF Active
  <2> QED BY <2>1, <2>2 DEF TokensInit, RoomHeld, TokensWithinMax
<1>2. RoomHeld => TokensWithinMax
  BY DEF RoomHeld
<1> QED BY <1>1, <1>2, RoomNext, GatewayInvariant, PTL DEF GatewaySpec, WholeNext

-----------------------------------------------------------------------------
(* The rate limits *)

LimitsKept ==
    /\ \A w \in Windows : IsFiniteSet(hits[w]) /\ Cardinality(hits[w]) <= Limit[w[1]]
    /\ hits[<<"tool-minute", "tool">>] =
          {h \in hits[<<"tool-day", "tool">>] : h.at > now - Window["tool-minute"]}

(* A charge that is admitted keeps every window within its limit. *)
LEMMA ChargeWithin ==
    ASSUME LimiterTypeOK, \A w \in Windows : IsFiniteSet(hits[w]) /\ Cardinality(hits[w]) <= Limit[w[1]],
           NEW rules, NEW subject, NEW m,
           Admits(rules, subject), Charge(rules, subject, m)
    PROVE  \A w \in Windows : IsFiniteSet(hits'[w]) /\ Cardinality(hits'[w]) <= Limit[w[1]]
<1> SUFFICES ASSUME NEW w \in Windows
             PROVE  IsFiniteSet(hits'[w]) /\ Cardinality(hits'[w]) <= Limit[w[1]]
  OBVIOUS
<1> DEFINE e == [at |-> now, by |-> m]
<1>1. CASE hits'[w] = hits[w]
  BY <1>1
<1>2. CASE w[1] \in rules /\ w[2] = subject /\ hits'[w] = hits[w] \cup {e}
  <2>1. w = <<w[1], subject>> /\ Limit[w[1]] \in Nat
    BY <1>2, RateLimiterAssumption DEF Windows
  <2>2. Cardinality(hits[w]) < Limit[w[1]]
    BY <1>2, <2>1 DEF Admits, HasRoom
  <2> HIDE DEF e
  <2>3. /\ IsFiniteSet(hits[w] \cup {e}) /\ Cardinality(hits[w]) \in Nat
        /\ \/ Cardinality(hits[w] \cup {e}) = Cardinality(hits[w])
           \/ Cardinality(hits[w] \cup {e}) = Cardinality(hits[w]) + 1
    BY FS_AddElement, FS_CardinalityType
  <2> QED BY <1>2, <2>1, <2>2, <2>3
<1> QED BY <1>1, <1>2 DEF Charge

(* The rules of the tool are charged together, and by nobody else. *)
LEMMA ChargeTogether ==
    ASSUME LimiterTypeOK, NEW rules, NEW subject, NEW m, Charge(rules, subject, m), now' = now,
           \/ rules = {"tool-minute", "tool-day"} /\ subject = "tool"
           \/ "tool-minute" \notin rules /\ "tool-day" \notin rules,
           hits[<<"tool-minute", "tool">>] =
             {h \in hits[<<"tool-day", "tool">>] : h.at > now - Window["tool-minute"]}
    PROVE  hits'[<<"tool-minute", "tool">>] =
             {h \in hits'[<<"tool-day", "tool">>] : h.at > now' - Window["tool-minute"]}
<1> DEFINE minute == <<"tool-minute", "tool">>
           day == <<"tool-day", "tool">>
           e == [at |-> now, by |-> m]
<1>1. minute \in Windows /\ day \in Windows
  BY GatewayAssumption DEF Windows
<1>2. e.at = now /\ now \in Nat /\ Window["tool-minute"] \in Nat \ {0}
  BY GatewayAssumption, RateLimiterAssumption DEF LimiterTypeOK
<1>3. CASE rules = {"tool-minute", "tool-day"} /\ subject = "tool"
  <2>1. hits'[minute] = hits[minute] \cup {e} /\ hits'[day] = hits[day] \cup {e}
    BY <1>1, <1>3 DEF Charge
  <2>2. now > now - Window["tool-minute"]
    BY <1>2
  <2> HIDE DEF e, minute, day
  <2>3. {h \in hits[day] \cup {e} : h.at > now - Window["tool-minute"]} =
           {h \in hits[day] : h.at > now - Window["tool-minute"]} \cup {e}
    BY <1>2, <2>2
  <2> QED BY <2>1, <2>3 DEF minute, day
<1>4. CASE "tool-minute" \notin rules /\ "tool-day" \notin rules
  <2>1. hits'[minute] = hits[minute] /\ hits'[day] = hits[day]
    BY <1>1, <1>4 DEF Charge
  <2> QED BY <2>1
<1> QED BY <1>3, <1>4

LEMMA TickWithin ==
    ASSUME LimiterTypeOK, LimitsKept, Tick
    PROVE  LimitsKept'
<1>1. now \in Nat /\ now' = now + 1
      /\ hits' = [w \in Windows |-> {h \in hits[w] : h.at > now + 1 - Window[w[1]]}]
  BY RateLimiterAssumption DEF LimiterTypeOK, Tick
<1>2. ASSUME NEW w \in Windows
      PROVE  IsFiniteSet(hits'[w]) /\ Cardinality(hits'[w]) <= Limit[w[1]]
  <2>1. hits'[w] \in SUBSET hits[w]
    BY <1>1
  <2>2. /\ IsFiniteSet(hits'[w]) /\ Cardinality(hits'[w]) <= Cardinality(hits[w])
        /\ Cardinality(hits'[w]) \in Nat /\ Cardinality(hits[w]) \in Nat
    BY <2>1, FS_Subset, FS_CardinalityType DEF LimitsKept
  <2>3. Limit[w[1]] \in Nat /\ Cardinality(hits[w]) <= Limit[w[1]]
    BY RateLimiterAssumption DEF Windows, LimitsKept
  <2> QED BY <2>2, <2>3
<1>3. hits'[<<"tool-minute", "tool">>] =
        {h \in hits'[<<"tool-day", "tool">>] : h.at > now' - Window["tool-minute"]}
  <2>0. now' - Window["tool-minute"] = now + 1 - Window["tool-minute"]
    <3>1. Window["tool-minute"] \in Nat
      BY GatewayAssumption, RateLimiterAssumption
    <3>2. now \in Nat /\ now' = now + 1
      BY <1>1
    <3> QED BY <3>1, <3>2
  <2> DEFINE minute == <<"tool-minute", "tool">>
             day == <<"tool-day", "tool">>
             wm == Window["tool-minute"]
             wd == Window["tool-day"]
  <2>1. minute \in Windows /\ day \in Windows /\ wm \in Nat /\ wd \in Nat /\ wm <= wd
    BY GatewayAssumption, RateLimiterAssumption DEF Windows
  <2>2. hits'[minute] = {h \in hits[minute] : h.at > now + 1 - wm}
        /\ hits'[day] = {h \in hits[day] : h.at > now + 1 - wd}
    BY <1>1, <2>1
  <2>3. \A h \in hits[day] : h.at \in Nat
    BY <2>1, RateLimiterAssumption DEF LimiterTypeOK, Entry
  <2>4. hits[minute] = {h \in hits[day] : h.at > now - wm}
    BY DEF LimitsKept
  <2> HIDE DEF minute, day, wm, wd
  <2>5. \A n \in Nat : n > now + 1 - wm => n > now - wm /\ n > now + 1 - wd
    BY <1>1, <2>1
  <2>6. {h \in hits[minute] : h.at > now + 1 - wm} =
           {h \in {k \in hits[day] : k.at > now + 1 - wd} : h.at > now + 1 - wm}
    BY <2>3, <2>4, <2>5
  <2>7. hits'[minute] = {h \in hits'[day] : h.at > now + 1 - wm}
    BY <2>2, <2>6
  <2> DEFINE before == now + 1 - wm
             within == hits'[day]
  <2>9. hits'[minute] = {h \in within : h.at > before} /\ now' - wm = before
    BY <2>0, <2>7 DEF wm
  <2> HIDE DEF before, within
  <2>10. hits'[minute] = {h \in within : h.at > now' - wm}
    BY <2>9
  <2> QED BY <2>10 DEF minute, day, wm, within
<1> QED BY <1>2, <1>3 DEF LimitsKept

LEMMA LimitsNext == GateInv /\ LimitsKept /\ [WholeNext]_gatewayVars => LimitsKept'
<1> SUFFICES ASSUME GateInv, LimitsKept, [WholeNext]_gatewayVars PROVE LimitsKept'
  OBVIOUS
<1>1. LimiterTypeOK
  BY DEF GateInv, GatewayTypeOK, TokensTypeOK
<1>2. CASE UNCHANGED <<hits, now>>
  BY <1>2 DEF LimitsKept
<1>3. ASSUME NEW rules, NEW subject, NEW m, Admits(rules, subject), Charge(rules, subject, m),
             now' = now,
             \/ rules = {"tool-minute", "tool-day"} /\ subject = "tool"
             \/ "tool-minute" \notin rules /\ "tool-day" \notin rules
      PROVE  LimitsKept'
  BY <1>1, <1>3, ChargeWithin, ChargeTogether DEF LimitsKept
<1>4. ASSUME NEW q \in Requests, RequestStep(q)
      PROVE  LimitsKept'
  <2>1. CASE UserGate(q)
    BY <1>2, <1>3, <2>1 DEF UserGate
  <2>2. CASE ToolGate(q)
    BY <1>2, <1>3, <2>2 DEF ToolGate
  <2>3. CASE ~ UserGate(q) /\ ~ ToolGate(q)
    BY <1>2, <1>4, <2>3 DEF RequestStep, LookUpToken, ReadRow, KeepRow, AskPolicies, FindTool, tokenVars
  <2> QED BY <2>1, <2>2, <2>3
<1>5. ASSUME NEW q \in Requests, NEW s \in Servers, NEW t \in Tokens, Arrive(q, s, t)
      PROVE  LimitsKept'
  BY <1>2, <1>3, <1>5 DEF Arrive
<1>6. ASSUME NEW r \in Creators, AskForToken(r)
      PROVE  LimitsKept'
  BY <1>2, <1>3, <1>6 DEF AskForToken
<1>7. ASSUME NEW r \in Creators, LockUser(r) \/ CountActive(r) \/ InsertToken(r) \/ CreateFails(r)
      PROVE  LimitsKept'
  BY <1>2, <1>7 DEF LockUser, CountActive, InsertToken, CreateFails
<1>8. ASSUME TokenEnds PROVE LimitsKept'
  BY <1>2, <1>8 DEF TokenEnds, TokenExpires, ForgetPat, RevokeToken, DisableUser
<1>9. ASSUME NEW s \in Servers, QueryPolicies(s) \/ PoliciesLoaded(s) \/ LoadFails(s) \/ ServerDies(s)
      PROVE  LimitsKept'
  BY <1>2, <1>9 DEF QueryPolicies, PoliciesLoaded, LoadFails, ServerDies, tokenVars
<1>10. CASE EditPolicies \/ UNCHANGED gatewayVars
  BY <1>2, <1>10 DEF EditPolicies, gatewayVars, tokenVars
<1>11. CASE Tick
  BY <1>1, <1>11, TickWithin
<1> QED
  BY <1>4, <1>5, <1>6, <1>7, <1>8, <1>9, <1>10, <1>11 DEF WholeNext, GatewayNext, TokenCreation

(* For any limits and windows, no window of a rule sees more requests than its limit, and
   the two rules of a tool count the same requests (rate-limiter.ts:9-64). *)
THEOREM LimitsHold == GatewaySpec => []WithinLimits
<1>1. LimiterInit => LimitsKept
  <2> SUFFICES ASSUME LimiterInit PROVE LimitsKept
    OBVIOUS
  <2>1. \A w \in Windows : hits[w] = {} /\ Limit[w[1]] \in Nat
    BY RateLimiterAssumption DEF LimiterInit, Windows
  <2>2. \A w \in Windows : IsFiniteSet(hits[w]) /\ Cardinality(hits[w]) <= Limit[w[1]]
    BY <2>1, FS_EmptySet
  <2>3. hits[<<"tool-minute", "tool">>] = {} /\ hits[<<"tool-day", "tool">>] = {}
    BY <2>1, GatewayAssumption DEF Windows
  <2> QED BY <2>2, <2>3 DEF LimitsKept
<1>2. GateInv /\ LimitsKept => WithinLimits
  <2> SUFFICES ASSUME LimitsKept,
                      NEW w \in {"mcp-ip", "mcp-user", "tool-minute", "tool-day", "pat-create"} \X Subjects
               PROVE  Cardinality(hits[w]) <= Limit[w[1]]
    BY DEF LimitsKept, WithinLimits
  <2>1. w \in Windows
    BY GatewayAssumption, TokensAssumption DEF Windows
  <2> QED BY <2>1 DEF LimitsKept
<1> QED BY <1>1, <1>2, LimitsNext, GatewayInvariant, PTL DEF GatewaySpec, WholeNext

-----------------------------------------------------------------------------
(* Logins behind one address: LoginThrottle.tla. *)

(* The window of the address, and the visitors whose login, if it fails, has still to be
   counted there. *)
AddressWindow == <<"login-ip", "address">>
InFlight == {v \in Visitors : "login-ip" \in login[v].left}

(* A failed login that is still in the window is on the address's counter or was lost; and
   what is on the counter stays, with the logins in flight, below the limit and one more
   for each visitor. *)
ThrottleInv ==
    /\ ThrottleTypeOK
    /\ \A v \in Visitors : login[v].pc # "idle" =>
          login[v].tried \in 1..MaxLogins /\ login[v].account \in Accounts
    /\ IsFiniteSet(wrong)
    /\ RecentlyWrong \subseteq hits[AddressWindow] \cup RecentlyLost
    /\ IsFiniteSet(hits[AddressWindow])
    /\ Cardinality(hits[AddressWindow]) + Cardinality(InFlight)
          < Limit["login-ip"] + Cardinality(Visitors)

LEMMA ThrottleConstants ==
    /\ Limit["login-ip"] \in Nat \ {0} /\ Window["login-ip"] \in Nat \ {0}
    /\ Cardinality(Visitors) \in Nat
    /\ AddressWindow \in Windows /\ AddressWindow[1] = "login-ip"
<1>1. "login-ip" \in Rules /\ "address" \in Subjects
  BY ThrottleAssumption
<1>2. Cardinality(Visitors) \in Nat
  BY ThrottleAssumption, FS_CardinalityType
<1> QED BY <1>1, <1>2, RateLimiterAssumption DEF AddressWindow, Windows

(* The two counts are numbers. *)
LEMMA ThrottleCounts ==
    ASSUME ThrottleInv
    PROVE  /\ Cardinality(hits[AddressWindow]) \in Nat
           /\ IsFiniteSet(InFlight) /\ Cardinality(InFlight) \in Nat
<1>1. InFlight \subseteq Visitors
  BY DEF InFlight
<1>2. IsFiniteSet(InFlight) /\ IsFiniteSet(hits[AddressWindow])
  BY <1>1, FS_Subset, ThrottleAssumption DEF ThrottleInv
<1> QED BY <1>2, FS_CardinalityType

LEMMA ThrottleInitInv == LimiterInit /\ ThrottleInit => ThrottleInv
<1> SUFFICES ASSUME LimiterInit, ThrottleInit PROVE ThrottleInv
  OBVIOUS
<1> USE DEF LimiterInit, ThrottleInit
<1>1. ThrottleTypeOK
  BY RateLimiterAssumption, ThrottleAssumption
     DEF ThrottleTypeOK, LimiterTypeOK, Login, NotLogging
<1>2. RecentlyWrong = {} /\ InFlight = {} /\ hits[AddressWindow] = {}
  BY ThrottleConstants DEF RecentlyWrong, InFlight, NotLogging
<1>3. Cardinality({}) = 0 /\ IsFiniteSet({})
  BY FS_EmptySet
<1>4. \A v \in Visitors : login[v].pc = "idle"
  BY DEF NotLogging
<1> QED BY <1>1, <1>2, <1>3, <1>4, ThrottleConstants DEF ThrottleInv

(* A step of the logins that charges the address no more than it takes out of flight. *)
LEMMA ThrottleSteps ==
    ASSUME ThrottleInv, ThrottleTypeOK', IsFiniteSet(wrong'), IsFiniteSet(hits'[AddressWindow]),
           \A v \in Visitors : login'[v].pc # "idle" =>
              login'[v].tried \in 1..MaxLogins /\ login'[v].account \in Accounts,
           RecentlyWrong' \subseteq hits'[AddressWindow] \cup RecentlyLost',
           Cardinality(hits'[AddressWindow]) + Cardinality(InFlight')
              <= Cardinality(hits[AddressWindow]) + Cardinality(InFlight)
    PROVE  ThrottleInv'
<1>1. AddressWindow' = AddressWindow
  BY DEF AddressWindow
<1>2. InFlight' \subseteq Visitors
  BY DEF InFlight
<1>3. Cardinality(InFlight') \in Nat /\ Cardinality(hits'[AddressWindow]) \in Nat
  BY <1>2, FS_Subset, FS_CardinalityType, ThrottleAssumption
<1>4. Cardinality(hits'[AddressWindow]) + Cardinality(InFlight')
         < Limit["login-ip"] + Cardinality(Visitors)
  BY <1>3, ThrottleCounts, ThrottleConstants DEF ThrottleInv
<1> QED BY <1>1, <1>4 DEF ThrottleInv

(* One that changes neither the clock nor the address's counter nor the failed logins. *)
LEMMA ThrottleQuiet ==
    ASSUME ThrottleInv, ThrottleTypeOK', now' = now, wrong' = wrong, lost \subseteq lost',
           hits'[AddressWindow] = hits[AddressWindow],
           \A v \in Visitors : login'[v].pc # "idle" =>
              login'[v].tried \in 1..MaxLogins /\ login'[v].account \in Accounts,
           InFlight' \subseteq InFlight
    PROVE  ThrottleInv'
<1>1. RecentlyWrong' \subseteq hits'[AddressWindow] \cup RecentlyLost'
  BY DEF ThrottleInv, RecentlyWrong, RecentlyLost
<1>2. IsFiniteSet(InFlight') /\ Cardinality(InFlight') <= Cardinality(InFlight)
  BY ThrottleCounts, FS_Subset
<1>3. Cardinality(InFlight') \in Nat
  BY <1>2, FS_CardinalityType
<1>4. IsFiniteSet(wrong') /\ IsFiniteSet(hits'[AddressWindow])
  BY DEF ThrottleInv
<1>5. Cardinality(hits'[AddressWindow]) + Cardinality(InFlight')
         <= Cardinality(hits[AddressWindow]) + Cardinality(InFlight)
  BY <1>2, <1>3, ThrottleCounts
<1> QED BY <1>1, <1>4, <1>5, ThrottleSteps

LEMMA ThrottleChargeTypes ==
    ASSUME ThrottleTypeOK, NEW rules, NEW subject, NEW m \in Members, Charge(rules, subject, m)
    PROVE  hits' \in [Windows -> SUBSET Entry]
<1>1. [at |-> now, by |-> m] \in Entry
  BY DEF ThrottleTypeOK, LimiterTypeOK, Entry
<1> QED BY <1>1 DEF Charge, ThrottleTypeOK, LimiterTypeOK

(* A failed login is done with one of its counters. *)
LEMMA CounterDoneStep ==
    ASSUME ThrottleInv, NEW v \in Visitors, NEW rule \in LoginRules, CounterDone(v, rule)
    PROVE  /\ login' \in [Visitors -> Login] /\ wrong' \subseteq Entry /\ IsFiniteSet(wrong')
           /\ Failure(v) \in Entry /\ Failure(v).at = now /\ <<v, login[v].tried>> \in Members
           /\ \A i \in Visitors : login'[i].pc # "idle" =>
                 login'[i].tried \in 1..MaxLogins /\ login'[i].account \in Accounts
           /\ IF rule = "login-ip" THEN v \in InFlight /\ InFlight' = InFlight \ {v}
              ELSE InFlight' = InFlight
           /\ wrong' = IF rule = "login-ip" THEN wrong \cup {Failure(v)} ELSE wrong
           /\ now' = now
<1> USE DEF CounterDone
<1>t. ThrottleTypeOK /\ IsFiniteSet(wrong)
  BY DEF ThrottleInv
<1>1. login[v] \in Login /\ login[v].tried \in 1..MaxLogins /\ login[v].account \in Accounts
  BY <1>t DEF ThrottleTypeOK, ThrottleInv
<1>2. <<v, login[v].tried>> \in Members
  BY <1>1, ThrottleAssumption
<1>3. Failure(v) \in Entry /\ Failure(v).at = now
  BY <1>t, <1>2 DEF ThrottleTypeOK, LimiterTypeOK, Entry, Failure
<1>4. wrong' \subseteq Entry /\ IsFiniteSet(wrong')
  <2>1. IsFiniteSet(wrong \cup {Failure(v)})
    BY <1>t, FS_AddElement
  <2> QED BY <1>t, <1>3, <2>1 DEF ThrottleTypeOK
<1>5. CASE login[v].left = {rule}
  <2>1. login' = [login EXCEPT ![v] = [NotLogging EXCEPT !.tried = login[v].tried]]
    BY <1>5 DEF Leave
  <2>2. /\ login' \in [Visitors -> Login] /\ login'[v].pc = "idle" /\ login'[v].left = {}
        /\ \A i \in Visitors \ {v} : login'[i] = login[i]
    BY <1>1, <1>t, <2>1 DEF ThrottleTypeOK, Login, NotLogging
  <2>3. IF rule = "login-ip" THEN v \in InFlight /\ InFlight' = InFlight \ {v}
        ELSE InFlight' = InFlight
    BY <1>5, <2>2 DEF InFlight, LoginRules
  <2> QED BY <1>2, <1>3, <1>4, <2>2, <2>3 DEF ThrottleInv
<1>6. CASE login[v].left # {rule}
  <2>1. login' = [login EXCEPT ![v].pc = "count", ![v].left = login[v].left \ {rule}]
    BY <1>6, <1>t DEF ThrottleTypeOK
  <2>2. /\ login' \in [Visitors -> Login]
        /\ login'[v].tried = login[v].tried /\ login'[v].account = login[v].account
        /\ login'[v].left = login[v].left \ {rule}
        /\ \A i \in Visitors \ {v} : login'[i] = login[i]
    BY <1>1, <1>t, <2>1 DEF ThrottleTypeOK, Login
  <2>3. IF rule = "login-ip" THEN v \in InFlight /\ InFlight' = InFlight \ {v}
        ELSE InFlight' = InFlight
    BY <2>2 DEF InFlight, LoginRules
  <2> QED BY <1>1, <1>2, <1>3, <1>4, <2>2, <2>3 DEF ThrottleInv
<1> QED BY <1>5, <1>6

(* A login is over without being counted. *)
LEMMA LeaveStep ==
    ASSUME ThrottleInv, NEW v \in Visitors, Leave(v)
    PROVE  /\ login' \in [Visitors -> Login] /\ InFlight' \subseteq InFlight
           /\ \A i \in Visitors : login'[i].pc # "idle" =>
                 login'[i].tried \in 1..MaxLogins /\ login'[i].account \in Accounts
<1>1. login \in [Visitors -> Login]
  BY DEF ThrottleInv, ThrottleTypeOK
<1>2. /\ login' \in [Visitors -> Login] /\ login'[v].pc = "idle" /\ login'[v].left = {}
      /\ \A i \in Visitors \ {v} : login'[i] = login[i]
  BY <1>1 DEF Leave, Login, NotLogging
<1> QED BY <1>2 DEF InFlight, ThrottleInv

LEMMA ThrottleStepInv == ThrottleInv /\ [ThrottleNext]_loginVars => ThrottleInv'
<1> SUFFICES ASSUME ThrottleInv, [ThrottleNext]_loginVars PROVE ThrottleInv'
  OBVIOUS
<1> USE RateLimiterAssumption, ThrottleAssumption
<1>t. ThrottleTypeOK
  BY DEF ThrottleInv
<1>1. ASSUME NEW v \in Visitors, NEW account \in Accounts, BeginLogin(v, account)
      PROVE  ThrottleInv'
  <2> USE <1>1 DEF BeginLogin
  <2>1. login[v] \in Login /\ login[v].tried + 1 \in 1..MaxLogins
    BY <1>t DEF ThrottleTypeOK, Login
  <2>2. ThrottleTypeOK'
    BY <1>t, <2>1 DEF ThrottleTypeOK, LimiterTypeOK, Login
  <2>3. hits' = hits /\ RecentlyWrong' = RecentlyWrong /\ RecentlyLost' = RecentlyLost
    BY DEF RecentlyWrong, RecentlyLost
  <2>4. Cardinality(hits[AddressWindow]) < Limit["login-ip"]
    BY DEF Admits, HasRoom, AddressWindow
  <2>5. IsFiniteSet(InFlight') /\ Cardinality(InFlight') <= Cardinality(Visitors)
    BY FS_Subset DEF InFlight
  <2>6. Cardinality(InFlight') \in Nat
    BY <2>5, FS_CardinalityType
  <2>7. \A i \in Visitors : login'[i].pc # "idle" =>
           login'[i].tried \in 1..MaxLogins /\ login'[i].account \in Accounts
    BY <1>t, <2>1 DEF ThrottleInv, ThrottleTypeOK
  <2>8. AddressWindow' = AddressWindow
    BY DEF AddressWindow
  <2> QED BY <2>2, <2>3, <2>4, <2>5, <2>6, <2>7, <2>8, ThrottleConstants, ThrottleCounts
          DEF ThrottleInv
<1>2. ASSUME NEW v \in Visitors, DemoLogin(v) PROVE ThrottleInv'
  <2> USE <1>2 DEF DemoLogin
  <2>1. login[v] \in Login /\ login[v].tried + 1 \in 1..MaxLogins
    BY <1>t DEF ThrottleTypeOK, Login
  <2>2. <<v, login[v].tried + 1>> \in Members
    BY <2>1
  <2>3. ThrottleTypeOK'
    BY <1>t, <2>1, <2>2, ThrottleChargeTypes DEF ThrottleTypeOK, LimiterTypeOK, Login
  <2>4. hits'[AddressWindow] = hits[AddressWindow]
    BY ThrottleConstants DEF Charge
  <2>5. \A i \in Visitors : login'[i].pc = login[i].pc /\ login'[i].left = login[i].left
    BY <1>t DEF ThrottleTypeOK, Login
  <2>6. \A i \in Visitors : login'[i].pc # "idle" => login'[i] = login[i]
    BY <1>t DEF ThrottleTypeOK, Login
  <2>7. \A i \in Visitors : login'[i].pc # "idle" =>
           login'[i].tried \in 1..MaxLogins /\ login'[i].account \in Accounts
    BY <2>6 DEF ThrottleInv
  <2>8. InFlight' \subseteq InFlight
    BY <2>5 DEF InFlight
  <2> QED BY <2>3, <2>4, <2>7, <2>8, ThrottleQuiet
<1>3. ASSUME NEW v \in Visitors, LoginBreaks(v) \/ ClearFailures(v) PROVE ThrottleInv'
  <2>1. Leave(v) /\ now' = now /\ wrong' = wrong /\ lost' = lost
    BY <1>3 DEF LoginBreaks, ClearFailures
  <2>2. hits' \in [Windows -> SUBSET Entry] /\ hits'[AddressWindow] = hits[AddressWindow]
    BY <1>3, <1>t, ThrottleConstants
       DEF LoginBreaks, ClearFailures, Clear, ThrottleTypeOK, LimiterTypeOK
  <2>3. /\ login' \in [Visitors -> Login] /\ InFlight' \subseteq InFlight
        /\ \A i \in Visitors : login'[i].pc # "idle" =>
              login'[i].tried \in 1..MaxLogins /\ login'[i].account \in Accounts
    BY <2>1, LeaveStep
  <2>4. ThrottleTypeOK'
    BY <1>t, <2>1, <2>2, <2>3 DEF ThrottleTypeOK, LimiterTypeOK
  <2> QED BY <2>1, <2>2, <2>3, <2>4, ThrottleQuiet
<1>4. ASSUME NEW v \in Visitors, NEW rule \in LoginRules, CountFailure(v, rule)
      PROVE  ThrottleInv'
  <2>1. /\ CounterDone(v, rule) /\ lost' = lost
        /\ Charge({rule}, SubjectOf(v, rule), <<v, login[v].tried>>)
    BY <1>4 DEF CountFailure
  <2>2. /\ login' \in [Visitors -> Login] /\ wrong' \subseteq Entry /\ IsFiniteSet(wrong')
        /\ Failure(v) \in Entry /\ Failure(v).at = now /\ <<v, login[v].tried>> \in Members
        /\ \A i \in Visitors : login'[i].pc # "idle" =>
              login'[i].tried \in 1..MaxLogins /\ login'[i].account \in Accounts
        /\ IF rule = "login-ip" THEN v \in InFlight /\ InFlight' = InFlight \ {v}
           ELSE InFlight' = InFlight
        /\ wrong' = IF rule = "login-ip" THEN wrong \cup {Failure(v)} ELSE wrong
        /\ now' = now
    BY <2>1, CounterDoneStep
  <2>3. hits' \in [Windows -> SUBSET Entry]
    BY <2>1, <2>2, <1>t, ThrottleChargeTypes
  <2>4. ThrottleTypeOK'
    BY <1>t, <2>1, <2>2, <2>3 DEF ThrottleTypeOK, LimiterTypeOK
  <2>5. CASE rule # "login-ip"
    <3>1. hits'[AddressWindow] = hits[AddressWindow]
      BY <2>1, <2>5, ThrottleConstants DEF Charge
    <3> QED BY <2>1, <2>2, <2>4, <2>5, <3>1, ThrottleQuiet
  <2>6. CASE rule = "login-ip"
    <3>1. hits'[AddressWindow] = hits[AddressWindow] \cup {Failure(v)}
      BY <2>1, <2>6, ThrottleConstants DEF Charge, AddressWindow, SubjectOf, Failure
    <3>2. IsFiniteSet(hits[AddressWindow])
      BY DEF ThrottleInv
    <3>3. /\ IsFiniteSet(hits'[AddressWindow])
          /\ Cardinality(hits'[AddressWindow]) <= Cardinality(hits[AddressWindow]) + 1
          /\ Cardinality(hits'[AddressWindow]) \in Nat
      <4> DEFINE counted == hits[AddressWindow]
                 entry == Failure(v)
                 then == hits'[AddressWindow]
      <4>1. then = counted \cup {entry} /\ IsFiniteSet(counted) /\ Cardinality(counted) \in Nat
        BY <3>1, <3>2, ThrottleCounts
      <4> HIDE DEF counted, entry, then
      <4>2. /\ IsFiniteSet(counted \cup {entry})
            /\ Cardinality(counted \cup {entry}) =
                  IF entry \in counted THEN Cardinality(counted) ELSE Cardinality(counted) + 1
        BY <4>1, FS_AddElement
      <4>3. /\ IsFiniteSet(then) /\ Cardinality(then) \in Nat
            /\ Cardinality(then) <= Cardinality(counted) + 1
        BY <4>1, <4>2
      <4> QED BY <4>3 DEF counted, then
    <3>4. Cardinality(InFlight') = Cardinality(InFlight) - 1
      BY <2>2, <2>6, ThrottleCounts, FS_RemoveElement
    <3>5. RecentlyWrong' \subseteq hits'[AddressWindow] \cup RecentlyLost'
      <4>1. wrong' = wrong \cup {Failure(v)} /\ now' = now /\ lost' = lost
        BY <2>1, <2>2, <2>6
      <4>2. RecentlyWrong \subseteq hits[AddressWindow] \cup RecentlyLost
        BY DEF ThrottleInv
      <4> QED BY <3>1, <4>1, <4>2 DEF RecentlyWrong, RecentlyLost
    <3>6. Cardinality(hits'[AddressWindow]) + Cardinality(InFlight')
             <= Cardinality(hits[AddressWindow]) + Cardinality(InFlight)
      BY <3>3, <3>4, ThrottleCounts
    <3> QED BY <2>2, <2>4, <3>3, <3>5, <3>6, ThrottleSteps
  <2> QED BY <2>5, <2>6
<1>5. ASSUME NEW v \in Visitors, NEW rule \in LoginRules, LoseCount(v, rule)
      PROVE  ThrottleInv'
  <2>1. CounterDone(v, rule) /\ hits' = hits /\ lost' = lost \cup {<<rule, Failure(v)>>}
    BY <1>5 DEF LoseCount
  <2>2. /\ login' \in [Visitors -> Login] /\ wrong' \subseteq Entry /\ IsFiniteSet(wrong')
        /\ Failure(v) \in Entry
        /\ \A i \in Visitors : login'[i].pc # "idle" =>
              login'[i].tried \in 1..MaxLogins /\ login'[i].account \in Accounts
        /\ IF rule = "login-ip" THEN v \in InFlight /\ InFlight' = InFlight \ {v}
           ELSE InFlight' = InFlight
        /\ wrong' = IF rule = "login-ip" THEN wrong \cup {Failure(v)} ELSE wrong
        /\ now' = now
    BY <2>1, CounterDoneStep
  <2>3. ThrottleTypeOK'
    BY <1>t, <2>1, <2>2 DEF ThrottleTypeOK, LimiterTypeOK
  <2>4. RecentlyWrong' \subseteq hits'[AddressWindow] \cup RecentlyLost'
    <3>1. RecentlyWrong \subseteq hits[AddressWindow] \cup RecentlyLost
      BY DEF ThrottleInv
    <3>2. \A h \in wrong' : h \in wrong \/ <<"login-ip", h>> \in lost'
      BY <2>1, <2>2
    <3> QED BY <2>1, <2>2, <3>1, <3>2 DEF RecentlyWrong, RecentlyLost
  <2>5. InFlight' \subseteq InFlight
    BY <2>2
  <2>6. IsFiniteSet(InFlight') /\ Cardinality(InFlight') <= Cardinality(InFlight)
    BY <2>5, ThrottleCounts, FS_Subset
  <2>7. Cardinality(InFlight') \in Nat
    BY <2>6, FS_CardinalityType
  <2>8. IsFiniteSet(hits'[AddressWindow])
    BY <2>1 DEF ThrottleInv
  <2>9. Cardinality(hits'[AddressWindow]) + Cardinality(InFlight')
           <= Cardinality(hits[AddressWindow]) + Cardinality(InFlight)
    BY <2>1, <2>6, <2>7, ThrottleCounts
  <2> QED BY <2>2, <2>3, <2>4, <2>8, <2>9, ThrottleSteps
<1>6. CASE Tick /\ UNCHANGED <<login, wrong, lost>>
  <2> USE <1>6 DEF Tick
  <2>1. now \in Nat /\ now' = now + 1 /\ now' \in 0..MaxTime
    BY <1>t DEF ThrottleTypeOK, LimiterTypeOK
  <2>2. ThrottleTypeOK'
    BY <1>t, <2>1 DEF ThrottleTypeOK, LimiterTypeOK
  <2>3. hits'[AddressWindow] = {h \in hits[AddressWindow] : h.at > now + 1 - Window["login-ip"]}
    BY ThrottleConstants
  <2>4. \A h \in wrong : h.at \in Int
    BY <1>t DEF ThrottleTypeOK, Entry
  <2>5. \A h \in wrong : h.at > now + 1 - Window["login-ip"] => h.at > now - Window["login-ip"]
    BY <2>1, <2>4, ThrottleConstants
  <2>6. RecentlyWrong' = {h \in RecentlyWrong : h.at > now + 1 - Window["login-ip"]}
    BY <2>1, <2>5 DEF RecentlyWrong
  <2>7. RecentlyWrong' \subseteq hits'[AddressWindow] \cup RecentlyLost'
    <3>1. RecentlyWrong \subseteq hits[AddressWindow] \cup RecentlyLost /\ lost' = lost
      BY DEF ThrottleInv
    <3> HIDE DEF Tick
    <3> QED BY <2>3, <2>6, <3>1 DEF RecentlyLost
  <2>8. IsFiniteSet(hits[AddressWindow]) /\ hits'[AddressWindow] \subseteq hits[AddressWindow]
    BY <2>3 DEF ThrottleInv
  <2>9. /\ IsFiniteSet(hits'[AddressWindow])
        /\ Cardinality(hits'[AddressWindow]) <= Cardinality(hits[AddressWindow])
    BY <2>8, FS_Subset
  <2>10. Cardinality(hits'[AddressWindow]) \in Nat
    BY <2>9, FS_CardinalityType
  <2>11. InFlight' = InFlight /\ IsFiniteSet(wrong')
    BY DEF InFlight, ThrottleInv
  <2>12. \A v \in Visitors : login'[v].pc # "idle" =>
            login'[v].tried \in 1..MaxLogins /\ login'[v].account \in Accounts
    BY DEF ThrottleInv
  <2>13. Cardinality(hits'[AddressWindow]) + Cardinality(InFlight')
            <= Cardinality(hits[AddressWindow]) + Cardinality(InFlight)
    BY <2>9, <2>10, <2>11, ThrottleCounts
  <2> HIDE DEF Tick
  <2> QED BY <2>2, <2>7, <2>9, <2>11, <2>12, <2>13, ThrottleSteps
<1>7. CASE UNCHANGED loginVars
  BY <1>7 DEF loginVars, ThrottleInv, ThrottleTypeOK, LimiterTypeOK, RecentlyWrong,
              RecentlyLost, InFlight, AddressWindow
<1> QED BY <1>1, <1>2, <1>3, <1>4, <1>5, <1>6, <1>7 DEF ThrottleNext

(* However many visitors try the accounts behind one address, however their logins run
   beside each other and however often a count is lost, within a window no more of them
   fail than the limit of the rule, one for each other visitor and one for each lost count
   (login-throttle.ts:24-50, auth-routes.ts:160-194). *)
THEOREM GuessesAreBounded == ThrottleSpec => []GuessesBounded
<1>1. ThrottleInv => GuessesBounded
  <2> SUFFICES ASSUME ThrottleInv PROVE GuessesBounded
    OBVIOUS
  <2> DEFINE counted == hits[AddressWindow]
  <2>1. RecentlyLost \subseteq wrong /\ RecentlyWrong \subseteq wrong
    BY DEF RecentlyLost, RecentlyWrong
  <2>2. IsFiniteSet(counted) /\ IsFiniteSet(RecentlyLost) /\ IsFiniteSet(RecentlyWrong)
    BY <2>1, FS_Subset DEF ThrottleInv
  <2>3. /\ Cardinality(counted) \in Nat /\ Cardinality(RecentlyLost) \in Nat
        /\ Cardinality(RecentlyWrong) \in Nat
    BY <2>2, FS_CardinalityType
  <2>4. IsFiniteSet(counted \cup RecentlyLost) /\ IsFiniteSet(counted \cap RecentlyLost)
    BY <2>2, FS_Union, FS_Intersection
  <2>5. Cardinality(counted \cup RecentlyLost)
           <= Cardinality(counted) + Cardinality(RecentlyLost)
    <3>1. Cardinality(counted \cup RecentlyLost)
             = Cardinality(counted) + Cardinality(RecentlyLost)
                  - Cardinality(counted \cap RecentlyLost)
      <4> HIDE DEF counted
      <4> QED BY <2>2, FS_Union
    <3>2. Cardinality(counted \cap RecentlyLost) \in Nat
      BY <2>4, FS_CardinalityType
    <3> HIDE DEF counted
    <3> QED BY <2>3, <3>1, <3>2
  <2>6. Cardinality(RecentlyWrong) <= Cardinality(counted \cup RecentlyLost)
    BY <2>4, FS_Subset DEF ThrottleInv
  <2>7. Cardinality(counted \cup RecentlyLost) \in Nat
    BY <2>4, FS_CardinalityType
  <2>8. Cardinality(counted) + Cardinality(InFlight) < Limit["login-ip"] + Cardinality(Visitors)
    BY DEF ThrottleInv
  <2> QED BY <2>3, <2>5, <2>6, <2>7, <2>8, ThrottleCounts, ThrottleConstants
          DEF GuessesBounded
<1> QED BY <1>1, ThrottleInitInv, ThrottleStepInv, PTL DEF ThrottleSpec

-----------------------------------------------------------------------------
(* The pages of the audit log: AuditTrail.tla. *)

(* The place of an id in a set of ids, newest first. *)
RankIn(ids, i) == Cardinality({j \in ids : j >= i})

(* Every place is one id's, and a newer id has an earlier place. *)
LEMMA Ranks ==
    ASSUME NEW ids \in SUBSET (1..MaxRows)
    PROVE  /\ Cardinality(ids) \in Nat
           /\ \A i \in ids : RankIn(ids, i) \in 1..Cardinality(ids)
           /\ \A i, j \in ids : i < j => RankIn(ids, j) < RankIn(ids, i)
           /\ \A k \in 1..Cardinality(ids) : \E i \in ids : RankIn(ids, i) = k
<1>0. \A i \in ids : i \in Int
  BY TrailAssumption
<1>1. IsFiniteSet(ids) /\ Cardinality(ids) \in Nat
  <2>1. IsFiniteSet(1..MaxRows)
    BY TrailAssumption, FS_Interval
  <2> QED BY <2>1, FS_Subset, FS_CardinalityType
<1>2. ASSUME NEW i \in ids
      PROVE  RankIn(ids, i) \in 1..Cardinality(ids) /\ IsFiniteSet({j \in ids : j >= i})
  <2> DEFINE above == {j \in ids : j >= i}
  <2>1. above \in SUBSET ids /\ i \in above
    OBVIOUS
  <2>2. IsFiniteSet(above) /\ Cardinality(above) <= Cardinality(ids) /\ Cardinality(above) # 0
    <3> HIDE DEF above
    <3> QED BY <1>1, <2>1, FS_Subset, FS_EmptySet
  <2>3. Cardinality(above) \in Nat
    BY <2>2, FS_CardinalityType
  <2> QED BY <1>1, <2>2, <2>3 DEF RankIn
<1>3. ASSUME NEW i \in ids, NEW j \in ids, i < j PROVE RankIn(ids, j) < RankIn(ids, i)
  <2> DEFINE aboveI == {m \in ids : m >= i}
             aboveJ == {m \in ids : m >= j}
  <2>0. i \in Int /\ j \in Int /\ \A m \in ids : m \in Int
    BY <1>0
  <2>1. aboveJ \in SUBSET aboveI /\ i \in aboveI /\ i \notin aboveJ
    <3>1. \A m \in ids : m >= j => m >= i
      BY <2>0, <1>3
    <3>2. i >= i /\ ~ (i >= j)
      BY <2>0, <1>3
    <3> QED BY <3>1, <3>2
  <2>2. IsFiniteSet(aboveI)
    BY <1>2
  <2>3. Cardinality(aboveJ) <= Cardinality(aboveI) /\ Cardinality(aboveJ) # Cardinality(aboveI)
    <3> HIDE DEF aboveI, aboveJ
    <3> QED BY <2>1, <2>2, FS_Subset
  <2> QED BY <2>3, <1>1, <1>2 DEF RankIn
<1>4. \A k \in 1..Cardinality(ids) : \E i \in ids : RankIn(ids, i) = k
  <2> DEFINE places == 1..Cardinality(ids)
             rank == [i \in ids |-> RankIn(ids, i)]
  <2>1. rank \in [ids -> places]
    BY <1>2
  <2>2. \A i, j \in ids : rank[i] = rank[j] => i = j
    <3>1. \A i, j \in ids : i # j => i < j \/ j < i
      BY <1>0
    <3>2. \A i \in ids : RankIn(ids, i) \in Int
      <4>1. \A i \in ids : RankIn(ids, i) \in 1..Cardinality(ids)
        BY <1>2
      <4>2. \A x \in 1..Cardinality(ids) : x \in Int
        BY <1>1
      <4> QED BY <4>1, <4>2
    <3> HIDE DEF places
    <3> QED BY <1>3, <3>1, <3>2
  <2>3. rank \in Injection(ids, places)
    BY <2>1, <2>2 DEF Injection, IsInjective
  <2>4. IsFiniteSet(places) /\ Cardinality(places) = Cardinality(ids)
    BY <1>1, FS_Interval
  <2>5. rank \in Surjection(ids, places)
    <3> HIDE DEF rank, places
    <3> QED BY <2>3, <2>4, FS_Injection
  <2>6. \A k \in places : \E i \in ids : rank[i] = k
    <3> HIDE DEF rank, places
    <3> QED BY <2>5 DEF Surjection
  <2> QED BY <2>6
<1> QED BY <1>1, <1>2, <1>3, <1>4

(* A page is the newest ids of those found, newest first: what it leaves out is older
   than its last. *)
LEMMA NewestFirst ==
    ASSUME NEW ids \in SUBSET (1..MaxRows), NEW n \in Nat
    PROVE  LET page == Newest(ids, n)
               size == IF Cardinality(ids) < n THEN Cardinality(ids) ELSE n
           IN  /\ page \in Seq(1..MaxRows) /\ Len(page) = size
               /\ \A k \in 1..size : page[k] \in ids
               /\ \A k, m \in 1..size : k < m => page[m] < page[k]
               /\ \A i \in ids : Cardinality(ids) <= n \/ (\E k \in 1..size : i >= page[k])
                     => \E k \in 1..size : page[k] = i
<1> DEFINE size == IF Cardinality(ids) < n THEN Cardinality(ids) ELSE n
           page == Newest(ids, n)
<1>0. /\ Cardinality(ids) \in Nat
      /\ \A i \in ids : i \in Int /\ RankIn(ids, i) \in 1..Cardinality(ids)
      /\ \A i, j \in ids : i < j => RankIn(ids, j) < RankIn(ids, i)
      /\ \A k \in 1..Cardinality(ids) : \E i \in ids : RankIn(ids, i) = k
  BY Ranks, TrailAssumption
<1>1. size \in Nat /\ size <= Cardinality(ids) /\ Cardinality(ids) \in Nat
      /\ (size = Cardinality(ids) \/ (size = n /\ n < Cardinality(ids)))
  BY <1>0
<1>2. page = [k \in 1..size |-> CHOOSE i \in ids : RankIn(ids, i) = k]
  BY DEF Newest, RankIn
<1>3. \A k \in 1..size : page[k] \in ids /\ RankIn(ids, page[k]) = k
  <2> SUFFICES ASSUME NEW k \in 1..size PROVE page[k] \in ids /\ RankIn(ids, page[k]) = k
    OBVIOUS
  <2> HIDE DEF size
  <2>1. k \in 1..Cardinality(ids)
    BY <1>1
  <2>2. \E i \in ids : RankIn(ids, i) = k
    BY <2>1, <1>0
  <2>3. page[k] = CHOOSE i \in ids : RankIn(ids, i) = k
    BY <1>2
  <2> HIDE DEF page
  <2> QED BY <2>2, <2>3
<1>4. page \in [1..size -> 1..MaxRows]
  BY <1>2, <1>3
<1>5. page \in Seq(1..MaxRows) /\ Len(page) = size
  <2> HIDE DEF size, page
  <2>1. page \in Seq(1..MaxRows)
    BY <1>1, <1>4, SeqDef
  <2>2. DOMAIN page = 1..size
    BY <1>4
  <2> QED BY <1>1, <2>1, <2>2
<1>6. \A k, m \in 1..size : k < m => page[m] < page[k]
  <2> SUFFICES ASSUME NEW k \in 1..size, NEW m \in 1..size, k < m PROVE page[m] < page[k]
    OBVIOUS
  <2> HIDE DEF size, page
  <2>1. RankIn(ids, page[k]) = k /\ RankIn(ids, page[m]) = m /\ page[k] \in ids /\ page[m] \in ids
    BY <1>3
  <2>2. page[k] # page[m]
    BY <2>1
  <2>4. ~ (page[k] < page[m])
    <3>1. page[k] < page[m] => m < k
      BY <2>1, <1>0
    <3>2. k \in Int /\ m \in Int
      BY <1>1
    <3> QED BY <3>1, <3>2
  <2>3. page[k] \in Int /\ page[m] \in Int
    BY <1>0, <2>1
  <2> QED BY <2>2, <2>3, <2>4
<1>7. ASSUME NEW i \in ids, Cardinality(ids) <= n \/ \E k \in 1..size : i >= page[k]
      PROVE  \E k \in 1..size : page[k] = i
  <2> HIDE DEF size, page
  <2>1. RankIn(ids, i) \in 1..Cardinality(ids)
    BY <1>0
  <2>2. RankIn(ids, i) \in 1..size
    <3>1. CASE size = Cardinality(ids)
      BY <2>1, <3>1
    <3>2. CASE size # Cardinality(ids)
      <4>1. PICK k \in 1..size : i >= page[k]
        BY <1>1, <1>7, <3>2
      <4>2. page[k] \in ids /\ RankIn(ids, page[k]) = k
        BY <1>3
      <4>3. i = page[k] \/ page[k] < i
        <5>1. i \in Int /\ page[k] \in Int
          BY <4>2, <1>0
        <5> QED BY <4>1, <5>1
      <4>4. RankIn(ids, i) <= k
        <5>1. RankIn(ids, i) \in Int /\ k \in Int
          BY <2>1, <1>0, <1>1
        <5>2. i = page[k] => RankIn(ids, i) = k
          BY <4>2
        <5>3. page[k] < i => RankIn(ids, i) < k
          BY <4>2, <1>0
        <5> QED BY <4>3, <5>1, <5>2, <5>3
      <4> QED BY <2>1, <4>4, <1>1
    <3> QED BY <3>1, <3>2
  <2>3. page[RankIn(ids, i)] \in ids /\ RankIn(ids, page[RankIn(ids, i)]) = RankIn(ids, i)
    BY <1>3, <2>2
  <2>4. \A j \in ids : j # i => RankIn(ids, j) # RankIn(ids, i)
    <3> SUFFICES ASSUME NEW j \in ids, j # i PROVE RankIn(ids, j) # RankIn(ids, i)
      OBVIOUS
    <3>1. j < i \/ i < j
      BY <1>0
    <3>2. RankIn(ids, j) \in Int /\ RankIn(ids, i) \in Int
      BY Ranks, <1>1
    <3> QED BY <3>1, <3>2, <1>0
  <2>5. page[RankIn(ids, i)] = i
    BY <2>3, <2>4
  <2> QED BY <2>2, <2>5
<1> QED BY <1>3, <1>5, <1>6, <1>7

Shown(n) == \E k \in DOMAIN reader.seen : reader.seen[k] = n

(* What the walk has shown goes down to where the next page begins, and leaves out
   nothing above it that was there when the walk began: the rows that were there are
   there still. *)
TrailInv ==
    /\ TrailTypeOK
    /\ \A k \in 1..(Len(reader.seen) - 1) : reader.seen[k + 1] < reader.seen[k]
    /\ reader.pc # "done" => \A k \in DOMAIN reader.seen : reader.seen[k] >= reader.before
    /\ reader.pc = "idle" => reader.there = {} /\ reader.seen = << >>
                             /\ reader.before = MaxRows + 1
    /\ reader.there \subseteq Visible
    /\ \A n \in reader.there : n >= reader.before \/ reader.pc = "done" => Shown(n)

LEMMA TrailInitInv == TrailInit => TrailInv
<1> SUFFICES ASSUME TrailInit PROVE TrailInv
  OBVIOUS
<1> USE TrailAssumption DEF TrailInit
<1>1. reader.seen = << >> /\ reader.there = {} /\ reader.before = MaxRows + 1
      /\ reader.pc = "idle"
  OBVIOUS
<1>2. << >> \in Seq(1..MaxRows) /\ Len(<< >>) = 0
  BY EmptySeq
<1>3. TrailTypeOK
  BY <1>1, <1>2 DEF TrailTypeOK, AuditReader, RowStates
<1>4. DOMAIN reader.seen = {}
  BY <1>1
<1> QED BY <1>1, <1>2, <1>3, <1>4 DEF TrailInv

(* A step of the inserts: the rows that were visible are. *)
LEMMA TrailGrows ==
    ASSUME TrailInv, reader' = reader, auditRow' \in [1..MaxRows -> RowStates],
           \A n \in 1..MaxRows : auditRow[n] = "matching" => auditRow'[n] = "matching"
    PROVE  TrailInv'
<1>1. Visible \subseteq Visible'
  BY DEF Visible
<1>2. TrailTypeOK'
  BY DEF TrailInv, TrailTypeOK
<1> QED BY <1>1, <1>2 DEF TrailInv, Shown

LEMMA PageInv ==
    ASSUME TrailInv, NEW limit \in PageSizes, ReadPage(limit)
    PROVE  TrailInv'
<1> DEFINE found == {n \in Visible : n < reader.before}
           page == Newest(found, limit)
           size == IF Cardinality(found) < limit THEN Cardinality(found) ELSE limit
           more == Cardinality(found) > limit
           seen == reader.seen
<1>1. /\ limit \in Nat \ {0} /\ found \in SUBSET (1..MaxRows)
      /\ MaxRows \in Nat
  BY TrailAssumption DEF Visible
<1>2. /\ page \in Seq(1..MaxRows) /\ Len(page) = size
      /\ \A k \in 1..size : page[k] \in found
      /\ \A k, m \in 1..size : k < m => page[m] < page[k]
      /\ \A i \in found : Cardinality(found) <= limit \/ (\E k \in 1..size : i >= page[k])
            => \E k \in 1..size : page[k] = i
  <2> HIDE DEF found
  <2> QED BY <1>1, NewestFirst
<1>3. Cardinality(found) \in Nat /\ size \in Nat /\ (more => size = limit)
  <2>1. Cardinality(found) \in Nat
    BY <1>1, Ranks
  <2> QED BY <1>1, <2>1
<1>4. /\ reader \in AuditReader /\ seen \in Seq(1..MaxRows) /\ reader.pc # "done"
      /\ Len(seen) \in Nat /\ DOMAIN seen = 1..Len(seen)
      /\ reader.before \in Int /\ \A k \in 1..Len(seen) : seen[k] \in Int
  <2>1. reader \in AuditReader /\ seen \in Seq(1..MaxRows) /\ reader.pc # "done"
    BY DEF TrailInv, TrailTypeOK, AuditReader, ReadPage
  <2>2. Len(seen) \in Nat /\ DOMAIN seen = 1..Len(seen) /\ seen \in [1..Len(seen) -> 1..MaxRows]
    BY <2>1, LenProperties
  <2> QED BY <1>1, <2>1, <2>2 DEF AuditReader
<1>5. /\ auditRow' = auditRow
      /\ reader' = [reader EXCEPT
            !.pc = IF more THEN "paging" ELSE "done",
            !.before = IF more THEN page[Len(page)] ELSE @,
            !.seen = seen \o page,
            !.there = IF reader.pc = "idle" THEN Visible ELSE @]
  BY DEF ReadPage, NextCursor
<1>6. /\ \A k \in 1..size : page[k] \in Visible /\ page[k] \in 1..MaxRows
                            /\ page[k] \in Int /\ page[k] < reader.before
      /\ \A n \in Visible : n \in 1..MaxRows /\ n \in Int
  <2>1. \A n \in Visible : n \in 1..MaxRows /\ n \in Int
    BY <1>1 DEF Visible
  <2>2. \A n \in found : n \in Visible /\ n < reader.before
    OBVIOUS
  <2>3. \A k \in 1..size : page[k] \in found
    BY <1>2
  <2> HIDE DEF found, page, size
  <2> QED BY <2>1, <2>2, <2>3
<1>7. /\ reader'.pc = (IF more THEN "paging" ELSE "done")
      /\ reader'.before = (IF more THEN page[size] ELSE reader.before)
      /\ reader'.seen = seen \o page
      /\ reader'.there = (IF reader.pc = "idle" THEN Visible ELSE reader.there)
  <2> HIDE DEF found, page, size, more, seen
  <2> QED BY <1>2, <1>4, <1>5 DEF AuditReader
<1>8. Visible' = Visible
  BY <1>5 DEF Visible
<1> HIDE DEF found, page, size, more, seen
<1>9. /\ seen \o page \in Seq(1..MaxRows) /\ Len(seen \o page) = Len(seen) + size
      /\ DOMAIN (seen \o page) = 1..(Len(seen) + size)
      /\ \A k \in 1..Len(seen) : (seen \o page)[k] = seen[k]
      /\ \A k \in 1..size : (seen \o page)[Len(seen) + k] = page[k]
  <2>1. /\ seen \o page \in Seq(1..MaxRows) /\ Len(seen \o page) = Len(seen) + size
        /\ \A i \in 1..(Len(seen) + size) :
              (seen \o page)[i] = IF i <= Len(seen) THEN seen[i] ELSE page[i - Len(seen)]
    <3>1. page \in Seq(1..MaxRows) /\ Len(page) = size
      BY <1>2
    <3>2. /\ seen \o page \in Seq(1..MaxRows) /\ Len(seen \o page) = Len(seen) + Len(page)
          /\ \A i \in 1..(Len(seen) + Len(page)) :
                (seen \o page)[i] = IF i <= Len(seen) THEN seen[i] ELSE page[i - Len(seen)]
      BY <1>4, <3>1, ConcatProperties
    <3> QED BY <3>1, <3>2
  <2>2. DOMAIN (seen \o page) = 1..(Len(seen) + size)
    BY <2>1, LenProperties
  <2>3. ASSUME NEW k \in 1..Len(seen) PROVE (seen \o page)[k] = seen[k]
    BY <2>1, <1>3, <1>4
  <2>4. ASSUME NEW k \in 1..size PROVE (seen \o page)[Len(seen) + k] = page[k]
    <3>1. Len(seen) + k \in 1..(Len(seen) + size) /\ ~ (Len(seen) + k <= Len(seen))
          /\ (Len(seen) + k) - Len(seen) = k
      BY <1>3, <1>4
    <3> QED BY <2>1, <3>1
  <2> QED BY <2>1, <2>2, <2>3, <2>4
<1>10. \A k \in 1..(Len(seen) + size) :
          \/ k \in 1..Len(seen) /\ (seen \o page)[k] = seen[k]
          \/ k - Len(seen) \in 1..size /\ (seen \o page)[k] = page[k - Len(seen)]
  <2> TAKE k \in 1..(Len(seen) + size)
  <2>1. CASE k <= Len(seen)
    <3>1. k \in 1..Len(seen)
      BY <2>1, <1>3, <1>4
    <3> QED BY <3>1, <1>9
  <2>2. CASE ~ (k <= Len(seen))
    <3>1. k - Len(seen) \in 1..size /\ Len(seen) + (k - Len(seen)) = k
      BY <2>2, <1>3, <1>4
    <3> QED BY <3>1, <1>9
  <2> QED BY <2>1, <2>2
<1>11. TrailTypeOK'
  <2>1. more => page[size] \in 1..(MaxRows + 1)
    BY <1>1, <1>3, <1>6
  <2>2. Visible \in SUBSET (1..MaxRows)
    BY DEF Visible
  <2>3. (IF more THEN page[size] ELSE reader.before) \in 1..(MaxRows + 1)
    BY <2>1, <1>4 DEF AuditReader
  <2>4. Len(page) = size
    BY <1>2
  <2>5. reader' \in AuditReader
    BY <1>4, <1>5, <1>9, <2>2, <2>3, <2>4 DEF AuditReader
  <2> QED BY <1>5, <2>5 DEF TrailInv, TrailTypeOK
<1>12. \A k \in 1..(Len(seen \o page) - 1) : (seen \o page)[k + 1] < (seen \o page)[k]
  <2> SUFFICES ASSUME NEW k \in 1..(Len(seen) + size - 1)
               PROVE  (seen \o page)[k + 1] < (seen \o page)[k]
    <3> DEFINE walk == seen \o page
    <3>1. Len(walk) = Len(seen) + size
      BY <1>9
    <3>2. 1..(Len(walk) - 1) = 1..(Len(seen) + size - 1)
      <4> HIDE DEF walk
      <4> QED BY <3>1, <1>3, <1>4
    <3> QED BY <3>2
  <2>1. CASE k + 1 <= Len(seen)
    <3>1. k \in 1..Len(seen) /\ k + 1 \in 1..Len(seen) /\ k \in 1..(Len(seen) - 1)
      BY <2>1, <1>3, <1>4
    <3>2. seen[k + 1] < seen[k]
      BY <3>1 DEF TrailInv, seen
    <3> QED BY <3>1, <3>2, <1>9
  <2>2. CASE k = Len(seen)
    <3>1. k \in 1..Len(seen) /\ 1 \in 1..size
      BY <2>2, <1>3, <1>4
    <3>2. seen[k] >= reader.before
      BY <3>1, <1>4 DEF TrailInv, seen
    <3>3. page[1] < reader.before /\ page[1] \in Int
      BY <3>1, <1>6
    <3>4. (seen \o page)[k + 1] = page[1] /\ (seen \o page)[k] = seen[k]
      BY <3>1, <2>2, <1>9
    <3> QED BY <3>1, <3>2, <3>3, <3>4, <1>4
  <2>3. CASE k > Len(seen)
    <3>1. /\ k - Len(seen) \in 1..size /\ k - Len(seen) + 1 \in 1..size
          /\ k - Len(seen) < k - Len(seen) + 1
          /\ Len(seen) + (k - Len(seen)) = k /\ Len(seen) + (k - Len(seen) + 1) = k + 1
      BY <2>3, <1>3, <1>4
    <3>2. page[k - Len(seen) + 1] < page[k - Len(seen)]
      BY <3>1, <1>2
    <3>3. (seen \o page)[k] = page[k - Len(seen)]
          /\ (seen \o page)[k + 1] = page[k - Len(seen) + 1]
      <4>1. (seen \o page)[Len(seen) + (k - Len(seen))] = page[k - Len(seen)]
        BY <3>1, <1>9
      <4>2. (seen \o page)[Len(seen) + (k - Len(seen) + 1)] = page[k - Len(seen) + 1]
        BY <3>1, <1>9
      <4> QED BY <3>1, <4>1, <4>2
    <3> QED BY <3>2, <3>3
  <2>4. k + 1 <= Len(seen) \/ k = Len(seen) \/ k > Len(seen)
    <3>1. k \in Int /\ Len(seen) \in Int
      BY <1>4
    <3> QED BY <3>1
  <2> QED BY <2>1, <2>2, <2>3, <2>4
<1>13. more => \A k \in 1..(Len(seen) + size) : (seen \o page)[k] >= page[size]
  <2> SUFFICES ASSUME more, NEW k \in 1..(Len(seen) + size)
               PROVE  (seen \o page)[k] >= page[size]
    OBVIOUS
  <2>1. size \in 1..size
    BY <1>1, <1>3
  <2>2. page[size] \in Int /\ page[size] < reader.before
    BY <2>1, <1>6
  <2>3. CASE k \in 1..Len(seen) /\ (seen \o page)[k] = seen[k]
    <3>1. seen[k] >= reader.before
      BY <2>3, <1>4 DEF TrailInv, seen
    <3> QED BY <2>2, <2>3, <3>1, <1>4
  <2>4. CASE k - Len(seen) \in 1..size /\ (seen \o page)[k] = page[k - Len(seen)]
    <3>1. k - Len(seen) = size \/ k - Len(seen) < size
      BY <2>4, <1>3
    <3>2. page[k - Len(seen)] \in Int
      BY <2>4, <1>6
    <3>3. k - Len(seen) < size => page[size] < page[k - Len(seen)]
      BY <2>1, <2>4, <1>2
    <3> QED BY <2>2, <2>4, <3>1, <3>2, <3>3
  <2> QED BY <2>3, <2>4, <1>10
<1>14. reader'.there \subseteq Visible'
  BY <1>7, <1>8 DEF TrailInv
<1>15. ASSUME NEW n \in reader'.there, n >= reader'.before \/ reader'.pc = "done"
       PROVE  Shown(n)'
  <2>1. n \in Visible /\ n \in Int
    BY <1>8, <1>14, <1>6
  <2>2. SUFFICES \E k \in 1..(Len(seen) + size) : (seen \o page)[k] = n
    BY <1>7, <1>9 DEF Shown
  <2>3. CASE n >= reader.before
    <3>1. reader.pc # "idle"
      <4>1. reader.pc = "idle" => reader.before = MaxRows + 1
        BY DEF TrailInv
      <4>2. n < MaxRows + 1
        BY <2>1, <1>6, <1>1
      <4> QED BY <2>1, <2>3, <4>1, <4>2, <1>1
    <3>2. PICK k \in 1..Len(seen) : seen[k] = n
      <4>1. n \in reader.there
        BY <3>1, <1>7
      <4> QED BY <2>3, <4>1, <1>4 DEF TrailInv, Shown, seen
    <3>3. k \in 1..(Len(seen) + size)
      BY <1>3, <1>4
    <3> QED BY <3>2, <3>3, <1>9
  <2>4. CASE ~ (n >= reader.before)
    <3>1. n \in found
      BY <2>1, <2>4, <1>4 DEF found
    <3>2. Cardinality(found) <= limit \/ (\E k \in 1..size : n >= page[k])
      <4>1. CASE more
        <5>1. n >= page[size]
          BY <4>1, <1>15, <1>7
        <5>2. size \in 1..size
          BY <4>1, <1>1, <1>3
        <5> QED BY <5>1, <5>2
      <4>2. CASE ~ more
        BY <4>2, <1>1, <1>3 DEF more
      <4> QED BY <4>1, <4>2
    <3>3. PICK k \in 1..size : page[k] = n
      BY <3>1, <3>2, <1>2
    <3>4. Len(seen) + k \in 1..(Len(seen) + size)
      BY <1>3, <1>4
    <3> QED BY <3>3, <3>4, <1>9
  <2> QED BY <2>3, <2>4
<1>16. \A n \in reader'.there : n >= reader'.before \/ reader'.pc = "done" => Shown(n)'
  BY <1>15
<1>17. \A k \in 1..(Len(reader'.seen) - 1) : reader'.seen[k + 1] < reader'.seen[k]
  BY <1>7, <1>12
<1>18. reader'.pc # "done" => \A k \in DOMAIN reader'.seen : reader'.seen[k] >= reader'.before
  BY <1>7, <1>9, <1>13
<1>19. reader'.pc # "idle"
  BY <1>7
<1> QED BY <1>11, <1>14, <1>16, <1>17, <1>18, <1>19 DEF TrailInv

LEMMA TrailStepInv == TrailInv /\ [TrailNext]_trailVars => TrailInv'
<1> SUFFICES ASSUME TrailInv, [TrailNext]_trailVars PROVE TrailInv'
  OBVIOUS
<1>t. auditRow \in [1..MaxRows -> RowStates]
  BY DEF TrailInv, TrailTypeOK
<1>1. CASE InsertRow
  BY <1>1, <1>t, TrailGrows DEF InsertRow, RowStates
<1>2. ASSUME NEW n \in 1..MaxRows, EndInsert(n) PROVE TrailInv'
  BY <1>2, <1>t, TrailGrows DEF EndInsert, RowStates
<1>3. ASSUME NEW limit \in PageSizes, ReadPage(limit) PROVE TrailInv'
  BY <1>3, PageInv
<1>4. CASE UNCHANGED trailVars
  BY <1>4, <1>t, TrailGrows DEF trailVars
<1> QED BY <1>1, <1>2, <1>3, <1>4 DEF TrailNext

(* However many rows are inserted while an admin walks through the pages, in whatever
   order they commit and whatever the sizes of the pages, no row is shown twice and the
   walk ends with every row shown that was there when it began
   (audit-service.ts:18-19 and 85-102). *)
THEOREM AuditPagesAreComplete == TrailSpec => []AuditPagesComplete
<1>1. TrailInv => AuditPagesComplete
  BY DEF TrailInv, AuditPagesComplete, Shown
<1> QED BY <1>1, TrailInitInv, TrailStepInv, PTL DEF TrailSpec

=============================================================================
