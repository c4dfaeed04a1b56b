------------------------------- MODULE MCGateway -------------------------------
(***************************************************************************)
(* The gateway, in five parts that a behaviour is one of: tool calls       *)
(* through the gates, token creation, logins, demo logins, and the audit   *)
(* trail.                                                                  *)
(***************************************************************************)
EXTENDS McpGateway, LoginThrottle, AuditTrail, TLC

CONSTANTS q1, q2, t1, s1, s2, v1, v2, a1, a2, r1, r2, r3

VARIABLE part       \* which part this behaviour is of

vars == <<part, gatewayVars, login, wrong, lost, trailVars>>

MCMembers == {q1, q2, r1, r2, r3} \cup ({v1, v2} \X (1..3))

MCSubjects == {"address", "user", "tool", a1, a2}

MCLimit ==
    [r \in Rules |-> IF r \in {"tool-minute", "login-email-ip", "demo-ip"} THEN 1 ELSE 2]

MCWindow ==
    [r \in Rules |-> IF r \in {"mcp-ip", "tool-minute", "demo-ip"} THEN 1 ELSE 2]

Symmetry ==
    Permutations({q1, q2}) \cup Permutations({s1, s2}) \cup Permutations({v1, v2})
       \cup Permutations({a1, a2}) \cup Permutations({r1, r2, r3})

(* Bound: tokens end, or the policies change and things fail, and not both: the gate of
   the tokens and the gate of the policies share only the clock. *)
OneTrouble ==
    \/ withdrawn = None /\ failures = 0
    \/ userActive /\ \A t \in Tokens : token[t] \in {"none", "active"}

(* Bound: the logins are demo logins, or none is (the two share only the clock), and
   there are five of them. *)
FiveOfAKind ==
    /\ IF part = "demo" THEN \A v \in Visitors : login[v].pc = "idle"
       ELSE hits[<<"demo-ip", "address">>] = {}
    /\ login[v1].tried + login[v2].tried <= 5

Init ==
    /\ part \in {"calls", "tokens", "logins", "demo", "audit"}
    /\ LimiterInit /\ TokensInit /\ GatewayInit /\ ThrottleInit /\ TrailInit
    /\ part # "tokens" => Active = {t1}

Next ==
    \/ part = "calls" /\ GatewayNext /\ UNCHANGED <<part, login, wrong, lost, trailVars>>
       /\ OneTrouble'
    \/ part = "tokens" /\ TokensNext /\ UNCHANGED <<part, gateVars, login, wrong, lost, trailVars>>
    \/ part \in {"logins", "demo"} /\ ThrottleNext
       /\ UNCHANGED <<part, tokenRows, cache, deadSince, forgotten, gateVars, trailVars>>
       /\ FiveOfAKind'
    \/ part = "audit" /\ TrailNext /\ UNCHANGED <<part, gatewayVars, login, wrong, lost>>

Spec == Init /\ [][Next]_vars

=============================================================================
