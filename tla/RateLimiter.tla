----------------------------- MODULE RateLimiter -----------------------------
(***************************************************************************)
(* The sliding-window rate limiter in Redis                                *)
(* (server/src/gateway/rate-limiter.ts): for each rule and subject, the    *)
(* set of the requests counted, with the time Redis saw them at.  Each Lua *)
(* script is one step.  The scripts drop the entries that have left the    *)
(* window before they count; here they go when the clock moves.            *)
(***************************************************************************)
EXTENDS Integers, FiniteSets

CONSTANTS
    Rules,          \* names of the rules (policy/rate-limits.ts)
    Limit,          \* [Rules -> requests within the window]
    Window,         \* [Rules -> length of the window]
    Subjects,       \* who is limited: a user, a user's tool, an address, ...
    Members,        \* what is counted
    MaxTime         \* bound: the clock runs from 0 to MaxTime

ASSUME RateLimiterAssumption ==
    /\ Limit \in [Rules -> Nat \ {0}] /\ Window \in [Rules -> Nat \ {0}]
    /\ MaxTime \in Nat

VARIABLES
    hits,           \* [Rules \X Subjects -> entries], the sorted sets
    now             \* the clock, for Redis and for every server

Windows == Rules \X Subjects

Entry == [at : 0..MaxTime, by : Members]

LimiterTypeOK == hits \in [Windows -> SUBSET Entry] /\ now \in 0..MaxTime

LimiterInit == hits = [w \in Windows |-> {}] /\ now = 0

HasRoom(w) == Cardinality(hits[w]) < Limit[w[1]]

(* CONSUME and PEEK: every rule has room. *)
Admits(rules, subject) == \A r \in rules : HasRoom(<<r, subject>>)

(* CONSUME, when it admits, and HIT: the request counts against every rule. *)
Charge(rules, subject, member) ==
    hits' = [w \in Windows |->
       IF w[1] \in rules /\ w[2] = subject THEN hits[w] \cup {[at |-> now, by |-> member]}
       ELSE hits[w]]

(* reset: DEL. *)
Clear(w) == hits' = [hits EXCEPT ![w] = {}]

(* Time passes: ZREMRANGEBYSCORE. *)
Tick ==
    /\ now < MaxTime /\ now' = now + 1
    /\ hits' = [w \in Windows |-> {h \in hits[w] : h.at > now + 1 - Window[w[1]]}]

=============================================================================
