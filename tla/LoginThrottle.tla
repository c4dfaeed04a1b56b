----------------------------- MODULE LoginThrottle -----------------------------
(***************************************************************************)
(* POST /auth/login (server/src/transport/auth-routes.ts) behind           *)
(* gateway/login-throttle.ts: failed logins are counted per address, and   *)
(* per address and e-mail; a login is tried only while both have room.     *)
(* POST /auth/demo, which takes no password, counts every login.           *)
(* The password is verified between the look at the counters and the       *)
(* count, so logins that run beside each other do not see each other; and  *)
(* a count is lost when Redis fails or the process dies before it.         *)
(***************************************************************************)
EXTENDS RateLimiter

CONSTANTS
    Visitors,       \* clients behind one address
    Accounts,       \* e-mail addresses they try
    MaxLogins,      \* bound: logins of each visitor
    MaxLost,        \* bound: counts that are lost
    Nobody          \* no account

ASSUME ThrottleAssumption ==
    /\ IsFiniteSet(Visitors)
    /\ {"login-email-ip", "login-ip", "demo-ip"} \subseteq Rules
    /\ Accounts \cup {"address"} \subseteq Subjects
    /\ MaxLogins \in Nat /\ MaxLost \in Nat
    /\ Visitors \X (1..MaxLogins) \subseteq Members
    /\ Nobody \notin Accounts

VARIABLES
    login,          \* [Visitors -> record], the login each visitor is in
    wrong,          \* history: the failed logins, at the time they were to count
    lost            \* history: the failed logins a counter never saw, with the counter

loginVars == <<hits, now, login, wrong, lost>>

LoginRules == {"login-email-ip", "login-ip"}

(* "left": the counters that the login, if it fails, has still to go to. *)
Login == [pc : {"idle", "verify", "count"}, account : Accounts \cup {Nobody},
          tried : 0..MaxLogins, left : SUBSET LoginRules]

NotLogging == [pc |-> "idle", account |-> Nobody, tried |-> 0, left |-> {}]

ThrottleTypeOK ==
    /\ LimiterTypeOK
    /\ login \in [Visitors -> Login]
    /\ wrong \subseteq Entry /\ lost \subseteq LoginRules \X Entry

ThrottleInit ==
    /\ login = [v \in Visitors |-> NotLogging]
    /\ wrong = {} /\ lost = {}

(* loginRetryAfter: refused while a counter is full. *)
BeginLogin(v, account) ==
    /\ login[v].pc = "idle" /\ login[v].tried < MaxLogins
    /\ Admits({"login-email-ip"}, account) /\ Admits({"login-ip"}, "address")
    /\ login' = [login EXCEPT ![v] = [pc |-> "verify", account |-> account,
                                            tried |-> @.tried + 1, left |-> LoginRules]]
    /\ UNCHANGED <<hits, now, wrong, lost>>

Leave(v) == login' = [login EXCEPT ![v] = [NotLogging EXCEPT !.tried = login[v].tried]]

(* AuthService.login throws something else than AuthError, or the counter of the e-mail
   cannot be cleared. *)
LoginBreaks(v) ==
    /\ login[v].pc = "verify"
    /\ Leave(v)
    /\ UNCHANGED <<hits, now, wrong, lost>>

(* Mutant: both counters are cleared. *)
ClearBoth(v) ==
    /\ login[v].pc = "verify"
    /\ hits' = [hits EXCEPT ![<<"login-email-ip", login[v].account>>] = {},
                            ![<<"login-ip", "address">>] = {}]
    /\ Leave(v)
    /\ UNCHANGED <<now, wrong, lost>>

(* The password is right, clearLoginFailures: the counter of the e-mail only. *)
ClearFailures(v) ==
    /\ login[v].pc = "verify"
    /\ Clear(<<"login-email-ip", login[v].account>>)
    /\ Leave(v)
    /\ UNCHANGED <<now, wrong, lost>>

SubjectOf(v, rule) == IF rule = "login-ip" THEN "address" ELSE login[v].account

Failure(v) == [at |-> now, by |-> <<v, login[v].tried>>]

(* The password is wrong, recordLoginFailure: a script for each counter, in either order. *)
CounterDone(v, rule) ==
    /\ login[v].pc # "idle" /\ rule \in login[v].left
    /\ IF login[v].left = {rule} THEN Leave(v)
       ELSE login' = [login EXCEPT ![v].pc = "count", ![v].left = @ \ {rule}]
    /\ wrong' = IF rule = "login-ip" THEN wrong \cup {Failure(v)} ELSE wrong
    /\ UNCHANGED now

CountFailure(v, rule) ==
    /\ CounterDone(v, rule)
    /\ Charge({rule}, SubjectOf(v, rule), <<v, login[v].tried>>)
    /\ UNCHANGED lost

(* Redis fails, or the process has died. *)
LoseCount(v, rule) ==
    /\ Cardinality(lost) < MaxLost
    /\ CounterDone(v, rule)
    /\ lost' = lost \cup {<<rule, Failure(v)>>}
    /\ UNCHANGED hits

(* POST /auth/demo: the limit of demo logins, charged before the login is tried. *)
DemoLogin(v) ==
    /\ login[v].pc = "idle" /\ login[v].tried < MaxLogins
    /\ Admits({"demo-ip"}, "address")
    /\ Charge({"demo-ip"}, "address", <<v, login[v].tried + 1>>)
    /\ login' = [login EXCEPT ![v].tried = @ + 1]
    /\ UNCHANGED <<now, wrong, lost>>

ThrottleNext ==
    \/ \E v \in Visitors :
          \/ \E account \in Accounts : BeginLogin(v, account)
          \/ DemoLogin(v)
          \/ LoginBreaks(v) \/ ClearFailures(v)
          \/ \E rule \in LoginRules : CountFailure(v, rule) \/ LoseCount(v, rule)
    \/ Tick /\ UNCHANGED <<login, wrong, lost>>

ThrottleSpec == LimiterInit /\ ThrottleInit /\ [][ThrottleNext]_loginVars

(* Within any window, an address fails as often as the limit of its rule says, once more
   for each further login that runs beside the last one, and once more for each failure
   that could not be counted; an account that logs in does not make room for others
   (login-throttle.ts:46, auth-routes.ts:160-194). *)
RecentlyWrong == {h \in wrong : h.at > now - Window["login-ip"]}

RecentlyLost == {h \in RecentlyWrong : <<"login-ip", h>> \in lost}

GuessesBounded ==
    Cardinality(RecentlyWrong)
       < Limit["login-ip"] + Cardinality(Visitors) + Cardinality(RecentlyLost)

=============================================================================
