------------------------------ MODULE RateLimiter ------------------------------
(***************************************************************************)
(* The limits on the requests of one authentication endpoint:              *)
(* app/security/rate_limiter.py with its storage in memory, which every    *)
(* process of the application has for itself.  A check runs without an     *)
(* await, so that it is one step.                                          *)
(***************************************************************************)
EXTENDS Integers, Sequences, FiniteSets, FiniteSetsExt

CONSTANTS
    Workers,      \* processes of the application
    Addresses,    \* client addresses
    Accounts,     \* e-mail addresses, phone numbers or users
    Rules,        \* the endpoint's rules in order, [by, limit, window]
    LastTick,     \* bound: the seconds are 0..LastTick
    MaxRestarts,  \* bound: restarts of the workers together
    NoAccount     \* the request names no account

ASSUME RateLimiterAssumption ==
    /\ IsFiniteSet(Workers) /\ LastTick \in Nat /\ MaxRestarts \in Nat
    /\ NoAccount \notin Accounts
    /\ Rules \in Seq([by : {"ip", "id", "ip_id"}, limit : Nat \ {0}, window : Nat \ {0}])

VARIABLES
    now,        \* the current second
    hits,       \* each worker's count and end of the window, by rule and key
    admitted,   \* the requests let through, in order
    restarts    \* restarts of the workers

rateVars == <<now, hits, admitted, restarts>>

RuleIds == DOMAIN Rules
Request == [address : Addresses, account : Accounts \cup {NoAccount}]

\* The key builders; a rule by account passes over a request that names none.
KeyOf(rule, q) ==
    CASE rule.by = "ip" -> <<q.address>>
      [] rule.by = "id" -> <<q.account>>
      [] rule.by = "ip_id" -> <<q.address, q.account>>
Concerns(rule, q) == rule.by = "ip" \/ q.account # NoAccount
RateKeys == {<<i, KeyOf(Rules[i], q)>> : i \in RuleIds, q \in Request}

RateTypeOK ==
    /\ now \in 0..LastTick
    /\ DOMAIN hits = Workers
    /\ \A w \in Workers :
         /\ DOMAIN hits[w] \subseteq RateKeys
         /\ \A k \in DOMAIN hits[w] :
              hits[w][k] \in [count : 1..Rules[k[1]].limit + 1,
                             resetAt : 0..LastTick + Rules[k[1]].window]
    /\ admitted \in Seq([at : 0..LastTick, q : Request])
    /\ restarts \in 0..MaxRestarts

NoHits == <<>>

RateInit ==
    /\ now = 0
    /\ hits = [w \in Workers |-> NoHits]
    /\ admitted = <<>>
    /\ restarts = 0

\* hit: the first request after the end of a window begins the next one.  No
\* count above the limit is told from another.
Counted(h, rule) == [h EXCEPT !.count = Min({@ + 1, rule.limit + 1})]
HitKeepingReset(of, k, rule) ==  \* mutant: a new count keeps the end of the old window
    IF k \notin DOMAIN of THEN [count |-> 1, resetAt |-> now + rule.window]
    ELSE IF now >= of[k].resetAt THEN [of[k] EXCEPT !.count = 1]
    ELSE Counted(of[k], rule)
Hit(of, k, rule) ==
    IF k \notin DOMAIN of \/ now >= of[k].resetAt
    THEN [count |-> 1, resetAt |-> now + rule.window]
    ELSE Counted(of[k], rule)

\* check: the rules count the request in turn, up to the first that refuses
\* it.
Check(w, q) ==
    LET hit(i) == Hit(hits[w], <<i, KeyOf(Rules[i], q)>>, Rules[i])
        concerned == {i \in RuleIds : Concerns(Rules[i], q)}
        refusing == {i \in concerned : hit(i).count > Rules[i].limit}
        reached == {i \in concerned : \A r \in refusing : i <= r}
        keys == {<<i, KeyOf(Rules[i], q)>> : i \in reached}
    IN
    /\ hits' = [hits EXCEPT ![w] = [k \in DOMAIN @ \cup keys |->
                                     IF k \in keys THEN Hit(@, k, Rules[k[1]]) ELSE @[k]]]
    /\ admitted' = IF refusing = {} THEN Append(admitted, [at |-> now, q |-> q]) ELSE admitted
    /\ UNCHANGED <<now, restarts>>

RestartWorker(w) ==
    /\ restarts < MaxRestarts
    /\ restarts' = restarts + 1
    /\ hits' = [hits EXCEPT ![w] = NoHits]
    /\ UNCHANGED <<now, admitted>>

SecondPasses ==
    /\ now < LastTick
    /\ now' = now + 1
    /\ UNCHANGED <<hits, admitted, restarts>>

RateNext ==
    \/ \E w \in Workers, q \in Request : Check(w, q)
    \/ \E w \in Workers : RestartWorker(w)
    \/ SecondPasses

RateSpec == RateInit /\ [][RateNext]_rateVars

-----------------------------------------------------------------------------
\* In any span as long as a rule's window, fewer than twice its limit of
\* requests with the same key pass, for every worker and every time one began
\* anew: the span meets two windows of a worker at most, and when it does, it
\* misses the request that began the first.  The span that ends now is looked
\* at in every state.
SlidingBound ==
    \A i \in RuleIds, asked \in Request :
      LET like(q) == Concerns(Rules[i], q) /\ KeyOf(Rules[i], q) = KeyOf(Rules[i], asked)
          recent == {n \in DOMAIN admitted :
                       admitted[n].at > now - Rules[i].window /\ like(admitted[n].q)}
      IN  Cardinality(recent) <= (Cardinality(Workers) + restarts) * (2 * Rules[i].limit - 1)

=============================================================================
