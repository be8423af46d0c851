---------------------------- MODULE RateLimiter ----------------------------
(***************************************************************************)
(* The token buckets of rate_limit.rs: a map from source addresses to      *)
(* buckets, behind one mutex that is held for the whole of allow, so that  *)
(* a call is one step.  A bucket is created full by the first request, is  *)
(* refilled only when it is used and is meant to be evicted once it is     *)
(* full again.                                                             *)
(*                                                                         *)
(* Units: a tick refills one unit, so a request costs Cost = 1/rate ticks, *)
(* and Cap = burst * Cost.  f64 rounding is left out.                      *)
(***************************************************************************)
EXTENDS Naturals, Functions

CONSTANTS Ips,      \* source addresses
          Cap,      \* capacity, in units
          Cost,     \* units of one request
          MaxInstant   \* bound of the clock (model only)

\* A burst of at least one request and a positive rate; a limiter configured
\* with a burst of zero refuses every request.
ASSUME LimiterAssumption ==
  /\ Cost \in Nat \ {0}
  /\ Cap \in Nat
  /\ Cost <= Cap
  /\ MaxInstant \in Nat

VARIABLES instant,  \* Instant::now()
          buckets,  \* the map: address |-> [tokens, last_refill]
          answer,   \* the last answer each address was given
          spent     \* history: units each address has been served since a tick

limiterVars == <<instant, buckets, answer, spent>>

Bucket == [tokens : 0..Cap, last_refill : 0..MaxInstant]

\* spent is only kept for the ticks that have been.
LimiterTypeOK ==
  /\ instant \in 0..MaxInstant
  /\ DOMAIN buckets \subseteq Ips
  /\ \A ip \in DOMAIN buckets : buckets[ip] \in Bucket /\ buckets[ip].last_refill <= instant
  /\ answer \in [Ips -> {"none", "served", "refused"}]
  /\ spent \in [Ips -> [0..MaxInstant -> Nat]]

LimiterInit ==
  /\ instant = 0
  /\ buckets = [ip \in {} |-> [tokens |-> Cap, last_refill |-> 0]]
  /\ answer = [ip \in Ips |-> "none"]
  /\ spent = [ip \in Ips |-> [s \in 0..MaxInstant |-> 0]]

-----------------------------------------------------------------------------
AtMostCap(units) == IF units < Cap THEN units ELSE Cap

Idle(b) == instant - b.last_refill

\* A bug: the cutoff is the time one token takes, not a full bucket.
KeptForOneToken(ip) ==
  Idle(buckets[ip]) < Cost

\* The retain of allow: its idle cutoff, cap / rate, is Cap ticks, and the
\* tokens it compares are the stored ones, not the refilled ones.
Kept(ip) ==
  \/ Idle(buckets[ip]) < Cap
  \/ buckets[ip].tokens < Cap

\* A bug: only whole tokens are refilled, and the rest of the time is lost.
RefilledWhole(map, ip) ==
  IF ip \in DOMAIN map
  THEN AtMostCap(map[ip].tokens + (Idle(map[ip]) \div Cost) * Cost)
  ELSE Cap

\* What the bucket of ip holds now: entry(..).or_insert and the refill.
Refilled(map, ip) ==
  IF ip \in DOMAIN map
  THEN AtMostCap(map[ip].tokens + Idle(map[ip]))
  ELSE Cap

Store(map, ip, units) ==
  [i \in DOMAIN map \cup {ip} |->
     IF i = ip THEN [tokens |-> units, last_refill |-> instant] ELSE map[i]]

\* History: the price of a request counts in every window that is open now.
Charged(ip) ==
  [s \in 0..MaxInstant |-> IF s <= instant THEN spent[ip][s] + Cost ELSE spent[ip][s]]

\* One call of allow: evict, refill the caller's bucket, take a token if there
\* is one.  The middleware passes the request on or answers 429.
Allow(ip) ==
  LET kept   == Restrict(buckets, {i \in DOMAIN buckets : Kept(i)})
      tokens == Refilled(kept, ip)
      served == tokens >= Cost
  IN /\ buckets' = Store(kept, ip, IF served THEN tokens - Cost ELSE tokens)
     /\ answer' = [answer EXCEPT ![ip] = IF served THEN "served" ELSE "refused"]
     /\ spent' = IF served
                 THEN [spent EXCEPT ![ip] = Charged(ip)]
                 ELSE spent
     /\ UNCHANGED instant

LimiterTick ==
  /\ instant < MaxInstant
  /\ instant' = instant + 1
  /\ UNCHANGED <<buckets, answer, spent>>

LimiterNext == LimiterTick \/ \E ip \in Ips : Allow(ip)

LimiterSpec == LimiterInit /\ [][LimiterNext]_limiterVars

-----------------------------------------------------------------------------
\* The units an observer would find in the bucket of ip.
Level == [ip \in Ips |-> Refilled(buckets, ip)]

\* In every window of time, from any tick s until now, an address is served at
\* most a burst and what has been refilled since: the limit allow enforces, which
\* neither a lazy refill nor an eviction may loosen.
BurstBounded ==
  \A ip \in Ips : \A s \in 0..instant : spent[ip][s] <= Cap + (instant - s)

Promise == INSTANCE TokenBucket WITH level <- Level, answer <- answer

\* The lazy buckets answer every request as buckets that fill by themselves
\* would: no request is refused early, none is served early, and the eviction
\* of one address changes the answer to none.
ImplementsTokenBucket == Promise!Spec

=============================================================================
