---------------------------- MODULE TokenBucket ----------------------------
(***************************************************************************)
(* What the rate limiter promises: every source address owns a bucket that *)
(* fills by one unit at every tick, whether or not anyone looks at it; a   *)
(* request is served exactly when its bucket holds the price of a request. *)
(* Nothing is stored or evicted here: RateLimiter implements it.           *)
(***************************************************************************)
EXTENDS Naturals

CONSTANTS Ips,      \* source addresses
          Cap,      \* units in a full bucket
          Cost      \* units one request takes

VARIABLES level,    \* units in the bucket of each address
          answer    \* the last answer each address was given

TypeOK ==
  /\ level \in [Ips -> 0..Cap]
  /\ answer \in [Ips -> {"none", "served", "refused"}]

Init ==
  /\ level = [ip \in Ips |-> Cap]
  /\ answer = [ip \in Ips |-> "none"]

Fill(units) == IF units < Cap THEN units + 1 ELSE Cap

Tick ==
  /\ level' = [ip \in Ips |-> Fill(level[ip])]
  /\ UNCHANGED answer

Serve(ip) ==
  /\ level[ip] >= Cost
  /\ level' = [level EXCEPT ![ip] = @ - Cost]
  /\ answer' = [answer EXCEPT ![ip] = "served"]

Refuse(ip) ==
  /\ level[ip] < Cost
  /\ answer' = [answer EXCEPT ![ip] = "refused"]
  /\ UNCHANGED level

Next == Tick \/ \E ip \in Ips : Serve(ip) \/ Refuse(ip)

vars == <<level, answer>>

Spec == Init /\ [][Next]_vars
=============================================================================
