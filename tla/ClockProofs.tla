---------------------------- MODULE ClockProofs ----------------------------
(***************************************************************************)
(* Proofs about the two components that run by the clock.  RateLimiter:    *)
(* for every set of addresses, capacity, cost and length of time.          *)
(* Recurring: for every set of templates, number of requests in flight,    *)
(* interval, and bounds of the clock, the edits and the failures.          *)
(***************************************************************************)
EXTENDS RateLimiter, Recurring, TLAPS

(* RateLimiter *)

\* No stored bucket is full: every call that stores one has taken a token from
\* it, or has found less than a token in it.
NoneFull == \A ip \in DOMAIN buckets : buckets[ip].tokens < Cap

\* What an address was served since s and what its bucket holds now come from
\* the burst and the refills since s.
Ledger ==
  \A ip \in Ips : \A s \in 0..MaxInstant :
    IF s <= instant THEN spent[ip][s] + Level[ip] <= Cap + (instant - s)
                ELSE spent[ip][s] = 0

LimiterInv == LimiterTypeOK /\ NoneFull /\ Ledger

\* The condition retain evaluates holds of every bucket.
NothingEvicted == \A ip \in DOMAIN buckets : Kept(ip)

-----------------------------------------------------------------------------
\* A refilled bucket holds between nothing and its capacity.
LEMMA RefilledType ==
  ASSUME LimiterTypeOK, NEW ip
  PROVE  Refilled(buckets, ip) \in 0..Cap
BY LimiterAssumption DEF LimiterTypeOK, Bucket, Refilled, AtMostCap, Idle

\* Nothing is evicted from buckets of which none is full, so allow works on the
\* map it found.
LEMMA KeepsAll ==
  ASSUME NoneFull, LimiterTypeOK
  PROVE  Restrict(buckets, {i \in DOMAIN buckets : Kept(i)}) = [i \in DOMAIN buckets |-> buckets[i]]
<1>1. {i \in DOMAIN buckets : Kept(i)} = DOMAIN buckets
  BY DEF NoneFull, Kept
<1> QED BY <1>1 DEF Restrict

\* The tokens a call stores, for a map that keeps all its buckets.
Left(ip) == IF Refilled(buckets, ip) >= Cost
            THEN Refilled(buckets, ip) - Cost
            ELSE Refilled(buckets, ip)

\* A call, with the eviction and its local names resolved.
LEMMA AllowStep ==
  ASSUME LimiterInv, NEW ip \in Ips, Allow(ip)
  PROVE  /\ buckets' = Store(buckets, ip, Left(ip))
         /\ Refilled(buckets, ip) \in 0..Cap
         /\ Left(ip) \in 0..Cap
         /\ Left(ip) < Cap
         /\ answer' = [answer EXCEPT ![ip] =
                         IF Refilled(buckets, ip) >= Cost THEN "served" ELSE "refused"]
         /\ spent' = IF Refilled(buckets, ip) >= Cost
                     THEN [spent EXCEPT ![ip] = Charged(ip)]
                     ELSE spent
         /\ instant' = instant
<1> DEFINE same == [i \in DOMAIN buckets |-> buckets[i]]
<1>1. Restrict(buckets, {i \in DOMAIN buckets : Kept(i)}) = same
  BY KeepsAll DEF LimiterInv
<1>2. Refilled(same, ip) = Refilled(buckets, ip)
  BY DEF Refilled
<1>3. \A u : Store(same, ip, u) = Store(buckets, ip, u)
  BY DEF Store
<1>4. Refilled(buckets, ip) \in 0..Cap
  BY RefilledType DEF LimiterInv
<1>5. Left(ip) \in 0..Cap /\ Left(ip) < Cap
  BY <1>4, LimiterAssumption DEF Left
<1> HIDE DEF same
<1> QED BY <1>1, <1>2, <1>3, <1>4, <1>5 DEF Allow, Left

\* After a call the caller's bucket holds what the call left in it, and the
\* bucket of every other address what it held before.
LEMMA LevelAfterAllow ==
  ASSUME LimiterInv, NEW ip \in Ips, Allow(ip)
  PROVE  Level' = [Level EXCEPT ![ip] = Left(ip)]
<1>1. buckets' = Store(buckets, ip, Left(ip)) /\ instant' = instant
      /\ Left(ip) \in 0..Cap
  BY AllowStep
<1>2. ASSUME NEW i \in Ips
      PROVE  Level'[i] = IF i = ip THEN Left(ip) ELSE Level[i]
  <2>1. CASE i = ip
    BY <1>1, <2>1, LimiterAssumption DEF Level, Refilled, Store, AtMostCap, Idle, LimiterInv, LimiterTypeOK
  <2>2. CASE i # ip
    BY <1>1, <2>2 DEF Level, Refilled, Store, AtMostCap, Idle
  <2> QED BY <2>1, <2>2
<1> QED BY <1>2 DEF Level

\* A tick adds one unit to every bucket that has room for it.
LEMMA LevelAfterTick ==
  ASSUME LimiterInv, LimiterTick
  PROVE  \A i \in Ips : Level'[i] = IF Level[i] < Cap THEN Level[i] + 1 ELSE Cap
<1> TAKE i \in Ips
<1>1. CASE i \in DOMAIN buckets
  <2>1. buckets[i].tokens \in 0..Cap /\ buckets[i].last_refill \in Nat
        /\ buckets[i].last_refill <= instant /\ instant \in Nat
    BY <1>1, LimiterAssumption DEF LimiterInv, LimiterTypeOK, Bucket
  <2> QED BY <1>1, <2>1, LimiterAssumption DEF Level, Refilled, AtMostCap, Idle, LimiterTick
<1>2. CASE i \notin DOMAIN buckets
  BY <1>2, LimiterAssumption DEF Level, Refilled, LimiterTick
<1> QED BY <1>1, <1>2

-----------------------------------------------------------------------------
\* Types survive every step.
LEMMA LimiterTypeStep == ASSUME LimiterInv, [LimiterNext]_limiterVars PROVE LimiterTypeOK'
<1> USE DEF LimiterInv
<1>1. CASE LimiterTick
  BY <1>1, LimiterAssumption DEF LimiterTypeOK, LimiterTick, Bucket
<1>2. ASSUME NEW ip \in Ips, Allow(ip) PROVE LimiterTypeOK'
  <2>1. buckets' = Store(buckets, ip, Left(ip)) /\ instant' = instant /\ Left(ip) \in 0..Cap
    BY <1>2, AllowStep
  <2>2. DOMAIN buckets' \subseteq Ips
        /\ \A i \in DOMAIN buckets' : buckets'[i] \in Bucket /\ buckets'[i].last_refill <= instant
    BY <2>1, LimiterAssumption DEF Store, LimiterTypeOK, Bucket
  <2>3. answer' \in [Ips -> {"none", "served", "refused"}]
    BY <1>2, AllowStep DEF LimiterTypeOK
  <2>4. spent' \in [Ips -> [0..MaxInstant -> Nat]]
    <3>1. Charged(ip) \in [0..MaxInstant -> Nat]
      BY LimiterAssumption DEF LimiterTypeOK, Charged
    <3>2. spent' = spent \/ spent' = [spent EXCEPT ![ip] = Charged(ip)]
      BY <1>2, AllowStep
    <3> QED BY <3>1, <3>2 DEF LimiterTypeOK
  <2> QED BY <2>1, <2>2, <2>3, <2>4 DEF LimiterTypeOK, Bucket
<1>3. CASE UNCHANGED limiterVars
  BY <1>3 DEF limiterVars, LimiterTypeOK, Bucket
<1> QED BY <1>1, <1>2, <1>3 DEF LimiterNext

\* So does the absence of full buckets.
LEMMA NoneFullStep == ASSUME LimiterInv, [LimiterNext]_limiterVars PROVE NoneFull'
<1>1. CASE LimiterTick
  BY <1>1 DEF LimiterInv, NoneFull, LimiterTick
<1>2. ASSUME NEW ip \in Ips, Allow(ip) PROVE NoneFull'
  <2>1. buckets' = Store(buckets, ip, Left(ip)) /\ Left(ip) < Cap
    BY <1>2, AllowStep
  <2> QED BY <2>1 DEF NoneFull, Store, LimiterInv
<1>3. CASE UNCHANGED limiterVars
  BY <1>3 DEF limiterVars, LimiterInv, NoneFull
<1> QED BY <1>1, <1>2, <1>3 DEF LimiterNext

\* And the ledger: a served request moves Cost from the bucket to what was spent,
\* a tick adds at most one unit to both sides.
LEMMA LedgerStep == ASSUME LimiterInv, [LimiterNext]_limiterVars PROVE Ledger'
<1> USE DEF LimiterInv
<1>t. /\ instant \in Nat
      /\ \A i \in Ips : Level[i] \in 0..Cap
      /\ \A i \in Ips : \A s \in 0..MaxInstant : spent[i][s] \in Nat
  <2>1. instant \in Nat
    BY LimiterAssumption DEF LimiterTypeOK
  <2>2. \A i \in Ips : Level[i] \in 0..Cap
    BY RefilledType DEF Level
  <2>3. \A i \in Ips : \A s \in 0..MaxInstant : spent[i][s] \in Nat
    BY DEF LimiterTypeOK
  <2> QED BY <2>1, <2>2, <2>3
<1>1. CASE LimiterTick
  <2> SUFFICES ASSUME NEW i \in Ips, NEW s \in 0..MaxInstant
               PROVE  IF s <= instant' THEN spent'[i][s] + Level'[i] <= Cap + (instant' - s)
                                   ELSE spent'[i][s] = 0
    BY DEF Ledger
  <2>1. Level'[i] = IF Level[i] < Cap THEN Level[i] + 1 ELSE Cap
    BY <1>1, LevelAfterTick
  <2>2. instant' = instant + 1 /\ spent' = spent
    BY <1>1 DEF LimiterTick
  <2>3. IF s <= instant THEN spent[i][s] + Level[i] <= Cap + (instant - s) ELSE spent[i][s] = 0
    BY DEF Ledger
  <2> HIDE DEF LimiterInv
  <2> QED BY <1>t, <2>1, <2>2, <2>3, LimiterAssumption
<1>2. ASSUME NEW ip \in Ips, Allow(ip) PROVE Ledger'
  <2> SUFFICES ASSUME NEW i \in Ips, NEW s \in 0..MaxInstant
               PROVE  IF s <= instant' THEN spent'[i][s] + Level'[i] <= Cap + (instant' - s)
                                   ELSE spent'[i][s] = 0
    BY DEF Ledger
  <2>1. Level' = [Level EXCEPT ![ip] = Left(ip)]
    BY <1>2, LevelAfterAllow
  <2>2. instant' = instant
    BY <1>2, AllowStep
  <2>3. IF s <= instant THEN spent[i][s] + Level[i] <= Cap + (instant - s) ELSE spent[i][s] = 0
    BY DEF Ledger
  <2>4. CASE i # ip
    <3>1. spent'[i] = spent[i]
      BY <1>2, <2>4, AllowStep DEF LimiterTypeOK
    <3>2. Level'[i] = Level[i]
      BY <2>1, <2>4 DEF Level
    <3> QED BY <2>2, <2>3, <3>1, <3>2
  <2>5. CASE i = ip
    <3>1. Level[i] = Refilled(buckets, ip) /\ Level'[i] = Left(ip)
      BY <2>1, <2>5 DEF Level
    <3>2. CASE Refilled(buckets, ip) >= Cost
      <4>1. spent'[i][s] = IF s <= instant THEN spent[i][s] + Cost ELSE spent[i][s]
        <5>1. spent' = [spent EXCEPT ![ip] = Charged(ip)]
          BY <1>2, <3>2, AllowStep
        <5> QED BY <2>5, <5>1 DEF LimiterTypeOK, Charged
      <4>2. Level'[i] = Level[i] - Cost
        BY <3>1, <3>2 DEF Left
      <4> HIDE DEF LimiterInv
      <4> QED BY <1>t, <2>2, <2>3, <4>1, <4>2, LimiterAssumption
    <3>3. CASE ~(Refilled(buckets, ip) >= Cost)
      <4>1. spent' = spent
        BY <1>2, <3>3, AllowStep
      <4>2. Level'[i] = Level[i]
        BY <3>1, <3>3 DEF Left
      <4> QED BY <2>2, <2>3, <4>1, <4>2
    <3> QED BY <3>2, <3>3
  <2> QED BY <2>4, <2>5
<1>3. CASE UNCHANGED limiterVars
  BY <1>3 DEF limiterVars, Ledger, Level, Refilled, Idle
<1> QED BY <1>1, <1>2, <1>3 DEF LimiterNext

\* The limiter starts with the invariant.
LEMMA LimiterInitInv == LimiterInit => LimiterInv
<1> SUFFICES ASSUME LimiterInit PROVE LimiterInv
  OBVIOUS
<1>1. LimiterTypeOK /\ NoneFull
  BY LimiterAssumption DEF LimiterInit, LimiterTypeOK, NoneFull
<1>2. \A i \in Ips : Level[i] = Cap
  BY DEF LimiterInit, Level, Refilled
<1>3. Ledger
  BY <1>2, LimiterAssumption DEF LimiterInit, Ledger
<1> QED BY <1>1, <1>3 DEF LimiterInv

\* The limiter keeps the invariant: TypeOK, no full bucket stored, the ledger.
THEOREM LimiterInvariance == LimiterSpec => []LimiterInv
<1>1. LimiterInv /\ [LimiterNext]_limiterVars => LimiterInv'
  BY LimiterTypeStep, NoneFullStep, LedgerStep DEF LimiterInv
<1> QED BY LimiterInitInv, <1>1, PTL DEF LimiterSpec

\* The map and the history keep their types.
THEOREM LimiterTypeCorrect == LimiterSpec => []LimiterTypeOK
<1>1. LimiterInv => LimiterTypeOK
  BY DEF LimiterInv
<1> QED BY LimiterInvariance, <1>1, PTL

\* No window of time sees an address served more than a burst and the refills of
\* the window.
THEOREM BurstHolds == LimiterSpec => []BurstBounded
<1>1. LimiterInv => BurstBounded
  <2> SUFFICES ASSUME LimiterInv, NEW ip \in Ips, NEW s \in 0..instant
               PROVE  spent[ip][s] <= Cap + (instant - s)
    BY DEF BurstBounded
  <2>1. instant \in 0..MaxInstant /\ s \in 0..MaxInstant /\ s <= instant /\ spent[ip][s] \in Nat
    BY LimiterAssumption DEF LimiterInv, LimiterTypeOK
  <2>2. Level[ip] \in 0..Cap
    BY RefilledType DEF LimiterInv, Level
  <2>3. spent[ip][s] + Level[ip] <= Cap + (instant - s)
    BY <2>1 DEF LimiterInv, Ledger
  <2> QED BY <2>1, <2>2, <2>3, LimiterAssumption
<1> QED BY LimiterInvariance, <1>1, PTL

\* The eviction never removes anything: it compares the tokens that were stored,
\* and what is stored is never full.  The map grows by one bucket for every
\* address that ever sent a request.
THEOREM NeverEvicts == LimiterSpec => []NothingEvicted
<1>1. LimiterInv => NothingEvicted
  BY DEF LimiterInv, NoneFull, NothingEvicted, Kept
<1> QED BY LimiterInvariance, <1>1, PTL

-----------------------------------------------------------------------------
\* Every step of the limiter is a step of the promise, or none.
LEMMA StepSimulates ==
  ASSUME LimiterInv, [LimiterNext]_limiterVars
  PROVE  [Promise!Next]_(Promise!vars)
<1>t. \A i \in Ips : Level[i] \in 0..Cap
  BY RefilledType DEF LimiterInv, Level
<1>1. CASE LimiterTick
  <2>1. Level' = [i \in Ips |-> Promise!Fill(Level[i])]
    <3>1. \A i \in Ips : Level'[i] = Promise!Fill(Level[i])
      BY <1>1, LevelAfterTick DEF Promise!Fill
    <3> QED BY <3>1 DEF Level
  <2>2. answer' = answer
    BY <1>1 DEF LimiterTick
  <2>3. Promise!Tick
    BY <2>1, <2>2 DEF Promise!Tick
  <2> QED BY <2>3 DEF Promise!Next
<1>2. ASSUME NEW ip \in Ips, Allow(ip) PROVE Promise!Next
  <2>1. Level' = [Level EXCEPT ![ip] = Left(ip)] /\ Level[ip] = Refilled(buckets, ip)
    BY <1>2, LevelAfterAllow DEF Level
  <2>2. CASE Refilled(buckets, ip) >= Cost
    <3>1. answer' = [answer EXCEPT ![ip] = "served"]
      BY <1>2, <2>2, AllowStep
    <3>2. Level' = [Level EXCEPT ![ip] = @ - Cost]
      BY <2>1, <2>2 DEF Left
    <3>3. Promise!Serve(ip)
      BY <2>1, <2>2, <3>1, <3>2 DEF Promise!Serve
    <3> QED BY <3>3 DEF Promise!Next
  <2>3. CASE ~(Refilled(buckets, ip) >= Cost)
    <3>1. answer' = [answer EXCEPT ![ip] = "refused"]
      BY <1>2, <2>3, AllowStep
    <3>2. Level' = Level
      BY <2>1, <2>3 DEF Left, Level
    <3>3. Level[ip] < Cost
      BY <1>t, <2>1, <2>3, LimiterAssumption
    <3>4. Promise!Refuse(ip)
      BY <3>1, <3>2, <3>3 DEF Promise!Refuse
    <3> QED BY <3>4 DEF Promise!Next
  <2> QED BY <2>2, <2>3
<1>3. CASE UNCHANGED limiterVars
  BY <1>3 DEF limiterVars, Promise!vars, Level, Refilled, Idle
<1> QED BY <1>1, <1>2, <1>3 DEF LimiterNext

\* The lazy, mutex-protected map answers as buckets that fill by themselves.
THEOREM LimiterImplementation == LimiterSpec => ImplementsTokenBucket
<1>1. LimiterInit => Promise!Init
  BY DEF LimiterInit, Promise!Init, Level, Refilled
<1>2. LimiterInv /\ [LimiterNext]_limiterVars => [Promise!Next]_(Promise!vars)
  BY StepSimulates
<1> QED BY <1>1, <1>2, LimiterInvariance, PTL DEF LimiterSpec, Promise!Spec, ImplementsTokenBucket
-----------------------------------------------------------------------------
(* Recurring *)

\* A template is on at most one list of a run, with one date, no later than now,
\* and was created; at most one copy waits for its date to move, and it is made.
Held(k) == task[k].due \cup task[k].copied

RunOK(k) ==
  /\ \A d \in Held(k) : d.id \in Of(k) /\ d.date <= now /\ rows[d.id].state # "none"
  /\ \A d, e \in Held(k) : d.id = e.id => d = e
  /\ task[k].due \cap task[k].copied = {}
  /\ \A d, e \in task[k].copied : d = e
  /\ \A d \in task[k].copied : made[d.id][d.date] >= 1

\* A template that does not exist yet has no copies.
Unmade(t) == rows[t].state = "none" => \A x \in Dates : made[t][x] = 0

\* No date was copied twice, no date still on a run's list was copied, and every
\* date copied is behind the template's or about to be.
CopiedOnce(t) ==
  /\ \A x \in Dates : made[t][x] <= 1
  /\ \A k \in Kinds : \A d \in task[k].due : d.id = t => made[t][d.date] = 0
  /\ InTable(t) =>
       \A x \in Dates : made[t][x] >= 1 =>
         \/ x < rows[t].date
         \/ \E k \in Kinds : \E d \in task[k].copied : d.id = t /\ d.date = x

\* The invoice's date is a number of intervals after the one the desk gave it,
\* and every date between has its copy.
Chain(t) ==
  InTable(t) =>
    \E m \in Nat :
      /\ rows[t].date = from[t] + m * Interval
      /\ \A x \in Dates : (\E n \in 0..(m - 1) : x = from[t] + n * Interval) => made[t][x] >= 1

\* What an update will write is a row that was in the table when it was read.
ReadInTable(h) == req[h].id # {} => req[h].row.state \in {"on", "off"}

RunTyped ==
  /\ TypeOK
  /\ task \in [Kinds -> [due : SUBSET Due, copied : SUBSET Due]]
  /\ req \in [Handlers -> [id : SUBSET Invoices, row : Row, read : Row]]

IInv ==
  /\ RunTyped
  /\ \A k \in Kinds : RunOK(k)
  /\ \A t \in Templates : Unmade(t)
  /\ \A t \in Templates \ slipped : CopiedOnce(t)
  /\ \A t \in Invoices \ raced : Chain(t)
  /\ \A h \in Handlers : ReadInTable(h)

LEMMA Bounds ==
  /\ Interval \in Nat /\ Interval > 0
  /\ MaxTime \in Nat /\ MaxEdits \in Nat /\ MaxFaults \in Nat
  /\ Invoices \cap TicketIds = {}
BY RecurringAssumption

\* A task is its two lists; the forms its updates take.
LEMMA TaskForm ==
  ASSUME RunTyped, NEW k \in Kinds
  PROVE  /\ \A due : [task EXCEPT ![k].due = due]
                     = [task EXCEPT ![k] = [due |-> due, copied |-> task[k].copied]]
         /\ \A copied : [task EXCEPT ![k].copied = copied]
                        = [task EXCEPT ![k] = [due |-> task[k].due, copied |-> copied]]
<1>1. task[k] \in [due : SUBSET Due, copied : SUBSET Due]
  BY DEF RunTyped
<1>2. \A due : [task[k] EXCEPT !.due = due] = [due |-> due, copied |-> task[k].copied]
  BY <1>1
<1>3. \A copied : [task[k] EXCEPT !.copied = copied] = [due |-> task[k].due, copied |-> copied]
  BY <1>1
<1> QED BY <1>2, <1>3

-----------------------------------------------------------------------------
\* A run loses templates from its lists; a copy that is lost leaves its template
\* with a date that was copied already.
Dropped(k) ==
  /\ \E due \in SUBSET task[k].due, copied \in SUBSET task[k].copied :
       /\ task' = [task EXCEPT ![k] = [due |-> due, copied |-> copied]]
       /\ \A d \in task[k].copied \ copied : d.id \in slipped'
  /\ slipped \subseteq slipped'
  /\ faults' \in 0..MaxFaults
  /\ UNCHANGED <<now, client, rows, made, req, edits, from, raced>>

LEMMA CrashDrops ==
  ASSUME IInv, NEW k \in Kinds, Crash(k)
  PROVE  Dropped(k)
<1>1. task' = [task EXCEPT ![k] = [due |-> {}, copied |-> {}]]
  BY DEF Crash, TaskIdle
<1>2. \A d \in task[k].copied \ {} : d.id \in slipped'
  BY DEF Crash
<1>3. faults' \in 0..MaxFaults
  BY Bounds DEF Crash, IInv, RunTyped, TypeOK
<1>4. {} \in SUBSET task[k].due /\ {} \in SUBSET task[k].copied
  OBVIOUS
<1> QED BY <1>1, <1>2, <1>3, <1>4 DEF Crash, Dropped

LEMMA RefusalDrops ==
  ASSUME IInv, NEW k \in Kinds, NEW d \in task[k].due, CopyRefused(k, d)
  PROVE  Dropped(k)
<1>1. task' = [task EXCEPT ![k] = [due |-> task[k].due \ {d}, copied |-> task[k].copied]]
  BY TaskForm DEF CopyRefused, IInv
<1>2. faults' \in 0..MaxFaults /\ slipped' = slipped
  BY DEF CopyRefused, IInv, RunTyped, TypeOK
<1>3. task[k].due \ {d} \in SUBSET task[k].due /\ task[k].copied \in SUBSET task[k].copied
  OBVIOUS
<1> QED BY <1>1, <1>2, <1>3 DEF CopyRefused, Dropped

LEMMA FailureDrops ==
  ASSUME IInv, NEW k \in Kinds, NEW d \in Held(k), Fails(k, d)
  PROVE  Dropped(k)
<1>1. faults' \in 0..MaxFaults
  BY Bounds DEF Fails, IInv, RunTyped, TypeOK
<1>2. CASE task' = [task EXCEPT ![k].due = @ \ {d}] /\ slipped' = slipped
  <2>1. task' = [task EXCEPT ![k] = [due |-> task[k].due \ {d}, copied |-> task[k].copied]]
    BY <1>2, TaskForm DEF IInv
  <2>2. task[k].due \ {d} \in SUBSET task[k].due /\ task[k].copied \in SUBSET task[k].copied
    OBVIOUS
  <2> QED BY <1>1, <1>2, <2>1, <2>2 DEF Fails, Dropped
<1>3. CASE d \in task[k].copied /\ task' = [task EXCEPT ![k].copied = {}]
           /\ slipped' = slipped \cup {d.id}
  <2>1. task' = [task EXCEPT ![k] = [due |-> task[k].due, copied |-> {}]]
    BY <1>3, TaskForm DEF IInv
  <2>2. \A e \in task[k].copied : e = d
    BY <1>3 DEF IInv, RunOK
  <2>3. task[k].due \in SUBSET task[k].due /\ {} \in SUBSET task[k].copied
    OBVIOUS
  <2>4. \A e \in task[k].copied \ {} : e.id \in slipped'
    BY <1>3, <2>2
  <2> QED BY <1>1, <1>3, <2>1, <2>3, <2>4 DEF Fails, Dropped
<1> QED BY <1>2, <1>3 DEF Fails

-----------------------------------------------------------------------------
\* What the desk, the client's deletion or the clock may do to a template: leave it
\* uncreated, remove it, create it, or change its row, keeping its date, giving it
\* one of its own or writing it back on a stale reading.
RowChange(t) ==
  \/ rows[t].state = "none" /\ rows'[t].state = "none"
  \/ rows[t].state # "none" /\ rows'[t].state = "gone"
  \/ /\ rows[t].state = "none" /\ rows'[t].state = "on"
     /\ from'[t] = rows'[t].date
  \/ /\ InTable(t) /\ rows'[t].state \in {"on", "off"}
     /\ rows'[t].date >= rows[t].date \/ t \in slipped'
     /\ \/ rows'[t].date = rows[t].date /\ from'[t] = from[t]
        \/ from'[t] = rows'[t].date
        \/ t \in raced'

Desk ==
  /\ now' >= now
  /\ slipped \subseteq slipped' /\ raced \subseteq raced'
  /\ UNCHANGED <<made, task>>
  /\ \A t \in Templates : RowChange(t)

LEMMA RowType ==
  ASSUME RunTyped, NEW t \in Templates
  PROVE  /\ rows[t].state \in {"none", "on", "off", "gone"}
         /\ rows[t].date \in Nat /\ rows[t].date \in Dates
         /\ from[t] \in Nat /\ now \in Nat
<1>1. rows[t] \in Row /\ from[t] \in Dates /\ now \in 0..MaxTime
  BY DEF RunTyped, TypeOK
<1> QED BY <1>1, Bounds DEF Row, Dates

LEMMA Unchanged ==
  ASSUME RunTyped, NEW t \in Templates, rows'[t] = rows[t], from' = from
  PROVE  RowChange(t)
BY RowType DEF RowChange, InTable

LEMMA DeskActions ==
  ASSUME IInv,
         \/ SoftDelete \/ Restore \/ Tick
         \/ \E h \in Handlers, t \in Templates : UpdateFind(h, t)
         \/ \E h \in Handlers : Abort(h)
  PROVE  Desk
<1>1. RunTyped /\ now \in Nat
  BY Bounds DEF IInv, RunTyped, TypeOK
<1>2. rows' = rows /\ from' = from /\ slipped' = slipped /\ raced' = raced /\ made' = made
      /\ task' = task /\ now' \in {now, now + 1}
  BY DEF SoftDelete, Restore, Tick, UpdateFind, Abort
<1>3. \A t \in Templates : RowChange(t)
  BY <1>1, <1>2, Unchanged
<1> QED BY <1>1, <1>2, <1>3 DEF Desk

LEMMA CreateDesk ==
  ASSUME IInv, NEW t \in Templates, Create(t)
  PROVE  Desk
<1>1. RunTyped /\ now \in Nat
  BY Bounds DEF IInv, RunTyped, TypeOK
<1>2. PICK d \in 0..MaxTime :
        /\ rows' = [rows EXCEPT ![t] = [state |-> "on", date |-> d, issued |-> FALSE]]
        /\ from' = [from EXCEPT ![t] = d]
  BY DEF Create
<1>3. RowChange(t)
  BY <1>1, <1>2 DEF RowChange, RunTyped, TypeOK, Create
<1>4. ASSUME NEW u \in Templates, u # t PROVE RowChange(u)
  <2>1. rows'[u] = rows[u] /\ from'[u] = from[u]
    BY <1>1, <1>2, <1>4 DEF RunTyped, TypeOK
  <2> QED BY <1>1, <2>1, RowType DEF RowChange, InTable
<1> QED BY <1>1, <1>3, <1>4 DEF Desk, Create

LEMMA PatchDesk ==
  ASSUME IInv, NEW t \in Templates, PatchTicket(t)
  PROVE  Desk
<1>1. RunTyped /\ now \in Nat
  BY Bounds DEF IInv, RunTyped, TypeOK
<1>2. rows[t] \in Row /\ rows' = [rows EXCEPT ![t] = [rows[t] EXCEPT !.state =
        IF rows[t].state = "on" THEN "off" ELSE "on"]] /\ from' = from
  BY <1>1 DEF PatchTicket, RunTyped, TypeOK
<1>3. RowChange(t)
  <2>1. rows'[t].state \in {"on", "off"} /\ rows'[t].date = rows[t].date
    BY <1>1, <1>2 DEF RunTyped, TypeOK, Row
  <2> QED BY <1>1, <1>2, <2>1, RowType DEF RowChange, PatchTicket
<1>4. ASSUME NEW u \in Templates, u # t PROVE RowChange(u)
  BY <1>1, <1>2, <1>4, Unchanged DEF RunTyped, TypeOK
<1> QED BY <1>1, <1>3, <1>4 DEF Desk, PatchTicket

LEMMA DeleteDesk ==
  ASSUME IInv, NEW t \in Templates, Delete(t)
  PROVE  Desk
<1>1. RunTyped /\ now \in Nat
  BY Bounds DEF IInv, RunTyped, TypeOK
<1>2. rows' = [rows EXCEPT ![t] = [NoRow EXCEPT !.state = "gone"]] /\ from' = from /\ InTable(t)
  BY DEF Delete
<1>3. RowChange(t)
  BY <1>1, <1>2 DEF RowChange, RunTyped, TypeOK, NoRow, InTable
<1>4. ASSUME NEW u \in Templates, u # t PROVE RowChange(u)
  BY <1>1, <1>2, <1>4, Unchanged DEF RunTyped, TypeOK
<1> QED BY <1>1, <1>3, <1>4 DEF Desk, Delete

LEMMA HardDeleteDesk ==
  ASSUME IInv, HardDelete
  PROVE  Desk
<1>1. RunTyped /\ now \in Nat
  BY Bounds DEF IInv, RunTyped, TypeOK
<1>2. rows' = [t \in Templates |-> IF InTable(t) THEN Cascaded(t) ELSE rows[t]] /\ from' = from
  BY DEF HardDelete
<1>3. ASSUME NEW t \in Templates PROVE RowChange(t)
  <2>1. CASE ~InTable(t)
    BY <1>1, <1>2, <2>1, Unchanged
  <2>2. CASE InTable(t) /\ Cascaded(t) = [NoRow EXCEPT !.state = "gone"]
    BY <1>2, <2>2 DEF RowChange, NoRow, InTable
  <2>3. CASE InTable(t) /\ Cascaded(t) = [rows[t] EXCEPT !.state = "off"]
    <3>1. rows[t] \in Row
      BY <1>1 DEF RunTyped, TypeOK
    <3>2. rows'[t].state = "off" /\ rows'[t].date = rows[t].date
      BY <1>2, <2>3, <3>1 DEF Row
    <3> QED BY <1>1, <1>2, <2>3, <3>2, RowType DEF RowChange
  <2> QED BY <2>1, <2>2, <2>3 DEF Cascaded
<1> QED BY <1>1, <1>3 DEF Desk, HardDelete

LEMMA UpdateDesk ==
  ASSUME IInv, NEW h \in Handlers, UpdateWrite(h)
  PROVE  Desk
<1>1. RunTyped /\ now \in Nat
  BY Bounds DEF IInv, RunTyped, TypeOK
<1>2. PICK t \in req[h].id :
        /\ rows' = IF InTable(t) THEN [rows EXCEPT ![t] = req[h].row] ELSE rows
        /\ from' = IF req[h].row.date # req[h].read.date
                   THEN [from EXCEPT ![t] = req[h].row.date] ELSE from
        /\ raced' = IF rows[t] # req[h].read \/ client = "gone" THEN raced \cup {t} ELSE raced
        /\ slipped' = IF req[h].row.date < rows[t].date THEN slipped \cup {t} ELSE slipped
        /\ UNCHANGED <<now, made, task>>
  BY DEF UpdateWrite
<1>3. t \in Templates /\ req[h].row \in Row /\ req[h].row.date \in Nat
      /\ req[h].row.state \in {"on", "off"}
  BY <1>1, Bounds DEF IInv, RunTyped, TypeOK, ReadInTable, Templates, Row, Dates
<1>4. CASE ~InTable(t)
  <2>1. rows' = rows /\ \A u \in Templates : u # t => from'[u] = from[u]
    BY <1>1, <1>2, <1>4 DEF RunTyped, TypeOK
  <2>2. \A u \in Templates : RowChange(u)
    BY <1>1, <1>4, <2>1, RowType DEF RowChange, InTable
  <2> QED BY <1>1, <1>2, <2>2 DEF Desk
<1>5. CASE InTable(t)
  <2>1. rows'[t] = req[h].row
    BY <1>1, <1>2, <1>3, <1>5 DEF RunTyped, TypeOK
  <2>2. rows'[t].date >= rows[t].date \/ t \in slipped'
    BY <1>1, <1>2, <1>3, <2>1, RowType
  <2>3. \/ rows'[t].date = rows[t].date /\ from'[t] = from[t]
        \/ from'[t] = rows'[t].date
        \/ t \in raced'
    <3>1. CASE rows[t] # req[h].read
      BY <1>2, <3>1
    <3>2. CASE rows[t] = req[h].read /\ req[h].row.date = req[h].read.date
      BY <1>2, <2>1, <3>2
    <3>3. CASE req[h].row.date # req[h].read.date
      BY <1>1, <1>2, <1>3, <2>1, <3>3 DEF RunTyped, TypeOK
    <3> QED BY <3>1, <3>2, <3>3
  <2>4. RowChange(t)
    BY <1>3, <1>5, <2>1, <2>2, <2>3 DEF RowChange
  <2>5. ASSUME NEW u \in Templates, u # t PROVE RowChange(u)
    <3>1. rows'[u] = rows[u] /\ from'[u] = from[u]
      BY <1>1, <1>2, <2>5 DEF RunTyped, TypeOK
    <3> QED BY <1>1, <3>1, RowType DEF RowChange, InTable
  <2> QED BY <1>1, <1>2, <2>4, <2>5 DEF Desk
<1> QED BY <1>4, <1>5

\* Every step lists, copies or moves on a template, loses some of a run's, or is the
\* desk's, the client's or the clock's.
LEMMA Steps ==
  ASSUME IInv, Next
  PROVE  \/ \E k \in Kinds : ListDue(k)
         \/ \E k \in Kinds : \E d \in task[k].due : Copy(k, d)
         \/ \E k \in Kinds : \E d \in task[k].copied : Advance(k, d)
         \/ \E k \in Kinds : Dropped(k)
         \/ Desk
BY CrashDrops, RefusalDrops, FailureDrops, DeskActions, CreateDesk, PatchDesk, DeleteDesk,
   HardDeleteDesk, UpdateDesk DEF Next, TaskStep, Held

-----------------------------------------------------------------------------
\* Types survive every step.
LEMMA DateKeeps ==
  ASSUME IInv, NEW k \in Kinds, NEW d \in Held(k)
  PROVE  /\ d.id \in Templates /\ d.date \in Nat /\ d.date \in Dates /\ d.date <= now
         /\ NextDate(d) \in Dates /\ NextDate(d) > d.date
<1>1. d \in Due /\ d.date <= now
  BY DEF IInv, RunOK, Held, RunTyped, TypeOK
<1>2. now \in Nat /\ now <= MaxTime /\ d.id \in Templates /\ d.date \in Nat
  BY <1>1, Bounds DEF IInv, RunTyped, TypeOK, Due, Dates
<1> QED BY <1>1, <1>2, Bounds DEF NextDate, Dates

LEMMA RowForms ==
  ASSUME NEW r \in Row
  PROVE  /\ \A s \in {"none", "on", "off", "gone"} :
              [r EXCEPT !.state = s] \in Row /\ [r EXCEPT !.state = s].state = s
         /\ \A d \in Dates : [r EXCEPT !.date = d] \in Row /\ [r EXCEPT !.date = d].state = r.state
         /\ [r EXCEPT !.issued = TRUE] \in Row /\ [r EXCEPT !.issued = TRUE].state = r.state
         /\ [NoRow EXCEPT !.state = "gone"] \in Row
<1>1. 0 \in Dates /\ FALSE \in BOOLEAN /\ TRUE \in BOOLEAN
  BY Bounds DEF Dates
<1>2. NoRow \in Row
  BY <1>1 DEF NoRow, Row
<1>3. ASSUME NEW q \in Row, NEW s \in {"none", "on", "off", "gone"}
      PROVE  [q EXCEPT !.state = s] \in Row /\ [q EXCEPT !.state = s].state = s
  BY DEF Row
<1>4. ASSUME NEW d \in Dates
      PROVE  [r EXCEPT !.date = d] \in Row /\ [r EXCEPT !.date = d].state = r.state
  BY DEF Row
<1>5. [r EXCEPT !.issued = TRUE] \in Row /\ [r EXCEPT !.issued = TRUE].state = r.state
  BY <1>1 DEF Row
<1>6. "gone" \in {"none", "on", "off", "gone"}
  OBVIOUS
<1> QED BY <1>2, <1>3, <1>4, <1>5, <1>6

LEMMA EditedType ==
  ASSUME NEW r \in Row, NEW e \in Edited(r), r.state \in {"on", "off"}
  PROVE  e \in Row /\ e.state \in {"on", "off"}
<1>1. \A d \in 0..MaxTime : d \in Dates
  BY Bounds DEF Dates
<1>2. \/ e = r \/ e = [r EXCEPT !.state = "off"] \/ e = [r EXCEPT !.state = "on"]
      \/ e = [r EXCEPT !.issued = TRUE] \/ \E d \in 0..MaxTime : e = [r EXCEPT !.date = d]
  BY DEF Edited
<1>3. /\ [r EXCEPT !.state = "off"] \in Row /\ [r EXCEPT !.state = "off"].state = "off"
      /\ [r EXCEPT !.state = "on"] \in Row /\ [r EXCEPT !.state = "on"].state = "on"
  BY RowForms
<1>4. \A d \in 0..MaxTime : [r EXCEPT !.date = d] \in Row /\ [r EXCEPT !.date = d].state = r.state
  BY <1>1, RowForms
<1>5. [r EXCEPT !.issued = TRUE] \in Row /\ [r EXCEPT !.issued = TRUE].state = r.state
  BY RowForms
<1> QED BY <1>2, <1>3, <1>4, <1>5

LEMMA RowsTyped ==
  ASSUME IInv, Next
  PROVE  rows' \in [Templates -> Row] /\ from' \in [Templates -> Dates]
<1>t. rows \in [Templates -> Row] /\ from \in [Templates -> Dates] /\ RunTyped
      /\ \A d \in 0..MaxTime : d \in Dates
  BY Bounds DEF IInv, RunTyped, TypeOK, Dates
<1>1. ASSUME NEW k \in Kinds, NEW d \in task[k].copied, Advance(k, d)
      PROVE  rows' \in [Templates -> Row] /\ from' = from
  <2>1. d \in Held(k)
    BY DEF Held
  <2>2. rows[d.id] \in Row /\ [rows[d.id] EXCEPT !.date = NextDate(d)] \in Row
    BY <1>t, <2>1, DateKeeps DEF Row
  <2> QED BY <1>t, <1>1, <2>2 DEF Advance, Moved
<1>2. ASSUME NEW t \in Templates, Create(t)
      PROVE  rows' \in [Templates -> Row] /\ from' \in [Templates -> Dates]
  BY <1>t, <1>2 DEF Create, Row
<1>3. ASSUME NEW t \in Templates, PatchTicket(t) PROVE rows' \in [Templates -> Row] /\ from' = from
  <2>1. rows' = [rows EXCEPT ![t] = [rows[t] EXCEPT !.state =
           IF rows[t].state = "on" THEN "off" ELSE "on"]]
    BY <1>3 DEF PatchTicket
  <2>2. rows[t] \in Row
    BY <1>t
  <2>3. [rows[t] EXCEPT !.state = IF rows[t].state = "on" THEN "off" ELSE "on"] \in Row
    BY <2>2 DEF Row
  <2> QED BY <1>t, <1>3, <2>1, <2>3 DEF PatchTicket
<1>4. ASSUME NEW t \in Templates, Delete(t) PROVE rows' \in [Templates -> Row] /\ from' = from
  BY <1>t, <1>4, RowForms DEF Delete, Dates
<1>5. CASE HardDelete
  <2>1. ASSUME NEW t \in Templates PROVE Cascaded(t) \in Row
    <3>1. rows[t] \in Row
      BY <1>t
    <3>2. [rows[t] EXCEPT !.state = "off"] \in Row /\ [NoRow EXCEPT !.state = "gone"] \in Row
      BY <3>1, RowForms
    <3> QED BY <3>2 DEF Cascaded
  <2> QED BY <1>t, <1>5, <2>1 DEF HardDelete
<1>6. ASSUME NEW h \in Handlers, UpdateWrite(h)
      PROVE  rows' \in [Templates -> Row] /\ from' \in [Templates -> Dates]
  <2>1. PICK t \in req[h].id :
          /\ rows' = IF InTable(t) THEN [rows EXCEPT ![t] = req[h].row] ELSE rows
          /\ from' = IF req[h].row.date # req[h].read.date
                     THEN [from EXCEPT ![t] = req[h].row.date] ELSE from
    BY <1>6 DEF UpdateWrite
  <2>2. t \in Templates /\ req[h].row \in Row /\ req[h].row.date \in Dates
    BY DEF IInv, RunTyped, TypeOK, Templates, Row
  <2> QED BY <1>t, <2>1, <2>2
<1>7. CASE \/ \E k \in Kinds : ListDue(k) \/ Crash(k)
           \/ \E k \in Kinds, d \in Due : Copy(k, d) \/ CopyRefused(k, d) \/ Fails(k, d)
           \/ \E h \in Handlers, t \in Templates : UpdateFind(h, t)
           \/ \E h \in Handlers : Abort(h)
           \/ SoftDelete \/ Restore \/ Tick
  <2>1. rows' = rows /\ from' = from
    BY <1>7 DEF ListDue, Crash, Copy, CopyRefused, Fails, UpdateFind, Abort, SoftDelete, Restore, Tick
  <2> QED BY <1>t, <2>1
<1>8. \A k \in Kinds : task[k].due \subseteq Due /\ task[k].copied \subseteq Due
  BY DEF IInv, RunTyped, TypeOK
<1> QED BY <1>t, <1>1, <1>2, <1>3, <1>4, <1>5, <1>6, <1>7, <1>8 DEF Next, TaskStep

LEMMA TaskTyped ==
  ASSUME IInv, Next
  PROVE  /\ task' \in [Kinds -> [due : SUBSET Due, copied : SUBSET Due]]
         /\ made' \in [Templates -> [Dates -> Nat]]
<1>t. /\ task \in [Kinds -> [due : SUBSET Due, copied : SUBSET Due]]
      /\ made \in [Templates -> [Dates -> Nat]] /\ RunTyped
  BY DEF IInv, RunTyped, TypeOK
<1>1. ASSUME NEW k \in Kinds, ListDue(k)
      PROVE  task' \in [Kinds -> [due : SUBSET Due, copied : SUBSET Due]] /\ made' = made
  <2> DEFINE list == {[id |-> t, date |-> rows[t].date] : t \in {s \in Of(k) : IsDue(s)}}
  <2>1. task' = [task EXCEPT ![k] = [due |-> list, copied |-> task[k].copied]]
    BY <1>1, <1>t, TaskForm DEF ListDue
  <2>2. list \in SUBSET Due
    <3> SUFFICES ASSUME NEW t \in Of(k) PROVE [id |-> t, date |-> rows[t].date] \in Due
      OBVIOUS
    <3>1. t \in Templates
      BY DEF Of, Templates
    <3> QED BY <1>t, <3>1, RowType DEF Due
  <2>3. task[k].copied \in SUBSET Due
    BY <1>t
  <2> HIDE DEF list
  <2> QED BY <1>t, <1>1, <2>1, <2>2, <2>3 DEF ListDue
<1>2. ASSUME NEW k \in Kinds, NEW d \in task[k].due, Copy(k, d)
      PROVE  /\ task' \in [Kinds -> [due : SUBSET Due, copied : SUBSET Due]]
             /\ made' \in [Templates -> [Dates -> Nat]]
  <2>1. d \in Held(k) /\ d \in Due
    BY <1>t DEF Held
  <2>2. d.id \in Templates /\ d.date \in Dates
    BY <2>1 DEF Due
  <2>3. task' = [task EXCEPT ![k] = [due |-> task[k].due \ {d}, copied |-> {d}]]
        /\ made' = [made EXCEPT ![d.id] = [made[d.id] EXCEPT ![d.date] = @ + 1]]
    BY <1>2 DEF Copy
  <2>4. [made[d.id] EXCEPT ![d.date] = @ + 1] \in [Dates -> Nat]
    BY <1>t, <2>2
  <2>5. task[k].due \ {d} \in SUBSET Due
    BY <1>t
  <2> QED BY <1>t, <2>1, <2>2, <2>3, <2>4, <2>5
<1>3. ASSUME NEW k \in Kinds, NEW d \in task[k].copied, Advance(k, d)
      PROVE  task' \in [Kinds -> [due : SUBSET Due, copied : SUBSET Due]] /\ made' = made
  <2>1. task' = [task EXCEPT ![k] = [due |-> task[k].due, copied |-> {}]]
    BY <1>t, <1>3, TaskForm DEF Advance
  <2>2. task[k].due \in SUBSET Due
    BY <1>t
  <2> QED BY <1>t, <1>3, <2>1, <2>2 DEF Advance
<1>4. ASSUME NEW k \in Kinds, Dropped(k)
      PROVE  task' \in [Kinds -> [due : SUBSET Due, copied : SUBSET Due]] /\ made' = made
  <2>1. task[k].due \in SUBSET Due /\ task[k].copied \in SUBSET Due
    BY <1>t
  <2> QED BY <1>t, <1>4, <2>1 DEF Dropped
<1>5. CASE Desk
  BY <1>t, <1>5 DEF Desk
<1> QED BY <1>t, <1>1, <1>2, <1>3, <1>4, <1>5, Steps

LEMMA ReqTyped ==
  ASSUME IInv, Next
  PROVE  /\ req' \in [Handlers -> [id : SUBSET Invoices, row : Row, read : Row]]
         /\ \A h \in Handlers : ReadInTable(h)'
<1>t. /\ req \in [Handlers -> [id : SUBSET Invoices, row : Row, read : Row]]
      /\ \A h \in Handlers : ReadInTable(h)
      /\ rows \in [Templates -> Row]
  BY DEF IInv, RunTyped, TypeOK
<1>1. ASSUME NEW h \in Handlers, req' = [req EXCEPT ![h] = ReqIdle]
      PROVE  /\ req' \in [Handlers -> [id : SUBSET Invoices, row : Row, read : Row]]
             /\ \A i \in Handlers : ReadInTable(i)'
  <2>1. ReqIdle \in [id : SUBSET Invoices, row : Row, read : Row] /\ ReqIdle.id = {}
    BY Bounds DEF ReqIdle, NoRow, Row, Dates
  <2> QED BY <1>t, <1>1, <2>1 DEF ReadInTable
<1>2. ASSUME NEW h \in Handlers, NEW t \in Templates, UpdateFind(h, t)
      PROVE  /\ req' \in [Handlers -> [id : SUBSET Invoices, row : Row, read : Row]]
             /\ \A i \in Handlers : ReadInTable(i)'
  <2>1. PICK r \in Edited(rows[t]) : req' = [req EXCEPT ![h] = [id |-> {t}, row |-> r, read |-> rows[t]]]
    BY <1>2 DEF UpdateFind
  <2>2. rows[t] \in Row /\ rows[t].state \in {"on", "off"} /\ {t} \in SUBSET Invoices
    BY <1>t, <1>2 DEF UpdateFind, InTable
  <2>3. r \in Row /\ r.state \in {"on", "off"}
    BY <2>2, EditedType
  <2> DEFINE new == [id |-> {t}, row |-> r, read |-> rows[t]]
  <2>4. new \in [id : SUBSET Invoices, row : Row, read : Row] /\ new.row = r
    BY <2>2, <2>3
  <2> HIDE DEF new
  <2> QED BY <1>t, <2>1, <2>3, <2>4 DEF ReadInTable, new
<1>3. CASE req' = req
  BY <1>t, <1>3 DEF ReadInTable
<1>4. \/ \E h \in Handlers : req' = [req EXCEPT ![h] = ReqIdle]
      \/ \E h \in Handlers, t \in Templates : UpdateFind(h, t)
      \/ req' = req
  BY DEF Next, TaskStep, ListDue, Copy, CopyRefused, Advance, Fails, Crash, Create, PatchTicket,
         Delete, UpdateWrite, Abort, SoftDelete, Restore, HardDelete, Tick
<1> QED BY <1>1, <1>2, <1>3, <1>4

LEMMA TypeStep == ASSUME IInv, Next PROVE RunTyped'
<1>t. TypeOK
  BY DEF IInv, RunTyped
<1>1. /\ rows' \in [Templates -> Row] /\ from' \in [Templates -> Dates]
      /\ task' \in [Kinds -> [due : SUBSET Due, copied : SUBSET Due]]
      /\ made' \in [Templates -> [Dates -> Nat]]
      /\ req' \in [Handlers -> [id : SUBSET Invoices, row : Row, read : Row]]
  BY RowsTyped, TaskTyped, ReqTyped
<1>2. now' \in 0..MaxTime
  <2>1. now' \in {now, now + 1} /\ (now' = now \/ now < MaxTime)
    BY DEF Next, TaskStep, ListDue, Copy, CopyRefused, Advance, Fails, Crash, Create, PatchTicket,
           Delete, UpdateFind, UpdateWrite, Abort, SoftDelete, Restore, HardDelete, Tick
  <2> QED BY <1>t, <2>1, Bounds DEF TypeOK
<1>3. client' \in {"live", "hidden", "gone"}
  BY ZenonT(30), <1>t DEF TypeOK, Next, TaskStep, ListDue, Copy, CopyRefused, Advance, Fails, Crash, Create,
     PatchTicket, Delete, UpdateFind, UpdateWrite, Abort, SoftDelete, Restore, HardDelete, Tick
<1>4. edits' \in 0..MaxEdits
  <2>1. edits' = edits \/ Edit
    BY DEF Next, TaskStep, ListDue, Copy, CopyRefused, Advance, Fails, Crash, Create, PatchTicket,
           Delete, UpdateFind, UpdateWrite, Abort, SoftDelete, Restore, HardDelete, Tick
  <2> QED BY <1>t, <2>1, Bounds DEF TypeOK, Edit
<1>5. faults' \in 0..MaxFaults
  <2>1. faults' = faults \/ (faults < MaxFaults /\ faults' = faults + 1)
    BY DEF Next, TaskStep, ListDue, Copy, CopyRefused, Advance, Fails, Crash, Create, PatchTicket,
           Delete, UpdateFind, UpdateWrite, Abort, SoftDelete, Restore, HardDelete, Tick
  <2> QED BY <1>t, <2>1, Bounds DEF TypeOK
<1>6. slipped' \subseteq Templates /\ raced' \subseteq Templates
  <2>h. \A k \in Kinds : \A d \in task[k].due \cup task[k].copied : d.id \in Templates
    BY DateKeeps DEF Held
  <2>r. \A h \in Handlers : req[h].id \subseteq Templates
    BY <1>t DEF TypeOK, Templates
  <2>1. slipped \subseteq Templates /\ raced \subseteq Templates
    BY <1>t DEF TypeOK
  <2>2. ASSUME NEW k \in Kinds, NEW d \in task[k].copied, Advance(k, d)
        PROVE  slipped' \subseteq Templates /\ raced' \subseteq Templates
    <3>1. d.id \in Templates
      BY <2>h
    <3> QED BY <2>1, <2>2, <3>1 DEF Advance
  <2>3. ASSUME NEW k \in Kinds, NEW d \in task[k].due \cup task[k].copied, Fails(k, d)
        PROVE  slipped' \subseteq Templates /\ raced' \subseteq Templates
    <3>1. d.id \in Templates
      BY <2>h
    <3> QED BY <2>1, <2>3, <3>1 DEF Fails
  <2>4. ASSUME NEW k \in Kinds, Crash(k)
        PROVE  slipped' \subseteq Templates /\ raced' \subseteq Templates
    BY <2>1, <2>4, <2>h DEF Crash
  <2>5. ASSUME NEW h \in Handlers, UpdateWrite(h)
        PROVE  slipped' \subseteq Templates /\ raced' \subseteq Templates
    <3>1. PICK t \in req[h].id :
            /\ raced' = IF rows[t] # req[h].read \/ client = "gone" THEN raced \cup {t} ELSE raced
            /\ slipped' = IF req[h].row.date < rows[t].date THEN slipped \cup {t} ELSE slipped
      BY <2>5 DEF UpdateWrite
    <3>2. t \in Templates
      BY <2>r
    <3> QED BY <2>1, <3>1, <3>2
  <2>6. \/ \E k \in Kinds : Crash(k)
        \/ \E k \in Kinds : \E d \in task[k].copied : Advance(k, d)
        \/ \E k \in Kinds : \E d \in task[k].due \cup task[k].copied : Fails(k, d)
        \/ \E h \in Handlers : UpdateWrite(h)
        \/ slipped' = slipped /\ raced' = raced
    BY DEF Next, TaskStep, ListDue, Copy, CopyRefused, Create, PatchTicket,
           Delete, UpdateFind, Abort, SoftDelete, Restore, HardDelete, Tick
  <2> QED BY <2>1, <2>2, <2>3, <2>4, <2>5, <2>6
<1>7. /\ \A k \in Kinds : task'[k].due \subseteq Due /\ task'[k].copied \subseteq Due
      /\ \A h \in Handlers : req'[h].id \subseteq Invoices /\ {req'[h].row, req'[h].read} \subseteq Row
  BY <1>1
<1> QED BY <1>1, <1>2, <1>3, <1>4, <1>5, <1>6, <1>7 DEF RunTyped, TypeOK

-----------------------------------------------------------------------------
\* What each kind of step does to the two lists of each task, to the copies and the rows.
LEMMA ListStep ==
  ASSUME IInv, NEW k \in Kinds, ListDue(k)
  PROVE  /\ task'[k].copied = {} /\ task[k].copied = {}
         /\ \A d \in task'[k].due : /\ d.id \in Of(k) /\ d.id \in Templates
                                    /\ rows[d.id].state = "on" /\ rows[d.id].date <= now
                                    /\ d.date = rows[d.id].date
                                    /\ d = [id |-> d.id, date |-> rows[d.id].date]
         /\ \A j \in Kinds : j # k => task'[j] = task[j]
         /\ UNCHANGED <<now, client, rows, made, from, slipped, raced>>
<1> DEFINE list == {[id |-> t, date |-> rows[t].date] : t \in {s \in Of(k) : IsDue(s)}}
<1>1. task' = [task EXCEPT ![k] = [due |-> list, copied |-> task[k].copied]]
  BY TaskForm DEF ListDue, IInv
<1>2. task[k] = TaskIdle
  BY DEF ListDue, Ticks
<1>3. task'[k] = [due |-> list, copied |-> {}] /\ \A j \in Kinds : j # k => task'[j] = task[j]
  BY <1>1, <1>2 DEF IInv, RunTyped, TaskIdle
<1>4. \A t \in Of(k) : t \in Templates
  BY DEF Of, Templates
<1>5. \A t \in Of(k) : IsDue(t) => rows[t].state = "on" /\ rows[t].date <= now
  BY DEF IsDue
<1>6. \A d \in list : /\ d.id \in Of(k) /\ d.id \in Templates
                      /\ rows[d.id].state = "on" /\ rows[d.id].date <= now
                      /\ d.date = rows[d.id].date
                      /\ d = [id |-> d.id, date |-> rows[d.id].date]
  BY <1>4, <1>5
<1> HIDE DEF list
<1> QED BY <1>2, <1>3, <1>6 DEF ListDue, TaskIdle

LEMMA CopyStep ==
  ASSUME IInv, NEW k \in Kinds, NEW d \in task[k].due, Copy(k, d)
  PROVE  /\ task[k].copied = {} /\ task'[k].copied = {d} /\ task'[k].due = task[k].due \ {d}
         /\ \A j \in Kinds : j # k => task'[j] = task[j]
         /\ \A t \in Templates, x \in Dates :
              made'[t][x] = IF t = d.id /\ x = d.date THEN made[t][x] + 1 ELSE made[t][x]
         /\ UNCHANGED <<now, client, rows, from, slipped, raced>>
<1>1. d.id \in Templates /\ d.date \in Dates
  BY DateKeeps DEF Held
<1>2. task' = [task EXCEPT ![k] = [due |-> task[k].due \ {d}, copied |-> {d}]]
      /\ made' = [made EXCEPT ![d.id] = [made[d.id] EXCEPT ![d.date] = @ + 1]]
  BY DEF Copy
<1>3. task \in [Kinds -> [due : SUBSET Due, copied : SUBSET Due]]
      /\ made \in [Templates -> [Dates -> Nat]]
  BY DEF IInv, RunTyped, TypeOK
<1>4. \A t \in Templates, x \in Dates :
        made'[t][x] = IF t = d.id /\ x = d.date THEN made[t][x] + 1 ELSE made[t][x]
  BY <1>1, <1>2, <1>3
<1>5. task'[k] = [due |-> task[k].due \ {d}, copied |-> {d}]
      /\ \A j \in Kinds : j # k => task'[j] = task[j]
  BY <1>2, <1>3
<1> QED BY <1>4, <1>5 DEF Copy

LEMMA AdvanceStep ==
  ASSUME IInv, NEW k \in Kinds, NEW d \in task[k].copied, Advance(k, d)
  PROVE  /\ task[k].copied = {d} /\ task'[k].copied = {} /\ task'[k].due = task[k].due
         /\ \A j \in Kinds : j # k => task'[j] = task[j]
         /\ d.id \in Templates /\ d.date \in Nat /\ NextDate(d) \in Nat /\ d.date < NextDate(d)
         /\ \A t \in Templates : t # d.id => rows'[t] = rows[t]
         /\ rows'[d.id].state = rows[d.id].state /\ rows'[d.id].issued = rows[d.id].issued
         /\ InTable(d.id) => rows'[d.id].date = NextDate(d)
         /\ InTable(d.id) /\ rows[d.id].date # d.date => d.id \in raced'
         /\ InTable(d.id) /\ rows[d.id].date > NextDate(d) => d.id \in slipped'
         /\ slipped \subseteq slipped' /\ raced \subseteq raced'
         /\ UNCHANGED <<now, client, made, from>>
<1>1. /\ d.id \in Templates /\ d.date \in Nat /\ NextDate(d) \in Dates /\ d.date < NextDate(d)
      /\ NextDate(d) \in Nat
  BY DateKeeps, Bounds DEF Held, Dates
<1>2. task' = [task EXCEPT ![k] = [due |-> task[k].due, copied |-> {}]]
  BY TaskForm DEF Advance, IInv
<1>3. task'[k] = [due |-> task[k].due, copied |-> {}] /\ \A j \in Kinds : j # k => task'[j] = task[j]
  BY <1>2 DEF IInv, RunTyped
<1>4. task[k].copied = {d}
  BY DEF IInv, RunOK
<1>5. rows \in [Templates -> Row]
  BY DEF IInv, RunTyped, TypeOK
<1>6. /\ \A t \in Templates : t # d.id => rows'[t] = rows[t]
      /\ rows'[d.id].state = rows[d.id].state /\ rows'[d.id].issued = rows[d.id].issued
      /\ InTable(d.id) => rows'[d.id].date = NextDate(d)
  <2>1. CASE InTable(d.id)
    <3>1. rows' = [rows EXCEPT ![d.id] = [rows[d.id] EXCEPT !.date = NextDate(d)]]
      BY <2>1 DEF Advance, Moved
    <3>2. rows[d.id] \in Row
      BY <1>1, <1>5
    <3> QED BY <1>1, <1>5, <3>1, <3>2 DEF Row
  <2>2. CASE ~InTable(d.id)
    BY <2>2 DEF Advance, Moved
  <2> QED BY <2>1, <2>2
<1> QED BY <1>1, <1>3, <1>4, <1>6 DEF Advance

LEMMA DropStep ==
  ASSUME IInv, NEW k \in Kinds, Dropped(k)
  PROVE  /\ task'[k].due \subseteq task[k].due /\ task'[k].copied \subseteq task[k].copied
         /\ \A d \in task[k].copied : d \in task'[k].copied \/ d.id \in slipped'
         /\ \A j \in Kinds : j # k => task'[j] = task[j]
         /\ slipped \subseteq slipped'
         /\ UNCHANGED <<now, client, rows, made, from, raced>>
<1>1. PICK due \in SUBSET task[k].due, copied \in SUBSET task[k].copied :
        /\ task' = [task EXCEPT ![k] = [due |-> due, copied |-> copied]]
        /\ \A d \in task[k].copied \ copied : d.id \in slipped'
  BY DEF Dropped
<1>2. task'[k] = [due |-> due, copied |-> copied] /\ \A j \in Kinds : j # k => task'[j] = task[j]
  BY <1>1 DEF IInv, RunTyped
<1> QED BY <1>1, <1>2 DEF Dropped

-----------------------------------------------------------------------------
\* The lists of the runs stay in order.
LEMMA RunStep == ASSUME IInv, Next, NEW k \in Kinds PROVE RunOK(k)'
<1>t. RunOK(k) /\ RunTyped
  BY DEF IInv
<1>m. /\ \A t \in Templates : rows[t].state \in {"none", "on", "off", "gone"}
      /\ \A t \in Templates, x \in Dates : made[t][x] \in Nat
      /\ now \in Nat /\ \A d \in Held(k) : d.id \in Templates /\ d.date \in Dates /\ d.date \in Nat
  BY <1>t, RowType, DateKeeps, Bounds DEF RunTyped, TypeOK
<1>1. ASSUME NEW j \in Kinds, ListDue(j) PROVE RunOK(k)'
  BY <1>1, <1>t, <1>m, ListStep DEF RunOK, Held
<1>2. ASSUME NEW j \in Kinds, NEW d \in task[j].due, Copy(j, d) PROVE RunOK(k)'
  <2>1. CASE j = k
    BY <1>2, <1>t, <1>m, <2>1, CopyStep DEF RunOK, Held
  <2>2. CASE j # k
    BY <1>2, <1>t, <1>m, <2>2, CopyStep DEF RunOK, Held
  <2> QED BY <2>1, <2>2
<1>3. ASSUME NEW j \in Kinds, NEW d \in task[j].copied, Advance(j, d) PROVE RunOK(k)'
  <2>1. \A e \in Held(k) : rows'[e.id].state = rows[e.id].state
    BY <1>3, <1>m, AdvanceStep
  <2>2. task'[k].due = task[k].due /\ task'[k].copied \subseteq task[k].copied
        /\ now' = now /\ made' = made
    BY <1>3, AdvanceStep
  <2> QED BY <1>t, <2>1, <2>2 DEF RunOK, Held
<1>4. ASSUME NEW j \in Kinds, Dropped(j) PROVE RunOK(k)'
  <2>1. task'[k].due \subseteq task[k].due /\ task'[k].copied \subseteq task[k].copied
        /\ UNCHANGED <<now, made, rows>>
    BY <1>4, DropStep
  <2> QED BY <1>t, <2>1 DEF RunOK, Held
<1>5. CASE Desk
  <2>1. \A t \in Templates : rows[t].state # "none" => rows'[t].state # "none"
    BY <1>5 DEF Desk, RowChange, InTable
  <2>2. now' >= now /\ now' \in Nat
    BY <1>5, TypeStep, Bounds DEF Desk, RunTyped, TypeOK
  <2>3. \A d \in Held(k) : d.date <= now'
    BY <1>t, <1>m, <2>2 DEF RunOK
  <2>4. task' = task /\ made' = made
    BY <1>5 DEF Desk
  <2> QED BY <1>t, <1>m, <2>1, <2>3, <2>4 DEF RunOK, Held
<1> QED BY <1>1, <1>2, <1>3, <1>4, <1>5, Steps

\* A template that does not exist yet keeps having no copies.
LEMMA UnmadeStep == ASSUME IInv, Next, NEW t \in Templates PROVE Unmade(t)'
<1>t. Unmade(t)
  BY DEF IInv
<1>1. ASSUME NEW j \in Kinds, ListDue(j) PROVE Unmade(t)'
  BY <1>1, <1>t, ListStep DEF Unmade
<1>2. ASSUME NEW j \in Kinds, NEW d \in task[j].due, Copy(j, d) PROVE Unmade(t)'
  <2>1. rows[d.id].state # "none"
    BY DEF IInv, RunOK, Held
  <2> QED BY <1>2, <1>t, <2>1, CopyStep DEF Unmade
<1>3. ASSUME NEW j \in Kinds, NEW d \in task[j].copied, Advance(j, d) PROVE Unmade(t)'
  <2>1. rows'[t].state = rows[t].state /\ made' = made
    BY <1>3, AdvanceStep
  <2> QED BY <1>t, <2>1 DEF Unmade
<1>4. ASSUME NEW j \in Kinds, Dropped(j) PROVE Unmade(t)'
  BY <1>4, <1>t, DropStep DEF Unmade
<1>5. CASE Desk
  BY <1>5, <1>t DEF Desk, RowChange, Unmade, InTable
<1> QED BY <1>1, <1>2, <1>3, <1>4, <1>5, Steps

\* No date is copied twice while no copy loses its move: the list of a run holds dates
\* not copied yet, and a date copied is behind the template's or about to be.
LEMMA OnceStep == ASSUME IInv, Next, NEW t \in Templates \ slipped' PROVE CopiedOnce(t)'
<1>m. /\ rows[t].date \in Nat /\ rows[t].date \in Dates /\ \A x \in Dates : made[t][x] \in Nat
      /\ \A x \in Dates : x \in Nat
      /\ rows[t].state \in {"none", "on", "off", "gone"}
  BY RowType, Bounds DEF IInv, RunTyped, TypeOK, Dates
<1>1. ASSUME NEW k \in Kinds, ListDue(k) PROVE CopiedOnce(t)'
  <2>1. CopiedOnce(t) /\ made' = made /\ rows' = rows
    BY <1>1, ListStep DEF IInv
  <2>2. ASSUME NEW j \in Kinds, NEW d \in task'[j].due, d.id = t PROVE made[t][d.date] = 0
    <3>1. CASE j # k
      BY <1>1, <2>1, <2>2, <3>1, ListStep DEF CopiedOnce
    <3>2. CASE j = k
      <4>1. InTable(t) /\ d.date = rows[t].date /\ d.id \in Of(k)
        BY <1>1, <2>2, <3>2, ListStep DEF InTable
      <4>2. \A i \in Kinds : \A e \in task[i].copied : e.id # t
        <5> SUFFICES ASSUME NEW i \in Kinds, NEW e \in task[i].copied, e.id = t PROVE FALSE
          OBVIOUS
        <5>1. e.id \in Of(i)
          BY DEF IInv, RunOK, Held
        <5>2. i = k
          BY <2>2, <4>1, <5>1, Bounds DEF Of, Kinds
        <5> QED BY <1>1, <5>2, ListStep
      <4>3. \A x \in Dates : made[t][x] >= 1 => x < rows[t].date
        BY <2>1, <4>1, <4>2 DEF CopiedOnce
      <4> QED BY <1>m, <4>1, <4>3
    <3> QED BY <3>1, <3>2
  <2>3. \A j \in Kinds : task'[j].copied = task[j].copied
    BY <1>1, ListStep
  <2> QED BY <2>1, <2>2, <2>3 DEF CopiedOnce, InTable
<1>2. ASSUME NEW k \in Kinds, NEW d \in task[k].due, Copy(k, d) PROVE CopiedOnce(t)'
  <2>1. CopiedOnce(t) /\ rows' = rows /\ d.id \in Templates /\ d.date \in Dates
    BY <1>2, CopyStep, DateKeeps DEF IInv, Held
  <2>2. \A x \in Dates : made'[t][x] = IF t = d.id /\ x = d.date THEN made[t][x] + 1 ELSE made[t][x]
    BY <1>2, CopyStep
  <2>3. \A x \in Dates : made'[t][x] <= 1
    BY <1>m, <2>1, <2>2 DEF CopiedOnce
  <2>4. ASSUME NEW j \in Kinds, NEW e \in task'[j].due, e.id = t PROVE made'[t][e.date] = 0
    <3>1. e \in task[j].due /\ made[t][e.date] = 0
      BY <1>2, <2>1, <2>4, CopyStep DEF CopiedOnce
    <3>2. ~(e.id = d.id /\ e.date = d.date)
      <4> SUFFICES ASSUME e.id = d.id PROVE FALSE
        OBVIOUS
      <4>1. j = k
        <5>1. e.id \in Of(j) /\ d.id \in Of(k)
          BY <3>1 DEF IInv, RunOK, Held
        <5> QED BY <5>1, Bounds DEF Of, Kinds
      <4>2. e = d
        BY <3>1, <4>1 DEF IInv, RunOK, Held
      <4> QED BY <1>2, <2>4, <4>1, <4>2, CopyStep
    <3>3. e.date \in Dates
      BY <3>1, DateKeeps DEF Held
    <3> QED BY <2>2, <2>4, <3>1, <3>2, <3>3
  <2>5. ASSUME InTable(t), NEW x \in Dates, made'[t][x] >= 1
        PROVE  \/ x < rows[t].date
               \/ \E j \in Kinds : \E e \in task'[j].copied : e.id = t /\ e.date = x
    <3>1. CASE t = d.id /\ x = d.date
      BY <1>2, <3>1, CopyStep
    <3>2. CASE ~(t = d.id /\ x = d.date)
      <4>1. made[t][x] >= 1
        BY <2>2, <2>5, <3>2
      <4>2. ASSUME NEW j \in Kinds, NEW e \in task[j].copied PROVE e \in task'[j].copied
        BY <1>2, CopyStep
      <4> QED BY <2>1, <2>5, <4>1, <4>2 DEF CopiedOnce
    <3> QED BY <3>1, <3>2
  <2> QED BY <2>1, <2>3, <2>4, <2>5 DEF CopiedOnce, InTable
<1>3. ASSUME NEW k \in Kinds, NEW d \in task[k].copied, Advance(k, d) PROVE CopiedOnce(t)'
  <2>1. CopiedOnce(t) /\ made' = made /\ \A j \in Kinds : task'[j].due = task[j].due
    BY <1>3, AdvanceStep DEF IInv
  <2>2. ASSUME InTable(t)', NEW x \in Dates, made[t][x] >= 1
        PROVE  \/ x < rows'[t].date
               \/ \E j \in Kinds : \E e \in task'[j].copied : e.id = t /\ e.date = x
    <3>1. InTable(t)
      BY <1>3, <2>2, AdvanceStep DEF InTable
    <3>2. CASE t = d.id
      <4>1. rows'[t].date = NextDate(d) /\ NextDate(d) \in Nat /\ d.date < NextDate(d) /\ d.date \in Nat
            /\ ~(rows[t].date > NextDate(d))
        BY <1>3, <3>1, <3>2, AdvanceStep
      <4>2. CASE x < rows[t].date
        BY <1>m, <4>1, <4>2
      <4>3. ASSUME NEW j \in Kinds, NEW e \in task[j].copied, e.id = t, e.date = x
            PROVE  x < rows'[t].date
        <5>1. e.id \in Of(j) /\ d.id \in Of(k)
          BY DEF IInv, RunOK, Held
        <5>2. j = k
          BY <3>2, <4>3, <5>1, Bounds DEF Of, Kinds
        <5>3. e = d
          BY <1>3, <4>3, <5>2, AdvanceStep
        <5> QED BY <4>1, <4>3, <5>3
      <4> QED BY <2>1, <2>2, <3>1, <4>2, <4>3 DEF CopiedOnce
    <3>3. CASE t # d.id
      <4>1. rows'[t] = rows[t]
        BY <1>3, <3>3, AdvanceStep
      <4>2. ASSUME NEW j \in Kinds, NEW e \in task[j].copied, e.id = t PROVE e \in task'[j].copied
        BY <1>3, <3>3, <4>2, AdvanceStep
      <4> QED BY <2>1, <2>2, <3>1, <4>1, <4>2 DEF CopiedOnce
    <3> QED BY <3>2, <3>3
  <2> QED BY <2>1, <2>2 DEF CopiedOnce, InTable
<1>4. ASSUME NEW k \in Kinds, Dropped(k) PROVE CopiedOnce(t)'
  <2>1. CopiedOnce(t) /\ UNCHANGED <<made, rows>>
    BY <1>4, DropStep DEF IInv
  <2>2. \A j \in Kinds : task'[j].due \subseteq task[j].due
    BY <1>4, DropStep
  <2>3. \A j \in Kinds : \A e \in task[j].copied : e.id = t => e \in task'[j].copied
    BY <1>4, DropStep
  <2> QED BY <2>1, <2>2, <2>3 DEF CopiedOnce, InTable
<1>5. CASE Desk
  <2>1. CopiedOnce(t) /\ UNCHANGED <<made, task>> /\ RowChange(t)
    BY <1>5 DEF Desk, IInv
  <2>2. ASSUME InTable(t)', NEW x \in Dates, made[t][x] >= 1
        PROVE  \/ x < rows'[t].date
               \/ \E j \in Kinds : \E e \in task[j].copied : e.id = t /\ e.date = x
    <3>1. InTable(t) /\ rows'[t].date >= rows[t].date
      <4>1. rows[t].state # "none"
        BY <2>2 DEF IInv, Unmade
      <4> QED BY <2>1, <2>2, <4>1 DEF RowChange, InTable
    <3>2. rows'[t].date \in Nat
      BY TypeStep, Bounds DEF RunTyped, TypeOK, Row, Dates
    <3> QED BY <1>m, <2>1, <2>2, <3>1, <3>2 DEF CopiedOnce
  <2> QED BY <2>1, <2>2 DEF CopiedOnce, InTable
<1> QED BY <1>1, <1>2, <1>3, <1>4, <1>5, Steps

\* The copies of an invoice have no gap: a step of the date leaves a copy behind it.
LEMMA ChainStep == ASSUME IInv, Next, NEW t \in Invoices \ raced' PROVE Chain(t)'
<1>m. /\ t \in Templates /\ rows[t].date \in Nat /\ from[t] \in Nat
      /\ \A x \in Dates : made[t][x] \in Nat
  BY RowType, Bounds DEF IInv, RunTyped, TypeOK, Templates
<1>same. ASSUME Chain(t), InTable(t)' => InTable(t), rows'[t].date = rows[t].date, from'[t] = from[t],
                \A x \in Dates : made'[t][x] >= made[t][x] /\ made'[t][x] \in Nat
         PROVE  Chain(t)'
  <2> SUFFICES ASSUME InTable(t)'
               PROVE  \E m \in Nat :
                        /\ rows'[t].date = from'[t] + m * Interval
                        /\ \A x \in Dates :
                             (\E n \in 0..(m - 1) : x = from'[t] + n * Interval) => made'[t][x] >= 1
    BY DEF Chain
  <2>1. PICK m \in Nat : /\ rows[t].date = from[t] + m * Interval
                         /\ \A x \in Dates :
                              (\E n \in 0..(m - 1) : x = from[t] + n * Interval) => made[t][x] >= 1
    BY <1>same DEF Chain
  <2>2. \A x \in Dates : made[t][x] >= 1 => made'[t][x] >= 1
    BY <1>m, <1>same
  <2> QED BY <1>same, <2>1, <2>2
<1>1. ASSUME NEW k \in Kinds, ListDue(k) PROVE Chain(t)'
  BY <1>1, <1>m, <1>same, ListStep DEF IInv, InTable
<1>2. ASSUME NEW k \in Kinds, NEW d \in task[k].due, Copy(k, d) PROVE Chain(t)'
  <2>1. \A x \in Dates : made'[t][x] >= made[t][x] /\ made'[t][x] \in Nat
    BY <1>2, <1>m, CopyStep
  <2>2. Chain(t) /\ UNCHANGED <<rows, from>>
    BY <1>2, CopyStep DEF IInv
  <2> QED BY <1>same, <2>1, <2>2 DEF InTable
<1>3. ASSUME NEW k \in Kinds, NEW d \in task[k].copied, Advance(k, d) PROVE Chain(t)'
  <2>1. Chain(t) /\ made' = made /\ from' = from /\ (InTable(t)' => InTable(t))
    <3>1. raced \subseteq raced' /\ made' = made /\ from' = from
      BY <1>3, AdvanceStep
    <3>2. rows'[t].state = rows[t].state
      BY <1>3, <1>m, AdvanceStep
    <3> QED BY <3>1, <3>2 DEF IInv, InTable
  <2>2. CASE t # d.id \/ ~InTable(t)
    <3>1. CASE ~InTable(t)
      BY <2>1, <3>1 DEF Chain
    <3>2. CASE t # d.id
      <4>1. rows'[t] = rows[t]
        BY <1>3, <1>m, <3>2, AdvanceStep
      <4> QED BY <1>m, <1>same, <2>1, <4>1
    <3> QED BY <2>2, <3>1, <3>2
  <2>3. CASE t = d.id /\ InTable(t)
    <3>1. /\ rows'[t].date = d.date + Interval /\ rows[t].date = d.date /\ made[t][d.date] >= 1
          /\ d.date \in Nat
      <4>1. rows'[t].date = NextDate(d) /\ rows[t].date = d.date /\ d.date \in Nat
        BY <1>3, <2>3, AdvanceStep
      <4>2. made[t][d.date] >= 1
        BY <2>3 DEF IInv, RunOK
      <4> QED BY <2>3, <4>1, <4>2 DEF NextDate
    <3>2. PICK m \in Nat : /\ rows[t].date = from[t] + m * Interval
                           /\ \A x \in Dates :
                                (\E n \in 0..(m - 1) : x = from[t] + n * Interval) => made[t][x] >= 1
      BY <2>1, <2>3 DEF Chain
    <3>3. (m + 1) * Interval = m * Interval + Interval /\ m * Interval \in Nat
      BY Bounds
    <3>4. rows'[t].date = from[t] + (m + 1) * Interval
      BY <1>m, <3>1, <3>2, <3>3, Bounds
    <3>5. ASSUME NEW x \in Dates, NEW n \in 0..((m + 1) - 1), x = from[t] + n * Interval
          PROVE  made[t][x] >= 1
      <4>1. CASE n = m
        BY <3>1, <3>2, <3>5, <4>1
      <4>2. CASE n # m
        <5>1. n \in 0..(m - 1)
          BY <4>2
        <5> QED BY <3>2, <3>5, <5>1
      <4> QED BY <4>1, <4>2
    <3>6. m + 1 \in Nat
      OBVIOUS
    <3> QED BY <2>1, <3>4, <3>5, <3>6 DEF Chain
  <2> QED BY <2>2, <2>3
<1>4. ASSUME NEW k \in Kinds, Dropped(k) PROVE Chain(t)'
  BY <1>4, <1>m, <1>same, DropStep DEF IInv, InTable
<1>5. CASE Desk
  <2>1. Chain(t) /\ made' = made /\ RowChange(t)
    BY <1>5, <1>m DEF Desk, IInv
  <2>2. CASE InTable(t)' /\ from'[t] = rows'[t].date
    <3>1. rows'[t].date = from'[t] + 0 * Interval
      <4>1. from'[t] \in Nat
        BY <1>m, TypeStep, Bounds DEF RunTyped, TypeOK, Dates
      <4> QED BY <2>2, <4>1, Bounds
    <3>2. \A x \in Dates : (\E n \in 0..(0 - 1) : x = from'[t] + n * Interval) => made'[t][x] >= 1
      OBVIOUS
    <3> QED BY <3>1, <3>2 DEF Chain
  <2>3. CASE InTable(t)' /\ from'[t] # rows'[t].date
    BY <1>m, <1>same, <2>1, <2>3 DEF RowChange, InTable
  <2>4. CASE ~InTable(t)'
    BY <2>4 DEF Chain
  <2> QED BY <2>2, <2>3, <2>4
<1> QED BY <1>1, <1>2, <1>3, <1>4, <1>5, Steps

-----------------------------------------------------------------------------
\* The tasks start with nothing listed and the invariant survives every step.
LEMMA InitIInv == Init => IInv
<1> SUFFICES ASSUME Init PROVE IInv
  OBVIOUS
<1>1. 0 \in Dates /\ 0 \in Nat
  BY Bounds DEF Dates
<1>2. \A t \in Templates : rows[t] = NoRow
  BY DEF Init
<1>3. NoRow \in Row
  BY <1>1, RowForms DEF NoRow, Row
<1>4. RunTyped
  BY <1>1, <1>3, Bounds DEF Init, RunTyped, TypeOK, TaskIdle, ReqIdle
<1>5. \A k \in Kinds : RunOK(k)
  BY DEF Init, RunOK, Held, TaskIdle
<1>6. \A t \in Templates : Unmade(t) /\ CopiedOnce(t)
  BY <1>2 DEF Init, Unmade, CopiedOnce, InTable, TaskIdle, NoRow
<1>7. \A t \in Invoices : Chain(t)
  BY <1>2 DEF Chain, InTable, NoRow, Templates
<1>8. \A h \in Handlers : ReadInTable(h)
  BY DEF Init, ReadInTable, ReqIdle
<1> QED BY <1>4, <1>5, <1>6, <1>7, <1>8 DEF IInv

LEMMA StutterIInv == ASSUME IInv, UNCHANGED vars PROVE IInv'
BY DEF vars, IInv, RunTyped, TypeOK, RunOK, Held, Unmade, CopiedOnce, Chain, InTable, ReadInTable

\* The tasks and the desk keep the inductive invariant: the lists of the runs, the
\* dates copied, and the unbroken chain of an invoice's dates.
THEOREM Invariance == Spec => []IInv
<1>1. IInv /\ [Next]_vars => IInv'
  <2>1. ASSUME IInv, Next PROVE IInv'
    BY <2>1, TypeStep, RunStep, UnmadeStep, OnceStep, ChainStep, ReqTyped DEF IInv
  <2> QED BY <2>1, StutterIInv
<1> QED BY InitIInv, <1>1, PTL DEF Spec

-----------------------------------------------------------------------------
\* Nothing recurs for a client who is gone.
LEMMA OrphansStep == ASSUME IInv, OrphansQuietUnlessRaced, Next PROVE OrphansQuietUnlessRaced'
<1> SUFFICES ASSUME client' = "gone", NEW t \in Templates \ raced', InTable(t)'
             PROVE  t \in Invoices /\ rows'[t].issued /\ rows'[t].state = "off"
  BY DEF OrphansQuietUnlessRaced, InTable
<1>t. rows \in [Templates -> Row] /\ RunTyped
  BY DEF IInv, RunTyped, TypeOK
<1>1. CASE HardDelete
  <2>1. rows'[t] = IF InTable(t) THEN Cascaded(t) ELSE rows[t]
    BY <1>1 DEF HardDelete
  <2>2. InTable(t) /\ Cascaded(t).state # "gone"
    BY <2>1 DEF InTable
  <2>3. t \in Invoices /\ rows[t].issued /\ rows'[t] = [rows[t] EXCEPT !.state = "off"]
    BY <2>1, <2>2 DEF Cascaded, NoRow
  <2>4. rows[t] \in Row
    BY <1>t
  <2> QED BY <2>3, <2>4 DEF Row
<1>2. ASSUME NEW k \in Kinds, NEW d \in task[k].copied, Advance(k, d)
      PROVE  t \in Invoices /\ rows'[t].issued /\ rows'[t].state = "off"
  <2>1. client = "gone" /\ t \notin raced
    BY <1>2, AdvanceStep
  <2>2. rows'[t].state = rows[t].state /\ rows'[t].issued = rows[t].issued
    BY <1>2, AdvanceStep
  <2> QED BY <2>1, <2>2 DEF OrphansQuietUnlessRaced, InTable
<1>3. ASSUME NEW u \in Templates, Delete(u)
      PROVE  t \in Invoices /\ rows'[t].issued /\ rows'[t].state = "off"
  <2>1. client = "gone" /\ t \notin raced /\ rows' = [rows EXCEPT ![u] = [NoRow EXCEPT !.state = "gone"]]
    BY <1>3 DEF Delete
  <2>2. t # u
    BY <1>t, <2>1 DEF NoRow, InTable
  <2> QED BY <1>t, <2>1, <2>2 DEF OrphansQuietUnlessRaced, InTable
<1>4. ASSUME NEW h \in Handlers, UpdateWrite(h)
      PROVE  t \in Invoices /\ rows'[t].issued /\ rows'[t].state = "off"
  <2>1. PICK u \in req[h].id :
          /\ rows' = IF InTable(u) THEN [rows EXCEPT ![u] = req[h].row] ELSE rows
          /\ raced' = IF rows[u] # req[h].read \/ client = "gone" THEN raced \cup {u} ELSE raced
          /\ client' = client
    BY <1>4 DEF UpdateWrite
  <2>2. t \notin raced /\ t # u /\ rows'[t] = rows[t]
    BY <1>t, <2>1
  <2> QED BY <2>1, <2>2 DEF OrphansQuietUnlessRaced, InTable
<1>5. CASE \E u \in Templates : Create(u) \/ PatchTicket(u)
  <2>1. PICK u \in Templates : Create(u) \/ PatchTicket(u)
    BY <1>5
  <2>2. client # "gone" /\ client' = client
    BY <2>1 DEF Create, PatchTicket
  <2> QED BY <2>2
<1>6. CASE UNCHANGED <<rows, raced>> /\ client = "gone"
  BY <1>6 DEF OrphansQuietUnlessRaced, InTable
<1>7. \/ HardDelete
      \/ \E k \in Kinds : \E d \in task[k].copied : Advance(k, d)
      \/ \E u \in Templates : Delete(u)
      \/ \E h \in Handlers : UpdateWrite(h)
      \/ \E u \in Templates : Create(u) \/ PatchTicket(u)
      \/ UNCHANGED <<rows, raced>> /\ client = "gone"
  BY DEF Next, TaskStep, ListDue, Copy, CopyRefused, Fails, Crash, UpdateFind, Abort,
         SoftDelete, Restore, Tick
<1> QED BY <1>1, <1>2, <1>3, <1>4, <1>5, <1>6, <1>7

LEMMA OrphansAlways == Spec => []OrphansQuietUnlessRaced
<1>1. Init => OrphansQuietUnlessRaced
  BY DEF Init, OrphansQuietUnlessRaced
<1>2. IInv /\ OrphansQuietUnlessRaced /\ [Next]_vars => OrphansQuietUnlessRaced'
  <2>1. ASSUME OrphansQuietUnlessRaced, UNCHANGED vars PROVE OrphansQuietUnlessRaced'
    BY <2>1 DEF vars, OrphansQuietUnlessRaced, InTable
  <2> QED BY <2>1, OrphansStep
<1> QED BY <1>1, <1>2, Invariance, PTL DEF Spec

\* Inv: types, at most one copy of a template for each of its dates unless a copy was
\* not followed by the move of the date, and nothing recurring for a client who is gone
\* unless an edit was written after the deletion.
THEOREM RecurrenceSafe == Spec => []Inv
<1>1. IInv => TypeOK /\ OneCopyPerDateUnlessSlipped
  <2> SUFFICES ASSUME IInv, NEW t \in Templates, NEW d \in Dates, made[t][d] > 1
               PROVE  t \in slipped
    BY DEF IInv, RunTyped, OneCopyPerDateUnlessSlipped
  <2>1. made[t][d] \in Nat
    BY DEF IInv, RunTyped, TypeOK
  <2> QED BY <2>1 DEF IInv, CopiedOnce
<1>2. TypeOK /\ OneCopyPerDateUnlessSlipped /\ OrphansQuietUnlessRaced => Inv
  BY DEF Inv
<1> QED BY Invariance, OrphansAlways, <1>1, <1>2, PTL

\* More intervals do not end earlier.
LEMMA Intervals ==
  ASSUME NEW m \in Nat, NEW n \in Nat, n * Interval < m * Interval
  PROVE  n < m
<1> SUFFICES ASSUME n >= m PROVE FALSE
  OBVIOUS
<1>1. PICK k \in Nat : n = m + k
  <2>1. n - m \in Nat /\ n = m + (n - m)
    OBVIOUS
  <2> QED BY <2>1
<1>2. n * Interval = m * Interval + k * Interval
  BY <1>1, Bounds
<1>3. k * Interval \in Nat /\ m * Interval \in Nat
  BY Bounds
<1> QED BY <1>2, <1>3

\* NoDateSkipped: whatever fails, every date of an invoice between the one the desk gave
\* it and its current one has its copy, unless the desk and the task wrote the row on
\* stale readings of each other.
THEOREM NoDateIsSkipped == Spec => []NoDateSkipped
<1>1. IInv => NoDateSkipped
  <2> SUFFICES ASSUME IInv, NEW t \in Invoices \ raced, InTable(t), NEW n \in 0..MaxTime,
                      from[t] + n * Interval < rows[t].date
               PROVE  made[t][from[t] + n * Interval] >= 1
    BY DEF NoDateSkipped
  <2>t. t \in Templates /\ rows[t].date \in Dates /\ rows[t].date \in Nat /\ from[t] \in Nat /\ n \in Nat
        /\ rows[t].date <= MaxTime + Interval
    BY RowType, Bounds DEF IInv, RunTyped, Templates, Dates
  <2>1. PICK m \in Nat : /\ rows[t].date = from[t] + m * Interval
                         /\ \A x \in Dates :
                              (\E i \in 0..(m - 1) : x = from[t] + i * Interval) => made[t][x] >= 1
    BY DEF IInv, Chain
  <2>2. n * Interval \in Nat /\ m * Interval \in Nat
    BY <2>t, Bounds
  <2>3. n < m
    BY <2>t, <2>1, <2>2, Intervals
  <2>4. from[t] + n * Interval \in Dates
    BY <2>t, <2>2, Bounds DEF Dates
  <2>5. n \in 0..(m - 1)
    BY <2>t, <2>3
  <2> QED BY <2>1, <2>4, <2>5
<1> QED BY Invariance, <1>1, PTL
=============================================================================
