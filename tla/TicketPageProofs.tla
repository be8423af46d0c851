----------------------------- MODULE TicketPageProofs -----------------------------
(***************************************************************************)
(* Proofs about TicketPage, for every set of tickets and any number of     *)
(* texts, requests, moves and failures.                                    *)
(***************************************************************************)
EXTENDS TicketPage, TLAPS

Writing == {"reply", "note"}
Answered == [loaded: BOOLEAN, failed: BOOLEAN, status: Statuses, version: Nat]
Fetched == [st: {"none", "read"}, status: Statuses, version: Nat]
Sent == [n: 1..MaxCalls, kind: Writing, text: 0..MaxTexts, file: BOOLEAN]

\* The variables the properties depend on stay in their sets.
Types ==
    /\ TypeOK
    /\ cache \in [Tickets -> Answered] /\ fetch \in [Tickets -> Fetched]
    /\ used \in 0..MaxCalls /\ texts \in 0..MaxTexts
    /\ done \subseteq Sent

-----------------------------------------------------------------------------
\* The bounds are numbers.
LEMMA Bounds == MaxTexts \in Nat /\ MaxCalls \in Nat /\ MaxMoves \in Nat /\ MaxOthers \in Nat
BY TicketPageAssumption

\* The page opens with every variable in its set.
LEMMA TypesInit == Init => Types
<1> SUFFICES ASSUME Init PROVE Types
  OBVIOUS
<1>1. NoAnswer \in Answered /\ NoFetch \in Fetched
  BY DEF NoAnswer, NoFetch, Answered, Fetched, Statuses
<1>2. server \in [Tickets -> [status: Statuses, version: Nat]]
  <2>1. Starts \subseteq Statuses
    BY TicketPageAssumption DEF Statuses
  <2>2. [status: Starts, version: {0}] \subseteq [status: Statuses, version: Nat]
    BY <2>1
  <2> QED BY <2>2 DEF Init
<1>3. cache \in [Tickets -> Answered] /\ fetch \in [Tickets -> Fetched]
  BY <1>1 DEF Init
<1>4. shown \in Tickets /\ online \in BOOLEAN /\ file \in BOOLEAN
  BY DEF Init
<1>5. /\ tab \in {"reply", "note"} /\ draft \in 0..MaxTexts
      /\ used \in 0..MaxCalls /\ texts \in 0..MaxTexts /\ calls \subseteq Call /\ done \subseteq Sent
  BY Bounds DEF Init
<1> QED BY <1>2, <1>3, <1>4, <1>5 DEF Types, TypeOK

\* A call stays one when it is answered, left or moved.
LEMMA CallTypes ==
    ASSUME NEW c \in Call, NEW b \in BOOLEAN
    PROVE  /\ \A s \in {"held", "sent", "ok", "error"} : [c EXCEPT !.st = s] \in Call
           /\ [c EXCEPT !.current = b] \in Call
           /\ [c EXCEPT !.current = FALSE, !.here = FALSE] \in Call
           /\ \A t \in Tickets, u \in Tickets : [c EXCEPT !.to = t, !.at = u, !.moved = b] \in Call
<1>1. \A s \in {"held", "sent", "ok", "error"} : [c EXCEPT !.st = s] \in Call
  BY DEF Call
<1>2. [c EXCEPT !.current = b] \in Call
  BY DEF Call
<1>3. [c EXCEPT !.current = FALSE, !.here = FALSE] \in Call
  BY DEF Call
<1>4. \A t \in Tickets, u \in Tickets : [c EXCEPT !.to = t, !.at = u, !.moved = b] \in Call
  BY DEF Call
<1> QED BY <1>1, <1>2, <1>3, <1>4

\* A new call is one of the right shape.
LEMMA MutateTypes ==
    ASSUME Types, NEW kind \in Kinds, NEW text \in 0..MaxTexts, NEW f \in BOOLEAN,
           Mutate(kind, text, f)
    PROVE  used' \in 0..MaxCalls /\ calls' \subseteq Call
<1>1. used + 1 \in 1..MaxCalls
  BY TicketPageAssumption DEF Types, Mutate
<1>2. cache[shown].version \in Nat
  BY DEF Types, TypeOK, Answered
<1>3. [n |-> used + 1, kind |-> kind, text |-> text, file |-> f, asked |-> shown,
       to |-> shown, at |-> shown, st |-> IF online THEN "sent" ELSE "held",
       current |-> TRUE, here |-> TRUE, moved |-> FALSE, version |-> cache[shown].version] \in Call
  BY <1>1, <1>2 DEF Types, TypeOK, Call
<1>4. \A c \in calls : [c EXCEPT !.current = c.current /\ Mutation(c.kind) # Mutation(kind)] \in Call
  <2> TAKE c \in calls
  <2>1. c \in Call /\ (c.current /\ Mutation(c.kind) # Mutation(kind)) \in BOOLEAN
    BY DEF Types, TypeOK
  <2> QED BY <2>1, CallTypes
<1>5. calls' \subseteq Call
  BY <1>3, <1>4 DEF Mutate
<1> QED BY <1>1, <1>5 DEF Mutate

\* No step takes a variable out of its set.
LEMMA TypesStep == Types /\ [Next]_vars => Types'
<1> SUFFICES ASSUME Types, [Next]_vars PROVE Types'
  OBVIOUS
<1> USE Bounds
<1>1. CASE UNCHANGED vars
  BY <1>1 DEF vars, seen, composer, Types, TypeOK
<1>2. ASSUME NEW k \in Texts, Write(k) PROVE Types'
  BY <1>2 DEF Write, Types, TypeOK, Texts, seen
<1>3. CASE Attach
  BY <1>3 DEF Attach, Types, TypeOK, seen
<1>4. ASSUME NEW tb \in Writing, SetTab(tb) PROVE Types'
  BY <1>4 DEF SetTab, Types, TypeOK, Writing, seen
<1>5. ASSUME NEW key \in BOOLEAN, Submit(key) PROVE Types'
  <2>1. tab \in Kinds /\ draft \in 0..MaxTexts /\ (file /\ tab = "reply") \in BOOLEAN
    BY DEF Types, TypeOK, Kinds
  <2>2. used' \in 0..MaxCalls /\ calls' \subseteq Call
    BY <1>5, <2>1, MutateTypes DEF Submit
  <2> QED BY <1>5, <2>2 DEF Submit, Types, TypeOK, seen, composer
<1>6. ASSUME NEW kind \in Transitions, Transition(kind) PROVE Types'
  <2>1. used' \in 0..MaxCalls /\ calls' \subseteq Call
    BY <1>6, MutateTypes, 0 \in 0..MaxTexts, FALSE \in BOOLEAN DEF Transition, Kinds
  <2> QED BY <1>6, <2>1 DEF Transition, Types, TypeOK, seen, composer
<1>7. CASE Share
  <2>1. used' \in 0..MaxCalls /\ calls' \subseteq Call
    BY <1>7, MutateTypes, 0 \in 0..MaxTexts, FALSE \in BOOLEAN DEF Share, Kinds
  <2> QED BY <1>7, <2>1 DEF Share, Types, TypeOK, seen, composer
<1>8. ASSUME NEW t \in Tickets, Move(t) PROVE Types'
  <2>1. calls' \subseteq Call
    <3> SUFFICES ASSUME NEW c \in calls' PROVE c \in Call
      OBVIOUS
    <3> PICK d \in calls : c = IF d.current
                 THEN [d EXCEPT !.to = t, !.at = IF d.st = "held" THEN t ELSE d.at,
                                !.moved = d.moved \/ d.st = "held"]
                 ELSE d
      BY <1>8 DEF Move
    <3>1. d \in Call /\ d.at \in Tickets /\ (d.moved \/ d.st = "held") \in BOOLEAN
      BY DEF Types, TypeOK, Call
    <3> QED BY <3>1, CallTypes
  <2> QED BY <1>8, <2>1 DEF Move, Types, TypeOK, seen, composer
<1>9. ASSUME NEW t \in Tickets, Return(t) PROVE Types'
  <2>1. calls' \subseteq Call
    BY <1>9, CallTypes DEF Return, Types, TypeOK
  <2>2. file' \in BOOLEAN
    BY <1>9 DEF Return
  <2>3. tab' = "reply" /\ draft' = 0 /\ shown' = t
    BY <1>9 DEF Return
  <2>4. UNCHANGED <<server, cache, fetch, online, done, used, texts>>
    BY <1>9 DEF Return, seen
  <2> QED BY <2>1, <2>2, <2>3, <2>4 DEF Types, TypeOK
<1>10. ASSUME NEW t \in Tickets, Poll(t) \/ Receive(t) \/ FetchFails(t) PROVE Types'
  <2>1. cache' \in [Tickets -> Answered] /\ fetch' \in [Tickets -> Fetched]
    <3>1. NoFetch \in Fetched
      BY DEF NoFetch, Fetched, Statuses
    <3>2. CASE Poll(t)
      BY <3>2 DEF Poll, Types, TypeOK, Fetched
    <3>3. CASE Receive(t)
      BY <3>1, <3>3 DEF Receive, Types, Answered, Fetched
    <3>4. CASE FetchFails(t)
      <4>1. [cache[t] EXCEPT !.failed = TRUE] \in Answered
        BY DEF Types, Answered
      <4> QED BY <3>1, <3>4, <4>1 DEF FetchFails, Types
    <3> QED BY <1>10, <3>2, <3>3, <3>4
  <2> QED BY <1>10, <2>1 DEF Poll, Receive, FetchFails, Types, TypeOK, composer
<1>11. ASSUME NEW c \in calls, Serve(c) PROVE Types'
  <2>1. c \in Call /\ c.at \in Tickets
    BY DEF Types, TypeOK, Call
  <2>2. calls' \subseteq Call
    BY <1>11, <2>1 DEF Serve, Types, TypeOK, Call
  <2>3. \A s \in Statuses : SetStatus(c.at, s) \in [Tickets -> [status: Statuses, version: Nat]]
    BY <2>1 DEF SetStatus, Types, TypeOK
  <2>4. \A kind \in Transitions : Target(kind) \in Statuses
    BY DEF Transitions, Target, Statuses
  <2>5. server' \in [Tickets -> [status: Statuses, version: Nat]]
    <3>1. Effect(c) \in [Tickets -> [status: Statuses, version: Nat]]
      BY <2>1, <2>3, <2>4 DEF Effect, Address, AfterReply, Types, TypeOK, Statuses
    <3> QED BY <1>11, <3>1 DEF Serve, Types, TypeOK
  <2>6. done' \subseteq Sent
    BY <1>11, <2>1 DEF Serve, Text, Types, Sent, Writing, Call
  <2> QED BY <1>11, <2>2, <2>5, <2>6 DEF Serve, Types, TypeOK, seen, composer
<1>12. ASSUME NEW c \in calls, CallFails(c) PROVE Types'
  <2>1. calls' \subseteq Call
    BY <1>12 DEF CallFails, Types, TypeOK, Call
  <2> QED BY <1>12, <2>1 DEF CallFails, Types, TypeOK, seen, composer
<1>13. ASSUME NEW c \in calls, AnswerCall(c) PROVE Types'
  <2>1. calls' \subseteq Call /\ fetch' \in [Tickets -> Fetched]
    BY <1>13 DEF AnswerCall, Invalidate, NoFetch, Types, TypeOK, Call, Fetched, Statuses
  <2>2. draft' \in 0..MaxTexts /\ file' \in BOOLEAN
    <3>1. draft' \in {0, draft} /\ file' \in {FALSE, file}
      BY <1>13 DEF AnswerCall
    <3>2. draft' \in 0..MaxTexts
      BY <3>1 DEF Types, TypeOK
    <3>3. file' \in BOOLEAN
      BY <3>1 DEF Types, TypeOK
    <3> QED BY <3>2, <3>3
  <2> QED BY <1>13, <2>1, <2>2 DEF AnswerCall, Types, TypeOK
<1>14. CASE GoOffline
  BY <1>14 DEF GoOffline, Types, TypeOK, seen, composer
<1>15. CASE GoOnline
  <2>1. calls' \subseteq Call
    BY <1>15 DEF GoOnline, Types, TypeOK, Call
  <2> QED BY <1>15, <2>1 DEF GoOnline, Types, TypeOK, seen, composer
<1>16. ASSUME NEW t \in Tickets, NEW kind \in Transitions, Somebody(t, kind) PROVE Types'
  BY <1>16 DEF Somebody, SetStatus, Target, Transitions, Types, TypeOK, Statuses, seen, composer
<1> QED
  BY <1>1, <1>2, <1>3, <1>4, <1>5, <1>6, <1>7, <1>8, <1>9, <1>10, <1>11, <1>12, <1>13, <1>14,
     <1>15, <1>16 DEF Next, Person, Network, Writing


-----------------------------------------------------------------------------
(* Where a call comes from: made by this step, or one that was there before. *)

New(c) ==
    /\ used' = used + 1 /\ c.n = used + 1
    /\ c.asked = shown /\ c.at = shown /\ c.version = cache[shown].version
    /\ c.st \in {"sent", "held"} /\ c.here /\ ~c.moved /\ shown' = shown

\* c is d one step later.
Follows(c, d) ==
    /\ c.n = d.n /\ c.kind = d.kind /\ c.text = d.text /\ c.file = d.file
    /\ c.asked = d.asked /\ c.version = d.version
    /\ c.here => d.here
    /\ c.moved \/ (c.at = d.at /\ ~d.moved)

\* Every call after a step is new or follows one from before it.
LEMMA Succession ==
    ASSUME Types, [Next]_vars, NEW c \in calls'
    PROVE  New(c) \/ \E d \in calls : Follows(c, d)
<1> USE DEF Types, TypeOK
<1>0. ASSUME c \in calls PROVE \E d \in calls : Follows(c, d)
  BY <1>0 DEF Follows, Call
<1>1. ASSUME NEW kind \in Kinds, NEW text, NEW f, Mutate(kind, text, f), UNCHANGED shown
      PROVE  New(c) \/ \E d \in calls : Follows(c, d)
  <2>1. CASE \E d \in calls :
          c = [d EXCEPT !.current = d.current /\ Mutation(d.kind) # Mutation(kind)]
    BY <2>1 DEF Follows, Call
  <2>2. CASE c = [n |-> used + 1, kind |-> kind, text |-> text, file |-> f, asked |-> shown,
                  to |-> shown, at |-> shown, st |-> IF online THEN "sent" ELSE "held",
                  current |-> TRUE, here |-> TRUE, moved |-> FALSE, version |-> cache[shown].version]
    BY <1>1, <2>2 DEF New, Mutate
  <2> QED BY <1>1, <2>1, <2>2 DEF Mutate
<1>2. CASE UNCHANGED calls
  BY <1>0, <1>2
<1>3. ASSUME NEW key \in BOOLEAN, Submit(key) PROVE New(c) \/ \E d \in calls : Follows(c, d)
  BY <1>1, <1>3 DEF Submit, Kinds
<1>4. ASSUME NEW kind \in Transitions, Transition(kind)
      PROVE  New(c) \/ \E d \in calls : Follows(c, d)
  BY <1>1, <1>4 DEF Transition, Kinds
<1>5. CASE Share
  BY <1>1, <1>5 DEF Share, Kinds
<1>6. ASSUME NEW t \in Tickets, Move(t) PROVE \E d \in calls : Follows(c, d)
  BY <1>6 DEF Move, Follows, Call
<1>7. ASSUME NEW t \in Tickets, Return(t) PROVE \E d \in calls : Follows(c, d)
  BY <1>7 DEF Return, Follows, Call
<1>8. ASSUME NEW e \in calls, Serve(e) \/ CallFails(e) \/ AnswerCall(e)
      PROVE  \E d \in calls : Follows(c, d)
  BY <1>0, <1>8 DEF Serve, CallFails, AnswerCall, Follows, Call
<1>9. CASE GoOnline
  BY <1>9 DEF GoOnline, Follows, Call
<1>10. CASE \/ \E k \in Texts : Write(k)
            \/ \E tb \in Writing : SetTab(tb)
            \/ Attach \/ GoOffline
            \/ \E t \in Tickets : Poll(t) \/ Receive(t) \/ FetchFails(t)
            \/ \E t \in Tickets, kind \in Transitions : Somebody(t, kind)
  <2>1. UNCHANGED calls
    BY <1>10 DEF Write, SetTab, Attach, GoOffline, Poll, Receive, FetchFails, Somebody
  <2> QED BY <1>2, <2>1
<1>11. UNCHANGED vars => UNCHANGED calls
  BY DEF vars
<1> QED BY <1>2, <1>3, <1>4, <1>5, <1>6, <1>7, <1>8, <1>9, <1>10, <1>11 DEF Next, Person, Network, Writing

-----------------------------------------------------------------------------
(* Each call goes where it was asked. *)

\* A call names another ticket than it was asked on only after it was moved.
Right == RightTicket /\ \A c \in calls : c.at # c.asked => c.moved

\* No step sends an unmoved call astray.
LEMMA RightStep == Types /\ Right /\ [Next]_vars => Right'
<1> SUFFICES ASSUME Types, Right, [Next]_vars PROVE Right'
  OBVIOUS
<1>1. \A c \in calls' : c.at # c.asked => c.moved
  <2> TAKE c \in calls'
  <2> QED BY Succession DEF New, Follows, Right
<1>2. RightTicket'
  <2>1. ASSUME NEW c \in calls, Serve(c) PROVE RightTicket'
    <3>1. c.at # c.asked => c.moved
      BY DEF Right
    <3>2. c.moved \in BOOLEAN
      BY DEF Types, TypeOK, Call
    <3> QED BY <2>1, <3>1, <3>2 DEF Serve, Address, Right, RightTicket
  <2>2. (\A c \in calls : ~Serve(c)) => UNCHANGED astray
    BY DEF Next, Person, Network, vars, Write, Submit, SetTab, Transition, Move, Return, Attach, Share,
       Poll, Receive, FetchFails, CallFails, AnswerCall, GoOffline, GoOnline, Somebody
  <2> QED BY <2>1, <2>2 DEF Right, RightTicket
<1> QED BY <1>1, <1>2 DEF Right

-----------------------------------------------------------------------------
(* Numbers of calls and texts are used once. *)

\* No call, and nothing on the server, has a number or a text not yet given out.
Given ==
    /\ \A c \in calls : c.n <= used /\ c.text <= texts
    /\ \A r \in done : r.n <= used /\ r.text <= texts
    /\ draft <= texts

\* Calls have different numbers.
Apart == \A c \in calls, d \in calls : c.n = d.n => c = d

\* What a call wrote is on the server once it was served, and not before.
Written ==
    /\ \A c \in calls, r \in done : r.n = c.n => c.st \in {"ok", "error"}
    /\ \A c \in calls : c.st = "ok" /\ c.kind \in Writing => Text(c) \in done

Numbers == Given /\ Apart /\ Written

\* A new call takes the next number, every other keeps its own.
LEMMA MutateNumbers ==
    ASSUME Types, Numbers, NEW kind \in Kinds, NEW text \in 0..MaxTexts, text <= texts, NEW f \in BOOLEAN,
           Mutate(kind, text, f), UNCHANGED <<done, draft, texts>>
    PROVE  Numbers'
<1> DEFINE old(c) == [c EXCEPT !.current = c.current /\ Mutation(c.kind) # Mutation(kind)]
           new == [n |-> used + 1, kind |-> kind, text |-> text, file |-> f, asked |-> shown,
                to |-> shown, at |-> shown, st |-> IF online THEN "sent" ELSE "held",
                current |-> TRUE, here |-> TRUE, moved |-> FALSE, version |-> cache[shown].version]
<1>1. calls' = {old(c) : c \in calls} \cup {new} /\ used' = used + 1
  BY DEF Mutate
<1>2. used \in Nat /\ texts \in Nat /\ \A r \in done : r.n \in Nat
  BY Bounds DEF Types, Sent
<1>3. \A c \in calls : c.n \in Nat /\ c.text \in Nat /\ old(c).n = c.n /\ old(c).text = c.text
                        /\ old(c).st = c.st /\ old(c).kind = c.kind /\ old(c).file = c.file
  <2> TAKE c \in calls
  <2>1. c \in Call
    BY DEF Types, TypeOK
  <2>2. c.n \in Nat /\ c.text \in Nat
    BY <2>1, Bounds DEF Call
  <2>3. /\ old(c).n = c.n /\ old(c).text = c.text
        /\ old(c).st = c.st /\ old(c).kind = c.kind /\ old(c).file = c.file
    BY <2>1 DEF Call
  <2> QED BY <2>2, <2>3
<1>4. new.n = used + 1 /\ new.text = text /\ new.st \in {"sent", "held"}
  OBVIOUS
<1> HIDE DEF old, new
<1>5. Given'
  BY <1>1, <1>2, <1>3, <1>4 DEF Numbers, Given
<1>6. Apart'
  BY <1>1, <1>2, <1>3, <1>4 DEF Numbers, Apart, Given
<1>7. Written'
  <2>1. \A r \in done : r.n # new.n
    BY <1>2, <1>4 DEF Numbers, Given
  <2>2. new.st # "ok"
    BY <1>4
  <2> QED BY <1>1, <1>3, <2>1, <2>2 DEF Numbers, Written, Text
<1> QED BY <1>5, <1>6, <1>7 DEF Numbers

\* Calls that only change in what their numbers do not depend on.
LEMMA KeptNumbers ==
    ASSUME Types, Numbers, UNCHANGED <<done, used, texts>>, draft' \in {0, draft},
           NEW F, calls' = {F[c] : c \in calls},
           \A c \in calls :
             /\ F[c].n = c.n /\ F[c].kind = c.kind /\ F[c].text = c.text /\ F[c].file = c.file
             /\ F[c].st = c.st \/ (c.st = "held" /\ F[c].st = "sent")
    PROVE  Numbers'
<1>2. texts \in Nat
  BY Bounds DEF Types
<1>3. Given'
  BY <1>2 DEF Numbers, Given
<1>4. Apart'
  BY DEF Numbers, Apart
<1>5. Written'
  <2>1. ASSUME NEW c \in calls, NEW r \in done, r.n = F[c].n PROVE F[c].st \in {"ok", "error"}
    BY <2>1 DEF Numbers, Written
  <2>2. ASSUME NEW c \in calls, F[c].st = "ok", F[c].kind \in Writing PROVE Text(F[c]) \in done
    BY <2>2 DEF Numbers, Written, Text
  <2> QED BY <2>1, <2>2 DEF Written, Text
<1> QED BY <1>3, <1>4, <1>5 DEF Numbers

\* No number is given twice, whatever the page, the server or the network does.
LEMMA NumbersStep == Types /\ Numbers /\ [Next]_vars => Numbers'
<1> SUFFICES ASSUME Types, Numbers, [Next]_vars PROVE Numbers'
  OBVIOUS
<1> USE Bounds
<1>1. ASSUME UNCHANGED <<calls, done, used, texts>>, draft' \in {0, draft} PROVE Numbers'
  <2>1. texts \in Nat
    BY DEF Types
  <2> QED BY <1>1, <2>1 DEF Numbers, Given, Apart, Written
<1>2. ASSUME NEW k \in Texts, Write(k) PROVE Numbers'
  <2>1. /\ texts \in Nat /\ \A c \in calls : c.text \in Nat
        /\ \A r \in done : r.text \in Nat
    BY DEF Types, TypeOK, Call, Sent
  <2>2. UNCHANGED <<calls, done, used>> /\ texts' = texts + 1 /\ draft' = texts + 1
    BY <1>2 DEF Write
  <2> QED BY <2>1, <2>2 DEF Numbers, Given, Apart, Written
<1>3. ASSUME NEW key \in BOOLEAN, Submit(key) PROVE Numbers'
  <2>1. /\ tab \in Kinds /\ draft \in 0..MaxTexts /\ (file /\ tab = "reply") \in BOOLEAN
        /\ draft <= texts
    BY DEF Types, TypeOK, Kinds, Numbers, Given
  <2> QED BY <1>3, <2>1, MutateNumbers DEF Submit, composer
<1>4. 0 \in 0..MaxTexts /\ 0 <= texts /\ FALSE \in BOOLEAN
  BY DEF Types
<1>5. ASSUME NEW kind \in Transitions, Transition(kind) PROVE Numbers'
  BY <1>4, <1>5, MutateNumbers DEF Transition, Kinds, composer
<1>6. CASE Share
  BY <1>4, <1>6, MutateNumbers DEF Share, Kinds, composer
<1>7. ASSUME NEW t \in Tickets, Move(t) PROVE Numbers'
  <2> DEFINE F == [c \in calls |-> IF c.current
                 THEN [c EXCEPT !.to = t, !.at = IF c.st = "held" THEN t ELSE c.at,
                                !.moved = c.moved \/ c.st = "held"]
                 ELSE c]
  <2>1. calls' = {F[c] : c \in calls} /\ UNCHANGED <<done, used, texts, draft>>
    BY <1>7 DEF Move, composer
  <2>2. \A c \in calls :
             /\ F[c].n = c.n /\ F[c].kind = c.kind /\ F[c].text = c.text /\ F[c].file = c.file
             /\ F[c].st = c.st
    BY DEF Types, TypeOK, Call
  <2> HIDE DEF F
  <2> QED BY <2>1, <2>2, KeptNumbers
<1>8. ASSUME NEW t \in Tickets, Return(t) PROVE Numbers'
  <2> DEFINE F == [c \in calls |-> [c EXCEPT !.current = FALSE, !.here = FALSE]]
  <2>1. calls' = {F[c] : c \in calls} /\ UNCHANGED <<done, used, texts>> /\ draft' = 0
    BY <1>8 DEF Return
  <2>2. \A c \in calls :
             /\ F[c].n = c.n /\ F[c].kind = c.kind /\ F[c].text = c.text /\ F[c].file = c.file
             /\ F[c].st = c.st
    BY DEF Types, TypeOK, Call
  <2> HIDE DEF F
  <2> QED BY <2>1, <2>2, KeptNumbers
<1>9. CASE GoOnline
  <2> DEFINE F == [c \in calls |-> IF c.st = "held" THEN [c EXCEPT !.st = "sent"] ELSE c]
  <2>1. calls' = {F[c] : c \in calls} /\ UNCHANGED <<done, used, texts, draft>>
    BY <1>9 DEF GoOnline, composer
  <2>2. \A c \in calls :
             /\ F[c].n = c.n /\ F[c].kind = c.kind /\ F[c].text = c.text /\ F[c].file = c.file
             /\ F[c].st = c.st \/ (c.st = "held" /\ F[c].st = "sent")
    BY DEF Types, TypeOK, Call
  <2> HIDE DEF F
  <2> QED BY <2>1, <2>2, KeptNumbers
<1>10. ASSUME NEW c \in calls, NEW s \in {"ok", "error"},
              c.st \in {"sent", "ok"}, calls' = (calls \ {c}) \cup {[c EXCEPT !.st = s]},
              done' = done \/ (c.st = "sent" /\ done' = done \cup {Text(c)} /\ c.kind \in Writing),
              s = "ok" /\ c.kind \in Writing => Text(c) \in done',
              UNCHANGED <<used, texts, draft>>
       PROVE  Numbers'
  <2> DEFINE e == [c EXCEPT !.st = s]
  <2>1. /\ e.n = c.n /\ e.text = c.text /\ e.kind = c.kind /\ e.file = c.file /\ e.st = s
        /\ Text(e) = Text(c) /\ Text(c).n = c.n /\ Text(c).text = c.text
    BY DEF Types, TypeOK, Call, Text
  <2>2. calls' = (calls \ {c}) \cup {e}
    BY <1>10
  <2> HIDE DEF e
  <2>3. Given'
    BY <1>10, <2>1, <2>2 DEF Numbers, Given
  <2>4. Apart'
    BY <2>1, <2>2 DEF Numbers, Apart
  <2>5. \A d \in calls \ {c} : d.n # c.n
    BY DEF Numbers, Apart
  <2>6. \A d \in calls', r \in done' : r.n = d.n => d.st \in {"ok", "error"}
    BY <1>10, <2>1, <2>2, <2>5 DEF Numbers, Written
  <2>7. \A d \in calls' : d.st = "ok" /\ d.kind \in Writing => Text(d) \in done'
    BY <1>10, <2>1, <2>2 DEF Numbers, Written
  <2>8. Written'
    BY <2>6, <2>7 DEF Written, Text
  <2> QED BY <2>3, <2>4, <2>8 DEF Numbers
<1>11. ASSUME NEW c \in calls, Serve(c) PROVE Numbers'
  BY <1>10, <1>11 DEF Serve, Writing, composer
<1>12. ASSUME NEW c \in calls, CallFails(c) PROVE Numbers'
  BY <1>10, <1>12 DEF CallFails, composer
<1>13. ASSUME NEW c \in calls, AnswerCall(c) PROVE Numbers'
  <2>1. calls' = calls \ {c} /\ UNCHANGED <<done, used, texts>> /\ draft' \in {0, draft}
    BY <1>13 DEF AnswerCall
  <2>2. texts \in Nat
    BY DEF Types
  <2> QED BY <2>1, <2>2 DEF Numbers, Given, Apart, Written
<1>14. CASE \/ \E tb \in Writing : SetTab(tb)
            \/ Attach \/ GoOffline
            \/ \E t \in Tickets : Poll(t) \/ Receive(t) \/ FetchFails(t)
            \/ \E t \in Tickets, kind \in Transitions : Somebody(t, kind)
  <2>1. UNCHANGED <<calls, done, used, texts, draft>>
    BY <1>14 DEF SetTab, Attach, GoOffline, Poll, Receive, FetchFails, Somebody, composer
  <2> QED BY <1>1, <2>1
<1>15. CASE UNCHANGED vars
  BY <1>1, <1>15 DEF vars
<1> QED BY <1>2, <1>3, <1>5, <1>6, <1>7, <1>8, <1>9, <1>11, <1>12, <1>13, <1>14, <1>15
    DEF Next, Person, Network, Writing

-----------------------------------------------------------------------------
(* What was written is in the composer, on the server, or lost in a known way. *)

\* While a text is on its way the composer still holds it, or what came later.
OnScreen ==
    \A c \in calls : c.here /\ c.kind \in Writing =>
        /\ draft # 0 => c.text = draft \/ draft \in late
        /\ c.kind = "reply" /\ file => c.file \/ File \in late

Kept == OnScreen /\ DraftsKept /\ wanted \subseteq Texts \cup {File}

\* A step that leaves the composer alone and makes no call that carries less than it holds.
LEMMA KeptAlone ==
    ASSUME Types, Kept, UNCHANGED <<draft, file, wanted, late>>, done \subseteq done',
           \A c \in calls' : c.here /\ c.kind \in Writing =>
             \/ c.text = draft /\ (c.kind = "reply" => c.file = file)
             \/ \E d \in calls : d.here /\ d.kind = c.kind /\ d.text = c.text /\ d.file = c.file
    PROVE  Kept'
<1>1. OnScreen'
  <2> SUFFICES ASSUME NEW c \in calls', c.here, c.kind \in Writing
               PROVE  /\ draft # 0 => c.text = draft \/ draft \in late
                      /\ c.kind = "reply" /\ file => c.file \/ File \in late
    BY DEF OnScreen, File
  <2> QED BY DEF Kept, OnScreen
<1>2. DraftsKept'
  BY DEF Kept, DraftsKept, Carries, File
<1> QED BY <1>1, <1>2 DEF Kept, Texts, File

\* No step loses what was written but in the ways that DraftsKept names.
LEMMA KeptStep == Types /\ Numbers /\ Kept /\ [Next]_vars => Kept'
<1> SUFFICES ASSUME Types, Numbers, Kept, [Next]_vars PROVE Kept'
  OBVIOUS
<1> USE Bounds
<1>1. ASSUME NEW k \in Texts, Write(k) PROVE Kept'
  <2>1. UNCHANGED <<calls, done, file>> /\ draft' = k /\ wanted' = (wanted \ Texts) \cup {k}
        /\ late \subseteq late' /\ (Sending => k \in late')
    BY <1>1 DEF Write
  <2>2. OnScreen'
    BY <2>1 DEF Kept, OnScreen, Sending, Writing, File
  <2>3. draft # File /\ draft \in Texts \cup {0} /\ File \notin Texts
    BY DEF Types, TypeOK, File, Texts
  <2>4. DraftsKept'
    <3> SUFFICES ASSUME NEW x \in wanted', x # k
                 PROVE  \/ x = File /\ file
                        \/ \E r \in done : Carries(r, x)
                        \/ x \in late'
                        \/ x = File /\ \E r \in done : r.kind = "note"
      BY <2>1 DEF DraftsKept, Carries, File
    <3>1. x = File /\ x \in wanted
      BY <2>1 DEF Kept
    <3> QED BY <2>1, <2>3, <3>1 DEF Kept, DraftsKept
  <2> QED BY <1>1, <2>1, <2>2, <2>4 DEF Kept, Texts, File
<1>2. CASE Attach
  <2>1. UNCHANGED <<calls, done, draft>> /\ file' = TRUE /\ wanted' = wanted \cup {File}
        /\ late \ {File} \subseteq late' /\ (Sending => File \in late')
    BY <1>2 DEF Attach
  <2>2. draft # File
    BY DEF Types, TypeOK, File
  <2>3. OnScreen'
    <3>1. Sending => late \subseteq late'
      BY <2>1
    <3> QED BY <2>1, <3>1 DEF Kept, OnScreen, Sending, Writing, File
  <2>4. DraftsKept'
    BY <2>1, <2>2 DEF Kept, DraftsKept, Carries, File
  <2> QED BY <2>1, <2>3, <2>4 DEF Kept, Texts, File
<1>3. ASSUME NEW key \in BOOLEAN, Submit(key) PROVE Kept'
  <2>1. UNCHANGED <<draft, file, wanted, late, done>>
    BY <1>3 DEF Submit, composer
  <2>2. \A c \in calls' :
             \/ c.text = draft /\ c.kind = tab /\ c.file = (file /\ tab = "reply")
             \/ \E d \in calls : Follows(c, d)
    BY <1>3 DEF Submit, Mutate, Follows, Types, TypeOK, Call
  <2>3. \A c \in calls' : c.here /\ c.kind \in Writing =>
             \/ c.text = draft /\ (c.kind = "reply" => c.file = file)
             \/ \E d \in calls : d.here /\ d.kind = c.kind /\ d.text = c.text /\ d.file = c.file
    <3>1. file \in BOOLEAN
      BY DEF Types, TypeOK
    <3> QED BY <2>2, <3>1 DEF Follows
  <2> QED BY <2>1, <2>3, KeptAlone
<1>4. ASSUME NEW t \in Tickets, Return(t) PROVE Kept'
  <2>1. wanted' = {} /\ \A c \in calls' : ~c.here
    BY <1>4 DEF Return, Types, TypeOK, Call
  <2> QED BY <2>1 DEF Kept, OnScreen, DraftsKept
<1>5. ASSUME NEW c \in calls, AnswerCall(c) PROVE Kept'
  <2>1. calls' = calls \ {c} /\ UNCHANGED <<done, wanted, late>>
    BY <1>5 DEF AnswerCall, history
  <2>2. CASE Clears(c)
    <3>1. draft' = 0 /\ file' = FALSE
      BY <1>5, <2>2 DEF AnswerCall
    <3>2. Text(c) \in done /\ Text(c).text = c.text /\ Text(c).file = c.file /\ Text(c).kind = c.kind
      BY <2>2 DEF Clears, Numbers, Written, Writing, Text
    <3>3. OnScreen'
      BY <2>1, <3>1 DEF OnScreen
    <3>4. \A x \in wanted : x # 0
      BY DEF Kept, Texts, File
    <3>5. /\ draft # 0 => c.text = draft \/ draft \in late
          /\ c.kind = "reply" /\ file => c.file \/ File \in late
          /\ c.kind \in Writing
      BY <2>2 DEF Kept, OnScreen, Clears, Writing
    <3>6. \A x \in wanted :
            \/ \E r \in done : Carries(r, x)
            \/ x \in late
            \/ x = File /\ \E r \in done : r.kind = "note"
      BY <3>2, <3>4, <3>5 DEF Kept, DraftsKept, Carries, Writing
    <3>7. DraftsKept'
      BY <2>1, <3>6 DEF DraftsKept, Carries, File
    <3> QED BY <2>1, <3>3, <3>7 DEF Kept, Texts, File
  <2>3. CASE ~Clears(c)
    <3>1. UNCHANGED <<draft, file>>
      BY <1>5, <2>3 DEF AnswerCall
    <3> QED BY <2>1, <3>1, KeptAlone
  <2> QED BY <2>2, <2>3
<1>6. ASSUME UNCHANGED <<draft, file, wanted, late>>, done \subseteq done',
             \A c \in calls' : New(c) => c.kind \notin Writing
      PROVE  Kept'
  <2>1. \A c \in calls' : c.kind \in Writing => \E d \in calls : Follows(c, d)
    BY <1>6, Succession
  <2>2. \A c \in calls' : c.here /\ c.kind \in Writing =>
             \E d \in calls : d.here /\ d.kind = c.kind /\ d.text = c.text /\ d.file = c.file
    BY <2>1 DEF Follows
  <2> QED BY <1>6, <2>2, KeptAlone
<1>7. ASSUME NEW kind \in Transitions \cup {"share"}, NEW text, NEW f, Mutate(kind, text, f),
             UNCHANGED <<draft, file, wanted, late, done>>
      PROVE  Kept'
  <2>1. \A c \in calls' : c.kind = kind \/ \E d \in calls : c.n = d.n
    BY <1>7 DEF Mutate, Types, TypeOK, Call
  <2>2. kind \notin Writing /\ \A d \in calls : d.n # used + 1
    BY DEF Transitions, Writing, Numbers, Given, Types, TypeOK, Call
  <2> QED BY <1>6, <1>7, <2>1, <2>2 DEF New
<1>8. ASSUME NEW kind \in Transitions, Transition(kind) PROVE Kept'
  BY <1>7, <1>8 DEF Transition, composer, history
<1>9. CASE Share
  BY <1>7, <1>9 DEF Share, composer, history
<1>10. ASSUME UNCHANGED <<draft, file, wanted, late, used>>, done \subseteq done' PROVE Kept'
  <2>1. used # used + 1
    BY DEF Types
  <2> QED BY <1>6, <1>10, <2>1 DEF New
<1>11. CASE \/ \E tb \in Writing : SetTab(tb)
            \/ GoOffline \/ GoOnline
            \/ \E t \in Tickets : Poll(t) \/ Receive(t) \/ FetchFails(t) \/ Move(t)
            \/ \E c \in calls : CallFails(c)
            \/ \E t \in Tickets, kind \in Transitions : Somebody(t, kind)
  <2>1. UNCHANGED <<draft, file, wanted, late, used, done>>
    BY <1>11 DEF SetTab, GoOffline, GoOnline, Poll, Receive, FetchFails, Move, CallFails, Somebody,
                 composer, history
  <2> QED BY <1>10, <2>1
<1>12. ASSUME NEW c \in calls, Serve(c) PROVE Kept'
  <2>1. UNCHANGED <<draft, file, wanted, late, used>> /\ done \subseteq done'
    BY <1>12 DEF Serve, composer, history
  <2> QED BY <1>10, <2>1
<1>13. CASE UNCHANGED vars
  BY <1>10, <1>13 DEF vars
<1> QED BY <1>1, <1>2, <1>3, <1>4, <1>5, <1>8, <1>9, <1>11, <1>12, <1>13
    DEF Next, Person, Network, Writing

-----------------------------------------------------------------------------
(* A text is on the server once, unless it was sent again. *)

\* The ways in which one text can be in two places, each of which has it in again:
\* two calls, a call and the server, a failed call whose text the server has,
\* and the composer that still holds what the server has.
Twice ==
    /\ \A c \in calls, d \in calls : c.n # d.n /\ c.text = d.text /\ c.text # 0 => c.text \in again
    /\ \A c \in calls, r \in done : r.n # c.n /\ r.text = c.text /\ c.text # 0 => c.text \in again
    /\ \A c \in calls, r \in done : r.n = c.n /\ c.st = "error" => c.text \in again
    /\ \A r \in done : r.text = draft /\ draft # 0 =>
         draft \in again \/ \E c \in calls : c.n = r.n /\ c.text = draft

\* What a call took from the composer is still on the page that made it.
Own == \A c \in calls : c.text = draft /\ draft # 0 => c.here /\ c.kind \in Writing

Once == Twice /\ Own /\ SentOnceUnlessRetried

\* Calls that change in nothing that Once reads, or go from sent to another state.
LEMMA OnceAlone ==
    ASSUME Types, Numbers, Once, UNCHANGED <<draft, done>>, again \subseteq again',
           NEW F, calls' = {F[c] : c \in calls},
           \A c \in calls :
             /\ F[c].n = c.n /\ F[c].kind = c.kind /\ F[c].text = c.text
             /\ F[c].here = c.here \/ draft = 0
             /\ F[c].st = c.st \/ F[c].st # "error" \/ c.text \in again' \/ \A r \in done : r.n # c.n
    PROVE  Once'
<1>1. Own'
  BY DEF Once, Own
<1>2. SentOnceUnlessRetried'
  BY DEF Once, SentOnceUnlessRetried
<1>3. ASSUME NEW c \in calls, NEW d \in calls, F[c].n # F[d].n, F[c].text = F[d].text, F[c].text # 0
      PROVE  F[c].text \in again'
  BY <1>3 DEF Once, Twice
<1>4. ASSUME NEW c \in calls, NEW r \in done, r.n # F[c].n, r.text = F[c].text, F[c].text # 0
      PROVE  F[c].text \in again'
  BY <1>4 DEF Once, Twice
<1>5. ASSUME NEW c \in calls, NEW r \in done, r.n = F[c].n, F[c].st = "error" PROVE F[c].text \in again'
  BY <1>5 DEF Once, Twice
<1>6. ASSUME NEW r \in done, r.text = draft, draft # 0
      PROVE  draft \in again' \/ \E c \in calls : F[c].n = r.n /\ F[c].text = draft
  BY <1>6 DEF Once, Twice
<1>7. Twice'
  BY <1>3, <1>4, <1>5, <1>6 DEF Twice
<1> QED BY <1>1, <1>2, <1>7 DEF Once

\* A new call without a text, or with the composer's text.
LEMMA MutateOnce ==
    ASSUME Types, Numbers, Once, NEW kind \in Kinds, NEW text, NEW f, Mutate(kind, text, f),
           UNCHANGED <<draft, done>>, again \subseteq again',
           \/ text = 0
           \/ /\ text = draft /\ kind \in Writing
              /\ (\E c \in calls : c.text = draft) => draft \in again'
    PROVE  Once'
<1> DEFINE old(c) == [c EXCEPT !.current = c.current /\ Mutation(c.kind) # Mutation(kind)]
           new == [n |-> used + 1, kind |-> kind, text |-> text, file |-> f, asked |-> shown,
                to |-> shown, at |-> shown, st |-> IF online THEN "sent" ELSE "held",
                current |-> TRUE, here |-> TRUE, moved |-> FALSE, version |-> cache[shown].version]
<1>1. calls' = {old(c) : c \in calls} \cup {new}
  BY DEF Mutate
<1>2. \A c \in calls : /\ old(c).n = c.n /\ old(c).text = c.text /\ old(c).st = c.st
                        /\ old(c).kind = c.kind /\ old(c).here = c.here
  BY DEF Types, TypeOK, Call
<1>3. new.n = used + 1 /\ new.text = text /\ new.kind = kind /\ new.st # "error" /\ new.here
  OBVIOUS
<1> HIDE DEF old, new
<1>4. \A r \in done : r.n # new.n
  BY <1>3, Bounds DEF Types, Sent, Numbers, Given
<1>5. Own'
  <2>1. new.text = draft /\ draft # 0 => new.here /\ new.kind \in Writing
    BY <1>3
  <2> QED BY <1>1, <1>2, <2>1 DEF Once, Own
<1>6. SentOnceUnlessRetried'
  BY DEF Once, SentOnceUnlessRetried
<1>7. text # 0 /\ (\E r \in done : r.text = text) => text \in again'
  BY DEF Once, Twice
<1>8. Twice'
  <2>1. ASSUME NEW c \in calls', NEW d \in calls', c.n # d.n, c.text = d.text, c.text # 0
        PROVE  c.text \in again'
    BY <1>1, <1>2, <1>3, <2>1 DEF Once, Twice
  <2>2. ASSUME NEW c \in calls', NEW r \in done, r.n # c.n, r.text = c.text, c.text # 0
        PROVE  c.text \in again'
    BY <1>1, <1>2, <1>3, <1>7, <2>2 DEF Once, Twice
  <2>3. ASSUME NEW c \in calls', NEW r \in done, r.n = c.n, c.st = "error" PROVE c.text \in again'
    BY <1>1, <1>2, <1>3, <1>4, <2>3 DEF Once, Twice
  <2>4. ASSUME NEW r \in done, r.text = draft, draft # 0
        PROVE  draft \in again' \/ \E c \in calls' : c.n = r.n /\ c.text = draft
    BY <1>1, <1>2, <2>4 DEF Once, Twice
  <2> QED BY <2>1, <2>2, <2>3, <2>4 DEF Twice
<1> QED BY <1>5, <1>6, <1>8 DEF Once

\* No step sends a text to the server a second time unless it was sent again.
LEMMA OnceStep == Types /\ Numbers /\ Once /\ [Next]_vars => Once'
<1> SUFFICES ASSUME Types, Numbers, Once, [Next]_vars PROVE Once'
  OBVIOUS
<1> USE Bounds
<1>1. ASSUME UNCHANGED <<calls, done, draft, again>> PROVE Once'
  BY <1>1 DEF Once, Twice, Own, SentOnceUnlessRetried
<1>2. ASSUME NEW k \in Texts, Write(k) PROVE Once'
  <2>1. UNCHANGED <<calls, done, again>> /\ draft' = texts + 1
    BY <1>2 DEF Write
  <2>2. (\A c \in calls : c.text # texts + 1) /\ \A r \in done : r.text # texts + 1
    BY DEF Numbers, Given, Types, TypeOK, Call, Sent
  <2> QED BY <2>1, <2>2 DEF Once, Twice, Own, SentOnceUnlessRetried
<1>3. ASSUME NEW key \in BOOLEAN, Submit(key) PROVE Once'
  <2>1. tab \in Kinds /\ tab \in Writing
    BY DEF Types, TypeOK, Kinds, Writing
  <2> QED BY <1>3, <2>1, MutateOnce DEF Submit, composer
<1>4. ASSUME NEW kind \in Transitions, Transition(kind) PROVE Once'
  BY <1>4, MutateOnce DEF Transition, Kinds, composer, history
<1>5. CASE Share
  BY <1>5, MutateOnce DEF Share, Kinds, composer, history
<1>6. ASSUME NEW t \in Tickets, Move(t) PROVE Once'
  <2> DEFINE F == [c \in calls |-> IF c.current
                 THEN [c EXCEPT !.to = t, !.at = IF c.st = "held" THEN t ELSE c.at,
                                !.moved = c.moved \/ c.st = "held"]
                 ELSE c]
  <2>1. calls' = {F[c] : c \in calls} /\ UNCHANGED <<done, draft, again>>
    BY <1>6 DEF Move, composer, history
  <2>2. \A c \in calls : /\ F[c].n = c.n /\ F[c].kind = c.kind /\ F[c].text = c.text
                         /\ F[c].here = c.here /\ F[c].st = c.st
    BY DEF Types, TypeOK, Call
  <2> HIDE DEF F
  <2> QED BY <2>1, <2>2, OnceAlone
<1>7. ASSUME NEW t \in Tickets, Return(t) PROVE Once'
  <2> DEFINE F == [c \in calls |-> [c EXCEPT !.current = FALSE, !.here = FALSE]]
  <2>1. calls' = {F[c] : c \in calls} /\ UNCHANGED <<done, again>> /\ draft' = 0
    BY <1>7 DEF Return
  <2>2. \A c \in calls : F[c].n = c.n /\ F[c].kind = c.kind /\ F[c].text = c.text /\ F[c].st = c.st
    BY DEF Types, TypeOK, Call
  <2> HIDE DEF F
  <2> QED BY <2>1, <2>2 DEF Once, Twice, Own, SentOnceUnlessRetried
<1>8. CASE GoOnline
  <2> DEFINE F == [c \in calls |-> IF c.st = "held" THEN [c EXCEPT !.st = "sent"] ELSE c]
  <2>1. calls' = {F[c] : c \in calls} /\ UNCHANGED <<done, draft, again>>
    BY <1>8 DEF GoOnline, composer, history
  <2>2. \A c \in calls : /\ F[c].n = c.n /\ F[c].kind = c.kind /\ F[c].text = c.text
                         /\ F[c].here = c.here /\ (F[c].st = c.st \/ F[c].st # "error")
    BY DEF Types, TypeOK, Call
  <2> HIDE DEF F
  <2> QED BY <2>1, <2>2, OnceAlone
<1>9. ASSUME NEW c \in calls, NEW s \in {"ok", "error"}, calls' = (calls \ {c}) \cup {[c EXCEPT !.st = s]},
             UNCHANGED <<draft, done>>, again \subseteq again',
             s = "ok" \/ c.text \in again' \/ \A r \in done : r.n # c.n
      PROVE  Once'
  <2> DEFINE F == [d \in calls |-> IF d = c THEN [d EXCEPT !.st = s] ELSE d]
  <2>1. calls' = {F[d] : d \in calls}
    BY <1>9
  <2>2. \A d \in calls : /\ F[d].n = d.n /\ F[d].kind = d.kind /\ F[d].text = d.text
                         /\ F[d].here = d.here
                         /\ F[d].st = d.st \/ (d = c /\ F[d].st = s)
    BY DEF Types, TypeOK, Call
  <2> HIDE DEF F
  <2> QED BY <1>9, <2>1, <2>2, OnceAlone
<1>10. ASSUME NEW c \in calls, CallFails(c) PROVE Once'
  <2>1. c.st = "sent" => \A r \in done : r.n # c.n
    BY DEF Numbers, Written
  <2> QED BY <1>9, <1>10, <2>1 DEF CallFails, composer
<1>11. ASSUME NEW c \in calls, Serve(c), done' = done PROVE Once'
  <2>1. \A r \in done : r.n # c.n
    BY <1>11 DEF Serve, Numbers, Written
  <2>2. UNCHANGED <<draft, again>>
    BY <1>11 DEF Serve, composer, history
  <2> QED BY <1>9, <1>11, <2>1, <2>2 DEF Serve
<1>12. ASSUME NEW c \in calls, Serve(c), done' # done PROVE Once'
  <2> DEFINE e == [c EXCEPT !.st = "ok"]
  <2>1. /\ calls' = (calls \ {c}) \cup {e} /\ done' = done \cup {Text(c)}
        /\ UNCHANGED <<draft, again>> /\ c.st = "sent"
    BY <1>12 DEF Serve, composer, history
  <2>2. /\ e.n = c.n /\ e.text = c.text /\ e.st = "ok" /\ e.here = c.here /\ e.kind = c.kind
        /\ Text(c).n = c.n /\ Text(c).text = c.text
    BY DEF Types, TypeOK, Call, Text
  <2> HIDE DEF e
  <2>3. \A r \in done : r.n # c.n
    BY <2>1 DEF Numbers, Written
  <2>4. \A d \in calls \ {c} : d.n # c.n
    BY DEF Numbers, Apart
  <2>5. Own'
    BY <2>1, <2>2 DEF Once, Own
  <2>6. SentOnceUnlessRetried'
    <3> SUFFICES ASSUME NEW r1 \in done', NEW r2 \in done', r1.n < r2.n, r1.text = r2.text, r1.text # 0
                 PROVE  r1.text \in again
      BY <2>1 DEF SentOnceUnlessRetried
    <3>1. r1.n # r2.n
      <4>1. r1.n \in Int /\ r2.n \in Int
        BY <2>1, <2>2 DEF Types, TypeOK, Sent, Call
      <4> QED BY <4>1
    <3>2. CASE r1 \in done /\ r2 \in done
      BY <3>2 DEF Once, SentOnceUnlessRetried
    <3>3. CASE r1 = Text(c) /\ r2 \in done
      BY <2>2, <3>1, <3>3 DEF Once, Twice
    <3>4. CASE r1 \in done /\ r2 = Text(c)
      BY <2>2, <3>1, <3>4 DEF Once, Twice
    <3> QED BY <2>1, <3>1, <3>2, <3>3, <3>4
  <2>7. Twice'
    <3>1. ASSUME NEW d1 \in calls', NEW d2 \in calls', d1.n # d2.n, d1.text = d2.text, d1.text # 0
          PROVE  d1.text \in again
      BY <2>1, <2>2, <3>1 DEF Once, Twice
    <3>2. ASSUME NEW d \in calls', NEW r \in done', r.n # d.n, r.text = d.text, d.text # 0
          PROVE  d.text \in again
      BY <2>1, <2>2, <3>2 DEF Once, Twice
    <3>3. ASSUME NEW d \in calls', NEW r \in done', r.n = d.n, d.st = "error" PROVE d.text \in again
      BY <2>1, <2>2, <2>4, <3>3 DEF Once, Twice
    <3>4. ASSUME NEW r \in done', r.text = draft, draft # 0
          PROVE  draft \in again \/ \E d \in calls' : d.n = r.n /\ d.text = draft
      BY <2>1, <2>2, <3>4 DEF Once, Twice
    <3> QED BY <2>1, <3>1, <3>2, <3>3, <3>4 DEF Twice
  <2> QED BY <2>5, <2>6, <2>7 DEF Once
<1>13. ASSUME NEW c \in calls, AnswerCall(c) PROVE Once'
  <2>1. /\ calls' = calls \ {c} /\ UNCHANGED <<done, again>> /\ draft' \in {0, draft}
        /\ c.st \in {"ok", "error"} /\ (Clears(c) => draft' = 0)
    BY <1>13 DEF AnswerCall, history
  <2>2. Own' /\ SentOnceUnlessRetried'
    BY <2>1 DEF Once, Own, SentOnceUnlessRetried
  <2>3. ASSUME NEW r \in done, r.text = draft', draft' # 0
        PROVE  draft' \in again \/ \E d \in calls' : d.n = r.n /\ d.text = draft'
    <3>1. draft' = draft
      BY <2>1, <2>3
    <3>2. ASSUME r.n = c.n, c.text = draft PROVE draft \in again
      <4>1. c.here /\ c.kind \in Writing /\ ~Clears(c)
        BY <2>1, <2>3, <3>1, <3>2 DEF Once, Own
      <4>2. c.st = "error"
        BY <2>1, <4>1 DEF Clears, Writing
      <4> QED BY <3>2, <4>2 DEF Once, Twice
    <3> QED BY <2>1, <2>3, <3>1, <3>2 DEF Once, Twice
  <2>4. Twice'
    BY <2>1, <2>3 DEF Once, Twice
  <2> QED BY <2>2, <2>4 DEF Once
<1>14. CASE \/ \E tb \in Writing : SetTab(tb)
            \/ Attach \/ GoOffline
            \/ \E t \in Tickets : Poll(t) \/ Receive(t) \/ FetchFails(t)
            \/ \E t \in Tickets, kind \in Transitions : Somebody(t, kind)
  <2>1. UNCHANGED <<calls, done, draft, again>>
    BY <1>14 DEF SetTab, Attach, GoOffline, Poll, Receive, FetchFails, Somebody, composer, history
  <2> QED BY <1>1, <2>1
<1>15. CASE UNCHANGED vars
  BY <1>1, <1>15 DEF vars
<1> QED BY <1>2, <1>3, <1>4, <1>5, <1>6, <1>7, <1>8, <1>10, <1>11, <1>12, <1>13, <1>14, <1>15
    DEF Next, Person, Network, Writing

-----------------------------------------------------------------------------
(* What is shown is what the ticket was, and a refusal tells that it changed. *)

\* Of the status and version in a, those of the ticket b may be later.
Before(a, b) == a.version <= b.version /\ (a.version = b.version => a.status = b.status)

\* No answer is ahead of the server, and one of the same version has its status.
Shown ==
    \A t \in Tickets :
        /\ cache[t].loaded => Before(cache[t], server[t])
        /\ fetch[t].st = "read" => Before(fetch[t], server[t])

\* A transition under way was offered for the status of its version.
Offered ==
    \A c \in calls : c.kind \in Transitions /\ ~c.moved =>
        /\ c.version <= server[c.at].version
        /\ c.version = server[c.at].version => Can(c.kind, server[c.at].status)

Explained == Shown /\ Offered /\ RefusedExplained

\* A ticket's version grows when its status is set.
Grows(t) == server'[t] = server[t] \/ server'[t].version = server[t].version + 1

\* Every step keeps each ticket or makes it a version younger.
LEMMA ServerGrows == ASSUME Types, [Next]_vars, NEW t \in Tickets PROVE Grows(t)
<1>1. ASSUME UNCHANGED server PROVE Grows(t)
  BY <1>1 DEF Grows
<1>2. ASSUME NEW u \in Tickets, NEW s, server' = SetStatus(u, s) PROVE Grows(t)
  BY <1>2 DEF Grows, SetStatus, Types, TypeOK
<1>3. ASSUME NEW c \in calls, Serve(c) PROVE Grows(t)
  <2>1. c.at \in Tickets
    BY DEF Types, TypeOK, Call
  <2>2. server' = server \/ \E s \in Statuses : server' = SetStatus(c.at, s)
    <3>1. \A kind \in Transitions : Target(kind) \in Statuses
      BY DEF Transitions, Target, Statuses
    <3> QED BY <1>3, <3>1 DEF Serve, Effect, AfterReply, Address, Statuses
  <2> QED BY <1>1, <1>2, <2>1, <2>2
<1>4. ASSUME NEW u \in Tickets, NEW kind \in Transitions, Somebody(u, kind) PROVE Grows(t)
  BY <1>2, <1>4 DEF Somebody
<1>5. ASSUME \A c \in calls : ~Serve(c), \A u \in Tickets, kind \in Transitions : ~Somebody(u, kind)
      PROVE  UNCHANGED server
  BY <1>5 DEF Next, Person, Network, vars, Write, Submit, SetTab, Transition, Move, Return, Attach, Share,
     Poll, Receive, FetchFails, CallFails, AnswerCall, GoOffline, GoOnline
<1> QED BY <1>1, <1>3, <1>4, <1>5

\* What was read before a ticket grew is before it still.
LEMMA StillBefore ==
    ASSUME Types, [Next]_vars, NEW t \in Tickets, NEW a, a.version \in Nat, Before(a, server[t])
    PROVE  Before(a, server'[t])
<1>1. server[t].version \in Nat
  BY DEF Types, TypeOK
<1> QED BY <1>1, ServerGrows DEF Before, Grows

\* No answer overtakes the server.
LEMMA ShownStep == Types /\ Shown /\ [Next]_vars => Shown'
<1> SUFFICES ASSUME Types, Shown, [Next]_vars, NEW t \in Tickets
             PROVE  /\ cache'[t].loaded => Before(cache'[t], server'[t])
                    /\ fetch'[t].st = "read" => Before(fetch'[t], server'[t])
  BY DEF Shown, Before
<1> DEFINE G == /\ cache'[t].loaded => Before(cache'[t], server'[t])
                /\ fetch'[t].st = "read" => Before(fetch'[t], server'[t])
<1>1. /\ cache[t].version \in Nat /\ fetch[t].version \in Nat
      /\ cache[t].loaded => Before(cache[t], server'[t])
      /\ fetch[t].st = "read" => Before(fetch[t], server'[t])
  <2>1. cache[t].version \in Nat /\ fetch[t].version \in Nat
    BY DEF Types, Answered, Fetched
  <2> QED BY <2>1, StillBefore DEF Shown
<1>2. \/ UNCHANGED <<cache, fetch>>
      \/ \E u \in Tickets : Poll(u) \/ Receive(u) \/ FetchFails(u)
      \/ \E c \in calls : AnswerCall(c)
  BY DEF Next, Person, Network, vars, seen, Write, Submit, SetTab, Transition, Move, Return, Attach, Share,
     Serve, CallFails, GoOffline, GoOnline, Somebody
<1>3. ASSUME UNCHANGED <<cache, fetch>> PROVE G
  BY <1>1, <1>3
<1>4. ASSUME NEW u \in Tickets, Poll(u) PROVE G
  <2>1. UNCHANGED <<cache, server>>
    BY <1>4 DEF Poll
  <2>2. fetch'[t] = fetch[t] \/ Before(fetch'[t], server[t])
    BY <1>4 DEF Poll, Before, Types, TypeOK
  <2> QED BY <1>1, <2>1, <2>2
<1>5. ASSUME NEW u \in Tickets, Receive(u) PROVE G
  <2>1. fetch'[t] = fetch[t] \/ fetch'[t].st = "none"
    BY <1>5 DEF Receive, NoFetch, Types
  <2>2. \/ cache'[t] = cache[t]
        \/ /\ fetch[t].st = "read"
           /\ cache'[t].version = fetch[t].version /\ cache'[t].status = fetch[t].status
    BY <1>5 DEF Receive, Types
  <2> QED BY <1>1, <2>1, <2>2 DEF Before
<1>6. ASSUME NEW u \in Tickets, FetchFails(u) PROVE G
  <2>1. fetch'[t] = fetch[t] \/ fetch'[t].st = "none"
    BY <1>6 DEF FetchFails, NoFetch, Types
  <2>2. /\ cache'[t].loaded = cache[t].loaded
        /\ cache'[t].version = cache[t].version /\ cache'[t].status = cache[t].status
    BY <1>6 DEF FetchFails, Types, Answered
  <2> QED BY <1>1, <2>1, <2>2 DEF Before
<1>7. ASSUME NEW c \in calls, AnswerCall(c) PROVE G
  <2>1. UNCHANGED <<cache>>
    BY <1>7 DEF AnswerCall
  <2>2. fetch'[t] = fetch[t] \/ fetch'[t].st = "none"
    BY <1>7 DEF AnswerCall, Invalidate, NoFetch, Types
  <2> QED BY <1>1, <2>1, <2>2
<1>8. CASE \E u \in Tickets : Poll(u) \/ Receive(u) \/ FetchFails(u)
  BY <1>4, <1>5, <1>6, <1>8
<1>9. CASE \E c \in calls : AnswerCall(c)
  BY <1>7, <1>9
<1> QED BY <1>2, <1>3, <1>8, <1>9

\* No transition is refused but for the reasons RefusedExplained names.
LEMMA ExplainedStep == Types /\ Explained /\ [Next]_vars => Explained'
<1> SUFFICES ASSUME Types, Explained, [Next]_vars PROVE Explained'
  OBVIOUS
<1>1. Shown'
  BY ShownStep DEF Explained
<1>2. ASSUME NEW c \in calls', c.kind \in Transitions, ~c.moved
      PROVE  /\ c.version <= server'[c.at].version
             /\ c.version = server'[c.at].version => Can(c.kind, server'[c.at].status)
  <2>1. ASSUME NEW d \in calls, Follows(c, d)
        PROVE  /\ c.version <= server'[c.at].version
               /\ c.version = server'[c.at].version => Can(c.kind, server'[c.at].status)
    <3>1. c.at = d.at /\ ~d.moved /\ c.kind = d.kind /\ c.version = d.version
      BY <1>2, <2>1 DEF Follows
    <3>2. d.at \in Tickets /\ d.version \in Nat /\ server[d.at].version \in Nat
      BY DEF Types, TypeOK, Call
    <3>3. /\ d.version <= server[d.at].version
          /\ d.version = server[d.at].version => Can(d.kind, server[d.at].status)
      BY <1>2, <3>1 DEF Explained, Offered
    <3>4. Grows(d.at)
      BY <3>2, ServerGrows
    <3> QED BY <3>1, <3>2, <3>3, <3>4 DEF Grows
  <2>2. ASSUME New(c), \A d \in calls : ~Follows(c, d)
        PROVE  /\ c.version <= server'[c.at].version
               /\ c.version = server'[c.at].version => Can(c.kind, server'[c.at].status)
    <3>1. used' # used
      BY <2>2 DEF New, Types
    <3>2. c.at = shown /\ c.version = cache[shown].version /\ shown \in Tickets
      BY <2>2 DEF New, Types, TypeOK
    <3>3. \A d \in calls : \A b :
            /\ [d EXCEPT !.current = b].kind = d.kind
            /\ Follows([d EXCEPT !.current = b], d)
      BY DEF Types, TypeOK, Call, Follows
    <3>4. ASSUME NEW kind, NEW text, NEW f, Mutate(kind, text, f) PROVE c.kind = kind
      BY <2>2, <3>3, <3>4 DEF Mutate
    <3>5. UNCHANGED server /\ Can(c.kind, cache[shown].status) /\ cache[shown].loaded
      <4>1. \/ \E key \in BOOLEAN : Submit(key)
            \/ \E kind \in Transitions : Transition(kind)
            \/ Share
        BY <3>1 DEF Next, Person, Network, vars, Write, SetTab, Move, Return, Attach, Poll, Receive,
           FetchFails, Serve, CallFails, AnswerCall, GoOffline, GoOnline, Somebody
      <4>2. tab \notin Transitions /\ "share" \notin Transitions
        BY DEF Types, TypeOK, Transitions
      <4>3. \A key \in BOOLEAN : ~Submit(key)
        BY <1>2, <3>4, <4>2 DEF Submit
      <4>4. ~Share
        BY <1>2, <3>4, <4>2 DEF Share
      <4>5. PICK kind \in Transitions : Transition(kind)
        BY <4>1, <4>3, <4>4
      <4> QED BY <3>4, <4>5 DEF Transition, Loaded
    <3>6. Before(cache[shown], server[shown])
      BY <3>2, <3>5 DEF Explained, Shown
    <3> QED BY <3>2, <3>5, <3>6 DEF Before
  <2> QED BY <2>1, <2>2, Succession
<1>3. ASSUME NEW c \in calls, Serve(c) PROVE RefusedExplained'
  <2> DEFINE r == [kind |-> c.kind, status |-> server[c.at].status,
                   changed |-> c.moved \/ c.version # server[c.at].version]
  <2>1. \/ refused' = refused
        \/ /\ c.kind \in Transitions /\ ~Legal(c.kind, server[c.at].status)
           /\ refused' = refused \cup {r}
    BY <1>3 DEF Serve, Address
  <2>2. ASSUME c.kind \in Transitions, ~Legal(c.kind, server[c.at].status), ~r.changed
        PROVE  r.kind = "pend" /\ r.status = "acknowledged"
    <3>1. ~c.moved /\ c.version = server[c.at].version
      BY <2>2
    <3>2. Can(c.kind, server[c.at].status)
      BY <2>2, <3>1 DEF Explained, Offered
    <3> QED BY <2>2, <3>2 DEF Can, Legal
  <2> HIDE DEF r
  <2> QED BY <2>1, <2>2 DEF Explained, RefusedExplained
<1>4. (\A c \in calls : ~Serve(c)) => UNCHANGED refused
  BY DEF Next, Person, Network, vars, Write, Submit, SetTab, Transition, Move, Return, Attach, Share,
     Poll, Receive, FetchFails, CallFails, AnswerCall, GoOffline, GoOnline, Somebody
<1>5. RefusedExplained'
  BY <1>3, <1>4 DEF Explained, RefusedExplained
<1>6. Offered'
  BY <1>2 DEF Offered
<1> QED BY <1>1, <1>5, <1>6 DEF Explained

-----------------------------------------------------------------------------
(* The theorems *)

\* All of it together, an inductive invariant.
IInv == Types /\ Right /\ Numbers /\ Kept /\ Once /\ Explained

\* An empty page satisfies it.
LEMMA IInvInit == Init => IInv
<1> SUFFICES ASSUME Init PROVE IInv
  OBVIOUS
<1>1. Types
  BY TypesInit
<1>2. /\ calls = {} /\ done = {} /\ wanted = {} /\ astray = {} /\ refused = {}
      /\ draft = 0 /\ texts = 0
  BY DEF Init
<1>3. Right /\ Kept /\ Once
  BY <1>2 DEF Right, RightTicket, Kept, OnScreen, DraftsKept, Once, Twice, Own, SentOnceUnlessRetried
<1>4. Numbers
  BY <1>2 DEF Numbers, Given, Apart, Written
<1>5. Shown
  BY DEF Init, Shown, NoAnswer, NoFetch
<1>6. Explained
  BY <1>2, <1>5 DEF Explained, Offered, RefusedExplained
<1> QED BY <1>1, <1>3, <1>4, <1>6 DEF IInv

\* It holds of every reachable state.
THEOREM Invariance == Spec => []IInv
<1>1. IInv /\ [Next]_vars => IInv'
  BY TypesStep, RightStep, NumbersStep, KeptStep, OnceStep, ExplainedStep DEF IInv
<1> QED BY IInvInit, <1>1, PTL DEF Spec

\* What is asked for on one ticket is done to that ticket, but for a request
\* held back offline while the page moved on.
THEOREM RightTicketHolds == Spec => []RightTicket
<1>1. IInv => RightTicket
  BY DEF IInv, Right
<1> QED BY Invariance, <1>1, PTL

\* What was written is kept until it is sent, but in the two known ways to lose it.
THEOREM DraftsKeptHolds == Spec => []DraftsKept
<1>1. IInv => DraftsKept
  BY DEF IInv, Kept
<1> QED BY Invariance, <1>1, PTL

\* A text is sent once, unless it was sent again before an answer or after a lost one.
THEOREM SentOnceHolds == Spec => []SentOnceUnlessRetried
<1>1. IInv => SentOnceUnlessRetried
  BY DEF IInv, Once
<1> QED BY Invariance, <1>1, PTL

\* Types, and that refusals are explained.
THEOREM InvHolds == Spec => []Inv
<1>1. IInv => Inv
  BY DEF IInv, Types, Explained, Inv
<1> QED BY Invariance, <1>1, PTL

=============================================================================
