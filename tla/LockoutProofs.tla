------------------------------ MODULE LockoutProofs ------------------------------
(***************************************************************************)
(* Proofs about Lockout, for any accounts, handlers, tickets and links,    *)
(* any tiers and windows, and an unbounded clock.                          *)
(***************************************************************************)
EXTENDS Lockout, TLAPS

-----------------------------------------------------------------------------
(* The invariant *)

\* What a handler holds at each step.
Verified(h) == req[h].step \in {"verified", "refused"} => req[h].attempts < Threshold

\* The tickets that are open or that a restore can open again.
Standing == {"open", "hidden"}
Filed(u) == {k \in Tickets : tickets[k].state \in Standing /\ tickets[k].user = u}

\* Every recent ticket of the user is known to be one the check did not see.
Creating(h) ==
    req[h].step = "create_ticket" =>
      \A k \in Filed(req[h].user) : tickets[k].created >= now - TicketWindow => k \in req[h].unseen

\* The link found is not reused, and belongs to the user as long as it counts.
Marking(h) ==
    req[h].step = "mark_used" =>
      /\ req[h].link \in Links /\ links[req[h].link].state # "none"
      /\ links[req[h].link].state = "unused" => links[req[h].link].user = req[h].user

HandlerOK(h) ==
    /\ req[h].step # "idle" => req[h].user \in Users
    /\ Verified(h) /\ Creating(h) /\ Marking(h)

LinksOK == \A l \in Links : links[l].state = "unused" => links[l].user \in Users

\* OneTicketUnlessUnseen, of the hidden tickets as well.
OneFiledUnlessUnseen ==
    \A u \in Users : \A j, k \in Filed(u) :
        j # k /\ Close(j, k) => j \in tickets[k].unseen \/ k \in tickets[j].unseen

IInv == /\ TypeOK /\ LockMatchesCount /\ OneFiledUnlessUnseen /\ DeskHasRecoveryLink /\ LinksOK
        /\ \A h \in Handlers : HandlerOK(h)

-----------------------------------------------------------------------------
(* Rows and handlers *)

\* The values a handler and the rows start with.
LEMMA Rows ==
    /\ Unlocked \in Account /\ NoTicket \in Ticket /\ NoLinkRow \in Link /\ Idle \in Handler
    /\ Unlocked.attempts = 0 /\ Unlocked.lock.kind = "none" /\ Idle.step = "idle"
BY ThresholdAssumption DEF Unlocked, Account, Lock, NoLock, NoTicket, Ticket, NoLinkRow, Link,
                           Idle, Handler, Steps

\* Nothing is there at first.
LEMMA IInvInit == Init => IInv
<1> SUFFICES ASSUME Init PROVE IInv
  OBVIOUS
<1>1. TypeOK
  BY Rows DEF Init, TypeOK
<1>2. \A u \in Users : accounts[u].attempts = 0 /\ accounts[u].lock.kind = "none"
  BY Rows DEF Init
<1>3. LockMatchesCount
  BY <1>2, ThresholdAssumption DEF LockMatchesCount
<1>4. OneFiledUnlessUnseen
  BY DEF Init, OneFiledUnlessUnseen, Filed, Standing, NoTicket
<1>5. DeskHasRecoveryLink
  BY <1>2 DEF DeskHasRecoveryLink, PermanentlyLocked, Users
<1>6. \A h \in Handlers : HandlerOK(h)
  BY Rows DEF Init, HandlerOK, Verified, Creating, Marking
<1>7. LinksOK
  BY DEF Init, LinksOK, NoLinkRow
<1> QED BY <1>1, <1>3, <1>4, <1>5, <1>6, <1>7 DEF IInv

-----------------------------------------------------------------------------
(* What each kind of step keeps *)

\* No ticket is filed.
TicketsQuiet ==
    \A k \in Tickets : tickets'[k].state \in Standing =>
        /\ tickets[k].state \in Standing /\ tickets'[k].user = tickets[k].user
        /\ tickets'[k].created = tickets[k].created /\ tickets'[k].unseen = tickets[k].unseen

\* No link row is reused.
LinksKept ==
    \A l \in Links : links[l].state # "none" =>
        /\ links'[l].state # "none"
        /\ links'[l].state = "unused" => links'[l] = links[l]

\* A handler that does not act.
LEMMA OtherOK ==
    ASSUME IInv, NEW i \in Handlers, req'[i] = req[i], now' \in Nat, now' >= now,
           TicketsQuiet, LinksKept
    PROVE  HandlerOK(i)'
<1>1. HandlerOK(i) /\ now \in Nat /\ tickets \in [Tickets -> Ticket]
  BY DEF IInv, TypeOK
<1>2. Creating(i)'
  <2> SUFFICES ASSUME req[i].step = "create_ticket", NEW k \in Tickets,
                      tickets'[k].state \in Standing, tickets'[k].user = req[i].user,
                      tickets'[k].created >= now' - TicketWindow
               PROVE  k \in req[i].unseen
    BY DEF Creating, Filed
  <2>1. /\ tickets'[k].created = tickets[k].created /\ tickets'[k].user = tickets[k].user
        /\ tickets[k].state \in Standing /\ tickets[k].created \in Nat
    BY <1>1 DEF TicketsQuiet, Ticket
  <2>2. tickets[k].created >= now - TicketWindow
    BY <1>1, <2>1, WindowsAssumption
  <2> QED BY <1>1, <2>1, <2>2 DEF HandlerOK, Creating, Filed
<1>3. Marking(i)'
  BY <1>1 DEF HandlerOK, Marking, LinksKept
<1> QED BY <1>1, <1>2, <1>3 DEF HandlerOK, Verified

LEMMA FiledQuiet == ASSUME OneFiledUnlessUnseen, TicketsQuiet PROVE OneFiledUnlessUnseen'
<1>1. \A u \in Users : \A k \in Filed(u)' :
        k \in Filed(u) /\ tickets'[k].created = tickets[k].created /\ tickets'[k].unseen = tickets[k].unseen
  BY DEF TicketsQuiet, Filed
<1> QED BY <1>1 DEF OneFiledUnlessUnseen, Close

\* One handler's step that files no ticket.
LEMMA StepOK ==
    ASSUME IInv, NEW h \in Handlers, NEW r \in Handler, req' = [req EXCEPT ![h] = r],
           now' = now, TicketsQuiet, LinksKept,
           accounts' \in [Users -> Account], deleted' = deleted, tickets' \in [Tickets -> Ticket],
           links' \in [Links -> Link], lost' \in SUBSET Desks,
           HandlerOK(h)', LockMatchesCount', DeskHasRecoveryLink', LinksOK'
    PROVE  IInv'
<1>1. now \in Nat /\ req \in [Handlers -> Handler]
  BY DEF IInv, TypeOK
<1>2. TypeOK'
  BY <1>1 DEF IInv, TypeOK
<1>3. ASSUME NEW i \in Handlers, i # h PROVE HandlerOK(i)'
  <2>1. req'[i] = req[i] /\ now' >= now
    BY <1>1, <1>3
  <2> QED BY <1>1, <2>1, OtherOK
<1>4. OneFiledUnlessUnseen'
  BY FiledQuiet DEF IInv
<1> QED BY <1>2, <1>3, <1>4 DEF IInv

Sending == {"check_link", "clear_links", "create_link", "reset"}
Recovering(u) == Unused(u) # {} \/ \E h \in Handlers : req[h].user = u /\ req[h].step \in Sending

LEMMA DeskDef == DeskHasRecoveryLink <=> \A u \in Desks \ lost : PermanentlyLocked(u) => Recovering(u)
BY DEF DeskHasRecoveryLink, Recovering, Sending

\* Who was recovering still is, unless the acting handler was the only reason.
LEMMA RecoveringKept ==
    ASSUME NEW h \in Handlers, NEW u \in Desks, Recovering(u),
           \A i \in Handlers \ {h} : req'[i] = req[i],
           Unused(u) \subseteq Unused(u)' \/ (req'[h].user = u /\ req'[h].step \in Sending),
           req[h].user = u /\ req[h].step \in Sending =>
             Unused(u)' # {} \/ (req'[h].user = u /\ req'[h].step \in Sending)
    PROVE  Recovering(u)'
BY DEF Recovering

\* The permanent locks are those of before.
LEMMA DeskKept ==
    ASSUME IInv, NEW h \in Handlers, accounts' = accounts, lost \subseteq lost',
           \A i \in Handlers \ {h} : req'[i] = req[i],
           \A u \in Desks : Unused(u) \subseteq Unused(u)' \/ (req'[h].user = u /\ req'[h].step \in Sending),
           \A u \in Desks \ lost' : req[h].user = u /\ req[h].step \in Sending =>
             Unused(u)' # {} \/ (req'[h].user = u /\ req'[h].step \in Sending)
    PROVE  DeskHasRecoveryLink'
<1>1. \A u \in Desks \ lost' : PermanentlyLocked(u)' => Recovering(u)
  BY DeskDef DEF IInv, PermanentlyLocked
<1>2. \A u \in Desks \ lost' : PermanentlyLocked(u)' => Recovering(u)'
  BY <1>1, RecoveringKept
<1> QED BY <1>2 DEF DeskHasRecoveryLink, Recovering, Sending

\* A step that touches neither the accounts nor the links.
LEMMA DeskQuiet ==
    ASSUME IInv, NEW h \in Handlers, UNCHANGED <<accounts, links, lost>>,
           \A i \in Handlers \ {h} : req'[i] = req[i],
           req[h].step \in Sending => req'[h].user = req[h].user /\ req'[h].step \in Sending
    PROVE  DeskHasRecoveryLink'
<1>1. \A u \in Desks : Unused(u)' = Unused(u)
  BY DEF Unused
<1> QED BY <1>1, DeskKept

LEMMA IdleOK == ASSUME NEW h \in Handlers, req'[h] = Idle PROVE HandlerOK(h)'
BY Rows DEF HandlerOK, Verified, Creating, Marking

\* Moving on keeps the rest of what the handler holds.
LEMMA GotoOK ==
    ASSUME IInv, NEW h \in Handlers, NEW step \in Steps, Goto(h, step)
    PROVE  /\ [req[h] EXCEPT !.step = step] \in Handler
           /\ req' = [req EXCEPT ![h] = [req[h] EXCEPT !.step = step]]
           /\ req'[h].step = step /\ req'[h].user = req[h].user /\ req'[h].attempts = req[h].attempts
           /\ req'[h].link = req[h].link /\ req'[h].unseen = req[h].unseen
           /\ \A i \in Handlers \ {h} : req'[i] = req[i]
<1>1. req \in [Handlers -> Handler] /\ req[h] \in Handler
  BY DEF IInv, TypeOK
<1> QED BY <1>1 DEF Goto, Handler

LEMMA FinishOK ==
    ASSUME IInv, NEW h \in Handlers, Finish(h)
    PROVE  /\ Idle \in Handler /\ req' = [req EXCEPT ![h] = Idle] /\ req'[h] = Idle
           /\ HandlerOK(h)' /\ \A i \in Handlers \ {h} : req'[i] = req[i]
<1>1. req \in [Handlers -> Handler]
  BY DEF IInv, TypeOK
<1> QED BY <1>1, Rows, IdleOK DEF Finish

\* Rows that do not change.
LEMMA RowsKept ==
    ASSUME IInv
    PROVE  /\ UNCHANGED tickets => TicketsQuiet /\ tickets' \in [Tickets -> Ticket]
           /\ UNCHANGED links => LinksKept /\ links' \in [Links -> Link] /\ LinksOK'
                                 /\ \A u \in Users : Unused(u)' = Unused(u)
           /\ UNCHANGED accounts => LockMatchesCount' /\ accounts' \in [Users -> Account]
           /\ UNCHANGED lost => lost' \in SUBSET Desks
BY DEF IInv, TypeOK, TicketsQuiet, LinksKept, LinksOK, LockMatchesCount, Unused

-----------------------------------------------------------------------------
(* Logins *)

LEMMA LoginFindKeeps ==
    ASSUME IInv, NEW h \in Handlers, NEW u \in Users, LoginFind(h, u)
    PROVE  IInv'
<1> DEFINE r == [Idle EXCEPT !.step = IF u \in deleted THEN "refused" ELSE "verified",
                               !.user = u, !.attempts = accounts[u].attempts]
<1>1. /\ req[h].step = "idle" /\ ~Locked(u) /\ req' = [req EXCEPT ![h] = r]
      /\ UNCHANGED <<now, accounts, deleted, tickets, links, lost>>
  BY DEF LoginFind
<1>2. req \in [Handlers -> Handler] /\ accounts[u] \in Account
  BY DEF IInv, TypeOK
<1>3. accounts[u].attempts \in 0 .. Threshold
  BY <1>2 DEF Account
<1>4. accounts[u].attempts < Threshold
  <2>1. ~(accounts[u].attempts >= Threshold)
    BY <1>1 DEF IInv, LockMatchesCount, Locked
  <2> QED BY <2>1, <1>3, ThresholdAssumption
<1>5. r \in Handler /\ r.step \in {"verified", "refused"} /\ r.user = u /\ r.attempts = accounts[u].attempts
  BY <1>3 DEF Idle, Handler, Steps
<1> HIDE DEF r
<1>6. req'[h] = r /\ \A i \in Handlers \ {h} : req'[i] = req[i]
  BY <1>1, <1>2
<1>7. HandlerOK(h)'
  BY <1>4, <1>5, <1>6, <1>1 DEF HandlerOK, Verified, Creating, Marking
<1>8. DeskHasRecoveryLink'
  BY <1>1, <1>6, DeskQuiet DEF Sending
<1> QED BY <1>1, <1>5, <1>7, <1>8, RowsKept, StepOK

\* An account that is unlocked by a handler.
LEMMA ResetKeeps ==
    ASSUME IInv, NEW h \in Handlers, LoginSucceed(h) \/ ExchangeReset(h)
    PROVE  IInv'
<1> DEFINE u0 == req[h].user
<1>1. /\ req[h].step # "idle" /\ accounts' = [accounts EXCEPT ![u0] = Unlocked] /\ Finish(h)
      /\ UNCHANGED <<now, deleted, tickets, links, lost>>
  BY DEF LoginSucceed, ExchangeReset
<1>2. u0 \in Users /\ accounts \in [Users -> Account]
  BY <1>1 DEF IInv, HandlerOK, TypeOK
<1>3. accounts'[u0] = Unlocked /\ \A u \in Users : u # u0 => accounts'[u] = accounts[u]
  BY <1>1, <1>2
<1>4. accounts' \in [Users -> Account]
  BY <1>1, <1>2, Rows
<1>5. LockMatchesCount'
  <2>1. accounts'[u0].attempts < FirstLock /\ ~(accounts'[u0].attempts >= Threshold)
        /\ accounts'[u0].lock.kind = "none"
    BY <1>3, Rows, ThresholdAssumption
  <2> QED BY <2>1, <1>3 DEF IInv, LockMatchesCount
<1>6. DeskHasRecoveryLink'
  <2> SUFFICES ASSUME NEW u \in Desks \ lost', PermanentlyLocked(u)' PROVE Recovering(u)'
    BY DEF DeskHasRecoveryLink, Recovering, Sending
  <2>1. u # u0 /\ u \in Users
    BY <1>3, Rows DEF PermanentlyLocked, Users
  <2>2. Recovering(u)
    BY <2>1, <1>1, <1>3, DeskDef DEF IInv, PermanentlyLocked
  <2>3. Unused(u)' = Unused(u)
    BY <2>1, <1>1, RowsKept
  <2> QED BY <2>1, <2>2, <2>3, <1>1, FinishOK, RecoveringKept
<1> QED BY <1>1, <1>4, <1>5, <1>6, RowsKept, FinishOK, StepOK

\* The lock that goes with a number of failures.
LEMMA ComputedLock ==
    ASSUME NEW n \in 1 .. Threshold, now \in Nat
    PROVE  /\ ComputeLockedUntil(n) \in Lock
           /\ ComputeLockedUntil(n).kind = "none" <=> n < FirstLock
           /\ ComputeLockedUntil(n).kind = "forever" <=> n >= Threshold
<1>1. CASE n < FirstLock
  <2>1. ComputeLockedUntil(n) = NoLock /\ ~(n >= Threshold)
    BY <1>1, ThresholdAssumption DEF ComputeLockedUntil
  <2> QED BY <1>1, <2>1 DEF NoLock, Lock
<1>2. CASE n \in FirstLock .. Threshold - 1
  <2>1. Delay[n] \in Nat /\ ~(n < FirstLock) /\ ~(n >= Threshold)
    BY <1>2, DelayAssumption, ThresholdAssumption
  <2>2. ComputeLockedUntil(n) = [kind |-> "until", time |-> now + Delay[n]]
    BY <1>2, <2>1 DEF ComputeLockedUntil
  <2> QED BY <2>1, <2>2 DEF Lock
<1>3. CASE n >= Threshold
  <2>1. ~(n < FirstLock) /\ n \notin FirstLock .. Threshold - 1
    BY <1>3, ThresholdAssumption
  <2>2. ComputeLockedUntil(n) = [kind |-> "forever", time |-> 0]
    BY <2>1 DEF ComputeLockedUntil
  <2> QED BY <1>3, <2>1, <2>2 DEF Lock
<1> QED BY <1>1, <1>2, <1>3, ThresholdAssumption

\* A failure counts from the snapshot; a permanent lock starts the reaction.
LEMMA LoginFailKeeps ==
    ASSUME IInv, NEW h \in Handlers, LoginFail(h)
    PROVE  IInv'
<1> DEFINE u0 == req[h].user
           n == req[h].attempts + 1
           a == [attempts |-> n, lock |-> ComputeLockedUntil(n)]
<1>1. /\ req[h].step \in {"verified", "refused"} /\ accounts' = [accounts EXCEPT ![u0] = a]
      /\ UNCHANGED <<now, deleted, tickets, links, lost>>
  BY DEF LoginFail
<1>2. u0 \in Users /\ accounts \in [Users -> Account] /\ req[h] \in Handler /\ now \in Nat
  BY <1>1 DEF IInv, HandlerOK, TypeOK
<1>3. n \in 1 .. Threshold /\ n \in 0 .. Threshold
  BY <1>1, <1>2, ThresholdAssumption DEF IInv, HandlerOK, Verified, Handler
<1>4. /\ Finish(h) \/ (Goto(h, "check_ticket") /\ u0 \in Clients) \/ Goto(h, "check_link")
      /\ n >= Threshold /\ u0 \in Desks => Goto(h, "check_link")
  <2>1. CASE n < Threshold
    <3>1. ~(n >= Threshold)
      BY <2>1, <1>3, ThresholdAssumption
    <3>2. Finish(h)
      BY <2>1, <3>1 DEF LoginFail
    <3> QED BY <3>1, <3>2
  <2>2. CASE n >= Threshold
    <3>1. ~(n < Threshold)
      BY <2>2, <1>3, ThresholdAssumption
    <3>2. u0 \in Clients \/ u0 \in Desks
      BY <1>2 DEF Users
    <3>3. u0 \in Clients => u0 \notin Desks
      BY RolesAssumption
    <3> QED BY <2>2, <3>1, <3>2, <3>3 DEF LoginFail
  <2> QED BY <2>1, <2>2, <1>3, ThresholdAssumption
<1>5. /\ a \in Account
      /\ a.lock.kind = "none" <=> a.attempts < FirstLock
      /\ a.lock.kind = "forever" <=> a.attempts >= Threshold
      /\ a.lock.kind = "forever" => n >= Threshold
  BY <1>2, <1>3, ComputedLock DEF Account
<1> HIDE DEF a
<1>6. accounts'[u0] = a /\ \A u \in Users : u # u0 => accounts'[u] = accounts[u]
  BY <1>1, <1>2
<1>7. accounts' \in [Users -> Account]
  BY <1>1, <1>2, <1>5
<1>8. LockMatchesCount'
  BY <1>5, <1>6 DEF IInv, LockMatchesCount
<1>9. PICK r \in Handler : /\ req' = [req EXCEPT ![h] = r] /\ HandlerOK(h)'
                           /\ \A i \in Handlers \ {h} : req'[i] = req[i]
  <2>1. CASE Finish(h)
    BY <2>1, FinishOK
  <2>2. ASSUME NEW s \in {"check_ticket", "check_link"}, Goto(h, s)
        PROVE  \E r \in Handler : /\ req' = [req EXCEPT ![h] = r] /\ HandlerOK(h)'
                                  /\ \A i \in Handlers \ {h} : req'[i] = req[i]
    <3>1. s \in Steps
      BY DEF Steps
    <3>2. HandlerOK(h)'
      BY <2>2, <3>1, <1>2, GotoOK DEF HandlerOK, Verified, Creating, Marking
    <3> QED BY <2>2, <3>1, <3>2, GotoOK
  <2> QED BY <2>1, <2>2, <1>4
<1>10. DeskHasRecoveryLink'
  <2> SUFFICES ASSUME NEW u \in Desks \ lost', PermanentlyLocked(u)' PROVE Recovering(u)'
    BY DEF DeskHasRecoveryLink, Recovering, Sending
  <2>1. CASE u = u0
    <3>1. Goto(h, "check_link")
      BY <2>1, <1>4, <1>5, <1>6 DEF PermanentlyLocked
    <3>2. req'[h].step = "check_link" /\ req'[h].user = u0
      BY <3>1, GotoOK DEF Steps
    <3> QED BY <2>1, <3>2 DEF Recovering, Sending
  <2>2. CASE u # u0
    <3>1. u \in Users
      BY DEF Users
    <3>2. Recovering(u)
      BY <2>2, <3>1, <1>1, <1>6, DeskDef DEF IInv, PermanentlyLocked
    <3>3. Unused(u)' = Unused(u)
      BY <3>1, <1>1, RowsKept
    <3> QED BY <2>2, <3>2, <3>3, <1>9, RecoveringKept
  <2> QED BY <2>1, <2>2
<1> QED BY <1>1, <1>7, <1>8, <1>9, <1>10, RowsKept, StepOK

-----------------------------------------------------------------------------
(* The automatic ticket *)

LEMMA CheckTicketKeeps ==
    ASSUME IInv, NEW h \in Handlers, CheckTicket(h)
    PROVE  IInv'
<1>1. req[h].step = "check_ticket" /\ UNCHANGED <<now, accounts, deleted, tickets, links, lost>>
  BY DEF CheckTicket
<1>2. req[h].user \in Users
  BY <1>1 DEF IInv, HandlerOK
<1>3. CASE Finish(h)
  <2>1. DeskHasRecoveryLink'
    BY <1>1, <1>3, FinishOK, DeskQuiet DEF Sending
  <2> QED BY <1>1, <1>3, <2>1, FinishOK, RowsKept, StepOK
<1>4. ASSUME ~HasRecentTicket(req[h].user),
             req' = [req EXCEPT ![h].step = "create_ticket",
                                ![h].unseen = HiddenTickets(req[h].user)]
      PROVE  IInv'
  <2> DEFINE r == [req[h] EXCEPT !.step = "create_ticket", !.unseen = HiddenTickets(req[h].user)]
  <2>0. req \in [Handlers -> Handler] /\ req[h] \in Handler
    BY DEF IInv, TypeOK
  <2>1. /\ r \in Handler /\ r.step = "create_ticket" /\ r.user = req[h].user
        /\ r.unseen = HiddenTickets(req[h].user) /\ req' = [req EXCEPT ![h] = r]
    BY <2>0, <1>4 DEF Handler, Steps, HiddenTickets
  <2> HIDE DEF r
  <2>2. req'[h] = r /\ \A i \in Handlers \ {h} : req'[i] = req[i]
    BY <2>0, <2>1
  <2>3. \A k \in OpenTickets(req[h].user) : ~(tickets[k].created >= now - TicketWindow)
    BY <1>4 DEF HasRecentTicket
  <2>4. HandlerOK(h)'
    BY <1>1, <1>2, <2>1, <2>2, <2>3
       DEF HandlerOK, Verified, Creating, Marking, OpenTickets, HiddenTickets, Filed, Standing
  <2>5. DeskHasRecoveryLink'
    BY <1>1, <2>2, DeskQuiet DEF Sending
  <2> QED BY <1>1, <2>1, <2>4, <2>5, RowsKept, StepOK
<1> QED BY <1>3, <1>4 DEF CheckTicket

\* A ticket of the same user that is as recent was inserted meanwhile.
LEMMA CreateTicketKeeps ==
    ASSUME IInv, NEW h \in Handlers, NEW k \in Tickets, CreateTicket(h, k)
    PROVE  IInv'
<1> DEFINE u0 == req[h].user
           row == [state |-> "open", user |-> u0, created |-> now, unseen |-> req[h].unseen]
<1>1. /\ req[h].step = "create_ticket" /\ tickets[k].state = "none"
      /\ tickets' = [tickets EXCEPT ![k] = row] /\ UNCHANGED <<now, accounts, deleted, links, lost>>
      /\ req' = [i \in Handlers |->
                   IF i = h THEN Idle
                   ELSE IF req[i].step = "create_ticket"
                        THEN [req[i] EXCEPT !.unseen = @ \cup {k}] ELSE req[i]]
  BY DEF CreateTicket
<1>2. /\ now \in Nat /\ req \in [Handlers -> Handler] /\ tickets \in [Tickets -> Ticket]
      /\ u0 \in Users /\ req[h] \in Handler
  BY <1>1 DEF IInv, TypeOK, HandlerOK
<1>3. row \in Ticket /\ row.state = "open" /\ row.user = u0 /\ row.created = now /\ row.unseen = req[h].unseen
  BY <1>2 DEF Ticket, Handler
<1> HIDE DEF row
<1>4. tickets'[k] = row /\ \A j \in Tickets : j # k => tickets'[j] = tickets[j]
  BY <1>1, <1>2
<1>5. req'[h] = Idle /\ HandlerOK(h)'
  BY <1>1, IdleOK
<1>6. ASSUME NEW i \in Handlers, i # h
      PROVE  /\ req'[i] \in Handler /\ req'[i].step = req[i].step /\ req'[i].user = req[i].user
             /\ req'[i].attempts = req[i].attempts /\ req'[i].link = req[i].link
             /\ req[i].unseen \subseteq req'[i].unseen
             /\ req[i].step = "create_ticket" => k \in req'[i].unseen
  <2>1. req'[i] = IF req[i].step = "create_ticket"
                  THEN [req[i] EXCEPT !.unseen = req[i].unseen \cup {k}] ELSE req[i]
    BY <1>1, <1>6
  <2>2. req[i] \in Handler
    BY <1>2
  <2> QED BY <2>1, <2>2 DEF Handler
<1>7. TypeOK'
  <2>1. \A i \in Handlers : req'[i] \in Handler
    BY <1>5, <1>6, Rows
  <2>2. req' = [i \in Handlers |-> req'[i]]
    BY <1>1
  <2> QED BY <2>1, <2>2, <1>1, <1>2, <1>3 DEF IInv, TypeOK
<1>8. ASSUME NEW i \in Handlers, i # h PROVE HandlerOK(i)'
  <2>1. HandlerOK(i)
    BY DEF IInv
  <2>2. Creating(i)'
    <3> SUFFICES ASSUME req[i].step = "create_ticket", NEW j \in Tickets,
                        tickets'[j].state \in Standing, tickets'[j].user = req[i].user,
                        tickets'[j].created >= now - TicketWindow
                 PROVE  j \in req'[i].unseen
      BY <1>1, <1>6, <1>8 DEF Creating, Filed
    <3>1. CASE j = k
      BY <3>1, <1>6, <1>8
    <3>2. CASE j # k
      BY <3>2, <1>4, <1>6, <1>8, <2>1 DEF HandlerOK, Creating, Filed
    <3> QED BY <3>1, <3>2
  <2>3. Marking(i)' /\ Verified(i)' /\ (req'[i].step # "idle" => req'[i].user \in Users)
    BY <1>1, <1>6, <1>8, <2>1 DEF HandlerOK, Marking, Verified
  <2> QED BY <2>2, <2>3 DEF HandlerOK
<1>9. OneFiledUnlessUnseen'
  <2>1. ASSUME NEW j \in Filed(u0), j # k, tickets[j].created >= now - TicketWindow
        PROVE  j \in tickets'[k].unseen
    BY <1>1, <1>3, <1>4, <2>1 DEF IInv, HandlerOK, Creating
  <2> SUFFICES ASSUME NEW u \in Users, NEW i \in Filed(u)', NEW j \in Filed(u)',
                      i # j, Close(i, j)'
               PROVE  j \in tickets'[i].unseen \/ i \in tickets'[j].unseen
    BY DEF OneFiledUnlessUnseen
  <2>2. tickets'[i].created - tickets'[j].created \in 0 .. TicketWindow
    BY DEF Close
  <2>3. \A l \in Filed(u)' : l # k => l \in Filed(u) /\ tickets[l].created \in Nat
                                              /\ tickets'[l] = tickets[l] /\ l \in Tickets
    BY <1>2, <1>4 DEF Filed, Ticket
  <2>4. k \in Filed(u)' => u = u0 /\ tickets'[k].created = now
    BY <1>3, <1>4 DEF Filed, Standing
  <2>5. CASE i = k
    <3>1. j # k
      BY <2>5
    <3>2. tickets[j].created >= now - TicketWindow
      BY <3>1, <2>2, <2>3, <2>4, <2>5, <1>2, WindowsAssumption
    <3> QED BY <3>1, <3>2, <2>1, <2>3, <2>4, <2>5
  <2>6. CASE j = k
    <3>1. i # k
      BY <2>6
    <3>2. tickets[i].created >= now - TicketWindow
      BY <3>1, <2>2, <2>3, <2>4, <2>6, <1>2, WindowsAssumption
    <3> QED BY <3>1, <3>2, <2>1, <2>3, <2>4, <2>6
  <2>7. CASE i # k /\ j # k
    BY <2>7, <2>2, <2>3 DEF IInv, OneFiledUnlessUnseen, Close
  <2> QED BY <2>5, <2>6, <2>7
<1>10. DeskHasRecoveryLink' /\ LinksOK'
  <2>0. LinksOK'
    BY <1>1, RowsKept
  <2> SUFFICES ASSUME NEW u \in Desks \ lost', PermanentlyLocked(u)' PROVE Recovering(u)'
    BY <2>0 DEF DeskHasRecoveryLink, Recovering, Sending
  <2>1. Recovering(u)
    BY <1>1, DeskDef DEF IInv, PermanentlyLocked
  <2>2. Unused(u)' = Unused(u)
    BY <1>1 DEF Unused
  <2> QED BY <2>1, <2>2, <1>1, <1>6 DEF Recovering, Sending
<1>11. LockMatchesCount'
  BY <1>1, RowsKept
<1> QED BY <1>5, <1>7, <1>8, <1>9, <1>10, <1>11 DEF IInv

-----------------------------------------------------------------------------
(* The recovery link *)

LEMMA CheckLinkKeeps ==
    ASSUME IInv, NEW h \in Handlers, CheckLink(h)
    PROVE  IInv'
<1>1. req[h].step = "check_link" /\ UNCHANGED <<now, accounts, deleted, tickets, links, lost>>
  BY DEF CheckLink
<1>2. req[h].user \in Users
  BY <1>1 DEF IInv, HandlerOK
<1>3. CASE HasRecentActiveLink(req[h].user) /\ Finish(h)
  <2>1. Unused(req[h].user) # {}
    BY <1>3 DEF HasRecentActiveLink
  <2>2. \A u \in Desks : Unused(u)' = Unused(u)
    BY <1>1, RowsKept DEF Users
  <2>3. DeskHasRecoveryLink'
    BY <1>1, <1>3, <2>1, <2>2, FinishOK, DeskKept
  <2> QED BY <1>1, <1>3, <2>3, FinishOK, RowsKept, StepOK
<1>4. CASE Goto(h, "clear_links")
  <2>1. "clear_links" \in Steps
    BY DEF Steps
  <2>2. HandlerOK(h)'
    BY <1>1, <1>2, <1>4, <2>1, GotoOK DEF HandlerOK, Verified, Creating, Marking
  <2>3. DeskHasRecoveryLink'
    BY <1>1, <1>4, <2>1, GotoOK, DeskQuiet DEF Sending
  <2> QED BY <1>1, <1>4, <2>1, <2>2, <2>3, GotoOK, RowsKept, StepOK
<1> QED BY <1>3, <1>4 DEF CheckLink

LEMMA SpentOK ==
    \A state \in {"used", "gone"} : Spent(state) \in Link /\ Spent(state).state = state
BY DEF Spent, NoLinkRow, Link

LEMMA ClearLinksKeeps ==
    ASSUME IInv, NEW h \in Handlers, ClearLinks(h)
    PROVE  IInv'
<1> DEFINE u0 == req[h].user
<1>1. /\ req[h].step = "clear_links" /\ Goto(h, "create_link") /\ UNCHANGED <<now, accounts, deleted, tickets, lost>>
      /\ \/ links' = [l \in Links |-> IF l \in Unused(u0) THEN Spent("gone") ELSE links[l]]
         \/ links' = links
  BY DEF ClearLinks
<1>2. u0 \in Users /\ links \in [Links -> Link]
  BY <1>1 DEF IInv, HandlerOK, TypeOK
<1>3. "create_link" \in Steps
  BY DEF Steps
<1>4. \A l \in Links : links'[l] = links[l] \/ (l \in Unused(u0) /\ links'[l] = Spent("gone"))
  BY <1>1
<1>5. links' \in [Links -> Link] /\ LinksKept /\ LinksOK'
  BY <1>1, <1>2, <1>4, SpentOK DEF IInv, LinksKept, LinksOK
<1>6. \A u \in Desks : u # u0 => Unused(u) \subseteq Unused(u)'
  BY <1>4 DEF Unused
<1>7. req'[h].step = "create_link" /\ req'[h].user = u0
  BY <1>1, <1>3, GotoOK
<1>8. HandlerOK(h)'
  BY <1>2, <1>7 DEF HandlerOK, Verified, Creating, Marking
<1>9. DeskHasRecoveryLink'
  BY <1>1, <1>3, <1>6, <1>7, GotoOK, DeskKept DEF Sending
<1> QED BY <1>1, <1>3, <1>5, <1>8, <1>9, GotoOK, RowsKept, StepOK

LEMMA CreateLinkKeeps ==
    ASSUME IInv, NEW h \in Handlers, NEW l \in Links, CreateLink(h, l)
    PROVE  IInv'
<1> DEFINE u0 == req[h].user
           row == [state |-> "unused", user |-> u0, created |-> now]
<1>1. /\ req[h].step = "create_link" /\ links[l].state = "none" /\ Finish(h)
      /\ links' = [links EXCEPT ![l] = row] /\ UNCHANGED <<now, accounts, deleted, tickets, lost>>
  BY DEF CreateLink
<1>2. u0 \in Users /\ links \in [Links -> Link] /\ now \in Nat
  BY <1>1 DEF IInv, HandlerOK, TypeOK
<1>3. row \in Link /\ row.state = "unused" /\ row.user = u0
  BY <1>2 DEF Link
<1> HIDE DEF row
<1>4. links'[l] = row /\ \A m \in Links : m # l => links'[m] = links[m]
  BY <1>1, <1>2
<1>5. links' \in [Links -> Link] /\ LinksKept /\ LinksOK'
  BY <1>1, <1>2, <1>3, <1>4 DEF IInv, LinksKept, LinksOK
<1>6. \A u \in Desks : (u0 = u => l \in Unused(u)') /\ Unused(u) \subseteq Unused(u)'
  BY <1>1, <1>3, <1>4 DEF Unused
<1>7. DeskHasRecoveryLink'
  BY <1>1, <1>6, FinishOK, DeskKept
<1> QED BY <1>1, <1>5, <1>7, FinishOK, RowsKept, StepOK

LEMMA ExchangeFindKeeps ==
    ASSUME IInv, NEW h \in Handlers, NEW l \in Links, ExchangeFind(h, l)
    PROVE  IInv'
<1> DEFINE r == [Idle EXCEPT !.step = "mark_used", !.user = links[l].user, !.link = l]
<1>1. /\ req[h].step = "idle" /\ links[l].state = "unused" /\ req' = [req EXCEPT ![h] = r]
      /\ UNCHANGED <<now, accounts, deleted, tickets, links, lost>>
  BY DEF ExchangeFind
<1>2. req \in [Handlers -> Handler] /\ links[l].user \in Users
  BY <1>1 DEF IInv, TypeOK, LinksOK
<1>3. r \in Handler /\ r.step = "mark_used" /\ r.user = links[l].user /\ r.link = l
  BY <1>2, Rows DEF Handler, Steps
<1> HIDE DEF r
<1>4. req'[h] = r /\ \A i \in Handlers \ {h} : req'[i] = req[i]
  BY <1>1, <1>2
<1>5. HandlerOK(h)'
  BY <1>1, <1>2, <1>3, <1>4 DEF HandlerOK, Verified, Creating, Marking
<1>6. DeskHasRecoveryLink'
  BY <1>1, <1>4, DeskQuiet DEF Sending
<1> QED BY <1>1, <1>3, <1>5, <1>6, RowsKept, StepOK

LEMMA ExchangeMarkUsedKeeps ==
    ASSUME IInv, NEW h \in Handlers, ExchangeMarkUsed(h)
    PROVE  IInv'
<1> DEFINE u0 == req[h].user
           l == req[h].link
<1>1. /\ req[h].step = "mark_used" /\ Goto(h, "reset") /\ UNCHANGED <<now, accounts, deleted, tickets, lost>>
      /\ links' = IF links[l].state = "gone" THEN links ELSE [links EXCEPT ![l] = Spent("used")]
  BY DEF ExchangeMarkUsed
<1>2. /\ u0 \in Users /\ links \in [Links -> Link] /\ l \in Links
      /\ links[l].state = "unused" => links[l].user = u0
  BY <1>1 DEF IInv, HandlerOK, TypeOK, Marking
<1>3. "reset" \in Steps
  BY DEF Steps
<1>4. \A m \in Links : links'[m] = links[m] \/ (m = l /\ links'[m] = Spent("used"))
  BY <1>1, <1>2
<1>5. links' \in [Links -> Link] /\ LinksKept /\ LinksOK'
  BY <1>1, <1>2, <1>4, SpentOK DEF IInv, LinksKept, LinksOK
<1>6. \A u \in Desks : u # u0 => Unused(u) \subseteq Unused(u)'
  BY <1>2, <1>4 DEF Unused
<1>7. req'[h].step = "reset" /\ req'[h].user = u0
  BY <1>1, <1>3, GotoOK
<1>8. HandlerOK(h)'
  BY <1>2, <1>7 DEF HandlerOK, Verified, Creating, Marking
<1>9. DeskHasRecoveryLink'
  BY <1>1, <1>3, <1>6, <1>7, GotoOK, DeskKept DEF Sending
<1> QED BY <1>1, <1>3, <1>5, <1>8, <1>9, GotoOK, RowsKept, StepOK

-----------------------------------------------------------------------------
(* The environment *)

LEMMA AbortKeeps ==
    ASSUME IInv, NEW h \in Handlers, Abort(h)
    PROVE  IInv'
<1>1. /\ req[h].step # "idle" /\ Finish(h) /\ UNCHANGED <<now, accounts, deleted, tickets, links>>
      /\ lost' = IF req[h].step \in {"verified", "refused"} THEN lost ELSE lost \cup ({req[h].user} \cap Desks)
  BY DEF Abort
<1>2. lost \subseteq lost' /\ lost' \in SUBSET Desks
  BY <1>1 DEF IInv, TypeOK
<1>3. \A u \in Desks \ lost' : ~(req[h].user = u /\ req[h].step \in Sending)
  BY <1>1 DEF Sending
<1>4. \A u \in Desks : Unused(u)' = Unused(u)
  BY <1>1 DEF Unused
<1>5. DeskHasRecoveryLink'
  BY <1>1, <1>2, <1>3, <1>4, FinishOK, DeskKept
<1> QED BY <1>1, <1>2, <1>5, FinishOK, RowsKept, StepOK

\* The steps of nobody's request.
LEMMA OutsideKeeps ==
    ASSUME IInv, \/ \E u \in Users : UnlockClient(u) \/ SoftDelete(u) \/ Restore(u)
                 \/ \E k \in Tickets : DeleteTicket(k)
                 \/ Tick
    PROVE  IInv'
<1>1. UNCHANGED <<links, req, lost>>
  BY DEF UnlockClient, SoftDelete, Restore, DeleteTicket, Tick
<1>2. /\ accounts \in [Users -> Account] /\ tickets \in [Tickets -> Ticket] /\ now \in Nat
  BY DEF IInv, TypeOK
<1>3. /\ accounts' \in [Users -> Account] /\ LockMatchesCount'
      /\ \A u \in Users : PermanentlyLocked(u)' => PermanentlyLocked(u)
  <2>1. CASE UNCHANGED accounts
    BY <2>1, RowsKept DEF PermanentlyLocked
  <2>2. ASSUME NEW u \in Users, UnlockClient(u)
        PROVE  /\ accounts' \in [Users -> Account] /\ LockMatchesCount'
               /\ \A v \in Users : PermanentlyLocked(v)' => PermanentlyLocked(v)
    <3>1. /\ accounts' \in [Users -> Account] /\ accounts'[u] = Unlocked
          /\ \A v \in Users : v # u => accounts'[v] = accounts[v]
      BY <2>2, <1>2, Rows DEF UnlockClient
    <3>2. 0 < FirstLock /\ ~(0 >= Threshold)
      BY ThresholdAssumption
    <3> QED BY <3>1, <3>2, Rows DEF IInv, LockMatchesCount, PermanentlyLocked
  <2> QED BY <2>1, <2>2 DEF SoftDelete, Restore, DeleteTicket, Tick
<1>4. tickets' \in [Tickets -> Ticket] /\ TicketsQuiet
  <2>1. CASE UNCHANGED tickets
    BY <2>1, RowsKept
  <2>2. ASSUME NEW k \in Tickets, DeleteTicket(k) PROVE tickets' \in [Tickets -> Ticket] /\ TicketsQuiet
    <3> DEFINE row == [NoTicket EXCEPT !.state = "deleted"]
    <3>1. row \in Ticket /\ row.state \notin Standing
      BY DEF NoTicket, Ticket, Standing
    <3>2. tickets' = [tickets EXCEPT ![k] = row]
      BY <2>2 DEF DeleteTicket
    <3> HIDE DEF row
    <3> QED BY <3>1, <3>2, <1>2 DEF TicketsQuiet
  <2>3. ASSUME NEW u \in Users, NEW from \in Standing, NEW to \in Standing, Move(u, from, to)
        PROVE  tickets' \in [Tickets -> Ticket] /\ TicketsQuiet
    <3>1. \A k \in Tickets : tickets'[k] = tickets[k]
                            \/ (tickets[k].state = from /\ tickets'[k] = [tickets[k] EXCEPT !.state = to])
      BY <2>3 DEF Move
    <3>2. \A k \in Tickets : LET row == [tickets[k] EXCEPT !.state = to] IN
            /\ row \in Ticket /\ row.user = tickets[k].user
            /\ row.created = tickets[k].created /\ row.unseen = tickets[k].unseen
      BY <1>2 DEF Ticket, Standing
    <3>3. tickets' = [k \in Tickets |-> tickets'[k]]
      BY <2>3 DEF Move
    <3>4. \A k \in Tickets : tickets'[k] \in Ticket
      BY <1>2, <3>1, <3>2
    <3>5. TicketsQuiet
      BY <3>1, <3>2 DEF TicketsQuiet
    <3> QED BY <3>3, <3>4, <3>5
  <2>4. ASSUME NEW u \in Users, SoftDelete(u) \/ Restore(u)
        PROVE  tickets' \in [Tickets -> Ticket] /\ TicketsQuiet
    BY <2>3, <2>4 DEF SoftDelete, Restore, Standing
  <2> QED BY <2>1, <2>2, <2>4 DEF UnlockClient, Tick
<1>5. now' \in Nat /\ now' >= now
  BY <1>2 DEF UnlockClient, SoftDelete, Restore, DeleteTicket, Tick
<1>6. \A h \in Handlers : HandlerOK(h)'
  <2>1. LinksKept
    BY <1>1, RowsKept
  <2> QED BY <2>1, <1>1, <1>4, <1>5, OtherOK
<1>7. OneFiledUnlessUnseen'
  BY <1>4, FiledQuiet DEF IInv
<1>8. DeskHasRecoveryLink'
  BY <1>1, <1>3 DEF IInv, DeskHasRecoveryLink, Unused, Users
<1>9. TypeOK' /\ LinksOK'
  <2>1. deleted' \in SUBSET Clients
    BY DEF IInv, TypeOK, UnlockClient, SoftDelete, Restore, DeleteTicket, Tick
  <2> QED BY <2>1, <1>1, <1>3, <1>4, <1>5 DEF IInv, TypeOK, LinksOK
<1> QED BY <1>3, <1>6, <1>7, <1>8, <1>9 DEF IInv

-----------------------------------------------------------------------------
(* The theorems *)

LEMMA IInvStep == IInv /\ [Next]_vars => IInv'
<1> SUFFICES ASSUME IInv, [Next]_vars PROVE IInv'
  OBVIOUS
<1>1. CASE UNCHANGED vars
  BY <1>1 DEF vars, IInv, TypeOK, LockMatchesCount, OneFiledUnlessUnseen, Close, Filed,
              DeskHasRecoveryLink, PermanentlyLocked, Unused, LinksOK, HandlerOK, Verified, Creating, Marking
<1>2. ASSUME NEW h \in Handlers, HandlerStep(h) PROVE IInv'
  <2>1. CASE LoginSucceed(h) \/ ExchangeReset(h)
    BY <2>1, ResetKeeps
  <2>2. CASE LoginFail(h)
    BY <2>2, LoginFailKeeps
  <2>3. CASE CheckTicket(h)
    BY <2>3, CheckTicketKeeps
  <2>4. CASE CheckLink(h)
    BY <2>4, CheckLinkKeeps
  <2>5. CASE ClearLinks(h)
    BY <2>5, ClearLinksKeeps
  <2>6. CASE ExchangeMarkUsed(h)
    BY <2>6, ExchangeMarkUsedKeeps
  <2>7. CASE Abort(h)
    BY <2>7, AbortKeeps
  <2>8. ASSUME NEW u \in Users, LoginFind(h, u) PROVE IInv'
    BY <2>8, LoginFindKeeps
  <2>9. ASSUME NEW k \in Tickets, CreateTicket(h, k) PROVE IInv'
    BY <2>9, CreateTicketKeeps
  <2>10. ASSUME NEW l \in Links, CreateLink(h, l) PROVE IInv'
    BY <2>10, CreateLinkKeeps
  <2>11. ASSUME NEW l \in Links, ExchangeFind(h, l) PROVE IInv'
    BY <2>11, ExchangeFindKeeps
  <2> QED BY <1>2, <2>1, <2>2, <2>3, <2>4, <2>5, <2>6, <2>7, <2>8, <2>9, <2>10, <2>11 DEF HandlerStep
<1>3. CASE (\E u \in Users : UnlockClient(u) \/ SoftDelete(u) \/ Restore(u)) \/ (\E k \in Tickets : DeleteTicket(k)) \/ Tick
  BY <1>3, OutsideKeeps
<1> QED BY <1>1, <1>2, <1>3 DEF Next

\* Every reachable state satisfies IInv.
THEOREM Invariance == Spec => []IInv
BY IInvInit, IInvStep, PTL DEF Spec

\* In every state the two lock columns agree, failed_attempts stays within
\* the threshold, and one lockout has one ticket.
THEOREM InvHolds == Spec => []Inv
<1>1. IInv => Inv
  BY DEF IInv, Inv, OneFiledUnlessUnseen, OneTicketUnlessUnseen, Filed, Standing, OpenTickets
<1> QED BY <1>1, Invariance, PTL

\* A permanently locked desk account has a recovery link, or something that
\* is about to make one or to end the lock, unless a handler was cut off.
THEOREM DeskHasRecoveryLinkHolds == Spec => []DeskHasRecoveryLink
<1>1. IInv => DeskHasRecoveryLink
  BY DEF IInv
<1> QED BY <1>1, Invariance, PTL

\* Nobody who finds the account permanently locked can end the lock with a
\* password, however many logins overlap.
THEOREM LockOutlivesLoginsHolds == Spec => LockOutlivesLogins
<1> DEFINE Ended(u) ==
        \/ UnlockClient(u)
        \/ \E h \in Handlers :
             /\ req[h].user = u
             /\ \/ req[h].step = "reset"
                \/ req[h].step \in {"verified", "refused"} /\ req[h].attempts < Threshold
<1>1. ASSUME IInv, [Next]_vars, NEW u \in Users, PermanentlyLocked(u), accounts'[u].lock.kind # "forever"
      PROVE  Ended(u)
  <2>0. accounts \in [Users -> Account] /\ accounts' # accounts
    BY <1>1 DEF IInv, TypeOK, PermanentlyLocked
  <2>1. ASSUME NEW h \in Handlers, LoginSucceed(h) \/ LoginFail(h) \/ ExchangeReset(h) PROVE Ended(u)
    <3>1. \E a : accounts' = [accounts EXCEPT ![req[h].user] = a]
      BY <2>1 DEF LoginSucceed, LoginFail, ExchangeReset
    <3>2. req[h].user = u
      BY <3>1, <2>0, <1>1 DEF PermanentlyLocked
    <3>3. req[h].step = "reset" \/ (req[h].step \in {"verified", "refused"} /\ req[h].attempts < Threshold)
      BY <2>1, <1>1 DEF IInv, HandlerOK, Verified, LoginSucceed, LoginFail, ExchangeReset
    <3> QED BY <3>2, <3>3
  <2>2. ASSUME NEW v \in Users, UnlockClient(v) PROVE Ended(u)
    <3>1. v = u
      BY <2>2, <2>0, <1>1 DEF UnlockClient, PermanentlyLocked
    <3> QED BY <3>1, <2>2
  <2>3. Next
    BY <1>1, <2>0 DEF vars
  <2>4. \/ \E h \in Handlers : LoginSucceed(h) \/ LoginFail(h) \/ ExchangeReset(h)
        \/ \E v \in Users : UnlockClient(v)
    BY <2>0, <2>3 DEF Next, HandlerStep, CheckTicket, CheckLink, ClearLinks, ExchangeMarkUsed, Abort,
                      LoginFind, CreateTicket, CreateLink, ExchangeFind, SoftDelete, Restore, DeleteTicket, Tick
  <2> QED BY <2>1, <2>2, <2>4
<1>2. IInv /\ [Next]_vars =>
        [\A u \in Users : PermanentlyLocked(u) /\ accounts'[u].lock.kind # "forever" => Ended(u)]_vars
  BY <1>1
<1> QED BY <1>2, Invariance, PTL DEF Spec, LockOutlivesLogins

=============================================================================
