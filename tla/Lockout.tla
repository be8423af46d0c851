-------------------------------- MODULE Lockout --------------------------------
(***************************************************************************)
(* Account lockout: the columns failed_attempts and locked_until of `users`, *)
(* the logins that read and write them, and the two automatic reactions to *)
(* a permanent lock: a security_log ticket for a client, a recovery magic  *)
(* link for the desk.                                                      *)
(*                                                                         *)
(* A handler reads the user's row once and acts on that snapshot; each     *)
(* statement is one step, so logins of one account interleave between the  *)
(* read and the write.  The task that sends the recovery link is spawned   *)
(* by the login and stands under the same handler here.                    *)
(***************************************************************************)
EXTENDS Integers, FiniteSets

CONSTANTS
    Clients,       \* accounts of role client
    Desks,         \* accounts of role desk
    Handlers,      \* requests and spawned tasks that can run at the same time
    Tickets,       \* ids of security_log tickets
    Links,         \* ids of the desk's recovery links
    NoUser,        \* the user of an idle handler or of an unused id
    NoLink,        \* the link of a handler that exchanges none
    FirstLock,     \* failures that lock an account for the first time (5)
    Threshold,     \* PERMANENT_LOCKOUT_THRESHOLD
    Delay,         \* ticks of the temporary lock after each number of failures
    TicketWindow,  \* ticks in which one automatic ticket is enough (24 hours)
    LinkWindow,    \* ticks in which one recovery link is enough (5 minutes)
    LinkTTL,       \* MAGIC_LINK_TTL_SECS in ticks
    MaxTime        \* bound on the clock

Users == Clients \cup Desks

ASSUME RolesAssumption == Clients \cap Desks = {} /\ NoUser \notin Users
ASSUME LinksAssumption == NoLink \notin Links
ASSUME ThresholdAssumption ==
    FirstLock \in Nat \ {0} /\ Threshold \in Nat /\ FirstLock < Threshold
ASSUME DelayAssumption == Delay \in [FirstLock .. Threshold - 1 -> Nat]
ASSUME WindowsAssumption ==
    TicketWindow \in Nat /\ LinkWindow \in Nat /\ LinkTTL \in Nat /\ MaxTime \in Nat

VARIABLES
    now,       \* the clock
    accounts,  \* failed_attempts and locked_until of each user
    deleted,   \* clients that are soft-deleted
    tickets,   \* security_log tickets
    links,     \* recovery links of the desk
    req,       \* the handlers in flight
    lost       \* history: desks whose handler stopped before its last write

vars == <<now, accounts, deleted, tickets, links, req, lost>>

-----------------------------------------------------------------------------
(* Rows and handlers *)

NoLock == [kind |-> "none", time |-> 0]
Lock == [kind: {"none", "until", "forever"}, time: Nat]

Account == [attempts: 0 .. Threshold, lock: Lock]
Unlocked == [attempts |-> 0, lock |-> NoLock]

\* "hidden": deleted_at is set, with the client's.
\* unseen (history): the tickets the check before this insert could not see,
\* because they were hidden or came between the two.
Ticket == [state: {"none", "open", "hidden", "deleted"}, user: Users \cup {NoUser},
           created: Nat, unseen: SUBSET Tickets]
NoTicket == [state |-> "none", user |-> NoUser, created |-> 0, unseen |-> {}]

\* "gone": deleted unused, to make room for a newer link.  Nothing reads the
\* rest of a used or deleted row.
Link == [state: {"none", "unused", "used", "gone"}, user: Users \cup {NoUser}, created: Nat]
NoLinkRow == [state |-> "none", user |-> NoUser, created |-> 0]
Spent(state) == [NoLinkRow EXCEPT !.state = state]

\* "refused": the password is verified of an account found soft-deleted.
Steps == {"idle", "verified", "refused", "check_ticket", "create_ticket",
          "check_link", "clear_links", "create_link", "mark_used", "reset"}

\* attempts: failed_attempts as the handler read it.
Handler == [step: Steps, user: Users \cup {NoUser}, attempts: 0 .. Threshold,
            link: Links \cup {NoLink}, unseen: SUBSET Tickets]
Idle == [step |-> "idle", user |-> NoUser, attempts |-> 0, link |-> NoLink, unseen |-> {}]

Goto(h, step) == req' = [req EXCEPT ![h].step = step]
Finish(h) == req' = [req EXCEPT ![h] = Idle]

-----------------------------------------------------------------------------
(* POST /auth/login *)

\* Faulty: a permanent lock is taken for an expired one.
TemporarilyLocked(u) == accounts[u].lock.kind = "until" /\ accounts[u].lock.time > now

\* locked_until > Utc::now(); the permanent lock is a date in the year 9999.
Locked(u) ==
    \/ accounts[u].lock.kind = "forever"
    \/ accounts[u].lock.kind = "until" /\ accounts[u].lock.time > now

\* A locked account is answered 423 and nothing changes.  Otherwise the
\* password is verified against the row just read.
LoginFind(h, u) ==
    /\ req[h].step = "idle"
    /\ ~Locked(u)
    /\ req' = [req EXCEPT ![h] = [Idle EXCEPT !.step = IF u \in deleted THEN "refused" ELSE "verified",
                                              !.user = u, !.attempts = accounts[u].attempts]]
    /\ UNCHANGED <<now, accounts, deleted, tickets, links, lost>>

\* reset_lockout.  The tokens issued next are in Sessions; the correct
\* password of an account found deleted changes nothing, like Abort.
LoginSucceed(h) ==
    /\ req[h].step = "verified"
    /\ accounts' = [accounts EXCEPT ![req[h].user] = Unlocked]
    /\ Finish(h)
    /\ UNCHANGED <<now, deleted, tickets, links, lost>>

ComputeLockedUntil(attempts) ==
    CASE attempts < FirstLock -> NoLock
      [] attempts \in FirstLock .. Threshold - 1 -> [kind |-> "until", time |-> now + Delay[attempts]]
      [] OTHER -> [kind |-> "forever", time |-> 0]

\* increment_failed_attempts: both columns in one UPDATE, computed from the
\* snapshot, of a soft-deleted account too.  A permanent lock starts the
\* automatic reaction.
LoginFail(h) ==
    LET u == req[h].user
        attempts == req[h].attempts + 1
    IN  /\ req[h].step \in {"verified", "refused"}
        /\ accounts' = [accounts EXCEPT ![u] =
                          [attempts |-> attempts, lock |-> ComputeLockedUntil(attempts)]]
        /\ CASE attempts < Threshold -> Finish(h)
             [] attempts >= Threshold /\ u \in Clients -> Goto(h, "check_ticket")
             [] attempts >= Threshold /\ u \in Desks -> Goto(h, "check_link")
        /\ UNCHANGED <<now, deleted, tickets, links, lost>>

-----------------------------------------------------------------------------
(* maybe_auto_lockout_ticket *)

OpenTickets(u) == {k \in Tickets : tickets[k].state = "open" /\ tickets[k].user = u}
HiddenTickets(u) == {k \in Tickets : tickets[k].state = "hidden" /\ tickets[k].user = u}

\* Faulty: only tickets of the current instant count as recent.
HasTicketNow(u) == \E k \in OpenTickets(u) : tickets[k].created >= now

HasRecentTicket(u) == \E k \in OpenTickets(u) : tickets[k].created >= now - TicketWindow

CheckTicket(h) ==
    /\ req[h].step = "check_ticket"
    /\ IF HasRecentTicket(req[h].user) THEN Finish(h)
       ELSE req' = [req EXCEPT ![h].step = "create_ticket",
                               ![h].unseen = HiddenTickets(req[h].user)]
    /\ UNCHANGED <<now, accounts, deleted, tickets, links, lost>>

CreateTicket(h, k) ==
    /\ req[h].step = "create_ticket"
    /\ tickets[k].state = "none"
    /\ tickets' = [tickets EXCEPT ![k] = [state |-> "open", user |-> req[h].user,
                                          created |-> now, unseen |-> req[h].unseen]]
    /\ req' = [i \in Handlers |->
                 IF i = h THEN Idle
                 ELSE IF req[i].step = "create_ticket"
                      THEN [req[i] EXCEPT !.unseen = @ \cup {k}] ELSE req[i]]
    /\ UNCHANGED <<now, accounts, deleted, links, lost>>

-----------------------------------------------------------------------------
(* send_desk_recovery_link *)

Unused(u) == {l \in Links : links[l].state = "unused" /\ links[l].user = u}
Expired(l) == links[l].created + LinkTTL < now

\* Faulty: used links count as well.
HasAnyLink(u) == u \in Desks /\ \E l \in Links : links[l].state \in {"unused", "used"}

HasRecentActiveLink(u) ==
    \E l \in Unused(u) : links[l].created + LinkTTL > now /\ links[l].created >= now - LinkWindow

CheckLink(h) ==
    /\ req[h].step = "check_link"
    /\ IF HasRecentActiveLink(req[h].user) THEN Finish(h) ELSE Goto(h, "clear_links")
    /\ UNCHANGED <<now, accounts, deleted, tickets, links, lost>>

\* delete_unused_for_user_scope, whose failure is only logged.
ClearLinks(h) ==
    /\ req[h].step = "clear_links"
    /\ \/ links' = [l \in Links |-> IF l \in Unused(req[h].user)
                                    THEN Spent("gone") ELSE links[l]]
       \/ links' = links
    /\ Goto(h, "create_link")
    /\ UNCHANGED <<now, accounts, deleted, tickets, lost>>

CreateLink(h, l) ==
    /\ req[h].step = "create_link"
    /\ links[l].state = "none"
    /\ links' = [links EXCEPT ![l] = [state |-> "unused", user |-> req[h].user, created |-> now]]
    /\ Finish(h)
    /\ UNCHANGED <<now, accounts, deleted, tickets, lost>>

-----------------------------------------------------------------------------
(* What ends a lock: exchange_magic_link and unlock_client *)

ExchangeFind(h, l) ==
    /\ req[h].step = "idle"
    /\ links[l].state = "unused" /\ ~Expired(l)
    /\ req' = [req EXCEPT ![h] = [Idle EXCEPT !.step = "mark_used", !.user = links[l].user,
                                              !.link = l]]
    /\ UNCHANGED <<now, accounts, deleted, tickets, links, lost>>

\* UPDATE ... WHERE id = ?: a row deleted since it was found stays deleted.
ExchangeMarkUsed(h) ==
    /\ req[h].step = "mark_used"
    /\ links' = IF links[req[h].link].state = "gone" THEN links
                ELSE [links EXCEPT ![req[h].link] = Spent("used")]
    /\ Goto(h, "reset")
    /\ UNCHANGED <<now, accounts, deleted, tickets, lost>>

ExchangeReset(h) ==
    /\ req[h].step = "reset"
    /\ accounts' = [accounts EXCEPT ![req[h].user] = Unlocked]
    /\ Finish(h)
    /\ UNCHANGED <<now, deleted, tickets, links, lost>>

\* PATCH /admin/clients/:id/unlock, and the exchange of a client's own link.
UnlockClient(u) ==
    /\ u \in Clients
    /\ accounts' = [accounts EXCEPT ![u] = Unlocked]
    /\ UNCHANGED <<now, deleted, tickets, links, req, lost>>

-----------------------------------------------------------------------------
(* The environment *)

\* A database error, a crash, or a client that disconnects.
Abort(h) ==
    /\ req[h].step # "idle"
    /\ lost' = IF req[h].step \in {"verified", "refused"} THEN lost ELSE lost \cup ({req[h].user} \cap Desks)
    /\ Finish(h)
    /\ UNCHANGED <<now, accounts, deleted, tickets, links>>

\* The desk deletes a ticket for good.
DeleteTicket(k) ==
    /\ tickets[k].state \in {"open", "hidden"}
    /\ tickets' = [tickets EXCEPT ![k] = [NoTicket EXCEPT !.state = "deleted"]]
    /\ UNCHANGED <<now, accounts, deleted, links, req, lost>>

\* The tickets of a client in one state pass into another.
Move(u, from, to) ==
    tickets' = [k \in Tickets |-> IF tickets[k].user = u /\ tickets[k].state = from
                                  THEN [tickets[k] EXCEPT !.state = to] ELSE tickets[k]]

\* soft_delete_client hides the tickets with the client ...
SoftDelete(u) ==
    /\ u \in Clients \ deleted
    /\ deleted' = deleted \cup {u}
    /\ Move(u, "open", "hidden")
    /\ UNCHANGED <<now, accounts, links, req, lost>>

\* ... and restore_client brings those back.  The 30 days it has for that, and
\* requests that act on an old reading of the account, are in Clients.
Restore(u) ==
    /\ u \in deleted
    /\ deleted' = deleted \ {u}
    /\ Move(u, "hidden", "open")
    /\ UNCHANGED <<now, accounts, links, req, lost>>

Tick ==
    /\ now < MaxTime
    /\ now' = now + 1
    /\ UNCHANGED <<accounts, deleted, tickets, links, req, lost>>

-----------------------------------------------------------------------------
Init ==
    /\ now = 0
    /\ accounts = [u \in Users |-> Unlocked]
    /\ deleted = {}
    /\ tickets = [k \in Tickets |-> NoTicket]
    /\ links = [l \in Links |-> NoLinkRow]
    /\ req = [h \in Handlers |-> Idle]
    /\ lost = {}

HandlerStep(h) ==
    \/ LoginSucceed(h)
    \/ LoginFail(h)
    \/ CheckTicket(h)
    \/ CheckLink(h)
    \/ ClearLinks(h)
    \/ ExchangeMarkUsed(h)
    \/ ExchangeReset(h)
    \/ Abort(h)
    \/ \E u \in Users : LoginFind(h, u)
    \/ \E k \in Tickets : CreateTicket(h, k)
    \/ \E l \in Links : CreateLink(h, l) \/ ExchangeFind(h, l)

Next ==
    \/ \E h \in Handlers : HandlerStep(h)
    \/ \E u \in Users : UnlockClient(u) \/ SoftDelete(u) \/ Restore(u)
    \/ \E k \in Tickets : DeleteTicket(k)
    \/ Tick

Spec == Init /\ [][Next]_vars

-----------------------------------------------------------------------------
(* Properties *)

\* The variables stay in their sets; in particular failed_attempts never
\* exceeds the threshold, although no query bounds it.
TypeOK ==
    /\ now \in Nat
    /\ accounts \in [Users -> Account]
    /\ deleted \in SUBSET Clients
    /\ tickets \in [Tickets -> Ticket]
    /\ links \in [Links -> Link]
    /\ req \in [Handlers -> Handler]
    /\ lost \in SUBSET Desks

\* failed_attempts and locked_until never contradict each other, whatever
\* logins, unlocks and exchanges overlap: an account has no lock below the
\* first tier, a dated lock in the tiers, and the permanent one exactly at
\* the threshold.
LockMatchesCount ==
    \A u \in Users :
        /\ accounts[u].lock.kind = "none" <=> accounts[u].attempts < FirstLock
        /\ accounts[u].lock.kind = "forever" <=> accounts[u].attempts >= Threshold

\* A permanent lock ends only through an unlock by the desk, an exchanged
\* link, or a login that had read the row before the lock fell: nobody who
\* finds the account locked can reset it by a password.
PermanentlyLocked(u) == accounts[u].lock.kind = "forever"

LockOutlivesLogins ==
    [][\A u \in Users : PermanentlyLocked(u) /\ accounts'[u].lock.kind # "forever" =>
         \/ UnlockClient(u)
         \/ \E h \in Handlers :
              /\ req[h].user = u
              /\ \/ req[h].step = "reset"
                 \/ req[h].step \in {"verified", "refused"} /\ req[h].attempts < Threshold]_vars

\* Of two automatic tickets of one client within the window, both still open,
\* one could not be seen when the other was filed: their checks overlapped, or
\* the client was deleted at the time and restored since.  Hammering a locked
\* account, or locking it again after an unlock, adds none.
Close(j, k) == tickets[j].created - tickets[k].created \in 0 .. TicketWindow

OneTicketUnlessUnseen ==
    \A u \in Users : \A j, k \in OpenTickets(u) :
        j # k /\ Close(j, k) => j \in tickets[k].unseen \/ k \in tickets[j].unseen

\* Unless a handler was cut off, a permanently locked desk account has an
\* unused recovery link, or the task that sends one, or the exchange that ends
\* the lock, is under way.  The link may have expired: nothing sends another one
\* then.
DeskHasRecoveryLink ==
    \A u \in Desks \ lost : PermanentlyLocked(u) =>
        \/ Unused(u) # {}
        \/ \E h \in Handlers : req[h].user = u
             /\ req[h].step \in {"check_link", "clear_links", "create_link", "reset"}

\* What holds in every state of the accounts and the tickets: the two lock
\* columns agree, and one lockout has one ticket.
Inv == TypeOK /\ LockMatchesCount /\ OneTicketUnlessUnseen

=============================================================================
