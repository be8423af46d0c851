------------------------------- MODULE MagicLinks -------------------------------
(***************************************************************************)
(* Magic links and the tokens they are exchanged for: the tables           *)
(* magic_links and jwt_revocations.                                        *)
(*                                                                         *)
(* A link is created by deleting the unused links of its user and scope    *)
(* and inserting the new one, two statements that commit separately.  An   *)
(* exchange finds the link, marks it used, looks the user up, inserts the  *)
(* row of the token's jti and only then answers with the token.  Requests  *)
(* run concurrently and may stop at any await.                             *)
(***************************************************************************)
EXTENDS Integers, FiniteSets

CONSTANTS
    Users,       \* client accounts
    Tickets,     \* tickets a link can be scoped to
    ClientOf,    \* tickets.client_id
    Links,       \* ids (and token hashes) of links
    Jtis,        \* ids of exchanged tokens
    Handlers,    \* requests that can be in flight at the same time
    NoUser,      \* the user of an idle handler or of an unused id
    NoTicket,    \* the ticket of a link with full scope
    NoLink,      \* the link of a handler that exchanges none
    NoJti,       \* the token of a handler that answers none
    LinkTTL,     \* MAGIC_LINK_TTL_SECS in ticks
    LinkWindow,  \* ticks in which one self-service link is enough (5 minutes)
    TokenTTL,    \* SCOPED_TOKEN_TTL_SECS in ticks
    MaxTime,     \* bound on the clock
    MaxRows      \* bound on the rows inserted into both tables

ASSUME UsersAssumption == NoUser \notin Users
ASSUME TicketsAssumption == NoTicket \notin Tickets /\ ClientOf \in [Tickets -> Users]
ASSUME LinksAssumption == NoLink \notin Links /\ NoJti \notin Jtis
ASSUME TimesAssumption ==
    /\ LinkTTL \in Nat /\ LinkWindow \in Nat /\ TokenTTL \in Nat
    /\ MaxTime \in Nat /\ MaxRows \in Nat

VARIABLES
    now,      \* the clock
    status,   \* users: live row, row with deleted_at set, or no row
    open,     \* the tickets that have a row
    links,    \* magic_links
    jtis,     \* jwt_revocations, with whether the token reached the client
    req       \* the handlers in flight

vars == <<now, status, open, links, jtis, req>>

-----------------------------------------------------------------------------
(* Rows and handlers *)

Scope == Tickets \cup {NoTicket}

\* late (history): another link of the same user and scope was inserted
\* between the deletion of the old links and the insert of this one.
Link == [state: {"none", "unused", "used", "gone"}, user: Users \cup {NoUser},
         ticket: Scope, created: Nat, expires: Nat, late: BOOLEAN]
NoLinkRow == [state |-> "none", user |-> NoUser, ticket |-> NoTicket,
              created |-> 0, expires |-> 0, late |-> FALSE]

\* late (history): another exchange marked the link used after this one had
\* found it unused.  out: the answer with the token was sent.
Jti == [state: {"none", "active", "revoked", "gone"}, user: Users \cup {NoUser},
        link: Links \cup {NoLink}, expires: Nat, late: BOOLEAN, out: BOOLEAN]
NoJtiRow == [state |-> "none", user |-> NoUser, link |-> NoLink,
             expires |-> 0, late |-> FALSE, out |-> FALSE]

Steps == {"idle", "throttle", "create", "clear", "insert", "mark", "check_user", "insert_jti", "answer"}

Handler == [step: Steps, user: Users \cup {NoUser}, ticket: Scope, link: Links \cup {NoLink},
            jti: Jtis \cup {NoJti}, expires: Nat, late: BOOLEAN]
Idle == [step |-> "idle", user |-> NoUser, ticket |-> NoTicket, link |-> NoLink,
         jti |-> NoJti, expires |-> 0, late |-> FALSE]

Begin(h, r) == req' = [req EXCEPT ![h] = r]
Goto(h, step) == Begin(h, [req[h] EXCEPT !.step = step])

\* Room for one more row within the bound.
Room ==
    Cardinality({l \in Links : links[l].state # "none"})
      + Cardinality({j \in Jtis : jtis[j].state # "none"}) < MaxRows

InTable(l) == links[l].state \in {"unused", "used"}
UnusedOf(u, t) ==
    {l \in Links : links[l].state = "unused" /\ links[l].user = u /\ links[l].ticket = t}

\* links without the rows in L.  Nothing reads the rest of a deleted row.
Delete(L) == [l \in Links |-> IF l \in L THEN [NoLinkRow EXCEPT !.state = "gone"] ELSE links[l]]

-----------------------------------------------------------------------------
(* create_magic_link *)

\* POST /auth/magic-request: the user is found by its e-mail; a deleted or
\* unknown one is answered like any other and nothing changes.
RequestFind(h, u) ==
    /\ req[h].step = "idle"
    /\ status[u] = "active"
    /\ Begin(h, [Idle EXCEPT !.step = "throttle", !.user = u])
    /\ UNCHANGED <<now, status, open, links, jtis>>

HasRecentActive(u) ==
    \E l \in Links : /\ links[l].state = "unused" /\ links[l].user = u
                     /\ links[l].expires > now /\ links[l].created >= now - LinkWindow

RequestThrottle(h) ==
    /\ req[h].step = "throttle"
    /\ IF HasRecentActive(req[h].user) THEN Begin(h, Idle) ELSE Goto(h, "create")
    /\ UNCHANGED <<now, status, open, links, jtis>>

\* POST /admin/clients/:id/magic-link, or /tickets/:id/magic-link for the
\* ticket's client.
DeskAsks(h, u, t) ==
    /\ req[h].step = "idle"
    /\ t # NoTicket => t \in open /\ ClientOf[t] = u
    /\ Begin(h, [Idle EXCEPT !.step = "create", !.user = u, !.ticket = t])
    /\ UNCHANGED <<now, status, open, links, jtis>>

\* The user is looked up and the expiry computed.
CreateFind(h) ==
    /\ req[h].step = "create"
    /\ Begin(h, IF status[req[h].user] = "active"
                THEN [req[h] EXCEPT !.step = "clear", !.expires = now + LinkTTL]
                ELSE Idle)
    /\ UNCHANGED <<now, status, open, links, jtis>>

DeleteUnused(u, t) == links' = Delete(UnusedOf(u, t))

ClearLinks(h) ==
    /\ req[h].step = "clear"
    /\ DeleteUnused(req[h].user, req[h].ticket)
    /\ Goto(h, "insert")
    /\ UNCHANGED <<now, status, open, jtis>>

\* Faulty: the foreign keys are not enforced.
ReferencesIgnored(u, t) == u \in Users /\ t \in Scope

\* The foreign keys of magic_links and of jwt_revocations.
References(u, t) == status[u] # "gone" /\ t \in open \cup {NoTicket}

InsertLink(h, l) ==
    LET r == req[h] IN
    /\ r.step = "insert"
    /\ links[l].state = "none" /\ Room
    /\ References(r.user, r.ticket)
    /\ links' = [links EXCEPT ![l] = [state |-> "unused", user |-> r.user, ticket |-> r.ticket,
                                      created |-> now, expires |-> r.expires, late |-> r.late]]
    /\ req' = [i \in Handlers |->
                 IF i = h THEN Idle
                 ELSE IF req[i].step = "insert" /\ req[i].user = r.user /\ req[i].ticket = r.ticket
                      THEN [req[i] EXCEPT !.late = TRUE] ELSE req[i]]
    /\ UNCHANGED <<now, status, open, jtis>>

-----------------------------------------------------------------------------
(* exchange_magic_link *)

\* A used, expired or missing link is refused and nothing changes.
ExchangeFind(h, l) ==
    /\ req[h].step = "idle"
    /\ links[l].state = "unused" /\ links[l].expires >= now
    /\ Begin(h, [Idle EXCEPT !.step = "mark", !.user = links[l].user, !.link = l])
    /\ UNCHANGED <<now, status, open, links, jtis>>

\* Faulty: the link stays exchangeable.
UsedNever(l) == IF l \in Links THEN links ELSE links

\* UPDATE ... WHERE id = ?: a row deleted since it was found stays deleted.
Used(l) ==
    IF InTable(l) THEN [links EXCEPT ![l] = [@ EXCEPT !.state = "used", !.created = 0,
                                                      !.expires = 0, !.late = FALSE]]
    ELSE links

\* mark_used, then reset_lockout, which is in Lockout.
ExchangeMark(h) ==
    /\ req[h].step = "mark"
    /\ links' = Used(req[h].link)
    /\ req' = [i \in Handlers |->
                 IF i = h THEN [req[h] EXCEPT !.step = "check_user"]
                 ELSE IF req[i].link = req[h].link THEN [req[i] EXCEPT !.late = TRUE]
                 ELSE req[i]]
    /\ UNCHANGED <<now, status, open, jtis>>

\* exp of the token and expires_at of its row are computed together.
Expiry == now + TokenTTL

\* find_by_id: a deleted user gets no token, but the link stays used.
ExchangeUser(h) ==
    /\ req[h].step = "check_user"
    /\ Begin(h, IF status[req[h].user] = "active"
                THEN [req[h] EXCEPT !.step = "insert_jti", !.expires = Expiry]
                ELSE Idle)
    /\ UNCHANGED <<now, status, open, links, jtis>>

\* jwt_revocations::create, before the token is answered.
ExchangeInsert(h, j) ==
    LET r == req[h] IN
    /\ r.step = "insert_jti"
    /\ jtis[j].state = "none" /\ Room
    /\ References(r.user, NoTicket)
    /\ jtis' = [jtis EXCEPT ![j] = [state |-> "active", user |-> r.user, link |-> r.link,
                                    expires |-> r.expires, late |-> r.late, out |-> FALSE]]
    /\ Begin(h, [Idle EXCEPT !.step = "answer", !.jti = j])
    /\ UNCHANGED <<now, status, open, links>>

ExchangeAnswer(h) ==
    /\ req[h].step = "answer"
    /\ jtis' = [jtis EXCEPT ![req[h].jti].out = TRUE]
    /\ Begin(h, Idle)
    /\ UNCHANGED <<now, status, open, links>>

\* The handler's future is dropped or fails at an await.
Abort(h) ==
    /\ req[h].step # "idle"
    /\ Begin(h, Idle)
    /\ UNCHANGED <<now, status, open, links, jtis>>

-----------------------------------------------------------------------------
(* Revocation, deletion and cleanup *)

\* AuthUser: what decides, until exp, whether a token is accepted.
IsActive(j) == jtis[j].state = "active"

\* revoke_for_user, called by a password change and by the desk.
RevokeForUser(u) ==
    /\ status[u] # "gone"
    /\ jtis' = [j \in Jtis |-> IF jtis[j].user = u /\ IsActive(j)
                               THEN [jtis[j] EXCEPT !.state = "revoked"] ELSE jtis[j]]
    /\ UNCHANGED <<now, status, open, links, req>>

\* Soft delete and restore touch neither table.
SoftDelete(u) ==
    /\ status[u] = "active"
    /\ status' = [status EXCEPT ![u] = "soft"]
    /\ UNCHANGED <<now, open, links, jtis, req>>

Restore(u) ==
    /\ status[u] = "soft"
    /\ status' = [status EXCEPT ![u] = "active"]
    /\ UNCHANGED <<now, open, links, jtis, req>>

\* cascade_delete_user_data
HardDelete(u) ==
    /\ status[u] # "gone"
    /\ status' = [status EXCEPT ![u] = "gone"]
    /\ open' = {t \in open : ClientOf[t] # u}
    /\ links' = Delete({l \in Links : InTable(l) /\ links[l].user = u})
    /\ jtis' = [j \in Jtis |-> IF jtis[j].user = u THEN [jtis[j] EXCEPT !.state = "gone"] ELSE jtis[j]]
    /\ UNCHANGED <<now, req>>

DeleteTicket(t) ==
    /\ t \in open
    /\ open' = open \ {t}
    /\ links' = Delete({l \in Links : InTable(l) /\ links[l].ticket = t})
    /\ UNCHANGED <<now, status, jtis, req>>

\* Faulty: compares with <=.
ExpiredNow(j) == jtis[j].expires <= now

Expired(j) == jtis[j].expires < now

\* delete_expired, at startup and every 24 hours.
Cleanup ==
    /\ jtis' = [j \in Jtis |-> IF jtis[j].state \in {"active", "revoked"} /\ Expired(j)
                               THEN [jtis[j] EXCEPT !.state = "gone"] ELSE jtis[j]]
    /\ UNCHANGED <<now, status, open, links, req>>

Tick ==
    /\ now < MaxTime
    /\ now' = now + 1
    /\ UNCHANGED <<status, open, links, jtis, req>>

-----------------------------------------------------------------------------
Init ==
    /\ now = 0
    /\ status = [u \in Users |-> "active"]
    /\ open = Tickets
    /\ links = [l \in Links |-> NoLinkRow]
    /\ jtis = [j \in Jtis |-> NoJtiRow]
    /\ req = [h \in Handlers |-> Idle]

HandlerStep(h) ==
    \/ RequestThrottle(h)
    \/ CreateFind(h)
    \/ ClearLinks(h)
    \/ ExchangeMark(h)
    \/ ExchangeUser(h)
    \/ ExchangeAnswer(h)
    \/ Abort(h)
    \/ \E u \in Users : RequestFind(h, u)
    \/ \E u \in Users, t \in Scope : DeskAsks(h, u, t)
    \/ \E l \in Links : InsertLink(h, l) \/ ExchangeFind(h, l)
    \/ \E j \in Jtis : ExchangeInsert(h, j)

UserStep(u) == RevokeForUser(u) \/ SoftDelete(u) \/ Restore(u) \/ HardDelete(u)

Next ==
    \/ \E h \in Handlers : HandlerStep(h)
    \/ \E u \in Users : UserStep(u)
    \/ \E t \in Tickets : DeleteTicket(t)
    \/ Cleanup
    \/ Tick

Spec == Init /\ [][Next]_vars

-----------------------------------------------------------------------------
(* Properties *)

\* The variables stay in their sets.
TypeOK ==
    /\ now \in Nat
    /\ status \in [Users -> {"active", "soft", "gone"}]
    /\ open \in SUBSET Tickets
    /\ links \in [Links -> Link]
    /\ jtis \in [Jtis -> Jti]
    /\ req \in [Handlers -> Handler]

\* A link yields more than one token only to exchanges that had all found it
\* unused before one of them marked it: of the tokens of one link at most
\* one was exchanged without such an overlap.
OneTokenUnlessRaced ==
    \A i, j \in Jtis :
        i # j /\ jtis[i].link \in Links /\ jtis[i].link = jtis[j].link
        => jtis[i].late \/ jtis[j].late

\* Of the unused links of one user and scope at most one was created without
\* another creation slipping between its delete and its insert.
OneLinkUnlessRaced ==
    \A u \in Users, t \in Scope : \A k, l \in UnusedOf(u, t) :
        k # l => links[k].late \/ links[l].late

\* A token in the client's hands is honoured until it expires, unless it was
\* revoked or its user hard-deleted: the row is there before the token is
\* answered, and the cleanup never takes it early.
TokenHonoured ==
    \A j \in Jtis :
        jtis[j].out /\ jtis[j].expires >= now
        => \/ jtis[j].state \in {"active", "revoked"}
           \/ status[jtis[j].user] = "gone"

\* Nothing outlives what it belongs to, even when a link or a token is being
\* created while the user or the ticket is deleted: no link without its
\* user and ticket, no accepted token without its user.
NoOrphans ==
    /\ \A l \in Links : InTable(l) =>
         status[links[l].user] # "gone" /\ links[l].ticket \in open \cup {NoTicket}
    /\ \A j \in Jtis : IsActive(j) => status[jtis[j].user] # "gone"

\* What a link and a token are unless requests overlap: the only one of their
\* scope, and the only one of their link.
Inv == TypeOK /\ OneLinkUnlessRaced /\ OneTokenUnlessRaced

=============================================================================
