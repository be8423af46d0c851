------------------------------- MODULE Sessions -------------------------------
(***************************************************************************)
(* Refresh-token sessions: the rows of the sqlite table `sessions` and the *)
(* HTTP handlers and background cleanup that read and write it.            *)
(*                                                                         *)
(* Handlers run concurrently on the pool, and every statement issued on    *)
(* `&pool` commits by itself, so a handler is a sequence of steps: each    *)
(* step is one statement and the Rust code that runs up to the next        *)
(* await.  req[h] is what handler h still holds from its earlier reads.    *)
(* A transaction (create_capped, soft_delete_client, the hard-delete       *)
(* cascade) is one step.  A handler may stop at any await: a database      *)
(* error, a crash, or a client that disconnects (Abort).                   *)
(***************************************************************************)
EXTENDS Integers, FiniteSets

CONSTANTS
    Users,         \* accounts that hold sessions
    Tokens,        \* refresh tokens; a row's id and token_hash are its token
    Handlers,      \* requests that can be in flight at the same time
    NoUser,        \* the user field of an idle handler or of an unused token
    NoToken,       \* the token field of a handler that presents none
    MaxSessions,   \* MAX_SESSIONS_PER_USER
    TTL,           \* REFRESH_TOKEN_TTL_SECS, in ticks of the clock
    Retention,     \* REVOKED_SESSION_RETENTION_DAYS, in ticks of the clock
    MaxTime        \* bound on the clock

ASSUME UsersAssumption == NoUser \notin Users
ASSUME TokensAssumption == NoToken \notin Tokens
ASSUME CapAssumption == MaxSessions \in Nat \ {0}
\* The comment on REVOKED_SESSION_RETENTION_DAYS demands this of the
\* configuration; config.rs does not enforce it.
ASSUME RetentionAssumption ==
    TTL \in Nat /\ Retention \in Nat /\ Retention >= TTL
ASSUME BoundsAssumption == MaxTime \in Nat

VARIABLES
    now,       \* the clock every timestamp is read from
    status,    \* users: live row, row with deleted_at set, or no row
    sessions,  \* the table, with what became of each token
    req,       \* the handlers in flight
    hist       \* history: where each token came from (read by no action)

vars == <<now, status, sessions, req, hist>>

-----------------------------------------------------------------------------
(* Rows, handlers and the tokens' history *)

\* "live" is a row with revoked_at NULL, "rotated" one with revoked_at set;
\* "deleted" tokens once had a row and "unused" ones were never generated:
\* no query tells these two apart.
Row == [state: {"unused", "live", "rotated", "deleted"}, user: Users \cup {NoUser},
        created: Nat, expires: Nat, revoked: Nat]

NoRow == [state |-> "unused", user |-> NoUser, created |-> 0, expires |-> 0, revoked |-> 0]

\* Where a handler resumes: before the named step of the action below.
Steps == {"idle", "check_user", "rotate", "create", "issue",
          "wipe", "drop", "wipe_then_issue", "reissue"}

\* stale (history): a wipe of the user's sessions ran since the handler
\* read what authorises it.
Handler == [step: Steps, user: Users \cup {NoUser}, token: Tokens \cup {NoToken},
            expires: Nat, stale: BOOLEAN]

Idle == [step |-> "idle", user |-> NoUser, token |-> NoToken,
         expires |-> 0, stale |-> FALSE]

\* parent: the token rotated into this one.  wiped: a wipe of the user's
\* sessions ran after it was issued.  survivor: what authorised it predates
\* a wipe that ran before it was issued.
History == [parent: Tokens \cup {NoToken}, wiped: BOOLEAN, survivor: BOOLEAN]

NoHistory == [parent |-> NoToken, wiped |-> FALSE, survivor |-> FALSE]

InTable(t) == sessions[t].state \in {"live", "rotated"}
Issued(t) == sessions[t].state # "unused"
LiveOf(u) == {t \in Tokens : sessions[t].state = "live" /\ sessions[t].user = u}
RowsOf(u) == {t \in Tokens : InTable(t) /\ sessions[t].user = u}

-----------------------------------------------------------------------------
(* The statements of db/sessions.rs *)

Without(T) ==
    [t \in Tokens |-> IF t \in T
                      THEN [NoRow EXCEPT !.state = "deleted", !.user = sessions[t].user]
                      ELSE sessions[t]]

\* Faulty: the wipe forgets the rows that are still active.
DeleteRotatedForUser(u) ==
    sessions' = Without({t \in RowsOf(u) : sessions[t].state = "rotated"})

DeleteAllForUser(u) == sessions' = Without(RowsOf(u))

\* Faulty: drops every rotated row, whatever its age.
DeleteExpiredAndAllRevoked ==
    sessions' = Without({t \in Tokens : InTable(t) /\
                           (sessions[t].expires < now \/ sessions[t].state = "rotated")})

DeleteExpiredAndRevoked ==
    sessions' = Without({t \in Tokens : InTable(t) /\
                           \/ sessions[t].expires < now
                           \/ sessions[t].state = "rotated"
                              /\ sessions[t].revoked < now - Retention})

\* Faulty: the replacement is not recorded on the old row.
RevokeNothing(t) == t \in Tokens /\ sessions' = sessions

\* UPDATE ... WHERE id = ?: no row, no effect; a row already revoked gets a
\* later revoked_at.  replaced_by, which no query reads, is left out.
Revoke(t) ==
    sessions' = IF InTable(t)
                THEN [sessions EXCEPT ![t] = [@ EXCEPT !.state = "rotated", !.revoked = now]]
                ELSE sessions

Oldest(T) == {t \in T : \A s \in T : sessions[t].created <= sessions[s].created}

\* Faulty: the count is compared with > instead of >=.
EvictionsLate(u) ==
    IF Cardinality(LiveOf(u)) > MaxSessions THEN {{v} : v \in Oldest(LiveOf(u))} ELSE {{}}

\* At the cap the oldest active row makes room.
Evictions(u) ==
    IF Cardinality(LiveOf(u)) >= MaxSessions THEN {{v} : v \in Oldest(LiveOf(u))} ELSE {{}}

\* The count, the eviction and the insert are one transaction.  Without the
\* user's row the insert breaks the foreign key.
CreateCapped(u, t, expires) ==
    /\ status[u] # "gone"
    /\ \E evicted \in Evictions(u) :
         sessions' = [Without(evicted) EXCEPT ![t] =
           [state |-> "live", user |-> u, created |-> now, expires |-> expires, revoked |-> 0]]

-----------------------------------------------------------------------------
(* History *)

\* A wipe of u's sessions: every issued token of u is now wiped, and what the
\* other handlers in flight for u have read is stale.
RecordWipe(u) ==
    hist' = [t \in Tokens |-> IF Issued(t) /\ sessions[t].user = u
                              THEN [hist[t] EXCEPT !.wiped = TRUE] ELSE hist[t]]

StaleFor(u) ==
    [h \in Handlers |-> IF req[h].user = u THEN [req[h] EXCEPT !.stale = TRUE] ELSE req[h]]

RecordIssue(h, t) ==
    hist' = [hist EXCEPT ![t] =
      [parent |-> req[h].token, wiped |-> FALSE,
       survivor |-> req[h].stale \/ (req[h].token \in Tokens /\ hist[req[h].token].survivor)]]

-----------------------------------------------------------------------------
(* POST /auth/refresh *)

\* Faulty: the lifetime is subtracted.
NewExpiryInPast == now - TTL

NewExpiry == now + TTL

Begin(h, r) == req' = [req EXCEPT ![h] = r]

\* find_by_token_hash.  A token without a row is answered 401 and nothing
\* changes.
RefreshFind(h, t) ==
    /\ req[h].step = "idle"
    /\ InTable(t)
    /\ Begin(h, CASE sessions[t].state = "rotated" ->
                       [Idle EXCEPT !.step = "wipe", !.user = sessions[t].user]
                  [] sessions[t].state = "live" /\ sessions[t].expires < now ->
                       [Idle EXCEPT !.step = "drop", !.token = t]
                  [] OTHER ->
                       [Idle EXCEPT !.step = "check_user", !.user = sessions[t].user,
                                    !.token = t])
    /\ UNCHANGED <<now, status, sessions, hist>>

\* users::find_by_id: 500 without a row, the wipe for a soft-deleted user.
RefreshUser(h) ==
    /\ req[h].step = "check_user"
    /\ Begin(h, CASE status[req[h].user] = "active" -> [req[h] EXCEPT !.step = "rotate"]
                  [] status[req[h].user] = "soft"   -> [req[h] EXCEPT !.step = "wipe", !.token = NoToken]
                  [] OTHER                          -> Idle)
    /\ UNCHANGED <<now, status, sessions, hist>>

\* The new expiry is computed here, before the old row is marked.
RefreshRevoke(h) ==
    /\ req[h].step = "rotate"
    /\ Revoke(req[h].token)
    /\ Begin(h, [req[h] EXCEPT !.step = "create", !.expires = NewExpiry])
    /\ UNCHANGED <<now, status, hist>>

RefreshCreate(h, t) ==
    /\ req[h].step = "create"
    /\ ~Issued(t)
    /\ CreateCapped(req[h].user, t, req[h].expires)
    /\ RecordIssue(h, t)
    /\ Begin(h, Idle)
    /\ UNCHANGED <<now, status>>

\* delete_all_for_user, the answer to a replayed token or a deleted user.
Wipe(h) ==
    /\ req[h].step = "wipe"
    /\ DeleteAllForUser(req[h].user)
    /\ RecordWipe(req[h].user)
    /\ req' = [StaleFor(req[h].user) EXCEPT ![h] = Idle]
    /\ UNCHANGED <<now, status>>

\* sessions::delete by id, whatever the row has become since it was found.
Drop(h) ==
    /\ req[h].step = "drop"
    /\ sessions' = Without({t \in {req[h].token} : InTable(t)})
    /\ Begin(h, Idle)
    /\ UNCHANGED <<now, status, hist>>

-----------------------------------------------------------------------------
(* The other handlers of auth.rs *)

\* The user's row is read and the password verified against it.  Attempts
\* that fail, and the lockout columns, do not touch this table.
LoginFind(h, u) ==
    /\ req[h].step = "idle"
    /\ status[u] = "active"
    /\ Begin(h, [Idle EXCEPT !.step = "issue", !.user = u])
    /\ UNCHANGED <<now, status, sessions, hist>>

\* issue_tokens
IssueTokens(h, t) ==
    /\ req[h].step \in {"issue", "reissue"}
    /\ ~Issued(t)
    /\ CreateCapped(req[h].user, t, NewExpiry)
    /\ RecordIssue(h, t)
    /\ Begin(h, Idle)
    /\ UNCHANGED <<now, status>>

\* The current password is verified and the new hash stored; the access token
\* that authorises the call outlives its session, and deleted_at is not
\* looked at.
ChangePasswordUpdate(h, u) ==
    /\ req[h].step = "idle"
    /\ status[u] # "gone"
    /\ Begin(h, [Idle EXCEPT !.step = "wipe_then_issue", !.user = u])
    /\ UNCHANGED <<now, status, sessions, hist>>

ChangePasswordWipe(h) ==
    /\ req[h].step = "wipe_then_issue"
    /\ DeleteAllForUser(req[h].user)
    /\ RecordWipe(req[h].user)
    /\ req' = [StaleFor(req[h].user) EXCEPT ![h] = [req[h] EXCEPT !.step = "reissue"]]
    /\ UNCHANGED <<now, status>>

\* The row is looked up by the cookie's token, rotated or not.
LogoutFind(h, t) ==
    /\ req[h].step = "idle"
    /\ InTable(t)
    /\ Begin(h, [Idle EXCEPT !.step = "drop", !.token = t])
    /\ UNCHANGED <<now, status, sessions, hist>>

\* DELETE /auth/sessions/:id for a row of list_active_for_user.
RevokeSessionFind(h, t) ==
    /\ req[h].step = "idle"
    /\ sessions[t].state = "live" /\ sessions[t].expires > now
    /\ Begin(h, [Idle EXCEPT !.step = "drop", !.token = t])
    /\ UNCHANGED <<now, status, sessions, hist>>

\* The handler's future is dropped or fails at an await.
Abort(h) ==
    /\ req[h].step # "idle"
    /\ Begin(h, Idle)
    /\ UNCHANGED <<now, status, sessions, hist>>

-----------------------------------------------------------------------------
(* Administration, the daily cleanup and time *)

WipeUser(u) ==
    /\ DeleteAllForUser(u)
    /\ RecordWipe(u)
    /\ req' = StaleFor(u)
    /\ UNCHANGED now

AdminRevoke(u) == status[u] # "gone" /\ WipeUser(u) /\ UNCHANGED status

SoftDelete(u) ==
    status[u] = "active" /\ WipeUser(u) /\ status' = [status EXCEPT ![u] = "soft"]

HardDelete(u) ==
    status[u] # "gone" /\ WipeUser(u) /\ status' = [status EXCEPT ![u] = "gone"]

Restore(u) ==
    /\ status[u] = "soft"
    /\ status' = [status EXCEPT ![u] = "active"]
    /\ UNCHANGED <<now, sessions, req, hist>>

\* At startup and every 24 hours.
Cleanup ==
    /\ DeleteExpiredAndRevoked
    /\ UNCHANGED <<now, status, req, hist>>

Tick ==
    /\ now < MaxTime
    /\ now' = now + 1
    /\ UNCHANGED <<status, sessions, req, hist>>

-----------------------------------------------------------------------------
Init ==
    /\ now = 0
    /\ status = [u \in Users |-> "active"]
    /\ sessions = [t \in Tokens |-> NoRow]
    /\ req = [h \in Handlers |-> Idle]
    /\ hist = [t \in Tokens |-> NoHistory]

HandlerStep(h) ==
    \/ RefreshUser(h)
    \/ RefreshRevoke(h)
    \/ Wipe(h)
    \/ Drop(h)
    \/ ChangePasswordWipe(h)
    \/ Abort(h)
    \/ \E t \in Tokens : \/ RefreshFind(h, t)
                         \/ RefreshCreate(h, t)
                         \/ IssueTokens(h, t)
                         \/ LogoutFind(h, t)
                         \/ RevokeSessionFind(h, t)
    \/ \E u \in Users : LoginFind(h, u) \/ ChangePasswordUpdate(h, u)

AdminStep(u) == AdminRevoke(u) \/ SoftDelete(u) \/ HardDelete(u) \/ Restore(u)

Next ==
    \/ \E h \in Handlers : HandlerStep(h)
    \/ \E u \in Users : AdminStep(u)
    \/ Cleanup
    \/ Tick

Spec == Init /\ [][Next]_vars

-----------------------------------------------------------------------------
(* Properties *)

\* The variables stay in their sets.
TypeOK ==
    /\ now \in Nat
    /\ status \in [Users -> {"active", "soft", "gone"}]
    /\ sessions \in [Tokens -> Row]
    /\ req \in [Handlers -> Handler]
    /\ hist \in [Tokens -> History]

\* However logins, refreshes and password changes interleave, no user has more
\* than MAX_SESSIONS_PER_USER rows with revoked_at NULL: create_capped
\* is the only insert, and nothing ever clears revoked_at.
SessionCap == \A u \in Users : Cardinality(LiveOf(u)) <= MaxSessions

\* Rotation retires the old token before its successor exists: a token from
\* which another was ever issued is never active again, so two refreshes
\* of one token both succeed only when they overlap.
RotationRetiresParent ==
    \A t \in Tokens :
        hist[t].parent \in Tokens => sessions[hist[t].parent].state # "live"

\* A rotated row that has not expired leaves the table only through a wipe of
\* the user's sessions or a deletion of that very row by a logout, a
\* session revocation or an expiry.  Neither the daily cleanup nor the
\* eviction at the cap removes it, so the replay of its token is still
\* recognised as theft (the comment on REVOKED_SESSION_RETENTION_DAYS).
RotatedRowLost(t) ==
    /\ sessions[t].state = "rotated" /\ sessions[t].expires >= now
    /\ sessions'[t].state = "deleted"

RotatedRowsRetained ==
    [][\A t \in Tokens : RotatedRowLost(t) =>
         \/ hist'[t].wiped
         \/ \E h \in Handlers : req[h].step = "drop" /\ req[h].token = t]_vars

\* A wipe (theft detection, password change, soft delete, admin revocation)
\* leaves nothing behind that a later request can use: a token issued
\* after it from a wiped one was issued by a handler that had read its row
\* before the wipe, or descends from such a token.
OnlyOverlapSurvivesWipe ==
    \A t \in Tokens :
        /\ hist[t].parent \in Tokens
        /\ hist[hist[t].parent].wiped
        /\ ~hist[t].wiped
        => hist[t].survivor

=============================================================================
