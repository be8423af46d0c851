---------------------------- MODULE SessionsProofs ----------------------------
(***************************************************************************)
(* Theorems about Sessions, for any number of users, tokens and concurrent *)
(* handlers, any cap, any lifetime and any retention not shorter than it,  *)
(* and about Browser, for any number of tabs, accounts, tokens and losses. *)
(* Each part names the state of its own module only.                       *)
(***************************************************************************)
EXTENDS Sessions, Browser, FiniteSetTheorems, TLAPS

RefreshSteps == {"check_user", "rotate", "create"}

\* What a handler holds: a refresh past its first read holds an issued token
\* and that token's owner, and whoever waits for a wipe or an insert holds
\* a user.
HandlerOK(h) ==
    /\ req[h].step \in RefreshSteps =>
         /\ req[h].token \in Tokens
         /\ Issued(req[h].token)
         /\ req[h].user = sessions[req[h].token].user
    /\ req[h].step = "drop" => req[h].token \in Tokens
    /\ req[h].step \notin {"idle", "drop"} => req[h].user \in Users
    /\ req[h].step \notin RefreshSteps \cup {"drop"} => req[h].token = NoToken

HandlersOK == \A h \in Handlers : HandlerOK(h)

\* Rows belong to users, unused tokens have no history, and a successor
\* belongs to its parent's owner.
RowsOK ==
    \A t \in Tokens :
        /\ Issued(t) => sessions[t].user \in Users
        /\ ~Issued(t) => hist[t] = NoHistory
        /\ hist[t].parent \in Tokens =>
             /\ Issued(hist[t].parent)
             /\ sessions[hist[t].parent].user = sessions[t].user

\* The active rows of a user are finitely many, within the cap.
Capped == \A u \in Users : IsFiniteSet(LiveOf(u)) /\ Cardinality(LiveOf(u)) <= MaxSessions

\* RotationRetiresParent, carried through the step between the UPDATE of the
\* old row and the INSERT of the new one.
RotationInv ==
    /\ RotationRetiresParent
    /\ \A h \in Handlers : req[h].step = "create" => sessions[req[h].token].state # "live"

\* No row outlives its own rotation by more than a lifetime.
AgeInv ==
    /\ \A t \in Tokens :
         /\ sessions[t].state = "live" => sessions[t].expires <= now + TTL
         /\ sessions[t].state = "rotated" =>
              /\ sessions[t].revoked <= now
              /\ sessions[t].expires <= sessions[t].revoked + TTL
    /\ \A h \in Handlers : req[h].expires <= now + TTL

\* A wiped token has no row, and a refresh that still holds one is stale.
WipeInv ==
    /\ OnlyOverlapSurvivesWipe
    /\ \A t \in Tokens : hist[t].wiped => Issued(t) /\ ~InTable(t)
    /\ \A h \in Handlers :
         req[h].step \in RefreshSteps /\ hist[req[h].token].wiped => req[h].stale

Inv == TypeOK /\ HandlersOK /\ RowsOK /\ Capped /\ RotationInv /\ AgeInv /\ WipeInv

-----------------------------------------------------------------------------
(* The shape of the variables *)

LEMMA IdleType == Idle \in Handler
  BY DEF Idle, Handler, Steps

LEMMA WithoutType ==
    ASSUME TypeOK, NEW T \in SUBSET Tokens
    PROVE  Without(T) \in [Tokens -> Row]
  BY DEF TypeOK, Without, NoRow, Row

LEMMA CreateType ==
    ASSUME TypeOK, NEW u \in Users, NEW t \in Tokens, NEW e \in Nat, CreateCapped(u, t, e)
    PROVE  sessions' \in [Tokens -> Row]
  <1>1. PICK T \in Evictions(u) :
          sessions' = [Without(T) EXCEPT ![t] =
            [state |-> "live", user |-> u, created |-> now, expires |-> e, revoked |-> 0]]
    BY DEF CreateCapped
  <1>2. T \in SUBSET Tokens
    BY DEF Evictions, Oldest, LiveOf
  <1>3. Without(T) \in [Tokens -> Row]
    BY <1>2, WithoutType
  <1>4. [state |-> "live", user |-> u, created |-> now, expires |-> e, revoked |-> 0] \in Row
    BY DEF Row, TypeOK
  <1> QED
    BY <1>1, <1>3, <1>4

LEMMA WipeType ==
    ASSUME TypeOK, NEW u \in Users, DeleteAllForUser(u), RecordWipe(u)
    PROVE  /\ sessions' \in [Tokens -> Row]
           /\ hist' \in [Tokens -> History]
           /\ StaleFor(u) \in [Handlers -> Handler]
  <1>1. sessions' \in [Tokens -> Row]
    <2>1. RowsOf(u) \in SUBSET Tokens
      BY DEF RowsOf
    <2> QED
      BY <2>1, WithoutType DEF DeleteAllForUser
  <1>2. hist' \in [Tokens -> History]
    BY DEF TypeOK, RecordWipe, History
  <1>3. StaleFor(u) \in [Handlers -> Handler]
    BY DEF TypeOK, StaleFor, Handler
  <1> QED
    BY <1>1, <1>2, <1>3

LEMMA RecordIssueType ==
    ASSUME TypeOK, NEW h \in Handlers, NEW t \in Tokens, RecordIssue(h, t)
    PROVE  hist' \in [Tokens -> History]
  BY DEF TypeOK, RecordIssue, History, Handler

\* Every step keeps the variables in their sets; the handlers' own invariant
\* says that a handler about to wipe or to insert holds a user.
LEMMA TypeStep == TypeOK /\ HandlersOK /\ [Next]_vars => TypeOK'
  <1> SUFFICES ASSUME TypeOK, HandlersOK, [Next]_vars
               PROVE  TypeOK'
    OBVIOUS
  <1> USE IdleType
  <1>1. ASSUME NEW h \in Handlers, HandlerStep(h)
        PROVE  TypeOK'
    <2>1. CASE RefreshUser(h)
      BY ZenonT(30), <2>1 DEF TypeOK, RefreshUser, Begin, Handler, Steps
    <2>2. CASE RefreshRevoke(h)
      <3>1. req[h].token \in Tokens /\ now \in Nat
        BY <2>2 DEF RefreshRevoke, HandlersOK, HandlerOK, RefreshSteps, TypeOK
      <3>2. sessions' \in [Tokens -> Row]
        <4>1. \A r \in Row : [r EXCEPT !.state = "rotated", !.revoked = now] \in Row
          BY <3>1 DEF Row
        <4> DEFINE row == [sessions[req[h].token] EXCEPT !.state = "rotated", !.revoked = now]
        <4>2. row \in Row
          BY <3>1, <4>1 DEF TypeOK
        <4>3. sessions' = [sessions EXCEPT ![req[h].token] = row] \/ sessions' = sessions
          BY <2>2 DEF RefreshRevoke, Revoke
        <4> HIDE DEF row
        <4> QED
          BY <4>2, <4>3, <3>1 DEF TypeOK
      <3>3. [req[h] EXCEPT !.step = "create", !.expires = NewExpiry] \in Handler
        <4>1. NewExpiry \in Nat
          BY <3>1, RetentionAssumption DEF NewExpiry
        <4>2. \A r \in Handler, e \in Nat : [r EXCEPT !.step = "create", !.expires = e] \in Handler
          BY DEF Handler, Steps
        <4> QED
          BY <4>1, <4>2 DEF TypeOK
      <3> QED
        BY <2>2, <3>2, <3>3 DEF RefreshRevoke, Begin, TypeOK
    <2>3. CASE Wipe(h)
      <3>1. req[h].user \in Users
        BY <2>3 DEF Wipe, HandlersOK, HandlerOK
      <3>2. req' \in [Handlers -> Handler]
        BY <2>3, <3>1, WipeType DEF Wipe
      <3> QED
        BY <2>3, <3>1, <3>2, WipeType DEF Wipe, TypeOK
    <2>4. CASE Drop(h)
      <3>1. {t \in {req[h].token} : InTable(t)} \in SUBSET Tokens
        BY <2>4 DEF Drop, HandlersOK, HandlerOK
      <3>2. sessions' \in [Tokens -> Row]
        BY <2>4, <3>1, WithoutType DEF Drop
      <3> QED
        BY <2>4, <3>2 DEF Drop, TypeOK, Begin
    <2>5. CASE ChangePasswordWipe(h)
      <3>1. req[h].user \in Users
        BY <2>5 DEF ChangePasswordWipe, HandlersOK, HandlerOK
      <3>2. req' \in [Handlers -> Handler]
        BY ZenonT(30), <2>5, <3>1, WipeType DEF ChangePasswordWipe, Handler, Steps, TypeOK
      <3> QED
        BY <2>5, <3>1, <3>2, WipeType DEF ChangePasswordWipe, TypeOK
    <2>6. CASE Abort(h)
      BY <2>6 DEF Abort, Begin, TypeOK
    <2>7. ASSUME NEW t \in Tokens, RefreshFind(h, t)
          PROVE  TypeOK'
      <3>1. sessions[t].user \in Users \cup {NoUser}
        BY DEF TypeOK, Row
      <3>2. /\ [Idle EXCEPT !.step = "wipe", !.user = sessions[t].user] \in Handler
            /\ [Idle EXCEPT !.step = "drop", !.token = t] \in Handler
            /\ [Idle EXCEPT !.step = "check_user", !.user = sessions[t].user,
                            !.token = t] \in Handler
        BY <3>1 DEF Handler, Idle, Steps
      <3> QED
        BY <2>7, <3>2 DEF RefreshFind, Begin, TypeOK
    <2>8. ASSUME NEW t \in Tokens, RefreshCreate(h, t)
          PROVE  TypeOK'
      <3>1. req[h].user \in Users /\ req[h].expires \in Nat
        BY <2>8 DEF RefreshCreate, HandlersOK, HandlerOK, TypeOK, Handler
      <3>2. sessions' \in [Tokens -> Row]
        BY <2>8, <3>1, CreateType DEF RefreshCreate
      <3> QED
        BY <2>8, <3>2, RecordIssueType DEF RefreshCreate, TypeOK, Begin
    <2>9. ASSUME NEW t \in Tokens, IssueTokens(h, t)
          PROVE  TypeOK'
      <3>1. req[h].user \in Users /\ NewExpiry \in Nat
        BY <2>9, RetentionAssumption DEF IssueTokens, HandlersOK, HandlerOK, TypeOK, NewExpiry
      <3>2. sessions' \in [Tokens -> Row]
        BY <2>9, <3>1, CreateType DEF IssueTokens
      <3> QED
        BY <2>9, <3>2, RecordIssueType DEF IssueTokens, TypeOK, Begin
    <2>10. ASSUME NEW t \in Tokens, LogoutFind(h, t) \/ RevokeSessionFind(h, t)
           PROVE  TypeOK'
      <3>1. [Idle EXCEPT !.step = "drop", !.token = t] \in Handler
        BY DEF Handler, Idle, Steps
      <3> QED
        BY <2>10, <3>1 DEF LogoutFind, RevokeSessionFind, Begin, TypeOK
    <2>11. ASSUME NEW u \in Users, LoginFind(h, u) \/ ChangePasswordUpdate(h, u)
           PROVE  TypeOK'
      <3>1. /\ [Idle EXCEPT !.step = "issue", !.user = u] \in Handler
            /\ [Idle EXCEPT !.step = "wipe_then_issue", !.user = u] \in Handler
        BY DEF Handler, Idle, Steps
      <3> QED
        BY <2>11, <3>1 DEF LoginFind, ChangePasswordUpdate, Begin, TypeOK
    <2> QED
      BY <1>1, <2>1, <2>2, <2>3, <2>4, <2>5, <2>6, <2>7, <2>8, <2>9, <2>10, <2>11
         DEF HandlerStep
  <1>2. ASSUME NEW u \in Users, AdminStep(u)
        PROVE  TypeOK'
    <2>1. CASE AdminRevoke(u)
      BY <2>1, WipeType DEF AdminRevoke, WipeUser, TypeOK
    <2>2. CASE SoftDelete(u)
      BY <2>2, WipeType DEF SoftDelete, WipeUser, TypeOK
    <2>3. CASE HardDelete(u)
      BY <2>3, WipeType DEF HardDelete, WipeUser, TypeOK
    <2>4. CASE Restore(u)
      BY <2>4 DEF Restore, TypeOK
    <2> QED
      BY <1>2, <2>1, <2>2, <2>3, <2>4 DEF AdminStep
  <1>3. CASE Cleanup
    <2>1. sessions' \in [Tokens -> Row]
      BY <1>3, WithoutType DEF Cleanup, DeleteExpiredAndRevoked
    <2> QED
      BY <1>3, <2>1 DEF Cleanup, TypeOK
  <1>4. CASE Tick
    BY <1>4 DEF Tick, TypeOK
  <1>5. CASE UNCHANGED vars
    BY <1>5 DEF vars, TypeOK
  <1> QED
    BY <1>1, <1>2, <1>3, <1>4, <1>5 DEF Next

-----------------------------------------------------------------------------
(* What one step can do to an issued token *)

\* The owner of an issued token never changes, a deleted row never returns, a
\* row never becomes active again, and an active row is left as it is.
TokenStep(t) ==
    Issued(t) =>
      /\ sessions'[t].state # "unused"
      /\ sessions'[t].user = sessions[t].user
      /\ sessions'[t].state = "live" => sessions'[t] = sessions[t]
      /\ sessions'[t].state = "rotated" =>
           /\ InTable(t)
           /\ sessions'[t].expires = sessions[t].expires
           /\ \/ sessions'[t].revoked = now
              \/ sessions[t].state = "rotated" /\ sessions'[t].revoked = sessions[t].revoked

LEMMA WithoutTokens ==
    ASSUME TypeOK, NEW T \in SUBSET Tokens, NEW t \in Tokens
    PROVE  /\ t \notin T => Without(T)[t] = sessions[t]
           /\ t \in T => /\ Without(T)[t].state = "deleted"
                         /\ Without(T)[t].user = sessions[t].user
  BY DEF Without, NoRow

LEMMA DeleteTokens ==
    ASSUME TypeOK, NEW T \in SUBSET Tokens, sessions' = Without(T), NEW t \in Tokens
    PROVE  TokenStep(t)
  BY WithoutTokens DEF TokenStep, InTable, Issued

LEMMA RevokeTokens ==
    ASSUME TypeOK, NEW r \in Tokens, Revoke(r), NEW t \in Tokens
    PROVE  TokenStep(t)
  <1> DEFINE row == [sessions[r] EXCEPT !.state = "rotated", !.revoked = now]
  <1>1. /\ row.state = "rotated" /\ row.revoked = now
        /\ row.user = sessions[r].user /\ row.expires = sessions[r].expires
    BY DEF TypeOK, Row
  <1>2. (InTable(r) /\ sessions' = [sessions EXCEPT ![r] = row]) \/ sessions' = sessions
    BY DEF Revoke
  <1> HIDE DEF row
  <1> QED
    BY <1>1, <1>2 DEF TypeOK, TokenStep, InTable, Issued

LEMMA CreateTokens ==
    ASSUME TypeOK, NEW u \in Users, NEW new \in Tokens, NEW e \in Nat,
           CreateCapped(u, new, e), ~Issued(new), NEW t \in Tokens
    PROVE  /\ TokenStep(t)
           /\ sessions'[new] = [state |-> "live", user |-> u, created |-> now,
                                expires |-> e, revoked |-> 0]
           /\ t # new /\ sessions[t].state # "live" => sessions'[t] = sessions[t]
  <1> DEFINE row == [state |-> "live", user |-> u, created |-> now,
                     expires |-> e, revoked |-> 0]
  <1>1. PICK T \in Evictions(u) : sessions' = [Without(T) EXCEPT ![new] = row]
    BY DEF CreateCapped
  <1>2. T \in SUBSET Tokens /\ \A v \in T : sessions[v].state = "live"
    BY DEF Evictions, Oldest, LiveOf
  <1>3. Without(T) \in [Tokens -> Row]
    BY <1>2, WithoutType
  <1>4. sessions'[new] = row /\ \A v \in Tokens \ {new} : sessions'[v] = Without(T)[v]
    BY <1>1, <1>3
  <1>5. t # new => /\ t \notin T => sessions'[t] = sessions[t]
                   /\ t \in T => /\ sessions'[t].state = "deleted"
                                 /\ sessions'[t].user = sessions[t].user
    BY <1>2, <1>4, WithoutTokens
  <1> HIDE DEF row
  <1>6. t # new => TokenStep(t)
    BY <1>5 DEF TokenStep, InTable, Issued
  <1>7. t = new => TokenStep(t)
    BY DEF TokenStep, Issued
  <1>8. sessions[t].state # "live" => t \notin T
    BY <1>2
  <1> QED
    BY <1>4, <1>5, <1>6, <1>7, <1>8 DEF row

\* The steps that leave the table alone.
LEMMA SameTokens == ASSUME sessions' = sessions, NEW t \in Tokens PROVE TokenStep(t)
  BY DEF TokenStep, InTable, Issued

LEMMA StepTokens ==
    ASSUME TypeOK, HandlersOK, [Next]_vars, NEW t \in Tokens
    PROVE  TokenStep(t)
  <1>1. ASSUME NEW h \in Handlers, HandlerStep(h)
        PROVE  TokenStep(t)
    <2>1. CASE \/ RefreshUser(h) \/ Abort(h)
               \/ \E r \in Tokens : RefreshFind(h, r) \/ LogoutFind(h, r) \/ RevokeSessionFind(h, r)
               \/ \E u \in Users : LoginFind(h, u) \/ ChangePasswordUpdate(h, u)
      BY <2>1, SameTokens DEF RefreshUser, Abort, RefreshFind, LogoutFind, RevokeSessionFind,
                              LoginFind, ChangePasswordUpdate
    <2>2. CASE RefreshRevoke(h)
      BY <2>2, RevokeTokens DEF RefreshRevoke, HandlersOK, HandlerOK, RefreshSteps
    <2>3. CASE Wipe(h) \/ ChangePasswordWipe(h)
      <3>1. RowsOf(req[h].user) \in SUBSET Tokens
        BY DEF RowsOf
      <3> QED
        BY <2>3, <3>1, DeleteTokens DEF Wipe, ChangePasswordWipe, DeleteAllForUser
    <2>4. CASE Drop(h)
      <3>1. {r \in {req[h].token} : InTable(r)} \in SUBSET Tokens
        BY <2>4 DEF Drop, HandlersOK, HandlerOK
      <3> QED
        BY <2>4, <3>1, DeleteTokens DEF Drop
    <2>5. ASSUME NEW r \in Tokens, RefreshCreate(h, r) \/ IssueTokens(h, r)
          PROVE  TokenStep(t)
      <3>1. req[h].user \in Users /\ req[h].expires \in Nat /\ NewExpiry \in Nat
        BY <2>5, RetentionAssumption
           DEF RefreshCreate, IssueTokens, HandlersOK, HandlerOK, TypeOK, Handler, NewExpiry
      <3> QED
        BY <2>5, <3>1, CreateTokens DEF RefreshCreate, IssueTokens
    <2> QED
      BY <1>1, <2>1, <2>2, <2>3, <2>4, <2>5 DEF HandlerStep
  <1>2. ASSUME NEW u \in Users, AdminStep(u)
        PROVE  TokenStep(t)
    <2>1. RowsOf(u) \in SUBSET Tokens
      BY DEF RowsOf
    <2>2. CASE WipeUser(u)
      BY <2>1, <2>2, DeleteTokens DEF WipeUser, DeleteAllForUser
    <2>3. CASE Restore(u)
      BY <2>3, SameTokens DEF Restore
    <2> QED
      BY <1>2, <2>2, <2>3 DEF AdminStep, AdminRevoke, SoftDelete, HardDelete
  <1>3. CASE Cleanup
    BY <1>3, DeleteTokens DEF Cleanup, DeleteExpiredAndRevoked
  <1>4. CASE Tick \/ UNCHANGED vars
    BY <1>4, SameTokens DEF Tick, vars
  <1> QED
    BY <1>1, <1>2, <1>3, <1>4 DEF Next

-----------------------------------------------------------------------------
(* What one step does to the handlers *)

\* A handler that does not move: a wipe may have marked it stale.
Waits(g) ==
    /\ req'[g].step = req[g].step
    /\ req'[g].user = req[g].user
    /\ req'[g].token = req[g].token
    /\ req'[g].expires = req[g].expires
    /\ req[g].stale => req'[g].stale

LEMMA StaleForWaits ==
    ASSUME TypeOK, NEW u \in Users, NEW g \in Handlers
    PROVE  /\ StaleFor(u)[g].step = req[g].step
           /\ StaleFor(u)[g].user = req[g].user
           /\ StaleFor(u)[g].token = req[g].token
           /\ StaleFor(u)[g].expires = req[g].expires
           /\ req[g].stale \/ req[g].user = u => StaleFor(u)[g].stale
  BY DEF StaleFor, TypeOK, Handler

LEMMA BeginWaits ==
    ASSUME TypeOK, NEW h \in Handlers, NEW r, Begin(h, r), NEW g \in Handlers
    PROVE  IF g = h THEN req'[g] = r ELSE Waits(g)
  BY DEF Begin, TypeOK, Waits

LEMMA WaitingHandlerOK ==
    ASSUME TypeOK, HandlersOK, \A t \in Tokens : TokenStep(t),
           NEW g \in Handlers, Waits(g)
    PROVE  HandlerOK(g)'
  BY DEF HandlersOK, HandlerOK, TokenStep, Waits, Issued, RefreshSteps

LEMMA IdleHandlerOK == ASSUME NEW g \in Handlers, req'[g] = Idle PROVE HandlerOK(g)'
  BY DEF HandlerOK, Idle, RefreshSteps

\* Every handler, moved or not, still knows what its next step needs.
LEMMA HandlersStep == TypeOK /\ HandlersOK /\ RowsOK /\ [Next]_vars => HandlersOK'
  <1> SUFFICES ASSUME TypeOK, HandlersOK, RowsOK, [Next]_vars, NEW g \in Handlers
               PROVE  HandlerOK(g)'
    BY DEF HandlersOK
  <1>0. \A t \in Tokens : TokenStep(t)
    BY StepTokens
  <1>1. ASSUME NEW h \in Handlers, HandlerStep(h)
        PROVE  HandlerOK(g)'
    <2>1. CASE RefreshUser(h)
      <3>1. CASE g # h \/ req'[g] = Idle
        BY <2>1, <3>1, <1>0, BeginWaits, WaitingHandlerOK, IdleHandlerOK DEF RefreshUser
      <3>2. CASE g = h /\ req'[g] = [req[h] EXCEPT !.step = "rotate"]
        <4>1. /\ req'[g].step = "rotate" /\ req'[g].token = req[h].token
              /\ req'[g].user = req[h].user
          BY <3>2 DEF TypeOK, Handler
        <4> QED
          BY <2>1, <3>2, <4>1, <1>0
             DEF RefreshUser, HandlersOK, HandlerOK, RefreshSteps, TokenStep, Issued
      <3>3. CASE g = h /\ req'[g] = [req[h] EXCEPT !.step = "wipe", !.token = NoToken]
        <4>1. \A r \in Handler : LET w == [r EXCEPT !.step = "wipe", !.token = NoToken]
                                 IN  w.step = "wipe" /\ w.token = NoToken /\ w.user = r.user
          BY DEF Handler
        <4>2. req'[g].step = "wipe" /\ req'[g].token = NoToken /\ req'[g].user = req[h].user
          BY <3>3, <4>1 DEF TypeOK
        <4> QED
          BY <2>1, <3>3, <4>2 DEF RefreshUser, HandlersOK, HandlerOK, RefreshSteps
      <3>4. status[req[h].user] \in {"active", "soft", "gone"}
        BY <2>1 DEF TypeOK, RefreshUser, HandlersOK, HandlerOK
      <3> QED
        BY <2>1, <3>1, <3>2, <3>3, <3>4 DEF RefreshUser, Begin, TypeOK
    <2>2. CASE RefreshRevoke(h)
      <3>1. CASE g # h
        BY <2>2, <3>1, <1>0, BeginWaits, WaitingHandlerOK DEF RefreshRevoke
      <3>2. CASE g = h
        <4>1. \A r \in Handler, e \in Nat :
                LET w == [r EXCEPT !.step = "create", !.expires = e]
                IN  w.step = "create" /\ w.token = r.token /\ w.user = r.user
          BY DEF Handler
        <4>2. NewExpiry \in Nat
          BY RetentionAssumption DEF TypeOK, NewExpiry
        <4>3. /\ req'[g].step = "create" /\ req'[g].token = req[h].token
              /\ req'[g].user = req[h].user
          BY <2>2, <3>2, <4>1, <4>2 DEF RefreshRevoke, Begin, TypeOK
        <4> QED
          BY <2>2, <3>2, <4>3, <1>0
             DEF RefreshRevoke, HandlersOK, HandlerOK, RefreshSteps, TokenStep, Issued
      <3> QED
        BY <3>1, <3>2
    <2>3. CASE Wipe(h)
      <3>1. req[h].user \in Users
        BY <2>3 DEF Wipe, HandlersOK, HandlerOK
      <3>2. IF g = h THEN req'[g] = Idle ELSE Waits(g)
        BY <2>3, <3>1, StaleForWaits, WipeType DEF Wipe, Waits
      <3> QED
        BY <3>2, <1>0, WaitingHandlerOK, IdleHandlerOK
    <2>4. CASE ChangePasswordWipe(h)
      <3>1. req[h].user \in Users
        BY <2>4 DEF ChangePasswordWipe, HandlersOK, HandlerOK
      <3>2. g # h => Waits(g)
        BY <2>4, <3>1, StaleForWaits, WipeType DEF ChangePasswordWipe, Waits
      <3>3. g = h => req'[g].step = "reissue" /\ req'[g].user = req[h].user
                     /\ req'[g].token = req[h].token
        BY <2>4, <3>1, WipeType DEF ChangePasswordWipe, TypeOK, Handler
      <3>4. g = h => HandlerOK(g)'
        BY <2>4, <3>1, <3>3 DEF ChangePasswordWipe, HandlersOK, HandlerOK, RefreshSteps
      <3> QED
        BY <3>2, <3>4, <1>0, WaitingHandlerOK
    <2>5. CASE Drop(h) \/ Abort(h)
      BY <2>5, <1>0, BeginWaits, WaitingHandlerOK, IdleHandlerOK DEF Drop, Abort
    <2>6. ASSUME NEW t \in Tokens, RefreshCreate(h, t) \/ IssueTokens(h, t)
          PROVE  HandlerOK(g)'
      BY <2>6, <1>0, BeginWaits, WaitingHandlerOK, IdleHandlerOK DEF RefreshCreate, IssueTokens
    <2>7. ASSUME NEW t \in Tokens, RefreshFind(h, t)
          PROVE  HandlerOK(g)'
      <3>1. CASE g # h
        BY <2>7, <3>1, <1>0, BeginWaits, WaitingHandlerOK DEF RefreshFind
      <3>2. CASE g = h
        <4>1. Issued(t)' /\ sessions'[t].user = sessions[t].user /\ sessions[t].user \in Users
          BY <2>7 DEF RefreshFind, RowsOK, Issued, InTable
        <4>2. \/ req'[g] = [Idle EXCEPT !.step = "wipe", !.user = sessions[t].user]
              \/ req'[g] = [Idle EXCEPT !.step = "drop", !.token = t]
              \/ req'[g] = [Idle EXCEPT !.step = "check_user", !.user = sessions[t].user,
                                        !.token = t]
          BY <2>7, <3>2 DEF RefreshFind, Begin, TypeOK
        <4> QED
          BY <4>1, <4>2 DEF HandlerOK, RefreshSteps, Idle
      <3> QED
        BY <3>1, <3>2
    <2>8. ASSUME NEW t \in Tokens, LogoutFind(h, t) \/ RevokeSessionFind(h, t)
          PROVE  HandlerOK(g)'
      <3>1. CASE g # h
        BY <2>8, <3>1, <1>0, BeginWaits, WaitingHandlerOK DEF LogoutFind, RevokeSessionFind
      <3>2. CASE g = h
        <4>1. req'[g] = [Idle EXCEPT !.step = "drop", !.token = t]
          BY <2>8, <3>2 DEF LogoutFind, RevokeSessionFind, Begin, TypeOK
        <4> QED
          BY <4>1 DEF HandlerOK, RefreshSteps, Idle
      <3> QED
        BY <3>1, <3>2
    <2>9. ASSUME NEW u \in Users, LoginFind(h, u) \/ ChangePasswordUpdate(h, u)
          PROVE  HandlerOK(g)'
      <3>1. CASE g # h
        BY <2>9, <3>1, <1>0, BeginWaits, WaitingHandlerOK DEF LoginFind, ChangePasswordUpdate
      <3>2. CASE g = h
        <4>1. \/ req'[g] = [Idle EXCEPT !.step = "issue", !.user = u]
              \/ req'[g] = [Idle EXCEPT !.step = "wipe_then_issue", !.user = u]
          BY <2>9, <3>2 DEF LoginFind, ChangePasswordUpdate, Begin, TypeOK
        <4> QED
          BY <4>1 DEF HandlerOK, RefreshSteps, Idle
      <3> QED
        BY <3>1, <3>2
    <2> QED
      BY <1>1, <2>1, <2>2, <2>3, <2>4, <2>5, <2>6, <2>7, <2>8, <2>9 DEF HandlerStep
  <1>2. ASSUME NEW u \in Users, AdminStep(u)
        PROVE  HandlerOK(g)'
    <2>1. Waits(g)
      BY <1>2, StaleForWaits
         DEF AdminStep, AdminRevoke, SoftDelete, HardDelete, Restore, WipeUser, Waits
    <2> QED
      BY <2>1, <1>0, WaitingHandlerOK
  <1>3. CASE Cleanup \/ Tick \/ UNCHANGED vars
    <2>1. Waits(g)
      BY <1>3 DEF Cleanup, Tick, vars, Waits
    <2> QED
      BY <2>1, <1>0, WaitingHandlerOK
  <1> QED
    BY <1>1, <1>2, <1>3 DEF Next

-----------------------------------------------------------------------------
(* What one step records of the tokens *)

Inserted(t) == \E h \in Handlers : RefreshCreate(h, t) \/ IssueTokens(h, t)

\* A wipe also marks whatever the user's refreshes in flight have read.
Wiped(u) ==
    /\ DeleteAllForUser(u)
    /\ RecordWipe(u)
    /\ \A g \in Handlers : req[g].user = u /\ req'[g].step \in RefreshSteps => req'[g].stale

Deleting == Cleanup \/ \E h \in Handlers : Drop(h)

\* A step inserts a row, or wipes a user's rows, or records nothing; then only
\* the cleanup and the deletion of one row take rows out of the table.
LEMMA StepShape ==
    ASSUME TypeOK, HandlersOK, [Next]_vars
    PROVE  \/ \E t \in Tokens : Inserted(t)
           \/ \E u \in Users : Wiped(u)
           \/ /\ hist' = hist
              /\ \A t \in Tokens : ~Issued(t) => ~Issued(t)'
              /\ Deleting \/ \A t \in Tokens : InTable(t) => InTable(t)'
  <1> DEFINE Records == /\ hist' = hist
                        /\ \A t \in Tokens : ~Issued(t) => ~Issued(t)'
                        /\ Deleting \/ \A t \in Tokens : InTable(t) => InTable(t)'
  <1>0. ASSUME NEW T \in SUBSET Tokens, \A t \in T : InTable(t),
               sessions' = Without(T), hist' = hist, Deleting
        PROVE  Records
    BY <1>0, WithoutTokens DEF Issued, InTable
  <1>1. ASSUME NEW h \in Handlers, HandlerStep(h)
        PROVE  (\E t \in Tokens : Inserted(t)) \/ (\E u \in Users : Wiped(u)) \/ Records
    <2>1. CASE \/ RefreshUser(h) \/ Abort(h)
               \/ \E r \in Tokens : RefreshFind(h, r) \/ LogoutFind(h, r) \/ RevokeSessionFind(h, r)
               \/ \E u \in Users : LoginFind(h, u) \/ ChangePasswordUpdate(h, u)
      BY <2>1 DEF RefreshUser, Abort, RefreshFind, LogoutFind, RevokeSessionFind,
                  LoginFind, ChangePasswordUpdate, Issued, InTable
    <2>2. CASE RefreshRevoke(h)
      <3>1. req[h].token \in Tokens /\ Issued(req[h].token)
        BY <2>2 DEF RefreshRevoke, HandlersOK, HandlerOK, RefreshSteps
      <3>2. \A t \in Tokens : t # req[h].token => sessions'[t] = sessions[t]
        BY <2>2, <3>1 DEF RefreshRevoke, Revoke, TypeOK
      <3>3. \A r \in Row : [r EXCEPT !.state = "rotated", !.revoked = now].state = "rotated"
        BY DEF Row
      <3>4. InTable(req[h].token) => sessions'[req[h].token].state = "rotated"
        BY <2>2, <3>1, <3>3 DEF RefreshRevoke, Revoke, TypeOK
      <3> QED
        BY <2>2, <3>1, <3>2, <3>4 DEF RefreshRevoke, Issued, InTable
    <2>3. CASE Wipe(h)
      <3>1. req[h].user \in Users
        BY <2>3 DEF Wipe, HandlersOK, HandlerOK
      <3>2. ASSUME NEW g \in Handlers, req[g].user = req[h].user,
                   req'[g].step \in RefreshSteps
            PROVE  req'[g].stale
        BY <2>3, <3>1, <3>2, StaleForWaits, WipeType DEF Wipe, Idle, RefreshSteps
      <3> QED
        BY <2>3, <3>1, <3>2 DEF Wipe, Wiped
    <2>4. CASE ChangePasswordWipe(h)
      <3>1. req[h].user \in Users
        BY <2>4 DEF ChangePasswordWipe, HandlersOK, HandlerOK
      <3>2. [req[h] EXCEPT !.step = "reissue"].step = "reissue"
        BY DEF TypeOK, Handler
      <3>3. ASSUME NEW g \in Handlers, req[g].user = req[h].user,
                   req'[g].step \in RefreshSteps
            PROVE  req'[g].stale
        BY <2>4, <3>1, <3>2, <3>3, StaleForWaits, WipeType DEF ChangePasswordWipe, RefreshSteps
      <3> QED
        BY <2>4, <3>1, <3>3 DEF ChangePasswordWipe, Wiped
    <2>5. CASE Drop(h)
      <3>1. {r \in {req[h].token} : InTable(r)} \in SUBSET Tokens
        BY <2>5 DEF Drop, HandlersOK, HandlerOK
      <3> QED
        BY <2>5, <3>1, <1>0 DEF Drop, Deleting
    <2>6. CASE \E t \in Tokens : RefreshCreate(h, t) \/ IssueTokens(h, t)
      BY <2>6 DEF Inserted
    <2> QED
      BY <1>1, <2>1, <2>2, <2>3, <2>4, <2>5, <2>6 DEF HandlerStep
  <1>2. ASSUME NEW u \in Users, AdminStep(u)
        PROVE  Wiped(u) \/ Records
    <2>1. CASE WipeUser(u)
      BY <2>1, StaleForWaits DEF WipeUser, Wiped
    <2>2. CASE Restore(u)
      BY <2>2 DEF Restore, Issued, InTable
    <2> QED
      BY <1>2, <2>1, <2>2 DEF AdminStep, AdminRevoke, SoftDelete, HardDelete
  <1>3. CASE Cleanup
    BY <1>0, <1>3 DEF Cleanup, DeleteExpiredAndRevoked, Deleting
  <1>4. CASE Tick \/ UNCHANGED vars
    BY <1>4 DEF Tick, vars, Issued, InTable
  <1> QED
    BY <1>1, <1>2, <1>3, <1>4 DEF Next

\* A new row belongs to its parent's owner, and it descends from a refresh in
\* flight or from no token at all.
LEMMA InsertedToken ==
    ASSUME TypeOK, HandlersOK, NEW t \in Tokens, Inserted(t)
    PROVE  /\ ~Issued(t)
           /\ sessions'[t].state = "live" /\ sessions'[t].user \in Users
           /\ ~hist'[t].wiped
           /\ \A v \in Tokens \ {t} :
                /\ hist'[v] = hist[v]
                /\ sessions[v].state # "live" => sessions'[v] = sessions[v]
           /\ hist'[t].parent \in Tokens =>
                \E h \in Handlers :
                  /\ req[h].step = "create" /\ req[h].token = hist'[t].parent
                  /\ sessions'[t].user = req[h].user
                  /\ req[h].stale => hist'[t].survivor
  <1>1. PICK h \in Handlers : RefreshCreate(h, t) \/ IssueTokens(h, t)
    BY DEF Inserted
  <1>2. req[h].user \in Users /\ req[h].expires \in Nat /\ NewExpiry \in Nat
    BY <1>1, RetentionAssumption
       DEF RefreshCreate, IssueTokens, HandlersOK, HandlerOK, TypeOK, Handler, NewExpiry
  <1>3. ~Issued(t) /\ RecordIssue(h, t)
    BY <1>1 DEF RefreshCreate, IssueTokens
  <1>4. PICK e \in Nat : CreateCapped(req[h].user, t, e)
    BY <1>1, <1>2 DEF RefreshCreate, IssueTokens
  <1>5. /\ sessions'[t].state = "live" /\ sessions'[t].user = req[h].user
        /\ \A v \in Tokens \ {t} : sessions[v].state # "live" => sessions'[v] = sessions[v]
    <2>1. sessions'[t] = [state |-> "live", user |-> req[h].user, created |-> now,
                          expires |-> e, revoked |-> 0]
      BY <1>2, <1>3, <1>4, CreateTokens
    <2>2. \A v \in Tokens \ {t} : sessions[v].state # "live" => sessions'[v] = sessions[v]
      BY <1>2, <1>3, <1>4, CreateTokens
    <2> QED
      BY <2>1, <2>2
  <1>6. /\ hist'[t].parent = req[h].token
        /\ ~hist'[t].wiped
        /\ req[h].stale => hist'[t].survivor
        /\ \A v \in Tokens \ {t} : hist'[v] = hist[v]
    BY <1>3 DEF RecordIssue, TypeOK
  <1>7. req[h].token \in Tokens => req[h].step = "create"
    BY <1>1, TokensAssumption DEF RefreshCreate, IssueTokens, HandlersOK, HandlerOK, RefreshSteps
  <1> QED
    BY <1>2, <1>3, <1>5, <1>6, <1>7

\* A wipe leaves the user's tokens without rows, marks them, and touches no
\* other token.
LEMMA WipedToken ==
    ASSUME TypeOK, NEW u \in Users, Wiped(u), NEW t \in Tokens
    PROVE  /\ hist'[t].parent = hist[t].parent
           /\ hist'[t].survivor = hist[t].survivor
           /\ IF Issued(t) /\ sessions[t].user = u
              THEN hist'[t].wiped /\ Issued(t)' /\ ~InTable(t)'
              ELSE hist'[t] = hist[t] /\ sessions'[t] = sessions[t]
  <1>1. RowsOf(u) \in SUBSET Tokens
    BY DEF RowsOf
  <1>2. /\ t \notin RowsOf(u) => sessions'[t] = sessions[t]
        /\ t \in RowsOf(u) => sessions'[t].state = "deleted"
    BY <1>1, WithoutTokens DEF Wiped, DeleteAllForUser
  <1>3. IF Issued(t) /\ sessions[t].user = u
        THEN hist'[t] = [hist[t] EXCEPT !.wiped = TRUE] ELSE hist'[t] = hist[t]
    BY DEF Wiped, RecordWipe
  <1>4. LET w == [hist[t] EXCEPT !.wiped = TRUE]
        IN  w.wiped /\ w.parent = hist[t].parent /\ w.survivor = hist[t].survivor
    BY DEF TypeOK, History
  <1> QED
    BY <1>2, <1>3, <1>4 DEF RowsOf, InTable, Issued

LEMMA RowsStep == TypeOK /\ HandlersOK /\ RowsOK /\ [Next]_vars => RowsOK'
  <1> SUFFICES ASSUME TypeOK, HandlersOK, RowsOK, [Next]_vars, NEW t \in Tokens
               PROVE  /\ Issued(t)' => sessions'[t].user \in Users
                      /\ ~Issued(t)' => hist'[t] = NoHistory
                      /\ hist'[t].parent \in Tokens =>
                           /\ sessions'[hist'[t].parent].state # "unused"
                           /\ sessions'[hist'[t].parent].user = sessions'[t].user
    BY DEF RowsOK, Issued
  <1>0. \A v \in Tokens : Issued(v) => Issued(v)' /\ sessions'[v].user = sessions[v].user
    BY StepTokens DEF TokenStep, Issued
  <1>1. hist[t].parent \in Tokens => Issued(t)
    BY TokensAssumption DEF RowsOK, NoHistory
  <1>2. ASSUME NEW v \in Tokens, Inserted(v)
        PROVE  /\ Issued(t)' => sessions'[t].user \in Users
               /\ ~Issued(t)' => hist'[t] = NoHistory
               /\ hist'[t].parent \in Tokens =>
                    /\ sessions'[hist'[t].parent].state # "unused"
                    /\ sessions'[hist'[t].parent].user = sessions'[t].user
    <2>1. CASE t = v
      <3>1. Issued(t)' /\ sessions'[t].user \in Users
        BY <1>2, <2>1, InsertedToken DEF Issued
      <3>2. ASSUME hist'[t].parent \in Tokens
            PROVE  /\ sessions'[hist'[t].parent].state # "unused"
                   /\ sessions'[hist'[t].parent].user = sessions'[t].user
        <4>1. PICK h \in Handlers : /\ req[h].step = "create" /\ req[h].token = hist'[t].parent
                                    /\ sessions'[t].user = req[h].user
          BY <1>2, <2>1, <3>2, InsertedToken
        <4>2. Issued(req[h].token) /\ req[h].user = sessions[req[h].token].user
          BY <4>1 DEF HandlersOK, HandlerOK, RefreshSteps
        <4> QED
          BY <1>0, <3>2, <4>1, <4>2 DEF Issued
      <3> QED
        BY <3>1, <3>2
    <2>2. CASE t # v
      <3>1. hist'[t] = hist[t] /\ (~Issued(t) => ~Issued(t)')
        BY <1>2, <2>2, InsertedToken DEF Issued
      <3> QED
        BY <1>0, <1>1, <3>1 DEF RowsOK, Issued
    <2> QED
      BY <2>1, <2>2
  <1>3. ASSUME NEW u \in Users, Wiped(u)
        PROVE  /\ hist'[t].parent = hist[t].parent
               /\ ~Issued(t) => ~Issued(t)' /\ hist'[t] = hist[t]
    BY <1>3, WipedToken DEF Issued
  <1>4. ASSUME hist'[t].parent = hist[t].parent,
               ~Issued(t) => ~Issued(t)' /\ hist'[t] = hist[t]
        PROVE  /\ Issued(t)' => sessions'[t].user \in Users
               /\ ~Issued(t)' => hist'[t] = NoHistory
               /\ hist'[t].parent \in Tokens =>
                    /\ sessions'[hist'[t].parent].state # "unused"
                    /\ sessions'[hist'[t].parent].user = sessions'[t].user
    BY <1>0, <1>1, <1>4 DEF RowsOK, Issued
  <1> QED
    BY <1>2, <1>3, <1>4, StepShape

\* A handler that moves stops refreshing, or starts from a row of the table,
\* or goes on with the token it holds, and a refresh is past its UPDATE only
\* when the row it holds is not active.
Moves(g) ==
    /\ req'[g].expires \in {0, req[g].expires, NewExpiry}
    /\ \/ req'[g].step \notin RefreshSteps
       \/ /\ hist' = hist
          /\ req'[g].step = "check_user"
          /\ \E t \in Tokens : InTable(t) /\ req'[g].token = t
       \/ /\ hist' = hist
          /\ req[g].step \in RefreshSteps
          /\ req'[g].token = req[g].token
          /\ req'[g].stale = req[g].stale
          /\ req'[g].step = "create" => sessions'[req[g].token].state # "live"

LEMMA HandlerShape ==
    ASSUME TypeOK, HandlersOK, [Next]_vars, NEW g \in Handlers
    PROVE  Waits(g) \/ Moves(g)
  <1>0. ASSUME req'[g] = Idle
        PROVE  Moves(g)
    BY <1>0 DEF Moves, Idle, RefreshSteps
  <1>1. ASSUME NEW h \in Handlers, HandlerStep(h), g # h
        PROVE  Waits(g)
    <2>1. CASE Wipe(h) \/ ChangePasswordWipe(h)
      <3>1. req[h].user \in Users
        BY <2>1 DEF Wipe, ChangePasswordWipe, HandlersOK, HandlerOK
      <3> QED
        BY <1>1, <2>1, <3>1, StaleForWaits, WipeType DEF Wipe, ChangePasswordWipe, Waits
    <2>2. CASE RefreshUser(h) \/ RefreshRevoke(h) \/ Drop(h) \/ Abort(h)
      BY <1>1, <2>2, BeginWaits DEF RefreshUser, RefreshRevoke, Drop, Abort
    <2>3. CASE \E t \in Tokens : \/ RefreshFind(h, t) \/ RefreshCreate(h, t) \/ IssueTokens(h, t)
                                 \/ LogoutFind(h, t) \/ RevokeSessionFind(h, t)
      BY <1>1, <2>3, BeginWaits
         DEF RefreshFind, RefreshCreate, IssueTokens, LogoutFind, RevokeSessionFind
    <2>4. CASE \E u \in Users : LoginFind(h, u) \/ ChangePasswordUpdate(h, u)
      BY <1>1, <2>4, BeginWaits DEF LoginFind, ChangePasswordUpdate
    <2> QED
      BY <1>1, <2>1, <2>2, <2>3, <2>4 DEF HandlerStep
  <1>2. ASSUME HandlerStep(g)
        PROVE  Moves(g)
    <2>1. CASE RefreshUser(g)
      <3>1. CASE req'[g] = Idle
        BY <3>1, <1>0
      <3>2. CASE req'[g] = [req[g] EXCEPT !.step = "rotate"]
        <4>1. /\ req'[g].step = "rotate" /\ req'[g].token = req[g].token
              /\ req'[g].stale = req[g].stale /\ req'[g].expires = req[g].expires
          BY <3>2 DEF TypeOK, Handler
        <4> QED
          BY <2>1, <4>1 DEF RefreshUser, Moves, RefreshSteps
      <3>3. CASE req'[g] = [req[g] EXCEPT !.step = "wipe", !.token = NoToken]
        <4>1. \A r \in Handler : LET w == [r EXCEPT !.step = "wipe", !.token = NoToken]
                                 IN  w.step = "wipe" /\ w.expires = r.expires
          BY DEF Handler
        <4>2. req'[g].step = "wipe" /\ req'[g].expires = req[g].expires
          BY <3>3, <4>1 DEF TypeOK
        <4> QED
          BY <4>2 DEF Moves, RefreshSteps
      <3>4. status[req[g].user] \in {"active", "soft", "gone"}
        BY <2>1 DEF TypeOK, RefreshUser, HandlersOK, HandlerOK
      <3> QED
        BY <2>1, <3>1, <3>2, <3>3, <3>4 DEF RefreshUser, Begin, TypeOK
    <2>2. CASE RefreshRevoke(g)
      <3>1. \A r \in Handler, e \in Nat :
              LET w == [r EXCEPT !.step = "create", !.expires = e]
              IN  /\ w.step = "create" /\ w.token = r.token
                  /\ w.stale = r.stale /\ w.expires = e
        BY DEF Handler
      <3>2. NewExpiry \in Nat
        BY RetentionAssumption DEF TypeOK, NewExpiry
      <3>3. /\ req'[g].step = "create" /\ req'[g].token = req[g].token
            /\ req'[g].stale = req[g].stale /\ req'[g].expires = NewExpiry
        BY <2>2, <3>1, <3>2 DEF RefreshRevoke, Begin, TypeOK
      <3>4. sessions'[req[g].token].state # "live"
        <4>1. req[g].token \in Tokens
          BY <2>2 DEF RefreshRevoke, HandlersOK, HandlerOK, RefreshSteps
        <4>2. \A r \in Row : [r EXCEPT !.state = "rotated", !.revoked = now].state = "rotated"
          BY DEF Row
        <4>3. InTable(req[g].token) => sessions'[req[g].token].state = "rotated"
          BY <2>2, <4>1, <4>2 DEF RefreshRevoke, Revoke, TypeOK
        <4> QED
          BY <2>2, <4>1, <4>3 DEF RefreshRevoke, Revoke, InTable
      <3> QED
        BY <2>2, <3>3, <3>4 DEF RefreshRevoke, Moves, RefreshSteps
    <2>3. CASE Wipe(g)
      <3>1. req[g].user \in Users
        BY <2>3 DEF Wipe, HandlersOK, HandlerOK
      <3> QED
        BY <2>3, <3>1, <1>0, WipeType DEF Wipe
    <2>4. CASE ChangePasswordWipe(g)
      <3>1. req[g].user \in Users
        BY <2>4 DEF ChangePasswordWipe, HandlersOK, HandlerOK
      <3>2. req'[g].step = "reissue" /\ req'[g].expires = req[g].expires
        BY <2>4, <3>1, WipeType DEF ChangePasswordWipe, TypeOK, Handler
      <3> QED
        BY <3>2 DEF Moves, RefreshSteps
    <2>5. CASE Drop(g) \/ Abort(g) \/ \E t \in Tokens : RefreshCreate(g, t) \/ IssueTokens(g, t)
      BY <2>5, <1>0, BeginWaits DEF Drop, Abort, RefreshCreate, IssueTokens
    <2>6. ASSUME NEW t \in Tokens, RefreshFind(g, t)
          PROVE  Moves(g)
      <3>1. \/ req'[g] = [Idle EXCEPT !.step = "wipe", !.user = sessions[t].user]
            \/ req'[g] = [Idle EXCEPT !.step = "drop", !.token = t]
            \/ req'[g] = [Idle EXCEPT !.step = "check_user", !.user = sessions[t].user,
                                      !.token = t]
        BY <2>6 DEF RefreshFind, Begin, TypeOK
      <3>2. InTable(t) /\ hist' = hist
        BY <2>6 DEF RefreshFind
      <3> QED
        BY <3>1, <3>2 DEF Moves, RefreshSteps, Idle
    <2>7. ASSUME NEW t \in Tokens, LogoutFind(g, t) \/ RevokeSessionFind(g, t)
          PROVE  Moves(g)
      <3>1. req'[g] = [Idle EXCEPT !.step = "drop", !.token = t]
        BY <2>7 DEF LogoutFind, RevokeSessionFind, Begin, TypeOK
      <3> QED
        BY <3>1 DEF Moves, RefreshSteps, Idle
    <2>8. ASSUME NEW u \in Users, LoginFind(g, u) \/ ChangePasswordUpdate(g, u)
          PROVE  Moves(g)
      <3>1. \/ req'[g] = [Idle EXCEPT !.step = "issue", !.user = u]
            \/ req'[g] = [Idle EXCEPT !.step = "wipe_then_issue", !.user = u]
        BY <2>8 DEF LoginFind, ChangePasswordUpdate, Begin, TypeOK
      <3> QED
        BY <3>1 DEF Moves, RefreshSteps, Idle
    <2> QED
      BY <1>2, <2>1, <2>2, <2>3, <2>4, <2>5, <2>6, <2>7, <2>8 DEF HandlerStep
  <1>3. ASSUME NEW u \in Users, AdminStep(u)
        PROVE  Waits(g)
    BY <1>3, StaleForWaits
       DEF AdminStep, AdminRevoke, SoftDelete, HardDelete, Restore, WipeUser, Waits
  <1>4. CASE Cleanup \/ Tick \/ UNCHANGED vars
    BY <1>4 DEF Cleanup, Tick, vars, Waits
  <1> QED
    BY <1>1, <1>2, <1>3, <1>4 DEF Next

-----------------------------------------------------------------------------
(* Rotation, ages and wipes *)

LEMMA RotationStep ==
    TypeOK /\ HandlersOK /\ RowsOK /\ RotationInv /\ [Next]_vars => RotationInv'
  <1> SUFFICES ASSUME TypeOK, HandlersOK, RowsOK, RotationInv, [Next]_vars
               PROVE  RotationInv'
    OBVIOUS
  <1>0. ASSUME NEW p \in Tokens, Issued(p), sessions[p].state # "live"
        PROVE  sessions'[p].state # "live"
    BY <1>0, StepTokens DEF TokenStep
  <1>1. ASSUME NEW t \in Tokens, hist'[t].parent \in Tokens
        PROVE  sessions'[hist'[t].parent].state # "live"
    <2>1. CASE Inserted(t)
      <3>1. PICK h \in Handlers : req[h].step = "create" /\ req[h].token = hist'[t].parent
        BY <1>1, <2>1, InsertedToken
      <3>2. sessions[req[h].token].state # "live" /\ Issued(req[h].token)
        BY <3>1 DEF RotationInv, HandlersOK, HandlerOK, RefreshSteps
      <3> QED
        BY <1>0, <1>1, <3>1, <3>2
    <2>2. CASE hist'[t].parent = hist[t].parent
      BY <1>0, <1>1, <2>2 DEF RotationInv, RotationRetiresParent, RowsOK
    <2>3. ~Inserted(t) => hist'[t].parent = hist[t].parent
      BY StepShape, InsertedToken, WipedToken
    <2> QED
      BY <2>1, <2>2, <2>3
  <1>2. ASSUME NEW g \in Handlers, req'[g].step = "create"
        PROVE  sessions'[req'[g].token].state # "live"
    <2>1. CASE Waits(g)
      BY <1>0, <1>2, <2>1 DEF Waits, RotationInv, HandlersOK, HandlerOK, RefreshSteps
    <2>2. CASE Moves(g)
      BY <1>2, <2>2 DEF Moves, RefreshSteps
    <2> QED
      BY <2>1, <2>2, HandlerShape
  <1> QED
    BY <1>1, <1>2 DEF RotationInv, RotationRetiresParent

LEMMA AgeStep == TypeOK /\ HandlersOK /\ AgeInv /\ [Next]_vars => AgeInv'
  <1> SUFFICES ASSUME TypeOK, HandlersOK, AgeInv, [Next]_vars
               PROVE  AgeInv'
    OBVIOUS
  <1> DEFINE Young(t) == /\ sessions[t].state = "live" => sessions[t].expires <= now + TTL
                         /\ sessions[t].state = "rotated" =>
                              /\ sessions[t].revoked <= now
                              /\ sessions[t].expires <= sessions[t].revoked + TTL
  <1>0. now \in Nat /\ now' \in Nat /\ now' >= now /\ TTL \in Nat
    <2>1. now' = now \/ now' = now + 1
      BY DEF Next, HandlerStep, AdminStep, vars, RefreshUser, RefreshRevoke, Wipe, Drop,
             ChangePasswordWipe, Abort, RefreshFind, RefreshCreate, IssueTokens, LogoutFind,
             RevokeSessionFind, LoginFind, ChangePasswordUpdate, AdminRevoke, SoftDelete,
             HardDelete, Restore, WipeUser, Cleanup, Tick
    <2> QED
      BY <2>1, RetentionAssumption DEF TypeOK
  <1>1. ASSUME NEW t \in Tokens
        PROVE  Young(t)'
    <2>0. sessions[t].expires \in Nat /\ sessions[t].revoked \in Nat
      BY DEF TypeOK, Row
    <2>1. CASE Issued(t)
      BY <1>0, <2>0, <2>1, StepTokens DEF TokenStep, AgeInv, InTable
    <2>2. CASE ~Issued(t) /\ ~Inserted(t)
      <3>1. ~Issued(t)'
        BY <2>2, StepShape, InsertedToken, WipedToken DEF Issued
      <3> QED
        BY <3>1 DEF Issued
    <2>3. CASE Inserted(t)
      <3>1. PICK h \in Handlers : RefreshCreate(h, t) \/ IssueTokens(h, t)
        BY <2>3 DEF Inserted
      <3>2. /\ req[h].user \in Users /\ req[h].expires \in Nat /\ NewExpiry \in Nat
            /\ req[h].expires <= now + TTL /\ NewExpiry <= now + TTL
        BY <1>0, <3>1
           DEF RefreshCreate, IssueTokens, HandlersOK, HandlerOK, TypeOK, Handler, NewExpiry, AgeInv
      <3>3. PICK e \in {req[h].expires, NewExpiry} : CreateCapped(req[h].user, t, e)
        BY <3>1 DEF RefreshCreate, IssueTokens
      <3>4. ~Issued(t)
        BY <3>1 DEF RefreshCreate, IssueTokens
      <3>5. sessions'[t] = [state |-> "live", user |-> req[h].user, created |-> now,
                            expires |-> e, revoked |-> 0]
        BY <3>2, <3>3, <3>4, CreateTokens
      <3>6. sessions'[t].state = "live" /\ sessions'[t].expires = e
        BY <3>5
      <3>7. e <= now' + TTL
        BY <1>0, <3>2, <3>3
      <3> QED
        BY <3>6, <3>7
    <2> QED
      BY <2>1, <2>2, <2>3
  <1>2. ASSUME NEW g \in Handlers
        PROVE  req'[g].expires <= now' + TTL
    <2>1. req[g].expires \in Nat /\ req[g].expires <= now + TTL
      BY DEF TypeOK, Handler, AgeInv
    <2>2. req'[g].expires \in {0, req[g].expires, now + TTL}
      BY HandlerShape DEF Waits, Moves, NewExpiry
    <2> QED
      BY <1>0, <2>1, <2>2
  <1> QED
    BY <1>1, <1>2 DEF AgeInv

LEMMA WipeStep ==
    TypeOK /\ HandlersOK /\ RowsOK /\ WipeInv /\ [Next]_vars => WipeInv'
  <1> SUFFICES ASSUME TypeOK, HandlersOK, RowsOK, WipeInv, [Next]_vars
               PROVE  WipeInv'
    OBVIOUS
  <1>1. ASSUME NEW p \in Tokens, Issued(p), hist'[p].wiped, ~hist[p].wiped
        PROVE  \E u \in Users : Wiped(u) /\ sessions[p].user = u
    BY <1>1, StepShape, InsertedToken, WipedToken
  <1>2. ASSUME NEW t \in Tokens, hist'[t].parent \in Tokens,
               hist'[hist'[t].parent].wiped, ~hist'[t].wiped
        PROVE  hist'[t].survivor
    <2> DEFINE p == hist'[t].parent
    <2>1. CASE Inserted(t)
      <3>1. PICK h \in Handlers : /\ req[h].step = "create" /\ req[h].token = p
                                  /\ req[h].stale => hist'[t].survivor
        BY <1>2, <2>1, InsertedToken
      <3>2. Issued(p)
        BY <3>1 DEF HandlersOK, HandlerOK, RefreshSteps
      <3>3. p # t /\ hist'[p] = hist[p]
        BY <1>2, <2>1, <3>2, InsertedToken
      <3> QED
        BY <1>2, <3>1, <3>3 DEF WipeInv, RefreshSteps
    <2>2. CASE ~Inserted(t)
      <3>1. /\ p = hist[t].parent /\ hist'[t].survivor = hist[t].survivor
            /\ hist[t].wiped => hist'[t].wiped
        BY <2>2, StepShape, InsertedToken, WipedToken
      <3>2. Issued(t) /\ Issued(p) /\ sessions[p].user = sessions[t].user
        BY <1>2, <3>1, TokensAssumption DEF RowsOK, NoHistory
      <3>3. hist[p].wiped
        BY <1>1, <1>2, <3>2, WipedToken
      <3> QED
        BY <1>2, <3>1, <3>3 DEF WipeInv, OnlyOverlapSurvivesWipe
    <2> QED
      BY <2>1, <2>2
  <1>3. ASSUME NEW t \in Tokens, hist'[t].wiped
        PROVE  Issued(t)' /\ ~InTable(t)'
    <2>1. CASE hist[t].wiped
      BY <2>1, StepTokens DEF WipeInv, TokenStep, InTable, Issued
    <2>2. CASE ~hist[t].wiped
      BY <1>3, <2>2, StepShape, InsertedToken, WipedToken
    <2> QED
      BY <2>1, <2>2
  <1>4. ASSUME NEW g \in Handlers, req'[g].step \in RefreshSteps, hist'[req'[g].token].wiped
        PROVE  req'[g].stale
    <2>1. CASE hist' = hist /\ ~Waits(g)
      <3>1. Moves(g)
        BY <2>1, HandlerShape
      <3> QED
        BY <1>4, <2>1, <3>1 DEF Moves, WipeInv
    <2>2. CASE Waits(g)
      <3> DEFINE p == req[g].token
      <3>1. /\ p \in Tokens /\ Issued(p) /\ req[g].user = sessions[p].user
            /\ hist'[p].wiped /\ req[g].step \in RefreshSteps
        BY <1>4, <2>2 DEF Waits, HandlersOK, HandlerOK
      <3>2. CASE hist[p].wiped
        BY <2>2, <3>1, <3>2 DEF Waits, WipeInv
      <3>3. CASE ~hist[p].wiped
        BY <1>1, <1>4, <3>1, <3>3 DEF Wiped
      <3> QED
        BY <3>2, <3>3
    <2> QED
      BY <1>4, <2>1, <2>2, HandlerShape DEF Moves
  <1> QED
    BY <1>2, <1>3, <1>4 DEF WipeInv, OnlyOverlapSurvivesWipe, Issued, InTable

-----------------------------------------------------------------------------
(* The cap *)

\* create_capped in one transaction: whoever is evicted, the new row fits.
LEMMA CreateCaps ==
    ASSUME TypeOK, Capped, NEW u \in Users, NEW new \in Tokens, NEW e \in Nat,
           CreateCapped(u, new, e), ~Issued(new), NEW w \in Users
    PROVE  IsFiniteSet(LiveOf(w)') /\ Cardinality(LiveOf(w)') <= MaxSessions
  <1> DEFINE row == [state |-> "live", user |-> u, created |-> now,
                     expires |-> e, revoked |-> 0]
  <1>0. /\ IsFiniteSet(LiveOf(w)) /\ Cardinality(LiveOf(w)) \in Nat
        /\ Cardinality(LiveOf(w)) <= MaxSessions
    BY FS_CardinalityType DEF Capped
  <1>1. PICK T \in Evictions(u) : sessions' = [Without(T) EXCEPT ![new] = row]
    BY DEF CreateCapped
  <1>2. T \in SUBSET LiveOf(u) /\ LiveOf(u) \in SUBSET Tokens
    BY <1>1 DEF Evictions, Oldest, LiveOf
  <1>3. Without(T) \in [Tokens -> Row]
    BY <1>2, WithoutType
  <1>4. /\ sessions'[new] = row
        /\ \A v \in Tokens \ {new} : sessions'[v] = Without(T)[v]
    BY <1>1, <1>3
  <1>5. /\ sessions'[new].user = u
        /\ \A v \in Tokens \ {new} :
             sessions'[v].state = "live" => v \notin T /\ sessions'[v] = sessions[v]
    BY <1>2, <1>4, WithoutTokens
  <1> HIDE DEF row
  <1>6. CASE w # u
    <2>1. LiveOf(w)' \in SUBSET LiveOf(w)
      BY <1>5, <1>6 DEF LiveOf
    <2> QED
      BY <1>0, <2>1, FS_Subset, FS_CardinalityType, CapAssumption
  <1>7. CASE w = u
    <2>1. LiveOf(u)' \in SUBSET ((LiveOf(u) \ T) \cup {new})
      BY <1>5 DEF LiveOf
    <2>2. IsFiniteSet(LiveOf(u) \ T) /\ Cardinality(LiveOf(u) \ T) + 1 <= MaxSessions
      <3>1. CASE Cardinality(LiveOf(u)) >= MaxSessions
        <4>1. PICK v \in LiveOf(u) : T = {v}
          BY <1>1, <3>1 DEF Evictions, Oldest
        <4>2. IsFiniteSet(LiveOf(u)) /\ Cardinality(LiveOf(u)) \in Nat
              /\ Cardinality(LiveOf(u)) <= MaxSessions
          BY <1>0, <1>7
        <4>3. /\ IsFiniteSet(LiveOf(u) \ {v})
              /\ Cardinality(LiveOf(u) \ {v}) = Cardinality(LiveOf(u)) - 1
          BY <4>2, FS_RemoveElement
        <4> QED
          BY <4>1, <4>2, <4>3, CapAssumption
      <3>2. CASE ~(Cardinality(LiveOf(u)) >= MaxSessions)
        <4>1. LiveOf(u) \ T = LiveOf(u)
          BY <1>1, <3>2 DEF Evictions
        <4> QED
          BY <1>0, <1>7, <3>2, <4>1, CapAssumption
      <3> QED
        BY <3>1, <3>2
    <2>3. /\ IsFiniteSet((LiveOf(u) \ T) \cup {new})
          /\ Cardinality((LiveOf(u) \ T) \cup {new}) \in Nat
          /\ Cardinality((LiveOf(u) \ T) \cup {new}) <= MaxSessions
      <3> DEFINE L == LiveOf(u) \ T
      <3>1. IsFiniteSet(L) /\ Cardinality(L) \in Nat /\ Cardinality(L) + 1 <= MaxSessions
        BY <2>2, FS_CardinalityType
      <3> HIDE DEF L
      <3>2. /\ IsFiniteSet(L \cup {new})
            /\ Cardinality(L \cup {new}) \in {Cardinality(L), Cardinality(L) + 1}
        BY <3>1, FS_AddElement
      <3>3. /\ Cardinality(L \cup {new}) \in Nat
            /\ Cardinality(L \cup {new}) <= MaxSessions
        BY <3>1, <3>2, CapAssumption
      <3> QED
        BY <3>2, <3>3 DEF L
    <2>4. IsFiniteSet(LiveOf(u)') /\ Cardinality(LiveOf(u)') \in Nat
          /\ Cardinality(LiveOf(u)') <= Cardinality((LiveOf(u) \ T) \cup {new})
      BY <2>1, <2>3, FS_Subset, FS_CardinalityType
    <2> QED
      BY <1>7, <2>3, <2>4, CapAssumption
  <1> QED
    BY <1>6, <1>7

LEMMA CappedStep == TypeOK /\ HandlersOK /\ Capped /\ [Next]_vars => Capped'
  <1> SUFFICES ASSUME TypeOK, HandlersOK, Capped, [Next]_vars, NEW w \in Users
               PROVE  IsFiniteSet(LiveOf(w)') /\ Cardinality(LiveOf(w)') <= MaxSessions
    BY DEF Capped
  <1>1. CASE \E t \in Tokens : Inserted(t)
    <2>1. PICK t \in Tokens, h \in Handlers : RefreshCreate(h, t) \/ IssueTokens(h, t)
      BY <1>1 DEF Inserted
    <2>2. req[h].user \in Users /\ req[h].expires \in Nat /\ NewExpiry \in Nat
      BY <2>1, RetentionAssumption
         DEF RefreshCreate, IssueTokens, HandlersOK, HandlerOK, TypeOK, Handler, NewExpiry
    <2> QED
      BY <2>1, <2>2, CreateCaps DEF RefreshCreate, IssueTokens
  <1>2. CASE ~\E t \in Tokens : Inserted(t)
    <2>1. \A t \in Tokens : ~Issued(t) => ~Issued(t)'
      BY <1>2, StepShape, WipedToken DEF Issued
    <2>2. LiveOf(w)' \in SUBSET LiveOf(w)
      BY <2>1, StepTokens DEF LiveOf, TokenStep, Issued
    <2>3. /\ IsFiniteSet(LiveOf(w)) /\ Cardinality(LiveOf(w)) \in Nat
          /\ Cardinality(LiveOf(w)) <= MaxSessions
      BY FS_CardinalityType DEF Capped
    <2> QED
      BY <2>2, <2>3, FS_Subset, FS_CardinalityType, CapAssumption
  <1> QED
    BY <1>1, <1>2

-----------------------------------------------------------------------------
(* The theorems *)

LEMMA InitInv == Init => Inv
  <1> SUFFICES ASSUME Init
               PROVE  Inv
    OBVIOUS
  <1>1. TypeOK
    BY IdleType DEF Init, TypeOK, NoRow, Row, NoHistory, History
  <1>2. HandlersOK /\ RowsOK /\ RotationInv /\ WipeInv
    BY TokensAssumption
       DEF Init, HandlersOK, HandlerOK, RefreshSteps, Idle, RowsOK, Issued, InTable, NoRow,
           NoHistory, RotationInv, RotationRetiresParent, WipeInv, OnlyOverlapSurvivesWipe
  <1>3. Capped
    <2>1. \A u \in Users : LiveOf(u) = {}
      BY DEF Init, LiveOf, NoRow
    <2> QED
      BY <2>1, FS_EmptySet, CapAssumption DEF Capped
  <1>4. AgeInv
    BY RetentionAssumption DEF Init, AgeInv, NoRow, Idle
  <1> QED
    BY <1>1, <1>2, <1>3, <1>4 DEF Inv

\* The inductive invariant that the theorems below rest on.
THEOREM Invariance == Spec => []Inv
  <1>1. Inv /\ [Next]_vars => Inv'
    BY TypeStep, HandlersStep, RowsStep, CappedStep, RotationStep, AgeStep, WipeStep DEF Inv
  <1> QED
    BY <1>1, InitInv, PTL DEF Spec

\* Type correctness, for any number of users, tokens and handlers.
THEOREM TypeCorrect == Spec => []TypeOK
  <1>1. Inv => TypeOK
    BY DEF Inv
  <1> QED
    BY <1>1, Invariance, PTL

\* create_capped keeps every user within the cap, whatever runs concurrently.
THEOREM CapHolds == Spec => []SessionCap
  <1>1. Inv => SessionCap
    BY DEF Inv, Capped, SessionCap
  <1> QED
    BY <1>1, Invariance, PTL

\* refresh never leaves a rotated token usable beside its successor.
THEOREM RotationHolds == Spec => []RotationRetiresParent
  <1>1. Inv => RotationRetiresParent
    BY DEF Inv, RotationInv
  <1> QED
    BY <1>1, Invariance, PTL

\* A session that survives delete_all_for_user was being refreshed during it.
THEOREM WipeHolds == Spec => []OnlyOverlapSurvivesWipe
  <1>1. Inv => OnlyOverlapSurvivesWipe
    BY DEF Inv, WipeInv
  <1> QED
    BY <1>1, Invariance, PTL

\* Cleanup and eviction keep the rows that theft detection needs, as long as
\* the retention is not shorter than the lifetime of a token.
THEOREM RetentionHolds == Spec => RotatedRowsRetained
  <1> DEFINE Kept(t) == RotatedRowLost(t) =>
                          \/ hist'[t].wiped
                          \/ \E h \in Handlers : req[h].step = "drop" /\ req[h].token = t
  <1>1. ASSUME Inv, [Next]_vars, NEW t \in Tokens
        PROVE  Kept(t)
    <2> SUFFICES ASSUME RotatedRowLost(t)
                 PROVE  \/ hist'[t].wiped
                        \/ \E h \in Handlers : req[h].step = "drop" /\ req[h].token = t
      OBVIOUS
    <2>0. TypeOK /\ HandlersOK /\ AgeInv /\ Issued(t) /\ sessions'[t] # sessions[t]
      BY <1>1 DEF Inv, RotatedRowLost, Issued
    <2>1. CASE \E v \in Tokens : Inserted(v)
      <3>1. sessions'[t] = sessions[t]
        BY <2>0, <2>1, InsertedToken DEF RotatedRowLost
      <3> QED
        BY <2>0, <3>1
    <2>2. CASE \E u \in Users : Wiped(u)
      BY <2>0, <2>2, WipedToken
    <2>3. CASE Cleanup
      <3>1. /\ sessions[t].expires \in Nat /\ sessions[t].revoked \in Nat /\ now \in Nat
            /\ TTL \in Nat /\ Retention \in Nat /\ Retention >= TTL
        BY <2>0, RetentionAssumption DEF TypeOK, Row
      <3>2. sessions[t].expires < now \/ sessions[t].revoked < now - Retention
        BY <2>0, <2>3 DEF Cleanup, DeleteExpiredAndRevoked, Without
      <3> QED
        BY <2>0, <3>1, <3>2 DEF RotatedRowLost, AgeInv
    <2>4. CASE \E h \in Handlers : Drop(h)
      BY <2>0, <2>4 DEF Drop, Without
    <2>5. CASE \A v \in Tokens : InTable(v) => InTable(v)'
      BY <2>5 DEF RotatedRowLost, InTable
    <2> QED
      BY <1>1, <2>0, <2>1, <2>2, <2>3, <2>4, <2>5, StepShape DEF Deleting
  <1>2. Inv /\ [Next]_vars => \A t \in Tokens : Kept(t)
    BY <1>1
  <1> QED
    BY <1>2, Invariance, PTL DEF Spec, RotatedRowsRetained

-----------------------------------------------------------------------------
(* The browser *)

Used(n) == n # 0 => session[n].st # "none"

\* Whatever names a session or a token names one that was made.
NumbersUsed ==
    /\ Used(jar)
    /\ \A t \in Tabs : Used(tab[t].token)
    /\ \A r \in net : Used(r.tok) /\ Used(r.cookie) /\ Used(r.new)

\* A number made for a request that has not been handled: nobody else has it,
\* and its session was not rotated.
Unclaimed(r) ==
    r.new # 0 =>
        /\ r.st = "back" /\ r.ans = "ok"
        /\ \A q \in net : q.new = r.new => q = r
        /\ SetsCookie(r) => /\ jar # r.new
                            /\ \A q \in net : q.cookie # r.new
                            /\ session[r.new].st # "rotated"

\* One refresh of a kind at a time per page, and none waits for another.
OneRefresh ==
    \A r \in net : Refreshes(r) =>
        /\ r.st # "wait"
        /\ \A q \in net : r.live /\ q.live /\ q.tab = r.tab /\ q.kind = r.kind => q = r

\* Session n was rotated for a page that has seen the answer or still may.
\* Until it has, the cookie may name n; the page has no second request of the
\* kind under way that does.
Explained(n) ==
    session[n].st = "rotated" =>
        /\ session[n].by \in {"mount", "refresh"}
        /\ ~session[n].lost =>
             /\ jar = n => \E q \in net : /\ Rotated(q) /\ q.live /\ q.cookie = n
                                          /\ q.tab = session[n].from /\ q.kind = session[n].by
             /\ \A r \in net : /\ r.live /\ r.cookie = n
                               /\ r.tab = session[n].from /\ r.kind = session[n].by
                               => Rotated(r)

\* What a page that is not mixed holds, sends and will get belongs to whoever
\* signed in on it.
BelongsTo(n, u) == n # 0 => session[n].user = u

OwnRequest(r, u) ==
    /\ Refreshes(r) => BelongsTo(r.cookie, u)
    /\ r.kind = "password" => BelongsTo(r.tok, u)
    /\ Refreshes(r) \/ r.kind = "password" => BelongsTo(r.new, u)

OwnPage(t) ==
    tab[t].who # Nobody /\ t \notin mixed =>
        /\ BelongsTo(tab[t].token, tab[t].who)
        /\ BelongsTo(jar, tab[t].who)
        /\ \A r \in net : r.tab = t /\ r.live => OwnRequest(r, tab[t].who)

SignInsOwned == \A r \in net : r.kind \in {"login", "magic"} => BelongsTo(r.new, r.as)

\* Signed out, no request can bring a cookie or a token.
Harmless(r) ==
    /\ r.kind \notin {"login", "magic", "password"}
    /\ Refreshes(r) => r.cookie = 0 /\ (r.st = "back" => r.ans # "ok")

SignedOut == out # {} => \A r \in net : Harmless(r)

BrowserIInv ==
    /\ BrowserTypeOK
    /\ NumbersUsed
    /\ \A r \in net : Unclaimed(r)
    /\ OneRefresh
    /\ \A n \in AccessTokens : Explained(n)
    /\ WipesExplained
    /\ \A t \in Tabs : OwnPage(t)
    /\ SignInsOwned
    /\ SignedOut
    /\ StaysSignedOut
    /\ ProfileOfToken

-----------------------------------------------------------------------------
(* Requests, pages and sessions, field by field *)

LEMMA Numbers == /\ 0 \in Token0
                 /\ \A n \in Token0 : n # 0 => n \in AccessTokens
                 /\ \A n \in AccessTokens : n \in Token0 /\ n # 0
  <1>1. MaxTokens \in Nat
    BY BrowserAssumption
  <1>2. 0 \in Token0 /\ \A n \in Token0 : n # 0 => n \in AccessTokens
    BY <1>1 DEF AccessTokens, Token0
  <1>3. \A n \in AccessTokens : n \in Token0 /\ n # 0
    BY <1>1 DEF AccessTokens, Token0
  <1> QED BY <1>2, <1>3

LEMMA SendFields ==
    ASSUME jar \in Token0, NEW t \in Tabs, NEW kind \in Kinds, NEW as \in Accounts \cup {Nobody},
           NEW for \in Token0, NEW tok \in Token0
    PROVE  LET q == Send(t, kind, as, for, tok) IN
           /\ q \in Request
           /\ q.tab = t /\ q.kind = kind /\ q.as = as /\ q.for = for /\ q.tok = tok /\ q.cookie = jar
           /\ q.st = "sent" /\ q.ans = "ok" /\ q.new = 0 /\ q.live
  BY Numbers DEF Send, Request

LEMMA RowFields ==
    ASSUME NEW st \in {"none", "active", "rotated", "gone", "stateless"}, NEW u \in Accounts \cup {Nobody}
    PROVE  /\ NewRow(st, u) \in Session
           /\ NewRow(st, u).st = st /\ NewRow(st, u).user = u
  <1>1. (CHOOSE t \in Tabs : TRUE) \in Tabs
    BY BrowserAssumption
  <1> QED BY <1>1 DEF NewRow, Session, Kinds

LEMMA PageFields ==
    ASSUME NEW p \in Page
    PROVE  /\ Settled(p) \in Page
           /\ Settled(p).token = p.token /\ Settled(p).who = p.who
           /\ Settled(p).profile = p.profile
           /\ Settled(p).profileLost = p.profileLost /\ Settled(p).profileLate = p.profileLate
  BY DEF Settled, Page

LEMMA WithTokenFields ==
    ASSUME NEW p \in Page, NEW n \in Token0
    PROVE  /\ WithToken(p, n) \in Page
           /\ WithToken(p, n).token = n /\ WithToken(p, n).who = p.who
           /\ WithToken(p, n).profile = IF n = 0 THEN Nobody ELSE p.profile
           /\ WithToken(p, n).profileLate = p.profileLate
           /\ n = p.token => WithToken(p, n).profileLost = p.profileLost
  BY DEF WithToken, Page

LEMMA FreshFields ==
    ASSUME NEW at \in {"login", "magic", "app"}
    PROVE  /\ Fresh(at) \in Page
           /\ Fresh(at).token = 0 /\ Fresh(at).who = Nobody /\ Fresh(at).profile = Nobody
  BY Numbers DEF Fresh, Page

LEMMA OwnerType == ASSUME BrowserTypeOK, NEW n \in Token0 PROVE Owner(n) \in Accounts \cup {Nobody}
  BY Numbers DEF Owner, BrowserTypeOK, Session

SignsIn(r) == r.kind \in {"login", "magic"} /\ r.ans = "ok"
BringsToken(r) == r.ans = "ok" /\ r.kind \in {"mount", "login", "magic", "password"}

LEMMA HandledFields ==
    ASSUME BrowserTypeOK, NEW p \in Page, NEW r \in Request
    PROVE  LET h == Handled(p, r) IN
           /\ h \in Page
           /\ h.token = IF BringsToken(r) THEN r.new ELSE IF r.kind = "logout" THEN 0 ELSE p.token
           /\ h.who = IF SignsIn(r) THEN r.as ELSE IF r.kind = "logout" THEN Nobody ELSE p.who
           /\ r.kind \notin {"me", "profile"} /\ h.token = p.token /\ h.profile # Nobody =>
                /\ h.profile = p.profile /\ h.profileLost = p.profileLost
                /\ h.profileLate = p.profileLate
           /\ r.kind = "me" /\ r.for # p.token => h = p
           /\ r.kind = "me" /\ r.for = p.token /\ ~h.profileLost => h.profile = Owner(p.token)
           /\ r.kind = "profile" => h = p \/ (~h.profileLate => h.profile = Owner(p.token))
           /\ h.token # p.token /\ h.token = 0 => h.profile = Nobody
  <1>1. /\ r.new \in Token0 /\ r.for \in Token0 /\ r.tok \in Token0
        /\ r.as \in Accounts \cup {Nobody} /\ 0 \in Token0
    BY Numbers DEF Request
  <1>2. r.kind \in Kinds
    BY DEF Request
  <1>3. CASE r.kind = "mount"
    <2>1. Handled(p, r) = Mounted(p, r)
      BY <1>3 DEF Handled
    <2>2. CASE r.ans = "ok"
      <3> DEFINE w == WithToken(p, r.new)
      <3>1. Mounted(p, r) = [w EXCEPT !.loading = FALSE]
        BY <2>2 DEF Mounted
      <3>2. /\ w \in Page /\ w.token = r.new /\ w.who = p.who
            /\ w.profile = IF r.new = 0 THEN Nobody ELSE p.profile
            /\ w.profileLate = p.profileLate
            /\ r.new = p.token => w.profileLost = p.profileLost
        BY <1>1, WithTokenFields
      <3> HIDE DEF w
      <3>3. PICK h : h = [w EXCEPT !.loading = FALSE]
        OBVIOUS
      <3>4. /\ h \in Page /\ h.token = w.token /\ h.who = w.who
            /\ h.profile = w.profile /\ h.profileLost = w.profileLost /\ h.profileLate = w.profileLate
        BY <3>2, <3>3 DEF Page
      <3>5. Handled(p, r) = h
        BY <2>1, <3>1, <3>3
      <3> QED BY <1>3, <2>2, <3>2, <3>4, <3>5 DEF BringsToken, SignsIn
    <2>3. CASE r.ans # "ok"
      <3>1. Mounted(p, r) = [p EXCEPT !.loading = FALSE]
        BY <2>3 DEF Mounted
      <3> QED BY <1>3, <2>1, <2>3, <3>1 DEF BringsToken, SignsIn, Page
    <2> QED BY <2>2, <2>3
  <1>4. CASE r.kind = "me"
    <2>1. Handled(p, r) = Profiled(p, r)
      BY <1>4 DEF Handled
    <2>2. CASE r.for # p.token
      BY <1>4, <2>1, <2>2 DEF Profiled, BringsToken, SignsIn
    <2>3. CASE r.for = p.token /\ r.ans = "ok"
      <3>1. Handled(p, r) = [p EXCEPT !.profile = Owner(r.for), !.profileLost = FALSE, !.profileLate = FALSE]
        BY <2>1, <2>3 DEF Profiled
      <3> QED BY <1>1, <1>4, <2>3, <3>1, OwnerType DEF BringsToken, SignsIn, Page
    <2>4. CASE r.for = p.token /\ r.ans # "ok"
      <3>1. Handled(p, r) = [p EXCEPT !.profileLost = TRUE]
        BY <2>1, <2>4 DEF Profiled
      <3> QED BY <1>4, <2>4, <3>1 DEF BringsToken, SignsIn, Page
    <2> QED BY <2>2, <2>3, <2>4
  <1>5. CASE r.kind \in {"login", "magic"} /\ r.ans = "ok"
    <2> DEFINE w == WithToken(p, r.new)
    <2>1. Handled(p, r) = [w EXCEPT !.at = "app", !.who = r.as]
      BY <1>5 DEF Handled, SignedIn
    <2>2. /\ w \in Page /\ w.token = r.new /\ w.profile = IF r.new = 0 THEN Nobody ELSE p.profile
          /\ w.profileLate = p.profileLate
          /\ r.new = p.token => w.profileLost = p.profileLost
      BY <1>1, WithTokenFields
    <2> HIDE DEF w
    <2> QED BY <1>1, <1>5, <2>1, <2>2 DEF BringsToken, SignsIn, Page
  <1>6. CASE r.kind = "password" /\ r.ans = "ok"
    <2>1. Handled(p, r) = WithToken(p, r.new)
      BY <1>6 DEF Handled
    <2>2. PICK w : w = WithToken(p, r.new)
      OBVIOUS
    <2>3. /\ w \in Page /\ w.token = r.new /\ w.who = p.who
          /\ w.profile = IF r.new = 0 THEN Nobody ELSE p.profile
          /\ w.profileLate = p.profileLate
          /\ r.new = p.token => w.profileLost = p.profileLost
      BY <1>1, <2>2, WithTokenFields
    <2>4. Handled(p, r) = w
      BY <2>1, <2>2
    <2> QED BY <1>6, <2>3, <2>4 DEF BringsToken, SignsIn
  <1>7. CASE r.kind = "logout"
    <2> DEFINE w == WithToken(p, 0)
    <2>1. Handled(p, r) = [w EXCEPT !.profile = Nobody, !.who = Nobody]
      BY <1>7 DEF Handled
    <2>2. w \in Page /\ w.token = 0
      BY <1>1, WithTokenFields
    <2> HIDE DEF w
    <2> QED BY <1>7, <2>1, <2>2 DEF BringsToken, SignsIn, Page
  <1>8. CASE r.kind = "profile" /\ r.ans = "ok"
    <2>1. PICK o : o = Owner(r.tok) /\ o \in Accounts \cup {Nobody}
      BY <1>1, OwnerType
    <2>2. Handled(p, r) = [p EXCEPT !.profile = o, !.profileLost = FALSE, !.profileLate = o # Owner(p.token)]
      BY <1>8, <2>1 DEF Handled, Reprofiled
    <2> QED BY <1>8, <2>1, <2>2 DEF BringsToken, SignsIn, Page
  <1>9. CASE /\ r.kind \notin {"mount", "me", "logout"}
             /\ ~(r.kind \in {"login", "magic"} /\ r.ans = "ok")
             /\ ~(r.kind \in {"password", "profile"} /\ r.ans = "ok")
    <2>1. Handled(p, r) = p
      BY <1>9 DEF Handled
    <2> QED BY <1>9, <2>1 DEF BringsToken, SignsIn
  <1> QED BY <1>3, <1>4, <1>5, <1>6, <1>7, <1>8, <1>9

-----------------------------------------------------------------------------
(* What the steps do to the sessions *)

\* A session that was made stays made, with its user.
OwnersKept ==
    \A n \in AccessTokens : session[n].st # "none" =>
        session'[n].st # "none" /\ session'[n].user = session[n].user

\* Session n was not rotated by this step, nor was how it was forgotten.
NotRotated(n) ==
    session'[n].st = "rotated" =>
        /\ session[n].st = "rotated"
        /\ session'[n].by = session[n].by /\ session'[n].from = session[n].from
        /\ session[n].lost => session'[n].lost

LEMMA DeletedFields ==
    ASSUME BrowserTypeOK, NEW S \in SUBSET AccessTokens
    PROVE  /\ Deleted(S) \in [AccessTokens -> Session]
           /\ \A n \in AccessTokens :
                /\ n \in S => Deleted(S)[n].st = "gone" /\ Deleted(S)[n].user = session[n].user
                /\ n \notin S => Deleted(S)[n] = session[n]
  <1>1. \A n \in AccessTokens : session[n] \in Session /\ session[n].user \in Accounts \cup {Nobody}
    BY DEF BrowserTypeOK, Session
  <1>2. \A n \in AccessTokens : LET x == NewRow("gone", session[n].user) IN
          x \in Session /\ x.st = "gone" /\ x.user = session[n].user
    BY <1>1, RowFields
  <1> QED BY <1>1, <1>2 DEF Deleted

LEMMA EndedEffect ==
    ASSUME BrowserTypeOK, NEW S \in SUBSET AccessTokens, session' = Deleted(S)
    PROVE  /\ session' \in [AccessTokens -> Session]
           /\ OwnersKept
           /\ \A n \in AccessTokens : NotRotated(n)
  BY DeletedFields DEF OwnersKept, NotRotated

LEMMA WithRowFields ==
    ASSUME BrowserTypeOK, NEW m \in AccessTokens, NEW st \in {"active", "stateless"},
           NEW u \in Accounts \cup {Nobody}
    PROVE  /\ WithRow(m, st, u) \in [AccessTokens -> Session]
           /\ WithRow(m, st, u)[m].st = st /\ WithRow(m, st, u)[m].user = u
           /\ \A n \in AccessTokens \ {m} : WithRow(m, st, u)[n] = session[n]
  BY RowFields DEF WithRow, BrowserTypeOK

-----------------------------------------------------------------------------
(* The server answers *)

AnswerTo(r, ans, n) ==
    [r EXCEPT !.st = "back", !.ans = ans, !.new = n, !.tok = 0,
              !.cookie = IF Refreshes(r) /\ ans = "ok" THEN r.cookie ELSE 0]

\* r leaves net, and its answer takes its place or nobody waits for it.
Answers(r, ans, n) ==
    /\ \A q \in net' : q \in net \ {r} \/ q = AnswerTo(r, ans, n)
    /\ \A q \in net \ {r} : q \in net'
    /\ ans = "ok" => AnswerTo(r, ans, n) \in net'

\* n, when not 0, is a session made for r.
Issues(r, ans, n) ==
    n # 0 =>
        /\ ans = "ok" /\ r.kind # "logout"
        /\ session[n].st = "none" /\ session'[n].st \in {"active", "stateless"}
        /\ Refreshes(r) => r.cookie # 0 /\ session'[n].user = session[r.cookie].user
        /\ r.kind \in {"login", "magic"} => session'[n].user = r.as
        /\ r.kind = "password" => r.tok # 0 /\ session'[n].user = session[r.tok].user

Rotates(r, ans, n) ==
    /\ Refreshes(r) /\ ans = "ok" => n # 0
    /\ \A k \in AccessTokens :
         \/ NotRotated(k)
         \/ /\ k = r.cookie /\ Refreshes(r) /\ ans = "ok"
            /\ session[k].st = "active"
            /\ session'[k].by = r.kind /\ session'[k].from = r.tab /\ session'[k].lost = ~r.live

WipeOf(r) ==
    [first |-> session[r.cookie].by, second |-> r.kind,
     lost |-> session[r.cookie].lost \/ ~r.live, tabs |-> session[r.cookie].from # r.tab]

\* wipe grows by the theft that r is taken for.
Suspects(r) ==
    \/ wipe' = wipe
    \/ /\ Refreshes(r) /\ r.cookie # 0 /\ session[r.cookie].st = "rotated"
       /\ wipe' = wipe \cup {WipeOf(r)}

ServeShape(r, ans, n) ==
    /\ Answers(r, ans, n)
    /\ session' \in [AccessTokens -> Session] /\ OwnersKept
    /\ Issues(r, ans, n)
    /\ Rotates(r, ans, n)
    /\ Suspects(r)

LEMMA AnsweredShape ==
    ASSUME NEW r \in net, NEW ans, NEW n, net' = Answered(r, ans, n)
    PROVE  Answers(r, ans, n)
  BY DEF Answered, Answers, AnswerTo

LEMMA AllKept ==
    ASSUME BrowserTypeOK, session' = session
    PROVE  /\ session' \in [AccessTokens -> Session] /\ OwnersKept
           /\ \A n \in AccessTokens : NotRotated(n)
  BY DEF BrowserTypeOK, OwnersKept, NotRotated

LEMMA RequestType ==
    ASSUME BrowserTypeOK, NEW r \in net
    PROVE  /\ r \in Request
           /\ r.tab \in Tabs /\ r.kind \in Kinds /\ r.as \in Accounts \cup {Nobody}
           /\ r.for \in Token0 /\ r.tok \in Token0 /\ r.cookie \in Token0 /\ r.new \in Token0
           /\ r.live \in BOOLEAN
  BY DEF BrowserTypeOK, Request

LEMMA RefreshShape ==
    ASSUME BrowserTypeOK, NEW r \in net, ServeRefresh(r)
    PROVE  \E ans \in {"ok", "401", "error"}, n \in Token0 : ServeShape(r, ans, n)
  <1>1. Refreshes(r) /\ 0 \in Token0 /\ r.cookie \in Token0
    BY Numbers, RequestType DEF ServeRefresh
  <1> DEFINE c == r.cookie
             st == IF c = 0 THEN "none" ELSE session[c].st
  <1>2. CASE st \in {"none", "gone"} /\ net' = Answered(r, "401", 0) /\ UNCHANGED <<session, wipe>>
    <2>1. ServeShape(r, "401", 0)
      BY <1>2, AnsweredShape, AllKept DEF ServeShape, Issues, Rotates, Suspects
    <2> QED BY <1>1, <2>1
  <1>3. CASE /\ st = "rotated"
             /\ session' = EndedOf(session[c].user)
             /\ wipe' = wipe \cup {WipeOf(r)}
             /\ net' = Answered(r, "401", 0)
    <2>1. c # 0
      BY <1>3
    <2>2. /\ session' \in [AccessTokens -> Session] /\ OwnersKept
          /\ \A n \in AccessTokens : NotRotated(n)
      <3> DEFINE S == {n \in AccessTokens : Live(n) /\ session[n].user = session[c].user}
      <3>1. session' = Deleted(S) /\ S \in SUBSET AccessTokens
        BY <1>3 DEF EndedOf
      <3> QED BY <3>1, EndedEffect
    <2>3. ServeShape(r, "401", 0)
      BY <1>1, <1>3, <2>1, <2>2, AnsweredShape DEF ServeShape, Issues, Rotates, Suspects
    <2> QED BY <1>1, <2>3
  <1>4. ASSUME NEW m \in Unused,
               st = "active",
               session' = [WithRow(m, "active", session[c].user)
                             EXCEPT ![c].st = "rotated", ![c].by = r.kind, ![c].from = r.tab, ![c].lost = ~r.live],
               net' = Answered(r, "ok", m), wipe' = wipe
        PROVE  ServeShape(r, "ok", m) /\ m \in Token0
    <2>1. c \in AccessTokens /\ m \in AccessTokens /\ m # c /\ m # 0 /\ m \in Token0
      BY <1>1, <1>4, Numbers DEF Unused
    <2>2. /\ session[c] \in Session /\ session[c].user \in Accounts \cup {Nobody}
          /\ session[m].st = "none" /\ session[c].st = "active"
      BY <1>4, <2>1 DEF Unused, BrowserTypeOK, Session
    <2> DEFINE w == WithRow(m, "active", session[c].user)
    <2>3. /\ w \in [AccessTokens -> Session] /\ w[m].st = "active" /\ w[m].user = session[c].user
          /\ \A n \in AccessTokens \ {m} : w[n] = session[n]
      BY <2>1, <2>2, WithRowFields
    <2>4. session' = [w EXCEPT ![c] = [w[c] EXCEPT !.st = "rotated", !.by = r.kind, !.from = r.tab, !.lost = ~r.live]]
      BY <1>4
    <2> HIDE DEF w
    <2> DEFINE x == [w[c] EXCEPT !.st = "rotated", !.by = r.kind, !.from = r.tab, !.lost = ~r.live]
    <2>5. /\ x \in Session /\ x.st = "rotated" /\ x.by = r.kind /\ x.from = r.tab /\ x.lost = ~r.live
          /\ x.user = session[c].user
      <3>1. w[c] \in Session /\ w[c].user = session[c].user
        BY <2>1, <2>2, <2>3
      <3>2. r.kind \in Kinds /\ r.tab \in Tabs /\ (~r.live) \in BOOLEAN
        BY RequestType
      <3> QED BY <3>1, <3>2 DEF Session
    <2> HIDE DEF x
    <2>6. /\ session' \in [AccessTokens -> Session]
          /\ session'[c] = x /\ \A n \in AccessTokens \ {c} : session'[n] = w[n]
      BY <2>1, <2>3, <2>4, <2>5 DEF x
    <2>7. OwnersKept
      BY <2>1, <2>2, <2>3, <2>5, <2>6 DEF OwnersKept
    <2>8. Issues(r, "ok", m)
      <3>1. session'[m].st = "active" /\ session'[m].user = session[r.cookie].user
        BY <2>1, <2>3, <2>6
      <3>2. r.kind \in {"mount", "refresh"} /\ r.cookie # 0 /\ session[m].st = "none"
        BY <1>1, <1>4, <2>2 DEF Refreshes
      <3> QED BY <3>1, <3>2 DEF Issues
    <2>9. Rotates(r, "ok", m)
      <3>1. \A k \in AccessTokens \ {c, m} : session'[k] = session[k]
        BY <2>3, <2>6
      <3>2. session'[m].st = "active"
        BY <2>1, <2>3, <2>6
      <3>3. \A k \in AccessTokens \ {c} : NotRotated(k)
        BY <3>1, <3>2 DEF NotRotated
      <3> QED BY <1>1, <2>1, <2>2, <2>5, <2>6, <3>3 DEF Rotates
    <2> QED BY <1>4, <2>1, <2>6, <2>7, <2>8, <2>9, AnsweredShape DEF ServeShape, Suspects
  <1> HIDE DEF c, st
  <1>5. \/ st \in {"none", "gone"} /\ net' = Answered(r, "401", 0) /\ UNCHANGED <<session, wipe>>
        \/ /\ st = "rotated"
           /\ session' = EndedOf(session[c].user)
           /\ wipe' = wipe \cup {WipeOf(r)}
           /\ net' = Answered(r, "401", 0)
        \/ \E m \in Unused :
             /\ st = "active"
             /\ session' = [WithRow(m, "active", session[c].user)
                             EXCEPT ![c].st = "rotated", ![c].by = r.kind, ![c].from = r.tab, ![c].lost = ~r.live]
             /\ net' = Answered(r, "ok", m) /\ wipe' = wipe
    BY DEF ServeRefresh, c, st, WipeOf
  <1> QED BY <1>2, <1>3, <1>4, <1>5

LEMMA InsertShape ==
    ASSUME BrowserTypeOK, NEW m \in Unused, session' \in [AccessTokens -> Session],
           session'[m].st \in {"active", "stateless"},
           \A n \in AccessTokens \ {m} :
             \/ session'[n].st = "gone" /\ session'[n].user = session[n].user
             \/ session'[n] = session[n]
    PROVE  /\ OwnersKept /\ \A n \in AccessTokens : NotRotated(n)
           /\ m \in Token0 /\ m # 0 /\ session[m].st = "none"
  <1>1. m \in AccessTokens /\ m \in Token0 /\ m # 0 /\ session[m].st = "none"
    BY Numbers DEF Unused
  <1>2. OwnersKept
    BY <1>1 DEF OwnersKept
  <1>3. \A n \in AccessTokens : NotRotated(n)
    BY DEF NotRotated
  <1> QED BY <1>1, <1>2, <1>3

LEMMA SignInShape ==
    ASSUME BrowserTypeOK, NEW r \in net, ServeSignIn(r)
    PROVE  \E ans \in {"ok", "401", "error"}, n \in Token0 : ServeShape(r, ans, n)
  <1>1. r.kind \in {"login", "magic"} /\ ~Refreshes(r) /\ wipe' = wipe /\ 0 \in Token0
    BY Numbers DEF ServeSignIn, Refreshes
  <1>2. CASE net' = Answered(r, "401", 0) /\ session' = session
    <2>1. ServeShape(r, "401", 0)
      BY <1>1, <1>2, AnsweredShape, AllKept DEF ServeShape, Issues, Rotates, Suspects
    <2> QED BY <1>1, <2>1
  <1>3. ASSUME NEW m \in Unused,
               session' = WithRow(m, IF r.kind = "login" THEN "active" ELSE "stateless", r.as),
               net' = Answered(r, "ok", m)
        PROVE  ServeShape(r, "ok", m) /\ m \in Token0
    <2> DEFINE row == NewRow(IF r.kind = "login" THEN "active" ELSE "stateless", r.as)
    <2>1. session' = [session EXCEPT ![m] = row] /\ session \in [AccessTokens -> Session]
      BY <1>3 DEF WithRow, BrowserTypeOK
    <2>2. row \in Session /\ row.st \in {"active", "stateless"} /\ row.user = r.as
      BY RequestType, RowFields
    <2> HIDE DEF row
    <2>3. /\ session' \in [AccessTokens -> Session] /\ session'[m] = row
          /\ \A n \in AccessTokens \ {m} : session'[n] = session[n]
      BY <2>1, <2>2 DEF Unused
    <2>4. /\ OwnersKept /\ \A n \in AccessTokens : NotRotated(n)
          /\ m \in Token0 /\ m # 0 /\ session[m].st = "none"
      BY <2>2, <2>3, InsertShape
    <2>5. Issues(r, "ok", m)
      BY <1>1, <2>2, <2>4, <2>3 DEF Issues
    <2> QED BY <1>1, <1>3, <2>4, <2>5, <2>3, AnsweredShape DEF ServeShape, Rotates, Suspects
  <1>4. \/ net' = Answered(r, "401", 0) /\ session' = session
        \/ \E m \in Unused : /\ session' = WithRow(m, IF r.kind = "login" THEN "active" ELSE "stateless", r.as)
                             /\ net' = Answered(r, "ok", m)
    BY DEF ServeSignIn
  <1> QED BY <1>1, <1>2, <1>3, <1>4

LEMMA PasswordShape ==
    ASSUME BrowserTypeOK, NEW r \in net, ServePassword(r)
    PROVE  \E ans \in {"ok", "401", "error"}, n \in Token0 : ServeShape(r, ans, n)
  <1>1. r.kind = "password" /\ ~Refreshes(r) /\ wipe' = wipe /\ 0 \in Token0
    BY Numbers DEF ServePassword, Refreshes
  <1>2. CASE net' = Answered(r, "401", 0) /\ session' = session
    <2>1. ServeShape(r, "401", 0)
      BY <1>1, <1>2, AnsweredShape, AllKept DEF ServeShape, Issues, Rotates, Suspects
    <2> QED BY <1>1, <2>1
  <1>3. ASSUME NEW m \in Unused, Honoured(r),
               session' = [EndedOf(Owner(r.tok)) EXCEPT ![m] = NewRow("active", Owner(r.tok))],
               net' = Answered(r, "ok", m)
        PROVE  ServeShape(r, "ok", m) /\ m \in Token0
    <2> DEFINE u == Owner(r.tok)
               S == {n \in AccessTokens : Live(n) /\ session[n].user = u}
               w == Deleted(S)
               row == NewRow("active", u)
    <2>1. session' = [w EXCEPT ![m] = row]
      BY <1>3 DEF EndedOf
    <2>2. u \in Accounts \cup {Nobody} /\ r.tok # 0 /\ u = session[r.tok].user
      BY <1>3, RequestType, OwnerType DEF Honoured, Owner
    <2> HIDE DEF u
    <2>3. row \in Session /\ row.st \in {"active", "stateless"} /\ row.user = u
      BY <2>2, RowFields
    <2>4. S \in SUBSET AccessTokens
      OBVIOUS
    <2> HIDE DEF row, S
    <2>5. /\ w \in [AccessTokens -> Session]
          /\ \A n \in AccessTokens :
               (w[n].st = "gone" /\ w[n].user = session[n].user) \/ w[n] = session[n]
      BY <2>4, DeletedFields
    <2> HIDE DEF w
    <2>6. /\ session' \in [AccessTokens -> Session] /\ session'[m] = row
          /\ \A n \in AccessTokens \ {m} : session'[n] = w[n]
      BY <2>1, <2>3, <2>5 DEF Unused
    <2>7. /\ OwnersKept /\ \A n \in AccessTokens : NotRotated(n)
          /\ m \in Token0 /\ m # 0 /\ session[m].st = "none"
      BY <2>3, <2>5, <2>6, InsertShape
    <2>8. Issues(r, "ok", m)
      BY <1>1, <2>2, <2>7, <2>3, <2>6 DEF Issues
    <2> QED BY <1>1, <1>3, <2>7, <2>8, <2>6, AnsweredShape DEF ServeShape, Rotates, Suspects
  <1>4. \/ net' = Answered(r, "401", 0) /\ session' = session
        \/ /\ Honoured(r)
           /\ \E m \in Unused :
                /\ session' = [EndedOf(Owner(r.tok)) EXCEPT ![m] = NewRow("active", Owner(r.tok))]
                /\ net' = Answered(r, "ok", m)
    BY DEF ServePassword
  <1> QED BY <1>1, <1>2, <1>3, <1>4

LEMMA ServeEffect ==
    ASSUME BrowserTypeOK, NEW r \in net, Serve(r)
    PROVE  /\ \E ans \in {"ok", "401", "error"}, n \in Token0 : ServeShape(r, ans, n)
           /\ r.st = "sent" /\ r.kind \notin Reads
           /\ UNCHANGED <<jar, expired, tab, out, mixed>>
           /\ acts' = acts /\ faults' \in 0..MaxFaults
  <1>1. /\ r.st = "sent" /\ r.kind \notin Reads
        /\ UNCHANGED <<jar, expired, tab, out, mixed>>
    BY DEF Serve
  <1>2. 0 \in Token0 /\ MaxFaults \in Nat /\ faults \in 0..MaxFaults
    BY Numbers, BrowserAssumption DEF BrowserTypeOK
  <1>3. CASE (ServeRefresh(r) \/ ServeSignIn(r) \/ ServePassword(r) \/ ServeLogout(r)) /\ UNCHANGED <<acts, faults>>
    <2>1. ASSUME ServeLogout(r) PROVE ServeShape(r, "ok", 0)
      <3> DEFINE S == {n \in {r.cookie} : Live(n)}
      <3>1. session' = Deleted(S) /\ r.kind = "logout" /\ ~Refreshes(r) /\ wipe' = wipe
        BY <2>1 DEF ServeLogout, Refreshes
      <3>2. S \in SUBSET AccessTokens
        BY Numbers, RequestType DEF Live
      <3> HIDE DEF S
      <3>3. /\ session' \in [AccessTokens -> Session] /\ OwnersKept
            /\ \A n \in AccessTokens : NotRotated(n)
        BY <3>1, <3>2, EndedEffect
      <3>4. Answers(r, "ok", 0)
        BY <2>1, AnsweredShape DEF ServeLogout
      <3> QED BY <3>1, <3>3, <3>4 DEF ServeShape, Issues, Rotates, Suspects
    <2> QED BY <1>1, <1>2, <1>3, <2>1, RefreshShape, SignInShape, PasswordShape
  <1>4. CASE ServeError(r)
    <2>1. net' = Answered(r, "error", 0) /\ session' = session /\ wipe' = wipe
      BY <1>4 DEF ServeError
    <2>2. ServeShape(r, "error", 0)
      BY <2>1, AnsweredShape, AllKept DEF ServeShape, Issues, Rotates, Suspects
    <2>3. acts' = acts /\ faults' \in 0..MaxFaults
      <3>1. \/ acts' = acts /\ faults' = faults
            \/ acts' = acts /\ faults < MaxFaults /\ faults' = faults + 1
        BY <1>4 DEF ServeError, Fault
      <3> QED BY <1>2, <3>1
    <2> QED BY <1>1, <1>2, <2>2, <2>3
  <1> QED BY <1>1, <1>3, <1>4 DEF Serve

LEMMA Kept ==
    ASSUME OwnersKept, NEW k \in Token0, Used(k)
    PROVE  /\ Used(k)' /\ Owner(k)' = Owner(k)
           /\ \A u : BelongsTo(k, u) => BelongsTo(k, u)'
  BY Numbers DEF OwnersKept, Used, Owner, BelongsTo

LEMMA TypesOf ==
    ASSUME BrowserTypeOK
    PROVE  /\ jar \in Token0 /\ session \in [AccessTokens -> Session] /\ tab \in [Tabs -> Page]
           /\ \A t \in Tabs : tab[t] \in Page /\ tab[t].token \in Token0
           /\ \A r \in net : r \in Request /\ r.tab \in Tabs /\ r.tok \in Token0
                             /\ r.cookie \in Token0 /\ r.new \in Token0
  BY RequestType DEF BrowserTypeOK, Page

LEMMA ServePreserves == ASSUME BrowserIInv, NEW r \in net, Serve(r) PROVE BrowserIInv'
  <1>1. /\ BrowserTypeOK /\ NumbersUsed /\ OneRefresh /\ WipesExplained /\ SignInsOwned /\ SignedOut
        /\ StaysSignedOut /\ ProfileOfToken
        /\ \A q \in net : Unclaimed(q)
        /\ \A k \in AccessTokens : Explained(k)
        /\ \A t \in Tabs : OwnPage(t)
    BY DEF BrowserIInv
  <1>2. PICK ans \in {"ok", "401", "error"}, n \in Token0 : ServeShape(r, ans, n)
    BY <1>1, ServeEffect
  <1>3. /\ r.st = "sent" /\ r.kind \notin Reads
        /\ jar' = jar /\ expired' = expired /\ tab' = tab /\ out' = out /\ mixed' = mixed
        /\ acts' = acts /\ faults' \in 0..MaxFaults
    BY <1>1, ServeEffect
  <1> DEFINE a == AnswerTo(r, ans, n)
  <1>4. /\ a \in Request
        /\ a.tab = r.tab /\ a.kind = r.kind /\ a.as = r.as /\ a.live = r.live
        /\ a.tok = 0 /\ a.st = "back" /\ a.ans = ans /\ a.new = n
        /\ a.cookie = IF Refreshes(r) /\ ans = "ok" THEN r.cookie ELSE 0
    <2> DEFINE c == IF Refreshes(r) /\ ans = "ok" THEN r.cookie ELSE 0
    <2>1. c \in Token0 /\ r \in Request
      BY <1>1, Numbers, TypesOf
    <2>2. a = [r EXCEPT !.st = "back", !.ans = ans, !.new = n, !.tok = 0, !.cookie = c]
      BY DEF AnswerTo
    <2> HIDE DEF a, c
    <2>3. /\ a \in Request
          /\ a.tab = r.tab /\ a.kind = r.kind /\ a.as = r.as /\ a.live = r.live
          /\ a.tok = 0 /\ a.st = "back" /\ a.ans = ans /\ a.new = n /\ a.cookie = c
      BY <2>1, <2>2, Numbers DEF Request
    <2> QED BY <2>3 DEF c
  <1>5. /\ \A q \in net' : q \in net \ {r} \/ q = a
        /\ \A q \in net \ {r} : q \in net'
        /\ ans = "ok" => a \in net'
    BY <1>2 DEF ServeShape, Answers
  <1>6. /\ session' \in [AccessTokens -> Session] /\ OwnersKept
        /\ Issues(r, ans, n) /\ Rotates(r, ans, n) /\ Suspects(r)
    BY <1>2 DEF ServeShape
  <1> HIDE DEF a
  <1>7. /\ \A q \in net : q.tok \in Token0 /\ q.cookie \in Token0 /\ q.new \in Token0 /\ q.tab \in Tabs
        /\ \A t \in Tabs : tab[t].token \in Token0
        /\ jar \in Token0 /\ 0 \in Token0
    BY <1>1, TypesOf, Numbers
  <1>8. /\ Used(jar) /\ \A t \in Tabs : Used(tab[t].token)
        /\ \A q \in net : Used(q.tok) /\ Used(q.cookie) /\ Used(q.new)
    BY <1>1 DEF NumbersUsed
  <1>9. n # 0 => n \in AccessTokens /\ session[n].st = "none" /\ ans = "ok" /\ ~Used(n)
    BY <1>6, Numbers DEF Issues, Used
  <1>10. BrowserTypeOK'
    <2>1. net' \subseteq Request
      BY <1>1, <1>4, <1>5 DEF BrowserTypeOK
    <2>2. wipe' \subseteq [first: Kinds, second: Kinds, lost: BOOLEAN, tabs: BOOLEAN]
      <3>1. wipe \subseteq [first: Kinds, second: Kinds, lost: BOOLEAN, tabs: BOOLEAN]
        BY <1>1 DEF BrowserTypeOK
      <3>2. ASSUME r.cookie # 0
            PROVE  WipeOf(r) \in [first: Kinds, second: Kinds, lost: BOOLEAN, tabs: BOOLEAN]
        <4>1. session[r.cookie] \in Session /\ r.kind \in Kinds
          BY <1>1, <1>7, <3>2, Numbers, TypesOf, RequestType
        <4> QED BY <4>1 DEF WipeOf, Session
      <3> QED BY <1>6, <3>1, <3>2 DEF Suspects
    <2> QED BY <1>1, <1>3, <1>6, <2>1, <2>2 DEF BrowserTypeOK
  <1>11. NumbersUsed'
    <2>1. Used(n)' /\ Used(0)'
      BY <1>6 DEF Issues, Used
    <2>2. Used(jar)' /\ \A t \in Tabs : Used(tab[t].token)'
      BY <1>3, <1>6, <1>7, <1>8, Kept DEF Used
    <2>3. \A q \in net : Used(q.tok)' /\ Used(q.cookie)' /\ Used(q.new)'
      BY <1>6, <1>7, <1>8, Kept
    <2> QED BY <1>4, <1>5, <2>1, <2>2, <2>3 DEF NumbersUsed, Used
  <1>12. ASSUME NEW q \in net' PROVE Unclaimed(q)'
    <2>1. CASE q = a
      <3>1. SUFFICES ASSUME n # 0 PROVE Unclaimed(q)'
        BY <1>4, <2>1 DEF Unclaimed
      <3>2. \A x \in net' : x.new = n => x = a
        BY <1>5, <1>8, <1>9, <3>1
      <3>3. jar' # n /\ \A x \in net' : x.cookie # n
        BY <1>3, <1>4, <1>5, <1>8, <1>9, <3>1
      <3>4. session'[n].st # "rotated"
        BY <1>6, <3>1 DEF Issues
      <3> QED BY <1>4, <1>9, <2>1, <3>1, <3>2, <3>3, <3>4 DEF Unclaimed
    <2>2. CASE q \in net \ {r}
      <3>1. SUFFICES ASSUME q.new # 0 PROVE Unclaimed(q)'
        BY DEF Unclaimed
      <3>2. /\ q.st = "back" /\ q.ans = "ok" /\ \A x \in net : x.new = q.new => x = q
            /\ SetsCookie(q) => /\ jar # q.new /\ \A x \in net : x.cookie # q.new
                                /\ session[q.new].st # "rotated"
        BY <1>1, <2>2, <3>1 DEF Unclaimed
      <3>3. n # q.new
        BY <1>8, <1>9, <2>2, <3>1
      <3>4. \A x \in net' : x.new = q.new => x = q
        BY <1>4, <1>5, <3>2, <3>3
      <3>5. ASSUME SetsCookie(q)
            PROVE  jar' # q.new /\ (\A x \in net' : x.cookie # q.new) /\ session'[q.new].st # "rotated"
        <4>1. \A x \in net' : x.cookie # q.new
          BY <1>4, <1>5, <3>1, <3>2, <3>5
        <4>2. q.new \in AccessTokens /\ q.new # r.cookie
          BY <1>7, <2>2, <3>1, <3>2, <3>5, Numbers
        <4>3. session'[q.new].st # "rotated"
          BY <1>6, <3>2, <3>5, <4>2 DEF Rotates, NotRotated
        <4> QED BY <1>3, <3>2, <3>5, <4>1, <4>3
      <3> QED BY <3>1, <3>2, <3>4, <3>5 DEF Unclaimed
    <2> QED BY <1>5, <2>1, <2>2
  <1>13. OneRefresh'
    <2>1. SUFFICES ASSUME NEW x \in net', Refreshes(x)
                   PROVE  /\ x.st # "wait"
                          /\ \A q \in net' : x.live /\ q.live /\ q.tab = x.tab /\ q.kind = x.kind => q = x
      BY DEF OneRefresh
    <2>2. CASE x = a
      BY <1>1, <1>4, <1>5, <2>1, <2>2 DEF OneRefresh, Refreshes
    <2>3. CASE x \in net \ {r}
      BY <1>1, <1>4, <1>5, <2>1, <2>3 DEF OneRefresh
    <2> QED BY <1>5, <2>2, <2>3
  <1>14. ASSUME NEW k \in AccessTokens PROVE Explained(k)'
    <2>1. SUFFICES ASSUME session'[k].st = "rotated" PROVE Explained(k)'
      BY DEF Explained
    <2>2. CASE NotRotated(k)
      <3>1. /\ session[k].st = "rotated"
            /\ session'[k].by = session[k].by /\ session'[k].from = session[k].from
            /\ session[k].lost => session'[k].lost
        BY <2>1, <2>2 DEF NotRotated
      <3>2. Explained(k) /\ k # 0
        BY <1>1, Numbers
      <3>3. SUFFICES ASSUME ~session'[k].lost
                     PROVE  /\ jar' = k => \E q \in net' : /\ Rotated(q) /\ q.live /\ q.cookie = k
                                                           /\ q.tab = session'[k].from /\ q.kind = session'[k].by
                            /\ \A x \in net' : /\ x.live /\ x.cookie = k
                                               /\ x.tab = session'[k].from /\ x.kind = session'[k].by
                                               => Rotated(x)
        BY <3>1, <3>2 DEF Explained
      <3>4. \A q \in net : Rotated(q) => q \in net'
        BY <1>3, <1>5 DEF Rotated
      <3>5. Refreshes(a) /\ a.ans = "ok" => Rotated(a)
        BY <1>4 DEF Rotated
      <3>6. a.cookie = k => Rotated(a)
        BY <1>4, <3>2, <3>5 DEF Refreshes
      <3> QED BY <1>3, <1>5, <3>1, <3>2, <3>3, <3>4, <3>6 DEF Explained
    <2>3. CASE ~NotRotated(k)
      <3>1. /\ k = r.cookie /\ Refreshes(r) /\ ans = "ok"
            /\ session'[k].by = r.kind /\ session'[k].from = r.tab /\ session'[k].lost = ~r.live
        BY <1>6, <2>3 DEF Rotates
      <3>2. Rotated(a) /\ a \in net' /\ a.cookie = k
        BY <1>4, <1>5, <3>1 DEF Rotated, Refreshes
      <3>3. r.live => \A x \in net' : x.live /\ x.tab = r.tab /\ x.kind = r.kind => x = a
        BY <1>1, <1>5, <3>1 DEF OneRefresh
      <3> QED BY <1>4, <3>1, <3>2, <3>3 DEF Explained, Refreshes
    <2> QED BY <2>2, <2>3
  <1>15. WipesExplained'
    <2>1. SUFFICES ASSUME Refreshes(r), r.cookie # 0, session[r.cookie].st = "rotated",
                          ~WipeOf(r).lost, ~WipeOf(r).tabs
                   PROVE  {WipeOf(r).first, WipeOf(r).second} = {"mount", "refresh"}
      BY <1>1, <1>6 DEF Suspects, WipesExplained
    <2>2. WipeOf(r).first = session[r.cookie].by /\ WipeOf(r).second = r.kind
      BY DEF WipeOf
    <2>3. ~session[r.cookie].lost /\ r.live /\ session[r.cookie].from = r.tab
      BY <2>1 DEF WipeOf
    <2>4. Explained(r.cookie)
      BY <1>1, <1>7, <2>1, Numbers
    <2>5. session[r.cookie].by \in {"mount", "refresh"} /\ r.kind \in {"mount", "refresh"}
      BY <2>1, <2>4 DEF Explained, Refreshes
    <2>6. session[r.cookie].by # r.kind
      BY <1>3, <2>1, <2>3, <2>4 DEF Explained, Rotated
    <2> QED BY <2>2, <2>5, <2>6
  <1>16. ASSUME NEW t \in Tabs PROVE OwnPage(t)'
    <2>0. PICK u : u = tab[t].who
      OBVIOUS
    <2>1. SUFFICES ASSUME u # Nobody, t \notin mixed
                   PROVE  /\ BelongsTo(tab[t].token, u)' /\ BelongsTo(jar, u)'
                          /\ \A q \in net' : q.tab = t /\ q.live => OwnRequest(q, u)'
      BY <1>3, <2>0 DEF OwnPage
    <2>2. /\ BelongsTo(tab[t].token, u) /\ BelongsTo(jar, u)
          /\ \A q \in net : q.tab = t /\ q.live => OwnRequest(q, u)
      BY <1>1, <2>0, <2>1 DEF OwnPage
    <2>3. BelongsTo(tab[t].token, u)' /\ BelongsTo(jar, u)'
      <3>1. tab[t].token \in Token0 /\ Used(tab[t].token) /\ jar \in Token0 /\ Used(jar)
        BY <1>7, <1>8
      <3> QED BY <1>3, <1>6, <2>2, <3>1, Kept DEF BelongsTo
    <2>4. \A q \in net : q.tab = t /\ q.live => OwnRequest(q, u)'
      <3>1. \A q \in net : /\ BelongsTo(q.cookie, u) => BelongsTo(q.cookie, u)'
                           /\ BelongsTo(q.tok, u) => BelongsTo(q.tok, u)'
                           /\ BelongsTo(q.new, u) => BelongsTo(q.new, u)'
        BY <1>6, <1>7, <1>8, Kept
      <3> QED BY <2>2, <3>1 DEF OwnRequest
    <2>5. ASSUME a.tab = t, a.live PROVE OwnRequest(a, u)'
      <3>1. OwnRequest(r, u)
        BY <1>4, <2>2, <2>5
      <3>2. OwnRequest(r, u)'
        BY <1>4, <2>4, <2>5
      <3>3. Refreshes(a) => BelongsTo(a.cookie, u)'
        BY <1>4, <3>2 DEF OwnRequest, BelongsTo, Refreshes
      <3>4. a.kind = "password" => BelongsTo(a.tok, u)'
        BY <1>4 DEF BelongsTo
      <3>5. Refreshes(a) \/ a.kind = "password" => BelongsTo(a.new, u)'
        BY <1>4, <1>6, <3>1 DEF OwnRequest, BelongsTo, Refreshes, Issues
      <3> QED BY <3>3, <3>4, <3>5 DEF OwnRequest
    <2> QED BY <1>5, <2>3, <2>4, <2>5
  <1>17. SignInsOwned'
    <2>1. \A q \in net : q.kind \in {"login", "magic"} => BelongsTo(q.new, q.as)'
      BY <1>1, <1>6, <1>7, <1>8, Kept DEF SignInsOwned
    <2>2. a.kind \in {"login", "magic"} => BelongsTo(a.new, a.as)'
      BY <1>4, <1>6 DEF Issues, BelongsTo
    <2> QED BY <1>5, <2>1, <2>2 DEF SignInsOwned
  <1>18. SignedOut'
    <2>1. SUFFICES ASSUME out # {} PROVE \A q \in net' : Harmless(q)
      BY <1>3 DEF SignedOut
    <2>2. Harmless(r) /\ \A q \in net : Harmless(q)
      BY <1>1, <2>1 DEF SignedOut
    <2>3. Harmless(a)
      BY <1>4, <1>6, <2>2 DEF Harmless, Refreshes, Rotates, Issues
    <2> QED BY <1>5, <2>2, <2>3
  <1>19. StaysSignedOut'
    BY <1>1, <1>3 DEF StaysSignedOut
  <1>20. ProfileOfToken'
    <2>1. \A t \in Tabs : Owner(tab[t].token)' = Owner(tab[t].token)
      BY <1>3, <1>6, <1>7, <1>8, Kept DEF Owner
    <2>2. \A t \in Tabs : \A q \in InFlight(t, {"me"}) : q \in InFlight(t, {"me"})'
      BY <1>3, <1>5 DEF InFlight, Reads
    <2> QED BY <1>1, <1>3, <2>1, <2>2 DEF ProfileOfToken
  <1> QED BY <1>10, <1>11, <1>12, <1>13, <1>14, <1>15, <1>16, <1>17, <1>18, <1>19, <1>20 DEF BrowserIInv

-----------------------------------------------------------------------------
(* Requests are sent, lost, handled and sent again *)

\* A request that the step makes or changes.  It brings nothing; if it is a
\* refresh, it carries no cookie, or it is the only one of its kind on its
\* page and no answer to another is awaited there.
Joins(q) ==
    /\ q \in Request /\ q.new = 0 /\ Used(q.tok)'
    /\ q.cookie \in {0, jar'} \/ \E r \in net : q.cookie = r.cookie
    /\ Refreshes(q) =>
         /\ q.st # "wait"
         /\ q.live => \A x \in net' : x.live /\ x.tab = q.tab /\ x.kind = q.kind => x = q
         /\ \/ q.cookie = 0
            \/ /\ q.cookie = jar' /\ jar' = jar
               /\ \A x \in net : ~(Rotated(x) /\ x.live /\ x.tab = q.tab /\ x.kind = q.kind)

\* No session is made or rotated, the cookie stays, goes, or is the one of an
\* answer that leaves, and the answer to the rotation of the cookie's session
\* stays, unless it is noted as lost.
Exchange ==
    /\ session' \in [AccessTokens -> Session] /\ OwnersKept
    /\ \A k \in AccessTokens : NotRotated(k)
    /\ \A q \in net' : q \in net \/ Joins(q)
    /\ jar' \in {0, jar} \/ \E r \in net : r \notin net' /\ SetsCookie(r) /\ jar' = r.new
    /\ jar' = jar =>
         \A x \in net : Rotated(x) /\ x.live /\ x.cookie = jar /\ jar # 0 =>
            x \in net' \/ (session'[jar].st = "rotated" => session'[jar].lost)

LEMMA Parts ==
    ASSUME BrowserIInv
    PROVE  /\ BrowserTypeOK /\ NumbersUsed /\ OneRefresh /\ WipesExplained /\ SignInsOwned /\ SignedOut
           /\ StaysSignedOut /\ ProfileOfToken
           /\ \A q \in net : Unclaimed(q)
           /\ \A k \in AccessTokens : Explained(k)
           /\ \A t \in Tabs : OwnPage(t)
  BY DEF BrowserIInv

LEMMA UsedNumbers ==
    ASSUME BrowserIInv
    PROVE  /\ jar \in Token0 /\ Used(jar)
           /\ \A t \in Tabs : tab[t] \in Page /\ tab[t].token \in Token0 /\ Used(tab[t].token)
           /\ \A q \in net : /\ q \in Request /\ q.tab \in Tabs
                             /\ q.tok \in Token0 /\ q.cookie \in Token0 /\ q.new \in Token0
                             /\ Used(q.tok) /\ Used(q.cookie) /\ Used(q.new)
  BY TypesOf DEF BrowserIInv, NumbersUsed

LEMMA ExchangeKeeps ==
    ASSUME BrowserIInv, Exchange
    PROVE  /\ net' \subseteq Request /\ jar' \in Token0
           /\ Used(jar)' /\ \A q \in net' : Used(q.tok)' /\ Used(q.cookie)' /\ Used(q.new)'
           /\ \A q \in net' : Unclaimed(q)'
           /\ OneRefresh'
           /\ \A k \in AccessTokens : Explained(k)'
  <1>1. /\ session' \in [AccessTokens -> Session] /\ OwnersKept
        /\ \A k \in AccessTokens : NotRotated(k)
        /\ \A q \in net' : q \in net \/ Joins(q)
        /\ jar' \in {0, jar} \/ \E r \in net : r \notin net' /\ SetsCookie(r) /\ jar' = r.new
        /\ jar' = jar =>
             \A x \in net : Rotated(x) /\ x.live /\ x.cookie = jar /\ jar # 0 =>
                x \in net' \/ (session'[jar].st = "rotated" => session'[jar].lost)
    BY DEF Exchange
  <1>2. /\ \A q \in net : Unclaimed(q)
        /\ OneRefresh
        /\ \A k \in AccessTokens : Explained(k)
    BY Parts
  <1>3. 0 \in Token0 /\ Used(0)'
    BY Numbers DEF Used
  <1>4. jar' \in Token0 /\ Used(jar)'
    <2>1. jar' = 0 \/ jar' = jar \/ \E r \in net : jar' = r.new
      BY <1>1
    <2>2. PICK j \in Token0 : j = jar' /\ (j = 0 \/ Used(j))
      BY <1>3, <2>1, UsedNumbers
    <2> QED BY <1>1, <2>2, Kept DEF Used
  <1>5. \A q \in net' : q \in Request /\ Used(q.tok)' /\ Used(q.cookie)' /\ Used(q.new)'
    <2>1. \A q \in net : Used(q.tok)' /\ Used(q.cookie)' /\ Used(q.new)'
      BY <1>1, UsedNumbers, Kept
    <2>2. \A q : q.cookie = jar' => Used(q.cookie)'
      BY <1>4 DEF Used
    <2> QED BY <1>1, <1>3, <2>1, <2>2, UsedNumbers DEF Joins
  <1>6. ASSUME NEW q \in net' PROVE Unclaimed(q)'
    <2>1. SUFFICES ASSUME q.new # 0 PROVE Unclaimed(q)'
      BY DEF Unclaimed
    <2>2. q \in net /\ q.new \in AccessTokens
      BY <1>1, <2>1, UsedNumbers, Numbers DEF Joins
    <2>3. /\ q.st = "back" /\ q.ans = "ok" /\ \A x \in net : x.new = q.new => x = q
          /\ SetsCookie(q) => /\ jar # q.new /\ \A x \in net : x.cookie # q.new
                              /\ session[q.new].st # "rotated"
      BY <1>2, <2>1, <2>2 DEF Unclaimed
    <2>4. \A x \in net' : x.new = q.new => x = q
      BY <1>1, <2>1, <2>3 DEF Joins
    <2>5. ASSUME SetsCookie(q)
          PROVE  jar' # q.new /\ (\A x \in net' : x.cookie # q.new) /\ session'[q.new].st # "rotated"
      <3>1. jar' # q.new
        BY <1>1, <2>1, <2>2, <2>3, <2>5
      <3>2. \A x \in net' : x.cookie # q.new
        BY <1>1, <2>1, <2>3, <2>5, <3>1 DEF Joins
      <3> QED BY <1>1, <2>2, <2>3, <2>5, <3>1, <3>2 DEF NotRotated
    <2> QED BY <2>1, <2>3, <2>4, <2>5 DEF Unclaimed
  <1>7. OneRefresh'
    <2>1. SUFFICES ASSUME NEW x \in net', Refreshes(x)
                   PROVE  /\ x.st # "wait"
                          /\ \A q \in net' : x.live /\ q.live /\ q.tab = x.tab /\ q.kind = x.kind => q = x
      BY DEF OneRefresh
    <2>2. x.st # "wait"
      BY <1>1, <1>2, <2>1 DEF Joins, OneRefresh
    <2>3. ASSUME NEW q \in net', x.live, q.live, q.tab = x.tab, q.kind = x.kind PROVE q = x
      <3>1. Refreshes(q)
        BY <2>1, <2>3 DEF Refreshes
      <3>2. CASE Joins(x) \/ Joins(q)
        BY <2>1, <2>3, <3>1, <3>2 DEF Joins
      <3>3. CASE x \in net /\ q \in net
        BY <1>2, <2>1, <2>3, <3>3 DEF OneRefresh
      <3> QED BY <1>1, <3>2, <3>3
    <2> QED BY <2>2, <2>3
  <1>8. ASSUME NEW k \in AccessTokens PROVE Explained(k)'
    <2>1. SUFFICES ASSUME session'[k].st = "rotated" PROVE Explained(k)'
      BY DEF Explained
    <2>2. /\ session[k].st = "rotated"
          /\ session'[k].by = session[k].by /\ session'[k].from = session[k].from
          /\ session[k].lost => session'[k].lost
      BY <1>1, <2>1 DEF NotRotated
    <2>3. Explained(k) /\ k # 0
      BY <1>2, Numbers
    <2>4. SUFFICES ASSUME ~session'[k].lost
                   PROVE  /\ jar' = k => \E q \in net' : /\ Rotated(q) /\ q.live /\ q.cookie = k
                                                         /\ q.tab = session[k].from /\ q.kind = session[k].by
                          /\ \A x \in net' : /\ x.live /\ x.cookie = k
                                             /\ x.tab = session[k].from /\ x.kind = session[k].by
                                             => Rotated(x)
      BY <2>2, <2>3 DEF Explained
    <2>5. /\ session[k].by \in {"mount", "refresh"}
          /\ jar = k => \E q \in net : /\ Rotated(q) /\ q.live /\ q.cookie = k
                                       /\ q.tab = session[k].from /\ q.kind = session[k].by
          /\ \A x \in net : /\ x.live /\ x.cookie = k
                            /\ x.tab = session[k].from /\ x.kind = session[k].by
                            => Rotated(x)
      BY <2>2, <2>3, <2>4 DEF Explained
    <2>6. jar' = k => jar = k
      <3>1. \A r \in net : SetsCookie(r) /\ r.new = k => FALSE
        BY <1>2, <2>2, <2>3 DEF Unclaimed
      <3> QED BY <1>1, <2>3, <3>1
    <2>7. jar' = k => \E q \in net' : /\ Rotated(q) /\ q.live /\ q.cookie = k
                                      /\ q.tab = session[k].from /\ q.kind = session[k].by
      BY <1>1, <2>1, <2>3, <2>4, <2>5, <2>6
    <2>8. ASSUME NEW x \in net', x.live, x.cookie = k, x.tab = session[k].from, x.kind = session[k].by
          PROVE  Rotated(x)
      <3>1. CASE x \in net
        BY <2>5, <2>8, <3>1
      <3>2. CASE Joins(x)
        <4>1. Refreshes(x) /\ jar' = k
          BY <2>3, <2>5, <2>8, <3>2 DEF Joins, Refreshes
        <4> QED BY <2>3, <2>5, <2>6, <2>8, <3>2, <4>1 DEF Joins
      <3> QED BY <1>1, <3>1, <3>2
    <2> QED BY <2>7, <2>8
  <1> QED BY <1>4, <1>5, <1>6, <1>7, <1>8

\* The requests of other kinds that a page sends.
LEMMA SendsPreserve ==
    ASSUME BrowserIInv, NEW t \in Tabs, NEW q \in Request,
           q.tab = t, q.kind \in {"login", "call", "save", "password", "logout"}, q.new = 0, q.st = "sent",
           q.tok = tab[t].token, q.cookie \in {0, jar},
           net' = net \cup {q}, UNCHANGED <<jar, session, expired, tab, mixed, wipe>>,
           acts' \in 0..MaxActs, faults' = faults,
           out' = {} \/ (out' = out /\ q.kind \in {"call", "save", "logout"})
    PROVE  BrowserIInv'
  <1>1. ~Refreshes(q)
    BY DEF Refreshes
  <1>2. OwnersKept /\ \A k \in AccessTokens : NotRotated(k)
    BY Parts, AllKept
  <1>3. Joins(q)
    BY <1>1, <1>2, UsedNumbers, Kept DEF Joins
  <1>4. Exchange
    BY <1>2, <1>3, Parts, AllKept DEF Exchange
  <1>5. /\ net' \subseteq Request
        /\ Used(jar)' /\ \A x \in net' : Used(x.tok)' /\ Used(x.cookie)' /\ Used(x.new)'
        /\ \A x \in net' : Unclaimed(x)'
        /\ OneRefresh'
        /\ \A k \in AccessTokens : Explained(k)'
    BY <1>4, ExchangeKeeps
  <1>6. BrowserTypeOK'
    BY <1>5, Parts DEF BrowserTypeOK
  <1>7. NumbersUsed'
    BY <1>5, Parts DEF NumbersUsed, Used
  <1>8. WipesExplained'
    BY Parts DEF WipesExplained
  <1>9. ASSUME NEW s \in Tabs PROVE OwnPage(s)'
    <2>1. OwnPage(s)
      BY Parts
    <2>2. s = t /\ BelongsTo(tab[s].token, tab[s].who) => OwnRequest(q, tab[s].who)
      BY <1>1 DEF OwnRequest, BelongsTo
    <2> QED BY <2>1, <2>2 DEF OwnPage, OwnRequest, BelongsTo
  <1>10. SignInsOwned'
    BY Parts DEF SignInsOwned, BelongsTo
  <1>11. SignedOut' /\ StaysSignedOut'
    BY <1>1, Parts DEF SignedOut, StaysSignedOut, Harmless
  <1>12. ProfileOfToken'
    <2>1. \A s \in Tabs : InFlight(s, {"me"})' = InFlight(s, {"me"})
      BY DEF InFlight
    <2> QED BY <2>1, Parts DEF ProfileOfToken, Owner
  <1> QED BY <1>5, <1>6, <1>7, <1>8, <1>9, <1>10, <1>11, <1>12 DEF BrowserIInv

LEMMA ActType == ASSUME BrowserTypeOK, Act PROVE acts' \in 0..MaxActs /\ faults' = faults
  BY BrowserAssumption DEF Act, BrowserTypeOK

LEMMA FaultType == ASSUME BrowserTypeOK, Fault PROVE faults' \in 0..MaxFaults /\ acts' = acts
  BY BrowserAssumption DEF Fault, BrowserTypeOK

LEMMA KindsAre ==
    /\ "mount" \in Kinds /\ "refresh" \in Kinds /\ "login" \in Kinds /\ "magic" \in Kinds
    /\ "me" \in Kinds /\ "call" \in Kinds /\ "save" \in Kinds /\ "profile" \in Kinds
    /\ "password" \in Kinds /\ "logout" \in Kinds
  BY DEF Kinds

LEMMA AskFields ==
    ASSUME BrowserIInv, NEW t \in Tabs, NEW kind \in Kinds, NEW for \in Token0
    PROVE  LET q == Ask(t, kind, for) IN
           /\ q \in Request /\ q.tab = t /\ q.kind = kind /\ q.tok = tab[t].token
           /\ q.cookie = 0 /\ q.new = 0 /\ q.st = "sent" /\ q.live
  <1>1. PICK p : p = Send(t, kind, Nobody, for, tab[t].token)
    OBVIOUS
  <1>2. jar \in Token0 /\ tab[t].token \in Token0 /\ 0 \in Token0
    BY UsedNumbers, Numbers
  <1>3. /\ p \in Request /\ p.tab = t /\ p.kind = kind /\ p.tok = tab[t].token
        /\ p.new = 0 /\ p.st = "sent" /\ p.live
    BY <1>1, <1>2 DEF Send, Request
  <1>4. PICK q : q = [p EXCEPT !.cookie = 0]
    OBVIOUS
  <1>5. /\ q \in Request /\ q.tab = t /\ q.kind = kind /\ q.tok = tab[t].token
        /\ q.cookie = 0 /\ q.new = 0 /\ q.st = "sent" /\ q.live
    BY <1>2, <1>3, <1>4 DEF Request
  <1>6. Ask(t, kind, for) = q
    BY <1>1, <1>4 DEF Ask
  <1> QED BY <1>5, <1>6

LEMMA FormsPreserve ==
    ASSUME BrowserIInv, NEW t \in Tabs,
           \/ \E u \in Accounts : SubmitLogin(t, u)
           \/ \E n \in Token0 : Call(t, n)
           \/ SaveProfile(t) \/ SubmitPassword(t) \/ Logout(t)
    PROVE  BrowserIInv'
  <1>1. BrowserTypeOK /\ jar \in Token0 /\ tab[t].token \in Token0 /\ 0 \in Token0
    BY Parts, UsedNumbers, Numbers
  <1>2. ASSUME NEW u \in Accounts, SubmitLogin(t, u) PROVE BrowserIInv'
    <2> DEFINE q == Send(t, "login", u, 0, tab[t].token)
    <2>1. /\ q \in Request /\ q.tab = t /\ q.kind = "login" /\ q.new = 0 /\ q.st = "sent"
          /\ q.tok = tab[t].token /\ q.cookie = jar
      BY <1>1, KindsAre DEF Send, Request
    <2>2. net' = net \cup {q} /\ UNCHANGED <<jar, session, expired, tab, mixed, wipe>> /\ out' = {} /\ Act
      BY <1>2 DEF SubmitLogin
    <2> HIDE DEF q
    <2> QED BY <1>1, <2>1, <2>2, ActType, SendsPreserve
  <1>3. ASSUME NEW n \in Token0, Call(t, n) PROVE BrowserIInv'
    <2> DEFINE q == Ask(t, "call", n)
    <2>1. /\ q \in Request /\ q.tab = t /\ q.kind = "call" /\ q.new = 0 /\ q.st = "sent"
          /\ q.tok = tab[t].token /\ q.cookie = 0
      BY KindsAre, AskFields
    <2>2. net' = net \cup {q} /\ UNCHANGED <<jar, session, expired, tab, mixed, wipe>> /\ out' = out /\ Act
      BY <1>3 DEF Call
    <2> HIDE DEF q
    <2> QED BY <1>1, <2>1, <2>2, ActType, SendsPreserve
  <1>4. ASSUME SubmitPassword(t) PROVE BrowserIInv'
    <2> DEFINE q == Send(t, "password", Nobody, 0, tab[t].token)
    <2>1. /\ q \in Request /\ q.tab = t /\ q.kind = "password" /\ q.new = 0 /\ q.st = "sent"
          /\ q.tok = tab[t].token /\ q.cookie = jar
      BY <1>1, KindsAre DEF Send, Request
    <2>2. net' = net \cup {q} /\ UNCHANGED <<jar, session, expired, tab, mixed, wipe>> /\ out' = {} /\ Act
      BY <1>4 DEF SubmitPassword
    <2> HIDE DEF q
    <2> QED BY <1>1, <2>1, <2>2, ActType, SendsPreserve
  <1>5. ASSUME Logout(t) PROVE BrowserIInv'
    <2> DEFINE q == Send(t, "logout", Nobody, 0, tab[t].token)
    <2>1. /\ q \in Request /\ q.tab = t /\ q.kind = "logout" /\ q.new = 0 /\ q.st = "sent"
          /\ q.tok = tab[t].token /\ q.cookie = jar
      BY <1>1, KindsAre DEF Send, Request
    <2>2. net' = net \cup {q} /\ UNCHANGED <<jar, session, expired, tab, mixed, wipe>> /\ out' = out /\ Act
      BY <1>5 DEF Logout
    <2> HIDE DEF q
    <2> QED BY <1>1, <2>1, <2>2, ActType, SendsPreserve
  <1>6. ASSUME SaveProfile(t) PROVE BrowserIInv'
    <2> DEFINE q == Ask(t, "save", 0)
    <2>1. /\ q \in Request /\ q.tab = t /\ q.kind = "save" /\ q.new = 0 /\ q.st = "sent"
          /\ q.tok = tab[t].token /\ q.cookie = 0
      BY <1>1, KindsAre, AskFields
    <2>2. net' = net \cup {q} /\ UNCHANGED <<jar, session, expired, tab, mixed, wipe>> /\ out' = out /\ Act
      BY <1>6 DEF SaveProfile
    <2> HIDE DEF q
    <2> QED BY <1>1, <2>1, <2>2, ActType, SendsPreserve
  <1> QED BY <1>2, <1>3, <1>4, <1>5, <1>6

\* Some sessions' answers are noted as lost.
LEMMA NotesLost ==
    ASSUME BrowserTypeOK, NEW S,
           session' = [n \in AccessTokens |-> IF n \in S THEN [session[n] EXCEPT !.lost = TRUE] ELSE session[n]]
    PROVE  /\ session' \in [AccessTokens -> Session] /\ OwnersKept
           /\ \A k \in AccessTokens : NotRotated(k)
           /\ \A k \in AccessTokens : k \in S => session'[k].lost
           /\ \A k \in AccessTokens : session'[k].st = session[k].st
  <1>1. \A n \in AccessTokens : session[n] \in Session
    BY DEF BrowserTypeOK
  <1>2. \A x \in Session : LET y == [x EXCEPT !.lost = TRUE] IN
          /\ y \in Session /\ y.st = x.st /\ y.user = x.user /\ y.by = x.by /\ y.from = x.from /\ y.lost
    BY DEF Session
  <1>3. \A n \in AccessTokens :
          /\ session'[n] \in Session /\ session'[n].st = session[n].st /\ session'[n].user = session[n].user
          /\ session'[n].by = session[n].by /\ session'[n].from = session[n].from
          /\ n \in S => session'[n].lost
          /\ n \notin S => session'[n] = session[n]
    BY <1>1, <1>2
  <1>4. session' \in [AccessTokens -> Session]
    BY <1>3
  <1> QED BY <1>3, <1>4 DEF OwnersKept, NotRotated

\* What the pages hold stays, and the requests bring what they brought.
LEMMA PagesStay ==
    ASSUME BrowserIInv, OwnersKept, UNCHANGED <<jar, tab, mixed, out>>,
           \A x \in net' : \/ x \in net
                           \/ /\ x.new = 0 /\ (Refreshes(x) => x.cookie = 0 /\ x.ans # "ok")
                              /\ \E r \in net : /\ x.tab = r.tab /\ x.kind = r.kind /\ x.tok = r.tok
                                                /\ x.live = r.live
                           \/ x.new = 0 /\ Refreshes(x) /\ x.st = "sent" /\ x.cookie = jar,
           \A r \in net : r.kind = "me" /\ r.live => \E x \in net' : /\ x.tab = r.tab /\ x.kind = "me"
                                                                    /\ x.live /\ x.for = r.for
    PROVE  /\ \A t \in Tabs : OwnPage(t)'
           /\ SignInsOwned' /\ SignedOut' /\ StaysSignedOut' /\ ProfileOfToken'
  <1>1. ASSUME NEW t \in Tabs PROVE OwnPage(t)'
    <2>1. PICK u : u = tab[t].who
      OBVIOUS
    <2>2. SUFFICES ASSUME u # Nobody, t \notin mixed
                   PROVE  /\ BelongsTo(tab[t].token, u)' /\ BelongsTo(jar, u)'
                          /\ \A q \in net' : q.tab = t /\ q.live => OwnRequest(q, u)'
      BY <2>1 DEF OwnPage
    <2>3. /\ BelongsTo(tab[t].token, u) /\ BelongsTo(jar, u)
          /\ \A q \in net : q.tab = t /\ q.live => OwnRequest(q, u)
      BY <2>1, <2>2, Parts DEF OwnPage
    <2>4. BelongsTo(tab[t].token, u)' /\ BelongsTo(jar, u)'
      <3>1. tab[t].token \in Token0 /\ Used(tab[t].token) /\ jar \in Token0 /\ Used(jar)
        BY UsedNumbers
      <3> QED BY <2>3, <3>1, Kept DEF BelongsTo
    <2>5. \A q \in net : q.tab = t /\ q.live => OwnRequest(q, u)'
      <3>1. \A q \in net : /\ BelongsTo(q.cookie, u) => BelongsTo(q.cookie, u)'
                           /\ BelongsTo(q.tok, u) => BelongsTo(q.tok, u)'
                           /\ BelongsTo(q.new, u) => BelongsTo(q.new, u)'
        BY UsedNumbers, Kept
      <3> QED BY <2>3, <3>1 DEF OwnRequest
    <2>6. ASSUME NEW q \in net', q.tab = t, q.live, q \notin net PROVE OwnRequest(q, u)'
      <3>1. CASE q.new = 0 /\ Refreshes(q) /\ q.cookie = jar
        <4>1. BelongsTo(q.cookie, u)' /\ BelongsTo(q.new, u)' /\ q.kind # "password"
          BY <2>4, <3>1 DEF BelongsTo, Refreshes
        <4> QED BY <4>1 DEF OwnRequest
      <3>2. CASE q.new = 0 /\ (Refreshes(q) => q.cookie = 0)
                 /\ \E r \in net : q.tab = r.tab /\ q.kind = r.kind /\ q.tok = r.tok /\ q.live = r.live
        <4>1. PICK r \in net : q.kind = r.kind /\ q.tok = r.tok /\ r.tab = t /\ r.live
          BY <2>6, <3>2
        <4>2. OwnRequest(r, u)'
          BY <2>5, <4>1
        <4> QED BY <3>2, <4>1, <4>2 DEF OwnRequest, BelongsTo, Refreshes
      <3> QED BY <2>6, <3>1, <3>2
    <2> QED BY <2>4, <2>5, <2>6
  <1>2. SignInsOwned'
    <2>1. \A q \in net : q.kind \in {"login", "magic"} => BelongsTo(q.new, q.as)'
      BY Parts, UsedNumbers, Kept DEF SignInsOwned
    <2>2. \A q \in net' : q \notin net => BelongsTo(q.new, q.as)'
      BY DEF BelongsTo
    <2> QED BY <2>1, <2>2 DEF SignInsOwned
  <1>3. SignedOut'
    <2>1. SUFFICES ASSUME out # {} PROVE \A q \in net' : Harmless(q)
      BY DEF SignedOut
    <2>2. jar = 0 /\ \A q \in net : Harmless(q)
      BY <2>1, Parts DEF SignedOut, StaysSignedOut
    <2> QED BY <2>2 DEF Harmless, Refreshes
  <1>4. StaysSignedOut'
    BY Parts DEF StaysSignedOut
  <1>5. ProfileOfToken'
    <2>1. \A t \in Tabs : Owner(tab[t].token)' = Owner(tab[t].token)
      BY UsedNumbers, Kept DEF Owner
    <2>2. ASSUME NEW t \in Tabs, \A r \in InFlight(t, {"me"})' : r.for # tab[t].token
          PROVE  \A r \in InFlight(t, {"me"}) : r.for # tab[t].token
      BY <2>2 DEF InFlight
    <2> QED BY <2>1, <2>2, Parts DEF ProfileOfToken
  <1> QED BY <1>1, <1>2, <1>3, <1>4, <1>5

LEMMA ShapeTypes ==
    ASSUME BrowserIInv, Exchange, tab' \in [Tabs -> Page], \A t \in Tabs : Used(tab[t].token)',
           expired' \subseteq AccessTokens, acts' \in 0..MaxActs, faults' \in 0..MaxFaults,
           out' \subseteq Tabs, mixed' \subseteq Tabs, wipe' = wipe
    PROVE  /\ BrowserTypeOK' /\ NumbersUsed' /\ WipesExplained'
           /\ \A q \in net' : Unclaimed(q)'
           /\ OneRefresh'
           /\ \A k \in AccessTokens : Explained(k)'
  <1>1. /\ net' \subseteq Request /\ jar' \in Token0
        /\ Used(jar)' /\ \A q \in net' : Used(q.tok)' /\ Used(q.cookie)' /\ Used(q.new)'
        /\ \A q \in net' : Unclaimed(q)'
        /\ OneRefresh'
        /\ \A k \in AccessTokens : Explained(k)'
    BY ExchangeKeeps
  <1>2. BrowserTypeOK'
    BY <1>1, Parts DEF BrowserTypeOK, Exchange
  <1>3. NumbersUsed'
    BY <1>1 DEF NumbersUsed
  <1>4. WipesExplained'
    BY Parts DEF WipesExplained
  <1> QED BY <1>1, <1>2, <1>3, <1>4

LEMMA LosePreserves == ASSUME BrowserIInv, NEW r \in net, Lose(r) PROVE BrowserIInv'
  <1> DEFINE q == [r EXCEPT !.ans = "error", !.new = 0, !.cookie = 0]
  <1>1. /\ r.st = "back" /\ r.live
        /\ net' = (net \ {r}) \cup {q}
        /\ session' = IF Rotated(r) /\ Live(r.cookie) THEN [session EXCEPT ![r.cookie].lost = TRUE] ELSE session
        /\ UNCHANGED <<jar, expired, tab, out, mixed, wipe>>
        /\ Fault
    BY DEF Lose, Back
  <1>2. r \in Request /\ r.cookie \in Token0
    BY UsedNumbers
  <1>3. /\ q \in Request
        /\ q.tab = r.tab /\ q.kind = r.kind /\ q.for = r.for /\ q.live = r.live
        /\ q.tok = r.tok /\ q.st = r.st
        /\ q.cookie = 0 /\ q.ans = "error" /\ q.new = 0
    BY <1>2, Numbers DEF Request
  <1> HIDE DEF q
  <1>4. /\ session' \in [AccessTokens -> Session] /\ OwnersKept
        /\ \A k \in AccessTokens : NotRotated(k)
        /\ Rotated(r) /\ r.cookie # 0 /\ session'[r.cookie].st = "rotated" => session'[r.cookie].lost
    <2>1. CASE Rotated(r) /\ Live(r.cookie)
      <3>1. r.cookie \in AccessTokens
        BY <1>2, <2>1, Numbers DEF Live
      <3>2. session' = [n \in AccessTokens |-> IF n \in {r.cookie} THEN [session[n] EXCEPT !.lost = TRUE] ELSE session[n]]
        BY <1>1, <2>1, <3>1, Parts DEF BrowserTypeOK
      <3> QED BY <3>1, <3>2, NotesLost, Parts
    <2>2. CASE ~(Rotated(r) /\ Live(r.cookie))
      BY <1>1, <2>2, AllKept, Parts DEF Live
    <2> QED BY <2>1, <2>2
  <1>5. Joins(q)
    <2>1. Used(q.tok)'
      BY <1>3, <1>4, UsedNumbers, Kept
    <2>2. Refreshes(q) => /\ q.st # "wait"
                          /\ \A x \in net' : x.live /\ x.tab = q.tab /\ x.kind = q.kind => x = q
      BY <1>1, <1>3, Parts DEF OneRefresh, Refreshes
    <2> QED BY <1>3, <2>1, <2>2 DEF Joins
  <1>6. Exchange
    BY <1>1, <1>4, <1>5 DEF Exchange
  <1>7. \A t \in Tabs : Used(tab[t].token)'
    BY <1>1, <1>4, UsedNumbers, Kept DEF Used
  <1>8. /\ BrowserTypeOK' /\ NumbersUsed' /\ WipesExplained'
        /\ \A x \in net' : Unclaimed(x)'
        /\ OneRefresh'
        /\ \A k \in AccessTokens : Explained(k)'
    <2>1. /\ tab' \in [Tabs -> Page] /\ expired' \subseteq AccessTokens
          /\ out' \subseteq Tabs /\ mixed' \subseteq Tabs /\ wipe' = wipe
      BY <1>1, Parts DEF BrowserTypeOK
    <2>2. acts' \in 0..MaxActs /\ faults' \in 0..MaxFaults
      BY <1>1, FaultType, Parts DEF BrowserTypeOK
    <2> QED BY <1>6, <1>7, <2>1, <2>2, ShapeTypes
  <1>9. /\ \A t \in Tabs : OwnPage(t)'
        /\ SignInsOwned' /\ SignedOut' /\ StaysSignedOut' /\ ProfileOfToken'
    <2>1. \A x \in net : x.kind = "me" /\ x.live => \E y \in net' : /\ y.tab = x.tab /\ y.kind = "me"
                                                                    /\ y.live /\ y.for = x.for
      BY <1>1, <1>3
    <2>2. \A x \in net' : x \in net \/ x = q
      BY <1>1
    <2> QED BY ZenonT(30), <1>1, <1>3, <1>4, <2>1, <2>2, PagesStay
  <1> QED BY <1>8, <1>9 DEF BrowserIInv

LEMMA EndingPreserves ==
    ASSUME BrowserIInv, NEW n \in AccessTokens, ExpireToken(n) \/ EndSession(n)
    PROVE  BrowserIInv'
  <1>1. /\ session' = session \/ session' = Deleted({n})
        /\ expired' \subseteq AccessTokens
        /\ UNCHANGED <<jar, tab, net, out, mixed, wipe>>
        /\ Fault
    BY Parts DEF ExpireToken, EndSession, BrowserTypeOK
  <1>2. /\ session' \in [AccessTokens -> Session] /\ OwnersKept
        /\ \A k \in AccessTokens : NotRotated(k)
    <2>1. CASE session' = session
      BY <2>1, AllKept, Parts
    <2>2. CASE session' = Deleted({n})
      <3> DEFINE S == {n}
      <3>1. S \in SUBSET AccessTokens /\ session' = Deleted(S)
        BY <2>2
      <3> HIDE DEF S
      <3> QED BY <3>1, EndedEffect, Parts
    <2> QED BY <1>1, <2>1, <2>2
  <1>3. Exchange
    BY <1>1, <1>2 DEF Exchange
  <1>4. \A t \in Tabs : Used(tab[t].token)'
    BY <1>1, <1>2, UsedNumbers, Kept DEF Used
  <1>5. /\ tab' \in [Tabs -> Page]
        /\ out' \subseteq Tabs /\ mixed' \subseteq Tabs /\ wipe' = wipe
        /\ acts' \in 0..MaxActs /\ faults' \in 0..MaxFaults
    BY <1>1, FaultType, Parts DEF BrowserTypeOK
  <1>6. /\ BrowserTypeOK' /\ NumbersUsed' /\ WipesExplained'
        /\ \A x \in net' : Unclaimed(x)'
        /\ OneRefresh'
        /\ \A k \in AccessTokens : Explained(k)'
    BY <1>1, <1>3, <1>4, <1>5, ShapeTypes
  <1>7. /\ \A t \in Tabs : OwnPage(t)'
        /\ SignInsOwned' /\ SignedOut' /\ StaysSignedOut' /\ ProfileOfToken'
    BY <1>1, <1>2, PagesStay
  <1> QED BY <1>6, <1>7 DEF BrowserIInv

\* r is the request s with its answer.
AnswerOf(r, s) ==
    /\ r \in Request
    /\ r.tab = s.tab /\ r.kind = s.kind /\ r.as = s.as /\ r.for = s.for /\ r.live = s.live
    /\ r.tok = s.tok /\ r.cookie = s.cookie /\ r.new = s.new
    /\ \/ r.kind \in Reads /\ r.new = 0
       \/ r = s /\ r.st = "back" /\ r.live

LEMMA InterceptPreserves ==
    ASSUME BrowserIInv, NEW s \in net, NEW r, AnswerOf(r, s), Intercept(s, r),
           session' = session, faults' \in 0..MaxFaults
    PROVE  BrowserIInv'
  <1> DEFINE w == [r EXCEPT !.st = "wait", !.retry = TRUE, !.ans = "ok"]
  <1>0. PICK f : f = Send(r.tab, "refresh", Nobody, 0, 0)
    OBVIOUS
  <1>1. /\ r.ans = "401" /\ ~Refreshes(r)
        /\ net' = (net \ {s}) \cup {w} \cup IF LockFree(r.tab) THEN {f} ELSE {}
        /\ UNCHANGED <<jar, expired, tab, acts, out, mixed, wipe>>
    BY <1>0 DEF Intercept, Intercepted
  <1>2. /\ r \in Request /\ r.tab \in Tabs
        /\ r.tab = s.tab /\ r.kind = s.kind /\ r.as = s.as /\ r.for = s.for /\ r.live = s.live
        /\ r.tok = s.tok /\ r.cookie = s.cookie /\ r.new = 0
    <2>1. s.new # 0 => s.ans = "ok"
      BY Parts DEF Unclaimed
    <2> QED BY <1>1, <2>1, UsedNumbers DEF AnswerOf
  <1>3. /\ w \in Request /\ w.tab = r.tab /\ w.kind = r.kind /\ w.for = r.for /\ w.live = r.live
        /\ w.tok = r.tok /\ w.cookie = r.cookie /\ w.new = r.new /\ w.st = "wait"
    BY <1>2 DEF Request
  <1>4. /\ f \in Request /\ f.tab = r.tab /\ f.kind = "refresh" /\ f.cookie = jar /\ f.tok = 0
        /\ f.new = 0 /\ f.st = "sent" /\ f.live
    BY <1>0, <1>2, UsedNumbers, Numbers, KindsAre DEF Send, Request
  <1> HIDE DEF w
  <1>5. /\ session' \in [AccessTokens -> Session] /\ OwnersKept
        /\ \A k \in AccessTokens : NotRotated(k)
    BY AllKept, Parts
  <1>6. ~Refreshes(w) /\ Refreshes(f)
    BY <1>1, <1>3, <1>4 DEF Refreshes
  <1>7. Joins(w)
    BY <1>2, <1>3, <1>5, <1>6, UsedNumbers, Kept DEF Joins
  <1>8. LockFree(r.tab) => Joins(f)
    <2>1. Used(0)'
      BY DEF Used
    <2>2. SUFFICES ASSUME LockFree(r.tab) PROVE Joins(f)
      OBVIOUS
    <2>3. \A x \in net : ~(x.live /\ x.tab = r.tab /\ x.kind = "refresh")
      BY <2>2 DEF LockFree, InFlight
    <2>4. \A x \in net' : x.live /\ x.tab = f.tab /\ x.kind = f.kind => x = f
      BY <1>1, <1>3, <1>4, <1>6, <2>3 DEF Refreshes
    <2> QED BY <1>1, <1>4, <2>1, <2>3, <2>4 DEF Joins
  <1>9. \A x \in net' : x \in net \/ x = w \/ (x = f /\ LockFree(r.tab))
    BY <1>1
  <1>10. Exchange
    <2>1. \A x \in net : Rotated(x) => x \in net'
      BY <1>1, <1>2 DEF Rotated, Refreshes
    <2> QED BY <1>1, <1>5, <1>7, <1>8, <1>9, <2>1 DEF Exchange
  <1>11. \A t \in Tabs : Used(tab[t].token)'
    BY <1>1, <1>5, UsedNumbers, Kept DEF Used
  <1>12. /\ tab' \in [Tabs -> Page] /\ expired' \subseteq AccessTokens
         /\ out' \subseteq Tabs /\ mixed' \subseteq Tabs /\ wipe' = wipe
         /\ acts' \in 0..MaxActs /\ faults' \in 0..MaxFaults
    BY <1>1, Parts DEF BrowserTypeOK
  <1>13. /\ BrowserTypeOK' /\ NumbersUsed' /\ WipesExplained'
         /\ \A x \in net' : Unclaimed(x)'
         /\ OneRefresh'
         /\ \A k \in AccessTokens : Explained(k)'
    BY <1>10, <1>11, <1>12, ShapeTypes
  <1>14. /\ \A t \in Tabs : OwnPage(t)'
         /\ SignInsOwned' /\ SignedOut' /\ StaysSignedOut' /\ ProfileOfToken'
    <2>1. \A x \in net : x.kind = "me" /\ x.live => \E y \in net' : /\ y.tab = x.tab /\ y.kind = "me"
                                                                    /\ y.live /\ y.for = x.for
      BY <1>1, <1>2, <1>3
    <2> QED BY <1>1, <1>2, <1>3, <1>4, <1>5, <1>6, <1>9, <2>1, PagesStay
  <1> QED BY <1>13, <1>14 DEF BrowserIInv

\* Whoever is not mixed after the cookie changed owns the new one.
LEMMA CookieOwned ==
    ASSUME BrowserIInv, NEW r \in net, NEW E \in SUBSET Tabs, NEW t \in E, t \notin MixedAfter(r, E),
           tab[t].who # Nobody, t \notin mixed, jar' = JarAfter(r), session' = session
    PROVE  BelongsTo(jar', tab[t].who)
  <1>1. BelongsTo(jar, tab[t].who)
    BY Parts DEF OwnPage
  <1>2. SetsCookie(r) /\ r.new # 0 => tab[t].who = session[r.new].user
    BY DEF MixedAfter, Owner
  <1> QED BY <1>1, <1>2 DEF JarAfter, BelongsTo

LEMMA StrayPreserves == ASSUME BrowserIInv, NEW r \in net, Stray(r) PROVE BrowserIInv'
  <1>1. /\ r.st = "back" /\ ~r.live /\ net' = net \ {r}
        /\ \/ jar' = JarAfter(r) /\ mixed' = MixedAfter(r, Tabs)
           \/ jar' = jar /\ mixed' = mixed
        /\ UNCHANGED <<session, expired, tab, acts, faults, out, wipe>>
    BY DEF Stray
  <1>2. /\ session' \in [AccessTokens -> Session] /\ OwnersKept
        /\ \A k \in AccessTokens : NotRotated(k)
    BY <1>1, AllKept, Parts
  <1>3. Exchange
    <2>1. jar' \in {0, jar} \/ (r \notin net' /\ SetsCookie(r) /\ jar' = r.new)
      BY <1>1 DEF JarAfter
    <2> QED BY <1>1, <1>2, <2>1 DEF Exchange
  <1>4. mixed \subseteq mixed' /\ mixed' \subseteq Tabs
    BY <1>1, UsedNumbers, Parts DEF MixedAfter, BrowserTypeOK
  <1>5. \A t \in Tabs : Used(tab[t].token)'
    BY <1>1, <1>2, UsedNumbers, Kept DEF Used
  <1>6. /\ tab' \in [Tabs -> Page] /\ expired' \subseteq AccessTokens
        /\ out' \subseteq Tabs /\ wipe' = wipe
        /\ acts' \in 0..MaxActs /\ faults' \in 0..MaxFaults
    BY <1>1, Parts DEF BrowserTypeOK
  <1>7. /\ BrowserTypeOK' /\ NumbersUsed' /\ WipesExplained'
        /\ \A x \in net' : Unclaimed(x)'
        /\ OneRefresh'
        /\ \A k \in AccessTokens : Explained(k)'
    BY <1>3, <1>4, <1>5, <1>6, ShapeTypes
  <1>8. ASSUME NEW t \in Tabs PROVE OwnPage(t)'
    <2>1. SUFFICES ASSUME tab[t].who # Nobody, t \notin mixed'
                   PROVE  /\ BelongsTo(tab[t].token, tab[t].who)' /\ BelongsTo(jar', tab[t].who)
                          /\ \A q \in net' : q.tab = t /\ q.live => OwnRequest(q, tab[t].who)'
      BY <1>1 DEF OwnPage, BelongsTo
    <2>2. /\ BelongsTo(tab[t].token, tab[t].who) /\ BelongsTo(jar, tab[t].who)
          /\ \A q \in net : q.tab = t /\ q.live => OwnRequest(q, tab[t].who)
      BY <1>4, <2>1, Parts DEF OwnPage
    <2>3. BelongsTo(jar', tab[t].who)
      <3>1. Tabs \in SUBSET Tabs
        OBVIOUS
      <3> QED BY <1>1, <1>4, <2>1, <2>2, <3>1, CookieOwned
    <2> QED BY <1>1, <2>2, <2>3 DEF OwnRequest, BelongsTo
  <1>9. SignInsOwned'
    BY <1>1, Parts DEF SignInsOwned, BelongsTo
  <1>10. SignedOut' /\ StaysSignedOut'
    <2>1. out # {} => jar = 0 /\ Harmless(r)
      BY Parts DEF SignedOut, StaysSignedOut
    <2>2. out # {} => jar' = 0
      BY <1>1, <2>1 DEF Harmless, JarAfter, SetsCookie, Refreshes
    <2> QED BY <1>1, <2>2, Parts DEF SignedOut, StaysSignedOut
  <1>11. ProfileOfToken'
    <2>1. \A t \in Tabs : \A q \in InFlight(t, {"me"}) : q \in InFlight(t, {"me"})'
      BY <1>1 DEF InFlight
    <2> QED BY <1>1, <2>1, Parts DEF ProfileOfToken, Owner
  <1> QED BY <1>7, <1>8, <1>9, <1>10, <1>11 DEF BrowserIInv

LEMMA ShowEffect ==
    ASSUME BrowserTypeOK, NEW t \in Tabs, NEW h \in Page, NEW R, Show(t, h, R)
    PROVE  /\ \E m \in Request :
                /\ m.tab = t /\ m.kind = "me" /\ m.for = h.token /\ m.tok = h.token
                /\ m.cookie = 0 /\ m.new = 0 /\ m.live
                /\ net' = R \cup IF h.token \in {0, tab[t].token} THEN {} ELSE {m}
           /\ tab' \in [Tabs -> Page]
           /\ tab'[t].token = h.token /\ tab'[t].who = h.who /\ tab'[t].profile = h.profile
           /\ tab'[t].profileLost = h.profileLost /\ tab'[t].profileLate = h.profileLate
           /\ \A x \in Tabs \ {t} : tab'[x] = tab[x]
  <1>1. PICK s : s = Send(t, "me", Nobody, h.token, h.token)
    OBVIOUS
  <1>2. h.token \in Token0 /\ jar \in Token0 /\ 0 \in Token0
    BY Numbers, TypesOf DEF Page
  <1>3. /\ s \in Request /\ s.tab = t /\ s.kind = "me" /\ s.for = h.token /\ s.tok = h.token
        /\ s.new = 0 /\ s.live
    BY <1>1, <1>2, KindsAre DEF Send, Request
  <1>4. PICK m : m = [s EXCEPT !.cookie = 0]
    OBVIOUS
  <1>5. /\ m \in Request /\ m.tab = t /\ m.kind = "me" /\ m.for = h.token /\ m.tok = h.token
        /\ m.cookie = 0 /\ m.new = 0 /\ m.live
    BY <1>2, <1>3, <1>4 DEF Request
  <1>6. net' = R \cup IF h.token \in {0, tab[t].token} THEN {} ELSE {m}
    BY <1>1, <1>4 DEF Show
  <1>7. PICK d : d = Settled(h)
    OBVIOUS
  <1>8. /\ d \in Page /\ d.token = h.token /\ d.who = h.who /\ d.profile = h.profile
        /\ d.profileLost = h.profileLost /\ d.profileLate = h.profileLate
    BY <1>7, PageFields
  <1>9. tab' = [tab EXCEPT ![t] = d] /\ tab \in [Tabs -> Page]
    BY <1>7, TypesOf DEF Show
  <1> QED BY <1>5, <1>6, <1>8, <1>9

\* The requests for profiles stay, but for one whose answer came.
LEMMA ProfileKept ==
    ASSUME BrowserIInv, OwnersKept, NEW t \in Tabs, NEW h \in Page,
           Used(h.token)',
           tab'[t].token = h.token, tab'[t].profile = h.profile,
           tab'[t].profileLost = h.profileLost, tab'[t].profileLate = h.profileLate,
           \A x \in Tabs \ {t} : tab'[x] = tab[x],
           h.token \notin {0, tab[t].token} =>
             \E q \in net' : q.tab = t /\ q.kind = "me" /\ q.live /\ q.for = h.token,
           \A r \in net : r.kind = "me" /\ r.live /\ r.tab # t =>
             \E q \in net' : q.tab = r.tab /\ q.kind = "me" /\ q.live /\ q.for = r.for,
           \/ h.token \notin {0, tab[t].token}
           \/ h.profile = Nobody
           \/ /\ h.token = tab[t].token
              /\ ~h.profileLost /\ ~h.profileLate => h.profile = Owner(h.token)
           \/ /\ h.token = tab[t].token
              /\ h.profile = tab[t].profile /\ h.profileLost = tab[t].profileLost
              /\ h.profileLate = tab[t].profileLate
              /\ \A r \in net : r.kind = "me" /\ r.live /\ r.tab = t /\ r.for = h.token =>
                   \E q \in net' : q.tab = t /\ q.kind = "me" /\ q.live /\ q.for = r.for
    PROVE  ProfileOfToken'
  <1>1. SUFFICES ASSUME NEW x \in Tabs,
                        tab'[x].profile # Nobody, ~tab'[x].profileLost, ~tab'[x].profileLate,
                        \A r \in InFlight(x, {"me"})' : r.for # tab'[x].token
                 PROVE  tab'[x].profile = Owner(tab[x].token)'
    BY DEF ProfileOfToken
  <1>2. \A r \in net' : r.tab = x /\ r.live /\ r.kind = "me" => r.for # tab'[x].token
    BY <1>1 DEF InFlight
  <1>3. CASE x # t
    <2>1. tab'[x] = tab[x] /\ Owner(tab[x].token)' = Owner(tab[x].token)
      <3>1. tab'[x] = tab[x]
        BY <1>3
      <3>2. PICK k \in Token0 : k = tab[x].token /\ Used(k)
        BY UsedNumbers
      <3> QED BY <3>1, <3>2, Kept DEF Owner
    <2>2. \A r \in InFlight(x, {"me"}) : r.for # tab[x].token
      BY <1>2, <1>3, <2>1 DEF InFlight
    <2> QED BY <1>1, <2>1, <2>2, Parts DEF ProfileOfToken
  <1>4. CASE x = t
    <2>1. h.token = tab[t].token /\ h.profile # Nobody /\ ~h.profileLost /\ ~h.profileLate
      BY <1>1, <1>2, <1>4
    <2>2. Owner(tab[t].token)' = Owner(h.token) /\ tab'[t].profile = h.profile
      <3>1. PICK k \in Token0 : k = tab[t].token /\ Used(k)
        BY UsedNumbers
      <3>2. Owner(k)' = Owner(k)
        BY <3>1, Kept
      <3> QED BY <2>1, <3>1, <3>2 DEF Owner
    <2>3. CASE h.profile = Owner(h.token)
      BY <1>4, <2>2, <2>3
    <2>4. CASE /\ h.profile = tab[t].profile /\ h.profileLost = tab[t].profileLost
               /\ h.profileLate = tab[t].profileLate
               /\ \A r \in net : r.kind = "me" /\ r.live /\ r.tab = t /\ r.for = h.token =>
                    \E q \in net' : q.tab = t /\ q.kind = "me" /\ q.live /\ q.for = r.for
      <3>1. \A r \in InFlight(t, {"me"}) : r.for # tab[t].token
        BY <1>2, <1>4, <2>1, <2>4 DEF InFlight
      <3>2. h.profile = Owner(h.token)
        BY <2>1, <2>4, <3>1, Parts DEF ProfileOfToken
      <3> QED BY <1>4, <2>2, <3>2
    <2> QED BY <2>1, <2>3, <2>4
  <1> QED BY <1>3, <1>4

LEMMA FinishPreserves ==
    ASSUME BrowserIInv, NEW s \in net, NEW r, AnswerOf(r, s), Finish(s, r),
           session' \in [AccessTokens -> Session], OwnersKept, \A k \in AccessTokens : NotRotated(k),
           faults' \in 0..MaxFaults
    PROVE  BrowserIInv'
  <1>1. /\ r.kind # "refresh" /\ jar' = JarAfter(r)
        /\ Show(r.tab, Handled(tab[r.tab], r), (net \ {s}) \cup Follows(r))
        /\ mixed' = MixedAfter(r, Tabs \ {r.tab})
        /\ out' = IF r.kind = "logout"
                  THEN IF r.ans = "ok" /\ \A q \in net \ {r} : q.kind \in Reads THEN {r.tab} ELSE {}
                  ELSE out
        /\ UNCHANGED <<expired, acts, wipe>>
    BY DEF Finish
  <1>2. /\ r \in Request /\ r.tab \in Tabs /\ r.tab = s.tab /\ r.kind = s.kind /\ r.for = s.for
        /\ r.new = s.new /\ r.new \in Token0 /\ r.as \in Accounts \cup {Nobody}
        /\ \/ r.kind \in Reads /\ r.new = 0
           \/ r = s /\ r.st = "back" /\ r.live
    BY UsedNumbers, RequestType, Parts DEF AnswerOf
  <1>3. PICK t, p, h : /\ t \in Tabs /\ p \in Page
                       /\ t = r.tab /\ p = tab[t] /\ h = Handled(p, r)
    BY <1>2, UsedNumbers
  <1>4. /\ h \in Page
        /\ h.token = IF BringsToken(r) THEN r.new ELSE IF r.kind = "logout" THEN 0 ELSE p.token
        /\ h.who = IF SignsIn(r) THEN r.as ELSE IF r.kind = "logout" THEN Nobody ELSE p.who
        /\ r.kind \notin {"me", "profile"} /\ h.token = p.token /\ h.profile # Nobody =>
             /\ h.profile = p.profile /\ h.profileLost = p.profileLost
             /\ h.profileLate = p.profileLate
        /\ r.kind = "me" /\ r.for # p.token => h = p
        /\ r.kind = "me" /\ r.for = p.token /\ ~h.profileLost => h.profile = Owner(p.token)
        /\ r.kind = "profile" => h = p \/ (~h.profileLate => h.profile = Owner(p.token))
        /\ h.token # p.token /\ h.token = 0 => h.profile = Nobody
    BY <1>2, <1>3, HandledFields, Parts
  <1>5. PICK m \in Request :
             /\ m.tab = t /\ m.kind = "me" /\ m.for = h.token /\ m.tok = h.token
             /\ m.cookie = 0 /\ m.new = 0 /\ m.live
             /\ net' = ((net \ {s}) \cup Follows(r)) \cup IF h.token \in {0, tab[t].token} THEN {} ELSE {m}
    BY <1>1, <1>3, <1>4, ShowEffect, Parts
  <1>f. /\ \A q \in Follows(r) : /\ q \in Request /\ q.tab = t /\ q.kind = "profile" /\ q.tok = p.token
                                 /\ q.cookie = 0 /\ q.new = 0 /\ q # s
        /\ Follows(r) # {} => r.kind = "save"
    <2>1. Follows(r) # {} => r.kind = "save" /\ Follows(r) = {Ask(t, "profile", 0)}
      BY <1>3 DEF Follows
    <2> QED BY <1>2, <1>3, <2>1, AskFields, KindsAre, Numbers
  <1>6. /\ tab' \in [Tabs -> Page]
        /\ tab'[t].token = h.token /\ tab'[t].who = h.who /\ tab'[t].profile = h.profile
        /\ tab'[t].profileLost = h.profileLost /\ tab'[t].profileLate = h.profileLate
        /\ \A x \in Tabs \ {t} : tab'[x] = tab[x]
    BY <1>1, <1>3, <1>4, ShowEffect, Parts
  <1>7. \A q \in net' : q \in net \ {s} \/ q = m \/ q \in Follows(r)
    BY <1>5
  <1>8. /\ p.token \in Token0 /\ Used(p.token) /\ Used(r.new) /\ h.token \in Token0 /\ Used(h.token)'
    <2>1. p.token \in Token0 /\ Used(p.token) /\ Used(r.new)
      BY <1>2, <1>3, UsedNumbers
    <2>2. h.token \in Token0 /\ (h.token = 0 \/ Used(h.token))
      BY <1>2, <1>4, <2>1, Numbers
    <2>3. Used(h.token)'
      BY <2>2, Kept DEF Used
    <2> QED BY <2>1, <2>2, <2>3
  <1>9. SetsCookie(r) => r = s /\ r.st = "back" /\ r.live
    BY <1>2 DEF SetsCookie, Reads
  <1>10. Exchange
    <2>1. Joins(m) /\ \A q \in Follows(r) : Joins(q)
      <3>1. Joins(m)
        BY <1>5, <1>8 DEF Joins, Refreshes
      <3>2. Used(p.token)'
        BY <1>8, Kept DEF Used
      <3>3. \A q \in Follows(r) : Joins(q)
        BY <1>f, <3>2 DEF Joins, Refreshes, Used
      <3> QED BY <3>1, <3>3
    <2>2. s \notin net'
      <3>1. s # m \/ h.token \in {0, tab[t].token}
        <4>1. ASSUME s = m PROVE h.token = p.token
          BY <1>2, <1>4, <1>5, <4>1 DEF BringsToken
        <4> QED BY <1>3, <4>1
      <3> QED BY <1>5, <1>f, <3>1
    <2>3. jar' \in {0, jar} \/ (s \notin net' /\ SetsCookie(s) /\ jar' = s.new)
      BY <1>1, <1>9, <2>2 DEF JarAfter
    <2>4. ASSUME jar' = jar, jar # 0, Rotated(s), s.cookie = jar PROVE FALSE
      <3>1. r = s /\ SetsCookie(s)
        BY <1>1, <1>2, <2>4 DEF Rotated, Refreshes, SetsCookie, Reads
      <3>2. jar = s.new
        BY <1>1, <2>4, <3>1 DEF JarAfter
      <3> QED BY <2>4, <3>1, <3>2, Parts DEF Unclaimed
    <2>5. \A x \in net : x # s => x \in net'
      BY <1>5
    <2> QED BY <1>7, <2>1, <2>3, <2>4, <2>5 DEF Exchange
  <1>11. \A x \in Tabs : Used(tab[x].token)'
    <2>1. \A x \in Tabs \ {t} : Used(tab[x].token)'
      BY <1>6, UsedNumbers, Kept DEF Used
    <2> QED BY <1>6, <1>8, <2>1 DEF Used
  <1>12. mixed' \subseteq Tabs /\ out' \subseteq Tabs /\ expired' \subseteq AccessTokens /\ acts' \in 0..MaxActs
    BY <1>1, <1>2, Parts DEF MixedAfter, BrowserTypeOK
  <1>13. /\ BrowserTypeOK' /\ NumbersUsed' /\ WipesExplained'
         /\ \A x \in net' : Unclaimed(x)'
         /\ OneRefresh'
         /\ \A k \in AccessTokens : Explained(k)'
    BY <1>1, <1>6, <1>10, <1>11, <1>12, ShapeTypes
  <1>14. ASSUME NEW x \in Tabs PROVE OwnPage(x)'
    <2>1. PICK u, n, j : u = tab'[x].who /\ n = tab'[x].token /\ j = jar'
      OBVIOUS
    <2>2. SUFFICES ASSUME u # Nobody, x \notin mixed'
                   PROVE  /\ BelongsTo(n, u)' /\ BelongsTo(j, u)'
                          /\ \A q \in net \ {s} : q.tab = x /\ q.live => OwnRequest(q, u)'
      <3>1. OwnRequest(m, u)' /\ \A q \in Follows(r) : OwnRequest(q, u)'
        BY <1>5, <1>f DEF OwnRequest, Refreshes
      <3> QED BY <1>7, <2>1, <3>1 DEF OwnPage, BelongsTo
    <2>3. \A q \in net : /\ BelongsTo(q.cookie, u) => BelongsTo(q.cookie, u)'
                         /\ BelongsTo(q.tok, u) => BelongsTo(q.tok, u)'
                         /\ BelongsTo(q.new, u) => BelongsTo(q.new, u)'
      BY UsedNumbers, Kept
    <2>4. CASE x = t /\ SignsIn(r)
      <3>1. r = s /\ r.live /\ u = r.as /\ n = r.new
        BY <1>2, <1>4, <1>6, <2>1, <2>4 DEF SignsIn, BringsToken, Reads
      <3>2. /\ r.kind = "magic" => jar = 0
            /\ \A q \in net \ {r} : q.kind \in Reads \cup {"magic", "logout"}
        BY <1>1, <1>3, <2>2, <2>4, <3>1 DEF MixedAfter, SignsIn
      <3>3. BelongsTo(n, u)'
        BY <2>3, <2>4, <3>1, Parts DEF SignInsOwned, SignsIn
      <3>4. j = n \/ j = 0
        BY <1>1, <2>1, <2>4, <3>1, <3>2 DEF JarAfter, SetsCookie, SignsIn
      <3>5. \A q \in net \ {s} : OwnRequest(q, u)'
        BY <3>1, <3>2 DEF OwnRequest, Refreshes, Reads
      <3> QED BY <3>3, <3>4, <3>5 DEF BelongsTo
    <2>5. CASE ~(x = t /\ SignsIn(r))
      <3>1. x \notin mixed
        BY <1>1, <1>3, <2>2, <2>5 DEF MixedAfter, SignsIn
      <3>2. u = tab[x].who
        BY <1>3, <1>4, <1>6, <2>1, <2>2, <2>5
      <3>3. /\ BelongsTo(tab[x].token, u) /\ BelongsTo(jar, u)
            /\ \A q \in net : q.tab = x /\ q.live => OwnRequest(q, u)
        BY <2>2, <3>1, <3>2, Parts DEF OwnPage
      <3>4. x = t /\ (BringsToken(r) \/ SetsCookie(r)) => BelongsTo(r.new, u)'
        <4>1. x = t /\ (BringsToken(r) \/ SetsCookie(r)) =>
                r = s /\ r.live /\ (Refreshes(s) \/ s.kind = "password")
          BY <1>1, <1>2, <2>5 DEF BringsToken, SetsCookie, SignsIn, Refreshes, Reads
        <4> QED BY <1>3, <2>3, <3>3, <4>1 DEF OwnRequest
      <3>5. BelongsTo(n, u)'
        <4>1. BelongsTo(tab[x].token, u) /\ n = tab[x].token => BelongsTo(n, u)'
          BY UsedNumbers, Kept
        <4>2. n = tab[x].token \/ n = 0 \/ (x = t /\ BringsToken(r) /\ n = r.new)
          BY <1>3, <1>4, <1>6, <2>1
        <4> QED BY <3>3, <3>4, <4>1, <4>2 DEF BelongsTo
      <3>6. BelongsTo(j, u)'
        <4>1. BelongsTo(jar, u) /\ j = jar => BelongsTo(j, u)'
          BY UsedNumbers, Kept
        <4>2. x # t /\ SetsCookie(r) => BelongsTo(r.new, u)
          BY <1>1, <1>3, <2>2, <3>2 DEF MixedAfter, BelongsTo, Owner
        <4>3. x # t /\ SetsCookie(r) => BelongsTo(r.new, u)'
          BY <1>9, <2>3, <4>2
        <4>4. j = jar \/ j = 0 \/ (SetsCookie(r) /\ j = r.new)
          BY <1>1, <2>1 DEF JarAfter
        <4> QED BY <3>3, <3>4, <4>1, <4>3, <4>4 DEF BelongsTo
      <3>7. \A q \in net : q.tab = x /\ q.live => OwnRequest(q, u)'
        BY <2>3, <3>3 DEF OwnRequest
      <3> QED BY <3>5, <3>6, <3>7
    <2> QED BY <2>4, <2>5
  <1>15. SignInsOwned'
    <2>1. \A q \in net : q.kind \in {"login", "magic"} => BelongsTo(q.new, q.as)'
      BY Parts, UsedNumbers, Kept DEF SignInsOwned
    <2> QED BY <1>5, <1>7, <1>f, <2>1 DEF SignInsOwned
  <1>16. SignedOut' /\ StaysSignedOut'
    <2>1. CASE r.kind = "logout"
      <3>1. SUFFICES ASSUME out' # {} PROVE SignedOut' /\ StaysSignedOut'
        BY DEF SignedOut, StaysSignedOut
      <3>2. r.ans = "ok" /\ out' = {t} /\ r = s /\ \A q \in net \ {s} : q.kind \in Reads
        BY <1>1, <1>2, <1>3, <2>1, <3>1 DEF Reads
      <3>3. jar' = 0 /\ tab'[t].token = 0
        BY <1>1, <1>4, <1>6, <2>1, <3>2 DEF JarAfter, SetsCookie, BringsToken
      <3>4. \A q \in net' : Harmless(q)
        BY <1>5, <1>7, <1>f, <3>2 DEF Harmless, Reads, Refreshes
      <3> QED BY <3>2, <3>3, <3>4 DEF SignedOut, StaysSignedOut
    <2>2. CASE r.kind # "logout"
      <3>1. SUFFICES ASSUME out # {}, out' = out PROVE SignedOut' /\ StaysSignedOut'
        BY <1>1, <2>2 DEF SignedOut, StaysSignedOut
      <3>2. jar = 0 /\ (\A x \in out : tab[x].token = 0) /\ \A q \in net : Harmless(q)
        BY <3>1, Parts DEF SignedOut, StaysSignedOut
      <3>3. ~SetsCookie(r) /\ ~BringsToken(r)
        BY <1>2, <1>9, <3>2 DEF Harmless, SetsCookie, BringsToken, Refreshes, Reads
      <3>4. jar' = 0 /\ h.token = p.token
        BY <1>1, <1>4, <2>2, <3>2, <3>3 DEF JarAfter
      <3>5. \A x \in out : x \in Tabs /\ tab'[x].token = 0
        BY <1>3, <1>6, <3>2, <3>4, Parts DEF BrowserTypeOK
      <3>6. \A q \in net' : Harmless(q)
        BY <1>5, <1>7, <1>f, <3>2 DEF Harmless, Refreshes
      <3> QED BY <3>1, <3>4, <3>5, <3>6 DEF SignedOut, StaysSignedOut
    <2> QED BY <2>1, <2>2
  <1>17. ProfileOfToken'
    <2>1. h.token \notin {0, tab[t].token} =>
            \E q \in net' : q.tab = t /\ q.kind = "me" /\ q.live /\ q.for = h.token
      BY <1>5
    <2>2. \A q \in net : q.kind = "me" /\ q.live /\ q.tab # t =>
            \E y \in net' : y.tab = q.tab /\ y.kind = "me" /\ y.live /\ y.for = q.for
      BY <1>2, <1>3, <1>5
    <2>3. ASSUME h.token = tab[t].token, h.profile # Nobody
          PROVE  \/ ~h.profileLost /\ ~h.profileLate => h.profile = Owner(h.token)
                 \/ /\ h.profile = tab[t].profile /\ h.profileLost = tab[t].profileLost
                    /\ h.profileLate = tab[t].profileLate
                    /\ \A q \in net : q.kind = "me" /\ q.live /\ q.tab = t /\ q.for = h.token =>
                         \E y \in net' : y.tab = t /\ y.kind = "me" /\ y.live /\ y.for = q.for
      <3>1. CASE r.kind = "me" /\ r.for = p.token
        BY <1>3, <1>4, <2>3, <3>1
      <3>2. CASE ~(r.kind = "me" /\ r.for = p.token) /\ ~(r.kind = "profile" /\ h # p)
        <4>1. /\ h.profile = tab[t].profile /\ h.profileLost = tab[t].profileLost
              /\ h.profileLate = tab[t].profileLate
          BY <1>3, <1>4, <2>3, <3>2
        <4>2. \A q \in net : q.kind = "me" /\ q.for = h.token => q # s
          BY <1>2, <1>3, <2>3, <3>2
        <4> QED BY <1>5, <4>1, <4>2
      <3>3. CASE r.kind = "profile" /\ h # p
        BY <1>3, <1>4, <2>3, <3>3
      <3> QED BY <3>1, <3>2, <3>3
    <2>4. h.token # tab[t].token /\ h.token = 0 => h.profile = Nobody
      BY <1>3, <1>4
    <2> QED BY <1>3, <1>4, <1>6, <1>8, <2>1, <2>2, <2>3, <2>4, ProfileKept
  <1> QED BY <1>13, <1>14, <1>15, <1>16, <1>17 DEF BrowserIInv

LEMMA ReadPreserves == ASSUME BrowserIInv, NEW s \in net, DeliverRead(s) PROVE BrowserIInv'
  <1>1. PICK ans, r :
          /\ ans \in {IF Honoured(s) THEN "ok" ELSE "401", "error"}
          /\ r = [s EXCEPT !.ans = ans]
          /\ IF ans = "error" THEN faults < MaxFaults /\ faults' = faults + 1 ELSE UNCHANGED faults
          /\ session' = IF ans = "ok" /\ s.kind = "call" THEN Deleted({n \in {s.for} : Live(n)}) ELSE session
          /\ Finish(s, r) \/ Intercept(s, r)
    BY DEF DeliverRead
  <1>2. s.kind \in Reads /\ s.st = "sent"
    BY DEF DeliverRead
  <1>3. s.new = 0
    BY <1>2, Parts DEF Unclaimed
  <1>4. AnswerOf(r, s)
    <2>1. s \in Request /\ ans \in {"ok", "401", "error"}
      BY <1>1, UsedNumbers
    <2> QED BY <1>1, <1>2, <1>3, <2>1 DEF AnswerOf, Request
  <1>5. r.ans = ans
    BY <1>1, UsedNumbers DEF Request
  <1>6. faults' \in 0..MaxFaults
    BY <1>1, BrowserAssumption, Parts DEF BrowserTypeOK
  <1>7. /\ session' \in [AccessTokens -> Session] /\ OwnersKept
        /\ \A k \in AccessTokens : NotRotated(k)
    <2>1. PICK S : S = {n \in {s.for} : Live(n)}
      OBVIOUS
    <2>2. S \in SUBSET AccessTokens
      BY <2>1, Numbers, RequestType, Parts DEF Live
    <2>3. session' = session \/ session' = Deleted(S)
      BY <1>1, <2>1
    <2> QED BY <2>2, <2>3, AllKept, EndedEffect, Parts
  <1>8. CASE Finish(s, r)
    BY <1>4, <1>6, <1>7, <1>8, FinishPreserves
  <1>9. CASE Intercept(s, r)
    <2>1. session' = session
      BY <1>1, <1>5, <1>9 DEF Intercept, Intercepted
    <2> QED BY <1>4, <1>6, <1>9, <2>1, InterceptPreserves
  <1> QED BY <1>1, <1>8, <1>9

LEMMA RefreshDonePreserves == ASSUME BrowserIInv, NEW r \in net, RefreshDone(r) PROVE BrowserIInv'
  <1>1. /\ r.st = "back" /\ r.live /\ r.kind = "refresh" /\ r.ans = "ok"
        /\ jar' = JarAfter(r)
        /\ Show(r.tab, WithToken(tab[r.tab], r.new),
                ((net \ {r}) \ Waiting(r.tab)) \cup Resend(r.tab, r.new, r.new))
        /\ mixed' = MixedAfter(r, Tabs \ {r.tab})
        /\ UNCHANGED <<session, expired, acts, faults, out, wipe>>
    BY DEF RefreshDone, Back
  <1>2. r \in Request /\ r.tab \in Tabs /\ r.new \in Token0 /\ Used(r.new) /\ SetsCookie(r) /\ jar' = r.new
    BY <1>1, UsedNumbers DEF JarAfter, SetsCookie
  <1>3. PICK t, p, h, R :
          /\ t \in Tabs /\ p \in Page
          /\ t = r.tab /\ p = tab[t] /\ h = WithToken(p, r.new)
          /\ R = ((net \ {r}) \ Waiting(t)) \cup Resend(t, r.new, r.new)
    BY <1>2, UsedNumbers
  <1>4. /\ h \in Page /\ h.token = r.new /\ h.who = p.who
        /\ h.profile = IF r.new = 0 THEN Nobody ELSE p.profile
        /\ h.profileLate = p.profileLate
        /\ r.new = p.token => h.profileLost = p.profileLost
    BY <1>2, <1>3, WithTokenFields
  <1>5. PICK m \in Request :
             /\ m.tab = t /\ m.kind = "me" /\ m.for = h.token /\ m.tok = h.token
             /\ m.cookie = 0 /\ m.new = 0 /\ m.live
             /\ net' = R \cup IF h.token \in {0, tab[t].token} THEN {} ELSE {m}
    BY <1>1, <1>3, <1>4, ShowEffect, Parts
  <1>6. /\ tab' \in [Tabs -> Page]
        /\ tab'[t].token = h.token /\ tab'[t].who = h.who /\ tab'[t].profile = h.profile
        /\ tab'[t].profileLost = h.profileLost /\ tab'[t].profileLate = h.profileLate
        /\ \A x \in Tabs \ {t} : tab'[x] = tab[x]
    BY <1>1, <1>3, <1>4, ShowEffect, Parts
  <1> DEFINE Again(x) == [x EXCEPT !.st = "sent", !.tok = r.new, !.cookie = IF x.kind \in Reads THEN 0 ELSE r.new]
  <1>7. ASSUME NEW x \in net, x.st = "wait"
        PROVE  /\ Again(x) \in Request /\ ~Refreshes(x)
               /\ Again(x).tab = x.tab /\ Again(x).kind = x.kind /\ Again(x).for = x.for
               /\ Again(x).live = x.live /\ Again(x).new = 0 /\ Again(x).tok = r.new
               /\ Again(x).cookie \in {0, r.new}
    <2>1. x \in Request /\ x.new = 0 /\ ~Refreshes(x)
      BY <1>7, UsedNumbers, Parts DEF Unclaimed, OneRefresh
    <2>2. PICK c \in Token0 : c = IF x.kind \in Reads THEN 0 ELSE r.new
      BY <1>2, Numbers
    <2>3. Again(x) = [x EXCEPT !.st = "sent", !.tok = r.new, !.cookie = c]
      BY <2>2
    <2>4. c \in {0, r.new}
      BY <2>2
    <2> HIDE DEF Again
    <2> QED BY <1>2, <2>1, <2>3, <2>4 DEF Request
  <1>8. \A q \in net' : \/ q \in net \ {r}
                        \/ q = m
                        \/ \E x \in net : q = Again(x) /\ x.tab = t /\ x.st = "wait"
    BY <1>3, <1>5 DEF Resend, Waiting
  <1>9. \A x \in net \ {r} : x \in net' \/ (x.tab = t /\ x.st = "wait" /\ x.live /\ Again(x) \in net')
    BY <1>3, <1>5 DEF Resend, Waiting
  <1> HIDE DEF Again
  <1>10. /\ session' \in [AccessTokens -> Session] /\ OwnersKept
         /\ \A k \in AccessTokens : NotRotated(k)
    BY <1>1, AllKept, Parts
  <1>11. Used(r.new)' /\ Used(h.token)' /\ jar' = r.new
    BY <1>2, <1>4, <1>10, Kept
  <1>12. Joins(m) /\ \A x \in net : x.st = "wait" => Joins(Again(x))
    BY <1>4, <1>5, <1>7, <1>11 DEF Joins, Refreshes
  <1>13. Exchange
    <2>1. r \notin net'
      BY <1>1, <1>3, <1>5, <1>7, <1>8 DEF Refreshes
    <2>2. ASSUME jar' = jar, jar # 0 PROVE FALSE
      BY <1>2, <2>2, Parts DEF Unclaimed
    <2> QED BY <1>2, <1>8, <1>10, <1>12, <2>1, <2>2 DEF Exchange
  <1>14. \A x \in Tabs : Used(tab[x].token)'
    <2>1. \A x \in Tabs \ {t} : Used(tab[x].token)'
      BY <1>6, <1>10, UsedNumbers, Kept DEF Used
    <2> QED BY <1>4, <1>6, <1>11, <2>1 DEF Used
  <1>15. /\ mixed' \subseteq Tabs /\ out' \subseteq Tabs /\ expired' \subseteq AccessTokens
         /\ acts' \in 0..MaxActs /\ faults' \in 0..MaxFaults /\ wipe' = wipe
    BY <1>1, <1>2, Parts DEF MixedAfter, BrowserTypeOK
  <1>16. /\ BrowserTypeOK' /\ NumbersUsed' /\ WipesExplained'
         /\ \A x \in net' : Unclaimed(x)'
         /\ OneRefresh'
         /\ \A k \in AccessTokens : Explained(k)'
    BY <1>6, <1>13, <1>14, <1>15, ShapeTypes
  <1>17. ASSUME NEW x \in Tabs PROVE OwnPage(x)'
    <2>1. PICK u, n, j : u = tab'[x].who /\ n = tab'[x].token /\ j = jar'
      OBVIOUS
    <2>2. SUFFICES ASSUME u # Nobody, x \notin mixed'
                   PROVE  /\ BelongsTo(n, u)' /\ BelongsTo(j, u)'
                          /\ \A q \in net' : q.tab = x /\ q.live => OwnRequest(q, u)'
      BY <2>1 DEF OwnPage, BelongsTo
    <2>3. x \notin mixed /\ u = tab[x].who
      BY <1>1, <1>3, <1>4, <1>6, <2>1, <2>2 DEF MixedAfter
    <2>4. /\ BelongsTo(tab[x].token, u)
          /\ \A q \in net : q.tab = x /\ q.live => OwnRequest(q, u)
      BY <2>2, <2>3, Parts DEF OwnPage
    <2>5. BelongsTo(r.new, u)
      <3>1. CASE x = t
        BY <1>1, <1>3, <2>4, <3>1 DEF OwnRequest, Refreshes
      <3>2. CASE x # t
        BY <1>1, <1>2, <1>3, <2>2, <2>3, <3>2 DEF MixedAfter, BelongsTo, Owner
      <3> QED BY <3>1, <3>2
    <2>6. BelongsTo(n, u)' /\ BelongsTo(j, u)' /\ BelongsTo(r.new, u)'
      BY <1>1, <1>2, <1>4, <1>6, <2>1, <2>4, <2>5 DEF BelongsTo
    <2>7. \A q \in net : q.tab = x /\ q.live => OwnRequest(q, u)'
      BY <1>1, <2>4 DEF OwnRequest, BelongsTo
    <2>8. OwnRequest(m, u)'
      BY <1>5 DEF OwnRequest, Refreshes
    <2>9. \A y \in net : y.st = "wait" => OwnRequest(Again(y), u)'
      <3>1. SUFFICES ASSUME NEW y \in net, y.st = "wait" PROVE OwnRequest(Again(y), u)'
        OBVIOUS
      <3>2. PICK q : q = Again(y)
        OBVIOUS
      <3>3. ~Refreshes(q) /\ q.tok = r.new /\ q.new = 0
        BY <1>7, <3>1, <3>2 DEF Refreshes
      <3>4. OwnRequest(q, u)'
        BY <2>6, <3>3 DEF OwnRequest, BelongsTo
      <3> QED BY <3>2, <3>4
    <2> QED BY <1>8, <2>6, <2>7, <2>8, <2>9
  <1>18. SignInsOwned'
    <2>1. \A x \in net : x.st = "wait" => Again(x).new = 0
      BY <1>7
    <2> QED BY <1>1, <1>5, <1>8, <2>1, Parts DEF SignInsOwned, BelongsTo
  <1>19. SignedOut' /\ StaysSignedOut'
    <2>1. out = {}
      BY <1>1, Parts DEF SignedOut, Harmless, Refreshes
    <2> QED BY <1>1, <2>1 DEF SignedOut, StaysSignedOut
  <1>20. ProfileOfToken'
    <2>1. h.token \notin {0, tab[t].token} =>
            \E q \in net' : q.tab = t /\ q.kind = "me" /\ q.live /\ q.for = h.token
      BY <1>5
    <2>2. \A q \in net : q.kind = "me" /\ q.live =>
            \E y \in net' : y.tab = q.tab /\ y.kind = "me" /\ y.live /\ y.for = q.for
      BY <1>1, <1>7, <1>9
    <2>3. \/ h.token \notin {0, tab[t].token}
          \/ h.profile = Nobody
          \/ /\ h.token = tab[t].token
             /\ h.profile = tab[t].profile /\ h.profileLost = tab[t].profileLost
             /\ h.profileLate = tab[t].profileLate
      BY <1>3, <1>4
    <2> QED BY <1>3, <1>4, <1>6, <1>10, <1>11, <2>1, <2>2, <2>3, ProfileKept
  <1> QED BY <1>16, <1>17, <1>18, <1>19, <1>20 DEF BrowserIInv

-----------------------------------------------------------------------------
(* A page is loaded anew *)

LoadSends(t, at, u) ==
    {Send(t, "mount", Nobody, 0, 0)} \cup IF at = "magic" THEN {Send(t, "magic", u, 0, 0)} ELSE {}

LEMMA LoadPreserves ==
    ASSUME BrowserIInv, NEW t \in Tabs, NEW at \in {"login", "magic", "app"}, NEW u \in Accounts \cup {Nobody},
           Load(t, at, LoadSends(t, at, u)), UNCHANGED <<jar, expired, wipe>>,
           acts' \in 0..MaxActs, faults' \in 0..MaxFaults,
           out' = {} \/ (out' = out /\ at # "magic")
    PROVE  BrowserIInv'
  <1> DEFINE Gone(r) == [r EXCEPT !.live = FALSE]
             Leaves(r) == r.tab = t /\ r.st # "wait" /\ r.kind \notin Reads \cup {"magic"}
             S == {n \in AccessTokens : \E r \in net : Leaves(r) /\ Rotated(r) /\ r.cookie = n /\ Live(n)}
  <1>1. PICK f, g : f = Send(t, "mount", Nobody, 0, 0) /\ g = Send(t, "magic", u, 0, 0)
    OBVIOUS
  <1>2. /\ f \in Request /\ f.tab = t /\ f.kind = "mount" /\ f.tok = 0 /\ f.cookie = jar
        /\ f.new = 0 /\ f.st = "sent" /\ f.live
    BY <1>1, UsedNumbers, Numbers, KindsAre DEF Send, Request
  <1>3. /\ g \in Request /\ g.tab = t /\ g.kind = "magic" /\ g.tok = 0 /\ g.cookie = jar
        /\ g.new = 0 /\ g.st = "sent" /\ g.live
    BY <1>1, UsedNumbers, Numbers, KindsAre DEF Send, Request
  <1>4. \A q \in net' : \/ q \in net /\ q.tab # t
                        \/ \E r \in net : Leaves(r) /\ q = Gone(r)
                        \/ q = f
                        \/ q = g /\ at = "magic"
    BY <1>1 DEF Load, LoadSends
  <1>5. \A q \in net : q.tab # t => q \in net'
    BY DEF Load
  <1>6. session' = [n \in AccessTokens |-> IF n \in S THEN [session[n] EXCEPT !.lost = TRUE] ELSE session[n]]
    BY DEF Load
  <1>7. mixed' = mixed \ {t} /\ tab' = [tab EXCEPT ![t] = Fresh(at)]
    BY DEF Load
  <1>8. \A r \in net : /\ Gone(r) \in Request /\ Gone(r).tab = r.tab /\ Gone(r).kind = r.kind /\ Gone(r).as = r.as
                       /\ Gone(r).tok = r.tok /\ Gone(r).cookie = r.cookie /\ Gone(r).new = r.new
                       /\ Gone(r).st = r.st /\ Gone(r).ans = r.ans /\ ~Gone(r).live
    BY UsedNumbers DEF Request
  <1> HIDE DEF Gone
  <1>9. \A k \in AccessTokens : (\E r \in net : Leaves(r) /\ Rotated(r) /\ r.cookie = k /\ Live(k)) => k \in S
    OBVIOUS
  <1> HIDE DEF S
  <1>10. /\ session' \in [AccessTokens -> Session] /\ OwnersKept
         /\ \A k \in AccessTokens : NotRotated(k)
         /\ \A k \in AccessTokens : k \in S => session'[k].lost
         /\ \A k \in AccessTokens : session'[k].st = session[k].st
    BY <1>6, NotesLost, Parts
  <1>11. /\ tab' \in [Tabs -> Page] /\ tab'[t].token = 0 /\ tab'[t].who = Nobody /\ tab'[t].profile = Nobody
         /\ \A x \in Tabs \ {t} : tab'[x] = tab[x]
    BY <1>7, FreshFields, TypesOf, Parts
  <1>12. BrowserTypeOK'
    <2>1. net' \subseteq Request
      BY <1>2, <1>3, <1>4, <1>8, UsedNumbers
    <2> QED BY <1>7, <1>10, <1>11, <2>1, Parts DEF BrowserTypeOK
  <1>13. NumbersUsed'
    <2>1. Used(0)' /\ Used(jar)'
      BY <1>10, UsedNumbers, Kept DEF Used
    <2>2. \A x \in Tabs \ {t} : Used(tab[x].token)'
      BY <1>10, <1>11, UsedNumbers, Kept DEF Used
    <2>3. \A x \in Tabs : Used(tab[x].token)'
      BY <1>11, <2>1, <2>2 DEF Used
    <2>4. \A q \in net : Used(q.tok)' /\ Used(q.cookie)' /\ Used(q.new)'
      BY <1>10, UsedNumbers, Kept
    <2>5. \A q \in net' : Used(q.tok)' /\ Used(q.cookie)' /\ Used(q.new)'
      BY <1>2, <1>3, <1>4, <1>8, <2>1, <2>4 DEF Used
    <2> QED BY <2>1, <2>3, <2>5 DEF NumbersUsed
  <1>14. ASSUME NEW q \in net' PROVE Unclaimed(q)'
    <2>1. SUFFICES ASSUME q.new # 0 PROVE Unclaimed(q)'
      BY DEF Unclaimed
    <2>2. PICK b \in net : /\ q.new = b.new /\ q.st = b.st /\ q.ans = b.ans /\ q.kind = b.kind
                           /\ (q = b /\ b.tab # t) \/ (q = Gone(b) /\ b.tab = t)
      BY <1>2, <1>3, <1>4, <1>8, <2>1
    <2>3. /\ b.st = "back" /\ b.ans = "ok" /\ \A x \in net : x.new = b.new => x = b
          /\ SetsCookie(b) => /\ jar # b.new /\ \A x \in net : x.cookie # b.new
                              /\ session[b.new].st # "rotated"
      BY <2>1, <2>2, Parts DEF Unclaimed
    <2>4. \A x \in net' : x.new = q.new => x = q
      <3>1. SUFFICES ASSUME NEW x \in net', x.new = q.new PROVE x = q
        OBVIOUS
      <3>2. PICK c \in net : /\ x.new = c.new
                             /\ (x = c /\ c.tab # t) \/ (x = Gone(c) /\ c.tab = t)
        BY <1>2, <1>3, <1>4, <1>8, <2>1, <3>1
      <3>3. c = b
        BY <2>2, <2>3, <3>1, <3>2
      <3> QED BY <2>2, <3>2, <3>3
    <2>5. ASSUME SetsCookie(q)
          PROVE  jar # q.new /\ (\A x \in net' : x.cookie # q.new) /\ session'[q.new].st # "rotated"
      <3>1. SetsCookie(b) /\ q.new \in AccessTokens
        BY <2>1, <2>2, <2>5, UsedNumbers, Numbers DEF SetsCookie
      <3>2. \A x \in net' : x.cookie = jar \/ \E c \in net : x.cookie = c.cookie
        BY <1>2, <1>3, <1>4, <1>8
      <3> QED BY <1>10, <2>2, <2>3, <3>1, <3>2
    <2> QED BY <2>1, <2>2, <2>3, <2>4, <2>5 DEF Unclaimed
  <1>15. OneRefresh'
    <2>1. SUFFICES ASSUME NEW x \in net', Refreshes(x)
                   PROVE  /\ x.st # "wait"
                          /\ \A q \in net' : x.live /\ q.live /\ q.tab = x.tab /\ q.kind = x.kind => q = x
      BY DEF OneRefresh
    <2>2. x.st # "wait"
      BY <1>2, <1>3, <1>4, <1>8, <2>1, Parts DEF OneRefresh
    <2>3. ASSUME NEW q \in net', x.live, q.live, q.tab = x.tab, q.kind = x.kind PROVE q = x
      <3>1. (x \in net /\ x.tab # t) \/ x = f \/ x = g
        BY <1>4, <1>8, <2>3
      <3>2. (q \in net /\ q.tab # t) \/ q = f \/ q = g
        BY <1>4, <1>8, <2>3
      <3>3. x # g /\ q # g
        BY <1>3, <2>1, <2>3 DEF Refreshes
      <3> QED BY <1>2, <2>1, <2>3, <3>1, <3>2, <3>3, Parts DEF OneRefresh
    <2> QED BY <2>2, <2>3
  <1>16. ASSUME NEW k \in AccessTokens PROVE Explained(k)'
    <2>1. SUFFICES ASSUME session'[k].st = "rotated" PROVE Explained(k)'
      BY DEF Explained
    <2>2. /\ session[k].st = "rotated" /\ k # 0
          /\ session'[k].by = session[k].by /\ session'[k].from = session[k].from
          /\ session[k].lost => session'[k].lost
      BY <1>10, <2>1, Numbers DEF NotRotated
    <2>3. Explained(k)
      BY Parts
    <2>4. SUFFICES ASSUME ~session'[k].lost
                   PROVE  /\ jar = k => \E q \in net' : /\ Rotated(q) /\ q.live /\ q.cookie = k
                                                        /\ q.tab = session[k].from /\ q.kind = session[k].by
                          /\ \A x \in net' : /\ x.live /\ x.cookie = k
                                             /\ x.tab = session[k].from /\ x.kind = session[k].by
                                             => Rotated(x)
      BY <2>2, <2>3 DEF Explained
    <2>5. /\ session[k].by \in {"mount", "refresh"}
          /\ jar = k => \E q \in net : /\ Rotated(q) /\ q.live /\ q.cookie = k
                                       /\ q.tab = session[k].from /\ q.kind = session[k].by
          /\ \A x \in net : /\ x.live /\ x.cookie = k
                            /\ x.tab = session[k].from /\ x.kind = session[k].by
                            => Rotated(x)
      BY <2>2, <2>3, <2>4 DEF Explained
    <2>6. \A q \in net : Rotated(q) /\ q.cookie = k => q.tab # t
      <3>1. SUFFICES ASSUME NEW q \in net, Rotated(q), q.cookie = k, q.tab = t PROVE FALSE
        OBVIOUS
      <3>2. Leaves(q)
        BY <3>1 DEF Rotated, Refreshes, Reads
      <3>3. Live(k)
        BY <2>2 DEF Live
      <3> QED BY <1>9, <1>10, <2>4, <3>1, <3>2, <3>3
    <2>7. jar = k => session[k].from # t
      BY <2>5, <2>6
    <2>8. jar = k => \E q \in net' : /\ Rotated(q) /\ q.live /\ q.cookie = k
                                     /\ q.tab = session[k].from /\ q.kind = session[k].by
      BY <1>5, <2>5, <2>6
    <2>9. \A x \in net' : /\ x.live /\ x.cookie = k
                          /\ x.tab = session[k].from /\ x.kind = session[k].by
                          => Rotated(x)
      BY <1>2, <1>3, <1>4, <1>8, <2>5, <2>7
    <2> QED BY <2>8, <2>9
  <1>17. WipesExplained'
    BY Parts DEF WipesExplained
  <1>18. ASSUME NEW x \in Tabs PROVE OwnPage(x)'
    <2>1. PICK w, n : w = tab'[x].who /\ n = tab'[x].token
      OBVIOUS
    <2>2. SUFFICES ASSUME w # Nobody, x \notin mixed'
                   PROVE  /\ BelongsTo(n, w)' /\ BelongsTo(jar, w)'
                          /\ \A q \in net' : q.tab = x /\ q.live => OwnRequest(q, w)'
      BY <2>1 DEF OwnPage, BelongsTo
    <2>3. x # t /\ w = tab[x].who /\ n = tab[x].token /\ x \notin mixed
      BY <1>7, <1>11, <2>1, <2>2
    <2>4. /\ BelongsTo(n, w) /\ BelongsTo(jar, w)
          /\ \A q \in net : q.tab = x /\ q.live => OwnRequest(q, w)
      BY <2>2, <2>3, Parts DEF OwnPage
    <2>5. BelongsTo(n, w)' /\ BelongsTo(jar, w)'
      BY <1>10, <2>3, <2>4, UsedNumbers, Kept DEF BelongsTo
    <2>6. \A q \in net : q.tab = x /\ q.live => OwnRequest(q, w)'
      <3>1. \A q \in net : /\ BelongsTo(q.cookie, w) => BelongsTo(q.cookie, w)'
                           /\ BelongsTo(q.tok, w) => BelongsTo(q.tok, w)'
                           /\ BelongsTo(q.new, w) => BelongsTo(q.new, w)'
        BY <1>10, UsedNumbers, Kept
      <3> QED BY <2>4, <3>1 DEF OwnRequest
    <2>7. \A q \in net' : q.tab = x => q \in net
      BY <1>2, <1>3, <1>4, <1>8, <2>3
    <2> QED BY <2>5, <2>6, <2>7
  <1>19. SignInsOwned'
    <2>1. \A q \in net : q.kind \in {"login", "magic"} => BelongsTo(q.new, q.as)'
      BY <1>10, Parts, UsedNumbers, Kept DEF SignInsOwned
    <2> QED BY <1>2, <1>3, <1>4, <1>8, <2>1 DEF SignInsOwned, BelongsTo
  <1>20. SignedOut' /\ StaysSignedOut'
    <2>1. SUFFICES ASSUME out # {}, out' = out, at # "magic" PROVE SignedOut' /\ StaysSignedOut'
      BY DEF SignedOut, StaysSignedOut
    <2>2. jar = 0 /\ (\A x \in out : tab[x].token = 0) /\ \A q \in net : Harmless(q)
      BY <2>1, Parts DEF SignedOut, StaysSignedOut
    <2>3. \A q \in net' : Harmless(q)
      BY <1>2, <1>4, <1>8, <2>1, <2>2 DEF Harmless, Refreshes
    <2>4. \A x \in out : tab'[x].token = 0
      BY <1>11, <2>2, Parts DEF BrowserTypeOK
    <2> QED BY <2>1, <2>2, <2>3, <2>4 DEF SignedOut, StaysSignedOut
  <1>21. ProfileOfToken'
    <2>1. SUFFICES ASSUME NEW x \in Tabs \ {t},
                          tab[x].profile # Nobody, ~tab[x].profileLost, ~tab[x].profileLate,
                          \A r \in InFlight(x, {"me"})' : r.for # tab[x].token
                   PROVE  tab[x].profile = Owner(tab[x].token)'
      BY <1>11 DEF ProfileOfToken, Owner
    <2>2. \A r \in InFlight(x, {"me"}) : r.for # tab[x].token
      BY <1>5, <2>1 DEF InFlight
    <2>3. tab[x].profile = Owner(tab[x].token)
      BY <2>1, <2>2, Parts DEF ProfileOfToken
    <2>4. Owner(tab[x].token)' = Owner(tab[x].token)
      BY <1>10, <1>11, <2>1, UsedNumbers, Kept DEF Owner
    <2> QED BY <2>3, <2>4
  <1> QED BY <1>12, <1>13, <1>14, <1>15, <1>16, <1>17, <1>18, <1>19, <1>20, <1>21 DEF BrowserIInv

-----------------------------------------------------------------------------
(* Theorems about the browser *)

LEMMA BrowserInitOK == BrowserInit => BrowserIInv
  <1> SUFFICES ASSUME BrowserInit PROVE BrowserIInv
    OBVIOUS
  <1>1. /\ jar \in {0, 1} /\ (jar = 1 => MaxTokens > 0) /\ MaxTokens \in Nat
        /\ session = [n \in AccessTokens |-> IF n = jar THEN NewRow("active", Visitor) ELSE NewRow("none", Nobody)]
        /\ expired = {} /\ tab = [t \in Tabs |-> Fresh("app")]
        /\ net = {Send(t, "mount", Nobody, 0, 0) : t \in Tabs}
        /\ acts = 0 /\ faults = 0 /\ out = {} /\ mixed = {} /\ wipe = {}
    BY BrowserAssumption DEF BrowserInit
  <1>2. jar \in Token0 /\ (jar # 0 => jar \in AccessTokens) /\ 0 \in Token0
    BY <1>1, Numbers DEF Token0, AccessTokens
  <1>3. \A q \in net : /\ q \in Request /\ q.kind = "mount" /\ q.tok = 0 /\ q.cookie = jar
                       /\ q.new = 0 /\ q.st = "sent" /\ q.tab \in Tabs
    <2>1. ASSUME NEW q \in net
          PROVE  /\ q \in Request /\ q.kind = "mount" /\ q.tok = 0 /\ q.cookie = jar
                 /\ q.new = 0 /\ q.st = "sent" /\ q.tab \in Tabs
      <3>1. PICK t \in Tabs : q = Send(t, "mount", Nobody, 0, 0)
        BY <1>1, <2>1
      <3>2. PICK kind \in Kinds, as \in Accounts \cup {Nobody} : kind = "mount" /\ as = Nobody
        BY KindsAre
      <3>3. 0 \in Token0
        BY Numbers
      <3> QED BY <1>2, <3>1, <3>2, <3>3, SendFields
    <2> QED BY <2>1
  <1>4. \A q, r \in net : q.tab = r.tab => q = r
    <2>1. ASSUME NEW q \in net, NEW r \in net, q.tab = r.tab PROVE q = r
      <3>1. PICK t \in Tabs : q = Send(t, "mount", Nobody, 0, 0)
        BY <1>1
      <3>2. PICK u \in Tabs : r = Send(u, "mount", Nobody, 0, 0)
        BY <1>1
      <3>3. q.tab = t /\ r.tab = u
        BY <3>1, <3>2 DEF Send
      <3> QED BY <2>1, <3>1, <3>2, <3>3
    <2> QED BY <2>1
  <1>5. /\ session \in [AccessTokens -> Session]
        /\ \A n \in AccessTokens : session[n].st = IF n = jar THEN "active" ELSE "none"
    <2>1. /\ NewRow("active", Visitor) \in Session /\ NewRow("active", Visitor).st = "active"
          /\ NewRow("none", Nobody) \in Session /\ NewRow("none", Nobody).st = "none"
      BY BrowserAssumption, RowFields
    <2> QED BY <1>1, <2>1
  <1>6. /\ tab \in [Tabs -> Page]
        /\ \A t \in Tabs : tab[t].token = 0 /\ tab[t].who = Nobody /\ tab[t].profile = Nobody
    <2>1. /\ Fresh("app") \in Page
          /\ Fresh("app").token = 0 /\ Fresh("app").who = Nobody /\ Fresh("app").profile = Nobody
      BY FreshFields
    <2> QED BY <1>1, <2>1
  <1>7. BrowserTypeOK
    <2>1. 0 \in 0..MaxActs /\ 0 \in 0..MaxFaults
      BY BrowserAssumption
    <2> QED BY <1>1, <1>2, <1>3, <1>5, <1>6, <2>1 DEF BrowserTypeOK
  <1>8. NumbersUsed
    BY <1>2, <1>3, <1>5, <1>6 DEF NumbersUsed, Used
  <1>9. (\A q \in net : Unclaimed(q)) /\ SignInsOwned
    BY <1>3 DEF Unclaimed, SignInsOwned, BelongsTo
  <1>10. OneRefresh
    BY <1>3, <1>4 DEF OneRefresh
  <1>11. \A n \in AccessTokens : Explained(n)
    BY <1>5 DEF Explained
  <1>12. (\A t \in Tabs : OwnPage(t)) /\ ProfileOfToken
    BY <1>6 DEF OwnPage, ProfileOfToken
  <1>13. WipesExplained /\ SignedOut /\ StaysSignedOut
    BY <1>1 DEF WipesExplained, SignedOut, StaysSignedOut
  <1> QED BY <1>7, <1>8, <1>9, <1>10, <1>11, <1>12, <1>13 DEF BrowserIInv

LEMMA OpenPreserves ==
    ASSUME BrowserIInv, NEW t \in Tabs, NEW at \in {"login", "magic", "app"},
           NEW u \in Accounts \cup {Nobody}, Open(t, at, u)
    PROVE  BrowserIInv'
  <1>1. /\ Load(t, at, LoadSends(t, at, u)) /\ UNCHANGED <<jar, expired, wipe>>
        /\ out' = {} \/ (out' = out /\ at # "magic")
    BY DEF Open, LoadSends
  <1>2. acts' \in 0..MaxActs /\ faults' \in 0..MaxFaults
    BY ActType, Parts DEF Open, BrowserTypeOK
  <1> QED BY <1>1, <1>2, LoadPreserves

LEMMA RefreshFailedPreserves == ASSUME BrowserIInv, NEW r \in net, RefreshFailed(r) PROVE BrowserIInv'
  <1>1. PICK t \in Tabs, at \in {"login", "magic", "app"}, u \in Accounts \cup {Nobody} :
          t = r.tab /\ at = "login" /\ u = Nobody
    BY UsedNumbers
  <1>2. Load(t, at, LoadSends(t, at, u)) /\ UNCHANGED <<jar, expired, acts, faults, out, wipe>>
    BY <1>1 DEF RefreshFailed, LoadSends
  <1>3. acts' \in 0..MaxActs /\ faults' \in 0..MaxFaults /\ out' = out /\ at # "magic"
    BY <1>1, <1>2, Parts DEF BrowserTypeOK
  <1> QED BY <1>2, <1>3, LoadPreserves

LEMMA DeliverPreserves == ASSUME BrowserIInv, NEW r \in net, Deliver(r) PROVE BrowserIInv'
  <1>1. CASE Back(r) /\ (Finish(r, r) \/ Intercept(r, r)) /\ UNCHANGED <<session, faults>>
    <2>1. AnswerOf(r, r)
      BY <1>1, UsedNumbers DEF AnswerOf, Back
    <2>2. /\ session' = session /\ faults' \in 0..MaxFaults
          /\ session' \in [AccessTokens -> Session] /\ OwnersKept /\ \A k \in AccessTokens : NotRotated(k)
      BY <1>1, AllKept, Parts DEF BrowserTypeOK
    <2> QED BY <1>1, <2>1, <2>2, FinishPreserves, InterceptPreserves
  <1>2. CASE DeliverRead(r)
    BY <1>2, ReadPreserves
  <1>3. CASE Stray(r)
    BY <1>3, StrayPreserves
  <1>4. CASE RefreshDone(r)
    BY <1>4, RefreshDonePreserves
  <1>5. CASE RefreshFailed(r)
    BY <1>5, RefreshFailedPreserves
  <1> QED BY <1>1, <1>2, <1>3, <1>4, <1>5 DEF Deliver

LEMMA BrowserStep == ASSUME BrowserIInv, [BrowserNext]_browserVars PROVE BrowserIInv'
  <1>1. ASSUME NEW t \in Tabs, Person(t) PROVE BrowserIInv'
    <2>1. ASSUME NEW at \in {"login", "app"}, Open(t, at, Nobody) PROVE BrowserIInv'
      BY <2>1, OpenPreserves
    <2>2. ASSUME NEW u \in Accounts, Open(t, "magic", u) PROVE BrowserIInv'
      BY <2>2, OpenPreserves
    <2> QED BY <1>1, <2>1, <2>2, FormsPreserve DEF Person
  <1>2. ASSUME NEW t \in Tabs, Progress(t) PROVE BrowserIInv'
    BY <1>2, ServePreserves, DeliverPreserves DEF Progress
  <1>3. ASSUME NEW r \in net, Lose(r) PROVE BrowserIInv'
    BY <1>3, LosePreserves
  <1>4. ASSUME NEW n \in AccessTokens, ExpireToken(n) \/ EndSession(n) PROVE BrowserIInv'
    BY <1>4, EndingPreserves
  <1>5. CASE UNCHANGED browserVars
    <2>1. UNCHANGED <<jar, session, expired, tab, net, acts, faults, out, mixed, wipe>>
      BY <1>5 DEF browserVars
    <2>2. /\ BrowserTypeOK' /\ NumbersUsed' /\ (\A r \in net' : Unclaimed(r)') /\ OneRefresh'
          /\ (\A n \in AccessTokens : Explained(n)') /\ WipesExplained'
      BY <2>1, Parts DEF BrowserTypeOK, NumbersUsed, Used, Unclaimed, OneRefresh, Explained, WipesExplained
    <2>3. /\ (\A t \in Tabs : OwnPage(t)') /\ SignInsOwned' /\ SignedOut' /\ StaysSignedOut'
      BY <2>1, Parts DEF OwnPage, OwnRequest, BelongsTo, SignInsOwned, SignedOut, StaysSignedOut
    <2>4. ProfileOfToken'
      BY <2>1, Parts DEF ProfileOfToken, Owner, InFlight
    <2> QED BY <2>2, <2>3, <2>4 DEF BrowserIInv
  <1> QED BY <1>1, <1>2, <1>3, <1>4, <1>5 DEF BrowserNext

\* The inductive invariant of the browser.
THEOREM BrowserInvariance == BrowserSpec => []BrowserIInv
  BY BrowserInitOK, BrowserStep, PTL DEF BrowserSpec

\* When the server takes the browser for a thief, an answer was lost, two tabs
\* refreshed at once, or the refresh of a page load overlapped one under the
\* lock (api/client.ts, AuthContext.tsx), for any number of tabs.
THEOREM WipesExplainedHolds == BrowserSpec => []WipesExplained
  <1>1. BrowserIInv => WipesExplained
    BY DEF BrowserIInv
  <1> QED BY <1>1, BrowserInvariance, PTL

\* Every refresh gives a page that is not mixed a token of whoever signed in
\* on it (AuthContext.tsx, MagicLandingPage.tsx).
THEOREM SignedInAsHolds == BrowserSpec => []SignedInAs
  <1>1. BrowserIInv => SignedInAs
    BY DEF BrowserIInv, OwnPage, SignedInAs, BelongsTo, Owner
  <1> QED BY <1>1, BrowserInvariance, PTL

\* After a logout with no other session request in flight there is neither
\* cookie nor token until somebody signs in (AuthContext.tsx).
THEOREM StaysSignedOutHolds == BrowserSpec => []StaysSignedOut
  <1>1. BrowserIInv => StaysSignedOut
    BY DEF BrowserIInv
  <1> QED BY <1>1, BrowserInvariance, PTL

-----------------------------------------------------------------------------
(* Nobody waits for what will not come *)

Refreshing(t, kind) == \E q \in net : q.tab = t /\ q.live /\ q.kind = kind
Queued(t) == \E q \in net : q.tab = t /\ q.live /\ q.st = "wait"
Served(t) == /\ tab[t].loading => Refreshing(t, "mount")
             /\ Queued(t) => Refreshing(t, "refresh")

LEMMA StrandedIs == NobodyStranded <=> \A t \in Tabs : Served(t)
  BY DEF NobodyStranded, Served, Refreshing, Queued, InFlight, Waiting

LEMMA StrandedIsNext == ASSUME \A t \in Tabs : Served(t)' PROVE NobodyStranded'
  BY DEF NobodyStranded, Served, Refreshing, Queued, InFlight, Waiting

\* A step that leaves a page its refreshes and adds nobody to its queue.
LEMMA ServedStays ==
    ASSUME NEW t \in Tabs, Served(t),
           tab'[t].loading => tab[t].loading,
           \A q \in net : q.tab = t /\ q.live /\ Refreshes(q) =>
             \E y \in net' : y.tab = t /\ y.live /\ y.kind = q.kind,
           \A y \in net' : y.tab = t /\ y.live /\ y.st = "wait" => Queued(t)
    PROVE  Served(t)'
  BY DEF Served, Refreshing, Queued, Refreshes

\* One request takes the place of another.
LEMMA ServedBy ==
    ASSUME NobodyStranded, NEW s \in net, NEW a, net' = (net \ {s}) \cup {a}, tab' = tab,
           a.tab = s.tab, a.live = s.live, a.kind = s.kind, a.st # "wait"
    PROVE  NobodyStranded'
  <1>1. ASSUME NEW t \in Tabs PROVE Served(t)'
    <2>1. \A q \in net : q.tab = t /\ q.live => \E y \in net' : y.tab = t /\ y.live /\ y.kind = q.kind
      OBVIOUS
    <2>2. \A y \in net' : y.tab = t /\ y.live /\ y.st = "wait" => Queued(t)
      BY DEF Queued
    <2> QED BY <1>1, <2>1, <2>2, ServedStays, StrandedIs
  <1> QED BY <1>1, StrandedIsNext

LEMMA ServeStrands == ASSUME BrowserIInv, NobodyStranded, NEW r \in net, Serve(r) PROVE NobodyStranded'
  <1>1. tab' = tab /\ \E ans \in {"ok", "401", "error"}, n \in Token0 : net' = Answered(r, ans, n)
    BY Numbers DEF Serve, ServeRefresh, ServeSignIn, ServePassword, ServeLogout, ServeError, Unused
  <1>2. PICK ans \in {"ok", "401", "error"}, n \in Token0 : net' = Answered(r, ans, n)
    BY <1>1
  <1>3. PICK a : a = AnswerTo(r, ans, n)
    OBVIOUS
  <1>4. a.tab = r.tab /\ a.live = r.live /\ a.kind = r.kind /\ a.st = "back"
    BY <1>3, UsedNumbers, Numbers DEF AnswerTo, Request
  <1>5. CASE net' = (net \ {r}) \cup {a}
    BY <1>1, <1>4, <1>5, ServedBy
  <1>6. CASE net' = net \ {r} /\ ~r.live
    BY <1>1, <1>6 DEF NobodyStranded, InFlight, Waiting
  <1>7. net' = (net \ {r}) \cup {a} \/ (net' = net \ {r} /\ ~r.live)
    BY <1>2, <1>3 DEF Answered, AnswerTo
  <1> QED BY <1>5, <1>6, <1>7

LEMMA LoseStrands == ASSUME BrowserIInv, NobodyStranded, NEW r \in net, Lose(r) PROVE NobodyStranded'
  <1>1. PICK a : a = [r EXCEPT !.ans = "error", !.new = 0, !.cookie = 0]
    OBVIOUS
  <1>2. a.tab = r.tab /\ a.live = r.live /\ a.kind = r.kind /\ a.st = "back"
    BY <1>1, UsedNumbers DEF Request, Lose, Back
  <1>3. net' = (net \ {r}) \cup {a} /\ tab' = tab
    BY <1>1 DEF Lose
  <1> QED BY <1>2, <1>3, ServedBy

LEMMA SendStrands ==
    ASSUME NobodyStranded, NEW q, net' = net \cup {q}, tab' = tab, q.st = "sent"
    PROVE  NobodyStranded'
  <1>1. ASSUME NEW t \in Tabs PROVE Served(t)'
    <2>1. \A y \in net' : y.tab = t /\ y.live /\ y.st = "wait" => Queued(t)
      BY DEF Queued
    <2> QED BY <1>1, <2>1, ServedStays, StrandedIs
  <1> QED BY <1>1, StrandedIsNext

LEMMA FormsStrand ==
    ASSUME BrowserIInv, NobodyStranded, NEW t \in Tabs,
           \/ \E u \in Accounts : SubmitLogin(t, u)
           \/ \E n \in Token0 : Call(t, n)
           \/ SaveProfile(t) \/ SubmitPassword(t) \/ Logout(t)
    PROVE  NobodyStranded'
  <1>1. PICK kind, as, for, q, b :
          /\ b = Send(t, kind, as, for, tab[t].token)
          /\ q \in {b, [b EXCEPT !.cookie = 0]}
          /\ net' = net \cup {q} /\ tab' = tab
    BY DEF SubmitLogin, Call, SaveProfile, SubmitPassword, Logout, Ask
  <1>2. b.st = "sent" /\ [b EXCEPT !.cookie = 0].st = "sent"
    BY <1>1 DEF Send
  <1> QED BY <1>1, <1>2, SendStrands

LEMMA InterceptStrands ==
    ASSUME BrowserIInv, NobodyStranded, NEW s \in net, NEW r, AnswerOf(r, s), Intercept(s, r)
    PROVE  NobodyStranded'
  <1>1. PICK f, w : /\ f = Send(r.tab, "refresh", Nobody, 0, 0)
                    /\ w = [r EXCEPT !.st = "wait", !.retry = TRUE, !.ans = "ok"]
    OBVIOUS
  <1>2. /\ ~Refreshes(s) /\ r.tab = s.tab /\ tab' = tab
        /\ net' = (net \ {s}) \cup {w} \cup IF LockFree(r.tab) THEN {f} ELSE {}
    BY <1>1 DEF Intercept, Intercepted, AnswerOf, Refreshes
  <1>3. w.tab = s.tab /\ w.st = "wait"
    BY <1>1, <1>2 DEF AnswerOf, Request
  <1>4. f.tab = s.tab /\ f.kind = "refresh" /\ f.live /\ f.st = "sent"
    BY <1>1, <1>2 DEF Send
  <1>5. ASSUME NEW t \in Tabs PROVE Served(t)'
    <2>1. \A q \in net : Refreshes(q) => q \in net'
      BY <1>2
    <2>2. CASE t # s.tab
      <3>1. \A y \in net' : y.tab = t /\ y.live /\ y.st = "wait" => Queued(t)
        BY <1>2, <1>3, <1>4, <2>2 DEF Queued
      <3> QED BY <1>2, <2>1, <3>1, ServedStays, StrandedIs
    <2>3. CASE t = s.tab
      <3>1. tab[t].loading => Refreshing(t, "mount")'
        BY <2>1, StrandedIs DEF Served, Refreshing, Refreshes
      <3>2. Refreshing(t, "refresh")'
        <4>1. CASE LockFree(r.tab)
          BY <1>2, <1>4, <2>3, <4>1 DEF Refreshing
        <4>2. CASE ~LockFree(r.tab)
          BY <1>2, <2>1, <2>3, <4>2 DEF LockFree, InFlight, Refreshing, Refreshes
        <4> QED BY <4>1, <4>2
      <3> QED BY <1>2, <3>1, <3>2 DEF Served
    <2> QED BY <2>2, <2>3
  <1> QED BY <1>5, StrandedIsNext

LEMMA LoadingFields ==
    ASSUME NEW p \in Page, NEW r \in Request
    PROVE  /\ Settled(p).loading = p.loading
           /\ WithToken(p, r.new).loading = p.loading
           /\ Handled(p, r).loading = IF r.kind = "mount" THEN FALSE ELSE p.loading
  <1>1. r.new \in Token0 /\ 0 \in Token0
    BY Numbers DEF Request
  <1>2. \A n \in Token0 : WithToken(p, n) \in Page /\ WithToken(p, n).loading = p.loading
    BY DEF WithToken, Page
  <1>3. Settled(p).loading = p.loading
    BY DEF Settled, Page
  <1>4. Handled(p, r).loading = IF r.kind = "mount" THEN FALSE ELSE p.loading
    <2>1. CASE r.kind = "mount"
      <3>1. PICK w \in Page : Handled(p, r) = [w EXCEPT !.loading = FALSE]
        BY <1>1, <1>2, <2>1 DEF Handled, Mounted
      <3> QED BY <2>1, <3>1 DEF Page
    <2>2. CASE r.kind = "me"
      <3>1. Handled(p, r) = Profiled(p, r)
        BY <2>2 DEF Handled
      <3>2. \/ Handled(p, r) = p
            \/ Handled(p, r) = [p EXCEPT !.profile = Owner(r.for), !.profileLost = FALSE, !.profileLate = FALSE]
            \/ Handled(p, r) = [p EXCEPT !.profileLost = TRUE]
        BY <3>1 DEF Profiled
      <3> QED BY <2>2, <3>2 DEF Page
    <2>3. CASE r.kind \in {"login", "magic"} /\ r.ans = "ok"
      <3>1. PICK w \in Page : /\ w.loading = p.loading
                              /\ Handled(p, r) = [w EXCEPT !.at = "app", !.who = r.as]
        BY <1>1, <1>2, <2>3 DEF Handled, SignedIn
      <3> QED BY <2>3, <3>1 DEF Page
    <2>4. CASE r.kind = "logout"
      <3>1. PICK w \in Page : /\ w.loading = p.loading
                              /\ Handled(p, r) = [w EXCEPT !.profile = Nobody, !.who = Nobody]
        BY <1>1, <1>2, <2>4 DEF Handled
      <3> QED BY <2>4, <3>1 DEF Page
    <2>5. CASE r.kind = "profile" /\ r.ans = "ok"
      BY <2>5 DEF Handled, Reprofiled, Page
    <2>6. CASE /\ r.kind \notin {"mount", "me", "logout"} /\ ~(r.kind \in {"login", "magic"} /\ r.ans = "ok")
               /\ ~(r.kind = "profile" /\ r.ans = "ok")
      <3>1. Handled(p, r) = p \/ Handled(p, r) = WithToken(p, r.new)
        BY <2>6 DEF Handled
      <3> QED BY <1>1, <1>2, <2>6, <3>1
    <2> QED BY <2>1, <2>2, <2>3, <2>4, <2>5, <2>6
  <1> QED BY <1>1, <1>2, <1>3, <1>4

\* What Show leaves of a page's wait.
LEMMA ShowStrands ==
    ASSUME BrowserIInv, NEW t \in Tabs, NEW h \in Page, NEW R, Show(t, h, R)
    PROVE  /\ tab'[t].loading = h.loading
           /\ \A x \in Tabs \ {t} : tab'[x] = tab[x]
           /\ \A q \in R : q \in net'
           /\ \A q \in net' : q \in R \/ q.st = "sent"
  <1>1. PICK b, m, d : /\ b = Send(t, "me", Nobody, h.token, h.token)
                       /\ m = [b EXCEPT !.cookie = 0] /\ d = Settled(h)
    OBVIOUS
  <1>2. m.st = "sent"
    BY <1>1 DEF Send
  <1>3. d.loading = h.loading
    BY <1>1 DEF Settled, Page
  <1>4. /\ \A q \in R : q \in net'
        /\ \A q \in net' : q \in R \/ q = m
        /\ tab' = [tab EXCEPT ![t] = d]
    BY <1>1 DEF Show
  <1> QED BY <1>2, <1>3, <1>4, Parts DEF BrowserTypeOK

LEMMA FinishStrands ==
    ASSUME BrowserIInv, NobodyStranded, NEW s \in net, NEW r, AnswerOf(r, s), Finish(s, r)
    PROVE  NobodyStranded'
  <1>1. r.kind # "refresh" /\ Show(r.tab, Handled(tab[r.tab], r), (net \ {s}) \cup Follows(r))
    BY DEF Finish
  <1>f. \A q \in Follows(r) : q.st = "sent"
    BY DEF Follows, Ask, Send
  <1>2. r \in Request /\ r.tab \in Tabs /\ r.kind = s.kind /\ r.tab = s.tab
    BY UsedNumbers DEF AnswerOf
  <1>3. PICK p, h : p \in Page /\ p = tab[r.tab] /\ h = Handled(p, r)
    BY <1>2, UsedNumbers
  <1>4. h \in Page /\ h.loading = IF r.kind = "mount" THEN FALSE ELSE p.loading
    BY <1>2, <1>3, HandledFields, LoadingFields, Parts
  <1>5. /\ tab'[r.tab].loading = h.loading
        /\ \A x \in Tabs \ {r.tab} : tab'[x] = tab[x]
        /\ \A q \in net \ {s} : q \in net'
        /\ \A q \in net' : q \in net \/ q.st = "sent"
    <2>1. PICK R : R = (net \ {s}) \cup Follows(r)
      OBVIOUS
    <2>2. Show(r.tab, h, R)
      BY <1>1, <1>3, <2>1
    <2>3. /\ tab'[r.tab].loading = h.loading
          /\ \A x \in Tabs \ {r.tab} : tab'[x] = tab[x]
          /\ \A q \in R : q \in net'
          /\ \A q \in net' : q \in R \/ q.st = "sent"
      BY <1>2, <1>4, <2>2, ShowStrands
    <2> QED BY <1>f, <2>1, <2>3
  <1>6. ASSUME NEW t \in Tabs PROVE Served(t)'
    <2>1. tab'[t].loading => tab[t].loading /\ (t = s.tab => s.kind # "mount")
      BY <1>2, <1>3, <1>4, <1>5
    <2>2. Queued(t)' => Queued(t)
      BY <1>5 DEF Queued
    <2>3. /\ tab'[t].loading => Refreshing(t, "mount")'
          /\ Queued(t)' => Refreshing(t, "refresh")'
      BY <1>1, <1>2, <1>5, <2>1, <2>2, StrandedIs DEF Served, Refreshing
    <2> QED BY <2>3 DEF Served
  <1> QED BY <1>6, StrandedIsNext

LEMMA RefreshDoneStrands ==
    ASSUME BrowserIInv, NobodyStranded, NEW r \in net, RefreshDone(r) PROVE NobodyStranded'
  <1>1. /\ r.kind = "refresh"
        /\ Show(r.tab, WithToken(tab[r.tab], r.new),
                ((net \ {r}) \ Waiting(r.tab)) \cup Resend(r.tab, r.new, r.new))
    BY DEF RefreshDone
  <1>2. r \in Request /\ r.tab \in Tabs /\ r.new \in Token0
    BY UsedNumbers
  <1>3. PICK p, h, R : /\ p \in Page /\ p = tab[r.tab] /\ h = WithToken(p, r.new)
                       /\ R = ((net \ {r}) \ Waiting(r.tab)) \cup Resend(r.tab, r.new, r.new)
    BY <1>2, UsedNumbers
  <1>4. h \in Page /\ h.loading = p.loading
    BY <1>2, <1>3, LoadingFields, WithTokenFields
  <1>5. /\ tab'[r.tab].loading = h.loading
        /\ \A x \in Tabs \ {r.tab} : tab'[x] = tab[x]
        /\ \A q \in R : q \in net'
        /\ \A q \in net' : q \in R \/ q.st = "sent"
    BY <1>1, <1>2, <1>3, <1>4, ShowStrands
  <1>6. \A q \in Resend(r.tab, r.new, r.new) : q.st = "sent"
    BY UsedNumbers DEF Resend, Waiting, Request
  <1>7. \A q \in net : Refreshes(q) /\ q # r => q \in net'
    BY <1>3, <1>5, Parts DEF OneRefresh, Waiting
  <1>8. \A q \in net' : q.st = "wait" => q \in net /\ ~(q.tab = r.tab /\ q.live)
    BY <1>3, <1>5, <1>6 DEF Waiting
  <1>9. ASSUME NEW t \in Tabs PROVE Served(t)'
    <2>1. tab'[t].loading = tab[t].loading
      BY <1>3, <1>4, <1>5
    <2>2. tab'[t].loading => Refreshing(t, "mount")'
      BY <1>1, <1>7, <2>1, StrandedIs DEF Served, Refreshing, Refreshes
    <2>3. Queued(t)' => Refreshing(t, "refresh")'
      BY <1>7, <1>8, StrandedIs DEF Served, Queued, Refreshing, Refreshes
    <2> QED BY <2>2, <2>3 DEF Served
  <1> QED BY <1>9, StrandedIsNext

\* A page that is loaded has the refresh of its mount and waits for no other.
LEMMA LoadStrands ==
    ASSUME BrowserIInv, NobodyStranded, NEW t \in Tabs, NEW at \in {"login", "magic", "app"},
           NEW u \in Accounts \cup {Nobody}, Load(t, at, LoadSends(t, at, u))
    PROVE  NobodyStranded'
  <1>1. PICK f, g : f = Send(t, "mount", Nobody, 0, 0) /\ g = Send(t, "magic", u, 0, 0)
    OBVIOUS
  <1>2. f.tab = t /\ f.kind = "mount" /\ f.live /\ f.st = "sent" /\ g.tab = t /\ g.st = "sent"
    BY <1>1 DEF Send
  <1>3. /\ f \in net' /\ \A q \in net : q.tab # t => q \in net'
        /\ \A q \in net' : \/ q \in net /\ q.tab # t
                           \/ \E r \in net : r.tab = t /\ q = [r EXCEPT !.live = FALSE]
                           \/ q \in {f, g}
    BY <1>1 DEF Load, LoadSends
  <1>4. \A r \in net : [r EXCEPT !.live = FALSE].tab = r.tab /\ ~[r EXCEPT !.live = FALSE].live
    BY UsedNumbers DEF Request
  <1>5. \A x \in Tabs \ {t} : tab'[x] = tab[x]
    BY Parts DEF Load, BrowserTypeOK
  <1>6. \A q \in net' : q.live /\ q.st = "wait" => q \in net /\ q.tab # t
    BY <1>2, <1>3, <1>4
  <1>7. ASSUME NEW x \in Tabs PROVE Served(x)'
    <2>1. CASE x = t
      BY <1>2, <1>3, <1>6, <2>1 DEF Served, Refreshing, Queued
    <2>2. CASE x # t
      BY <1>3, <1>5, <1>6, <2>2, StrandedIs DEF Served, Refreshing, Queued
    <2> QED BY <2>1, <2>2
  <1> QED BY <1>7, StrandedIsNext

LEMMA DeliverStrands == ASSUME BrowserIInv, NobodyStranded, NEW r \in net, Deliver(r) PROVE NobodyStranded'
  <1>1. CASE Back(r) /\ (Finish(r, r) \/ Intercept(r, r))
    <2>1. AnswerOf(r, r)
      BY <1>1, UsedNumbers DEF AnswerOf, Back
    <2> QED BY <1>1, <2>1, FinishStrands, InterceptStrands
  <1>2. CASE DeliverRead(r)
    <2>1. PICK ans, a : /\ ans \in {"ok", "401", "error"} /\ a = [r EXCEPT !.ans = ans]
                        /\ Finish(r, a) \/ Intercept(r, a)
      BY <1>2 DEF DeliverRead
    <2>2. r.kind \in Reads /\ r.st = "sent" /\ r.new = 0
      BY <1>2, Parts DEF DeliverRead, Unclaimed
    <2>3. AnswerOf(a, r)
      BY <2>1, <2>2, UsedNumbers DEF AnswerOf, Request
    <2> QED BY <2>1, <2>3, FinishStrands, InterceptStrands
  <1>3. CASE Stray(r)
    <2>1. ~r.live /\ net' = net \ {r} /\ tab' = tab
      BY <1>3 DEF Stray
    <2> QED BY <2>1 DEF NobodyStranded, InFlight, Waiting
  <1>4. CASE RefreshDone(r)
    BY <1>4, RefreshDoneStrands
  <1>5. CASE RefreshFailed(r)
    <2>1. PICK t \in Tabs, at \in {"login", "magic", "app"}, u \in Accounts \cup {Nobody} :
            t = r.tab /\ at = "login" /\ u = Nobody
      BY UsedNumbers
    <2>2. Load(t, at, LoadSends(t, at, u))
      BY <1>5, <2>1 DEF RefreshFailed, LoadSends
    <2> QED BY <2>2, LoadStrands
  <1> QED BY <1>1, <1>2, <1>3, <1>4, <1>5 DEF Deliver

\* Nobody waits for a refresh that is not under way (client.ts, AuthContext.tsx),
\* for any number of tabs and losses: what is left to fairness is that a request
\* under way is answered or fails.
THEOREM NobodyStrandedHolds == BrowserSpec => []NobodyStranded
  <1>1. BrowserInit => NobodyStranded
    <2> SUFFICES ASSUME BrowserInit PROVE NobodyStranded
      OBVIOUS
    <2>1. \A q \in net : q.st = "sent"
      BY DEF BrowserInit, Send
    <2>2. ASSUME NEW t \in Tabs PROVE \E q \in net : q.tab = t /\ q.live /\ q.kind = "mount"
      <3>1. PICK q : q = Send(t, "mount", Nobody, 0, 0)
        OBVIOUS
      <3>2. q \in net
        BY <3>1 DEF BrowserInit
      <3> QED BY <3>1, <3>2 DEF Send
    <2> QED BY <2>1, <2>2 DEF NobodyStranded, InFlight, Waiting
  <1>2. BrowserIInv /\ NobodyStranded /\ [BrowserNext]_browserVars => NobodyStranded'
    <2> SUFFICES ASSUME BrowserIInv, NobodyStranded, [BrowserNext]_browserVars PROVE NobodyStranded'
      OBVIOUS
    <2>1. ASSUME NEW t \in Tabs, Person(t) PROVE NobodyStranded'
      <3>1. ASSUME NEW at \in {"login", "magic", "app"}, NEW u \in Accounts \cup {Nobody}, Open(t, at, u)
            PROVE  NobodyStranded'
        <4>1. Load(t, at, LoadSends(t, at, u))
          BY <3>1 DEF Open, LoadSends
        <4> QED BY <4>1, LoadStrands
      <3>2. ASSUME NEW at \in {"login", "app"}, Open(t, at, Nobody) PROVE NobodyStranded'
        BY <3>1, <3>2
      <3>3. ASSUME NEW u \in Accounts, Open(t, "magic", u) PROVE NobodyStranded'
        BY <3>1, <3>3
      <3> QED BY <2>1, <3>2, <3>3, FormsStrand DEF Person
    <2>2. ASSUME NEW t \in Tabs, Progress(t) PROVE NobodyStranded'
      BY <2>2, ServeStrands, DeliverStrands DEF Progress
    <2>3. ASSUME NEW r \in net, Lose(r) PROVE NobodyStranded'
      BY <2>3, LoseStrands
    <2>4. ASSUME NEW n \in AccessTokens, ExpireToken(n) \/ EndSession(n) PROVE NobodyStranded'
      BY <2>4 DEF ExpireToken, EndSession, NobodyStranded, InFlight, Waiting
    <2>5. CASE UNCHANGED browserVars
      BY <2>5 DEF browserVars, NobodyStranded, InFlight, Waiting
    <2> QED BY <2>1, <2>2, <2>3, <2>4, <2>5 DEF BrowserNext
  <1> QED BY <1>1, <1>2, BrowserInvariance, PTL DEF BrowserSpec

\* The state is well typed, a page shows the profile of the token it holds
\* (the effect of AuthContext.tsx that GETs /auth/me), and nobody waits for a
\* refresh that is not under way.
THEOREM BrowserInvHolds == BrowserSpec => []BrowserInv
  <1>1. BrowserIInv => BrowserTypeOK /\ ProfileOfToken
    BY DEF BrowserIInv
  <1>2. BrowserTypeOK /\ ProfileOfToken /\ NobodyStranded => BrowserInv
    BY DEF BrowserInv
  <1> QED BY <1>1, <1>2, BrowserInvariance, NobodyStrandedHolds, PTL

=============================================================================
