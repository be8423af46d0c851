-------------------------------- MODULE Browser --------------------------------
(***************************************************************************)
(* The browser side of the sessions: the tabs of one browser, the access   *)
(* token each keeps in memory, the refresh cookie they share, and the      *)
(* requests between them and the server.                                   *)
(*                                                                         *)
(* A page load sends a refresh of its own.  A request answered 401 waits   *)
(* for a refresh taken under a lock, one per page, and is sent again.  An  *)
(* answer's Set-Cookie takes effect when it arrives, just before the       *)
(* script sees the answer.  The server is the one of Sessions, reduced to  *)
(* what its answers depend on.                                             *)
(***************************************************************************)
EXTENDS Integers, FiniteSets

CONSTANTS
    Tabs,       \* tabs of the browser
    Accounts,   \* accounts
    Nobody,     \* nobody
    Visitor,    \* the user whose cookie an earlier visit may have left
    MaxTokens,  \* bound on the sign-ins and refreshes that succeed
    MaxActs,    \* bound on what the person does
    MaxFaults   \* bound on what goes wrong

ASSUME BrowserAssumption ==
    /\ Tabs # {}
    /\ Nobody \notin Accounts /\ Visitor \in Accounts
    /\ MaxTokens \in Nat /\ MaxActs \in Nat /\ MaxFaults \in Nat

VARIABLES
    jar,      \* the refresh cookie: the session it names, 0 when there is none
    session,  \* refresh_sessions on the server
    expired,  \* access tokens past their 15 minutes
    tab,      \* what the page in each tab holds
    net,      \* requests whose answer has not been handled
    acts,     \* what the person has done so far, counted
    faults,   \* expiries, ended sessions, errors and lost answers, counted
    out,      \* history: where the person last signed out and nobody signed in since
    mixed,    \* history: pages that may rightly hold somebody else's token
    wipe      \* history: the refreshes that made the server see a theft

browserVars == <<jar, session, expired, tab, net, acts, faults, out, mixed, wipe>>

-----------------------------------------------------------------------------
(* Sessions, pages and requests *)

\* A sign-in or a refresh makes session n together with access token n; a
\* magic link makes a token without a session.  0 is no token and no cookie.
AccessTokens == 1..MaxTokens
Token0 == 0..MaxTokens

\* by, lost (history): the kind and the tab of the refresh that rotated the
\* session away, and whether its page never got the answer.
Kinds == {"mount", "refresh", "login", "magic", "me", "call", "save", "profile", "password", "logout"}
Session == [st: {"none", "active", "rotated", "gone", "stateless"},
            user: Accounts \cup {Nobody}, by: Kinds, from: Tabs, lost: BOOLEAN]

NewRow(st, u) == [st |-> st, user |-> u, by |-> "mount", from |-> CHOOSE t \in Tabs : TRUE, lost |-> FALSE]

\* who (history): whom the person signed in as on this page.  profileLost
\* (history): GET /auth/me failed for the present token.  profileLate
\* (history): the profile came last from refreshProfile, asked for by an
\* account that was not the page's any more when the answer came.
Page == [at: {"login", "magic", "app"}, token: Token0, loading: BOOLEAN,
         profile: Accounts \cup {Nobody}, who: Accounts \cup {Nobody},
         profileLost: BOOLEAN, profileLate: BOOLEAN]
Fresh(at) == [at |-> at, token |-> 0, loading |-> TRUE, profile |-> Nobody,
              who |-> Nobody, profileLost |-> FALSE, profileLate |-> FALSE]

\* Of an answered request only what handling it needs is kept.
\* live: the page that sent the request is still there.  for: the token whose
\* profile a "me" asks for, or the session a "call" revokes.
Request == [tab: Tabs, kind: Kinds, as: Accounts \cup {Nobody}, for: Token0, tok: Token0,
            cookie: Token0, retry: BOOLEAN, st: {"sent", "back", "wait"},
            ans: {"ok", "401", "error"}, new: Token0, live: BOOLEAN]

\* Sent with the token in memory and the cookie in the jar.
Send(t, kind, as, for, tok) ==
    [tab |-> t, kind |-> kind, as |-> as, for |-> for, tok |-> tok, cookie |-> jar, retry |-> FALSE,
     st |-> "sent", ans |-> "ok", new |-> 0, live |-> TRUE]

\* A request that reads, ends a session, or changes the name in a profile: the
\* server sees the token in memory only.
Ask(t, kind, for) == [Send(t, kind, Nobody, for, tab[t].token) EXCEPT !.cookie = 0]

Reads == {"me", "call", "save", "profile"}
Refreshes(r) == r.kind \in {"mount", "refresh"}
SetsCookie(r) == r.ans = "ok" /\ r.kind \in {"mount", "refresh", "login", "password"}
Rotated(r) == Refreshes(r) /\ r.st = "back" /\ r.ans = "ok"
InFlight(t, kinds) == {r \in net : r.tab = t /\ r.live /\ r.kind \in kinds}
Owner(n) == IF n = 0 THEN Nobody ELSE session[n].user
Unused == {n \in AccessTokens : session[n].st = "none"}

WithRow(n, st, u) == [session EXCEPT ![n] = NewRow(st, u)]
Live(n) == n # 0 /\ session[n].st \in {"active", "rotated"}

\* session without the rows in S; the user of their tokens is remembered.
Deleted(S) == [n \in AccessTokens |-> IF n \in S THEN NewRow("gone", session[n].user) ELSE session[n]]
EndedOf(u) == Deleted({n \in AccessTokens : Live(n) /\ session[n].user = u})

Back(r) == r \in net /\ r.st = "back" /\ r.live

Act == acts < MaxActs /\ acts' = acts + 1 /\ UNCHANGED faults
Fault == faults < MaxFaults /\ faults' = faults + 1 /\ UNCHANGED acts

-----------------------------------------------------------------------------
(* The page *)

\* The redirects of ProtectedRoute and of LoginPage.
Settled(p) ==
    [p EXCEPT !.at = CASE p.at = "login" /\ p.token # 0 -> "app"
                       [] p.at = "app" /\ p.token = 0 /\ ~p.loading -> "login"
                       [] OTHER -> p.at]

\* Page p in tab t, requests R; a new token asks for its profile.
Show(t, p, R) ==
    /\ tab' = [tab EXCEPT ![t] = Settled(p)]
    /\ net' = R \cup IF p.token \in {0, tab[t].token} THEN {}
                     ELSE {[Send(t, "me", Nobody, p.token, p.token) EXCEPT !.cookie = 0]}

\* p after tokenStore.set(n): the effect drops the profile with the token.
WithToken(p, n) == [p EXCEPT !.token = n, !.profile = IF n = 0 THEN Nobody ELSE p.profile,
                             !.profileLost = IF n = p.token THEN p.profileLost ELSE FALSE]

\* A page load.  What the old page had sent may still reach the server, and
\* an answer to it may still set the cookie, which a link's never does.
Load(t, at, sends) ==
    LET old == {r \in net : r.tab = t}
        left == {r \in old : r.st # "wait" /\ r.kind \notin Reads \cup {"magic"}} IN
    /\ tab' = [tab EXCEPT ![t] = Fresh(at)]
    /\ net' = (net \ old) \cup {[r EXCEPT !.live = FALSE] : r \in left} \cup sends
    /\ session' = [n \in AccessTokens |->
                     IF \E r \in left : Rotated(r) /\ r.cookie = n /\ Live(n)
                     THEN [session[n] EXCEPT !.lost = TRUE] ELSE session[n]]
    /\ mixed' = mixed \ {t}

-----------------------------------------------------------------------------
(* What the person does *)

\* A tab is loaded or reloaded: refreshStarted lets one refresh through.
Open(t, at, u) ==
    /\ Act
    /\ (at = "magic") = (u # Nobody)
    /\ Load(t, at, {Send(t, "mount", Nobody, 0, 0)}
                     \cup IF at = "magic" THEN {Send(t, "magic", u, 0, 0)} ELSE {})
    /\ out' = IF at = "magic" THEN {} ELSE out
    /\ UNCHANGED <<jar, expired, wipe>>

\* handleSubmit of the login form, once at a time.  A 429 disables the form
\* for a while, which only delays the next try.
SubmitLogin(t, u) ==
    /\ Act
    /\ tab[t].at = "login"
    /\ InFlight(t, {"login"}) = {}
    /\ net' = net \cup {Send(t, "login", u, 0, tab[t].token)}
    /\ out' = {}
    /\ UNCHANGED <<jar, session, expired, tab, mixed, wipe>>

\* A request of a page, or of the command palette, which opens anywhere and
\* needs no token.  n: DELETE /auth/sessions/:id, 0 for any other request.
Call(t, n) ==
    /\ Act
    /\ InFlight(t, {"call"}) = {}
    /\ n # 0 => /\ tab[t].at = "app" /\ ~tab[t].loading
                /\ session[n].st = "active" /\ session[n].user = Owner(tab[t].token)
    /\ net' = net \cup {Ask(t, "call", n)}
    /\ UNCHANGED <<jar, session, expired, tab, out, mixed, wipe>>

\* Save profile in the settings: PATCH /auth/profile.
SaveProfile(t) ==
    /\ Act
    /\ tab[t].at = "app" /\ ~tab[t].loading
    /\ net' = net \cup {Ask(t, "save", 0)}
    /\ UNCHANGED <<jar, session, expired, tab, out, mixed, wipe>>

\* The password form of the settings, disabled while its request is pending.
SubmitPassword(t) ==
    /\ Act
    /\ tab[t].at = "app" /\ ~tab[t].loading
    /\ InFlight(t, {"password"}) = {}
    /\ net' = net \cup {Send(t, "password", Nobody, 0, tab[t].token)}
    /\ out' = {}
    /\ UNCHANGED <<jar, session, expired, tab, mixed, wipe>>

\* The sign-out buttons are never disabled.
Logout(t) ==
    /\ Act
    /\ tab[t].at = "app" /\ ~tab[t].loading
    /\ net' = net \cup {Send(t, "logout", Nobody, 0, tab[t].token)}
    /\ UNCHANGED <<jar, session, expired, tab, out, mixed, wipe>>

-----------------------------------------------------------------------------
(* The server *)

\* Nobody reads a refusal sent to a page that is gone, and of an answered
\* request only the session it rotated is remembered.
Answered(r, ans, n) ==
    (net \ {r}) \cup IF r.live \/ ans = "ok"
                     THEN {[r EXCEPT !.st = "back", !.ans = ans, !.new = n, !.tok = 0,
                                     !.cookie = IF Refreshes(r) /\ ans = "ok" THEN r.cookie ELSE 0]}
                     ELSE {}

\* The access token decides.
Honoured(r) == r.tok \notin expired \cup {0}

\* POST /auth/refresh: the cookie decides.  A rotated session is a theft.
ServeRefresh(r) ==
    /\ Refreshes(r)
    /\ LET n == r.cookie
           st == IF n = 0 THEN "none" ELSE session[n].st IN
       \/ /\ st \in {"none", "gone"}
          /\ net' = Answered(r, "401", 0)
          /\ UNCHANGED <<session, wipe>>
       \/ /\ st = "rotated"
          /\ session' = EndedOf(session[n].user)
          /\ wipe' = wipe \cup {[first |-> session[n].by, second |-> r.kind,
                                 lost |-> session[n].lost \/ ~r.live,
                                 tabs |-> session[n].from # r.tab]}
          /\ net' = Answered(r, "401", 0)
       \/ /\ st = "active"
          /\ \E m \in Unused :
               /\ session' = [WithRow(m, "active", session[n].user)
                                EXCEPT ![n].st = "rotated", ![n].by = r.kind, ![n].from = r.tab, ![n].lost = ~r.live]
               /\ net' = Answered(r, "ok", m)
          /\ UNCHANGED wipe

\* POST /auth/login and POST /auth/magic; wrong credentials or a dead link
\* are answered 401, the second time too.
ServeSignIn(r) ==
    /\ r.kind \in {"login", "magic"}
    /\ \/ /\ net' = Answered(r, "401", 0)
          /\ UNCHANGED session
       \/ \E m \in Unused :
            /\ ~r.retry
            /\ session' = WithRow(m, IF r.kind = "login" THEN "active" ELSE "stateless", r.as)
            /\ net' = Answered(r, "ok", m)
    /\ UNCHANGED wipe

\* PATCH /auth/password: a wrong current password is a 401 like a bad token.
ServePassword(r) ==
    /\ r.kind = "password"
    /\ \/ /\ net' = Answered(r, "401", 0)
          /\ UNCHANGED session
       \/ /\ Honoured(r)
          /\ \E m \in Unused :
               /\ session' = [EndedOf(Owner(r.tok)) EXCEPT ![m] = NewRow("active", Owner(r.tok))]
               /\ net' = Answered(r, "ok", m)
    /\ UNCHANGED wipe

\* POST /auth/logout deletes the cookie's session.
ServeLogout(r) ==
    /\ r.kind = "logout"
    /\ session' = Deleted({n \in {r.cookie} : Live(n)})
    /\ net' = Answered(r, "ok", 0)
    /\ UNCHANGED wipe

\* Any other answer (a lockout, a used link, an error of the server), or none
\* because the request never got there.  The bound on tokens is an error too.
ServeError(r) ==
    /\ IF Unused = {} /\ r.kind # "logout" THEN UNCHANGED <<acts, faults>> ELSE Fault
    /\ net' = Answered(r, "error", 0)
    /\ UNCHANGED <<session, wipe>>

Serve(r) ==
    /\ r.st = "sent" /\ r.kind \notin Reads
    /\ \/ /\ ServeRefresh(r) \/ ServeSignIn(r) \/ ServePassword(r) \/ ServeLogout(r)
          /\ UNCHANGED <<acts, faults>>
       \/ ServeError(r)
    /\ UNCHANGED <<jar, expired, tab, out, mixed>>

\* The answer is lost on its way: the script sees a network error.
Lose(r) ==
    /\ Back(r) /\ r.ans # "error"
    /\ net' = (net \ {r}) \cup {[r EXCEPT !.ans = "error", !.new = 0, !.cookie = 0]}
    /\ session' = IF Rotated(r) /\ Live(r.cookie) THEN [session EXCEPT ![r.cookie].lost = TRUE] ELSE session
    /\ Fault
    /\ UNCHANGED <<jar, expired, tab, out, mixed, wipe>>

\* A token that a page holds expires: nobody asks about any other.
ExpireToken(n) ==
    /\ n \notin expired /\ \E t \in Tabs : tab[t].token = n
    /\ expired' = expired \cup {n}
    /\ Fault
    /\ UNCHANGED <<jar, session, tab, net, out, mixed, wipe>>

\* The session expires, or is revoked from another device.
EndSession(n) ==
    /\ session[n].st = "active"
    /\ session' = Deleted({n})
    /\ Fault
    /\ UNCHANGED <<jar, expired, tab, net, out, mixed, wipe>>

-----------------------------------------------------------------------------
(* Answers reach the page *)

\* Faulty: the axios instance lacks withCredentials, so Set-Cookie is ignored.
JarWithoutCredentials(r) == IF r.kind \in {"login", "password", "logout"} THEN jar
                            ELSE IF SetsCookie(r) THEN r.new ELSE jar

JarAfter(r) ==
    IF SetsCookie(r) THEN r.new
    ELSE IF r.kind = "logout" /\ r.ans = "ok" THEN 0 ELSE jar

\* Faulty: the spinner is only taken down when the refresh succeeded.
MountedOnSuccess(p, r) == IF r.ans = "ok" THEN [WithToken(p, r.new) EXCEPT !.loading = FALSE] ELSE p

\* The silent refresh of a page load: a failure leaves the token alone.
Mounted(p, r) == [IF r.ans = "ok" THEN WithToken(p, r.new) ELSE p EXCEPT !.loading = FALSE]

\* Faulty: no cancelled flag.
ProfileAlways(p, r) == IF r.ans = "ok" THEN [p EXCEPT !.profile = Owner(r.for)] ELSE p

\* The effect was cancelled if the token has changed since.
Profiled(p, r) ==
    IF r.for # p.token THEN p
    ELSE IF r.ans = "ok" THEN [p EXCEPT !.profile = Owner(r.for), !.profileLost = FALSE, !.profileLate = FALSE]
    ELSE [p EXCEPT !.profileLost = TRUE]

\* refreshProfile: nobody looks whether the token has changed since it was sent.
Reprofiled(p, r) ==
    [p EXCEPT !.profile = Owner(r.tok), !.profileLost = FALSE, !.profileLate = Owner(r.tok) # Owner(p.token)]

SignedIn(p, r) == [WithToken(p, r.new) EXCEPT !.at = "app", !.who = r.as]

\* What the script that made the request does with its answer.
Handled(p, r) ==
    CASE r.kind = "mount" -> Mounted(p, r)
      [] r.kind = "me" -> Profiled(p, r)
      [] r.kind = "profile" /\ r.ans = "ok" -> Reprofiled(p, r)
      [] r.kind \in {"login", "magic"} /\ r.ans = "ok" -> SignedIn(p, r)
      [] r.kind = "password" /\ r.ans = "ok" -> WithToken(p, r.new)
      [] r.kind = "logout" -> [WithToken(p, 0) EXCEPT !.profile = Nobody, !.who = Nobody]
      [] OTHER -> p

\* A profile that was saved is read again, with the token of the moment.
Follows(r) == IF r.kind = "save" /\ r.ans = "ok" THEN {Ask(r.tab, "profile", 0)} ELSE {}

\* The pages that may hold somebody else's token: a sign-in raced by another
\* request that sets the cookie, a link opened where somebody's cookie is in
\* the jar, a cookie of another user set from elsewhere.
MixedAfter(r, elsewhere) ==
    LET signsIn == r.live /\ r.kind \in {"login", "magic"} /\ r.ans = "ok"
        races == (r.kind = "magic" /\ jar # 0) \/ \E q \in net \ {r} : q.kind \notin Reads \cup {"magic", "logout"} IN
    (IF signsIn /\ ~races THEN mixed \ {r.tab} ELSE mixed)
      \cup (IF signsIn /\ races THEN {r.tab} ELSE {})
      \cup (IF SetsCookie(r) THEN {t \in elsewhere : tab[t].who \notin {Nobody, Owner(r.new)}} ELSE {})

Intercepted(r) == r.ans = "401" /\ ~r.retry /\ ~Refreshes(r)

\* asSent was answered, as r, otherwise than by a first 401.
Finish(asSent, r) ==
    /\ ~Intercepted(r) /\ r.kind # "refresh"
    /\ jar' = JarAfter(r)
    /\ Show(r.tab, Handled(tab[r.tab], r), (net \ {asSent}) \cup Follows(r))
    /\ mixed' = MixedAfter(r, Tabs \ {r.tab})
    /\ out' = IF r.kind = "logout"
              THEN IF r.ans = "ok" /\ \A q \in net \ {r} : q.kind \in Reads THEN {r.tab} ELSE {}
              ELSE out
    /\ UNCHANGED <<expired, acts, wipe>>

\* The page is gone, its answer still sets the cookie, or is dropped.
Stray(r) ==
    /\ r.st = "back" /\ ~r.live
    /\ net' = net \ {r}
    /\ \/ jar' = JarAfter(r) /\ mixed' = MixedAfter(r, Tabs)
       \/ UNCHANGED <<jar, mixed>>
    /\ UNCHANGED <<session, expired, tab, acts, faults, out, wipe>>

\* Faulty: nobody looks whether a refresh is under way.
LockIgnored(t) == t \in Tabs

\* A bug: a 401 joins the refresh of the page load, which answers nobody else.
LockShared(t) == InFlight(t, {"mount", "refresh"}) = {}

LockFree(t) == InFlight(t, {"refresh"}) = {}

\* A 401: join the refresh under way, or start one.
Intercept(asSent, r) ==
    /\ Intercepted(r)
    /\ net' = (net \ {asSent})
                \cup {[r EXCEPT !.st = "wait", !.retry = TRUE, !.ans = "ok"]}
                \cup IF LockFree(r.tab) THEN {Send(r.tab, "refresh", Nobody, 0, 0)} ELSE {}
    /\ UNCHANGED <<jar, expired, tab, acts, out, mixed, wipe>>

Waiting(t) == {r \in net : r.tab = t /\ r.live /\ r.st = "wait"}

Resend(t, n, c) ==
    {[r EXCEPT !.st = "sent", !.tok = n, !.cookie = IF r.kind \in Reads THEN 0 ELSE c] :
        r \in Waiting(t)}

\* doRefresh succeeded: the lock is released and all who wait send again.
RefreshDone(r) ==
    /\ Back(r) /\ r.kind = "refresh" /\ r.ans = "ok"
    /\ jar' = JarAfter(r)
    /\ Show(r.tab, WithToken(tab[r.tab], r.new),
            ((net \ {r}) \ Waiting(r.tab)) \cup Resend(r.tab, r.new, r.new))
    /\ mixed' = MixedAfter(r, Tabs \ {r.tab})
    /\ UNCHANGED <<session, expired, acts, faults, out, wipe>>

\* doRefresh failed: window.location.href = '/login' loads the page anew.
RefreshFailed(r) ==
    /\ Back(r) /\ r.kind = "refresh" /\ r.ans # "ok"
    /\ Load(r.tab, "login", {Send(r.tab, "mount", Nobody, 0, 0)})
    /\ UNCHANGED <<jar, expired, acts, faults, out, wipe>>

\* The answer of a request that only reads, or ends a session, is computed and
\* handled in one step, which may come as late as any answer.
DeliverRead(r) ==
    /\ r.kind \in Reads /\ r.st = "sent"
    /\ \E ans \in {IF Honoured(r) THEN "ok" ELSE "401", "error"} :
         LET a == [r EXCEPT !.ans = ans] IN
         /\ IF ans = "error" THEN faults < MaxFaults /\ faults' = faults + 1 ELSE UNCHANGED faults
         /\ session' = IF ans = "ok" /\ r.kind = "call" THEN Deleted({n \in {r.for} : Live(n)}) ELSE session
         /\ Finish(r, a) \/ Intercept(r, a)

Deliver(r) ==
    \/ Back(r) /\ (Finish(r, r) \/ Intercept(r, r)) /\ UNCHANGED <<session, faults>>
    \/ DeliverRead(r) \/ Stray(r) \/ RefreshDone(r) \/ RefreshFailed(r)

-----------------------------------------------------------------------------
\* The browser starts with or without the cookie of an earlier visit.
BrowserInit ==
    /\ jar \in {0, 1} /\ (jar = 1 => MaxTokens > 0)
    /\ session = [n \in AccessTokens |-> IF n = jar THEN NewRow("active", Visitor) ELSE NewRow("none", Nobody)]
    /\ expired = {}
    /\ tab = [t \in Tabs |-> Fresh("app")]
    /\ net = {Send(t, "mount", Nobody, 0, 0) : t \in Tabs}
    /\ acts = 0 /\ faults = 0
    /\ out = {}
    /\ mixed = {}
    /\ wipe = {}

Person(t) ==
    \/ \E at \in {"login", "app"} : Open(t, at, Nobody)
    \/ \E u \in Accounts : Open(t, "magic", u) \/ SubmitLogin(t, u)
    \/ \E n \in Token0 : Call(t, n)
    \/ SaveProfile(t) \/ SubmitPassword(t) \/ Logout(t)

\* A request is answered and its answer handled.
Progress(t) == \E r \in net : r.tab = t /\ (Serve(r) \/ Deliver(r))

BrowserNext ==
    \/ \E t \in Tabs : Person(t) \/ Progress(t)
    \/ \E r \in net : Lose(r)
    \/ \E n \in AccessTokens : ExpireToken(n) \/ EndSession(n)

BrowserSpec == BrowserInit /\ [][BrowserNext]_browserVars

\* The server answers or the connection fails, and the browser runs the
\* continuations of the page.
Fairness == \A t \in Tabs : WF_browserVars(Progress(t))

FairSpec == BrowserSpec /\ Fairness

-----------------------------------------------------------------------------
(* Properties *)

\* The variables stay in their sets.
BrowserTypeOK ==
    /\ jar \in Token0
    /\ session \in [AccessTokens -> Session]
    /\ expired \subseteq AccessTokens
    /\ tab \in [Tabs -> Page]
    /\ net \subseteq Request
    /\ acts \in 0..MaxActs /\ faults \in 0..MaxFaults
    /\ out \subseteq Tabs /\ mixed \subseteq Tabs
    /\ wipe \subseteq [first: Kinds, second: Kinds, lost: BOOLEAN, tabs: BOOLEAN]

\* Why the server took the browser for a thief: an answer that never reached
\* its page, two tabs refreshing at once, or the refresh of a page load, which
\* is sent outside the lock, overlapping one under the lock.  Two refreshes
\* under the lock of one page never do it.
WipesExplained ==
    \A w \in wipe : w.lost \/ w.tabs \/ {w.first, w.second} = {"mount", "refresh"}

\* Whoever signed in on a page stays who they are through every refresh,
\* unless another request that sets the cookie was under way at the sign-in,
\* a link was opened over somebody's cookie, or another page signed somebody
\* else in.
SignedInAs ==
    \A t \in Tabs :
        tab[t].who # Nobody /\ tab[t].token # 0 /\ t \notin mixed
        => Owner(tab[t].token) = tab[t].who

\* After a logout with no other session request in flight there is no cookie
\* and no token until somebody signs in, whatever is answered late and
\* however often the page is loaded.
StaysSignedOut == out # {} => jar = 0 /\ \A t \in out : tab[t].token = 0

\* Once GET /auth/me was answered for the token a page holds, the profile it
\* shows is that token's, whatever order the answers came in, unless the last
\* to set it was the refreshProfile of an account that has since signed out or
\* been replaced on the page.
ProfileOfToken ==
    \A t \in Tabs :
        /\ tab[t].profile # Nobody /\ ~tab[t].profileLost /\ ~tab[t].profileLate
        /\ \A r \in InFlight(t, {"me"}) : r.for # tab[t].token
        => tab[t].profile = Owner(tab[t].token)

\* Whatever is lost, reloaded or answered out of order, a page that shows the
\* splash screen has its refresh under way, and requests that wait for the
\* refresh of a 401 have that one: nobody waits for what will not come.
NobodyStranded ==
    \A t \in Tabs : /\ tab[t].loading => InFlight(t, {"mount"}) # {}
                    /\ Waiting(t) # {} => InFlight(t, {"refresh"}) # {}

\* The splash screen is taken down and every request that waits for the
\* refresh goes on.
Settles ==
    \A t \in Tabs : (tab[t].loading \/ Waiting(t) # {}) ~> (~tab[t].loading /\ Waiting(t) = {})

\* In every state a page shows whose token it holds, and whoever waits for a
\* refresh waits for one that is under way.
BrowserInv == BrowserTypeOK /\ ProfileOfToken /\ NobodyStranded

=============================================================================
