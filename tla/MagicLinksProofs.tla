----------------------------- MODULE MagicLinksProofs -----------------------------
(***************************************************************************)
(* Proofs about MagicLinks, for any users, tickets, links, tokens and      *)
(* handlers, any lifetimes, and with no bound on the rows.                 *)
(***************************************************************************)
EXTENDS MagicLinks, TLAPS

-----------------------------------------------------------------------------
(* The invariant *)

Creating(h) == req[h].step \in {"throttle", "create", "clear", "insert"}
Exchanging(h) == req[h].step \in {"mark", "check_user", "insert_jti"}
Marked(h) == req[h].step \in {"check_user", "insert_jti"}

\* Unless it was overtaken, who inserts a link has cleared its scope.
Cleared(h) ==
    req[h].step = "insert" /\ ~req[h].late =>
      \A l \in Links : links[l].state = "unused" /\ links[l].user = req[h].user =>
                        links[l].ticket # req[h].ticket

\* The link an exchange found was there, and is not unused once it is marked.
Found(h) ==
    Exchanging(h) => /\ req[h].link \in Links /\ links[req[h].link].state # "none"
                     /\ Marked(h) => links[req[h].link].state # "unused"

\* Unless it was overtaken, an exchange is the only one of its link so far.
First(h) ==
    Exchanging(h) /\ ~req[h].late =>
      /\ \A j \in Jtis : jtis[j].link # req[h].link
      /\ \A i \in Handlers \ {h} : Marked(i) => req[i].link # req[h].link

Scoped(h) == Creating(h) => (req[h].ticket # NoTicket => ClientOf[req[h].ticket] = req[h].user)

HandlerOK(h) ==
    /\ Creating(h) \/ Exchanging(h) => req[h].user \in Users
    /\ req[h].step = "answer" => req[h].jti \in Jtis /\ jtis[req[h].jti].state # "none"
    /\ Scoped(h) /\ Cleared(h) /\ Found(h) /\ First(h)

\* A link belongs to the client of its ticket; no token came from it while it
\* is unused.
LinksOK ==
    \A l \in Links :
      /\ InTable(l) => /\ links[l].user \in Users
                       /\ links[l].ticket # NoTicket => ClientOf[links[l].ticket] = links[l].user
      /\ links[l].state \in {"none", "unused"} => \A j \in Jtis : jtis[j].link # l

\* A row that is gone has expired or its user is gone.
JtisOK ==
    \A j \in Jtis :
      /\ jtis[j].state = "none" => ~jtis[j].out
      /\ jtis[j].state # "none" => jtis[j].user \in Users
      /\ jtis[j].state = "gone" => jtis[j].expires < now \/ status[jtis[j].user] = "gone"

IInv == /\ TypeOK /\ OneLinkUnlessRaced /\ OneTokenUnlessRaced /\ NoOrphans /\ LinksOK /\ JtisOK
        /\ \A h \in Handlers : HandlerOK(h)

\* The values everything starts with.
LEMMA Rows ==
    /\ NoLinkRow \in Link /\ [NoLinkRow EXCEPT !.state = "gone"] \in Link
    /\ [NoLinkRow EXCEPT !.state = "gone"].state = "gone"
    /\ NoJtiRow \in Jti /\ Idle \in Handler /\ Idle.step = "idle"
BY DEF NoLinkRow, Link, NoJtiRow, Jti, Idle, Handler, Steps, Scope

\* Nothing is there at first but the tickets.
LEMMA IInvInit == Init => IInv
<1> SUFFICES ASSUME Init PROVE IInv
  OBVIOUS
<1>1. TypeOK
  BY Rows DEF Init, TypeOK
<1>2. OneLinkUnlessRaced /\ OneTokenUnlessRaced /\ NoOrphans
  BY LinksAssumption DEF Init, OneLinkUnlessRaced, OneTokenUnlessRaced, NoOrphans, UnusedOf, InTable, IsActive,
                         NoLinkRow, NoJtiRow
<1>3. LinksOK /\ JtisOK
  BY LinksAssumption DEF Init, LinksOK, JtisOK, InTable, NoLinkRow, NoJtiRow
<1>4. \A h \in Handlers : HandlerOK(h)
  BY Rows DEF Init, HandlerOK, Creating, Exchanging, Marked, Scoped, Cleared, Found, First
<1> QED BY <1>1, <1>2, <1>3, <1>4 DEF IInv

-----------------------------------------------------------------------------
(* What each kind of step keeps *)

\* No link is inserted.
LinksQuiet ==
    \A l \in Links :
      /\ links'[l].state = "unused" => links'[l] = links[l]
      /\ links[l].state # "none" => links'[l].state # "none"
      /\ links[l].state = "none" => links'[l] = links[l]
      /\ InTable(l)' => InTable(l) /\ links'[l].user = links[l].user /\ links'[l].ticket = links[l].ticket

\* No token is inserted.
JtisQuiet ==
    \A j \in Jtis :
      /\ jtis'[j].link = jtis[j].link /\ jtis'[j].user = jtis[j].user /\ jtis'[j].late = jtis[j].late
      /\ jtis[j].state # "none" => jtis'[j].state # "none"
      /\ IsActive(j)' => IsActive(j)

LEMMA LinksSame == UNCHANGED links => LinksQuiet
BY DEF LinksQuiet, InTable

LEMMA JtisSame == UNCHANGED jtis => JtisQuiet
BY DEF JtisQuiet, IsActive

\* A handler that does not act, and is told when its link is marked.
LEMMA OtherOK ==
    ASSUME IInv, NEW i \in Handlers, LinksQuiet, JtisQuiet,
           req'[i] = req[i] \/ req'[i] = [req[i] EXCEPT !.late = TRUE],
           \A k \in Handlers \ {i} :
             Marked(k)' => \/ Marked(k) /\ req'[k].link = req[k].link
                           \/ req'[k].link # req[i].link
                           \/ req'[i].late
    PROVE  HandlerOK(i)'
<1>1. HandlerOK(i) /\ req[i] \in Handler
  BY DEF IInv, TypeOK
<1>2. /\ req'[i].step = req[i].step /\ req'[i].user = req[i].user /\ req'[i].ticket = req[i].ticket
      /\ req'[i].link = req[i].link /\ req'[i].jti = req[i].jti
      /\ req[i].late => req'[i].late
  BY <1>1 DEF Handler
<1>3. Cleared(i)'
  BY <1>1, <1>2 DEF HandlerOK, Cleared, LinksQuiet
<1>4. Found(i)'
  BY <1>1, <1>2 DEF HandlerOK, Found, Exchanging, Marked, LinksQuiet
<1>5. First(i)'
  <2> SUFFICES ASSUME Exchanging(i)', ~req'[i].late
               PROVE  /\ \A j \in Jtis : jtis'[j].link # req'[i].link
                      /\ \A k \in Handlers \ {i} : Marked(k)' => req'[k].link # req'[i].link
    BY DEF First
  <2>1. Exchanging(i) /\ ~req[i].late
    BY <1>2 DEF Exchanging
  <2>2. /\ \A j \in Jtis : jtis[j].link # req[i].link
        /\ \A k \in Handlers \ {i} : Marked(k) => req[k].link # req[i].link
    BY <1>1, <2>1 DEF HandlerOK, First
  <2> QED BY <1>2, <2>2 DEF JtisQuiet
<1>6. Scoped(i)' /\ (Creating(i)' \/ Exchanging(i)' => req'[i].user \in Users)
  BY <1>1, <1>2 DEF HandlerOK, Scoped, Creating, Exchanging
<1>7. req'[i].step = "answer" => req'[i].jti \in Jtis /\ jtis'[req'[i].jti].state # "none"
  BY <1>1, <1>2 DEF HandlerOK, JtisQuiet
<1> QED BY <1>3, <1>4, <1>5, <1>6, <1>7 DEF HandlerOK

\* What a step keeps that inserts no link and no token.
LEMMA RowsKept ==
    ASSUME IInv, LinksQuiet, JtisQuiet
    PROVE  OneLinkUnlessRaced' /\ OneTokenUnlessRaced' /\ LinksOK'
<1>1. OneLinkUnlessRaced'
  <2>1. \A u \in Users, t \in Scope : \A k \in UnusedOf(u, t)' : k \in UnusedOf(u, t) /\ links'[k] = links[k]
    BY DEF UnusedOf, LinksQuiet
  <2> QED BY <2>1 DEF IInv, OneLinkUnlessRaced
<1>2. OneTokenUnlessRaced'
  BY DEF IInv, OneTokenUnlessRaced, JtisQuiet
<1>3. LinksOK'
  <2> SUFFICES ASSUME NEW l \in Links
               PROVE  /\ InTable(l)' => /\ links'[l].user \in Users
                                        /\ links'[l].ticket # NoTicket => ClientOf[links'[l].ticket] = links'[l].user
                      /\ links'[l].state \in {"none", "unused"} => \A j \in Jtis : jtis'[j].link # l
    BY DEF LinksOK
  <2>1. links'[l].state \in {"none", "unused"} => links[l].state \in {"none", "unused"}
    BY DEF LinksQuiet
  <2> QED BY <2>1 DEF IInv, LinksOK, LinksQuiet, JtisQuiet
<1> QED BY <1>1, <1>2, <1>3

\* A step of one handler that inserts nothing and marks nothing.
LEMMA StepOK ==
    ASSUME IInv, NEW h \in Handlers, NEW r \in Handler, Begin(h, r), LinksQuiet, JtisQuiet,
           UNCHANGED <<now, status, open>>, links' \in [Links -> Link], jtis' \in [Jtis -> Jti],
           HandlerOK(h)', JtisOK', Marked(h)' => Marked(h) /\ r.link = req[h].link
    PROVE  IInv'
<1>1. /\ req \in [Handlers -> Handler] /\ req' = [req EXCEPT ![h] = r]
  BY DEF IInv, TypeOK, Begin
<1>2. req'[h] = r /\ \A i \in Handlers \ {h} : req'[i] = req[i]
  BY <1>1
<1>3. TypeOK'
  BY <1>1 DEF IInv, TypeOK
<1>4. \A k \in Handlers : Marked(k)' => Marked(k) /\ req'[k].link = req[k].link
  BY <1>2 DEF Marked
<1>5. ASSUME NEW i \in Handlers, i # h PROVE HandlerOK(i)'
  <2>1. req'[i] = req[i]
    BY <1>2, <1>5
  <2> QED BY <1>4, <2>1, OtherOK
<1>6. NoOrphans'
  BY DEF IInv, NoOrphans, LinksQuiet, JtisQuiet
<1> QED BY <1>3, <1>5, <1>6, RowsKept DEF IInv

LEMMA IdleOK == ASSUME NEW h \in Handlers, req'[h] = Idle PROVE HandlerOK(h)' /\ ~Marked(h)'
BY Rows DEF HandlerOK, Creating, Exchanging, Marked, Scoped, Cleared, Found, First

\* A step of one handler that touches no table.
LEMMA QuietOK ==
    ASSUME IInv, NEW h \in Handlers, NEW r \in Handler, Begin(h, r),
           UNCHANGED <<now, status, open, links, jtis>>,
           HandlerOK(h)', Marked(h)' => Marked(h) /\ r.link = req[h].link
    PROVE  IInv'
<1>1. links' \in [Links -> Link] /\ jtis' \in [Jtis -> Jti] /\ JtisOK'
  BY DEF IInv, TypeOK, JtisOK
<1> QED BY <1>1, LinksSame, JtisSame, StepOK

LEMMA FinishKeeps ==
    ASSUME IInv, NEW h \in Handlers, Begin(h, Idle), UNCHANGED <<now, status, open, links, jtis>>
    PROVE  IInv'
<1>1. req'[h] = Idle
  BY DEF Begin, IInv, TypeOK
<1> QED BY <1>1, Rows, IdleOK, QuietOK

-----------------------------------------------------------------------------
(* Creating a link *)

\* What a handler keeps when it goes on to another step.
LEMMA GoOn ==
    ASSUME IInv, NEW h \in Handlers, NEW r \in Handler, Begin(h, r)
    PROVE  req'[h] = r /\ \A i \in Handlers \ {h} : req'[i] = req[i]
BY DEF Begin, IInv, TypeOK

LEMMA AsksKeep ==
    ASSUME IInv, NEW h \in Handlers, NEW u \in Users, NEW t \in Scope,
           RequestFind(h, u) \/ DeskAsks(h, u, t)
    PROVE  IInv'
<1>1. PICK r \in Handler : /\ Begin(h, r) /\ r.step \in {"throttle", "create"} /\ r.user = u
                           /\ r.ticket # NoTicket => ClientOf[r.ticket] = u
  <2>1. CASE RequestFind(h, u)
    <3> DEFINE r == [Idle EXCEPT !.step = "throttle", !.user = u]
    <3>1. r \in Handler /\ r.step = "throttle" /\ r.user = u /\ r.ticket = NoTicket
      BY DEF Idle, Handler, Steps, Scope
    <3>2. Begin(h, r)
      BY <2>1 DEF RequestFind
    <3> QED BY <3>1, <3>2
  <2>2. CASE DeskAsks(h, u, t)
    <3> DEFINE r == [Idle EXCEPT !.step = "create", !.user = u, !.ticket = t]
    <3>1. r \in Handler /\ r.step = "create" /\ r.user = u /\ r.ticket = t
      BY DEF Idle, Handler, Steps
    <3>2. Begin(h, r) /\ (t # NoTicket => ClientOf[t] = u)
      BY <2>2 DEF DeskAsks
    <3> QED BY <3>1, <3>2
  <2> QED BY <2>1, <2>2
<1>2. UNCHANGED <<now, status, open, links, jtis>>
  BY DEF RequestFind, DeskAsks
<1>3. HandlerOK(h)' /\ ~Marked(h)'
  BY <1>1, GoOn DEF HandlerOK, Creating, Exchanging, Marked, Scoped, Cleared, Found, First
<1> QED BY <1>1, <1>2, <1>3, QuietOK

LEMMA CreateStepsKeep ==
    ASSUME IInv, NEW h \in Handlers, RequestThrottle(h) \/ CreateFind(h)
    PROVE  IInv'
<1>0. req[h] \in Handler /\ HandlerOK(h) /\ now + LinkTTL \in Nat
  BY TimesAssumption DEF IInv, TypeOK
<1>1. UNCHANGED <<now, status, open, links, jtis>> /\ req[h].step \in {"throttle", "create"}
  BY DEF RequestThrottle, CreateFind
<1>2. CASE Begin(h, Idle)
  BY <1>1, <1>2, FinishKeeps
<1>3. ASSUME NEW s \in {"create", "clear"}, NEW r, Begin(h, r),
             r = [req[h] EXCEPT !.step = s] \/ r = [req[h] EXCEPT !.step = s, !.expires = now + LinkTTL]
      PROVE  IInv'
  <2>1. r \in Handler /\ r.step = s /\ r.user = req[h].user /\ r.ticket = req[h].ticket
    BY <1>0, <1>3 DEF Handler, Steps
  <2>2. HandlerOK(h)' /\ ~Marked(h)'
    BY <1>0, <1>1, <1>3, <2>1, GoOn DEF HandlerOK, Creating, Exchanging, Marked, Scoped, Cleared, Found, First
  <2> QED BY <1>1, <1>3, <2>1, <2>2, QuietOK
<1>4. \/ Begin(h, Idle)
      \/ Begin(h, [req[h] EXCEPT !.step = "create"])
      \/ Begin(h, [req[h] EXCEPT !.step = "clear", !.expires = now + LinkTTL])
  BY DEF RequestThrottle, CreateFind, Goto
<1> QED BY <1>2, <1>3, <1>4

\* Links are deleted from the table.
LEMMA DeleteQuiet ==
    ASSUME IInv, NEW L \in SUBSET {l \in Links : InTable(l)}, links' = Delete(L)
    PROVE  /\ links' \in [Links -> Link] /\ LinksQuiet
           /\ \A l \in L : links'[l].state = "gone"
           /\ \A l \in Links \ L : links'[l] = links[l]
<1>1. links \in [Links -> Link] /\ \A l \in L : links[l].state \in {"unused", "used"}
  BY DEF IInv, TypeOK, InTable
<1>2. /\ \A l \in L : links'[l] = [NoLinkRow EXCEPT !.state = "gone"]
      /\ \A l \in Links \ L : links'[l] = links[l]
      /\ links' = [l \in Links |-> links'[l]]
  BY DEF Delete
<1>3. links' \in [Links -> Link]
  BY <1>1, <1>2, Rows
<1> QED BY <1>1, <1>2, <1>3, Rows DEF LinksQuiet, InTable

LEMMA ClearLinksKeeps ==
    ASSUME IInv, NEW h \in Handlers, ClearLinks(h)
    PROVE  IInv'
<1> DEFINE r == [req[h] EXCEPT !.step = "insert"]
           L == UnusedOf(req[h].user, req[h].ticket)
<1>0. req[h] \in Handler /\ HandlerOK(h)
  BY DEF IInv, TypeOK
<1>1. /\ req[h].step = "clear" /\ links' = Delete(L) /\ Begin(h, r) /\ UNCHANGED <<now, status, open, jtis>>
  BY DEF ClearLinks, DeleteUnused, Goto
<1>2. r \in Handler /\ r.step = "insert" /\ r.user = req[h].user /\ r.ticket = req[h].ticket
  BY <1>0 DEF Handler, Steps
<1> HIDE DEF r
<1>3. L \in SUBSET {l \in Links : InTable(l)}
  BY DEF UnusedOf, InTable
<1>4. ASSUME NEW l \in Links, links'[l].state = "unused", links'[l].user = req[h].user
      PROVE  links'[l].ticket # req[h].ticket
  <2>1. l \notin L /\ links'[l] = links[l]
    BY <1>1, <1>3, <1>4, DeleteQuiet
  <2> QED BY <1>4, <2>1 DEF UnusedOf
<1>5. HandlerOK(h)' /\ ~Marked(h)'
  <2>1. req'[h] = r
    BY <1>1, <1>2, GoOn
  <2> QED BY <1>0, <1>1, <1>2, <1>4, <2>1
          DEF HandlerOK, Creating, Exchanging, Marked, Scoped, Cleared, Found, First
<1>6. JtisOK' /\ jtis' \in [Jtis -> Jti]
  BY <1>1 DEF IInv, TypeOK, JtisOK
<1>7. LinksQuiet /\ links' \in [Links -> Link]
  BY <1>1, <1>3, DeleteQuiet
<1> QED BY <1>1, <1>2, <1>5, <1>6, <1>7, JtisSame, StepOK

\* Who inserts a second link of the scope knows that it was overtaken.
LEMMA InsertLinkKeeps ==
    ASSUME IInv, NEW h \in Handlers, NEW l \in Links, InsertLink(h, l)
    PROVE  IInv'
<1> DEFINE r == req[h]
           row == [state |-> "unused", user |-> r.user, ticket |-> r.ticket,
                   created |-> now, expires |-> r.expires, late |-> r.late]
<1>0. /\ r \in Handler /\ HandlerOK(h) /\ req \in [Handlers -> Handler] /\ links \in [Links -> Link] /\ now \in Nat
  BY DEF IInv, TypeOK
<1>1. /\ r.step = "insert" /\ links[l].state = "none" /\ References(r.user, r.ticket)
      /\ links' = [links EXCEPT ![l] = row] /\ UNCHANGED <<now, status, open, jtis>>
      /\ req' = [i \in Handlers |->
                   IF i = h THEN Idle
                   ELSE IF req[i].step = "insert" /\ req[i].user = r.user /\ req[i].ticket = r.ticket
                        THEN [req[i] EXCEPT !.late = TRUE] ELSE req[i]]
  BY DEF InsertLink
<1>2. /\ r.user \in Users /\ r.ticket \in Scope
      /\ r.ticket # NoTicket => ClientOf[r.ticket] = r.user
  BY <1>0, <1>1 DEF HandlerOK, Creating, Scoped, Handler
<1>3. /\ row \in Link /\ row.state = "unused" /\ row.user = r.user /\ row.ticket = r.ticket /\ row.late = r.late
  BY <1>0, <1>2 DEF Link, Handler
<1> HIDE DEF row
<1>4. links'[l] = row /\ \A m \in Links : m # l => links'[m] = links[m]
  BY <1>0, <1>1
<1>5. req'[h] = Idle /\ HandlerOK(h)' /\ ~Marked(h)'
  BY <1>1, IdleOK
<1>6. ASSUME NEW i \in Handlers, i # h
      PROVE  /\ req'[i] \in Handler /\ req'[i].step = req[i].step /\ req'[i].user = req[i].user
             /\ req'[i].ticket = req[i].ticket /\ req'[i].link = req[i].link /\ req'[i].jti = req[i].jti
             /\ req[i].late => req'[i].late
             /\ req[i].step = "insert" /\ req[i].user = r.user /\ req[i].ticket = r.ticket => req'[i].late
  <2>1. req'[i] = IF req[i].step = "insert" /\ req[i].user = r.user /\ req[i].ticket = r.ticket
                  THEN [req[i] EXCEPT !.late = TRUE] ELSE req[i]
    BY <1>1, <1>6
  <2>2. req[i] \in Handler
    BY <1>0
  <2> QED BY <2>1, <2>2 DEF Handler
<1> HIDE DEF r
<1>7. TypeOK'
  <2>1. \A i \in Handlers : req'[i] \in Handler
    BY <1>5, <1>6, Rows
  <2>2. req' = [i \in Handlers |-> req'[i]]
    BY <1>1
  <2> QED BY <2>1, <2>2, <1>0, <1>1, <1>3 DEF IInv, TypeOK
<1>8. ASSUME NEW i \in Handlers, i # h PROVE HandlerOK(i)'
  <2>1. HandlerOK(i)
    BY DEF IInv
  <2>2. Cleared(i)'
    <3> SUFFICES ASSUME req'[i].step = "insert", ~req'[i].late, NEW m \in Links,
                        links'[m].state = "unused", links'[m].user = req'[i].user
                 PROVE  links'[m].ticket # req'[i].ticket
      BY DEF Cleared
    <3>1. CASE m = l
      BY <3>1, <1>3, <1>4, <1>6, <1>8
    <3>2. CASE m # l
      BY <3>2, <1>4, <1>6, <1>8, <2>1 DEF HandlerOK, Cleared
    <3> QED BY <3>1, <3>2
  <2>3. Found(i)'
    BY <1>1, <1>3, <1>4, <1>6, <1>8, <2>1 DEF HandlerOK, Found, Exchanging, Marked
  <2>4. First(i)'
    <3>1. \A k \in Handlers : Marked(k)' => Marked(k) /\ req'[k].link = req[k].link
      BY <1>5, <1>6 DEF Marked
    <3> QED BY <3>1, <1>1, <1>6, <1>8, <2>1 DEF HandlerOK, First, Exchanging
  <2>5. Scoped(i)' /\ (Creating(i)' \/ Exchanging(i)' => req'[i].user \in Users)
        /\ (req'[i].step = "answer" => req'[i].jti \in Jtis /\ jtis'[req'[i].jti].state # "none")
    BY <1>1, <1>6, <1>8, <2>1 DEF HandlerOK, Scoped, Creating, Exchanging
  <2> QED BY <2>2, <2>3, <2>4, <2>5 DEF HandlerOK
<1>9. OneLinkUnlessRaced'
  <2> SUFFICES ASSUME NEW u \in Users, NEW t \in Scope, NEW k \in UnusedOf(u, t)', NEW m \in UnusedOf(u, t)', k # m
               PROVE  links'[k].late \/ links'[m].late
    BY DEF OneLinkUnlessRaced
  <2>1. ASSUME NEW x \in UnusedOf(u, t)', NEW y \in UnusedOf(u, t)', x = l, y # l PROVE links'[x].late
    <3>1. y \in Links /\ links[y].state = "unused" /\ links[y].user = r.user /\ links[y].ticket = r.ticket
      BY <2>1, <1>3, <1>4 DEF UnusedOf
    <3>2. r.late
      BY <3>1, <1>0, <1>1 DEF HandlerOK, Cleared, r
    <3> QED BY <2>1, <3>2, <1>3, <1>4
  <2>2. ASSUME k # l, m # l PROVE links'[k].late \/ links'[m].late
    <3>1. k \in UnusedOf(u, t) /\ m \in UnusedOf(u, t) /\ links'[k] = links[k] /\ links'[m] = links[m]
      BY <2>2, <1>4 DEF UnusedOf
    <3> QED BY <3>1 DEF IInv, OneLinkUnlessRaced
  <2> QED BY <2>1, <2>2
<1>10. NoOrphans'
  <2> SUFFICES ASSUME NEW m \in Links, InTable(m)'
               PROVE  status[links'[m].user] # "gone" /\ links'[m].ticket \in open \cup {NoTicket}
    BY <1>1 DEF IInv, NoOrphans, IsActive
  <2>1. CASE m = l
    BY <2>1, <1>1, <1>3, <1>4 DEF References
  <2>2. CASE m # l
    BY <2>2, <1>4 DEF IInv, NoOrphans, InTable
  <2> QED BY <2>1, <2>2
<1>11. LinksOK'
  <2> SUFFICES ASSUME NEW m \in Links
               PROVE  /\ InTable(m)' => /\ links'[m].user \in Users
                                        /\ links'[m].ticket # NoTicket => ClientOf[links'[m].ticket] = links'[m].user
                      /\ links'[m].state \in {"none", "unused"} => \A j \in Jtis : jtis'[j].link # m
    BY DEF LinksOK
  <2>1. CASE m = l
    BY <2>1, <1>1, <1>2, <1>3, <1>4 DEF IInv, LinksOK
  <2>2. CASE m # l
    BY <2>2, <1>1, <1>4 DEF IInv, LinksOK, InTable
  <2> QED BY <2>1, <2>2
<1>12. OneTokenUnlessRaced' /\ JtisOK'
  BY <1>1 DEF IInv, OneTokenUnlessRaced, JtisOK
<1> QED BY <1>5, <1>7, <1>8, <1>9, <1>10, <1>11, <1>12 DEF IInv

-----------------------------------------------------------------------------
(* Exchanging a link *)

LEMMA ExchangeFindKeeps ==
    ASSUME IInv, NEW h \in Handlers, NEW l \in Links, ExchangeFind(h, l)
    PROVE  IInv'
<1> DEFINE r == [Idle EXCEPT !.step = "mark", !.user = links[l].user, !.link = l]
<1>1. /\ links[l].state = "unused" /\ Begin(h, r) /\ UNCHANGED <<now, status, open, links, jtis>>
  BY DEF ExchangeFind
<1>2. links[l].user \in Users /\ \A j \in Jtis : jtis[j].link # l
  BY <1>1 DEF IInv, LinksOK, InTable
<1>3. r \in Handler /\ r.step = "mark" /\ r.user = links[l].user /\ r.link = l
  BY <1>2, Rows DEF Handler, Steps
<1> HIDE DEF r
<1>4. req'[h] = r /\ \A i \in Handlers \ {h} : req'[i] = req[i]
  BY <1>1, <1>3, GoOn
<1>5. \A i \in Handlers : Marked(i) => req[i].link # l
  BY <1>1 DEF IInv, HandlerOK, Found, Marked, Exchanging
<1>6. \A i \in Handlers \ {h} : Marked(i)' => req'[i].link # l
  BY <1>4, <1>5 DEF Marked
<1>7. HandlerOK(h)' /\ ~Marked(h)'
  BY <1>1, <1>2, <1>3, <1>4, <1>6 DEF HandlerOK, Creating, Exchanging, Marked, Scoped, Cleared, Found, First
<1> QED BY <1>1, <1>3, <1>7, QuietOK

\* The first mark tells the others that found the link.
LEMMA ExchangeMarkKeeps ==
    ASSUME IInv, NEW h \in Handlers, ExchangeMark(h)
    PROVE  IInv'
<1> DEFINE l == req[h].link
<1>0. /\ req[h] \in Handler /\ HandlerOK(h) /\ req \in [Handlers -> Handler] /\ links \in [Links -> Link]
  BY DEF IInv, TypeOK
<1>1. /\ req[h].step = "mark" /\ links' = Used(l) /\ UNCHANGED <<now, status, open, jtis>>
      /\ req' = [i \in Handlers |->
                   IF i = h THEN [req[h] EXCEPT !.step = "check_user"]
                   ELSE IF req[i].link = l THEN [req[i] EXCEPT !.late = TRUE]
                   ELSE req[i]]
  BY DEF ExchangeMark
<1>2. l \in Links /\ links[l].state # "none" /\ req[h].user \in Users
  BY <1>0, <1>1 DEF HandlerOK, Found, Exchanging
<1>3. /\ req'[h] \in Handler /\ req'[h].step = "check_user" /\ req'[h].user = req[h].user
      /\ req'[h].link = l /\ req'[h].late = req[h].late
  <2>1. req'[h] = [req[h] EXCEPT !.step = "check_user"]
    BY <1>1
  <2> QED BY <2>1, <1>0 DEF Handler, Steps
<1> HIDE DEF l
<1>4. \A i \in Handlers \ {h} : req'[i] = IF req[i].link = l THEN [req[i] EXCEPT !.late = TRUE] ELSE req[i]
  BY <1>1
<1>5. ASSUME NEW i \in Handlers, i # h
      PROVE  /\ req'[i] = req[i] \/ req'[i] = [req[i] EXCEPT !.late = TRUE]
             /\ req'[i] \in Handler /\ req'[i].step = req[i].step /\ req'[i].link = req[i].link
             /\ req[i].link = l => req'[i].late
  <2>1. req'[i] = IF req[i].link = l THEN [req[i] EXCEPT !.late = TRUE] ELSE req[i]
    BY <1>4, <1>5
  <2>2. req[i] \in Handler
    BY <1>0
  <2> QED BY <2>1, <2>2 DEF Handler
<1>6. LinksQuiet /\ links' \in [Links -> Link] /\ links'[l].state \notin {"none", "unused"}
  <2> DEFINE row == [links[l] EXCEPT !.state = "used", !.created = 0, !.expires = 0, !.late = FALSE]
  <2>1. CASE InTable(l)
    <3>1. links' = [links EXCEPT ![l] = row]
      BY <1>1, <2>1 DEF Used
    <3>2. row \in Link /\ row.state = "used" /\ row.user = links[l].user /\ row.ticket = links[l].ticket
      BY <1>0, <1>2 DEF Link
    <3> HIDE DEF row
    <3>3. links'[l] = row /\ \A m \in Links : m # l => links'[m] = links[m]
      BY <3>1, <1>0, <1>2
    <3> QED BY <3>1, <3>2, <3>3, <2>1, <1>0, <1>2 DEF LinksQuiet, InTable
  <2>2. CASE ~InTable(l)
    <3>1. links' = links
      BY <1>1, <2>2 DEF Used
    <3> QED BY <3>1, <2>2, <1>0, <1>2, LinksSame DEF InTable
  <2> QED BY <2>1, <2>2
<1>7. TypeOK'
  <2>1. \A i \in Handlers : req'[i] \in Handler
    BY <1>3, <1>5
  <2>2. req' = [i \in Handlers |-> req'[i]]
    BY <1>1
  <2> QED BY <2>1, <2>2, <1>1, <1>6 DEF IInv, TypeOK
<1>8. JtisQuiet
  BY <1>1, JtisSame
<1>9. ASSUME NEW i \in Handlers, i # h PROVE HandlerOK(i)'
  <2>1. \A k \in Handlers \ {i} :
             Marked(k)' => \/ Marked(k) /\ req'[k].link = req[k].link
                           \/ req'[k].link # req[i].link
                           \/ req'[i].late
    BY <1>3, <1>5, <1>9 DEF Marked
  <2> QED BY <2>1, <1>5, <1>6, <1>8, <1>9, OtherOK
<1>10. HandlerOK(h)'
  <2>1. First(h)'
    <3> SUFFICES ASSUME ~req[h].late
                 PROVE  /\ \A j \in Jtis : jtis'[j].link # l
                        /\ \A i \in Handlers \ {h} : Marked(i)' => req'[i].link # l
      BY <1>3 DEF First
    <3>1. /\ \A j \in Jtis : jtis[j].link # l
          /\ \A i \in Handlers \ {h} : Marked(i) => req[i].link # l
      BY <1>0, <1>1 DEF HandlerOK, First, Exchanging, l
    <3> QED BY <3>1, <1>1, <1>5 DEF Marked
  <2>2. Found(h)'
    BY <1>2, <1>3, <1>6 DEF Found
  <2> QED BY <2>1, <2>2, <1>2, <1>3 DEF HandlerOK, Creating, Scoped, Cleared
<1>11. NoOrphans' /\ JtisOK'
  BY <1>1, <1>6, <1>8 DEF IInv, NoOrphans, JtisOK, LinksQuiet, JtisQuiet
<1> QED BY <1>6, <1>7, <1>8, <1>9, <1>10, <1>11, RowsKept DEF IInv

LEMMA ExchangeUserKeeps ==
    ASSUME IInv, NEW h \in Handlers, ExchangeUser(h)
    PROVE  IInv'
<1> DEFINE r == [req[h] EXCEPT !.step = "insert_jti", !.expires = Expiry]
<1>0. req[h] \in Handler /\ HandlerOK(h) /\ Expiry \in Nat
  BY TimesAssumption DEF IInv, TypeOK, Expiry
<1>1. /\ req[h].step = "check_user" /\ UNCHANGED <<now, status, open, links, jtis>>
      /\ Begin(h, Idle) \/ Begin(h, r)
  BY DEF ExchangeUser
<1>2. CASE Begin(h, Idle)
  BY <1>1, <1>2, FinishKeeps
<1>3. CASE Begin(h, r)
  <2>1. /\ r \in Handler /\ r.step = "insert_jti" /\ r.user = req[h].user /\ r.link = req[h].link
        /\ r.late = req[h].late
    BY <1>0 DEF Handler, Steps
  <2> HIDE DEF r
  <2>2. req'[h] = r /\ \A i \in Handlers \ {h} : req'[i] = req[i]
    BY <1>3, <2>1, GoOn
  <2>3. First(h)'
    BY <1>0, <1>1, <2>1, <2>2 DEF HandlerOK, First, Exchanging, Marked
  <2>4. HandlerOK(h)' /\ Marked(h)
    BY <1>0, <1>1, <2>1, <2>2, <2>3 DEF HandlerOK, Creating, Exchanging, Marked, Scoped, Cleared, Found
  <2> QED BY <1>1, <1>3, <2>1, <2>4, QuietOK
<1> QED BY <1>1, <1>2, <1>3

\* Who inserts a second token of the link knows that it was overtaken.
LEMMA ExchangeInsertKeeps ==
    ASSUME IInv, NEW h \in Handlers, NEW j \in Jtis, ExchangeInsert(h, j)
    PROVE  IInv'
<1> DEFINE r == req[h]
           n == [Idle EXCEPT !.step = "answer", !.jti = j]
           row == [state |-> "active", user |-> r.user, link |-> r.link,
                   expires |-> r.expires, late |-> r.late, out |-> FALSE]
<1>0. /\ r \in Handler /\ HandlerOK(h) /\ req \in [Handlers -> Handler] /\ jtis \in [Jtis -> Jti]
  BY DEF IInv, TypeOK
<1>1. /\ r.step = "insert_jti" /\ jtis[j].state = "none" /\ status[r.user] # "gone"
      /\ jtis' = [jtis EXCEPT ![j] = row] /\ req' = [req EXCEPT ![h] = n]
      /\ UNCHANGED <<now, status, open, links>>
  BY DEF ExchangeInsert, References, Begin
<1>2. /\ r.user \in Users /\ r.link \in Links /\ links[r.link].state \notin {"none", "unused"}
      /\ ~r.late => \A i \in Jtis : jtis[i].link # r.link
  BY <1>0, <1>1 DEF HandlerOK, Exchanging, Marked, Found, First
<1>3. /\ row \in Jti /\ row.state = "active" /\ row.user = r.user /\ row.link = r.link /\ row.late = r.late
      /\ n \in Handler /\ n.step = "answer" /\ n.jti = j
  BY <1>0, <1>2, Rows DEF Jti, Handler, Steps
<1> HIDE DEF row, n
<1>4. /\ jtis'[j] = row /\ \A i \in Jtis : i # j => jtis'[i] = jtis[i]
      /\ req'[h] = n /\ \A i \in Handlers \ {h} : req'[i] = req[i]
  BY <1>0, <1>1
<1>5. TypeOK'
  BY <1>0, <1>1, <1>3 DEF IInv, TypeOK
<1>6. HandlerOK(h)'
  BY <1>3, <1>4 DEF HandlerOK, Creating, Exchanging, Scoped, Cleared, Found, First
<1>7. ASSUME NEW i \in Handlers, i # h PROVE HandlerOK(i)'
  <2>1. HandlerOK(i) /\ req'[i] = req[i]
    BY <1>4, <1>7 DEF IInv
  <2>2. First(i)'
    <3> SUFFICES ASSUME Exchanging(i), ~req[i].late
                 PROVE  /\ \A k \in Jtis : jtis'[k].link # req[i].link
                        /\ \A k \in Handlers \ {i} : Marked(k)' => req'[k].link # req[i].link
      BY <2>1 DEF First, Exchanging
    <3>1. /\ \A k \in Jtis : jtis[k].link # req[i].link
          /\ \A k \in Handlers \ {i} : Marked(k) => req[k].link # req[i].link
      BY <2>1 DEF HandlerOK, First
    <3>2. r.link # req[i].link
      BY <1>1, <1>7, <3>1 DEF Marked
    <3>3. \A k \in Handlers : Marked(k)' => Marked(k) /\ req'[k].link = req[k].link
      BY <1>3, <1>4 DEF Marked
    <3> QED BY <1>3, <1>4, <3>1, <3>2, <3>3
  <2>3. req'[i].step = "answer" => req'[i].jti \in Jtis /\ jtis'[req'[i].jti].state # "none"
    BY <1>3, <1>4, <2>1 DEF HandlerOK
  <2> QED BY <1>1, <2>1, <2>2, <2>3 DEF HandlerOK, Creating, Exchanging, Marked, Scoped, Cleared, Found
<1>8. OneTokenUnlessRaced'
  <2> SUFFICES ASSUME NEW i \in Jtis, NEW k \in Jtis, i # k, jtis'[i].link \in Links,
                      jtis'[i].link = jtis'[k].link
               PROVE  jtis'[i].late \/ jtis'[k].late
    BY DEF OneTokenUnlessRaced
  <2>1. CASE i # j /\ k # j
    BY <2>1, <1>4 DEF IInv, OneTokenUnlessRaced
  <2>2. CASE i = j \/ k = j
    BY <2>2, <1>2, <1>3, <1>4
  <2> QED BY <2>1, <2>2
<1>9. NoOrphans'
  BY <1>1, <1>3, <1>4 DEF IInv, NoOrphans, IsActive, InTable
<1>10. LinksOK'
  BY <1>1, <1>2, <1>3, <1>4 DEF IInv, LinksOK, InTable
<1>11. JtisOK'
  BY <1>1, <1>2, <1>3, <1>4 DEF IInv, JtisOK
<1>12. OneLinkUnlessRaced'
  BY <1>1 DEF IInv, OneLinkUnlessRaced, UnusedOf
<1> QED BY <1>5, <1>6, <1>7, <1>8, <1>9, <1>10, <1>11, <1>12 DEF IInv

LEMMA ExchangeAnswerKeeps ==
    ASSUME IInv, NEW h \in Handlers, ExchangeAnswer(h)
    PROVE  IInv'
<1> DEFINE j == req[h].jti
           row == [jtis[j] EXCEPT !.out = TRUE]
<1>0. HandlerOK(h) /\ jtis \in [Jtis -> Jti]
  BY DEF IInv, TypeOK
<1>1. /\ jtis' = [jtis EXCEPT ![j] = row] /\ Begin(h, Idle) /\ UNCHANGED <<now, status, open, links>>
      /\ j \in Jtis /\ jtis[j].state # "none"
  BY <1>0 DEF ExchangeAnswer, HandlerOK
<1>2. /\ row \in Jti /\ row.state = jtis[j].state /\ row.user = jtis[j].user /\ row.link = jtis[j].link
      /\ row.late = jtis[j].late /\ row.expires = jtis[j].expires
  BY <1>0, <1>1 DEF Jti
<1> HIDE DEF row, j
<1>3. /\ jtis'[j] = row /\ \A i \in Jtis : i # j => jtis'[i] = jtis[i]
      /\ jtis' \in [Jtis -> Jti]
  BY <1>0, <1>1, <1>2
<1>4. JtisQuiet /\ JtisOK'
  BY <1>1, <1>2, <1>3 DEF IInv, JtisQuiet, JtisOK, IsActive
<1>5. links' \in [Links -> Link]
  BY <1>1 DEF IInv, TypeOK
<1>6. req'[h] = Idle
  BY <1>1, Rows, GoOn
<1> QED BY <1>1, <1>3, <1>4, <1>5, <1>6, Rows, IdleOK, LinksSame, StepOK

LEMMA AbortKeeps == ASSUME IInv, NEW h \in Handlers, Abort(h) PROVE IInv'
BY FinishKeeps DEF Abort

-----------------------------------------------------------------------------
(* Revocation, deletion and cleanup *)

\* A step of nobody's exchange.
LEMMA OutsideOK ==
    ASSUME IInv, LinksQuiet, JtisQuiet, UNCHANGED req, TypeOK', NoOrphans', JtisOK'
    PROVE  IInv'
<1>1. \A h \in Handlers : HandlerOK(h)'
  BY OtherOK DEF Marked
<1> QED BY <1>1, RowsKept DEF IInv

LEMMA RevokeKeeps == ASSUME IInv, NEW u \in Users, RevokeForUser(u) PROVE IInv'
<1>0. jtis \in [Jtis -> Jti]
  BY DEF IInv, TypeOK
<1>1. /\ UNCHANGED <<now, status, open, links, req>>
      /\ jtis' = [j \in Jtis |-> IF jtis[j].user = u /\ IsActive(j)
                                 THEN [jtis[j] EXCEPT !.state = "revoked"] ELSE jtis[j]]
  BY DEF RevokeForUser
<1>2. ASSUME NEW j \in Jtis
      PROVE  /\ jtis'[j] \in Jti /\ jtis'[j].link = jtis[j].link /\ jtis'[j].user = jtis[j].user
             /\ jtis'[j].late = jtis[j].late /\ jtis'[j].out = jtis[j].out
             /\ \/ jtis'[j].state = jtis[j].state /\ jtis'[j].expires = jtis[j].expires
                \/ jtis[j].state = "active" /\ jtis'[j].state = "revoked"
  <2>1. jtis'[j] = jtis[j] \/ (jtis[j].state = "active" /\ jtis'[j] = [jtis[j] EXCEPT !.state = "revoked"])
    BY <1>1 DEF IsActive
  <2>2. jtis[j] \in Jti
    BY <1>0
  <2> QED BY <2>1, <2>2 DEF Jti
<1>3. TypeOK'
  <2>1. jtis' = [j \in Jtis |-> jtis'[j]]
    BY <1>1
  <2> QED BY <2>1, <1>1, <1>2 DEF IInv, TypeOK
<1>4. JtisQuiet /\ JtisOK'
  BY <1>1, <1>2 DEF IInv, JtisQuiet, JtisOK, IsActive
<1>5. NoOrphans'
  BY <1>1, <1>4 DEF IInv, NoOrphans, InTable, JtisQuiet
<1> QED BY <1>1, <1>3, <1>4, <1>5, LinksSame, OutsideOK

\* The status of a user changes, and its row stays.
LEMMA SoftKeeps == ASSUME IInv, NEW u \in Users, SoftDelete(u) \/ Restore(u) PROVE IInv'
<1>1. /\ UNCHANGED <<now, open, links, jtis, req>> /\ status[u] # "gone"
      /\ status' = [status EXCEPT ![u] = "soft"] \/ status' = [status EXCEPT ![u] = "active"]
  BY DEF SoftDelete, Restore
<1>2. /\ status' \in [Users -> {"active", "soft", "gone"}]
      /\ \A v \in Users : status'[v] = "gone" <=> status[v] = "gone"
  BY <1>1 DEF IInv, TypeOK
<1>3. TypeOK'
  BY <1>1, <1>2 DEF IInv, TypeOK
<1>4. \A l \in Links : InTable(l) => links[l].user \in Users
  BY DEF IInv, LinksOK
<1>5. NoOrphans' /\ JtisOK'
  BY <1>1, <1>2, <1>4 DEF IInv, NoOrphans, JtisOK, InTable, IsActive
<1> QED BY <1>1, <1>3, <1>5, LinksSame, JtisSame, OutsideOK

\* With a user go its tickets, its links and its tokens.
LEMMA HardDeleteKeeps == ASSUME IInv, NEW u \in Users, HardDelete(u) PROVE IInv'
<1> DEFINE L == {l \in Links : InTable(l) /\ links[l].user = u}
<1>0. /\ jtis \in [Jtis -> Jti] /\ links \in [Links -> Link] /\ open \subseteq Tickets
      /\ status \in [Users -> {"active", "soft", "gone"}]
  BY DEF IInv, TypeOK
<1>1. /\ UNCHANGED <<now, req>> /\ status' = [status EXCEPT ![u] = "gone"]
      /\ open' = {t \in open : ClientOf[t] # u} /\ links' = Delete(L)
      /\ jtis' = [j \in Jtis |-> IF jtis[j].user = u THEN [jtis[j] EXCEPT !.state = "gone"] ELSE jtis[j]]
  BY DEF HardDelete
<1>2. status'[u] = "gone" /\ \A v \in Users : v # u => status'[v] = status[v]
  BY <1>0, <1>1
<1>3. L \in SUBSET {l \in Links : InTable(l)}
  OBVIOUS
<1> HIDE DEF L
<1>4. /\ LinksQuiet /\ links' \in [Links -> Link]
      /\ \A l \in L : links'[l].state = "gone"
      /\ \A l \in Links \ L : links'[l] = links[l]
  BY <1>1, <1>3, DeleteQuiet
<1>5. ASSUME NEW j \in Jtis
      PROVE  /\ jtis'[j] \in Jti /\ jtis'[j].link = jtis[j].link /\ jtis'[j].user = jtis[j].user
             /\ jtis'[j].late = jtis[j].late /\ jtis'[j].out = jtis[j].out /\ jtis'[j].expires = jtis[j].expires
             /\ jtis[j].user = u => jtis'[j].state = "gone"
             /\ jtis[j].user # u => jtis'[j].state = jtis[j].state
  <2>1. jtis'[j] = IF jtis[j].user = u THEN [jtis[j] EXCEPT !.state = "gone"] ELSE jtis[j]
    BY <1>1
  <2>2. jtis[j] \in Jti
    BY <1>0
  <2> QED BY <2>1, <2>2 DEF Jti
<1>6. TypeOK'
  <2>1. jtis' = [j \in Jtis |-> jtis'[j]]
    BY <1>1
  <2> QED BY <2>1, <1>0, <1>1, <1>4, <1>5 DEF IInv, TypeOK
<1>7. JtisQuiet
  BY <1>5 DEF JtisQuiet, IsActive
<1>8. JtisOK'
  <2> SUFFICES ASSUME NEW j \in Jtis
               PROVE  /\ jtis'[j].state = "none" => ~jtis'[j].out
                      /\ jtis'[j].state # "none" => jtis'[j].user \in Users
                      /\ jtis'[j].state = "gone" => jtis'[j].expires < now \/ status'[jtis'[j].user] = "gone"
    BY <1>1 DEF JtisOK
  <2>1. CASE jtis[j].user = u
    BY <2>1, <1>2, <1>5
  <2>2. CASE jtis[j].user # u
    BY <2>2, <1>1, <1>5 DEF IInv, JtisOK
  <2> QED BY <2>1, <2>2
<1>9. NoOrphans'
  <2>1. ASSUME NEW l \in Links, InTable(l)'
        PROVE  status'[links'[l].user] # "gone" /\ links'[l].ticket \in open' \cup {NoTicket}
    <3>1. InTable(l) /\ links'[l].user = links[l].user /\ links'[l].ticket = links[l].ticket
      BY <2>1, <1>4 DEF LinksQuiet
    <3>2. l \notin L
      BY <2>1, <1>4 DEF InTable
    <3>3. links[l].user # u
      BY <3>1, <3>2 DEF L
    <3>4. /\ links[l].user \in Users /\ status[links[l].user] # "gone"
          /\ links[l].ticket \in open \cup {NoTicket}
          /\ links[l].ticket # NoTicket => ClientOf[links[l].ticket] = links[l].user
      BY <3>1 DEF IInv, NoOrphans, LinksOK
    <3> QED BY <3>1, <3>3, <3>4, <1>1, <1>2
  <2>2. ASSUME NEW j \in Jtis, IsActive(j)' PROVE status'[jtis'[j].user] # "gone"
    <3>1. jtis[j].user # u /\ IsActive(j)
      BY <2>2, <1>5 DEF IsActive
    <3> QED BY <3>1, <1>1, <1>5 DEF IInv, NoOrphans
  <2> QED BY <2>1, <2>2 DEF NoOrphans
<1> QED BY <1>1, <1>4, <1>6, <1>7, <1>8, <1>9, OutsideOK

LEMMA DeleteTicketKeeps == ASSUME IInv, NEW t \in Tickets, DeleteTicket(t) PROVE IInv'
<1> DEFINE L == {l \in Links : InTable(l) /\ links[l].ticket = t}
<1>1. /\ UNCHANGED <<now, status, jtis, req>> /\ open' = open \ {t} /\ links' = Delete(L)
  BY DEF DeleteTicket
<1>2. L \in SUBSET {l \in Links : InTable(l)}
  OBVIOUS
<1> HIDE DEF L
<1>3. /\ LinksQuiet /\ links' \in [Links -> Link] /\ \A l \in L : links'[l].state = "gone"
  BY <1>1, <1>2, DeleteQuiet
<1>4. TypeOK' /\ JtisOK'
  BY <1>1, <1>3 DEF IInv, TypeOK, JtisOK
<1>5. NoOrphans'
  <2>1. ASSUME NEW l \in Links, InTable(l)'
        PROVE  status[links'[l].user] # "gone" /\ links'[l].ticket \in open' \cup {NoTicket}
    <3>1. InTable(l) /\ links'[l].user = links[l].user /\ links'[l].ticket = links[l].ticket /\ l \notin L
      BY <2>1, <1>3 DEF LinksQuiet, InTable
    <3> QED BY <3>1, <1>1 DEF IInv, NoOrphans, L
  <2> QED BY <2>1, <1>1 DEF IInv, NoOrphans, IsActive
<1> QED BY <1>1, <1>3, <1>4, <1>5, JtisSame, OutsideOK

\* Only expired rows are cleaned up.
LEMMA CleanupKeeps == ASSUME IInv, Cleanup PROVE IInv'
<1>0. jtis \in [Jtis -> Jti]
  BY DEF IInv, TypeOK
<1>1. /\ UNCHANGED <<now, status, open, links, req>>
      /\ jtis' = [j \in Jtis |-> IF jtis[j].state \in {"active", "revoked"} /\ Expired(j)
                                 THEN [jtis[j] EXCEPT !.state = "gone"] ELSE jtis[j]]
  BY DEF Cleanup
<1>2. ASSUME NEW j \in Jtis
      PROVE  /\ jtis'[j] \in Jti /\ jtis'[j].link = jtis[j].link /\ jtis'[j].user = jtis[j].user
             /\ jtis'[j].late = jtis[j].late /\ jtis'[j].out = jtis[j].out /\ jtis'[j].expires = jtis[j].expires
             /\ \/ jtis'[j].state = jtis[j].state
                \/ jtis[j].state # "none" /\ jtis'[j].state = "gone" /\ jtis[j].expires < now
  <2>1. \/ jtis'[j] = jtis[j]
        \/ /\ jtis[j].state # "none" /\ jtis[j].expires < now
           /\ jtis'[j] = [jtis[j] EXCEPT !.state = "gone"]
    BY <1>1 DEF Expired
  <2>2. jtis[j] \in Jti
    BY <1>0
  <2> QED BY <2>1, <2>2 DEF Jti
<1>3. TypeOK'
  <2>1. jtis' = [j \in Jtis |-> jtis'[j]]
    BY <1>1
  <2> QED BY <2>1, <1>1, <1>2 DEF IInv, TypeOK
<1>4. JtisQuiet /\ JtisOK'
  BY <1>1, <1>2 DEF IInv, JtisQuiet, JtisOK, IsActive
<1>5. NoOrphans'
  BY <1>1, <1>4 DEF IInv, NoOrphans, InTable, JtisQuiet
<1> QED BY <1>1, <1>3, <1>4, <1>5, LinksSame, OutsideOK

LEMMA TickKeeps == ASSUME IInv, Tick PROVE IInv'
<1>1. now \in Nat /\ now' = now + 1 /\ UNCHANGED <<status, open, links, jtis, req>> /\ jtis \in [Jtis -> Jti]
  BY DEF IInv, TypeOK, Tick
<1>2. JtisOK'
  <2>1. \A j \in Jtis : jtis[j].expires \in Nat
    BY <1>1 DEF Jti
  <2>2. \A j \in Jtis : jtis[j].expires < now => jtis[j].expires < now'
    BY <1>1, <2>1
  <2> QED BY <1>1, <2>2 DEF IInv, JtisOK
<1>3. TypeOK' /\ NoOrphans'
  BY <1>1 DEF IInv, TypeOK, NoOrphans, InTable, IsActive
<1> QED BY <1>1, <1>2, <1>3, LinksSame, JtisSame, OutsideOK

-----------------------------------------------------------------------------
(* The theorems *)

LEMMA IInvStep == IInv /\ [Next]_vars => IInv'
<1> SUFFICES ASSUME IInv, [Next]_vars PROVE IInv'
  OBVIOUS
<1>1. CASE UNCHANGED vars
  <2>1. UNCHANGED <<now, status, open, links, jtis, req>>
    BY <1>1 DEF vars
  <2>2. TypeOK' /\ NoOrphans' /\ JtisOK'
    BY <2>1 DEF IInv, TypeOK, NoOrphans, JtisOK, InTable, IsActive
  <2> QED BY <2>1, <2>2, LinksSame, JtisSame, OutsideOK
<1>2. ASSUME NEW h \in Handlers, HandlerStep(h) PROVE IInv'
  <2>1. CASE RequestThrottle(h) \/ CreateFind(h)
    BY <2>1, CreateStepsKeep
  <2>2. CASE ClearLinks(h)
    BY <2>2, ClearLinksKeeps
  <2>3. CASE ExchangeMark(h)
    BY <2>3, ExchangeMarkKeeps
  <2>4. CASE ExchangeUser(h)
    BY <2>4, ExchangeUserKeeps
  <2>5. CASE ExchangeAnswer(h)
    BY <2>5, ExchangeAnswerKeeps
  <2>6. CASE Abort(h)
    BY <2>6, AbortKeeps
  <2>7. ASSUME NEW u \in Users, RequestFind(h, u) PROVE IInv'
    BY <2>7, AsksKeep DEF Scope
  <2>8. ASSUME NEW u \in Users, NEW t \in Scope, DeskAsks(h, u, t) PROVE IInv'
    BY <2>8, AsksKeep
  <2>9. ASSUME NEW l \in Links, InsertLink(h, l) PROVE IInv'
    BY <2>9, InsertLinkKeeps
  <2>10. ASSUME NEW l \in Links, ExchangeFind(h, l) PROVE IInv'
    BY <2>10, ExchangeFindKeeps
  <2>11. ASSUME NEW j \in Jtis, ExchangeInsert(h, j) PROVE IInv'
    BY <2>11, ExchangeInsertKeeps
  <2> QED BY <1>2, <2>1, <2>2, <2>3, <2>4, <2>5, <2>6, <2>7, <2>8, <2>9, <2>10, <2>11 DEF HandlerStep
<1>3. ASSUME NEW u \in Users, UserStep(u) PROVE IInv'
  BY <1>3, RevokeKeeps, SoftKeeps, HardDeleteKeeps DEF UserStep
<1>4. ASSUME NEW t \in Tickets, DeleteTicket(t) PROVE IInv'
  BY <1>4, DeleteTicketKeeps
<1> QED BY <1>1, <1>2, <1>3, <1>4, CleanupKeeps, TickKeeps DEF Next

\* Every reachable state satisfies IInv.
THEOREM Invariance == Spec => []IInv
BY IInvInit, IInvStep, PTL DEF Spec

\* Unless requests overlap, a link is the only unused one of its user and
\* scope, and a token the only one of its link.
THEOREM InvHolds == Spec => []Inv
<1>1. IInv => Inv
  BY DEF IInv, Inv
<1> QED BY <1>1, Invariance, PTL

\* No link without its user and ticket, no accepted token without its user.
THEOREM NoOrphansHolds == Spec => []NoOrphans
<1>1. IInv => NoOrphans
  BY DEF IInv
<1> QED BY <1>1, Invariance, PTL

\* A token in the client's hands is honoured until it expires.
THEOREM TokenHonouredHolds == Spec => []TokenHonoured
<1>1. ASSUME IInv PROVE TokenHonoured
  <2> SUFFICES ASSUME NEW j \in Jtis, jtis[j].out, jtis[j].expires >= now
               PROVE  jtis[j].state \in {"active", "revoked"} \/ status[jtis[j].user] = "gone"
    BY DEF TokenHonoured
  <2>1. jtis[j].expires \in Nat /\ now \in Nat /\ jtis[j].state \in {"none", "active", "revoked", "gone"}
    BY <1>1 DEF IInv, TypeOK, Jti
  <2>2. ~(jtis[j].expires < now)
    BY <2>1
  <2> QED BY <1>1, <2>1, <2>2 DEF IInv, JtisOK
<1> QED BY <1>1, Invariance, PTL

=============================================================================
