------------------------------ MODULE TicketsProofs ------------------------------
(***************************************************************************)
(* Proofs about Tickets, for any tickets, messages and handlers.           *)
(***************************************************************************)
EXTENDS Tickets, TLAPS

-----------------------------------------------------------------------------
(* The invariant *)

\* The handler posts a message it has not inserted yet.
Posting(h) == req[h].step \in {"upload", "read", "reopen", "insert"}

\* What a handler holds at each step; what it knows of the status is true
\* unless it is stale.
HandlerOK(h) ==
    /\ req[h].step # "idle" => req[h].ticket \in Tickets /\ status[req[h].ticket] # "none"
    /\ Posting(h) => /\ req[h].message \in Messages /\ req[h].target = "open"
                     /\ thread[req[h].message].state = "none"
    /\ ~Posting(h) => req[h].message = NoMessage
    /\ req[h].step = "rmdir" => status[req[h].ticket] = "gone"
    /\ req[h].step \in {"read", "reopen", "insert"} /\ req[h].file /\ Exists(req[h].ticket) =>
         req[h].message \in files /\ hist.home[req[h].message] = req[h].ticket
    /\ req[h].step = "write" /\ ~req[h].stale => <<status[req[h].ticket], req[h].target>> \in Documented
    /\ req[h].step = "reopen" /\ ~req[h].stale => status[req[h].ticket] = "closed"
    /\ req[h].step = "insert" /\ ~req[h].stale => status[req[h].ticket] # "closed"

\* No two handlers post one message.
Distinct == \A h, i \in Handlers : Posting(h) /\ Posting(i) /\ req[h].message = req[i].message => h = i

\* A message belongs to a ticket that is there, and so does its file.
ThreadOK ==
    \A m \in Messages :
        /\ thread[m].state # "posted" => thread[m].ticket = NoTicket
        /\ thread[m].state = "posted" =>
             /\ thread[m].ticket \in Tickets /\ Exists(thread[m].ticket)
             /\ thread[m].file => m \in files /\ hist.home[m] = thread[m].ticket

FilesOK == DeletedTicketsLeaveNoFiles /\ \A m \in files : hist.home[m] \in Tickets

IInv == TypeOK /\ (\A h \in Handlers : HandlerOK(h)) /\ Distinct /\ ThreadOK /\ FilesOK

-----------------------------------------------------------------------------
(* What each kind of step keeps *)

\* Nothing is there at first.
LEMMA IInvInit == Init => IInv
<1> SUFFICES ASSUME Init PROVE IInv
  OBVIOUS
<1>1. Idle \in Handler /\ NoRow \in Row
  BY DEF Idle, Handler, Steps, Statuses, NoRow, Row
<1>2. TypeOK
  BY <1>1 DEF Init, TypeOK
<1>3. \A h \in Handlers : HandlerOK(h) /\ ~Posting(h)
  BY DEF Init, HandlerOK, Posting, Idle
<1>4. ThreadOK /\ FilesOK
  BY DEF Init, ThreadOK, FilesOK, DeletedTicketsLeaveNoFiles, NoRow
<1> QED BY <1>2, <1>3, <1>4 DEF IInv, Distinct

\* A handler that does not act: its ticket stays as it was, or it is told.
LEMMA OtherOK ==
    ASSUME IInv, NEW i \in Handlers,
           req'[i] = req[i] \/ req'[i] = [req[i] EXCEPT !.stale = TRUE],
           req[i].step # "idle" =>
             \/ status'[req[i].ticket] = status[req[i].ticket]
             \/ /\ req'[i].stale /\ Exists(req[i].ticket)
                /\ status'[req[i].ticket] \in Statuses \cup {"gone"},
           Posting(i) => thread'[req[i].message].state = "none",
           Posting(i) /\ req[i].message \in files /\ Exists(hist.home[req[i].message]) =>
             /\ req[i].message \in files'
             /\ hist'.home[req[i].message] = hist.home[req[i].message]
    PROVE  HandlerOK(i)'
<1>1. req[i] \in Handler
  BY DEF IInv, TypeOK
<1>2. /\ req'[i].step = req[i].step /\ req'[i].ticket = req[i].ticket /\ req'[i].target = req[i].target
      /\ req'[i].message = req[i].message /\ req'[i].file = req[i].file
      /\ req[i].stale => req'[i].stale
  BY <1>1 DEF Handler
<1>3. HandlerOK(i)
  BY DEF IInv
<1>4. req[i].step # "idle" /\ Exists(req[i].ticket)' => Exists(req[i].ticket)
  BY <1>2 DEF Exists
<1>5. Posting(i)' <=> Posting(i)
  BY <1>2 DEF Posting
<1>6. /\ req'[i].step # "idle" => req'[i].ticket \in Tickets /\ status'[req'[i].ticket] # "none"
      /\ req'[i].step = "rmdir" => status'[req'[i].ticket] = "gone"
  BY <1>2, <1>3 DEF HandlerOK, Exists, Statuses
<1>7. /\ Posting(i) => /\ req'[i].message \in Messages /\ req'[i].target = "open"
                       /\ thread'[req'[i].message].state = "none"
      /\ ~Posting(i) => req'[i].message = NoMessage
  BY <1>2, <1>3 DEF HandlerOK
<1>8. req'[i].step \in {"read", "reopen", "insert"} /\ req'[i].file /\ Exists(req[i].ticket)' =>
         req'[i].message \in files' /\ hist'.home[req'[i].message] = req'[i].ticket
  BY <1>2, <1>3, <1>4 DEF HandlerOK, Posting
<1>9. ~req'[i].stale /\ req'[i].step # "idle" =>
         ~req[i].stale /\ status'[req'[i].ticket] = status[req[i].ticket]
  BY <1>2
<1>10. /\ req'[i].step = "write" /\ ~req'[i].stale => <<status'[req'[i].ticket], req'[i].target>> \in Documented
       /\ req'[i].step = "reopen" /\ ~req'[i].stale => status'[req'[i].ticket] = "closed"
       /\ req'[i].step = "insert" /\ ~req'[i].stale => status'[req'[i].ticket] # "closed"
  BY <1>2, <1>3, <1>9 DEF HandlerOK
<1> QED BY <1>2, <1>5, <1>6, <1>7, <1>8, <1>10 DEF HandlerOK, Exists

\* A step of one handler that leaves the rows and the files alone.
LEMMA QuietOK ==
    ASSUME IInv, NEW h \in Handlers, NEW r \in Handler, Begin(h, r), UNCHANGED <<status, thread, files>>,
           hist' \in [home: [Messages -> Tickets \cup {NoTicket}], late: SUBSET Messages, kept: SUBSET Tickets],
           hist'.home = hist.home, hist.late \subseteq hist'.late, hist.kept \subseteq hist'.kept,
           req[h].step = "rmdir" => req[h].ticket \in hist'.kept,
           HandlerOK(h)',
           Posting(h)' => \A i \in Handlers \ {h} : Posting(i) => req[i].message # r.message
    PROVE  IInv'
<1>1. req' = [req EXCEPT ![h] = r] /\ req \in [Handlers -> Handler]
  BY DEF Begin, IInv, TypeOK
<1>2. TypeOK'
  BY <1>1 DEF IInv, TypeOK
<1>3. ASSUME NEW i \in Handlers, i # h PROVE HandlerOK(i)' /\ (Posting(i)' <=> Posting(i)) /\ req'[i] = req[i]
  <2>1. req'[i] = req[i]
    BY <1>1, <1>3
  <2>2. Posting(i) => thread[req[i].message].state = "none"
    BY DEF IInv, HandlerOK
  <2> QED BY <2>1, <2>2, OtherOK DEF Posting
<1>4. Distinct'
  BY <1>1, <1>3 DEF IInv, Distinct
<1>5. ThreadOK'
  BY DEF IInv, ThreadOK, Exists
<1>6. FilesOK'
  <2> SUFFICES ASSUME NEW m \in files, status[hist.home[m]] = "gone"
               PROVE  \/ m \in hist'.late
                      \/ hist.home[m] \in hist'.kept
                      \/ \E i \in Handlers : req'[i].step = "rmdir" /\ req'[i].ticket = hist.home[m]
    BY DEF IInv, FilesOK, DeletedTicketsLeaveNoFiles
  <2>1. CASE m \in hist.late \/ hist.home[m] \in hist.kept
    BY <2>1
  <2>2. ASSUME NEW i \in Handlers, req[i].step = "rmdir", req[i].ticket = hist.home[m]
        PROVE  hist.home[m] \in hist'.kept \/ (req'[i].step = "rmdir" /\ req'[i].ticket = hist.home[m])
    BY <1>3, <2>2
  <2> QED BY <2>1, <2>2 DEF IInv, FilesOK, DeletedTicketsLeaveNoFiles
<1> QED BY <1>2, <1>3, <1>4, <1>5, <1>6 DEF IInv

\* A handler that ends.
LEMMA IdleOK == ASSUME NEW h \in Handlers, req'[h] = Idle PROVE HandlerOK(h)' /\ ~Posting(h)'
BY DEF HandlerOK, Posting, Idle

\* Idle and what starts from it are handlers.
LEMMA IdleType ==
    /\ Idle \in Handler
    /\ \A s \in Steps, k \in Tickets, t \in Statuses :
         [Idle EXCEPT !.step = s, !.ticket = k, !.target = t] \in Handler
    /\ \A s \in Steps, k \in Tickets, m \in Messages, f \in BOOLEAN :
         [Idle EXCEPT !.step = s, !.ticket = k, !.message = m, !.file = f] \in Handler
BY DEF Idle, Handler, Steps, Statuses

\* A write of a ticket's status, by a handler that ends or goes on to insert.
LEMMA WriteOK ==
    ASSUME IInv, NEW h \in Handlers, NEW r,
           UpdateStatus(h, r), UNCHANGED <<thread, files, hist>>,
           \/ req[h].step \in {"initial", "write"} /\ r = Idle
           \/ req[h].step = "reopen" /\ r = [req[h] EXCEPT !.step = "insert", !.target = "open"]
    PROVE  IInv'
<1> DEFINE k == req[h].ticket
<1>0. req \in [Handlers -> Handler] /\ req[h] \in Handler /\ status \in [Tickets -> Statuses \cup {"none", "gone"}]
  BY DEF IInv, TypeOK
<1>1. HandlerOK(h) /\ k \in Tickets
  BY DEF IInv, HandlerOK
<1>2. r \in Handler
  <2>1. CASE r = Idle
    BY <2>1, IdleType
  <2>2. CASE r = [req[h] EXCEPT !.step = "insert", !.target = "open"]
    BY <2>2, <1>0 DEF Handler, Steps, Statuses
  <2> QED BY <2>1, <2>2
<1>3. CASE ~Exists(k)
  <2>1. Begin(h, Idle) /\ status' = status
    BY <1>3 DEF UpdateStatus
  <2>2. req'[h] = Idle
    BY <2>1, <1>0 DEF Begin
  <2>3. hist \in [home: [Messages -> Tickets \cup {NoTicket}], late: SUBSET Messages, kept: SUBSET Tickets]
    BY DEF IInv, TypeOK
  <2> QED BY <2>1, <2>2, <2>3, IdleOK, IdleType, QuietOK
<1>4. CASE Exists(k)
  <2>1. /\ status' = [status EXCEPT ![k] = req[h].target] /\ Overtake(h, k, r)
        /\ status'[k] = req[h].target /\ req[h].target \in Statuses
        /\ \A j \in Tickets : j # k => status'[j] = status[j]
    BY <1>0, <1>1, <1>4 DEF UpdateStatus, Handler
  <2> HIDE DEF k
  <2>2. /\ req'[h] = r
        /\ \A i \in Handlers \ {h} :
             req'[i] = IF req[i].ticket = k THEN [req[i] EXCEPT !.stale = TRUE] ELSE req[i]
    BY <2>1 DEF Overtake
  <2>3. \A i \in Handlers : req[i] \in Handler
    BY <1>0
  <2>4. \A i \in Handlers \ {h} :
          /\ req'[i] \in Handler /\ req'[i].step = req[i].step /\ req'[i].ticket = req[i].ticket
          /\ req'[i].message = req[i].message
    <3> SUFFICES ASSUME NEW i \in Handlers \ {h}
                 PROVE  /\ req'[i] \in Handler /\ req'[i].step = req[i].step
                        /\ req'[i].ticket = req[i].ticket /\ req'[i].message = req[i].message
      OBVIOUS
    <3>1. req'[i] = req[i] \/ req'[i] = [req[i] EXCEPT !.stale = TRUE]
      BY <2>2
    <3> QED BY <2>3, <3>1 DEF Handler
  <2>5. TypeOK'
    <3>1. DOMAIN req' = Handlers /\ req' = [i \in Handlers |-> req'[i]]
      BY <2>1 DEF Overtake
    <3>2. \A i \in Handlers : req'[i] \in Handler
      BY <1>2, <2>2, <2>4
    <3> QED BY <3>1, <3>2, <2>1, <1>0 DEF IInv, TypeOK
  <2>6. ASSUME NEW i \in Handlers, i # h PROVE HandlerOK(i)'
    <3>1. req'[i] = req[i] \/ req'[i] = [req[i] EXCEPT !.stale = TRUE]
      BY <2>2, <2>6
    <3>2. req[i].ticket = k => req'[i].stale
      BY <2>2, <2>3, <2>6 DEF Handler
    <3>3. HandlerOK(i)
      BY DEF IInv
    <3>4. req[i].step # "idle" => req[i].ticket \in Tickets
      BY <3>3 DEF HandlerOK
    <3>5. req[i].step # "idle" =>
             \/ status'[req[i].ticket] = status[req[i].ticket]
             \/ /\ req'[i].stale /\ Exists(req[i].ticket)
                /\ status'[req[i].ticket] \in Statuses \cup {"gone"}
      BY <3>2, <3>4, <2>1, <1>4
    <3>6. Posting(i) => thread'[req[i].message].state = "none"
      BY <3>3 DEF HandlerOK
    <3> QED BY <3>1, <3>5, <3>6, OtherOK
  <2>7. HandlerOK(h)'
    <3>1. CASE r = Idle
      BY <3>1, <2>2, IdleOK
    <3>2. CASE req[h].step = "reopen" /\ r = [req[h] EXCEPT !.step = "insert", !.target = "open"]
      <4>1. /\ req'[h].step = "insert" /\ req'[h].target = "open" /\ req'[h].ticket = k
            /\ req'[h].message = req[h].message /\ req'[h].file = req[h].file
        BY <3>2, <2>2, <1>0 DEF Handler, k
      <4>2. /\ req[h].message \in Messages /\ req[h].target = "open"
            /\ thread[req[h].message].state = "none"
            /\ req[h].file => req[h].message \in files /\ hist.home[req[h].message] = k
        BY <3>2, <1>1, <1>4 DEF HandlerOK, Posting, k
      <4>3. Posting(h)'
        BY <4>1 DEF Posting
      <4> QED BY <4>1, <4>2, <4>3, <2>1, <1>1 DEF HandlerOK
    <3> QED BY <3>1, <3>2
  <2>8. Posting(h)' => Posting(h) /\ req'[h].message = req[h].message
    <3>1. CASE r = Idle
      BY <3>1, <2>2, IdleOK
    <3>2. CASE req[h].step = "reopen" /\ r = [req[h] EXCEPT !.step = "insert", !.target = "open"]
      BY <3>2, <2>2, <1>0 DEF Handler, Posting
    <3> QED BY <3>1, <3>2
  <2>9. Distinct'
    <3>1. \A i \in Handlers : Posting(i)' => Posting(i) /\ req'[i].message = req[i].message
      BY <2>4, <2>8 DEF Posting
    <3> QED BY <3>1 DEF IInv, Distinct
  <2>10. \A j \in Tickets : /\ Exists(j) => Exists(j)'
                            /\ status'[j] = "gone" => status[j] = "gone"
    BY <2>1 DEF Exists, Statuses
  <2>11. ThreadOK'
    BY <2>10 DEF IInv, ThreadOK
  <2>12. FilesOK'
    <3> SUFFICES ASSUME NEW m \in files, status'[hist.home[m]] = "gone"
                 PROVE  \/ m \in hist.late
                        \/ hist.home[m] \in hist.kept
                        \/ \E i \in Handlers : req'[i].step = "rmdir" /\ req'[i].ticket = hist.home[m]
      BY DEF IInv, FilesOK, DeletedTicketsLeaveNoFiles
    <3>1. status[hist.home[m]] = "gone"
      BY <2>10 DEF IInv, FilesOK
    <3>2. ASSUME NEW i \in Handlers, req[i].step = "rmdir", req[i].ticket = hist.home[m]
          PROVE  req'[i].step = "rmdir" /\ req'[i].ticket = hist.home[m]
      BY <3>2, <2>4
    <3> QED BY <3>1, <3>2 DEF IInv, FilesOK, DeletedTicketsLeaveNoFiles
  <2> QED BY <2>5, <2>6, <2>7, <2>9, <2>11, <2>12 DEF IInv
<1> QED BY <1>3, <1>4

-----------------------------------------------------------------------------
(* The actions *)

\* A new ticket is nobody's yet.
LEMMA CreateTicketKeeps ==
    ASSUME IInv, NEW h \in Handlers, NEW k \in Tickets, NEW initial \in Statuses,
           CreateTicket(h, k, initial)
    PROVE  IInv'
<1> DEFINE r == IF initial = "open" THEN Idle
                ELSE [Idle EXCEPT !.step = "initial", !.ticket = k, !.target = initial]
<1>0. req \in [Handlers -> Handler] /\ status \in [Tickets -> Statuses \cup {"none", "gone"}]
  BY DEF IInv, TypeOK
<1>1. /\ status[k] = "none" /\ status' = [status EXCEPT ![k] = "open"]
      /\ req' = [req EXCEPT ![h] = r] /\ UNCHANGED <<thread, files, hist>>
  BY DEF CreateTicket, Begin
<1>2. status'[k] = "open" /\ \A j \in Tickets : j # k => status'[j] = status[j]
  BY <1>0, <1>1
<1>3. r \in Handler
  BY IdleType DEF Steps
<1>4. /\ HandlerOK(h)' /\ ~Posting(h)'
  <2>1. req'[h] = r
    BY <1>0, <1>1
  <2>2. CASE initial = "open"
    BY <2>1, <2>2, IdleOK
  <2>3. CASE initial # "open"
    <3>1. req'[h].step = "initial" /\ req'[h].ticket = k /\ req'[h].message = NoMessage
      BY <2>1, <2>3 DEF Idle
    <3> QED BY <3>1, <1>2 DEF HandlerOK, Posting
  <2> QED BY <2>2, <2>3
<1> HIDE DEF r
<1>5. TypeOK'
  BY <1>0, <1>1, <1>3 DEF IInv, TypeOK, Statuses
<1>6. \A j \in Tickets : /\ Exists(j) => Exists(j)'
                         /\ status'[j] = "gone" => status[j] = "gone"
  BY <1>1, <1>2 DEF Exists, Statuses
<1>7. ASSUME NEW i \in Handlers, i # h PROVE HandlerOK(i)' /\ req'[i] = req[i]
  <2>1. req'[i] = req[i]
    BY <1>0, <1>1, <1>7
  <2>2. HandlerOK(i)
    BY DEF IInv
  <2>3. req[i].step # "idle" => req[i].ticket \in Tickets /\ status'[req[i].ticket] = status[req[i].ticket]
    BY <2>2, <1>1, <1>2 DEF HandlerOK
  <2>4. Posting(i) => thread'[req[i].message].state = "none"
    BY <2>2, <1>1 DEF HandlerOK
  <2> QED BY <2>1, <2>3, <2>4, <1>1, OtherOK
<1>8. Distinct'
  BY <1>4, <1>7 DEF IInv, Distinct, Posting
<1>9. ThreadOK'
  BY <1>1, <1>6 DEF IInv, ThreadOK
<1>10. FilesOK'
  <2> SUFFICES ASSUME NEW m \in files, status'[hist.home[m]] = "gone"
               PROVE  \/ m \in hist.late
                      \/ hist.home[m] \in hist.kept
                      \/ \E i \in Handlers : req'[i].step = "rmdir" /\ req'[i].ticket = hist.home[m]
    BY <1>1 DEF IInv, FilesOK, DeletedTicketsLeaveNoFiles
  <2>1. status[hist.home[m]] = "gone"
    BY <1>6 DEF IInv, FilesOK
  <2>2. req[h].step = "idle"
    BY DEF CreateTicket
  <2>3. ASSUME NEW i \in Handlers, req[i].step = "rmdir", req[i].ticket = hist.home[m]
        PROVE  req'[i].step = "rmdir" /\ req'[i].ticket = hist.home[m]
    BY <2>2, <2>3, <1>7
  <2> QED BY <2>1, <2>3 DEF IInv, FilesOK, DeletedTicketsLeaveNoFiles
<1> QED BY <1>4, <1>5, <1>7, <1>8, <1>9, <1>10 DEF IInv

\* What Transition allows is in the documented table.
LEMMA TransitionDocumented ==
    \A from \in Statuses : \A move \in Transition(from) :
        move[1] \in Actions /\ move[2] \in Statuses /\ <<from, move[2]>> \in Documented
BY DEF Statuses, Transition, Actions, Documented

LEMMA TransitionFindKeeps ==
    ASSUME IInv, NEW h \in Handlers, NEW k \in Tickets, NEW action \in Actions,
           TransitionFind(h, k, action)
    PROVE  IInv'
<1>1. PICK move \in Transition(status[k]) :
         Begin(h, [Idle EXCEPT !.step = "write", !.ticket = k, !.target = move[2]])
  BY DEF TransitionFind
<1> DEFINE r == [Idle EXCEPT !.step = "write", !.ticket = k, !.target = move[2]]
<1>2. status[k] \in Statuses /\ req[h].step = "idle" /\ UNCHANGED <<status, thread, files, hist>>
  BY DEF TransitionFind, Exists
<1>3. move[2] \in Statuses /\ <<status[k], move[2]>> \in Documented
  BY <1>2, TransitionDocumented
<1>4. r \in Handler
  BY <1>3, IdleType DEF Steps
<1>5. /\ r.step = "write" /\ r.ticket = k /\ r.target = move[2] /\ r.message = NoMessage
  BY DEF Idle
<1>6. req'[h] = r
  BY <1>1 DEF Begin, IInv, TypeOK
<1> HIDE DEF r
<1>7. HandlerOK(h)' /\ ~Posting(h)'
  BY <1>2, <1>3, <1>5, <1>6 DEF HandlerOK, Posting, Statuses
<1>8. hist \in [home: [Messages -> Tickets \cup {NoTicket}], late: SUBSET Messages, kept: SUBSET Tickets]
  BY DEF IInv, TypeOK
<1>9. Begin(h, r)
  BY <1>1 DEF r
<1> QED BY <1>2, <1>4, <1>7, <1>8, <1>9, QuietOK

LEMMA PostFindKeeps ==
    ASSUME IInv, NEW h \in Handlers, NEW k \in Tickets, NEW m \in Messages, NEW file \in BOOLEAN,
           PostFind(h, k, m, file)
    PROVE  IInv'
<1> DEFINE s == IF file THEN "upload" ELSE "read"
           r == [Idle EXCEPT !.step = s, !.ticket = k, !.message = m, !.file = file]
<1>1. /\ status[k] \in Statuses /\ req[h].step = "idle" /\ UNCHANGED <<status, thread, files, hist>>
      /\ thread[m].state = "none" /\ \A i \in Handlers : req[i].message # m
      /\ Begin(h, r)
  BY DEF PostFind, Exists
<1>2. r \in Handler
  BY IdleType DEF Steps
<1>3. /\ r.step = s /\ r.ticket = k /\ r.target = "open" /\ r.message = m /\ r.file = file
  BY DEF Idle
<1>4. s = "upload" \/ (s = "read" /\ ~file)
  OBVIOUS
<1>5. req'[h] = r
  BY <1>1 DEF Begin, IInv, TypeOK
<1> HIDE DEF r, s
<1>6. HandlerOK(h)'
  BY <1>1, <1>3, <1>4, <1>5 DEF HandlerOK, Posting, Statuses
<1>7. hist \in [home: [Messages -> Tickets \cup {NoTicket}], late: SUBSET Messages, kept: SUBSET Tickets]
  BY DEF IInv, TypeOK
<1> QED BY <1>1, <1>2, <1>3, <1>6, <1>7, QuietOK

LEMMA PostReadKeeps ==
    ASSUME IInv, NEW h \in Handlers, PostRead(h)
    PROVE  IInv'
<1> DEFINE k == req[h].ticket
<1>0. req \in [Handlers -> Handler] /\ req[h] \in Handler /\ HandlerOK(h)
  BY DEF IInv, TypeOK
<1>1. /\ req[h].step = "read" /\ UNCHANGED <<status, thread, files, hist>> /\ Posting(h)
  BY DEF PostRead, Posting
<1>2. hist \in [home: [Messages -> Tickets \cup {NoTicket}], late: SUBSET Messages, kept: SUBSET Tickets]
  BY DEF IInv, TypeOK
<1>3. CASE ~Exists(k)
  <2>0. ~Reopens(k)
    BY <1>3 DEF Exists, Reopens, Statuses
  <2>1. Begin(h, Idle)
    BY <1>3, <2>0 DEF PostRead
  <2>2. req'[h] = Idle
    BY <2>1, <1>0 DEF Begin
  <2> QED BY <2>1, <2>2, <1>1, <1>2, IdleOK, IdleType, QuietOK
<1>4. ASSUME NEW s \in {"reopen", "insert"}, Exists(k), Begin(h, [req[h] EXCEPT !.step = s, !.stale = FALSE]),
             s = "reopen" <=> Reopens(k)
      PROVE  IInv'
  <2> DEFINE r == [req[h] EXCEPT !.step = s, !.stale = FALSE]
  <2>1. r \in Handler /\ req'[h] = r
    BY <1>0, <1>4 DEF Begin, Handler, Steps
  <2>2. /\ r.step = s /\ r.ticket = k /\ r.target = req[h].target /\ r.message = req[h].message
        /\ r.file = req[h].file
    BY <1>0 DEF Handler
  <2>3. Begin(h, r)
    BY <1>4
  <2> HIDE DEF r
  <2>4. HandlerOK(h)'
    <3>1. /\ k \in Tickets /\ status[k] # "none"
          /\ req[h].message \in Messages /\ req[h].target = "open" /\ thread[req[h].message].state = "none"
          /\ req[h].file => req[h].message \in files /\ hist.home[req[h].message] = k
      BY <1>0, <1>1, <1>4 DEF HandlerOK
    <3>2. s = "reopen" <=> status[k] = "closed"
      BY <1>4 DEF Reopens
    <3> QED BY <3>1, <3>2, <2>1, <2>2, <1>1 DEF HandlerOK, Posting
  <2>5. \A i \in Handlers \ {h} : Posting(i) => req[i].message # r.message
    BY <1>1, <2>2 DEF IInv, Distinct
  <2> QED BY <2>1, <2>3, <2>4, <2>5, <1>1, <1>2, QuietOK
<1>5. CASE Exists(k)
  BY <1>4, <1>5 DEF PostRead
<1> QED BY <1>3, <1>5

LEMMA AbortKeeps ==
    ASSUME IInv, NEW h \in Handlers, Abort(h)
    PROVE  IInv'
<1>0. req \in [Handlers -> Handler] /\ HandlerOK(h)
      /\ hist \in [home: [Messages -> Tickets \cup {NoTicket}], late: SUBSET Messages, kept: SUBSET Tickets]
  BY DEF IInv, TypeOK
<1>1. /\ req[h].step # "idle" /\ Begin(h, Idle) /\ UNCHANGED <<status, thread, files>>
      /\ hist' = IF req[h].step = "rmdir" THEN [hist EXCEPT !.kept = @ \cup {req[h].ticket}] ELSE hist
  BY DEF Abort
<1>2. req[h].ticket \in Tickets
  BY <1>0, <1>1 DEF HandlerOK
<1>3. /\ hist' \in [home: [Messages -> Tickets \cup {NoTicket}], late: SUBSET Messages, kept: SUBSET Tickets]
      /\ hist'.home = hist.home /\ hist.late \subseteq hist'.late /\ hist.kept \subseteq hist'.kept
      /\ req[h].step = "rmdir" => req[h].ticket \in hist'.kept
  BY <1>0, <1>1, <1>2
<1>4. req'[h] = Idle
  BY <1>0, <1>1 DEF Begin
<1> QED BY <1>1, <1>3, <1>4, IdleOK, IdleType, QuietOK

\* The statuses a handler writes.
LEMMA WritesKeep ==
    ASSUME IInv, NEW h \in Handlers, SetInitial(h) \/ TransitionWrite(h) \/ PostReopen(h)
    PROVE  IInv'
<1>1. CASE SetInitial(h)
  BY <1>1, WriteOK DEF SetInitial
<1>2. CASE TransitionWrite(h)
  BY <1>2, WriteOK DEF TransitionWrite
<1>3. CASE PostReopen(h)
  BY <1>3, WriteOK DEF PostReopen
<1> QED BY <1>1, <1>2, <1>3

\* An upload writes a file nobody else's message names.
LEMMA PostUploadKeeps ==
    ASSUME IInv, NEW h \in Handlers, PostUpload(h)
    PROVE  IInv'
<1> DEFINE k == req[h].ticket
           n == req[h].message
           r == [req[h] EXCEPT !.step = "read"]
<1>0. req \in [Handlers -> Handler] /\ req[h] \in Handler /\ HandlerOK(h)
      /\ hist \in [home: [Messages -> Tickets \cup {NoTicket}], late: SUBSET Messages, kept: SUBSET Tickets]
  BY DEF IInv, TypeOK
<1>1. /\ req[h].step = "upload" /\ UNCHANGED <<status, thread>>
      /\ files' = files \cup {n} /\ req' = [req EXCEPT ![h] = r]
      /\ hist' = [hist EXCEPT !.home[n] = k, !.late = IF Exists(k) THEN @ ELSE @ \cup {n}]
  BY DEF PostUpload, Begin
<1>2. k \in Tickets /\ n \in Messages /\ Posting(h) /\ thread[n].state = "none" /\ status[k] # "none"
      /\ req[h].target = "open"
  BY <1>0, <1>1 DEF HandlerOK, Posting
<1>3. r \in Handler
  BY <1>0 DEF Handler, Steps
<1>4. /\ r.step = "read" /\ r.ticket = k /\ r.target = "open" /\ r.message = n /\ r.file = req[h].file
  BY <1>0, <1>2 DEF Handler
<1>5. /\ req'[h] = r /\ \A i \in Handlers \ {h} : req'[i] = req[i]
  BY <1>0, <1>1
<1> HIDE DEF r, k, n
<1>6. /\ hist'.home = [hist.home EXCEPT ![n] = k] /\ hist.late \subseteq hist'.late /\ hist'.kept = hist.kept
      /\ ~Exists(k) => n \in hist'.late
      /\ hist' \in [home: [Messages -> Tickets \cup {NoTicket}], late: SUBSET Messages, kept: SUBSET Tickets]
  BY <1>0, <1>1, <1>2
<1>7. hist'.home[n] = k /\ \A m \in Messages : m # n => hist'.home[m] = hist.home[m]
  BY <1>0, <1>2, <1>6
<1>8. TypeOK'
  BY <1>0, <1>1, <1>2, <1>3, <1>6 DEF IInv, TypeOK
<1>9. ASSUME NEW i \in Handlers, i # h PROVE HandlerOK(i)'
  <2>1. HandlerOK(i)
    BY DEF IInv
  <2>2. Posting(i) => req[i].message # n /\ req[i].message \in Messages
    BY <1>2, <1>9, <2>1 DEF IInv, Distinct, HandlerOK, n
  <2>3. Posting(i) => /\ thread'[req[i].message].state = "none"
                      /\ hist'.home[req[i].message] = hist.home[req[i].message]
    BY <1>1, <1>7, <2>1, <2>2 DEF HandlerOK
  <2> QED BY <2>3, <1>1, <1>5, <1>9, OtherOK
<1>10. HandlerOK(h)'
  BY <1>1, <1>2, <1>4, <1>5, <1>7 DEF HandlerOK, Posting
<1>11. Distinct'
  <2>1. \A i \in Handlers : Posting(i)' => Posting(i) /\ req'[i].message = req[i].message
    BY <1>2, <1>4, <1>5 DEF Posting, n
  <2> QED BY <2>1 DEF IInv, Distinct
<1>12. ThreadOK'
  BY <1>1, <1>2, <1>7 DEF IInv, ThreadOK, Exists
<1>13. FilesOK'
  <2>1. \A m \in files' : hist'.home[m] \in Tickets
    BY <1>1, <1>2, <1>7, <1>8 DEF IInv, FilesOK, TypeOK
  <2> SUFFICES ASSUME NEW m \in files', status[hist'.home[m]] = "gone"
               PROVE  \/ m \in hist'.late
                      \/ hist'.home[m] \in hist'.kept
                      \/ \E i \in Handlers : req'[i].step = "rmdir" /\ req'[i].ticket = hist'.home[m]
    BY <1>1, <2>1 DEF FilesOK, DeletedTicketsLeaveNoFiles
  <2>2. CASE m = n
    BY <2>2, <1>6, <1>7 DEF Exists, Statuses
  <2>3. CASE m # n
    <3>1. m \in files /\ hist'.home[m] = hist.home[m]
      BY <2>3, <1>1, <1>7 DEF IInv, TypeOK
    <3>2. ASSUME NEW i \in Handlers, req[i].step = "rmdir", req[i].ticket = hist.home[m]
          PROVE  req'[i].step = "rmdir" /\ req'[i].ticket = hist.home[m]
      BY <3>2, <1>1, <1>5
    <3> QED BY <3>1, <3>2, <1>6 DEF IInv, FilesOK, DeletedTicketsLeaveNoFiles
  <2> QED BY <2>2, <2>3
<1> QED BY <1>8, <1>9, <1>10, <1>11, <1>12, <1>13 DEF IInv

\* A message is inserted while its ticket is there, after its file.
LEMMA PostInsertKeeps ==
    ASSUME IInv, NEW h \in Handlers, PostInsert(h)
    PROVE  IInv'
<1> DEFINE k == req[h].ticket
           n == req[h].message
           row == [state |-> "posted", ticket |-> k, file |-> req[h].file]
<1>0. req \in [Handlers -> Handler] /\ req[h] \in Handler /\ HandlerOK(h) /\ thread \in [Messages -> Row]
  BY DEF IInv, TypeOK
<1>1. /\ req[h].step = "insert" /\ UNCHANGED <<status, files, hist>> /\ Exists(k)
      /\ thread' = [thread EXCEPT ![n] = row] /\ req' = [req EXCEPT ![h] = Idle]
  BY DEF PostInsert, Begin
<1>2. /\ k \in Tickets /\ n \in Messages /\ Posting(h)
      /\ req[h].file => n \in files /\ hist.home[n] = k
  BY <1>0, <1>1 DEF HandlerOK, Posting
<1>3. row \in Row
  BY <1>0, <1>2 DEF Row, Handler
<1>4. row.state = "posted" /\ row.ticket = k /\ row.file = req[h].file
  OBVIOUS
<1> HIDE DEF row
<1>5. /\ thread'[n] = row /\ \A m \in Messages : m # n => thread'[m] = thread[m]
      /\ req'[h] = Idle /\ \A i \in Handlers \ {h} : req'[i] = req[i]
  BY <1>0, <1>1, <1>2
<1>6. TypeOK'
  BY <1>0, <1>1, <1>2, <1>3, IdleType DEF IInv, TypeOK
<1>7. ASSUME NEW i \in Handlers, i # h PROVE HandlerOK(i)'
  <2>1. HandlerOK(i)
    BY DEF IInv
  <2>2. Posting(i) => req[i].message # n /\ req[i].message \in Messages
    BY <1>2, <1>7, <2>1 DEF IInv, Distinct, HandlerOK
  <2>3. Posting(i) => thread'[req[i].message].state = "none"
    BY <1>5, <2>1, <2>2 DEF HandlerOK
  <2> QED BY <2>3, <1>1, <1>5, <1>7, OtherOK
<1>8. HandlerOK(h)' /\ ~Posting(h)'
  BY <1>5, IdleOK
<1>9. Distinct'
  BY <1>5, <1>8 DEF IInv, Distinct, Posting
<1>10. ThreadOK'
  BY <1>1, <1>2, <1>4, <1>5 DEF IInv, ThreadOK, Exists
<1>11. FilesOK'
  <2> SUFFICES ASSUME NEW m \in files, status[hist.home[m]] = "gone"
               PROVE  \/ m \in hist.late
                      \/ hist.home[m] \in hist.kept
                      \/ \E i \in Handlers : req'[i].step = "rmdir" /\ req'[i].ticket = hist.home[m]
    BY <1>1 DEF IInv, FilesOK, DeletedTicketsLeaveNoFiles
  <2>1. ASSUME NEW i \in Handlers, req[i].step = "rmdir", req[i].ticket = hist.home[m]
        PROVE  req'[i].step = "rmdir" /\ req'[i].ticket = hist.home[m]
    BY <2>1, <1>1, <1>5
  <2> QED BY <2>1 DEF IInv, FilesOK, DeletedTicketsLeaveNoFiles
<1> QED BY <1>6, <1>7, <1>8, <1>9, <1>10, <1>11 DEF IInv

\* The directory goes after the rows that name its files.
LEMMA RemoveDirectoryKeeps ==
    ASSUME IInv, NEW h \in Handlers, RemoveDirectory(h)
    PROVE  IInv'
<1> DEFINE k == req[h].ticket
<1>0. req \in [Handlers -> Handler] /\ HandlerOK(h)
  BY DEF IInv, TypeOK
<1>1. /\ req[h].step = "rmdir" /\ UNCHANGED <<status, thread, hist>>
      /\ files' = {m \in files : hist.home[m] # k} /\ req' = [req EXCEPT ![h] = Idle]
  BY DEF RemoveDirectory, Begin
<1>2. k \in Tickets /\ status[k] = "gone" /\ ~Exists(k)
  BY <1>0, <1>1 DEF HandlerOK, Exists, Statuses
<1>3. /\ req'[h] = Idle /\ \A i \in Handlers \ {h} : req'[i] = req[i]
      /\ files' \subseteq files /\ \A m \in files : hist.home[m] # k => m \in files'
  BY <1>0, <1>1
<1>4. TypeOK'
  BY <1>0, <1>1, <1>3, IdleType DEF IInv, TypeOK
<1>5. ASSUME NEW i \in Handlers, i # h PROVE HandlerOK(i)'
  <2>1. Posting(i) => thread'[req[i].message].state = "none"
    BY <1>1 DEF HandlerOK, IInv
  <2> QED BY <2>1, <1>1, <1>2, <1>3, <1>5, OtherOK
<1>6. HandlerOK(h)' /\ ~Posting(h)'
  BY <1>3, IdleOK
<1>7. Distinct'
  BY <1>3, <1>6 DEF IInv, Distinct, Posting
<1>8. ThreadOK'
  BY <1>1, <1>2, <1>3 DEF IInv, ThreadOK, Exists
<1>9. FilesOK'
  <2> SUFFICES ASSUME NEW m \in files', status[hist.home[m]] = "gone"
               PROVE  \/ m \in hist.late
                      \/ hist.home[m] \in hist.kept
                      \/ \E i \in Handlers : req'[i].step = "rmdir" /\ req'[i].ticket = hist.home[m]
    BY <1>1, <1>3 DEF IInv, FilesOK, DeletedTicketsLeaveNoFiles
  <2>1. m \in files /\ hist.home[m] # k
    BY <1>1
  <2>2. ASSUME NEW i \in Handlers, req[i].step = "rmdir", req[i].ticket = hist.home[m]
        PROVE  req'[i].step = "rmdir" /\ req'[i].ticket = hist.home[m]
    BY <2>1, <2>2, <1>3
  <2> QED BY <2>1, <2>2 DEF IInv, FilesOK, DeletedTicketsLeaveNoFiles
<1> QED BY <1>4, <1>5, <1>6, <1>7, <1>8, <1>9 DEF IInv

\* A deletion takes the rows of its ticket, and the handlers on it are stale.
LEMMA DeleteRowsKeeps ==
    ASSUME IInv, NEW h \in Handlers, NEW k \in Tickets, DeleteRows(h, k)
    PROVE  IInv'
<1> DEFINE r == [Idle EXCEPT !.step = "rmdir", !.ticket = k]
<1>0. /\ req \in [Handlers -> Handler] /\ status \in [Tickets -> Statuses \cup {"none", "gone"}]
      /\ thread \in [Messages -> Row]
  BY DEF IInv, TypeOK
<1>1. /\ req[h].step = "idle" /\ Exists(k) /\ status' = [status EXCEPT ![k] = "gone"]
      /\ Overtake(h, k, r) /\ UNCHANGED <<files, hist>>
      /\ thread' = [m \in Messages |-> IF thread[m].ticket = k
                                       THEN [NoRow EXCEPT !.state = "gone"] ELSE thread[m]]
  BY DEF DeleteRows
<1>2. status'[k] = "gone" /\ ~Exists(k)' /\ \A j \in Tickets : j # k => status'[j] = status[j]
  BY <1>0, <1>1 DEF Exists, Statuses
<1>3. /\ r \in Handler /\ r.step = "rmdir" /\ r.ticket = k /\ r.message = NoMessage
  BY DEF Idle, Handler, Steps, Statuses
<1> HIDE DEF r
<1>4. /\ req'[h] = r
      /\ \A i \in Handlers \ {h} :
           req'[i] = IF req[i].ticket = k THEN [req[i] EXCEPT !.stale = TRUE] ELSE req[i]
  BY <1>1 DEF Overtake
<1>5. ASSUME NEW i \in Handlers, i # h
      PROVE  /\ req'[i] \in Handler /\ req'[i].step = req[i].step /\ req'[i].ticket = req[i].ticket
             /\ req'[i].message = req[i].message
             /\ req[i].ticket = k => req'[i].stale
             /\ req'[i] = req[i] \/ req'[i] = [req[i] EXCEPT !.stale = TRUE]
  <2>1. req'[i] = IF req[i].ticket = k THEN [req[i] EXCEPT !.stale = TRUE] ELSE req[i]
    BY <1>4, <1>5
  <2>2. req[i] \in Handler
    BY <1>0
  <2> QED BY <2>1, <2>2 DEF Handler
<1>6. \A m \in Messages : /\ thread[m].ticket = k => thread'[m].state = "gone" /\ thread'[m].ticket = NoTicket
                          /\ thread[m].ticket # k => thread'[m] = thread[m]
                          /\ thread'[m] \in Row
  <2>1. /\ [NoRow EXCEPT !.state = "gone"] \in Row /\ [NoRow EXCEPT !.state = "gone"].state = "gone"
        /\ [NoRow EXCEPT !.state = "gone"].ticket = NoTicket
    BY DEF NoRow, Row
  <2> QED BY <2>1, <1>0, <1>1
<1>7. TypeOK'
  <2>1. \A i \in Handlers : req'[i] \in Handler
    BY <1>3, <1>4, <1>5
  <2>2. req' = [i \in Handlers |-> req'[i]]
    BY <1>1 DEF Overtake
  <2>3. thread' = [m \in Messages |-> thread'[m]]
    BY <1>1
  <2> QED BY <2>1, <2>2, <2>3, <1>0, <1>1, <1>6 DEF IInv, TypeOK
<1>8. ASSUME NEW i \in Handlers, i # h PROVE HandlerOK(i)'
  <2>1. HandlerOK(i)
    BY DEF IInv
  <2>2. req[i].step # "idle" => req[i].ticket \in Tickets
    BY <2>1 DEF HandlerOK
  <2>3. Posting(i) => req[i].message \in Messages /\ thread[req[i].message].state = "none"
    BY <2>1 DEF HandlerOK
  <2>4. Posting(i) => thread[req[i].message].ticket # k
    BY <2>3, IdsAssumption DEF IInv, ThreadOK
  <2>5. Posting(i) => thread'[req[i].message].state = "none"
    BY <2>3, <2>4, <1>6
  <2>6. req[i].step # "idle" =>
             \/ status'[req[i].ticket] = status[req[i].ticket]
             \/ /\ req'[i].stale /\ Exists(req[i].ticket)
                /\ status'[req[i].ticket] \in Statuses \cup {"gone"}
    BY <2>2, <1>1, <1>2, <1>5, <1>8
  <2> QED BY <2>5, <2>6, <1>1, <1>5, <1>8, OtherOK
<1>9. HandlerOK(h)' /\ ~Posting(h)'
  BY <1>2, <1>3, <1>4 DEF HandlerOK, Posting
<1>10. Distinct'
  <2>1. \A i \in Handlers : Posting(i)' => Posting(i) /\ req'[i].message = req[i].message
    BY <1>5, <1>9 DEF Posting
  <2> QED BY <2>1 DEF IInv, Distinct
<1>11. ThreadOK'
  <2> SUFFICES ASSUME NEW m \in Messages
               PROVE  /\ thread'[m].state # "posted" => thread'[m].ticket = NoTicket
                      /\ thread'[m].state = "posted" =>
                           /\ thread'[m].ticket \in Tickets /\ status'[thread'[m].ticket] \in Statuses
                           /\ thread'[m].file => m \in files /\ hist.home[m] = thread'[m].ticket
    BY <1>1 DEF ThreadOK, Exists
  <2>1. CASE thread[m].ticket = k
    BY <2>1, <1>6
  <2>2. CASE thread[m].ticket # k
    BY <2>2, <1>2, <1>6 DEF IInv, ThreadOK, Exists
  <2> QED BY <2>1, <2>2
<1>12. FilesOK'
  <2>0. \A m \in files : hist.home[m] \in Tickets
    BY DEF IInv, FilesOK
  <2> SUFFICES ASSUME NEW m \in files, status'[hist.home[m]] = "gone"
               PROVE  \/ m \in hist.late
                      \/ hist.home[m] \in hist.kept
                      \/ \E i \in Handlers : req'[i].step = "rmdir" /\ req'[i].ticket = hist.home[m]
    BY <1>1, <2>0 DEF FilesOK, DeletedTicketsLeaveNoFiles
  <2>1. CASE hist.home[m] = k
    BY <2>1, <1>3, <1>4
  <2>2. CASE hist.home[m] # k
    <3>1. status[hist.home[m]] = "gone"
      BY <2>0, <2>2, <1>2
    <3>2. ASSUME NEW i \in Handlers, req[i].step = "rmdir", req[i].ticket = hist.home[m]
          PROVE  req'[i].step = "rmdir" /\ req'[i].ticket = hist.home[m]
      BY <3>2, <1>1, <1>5
    <3> QED BY <3>1, <3>2 DEF IInv, FilesOK, DeletedTicketsLeaveNoFiles
  <2> QED BY <2>1, <2>2
<1> QED BY <1>7, <1>8, <1>9, <1>10, <1>11, <1>12 DEF IInv

-----------------------------------------------------------------------------
(* The theorems *)

LEMMA IInvStep == IInv /\ [Next]_vars => IInv'
<1> SUFFICES ASSUME IInv, [Next]_vars PROVE IInv'
  OBVIOUS
<1>1. CASE UNCHANGED vars
  BY <1>1 DEF vars, IInv, TypeOK, HandlerOK, Posting, Distinct, ThreadOK, FilesOK,
              DeletedTicketsLeaveNoFiles, Exists
<1>2. ASSUME NEW h \in Handlers, HandlerStep(h) PROVE IInv'
  <2>1. CASE SetInitial(h) \/ TransitionWrite(h) \/ PostReopen(h)
    BY <2>1, WritesKeep
  <2>2. CASE PostUpload(h)
    BY <2>2, PostUploadKeeps
  <2>3. CASE PostRead(h)
    BY <2>3, PostReadKeeps
  <2>4. CASE PostInsert(h)
    BY <2>4, PostInsertKeeps
  <2>5. CASE RemoveDirectory(h)
    BY <2>5, RemoveDirectoryKeeps
  <2>6. CASE Abort(h)
    BY <2>6, AbortKeeps
  <2>7. ASSUME NEW k \in Tickets, NEW initial \in Statuses, CreateTicket(h, k, initial) PROVE IInv'
    BY <2>7, CreateTicketKeeps
  <2>8. ASSUME NEW k \in Tickets, NEW action \in Actions, TransitionFind(h, k, action) PROVE IInv'
    BY <2>8, TransitionFindKeeps
  <2>9. ASSUME NEW k \in Tickets, NEW m \in Messages, NEW file \in BOOLEAN, PostFind(h, k, m, file) PROVE IInv'
    BY <2>9, PostFindKeeps
  <2>10. ASSUME NEW k \in Tickets, DeleteRows(h, k) PROVE IInv'
    BY <2>10, DeleteRowsKeeps
  <2> QED BY <1>2, <2>1, <2>2, <2>3, <2>4, <2>5, <2>6, <2>7, <2>8, <2>9, <2>10 DEF HandlerStep
<1> QED BY <1>1, <1>2 DEF Next

\* Every reachable state satisfies IInv.
THEOREM Invariance == Spec => []IInv
BY IInvInit, IInvStep, PTL DEF Spec

\* The rows and the files fit together in every state: the variables keep
\* their types, and the attachment a posted message names is on disk.
THEOREM InvHolds == Spec => []Inv
<1>1. IInv => Inv
  BY DEF IInv, ThreadOK, Inv, AttachmentsPresent
<1> QED BY <1>1, Invariance, PTL

\* A deleted ticket leaves no attachment behind, whatever uploads, deletions
\* and dropped requests interleave, but for the two cases the property names.
THEOREM DeletedTicketsLeaveNoFilesHolds == Spec => []DeletedTicketsLeaveNoFiles
<1>1. IInv => DeletedTicketsLeaveNoFiles
  BY DEF IInv, FilesOK
<1> QED BY <1>1, Invariance, PTL

\* What a write of a status does, when its ticket was not changed since the
\* read the write was decided on.
LEMMA MovedByWrite ==
    ASSUME IInv, NEW h \in Handlers, NEW r, UpdateStatus(h, r), NEW k \in Tickets, Moved(k)
    PROVE  k = req[h].ticket /\ req[h].target = status'[k]
<1>1. status \in [Tickets -> Statuses \cup {"none", "gone"}]
  BY DEF IInv, TypeOK
<1> QED BY <1>1 DEF UpdateStatus, Moved

\* The status moves along the documented table, for every number of requests.
THEOREM LegalUnlessRacedHolds == Spec => LegalUnlessRaced
<1> DEFINE Legal(k) ==
        \/ <<status[k], status'[k]>> \in Documented
        \/ \E h \in Handlers : /\ req[h].ticket = k /\ req[h].target = status'[k]
                               /\ \/ req[h].step = "initial"
                                  \/ req[h].step \in {"write", "reopen"} /\ req[h].stale
<1>1. ASSUME IInv, [Next]_vars, NEW k \in Tickets, Moved(k) PROVE Legal(k)
  <2>0. status \in [Tickets -> Statuses \cup {"none", "gone"}]
    BY <1>1 DEF IInv, TypeOK
  <2>1. PICK h \in Handlers : HandlerStep(h)
    BY <1>1 DEF Moved, vars, Next
  <2>2. CASE SetInitial(h)
    <3>1. req[h].step = "initial" /\ k = req[h].ticket /\ req[h].target = status'[k]
      BY <1>1, <2>2, MovedByWrite DEF SetInitial
    <3> QED BY <3>1
  <2>3. CASE TransitionWrite(h)
    <3>1. req[h].step = "write" /\ k = req[h].ticket /\ req[h].target = status'[k]
      BY <1>1, <2>3, MovedByWrite DEF TransitionWrite
    <3>2. ~req[h].stale => <<status[k], status'[k]>> \in Documented
      BY <1>1, <3>1 DEF IInv, HandlerOK
    <3> QED BY <3>1, <3>2
  <2>4. CASE PostReopen(h)
    <3>1. req[h].step = "reopen" /\ k = req[h].ticket /\ req[h].target = status'[k]
      BY <1>1, <2>4, MovedByWrite DEF PostReopen
    <3>2. req[h].target = "open" /\ (~req[h].stale => status[k] = "closed")
      BY <1>1, <3>1 DEF IInv, HandlerOK, Posting
    <3>3. ~req[h].stale => <<status[k], status'[k]>> \in Documented
      BY <3>1, <3>2 DEF Documented
    <3> QED BY <3>1, <3>3
  <2>5. ~(PostUpload(h) \/ PostRead(h) \/ PostInsert(h) \/ RemoveDirectory(h) \/ Abort(h))
    BY <1>1 DEF PostUpload, PostRead, PostInsert, RemoveDirectory, Abort, Moved
  <2>6. ASSUME NEW j \in Tickets
        PROVE  /\ \A initial \in Statuses : ~CreateTicket(h, j, initial)
               /\ \A action \in Actions : ~TransitionFind(h, j, action)
               /\ \A m \in Messages, file \in BOOLEAN : ~PostFind(h, j, m, file)
               /\ ~DeleteRows(h, j)
    BY <1>1, <2>0 DEF CreateTicket, TransitionFind, PostFind, DeleteRows, Moved, Statuses
  <2> QED BY <2>1, <2>2, <2>3, <2>4, <2>5, <2>6 DEF HandlerStep
<1>2. IInv /\ [Next]_vars => [\A k \in Tickets : Moved(k) => Legal(k)]_vars
  BY <1>1
<1> QED BY <1>2, Invariance, PTL DEF Spec, LegalUnlessRaced

\* A reply does not disappear into a closed ticket, for every number of
\* requests.
THEOREM RepliesReopenUnlessRacedHolds == Spec => RepliesReopenUnlessRaced
<1>1. ASSUME IInv, [Next]_vars, NEW h \in Handlers, Inserted(h), ~req[h].stale
      PROVE  status'[req[h].ticket] # "closed"
  <2>1. PICK i \in Handlers : HandlerStep(i)
    BY <1>1 DEF Inserted, vars, Next
  <2>2. thread # thread' /\ Posting(h) /\ thread \in [Messages -> Row]
    BY <1>1, IdsAssumption DEF Inserted, IInv, TypeOK, HandlerOK
  <2>3. CASE PostInsert(i)
    <3>1. req[i].message = req[h].message /\ req[i].step = "insert" /\ status' = status
      BY <1>1, <2>2, <2>3 DEF PostInsert, Inserted
    <3>2. i = h
      BY <2>2, <3>1, <1>1 DEF IInv, Distinct, Posting
    <3> QED BY <3>1, <3>2, <1>1 DEF IInv, HandlerOK
  <2>4. ASSUME NEW k \in Tickets PROVE ~DeleteRows(i, k)
    <3> SUFFICES ASSUME DeleteRows(i, k) PROVE FALSE
      OBVIOUS
    <3>1. [NoRow EXCEPT !.state = "gone"].state # "posted"
      BY DEF NoRow
    <3> QED BY <3>1, <1>1 DEF DeleteRows, Inserted
  <2>5. ~(SetInitial(i) \/ TransitionWrite(i) \/ PostUpload(i) \/ PostRead(i) \/ PostReopen(i)
            \/ RemoveDirectory(i) \/ Abort(i))
    BY <2>2 DEF SetInitial, TransitionWrite, PostUpload, PostRead, PostReopen, RemoveDirectory, Abort
  <2>6. ASSUME NEW k \in Tickets
        PROVE  /\ \A initial \in Statuses : ~CreateTicket(i, k, initial)
               /\ \A action \in Actions : ~TransitionFind(i, k, action)
               /\ \A m \in Messages, file \in BOOLEAN : ~PostFind(i, k, m, file)
    BY <2>2 DEF CreateTicket, TransitionFind, PostFind
  <2> QED BY <2>1, <2>3, <2>4, <2>5, <2>6 DEF HandlerStep
<1>2. IInv /\ [Next]_vars =>
        [\A h \in Handlers : Inserted(h) /\ ~req[h].stale => status'[req[h].ticket] # "closed"]_vars
  BY <1>1
<1> QED BY <1>2, Invariance, PTL DEF Spec, RepliesReopenUnlessRaced

=============================================================================
