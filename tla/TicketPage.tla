------------------------------- MODULE TicketPage -------------------------------
(***************************************************************************)
(* The page of one ticket: the composer that sends replies and internal    *)
(* notes, the buttons that move the ticket from status to status, and the  *)
(* access link for its client.                                             *)
(*                                                                         *)
(* The same page goes on from ticket to ticket: moving along the queue     *)
(* rail changes the ticket and keeps the composer.  Its requests are       *)
(* mutations: while the browser is offline they are held back, and what a  *)
(* pending one calls and invalidates is what the page rendered last.       *)
(***************************************************************************)
EXTENDS Integers, FiniteSets

CONSTANTS
    Tickets,
    Starts,     \* the statuses they may have at first
    MaxTexts,   \* bound on the texts written into the composer
    MaxCalls,   \* bound on the requests the page makes
    MaxMoves,   \* bound on the person's moves to another page
    MaxOthers   \* bound on what other people and the network do

ASSUME TicketPageAssumption ==
    /\ Tickets # {} /\ Starts \subseteq {"open", "acknowledged", "pending", "closed"}
    /\ {MaxTexts, MaxCalls, MaxMoves, MaxOthers} \subseteq Nat

VARIABLES
    server,   \* each ticket's status, and how often it has changed
    cache,    \* the last answer for each ticket
    fetch,    \* the request for each ticket that is under way
    shown,    \* the ticket of the page
    online,
    tab, draft, file,  \* composerTab, composerBody and pendingFile
    calls,    \* mutations under way
    done,     \* history: the texts and files that reached the server
    used,     \* calls made so far
    texts,    \* texts written so far
    moves, others,
    wanted,   \* history: the text and the file the person last left in the composer
    again,    \* history: texts sent again before an answer, or whose answer was lost
    late,     \* history: what was put there while an earlier text was on its way
    astray,   \* history: calls done to another ticket than they were asked on
    refused   \* history: transitions the server refused

vars == <<server, cache, fetch, shown, online, tab, draft, file, calls, done, used,
          texts, moves, others, wanted, again, late, astray,
          refused>>

composer == <<tab, draft, file>>
seen == <<cache, fetch>>
history == <<wanted, again, late>>

-----------------------------------------------------------------------------
(* Tickets, answers and calls *)

Statuses == {"open", "acknowledged", "pending", "closed"}
Transitions == {"ack", "pend", "close", "reopen"}
Kinds == Transitions \cup {"reply", "note", "share"}

\* useMutation: replyM, noteM, transitionM and magicM.
Mutation(kind) == IF kind \in Transitions THEN "transition" ELSE kind

Target(kind) ==
    CASE kind = "ack" -> "acknowledged" [] kind = "pend" -> "pending"
      [] kind = "close" -> "closed" [] kind = "reopen" -> "open"

\* Text 0 is an empty composer; the file has a name of its own.
Texts == 1..MaxTexts
File == MaxTexts + 1

NoAnswer == [loaded |-> FALSE, failed |-> FALSE, status |-> "open", version |-> 0]
NoFetch == [st |-> "none", status |-> "open", version |-> 0]

\* asked: the ticket on screen when the person acted; at: the ticket the request
\* names; to: the ticket the mutation's options name; current: the observer still has this mutation;
\* here: the page that made it is still mounted;
\* version: of the answer the person saw.  moved (history): to changed while
\* the call was held back.
Call == [n: 1..MaxCalls, kind: Kinds, text: 0..MaxTexts, file: BOOLEAN, asked: Tickets,
         to: Tickets, at: Tickets, st: {"held", "sent", "ok", "error"}, current: BOOLEAN, here: BOOLEAN,
         moved: BOOLEAN, version: Nat]

Moved == moves < MaxMoves /\ moves' = moves + 1
Other == others < MaxOthers /\ others' = others + 1

\* isPending of the mutation.
Pending(mutation) ==
    \E c \in calls : c.current /\ Mutation(c.kind) = mutation

\* The page is rendered in full: neither loading nor the error.
Loaded == cache[shown].loaded /\ ~cache[shown].failed

\* What is in the composer or comes out of it while a text is on its way.
Sending == \E c \in calls : c.here /\ c.kind \in {"reply", "note"}

-----------------------------------------------------------------------------
(* The query *)

\* A poll, or a fetch because the ticket came on screen or was invalidated: it
\* may come at any time, so what matters is when the server reads the ticket.
Poll(t) ==
    /\ t = shown /\ online /\ fetch[t].st = "none"
    /\ fetch' = [fetch EXCEPT ![t] = [st |-> "read", status |-> server[t].status,
                                      version |-> server[t].version]]
    /\ UNCHANGED <<server, cache, shown, online, composer, calls, done, used, texts, moves,
                   others, history, astray, refused>>

Receive(t) ==
    /\ fetch[t].st = "read" /\ online
    /\ fetch' = [fetch EXCEPT ![t] = NoFetch]
    /\ cache' = [cache EXCEPT ![t] = [loaded |-> TRUE, failed |-> FALSE,
                                      status |-> fetch[t].status, version |-> fetch[t].version]]
    /\ UNCHANGED <<server, shown, online, composer, calls, done, used, texts, moves, others,
                   history, astray, refused>>

\* The page becomes the error page, composer and all, until a poll succeeds;
\* what was written stays in its state.
FetchFails(t) ==
    /\ Other
    /\ t = shown \/ fetch[t].st # "none"
    /\ fetch' = [fetch EXCEPT ![t] = NoFetch]
    /\ cache' = [cache EXCEPT ![t].failed = TRUE]
    /\ UNCHANGED <<server, shown, online, composer, calls, done, used, texts, moves, history,
                   astray, refused>>

\* invalidateQueries(['ticket', id]): on screen it is asked for again, and an
\* answer under way is dropped.
Invalidate(t) == IF t = shown THEN [fetch EXCEPT ![t] = NoFetch] ELSE fetch

-----------------------------------------------------------------------------
(* The composer *)

Write(k) ==
    /\ Loaded
    /\ k = texts + 1
    /\ texts' = k /\ draft' = k
    /\ wanted' = (wanted \ Texts) \cup {k}
    /\ late' = IF Sending THEN late \cup {k} ELSE late
    /\ UNCHANGED <<server, seen, shown, online, tab, file, calls, done, used, moves, others,
                   again, astray, refused>>

\* The file input of the reply tab.
Attach ==
    /\ Loaded /\ tab = "reply" /\ ~file
    /\ file' = TRUE
    /\ wanted' = wanted \cup {File}
    /\ late' = IF Sending THEN late \cup {File} ELSE late \ {File}
    /\ UNCHANGED <<server, seen, shown, online, tab, draft, calls, done, used, texts, moves, others,
                   again, astray, refused>>

SetTab(tb) ==
    /\ Loaded /\ tab # tb /\ tab' = tb
    /\ UNCHANGED <<server, seen, shown, online, draft, file, calls, done, used, texts, moves, others,
                   history, astray, refused>>

-----------------------------------------------------------------------------
(* Mutations *)

\* mutate(): the observer leaves its earlier mutation for the new one, which
\* starts at once unless the browser is offline.
Mutate(kind, text, f) ==
    /\ used < MaxCalls /\ used' = used + 1
    /\ calls' = {[c EXCEPT !.current = c.current /\ Mutation(c.kind) # Mutation(kind)] : c \in calls}
         \cup {[n |-> used + 1, kind |-> kind, text |-> text, file |-> f, asked |-> shown,
                to |-> shown, at |-> shown, st |-> IF online THEN "sent" ELSE "held",
                current |-> TRUE, here |-> TRUE, moved |-> FALSE,
                version |-> cache[shown].version]}

\* The button waits for both mutations; Ctrl-Enter in the textarea does not.
CanSubmit(key) == draft # 0 /\ (key \/ ~(Pending("reply") \/ Pending("note")))

Submit(key) ==
    /\ Loaded /\ CanSubmit(key)
    /\ Mutate(tab, draft, file /\ tab = "reply")
    /\ again' = IF \E c \in calls : c.text = draft THEN again \cup {draft} ELSE again
    /\ UNCHANGED <<server, seen, shown, online, composer, done, texts, moves, others, wanted,
                   late, astray, refused>>

\* Faulty: closing is offered from every status but closed.
CanCloseAny(kind, s) == IF kind = "close" THEN s # "closed" ELSE
    \/ kind = "ack" /\ s \in {"open", "pending"}
    \/ kind = "pend" /\ s \in {"open", "acknowledged"}
    \/ kind = "reopen" /\ s = "closed"

Can(kind, s) ==
    \/ kind = "ack" /\ s \in {"open", "pending"}
    \/ kind = "pend" /\ s \in {"open", "acknowledged"}
    \/ kind = "close" /\ s = "acknowledged"
    \/ kind = "reopen" /\ s = "closed"

Transition(kind) ==
    /\ Loaded /\ Can(kind, cache[shown].status) /\ ~Pending("transition")
    /\ Mutate(kind, 0, FALSE)
    /\ UNCHANGED <<server, seen, shown, online, composer, done, texts, moves, others, history,
                   astray, refused>>

\* After the confirmation, which is asked with the page behind it.
Share ==
    /\ Loaded /\ ~Pending("share")
    /\ Mutate("share", 0, FALSE)
    /\ UNCHANGED <<server, seen, shown, online, composer, done, texts, moves, others, history,
                   astray, refused>>

-----------------------------------------------------------------------------
(* The server *)

\* transition() of ticket_status.rs.
Legal(kind, s) ==
    \/ kind = "ack" /\ s \in {"open", "pending"}
    \/ kind = "pend" /\ s = "open"
    \/ kind = "close" /\ s = "acknowledged"
    \/ kind = "reopen" /\ s = "closed"

SetStatus(t, s) == [server EXCEPT ![t] = [status |-> s, version |-> @.version + 1]]

\* A reply to a closed ticket reopens it.
AfterReply(t) == IF server[t].status = "closed" THEN SetStatus(t, "open") ELSE server

\* Faulty: the function that sends the request asks for the page's ticket
\* when the request goes out.
AddressLatest(c) == shown

\* The ticket a call is for: the id its closure had when it started.
Address(c) == c.at

\* The call as the thread, or the notes, keep it.
Text(c) == [n |-> c.n, kind |-> c.kind, text |-> c.text, file |-> c.file]

Effect(c) ==
    CASE c.kind = "reply" -> AfterReply(Address(c))
      [] c.kind \in Transitions -> SetStatus(Address(c), Target(c.kind))
      [] OTHER -> server

Serve(c) ==
    /\ c.st = "sent" /\ online
    /\ IF c.kind \in Transitions => Legal(c.kind, server[Address(c)].status)
       THEN /\ server' = Effect(c)
            /\ done' = IF c.kind \in {"reply", "note"} THEN done \cup {Text(c)} ELSE done
            /\ astray' = IF Address(c) # c.asked THEN astray \cup {c.moved} ELSE astray
            /\ calls' = (calls \ {c}) \cup {[c EXCEPT !.st = "ok"]}
            /\ UNCHANGED refused
       ELSE /\ calls' = (calls \ {c}) \cup {[c EXCEPT !.st = "error"]}
            /\ refused' = refused \cup {[kind |-> c.kind, status |-> server[Address(c)].status,
                                         changed |-> c.moved \/ c.version # server[Address(c)].version]}
            /\ UNCHANGED <<server, done, astray>>
    /\ UNCHANGED <<seen, shown, online, composer, used, texts, moves, others, history>>

\* The request fails before the server acts, or its answer is lost after.
CallFails(c) ==
    /\ Other
    /\ c.st \in {"sent", "ok"}
    /\ calls' = (calls \ {c}) \cup {[c EXCEPT !.st = "error"]}
    /\ again' = IF c.st = "ok" THEN again \cup {c.text} ELSE again
    /\ UNCHANGED <<server, seen, shown, online, composer, done, used, texts, moves, wanted,
                   late, astray, refused>>

\* Faulty: the composer is cleared whatever came back.
ClearsAlways(c) == c.here /\ c.kind \in {"reply", "note"}

\* Faulty: the composer keeps what was sent.
ClearsNever(c) == FALSE /\ c.here

\* submitComposer goes on after its await only when the mutation succeeded.
Clears(c) == c.here /\ c.kind \in {"reply", "note"} /\ c.st = "ok"

\* onSuccess invalidates the ticket the mutation's options name by then.  A
\* failed call is shown nowhere.
AnswerCall(c) ==
    /\ c.st \in {"ok", "error"}
    /\ calls' = calls \ {c}
    /\ fetch' = IF c.st = "ok" /\ c.kind \notin {"note", "share"} THEN Invalidate(c.to) ELSE fetch
    /\ IF Clears(c) THEN draft' = 0 /\ file' = FALSE ELSE UNCHANGED <<draft, file>>
    /\ UNCHANGED <<server, cache, shown, online, tab, done, used, texts, moves, others, history,
                   astray, refused>>

-----------------------------------------------------------------------------
(* Moving about *)

\* A link of the queue rail, or the browser's own buttons.  The options of a
\* pending mutation that is still current are rendered anew.
Move(t) ==
    /\ Moved
    /\ t # shown
    /\ shown' = t
    /\ calls' = {IF c.current
                 THEN [c EXCEPT !.to = t, !.at = IF c.st = "held" THEN t ELSE c.at,
                                !.moved = c.moved \/ c.st = "held"]
                 ELSE c : c \in calls}
    /\ UNCHANGED <<server, seen, online, composer, done, used, texts, others, history, astray, refused>>

\* To another page and back to ticket t: the composer is new, what was left
\* in it is gone, and requests go on by themselves.
Return(t) ==
    /\ Moved
    /\ shown' = t
    /\ tab' = "reply" /\ draft' = 0 /\ file' = FALSE
    /\ wanted' = {} /\ late' = {}
    /\ calls' = {[c EXCEPT !.current = FALSE, !.here = FALSE] : c \in calls}
    /\ UNCHANGED <<server, seen, online, done, used, texts, others, again, astray, refused>>

GoOffline ==
    /\ Other
    /\ online /\ online' = FALSE
    /\ UNCHANGED <<server, seen, shown, composer, calls, done, used, texts, moves, history,
                   astray, refused>>

\* resumePausedMutations.
GoOnline ==
    /\ ~online /\ online' = TRUE
    /\ calls' = {IF c.st = "held" THEN [c EXCEPT !.st = "sent"] ELSE c : c \in calls}
    /\ UNCHANGED <<server, seen, shown, composer, done, used, texts, moves, others, history,
                   astray, refused>>

\* Somebody else moves a ticket, or a client's reply reopens it.
Somebody(t, kind) ==
    /\ Other
    /\ Legal(kind, server[t].status)
    /\ server' = SetStatus(t, Target(kind))
    /\ UNCHANGED <<seen, shown, online, composer, calls, done, used, texts, moves, history,
                   astray, refused>>

-----------------------------------------------------------------------------
Init ==
    /\ server \in [Tickets -> [status: Starts, version: {0}]]
    /\ cache = [t \in Tickets |-> NoAnswer]
    /\ shown \in Tickets
    /\ fetch = [t \in Tickets |-> NoFetch]
    /\ online = TRUE
    /\ tab = "reply" /\ draft = 0 /\ file = FALSE
    /\ calls = {} /\ done = {} /\ used = 0 /\ texts = 0 /\ moves = 0 /\ others = 0
    /\ wanted = {} /\ again = {} /\ late = {} /\ astray = {} /\ refused = {}

Person ==
    \/ \E k \in Texts : Write(k)
    \/ \E key \in BOOLEAN : Submit(key)
    \/ \E tb \in {"reply", "note"} : SetTab(tb)
    \/ \E kind \in Transitions : Transition(kind)
    \/ \E t \in Tickets : Move(t) \/ Return(t)
    \/ Attach \/ Share

Network ==
    \/ \E t \in Tickets : Poll(t) \/ Receive(t) \/ FetchFails(t)
    \/ \E c \in calls : Serve(c) \/ CallFails(c) \/ AnswerCall(c)
    \/ GoOffline \/ GoOnline

Next == Person \/ Network \/ \E t \in Tickets, kind \in Transitions : Somebody(t, kind)

Spec == Init /\ [][Next]_vars

-----------------------------------------------------------------------------
(* Properties *)

\* The variables stay in their sets.
TypeOK ==
    /\ server \in [Tickets -> [status: Statuses, version: Nat]]
    /\ shown \in Tickets /\ online \in BOOLEAN
    /\ tab \in {"reply", "note"} /\ draft \in 0..MaxTexts /\ file \in BOOLEAN
    /\ calls \subseteq Call

\* What carries item x: its text, or the file.
Carries(r, x) == r.text = x \/ (x = File /\ r.file)

\* What the person last wrote, and the file last chosen, stays in the composer
\* until a call that carries it has succeeded, whatever fails on the way and
\* whichever ticket is on screen.  Two ways to lose it are known: it was put
\* there while an earlier text was on its way, or the file was in the composer
\* when a note was saved.
DraftsKept ==
    \A x \in wanted :
        \/ x = draft \/ (x = File /\ file)
        \/ \E r \in done : Carries(r, x)
        \/ x \in late
        \/ x = File /\ \E r \in done : r.kind = "note"

\* A text reaches the server twice only if it was sent again by Ctrl-Enter
\* before the first answer, or after the first answer was lost.
SentOnceUnlessRetried ==
    \A r1, r2 \in done : r1.n < r2.n /\ r1.text = r2.text /\ r1.text # 0 => r1.text \in again

\* What was asked for on one ticket is done to that ticket, however the person
\* moves about: except a request held back offline, which goes to the ticket
\* that was on screen when it was released.
RightTicket == astray \subseteq {TRUE}

\* Apart from pending an acknowledged ticket, a transition that was offered is
\* refused only if the ticket changed after the answer shown was read.
RefusedExplained ==
    \A r \in refused : r.changed \/ (r.kind = "pend" /\ r.status = "acknowledged")

\* The comment over "can": the transitions on offer are the legal ones.
OffersLegal == \A r \in refused : r.changed

\* What holds of the page in every state: the buttons it offered were granted.
Inv == TypeOK /\ RefusedExplained

=============================================================================
