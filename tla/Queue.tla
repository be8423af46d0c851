--------------------------------- MODULE Queue ---------------------------------
(***************************************************************************)
(* The desk's ticket list: the pages of tickets it polls, the rows that    *)
(* are swiped to acknowledge or to resolve, the toasts whose Undo takes a  *)
(* resolution back, and the bulk bar.                                      *)
(*                                                                         *)
(* A left swipe hides the row at once, shows a toast and closes the ticket *)
(* 2.4 s later; the toast and its Undo stay for 2.9 s.  A row that leaves  *)
(* the screen takes its timer with it.  The list is only as fresh as the   *)
(* last answer: other people change tickets meanwhile.                     *)
(***************************************************************************)
EXTENDS Integers, FiniteSets

CONSTANTS
    MaxTickets,  \* tickets that can exist; they are numbered as created
    Before,      \* how many may exist at first
    Starts,      \* the statuses they may have then
    Limit,       \* rows of a page (LIMIT)
    Filters,     \* the filter tabs in use, "all" or a status
    MaxActs,     \* bound on what this person does
    MaxSwipes,   \* bound on the left swipes among them
    MaxOthers    \* bound on what other people do and on failed requests

ASSUME QueueAssumption ==
    /\ MaxTickets \in Nat \ {0} /\ Before \subseteq 0..MaxTickets /\ Limit \in Nat \ {0}
    /\ Starts \subseteq {"open", "acknowledged", "pending", "closed"}
    /\ MaxActs \in Nat /\ MaxSwipes \in Nat /\ MaxOthers \in Nat

VARIABLES
    status,    \* the tickets on the server
    cache,     \* the last answer for each page of the list
    fetch,     \* the request for each page that is under way
    page, filter, selected,
    swipes,    \* left swipes whose timer or toast is alive
    flung,     \* rows moved off the screen by a swipe
    calls,     \* PATCH /tickets/:id/ack and /close under way
    bulk,      \* the bulk mutation
    acts, others,
    answered   \* history: tickets whose close, asked by a swipe, was answered

queueVars == <<status, cache, fetch, page, filter, selected, swipes, flung, calls, bulk,
               acts, others, answered>>

-----------------------------------------------------------------------------
(* Tickets, pages and rows *)

TicketIds == 1..MaxTickets
Statuses == {"open", "acknowledged", "pending", "closed"}
PageNumbers == 1..((MaxTickets + Limit - 1) \div Limit)

Exists == {i \in TicketIds : status[i] \in Statuses}

\* GET /tickets: the newest first, Limit to a page.
OnPage(p) == {i \in Exists : LET rank == Cardinality({j \in Exists : j > i}) IN
                               (p - 1) * Limit <= rank /\ rank < p * Limit}
Answer(p) == [loaded |-> TRUE, total |-> Cardinality(Exists),
              rows |-> [i \in TicketIds |-> IF i \in OnPage(p) THEN status[i] ELSE "none"]]
NoAnswer == [loaded |-> FALSE, total |-> 0, rows |-> [i \in TicketIds |-> "none"]]

Page == [loaded: BOOLEAN, total: 0..MaxTickets, rows: [TicketIds -> Statuses \cup {"none"}]]
Fetch == [st: {"none", "asked", "read"}, data: Page]
NoFetch == [st |-> "none", data |-> NoAnswer]
Asked == [st |-> "asked", data |-> NoAnswer]

Listed(d) == {i \in TicketIds : d.rows[i] # "none"}
Visible(d, f) == {i \in Listed(d) : f = "all" \/ d.rows[i] = f}

\* Rows wrapped in a DraggableRow.
Rows(d, f) == {i \in Visible(d, f) : d.rows[i] # "closed"}
Shown == Visible(cache[page], filter)
Mounted == Rows(cache[page], filter)

\* n numbers the swipes.  armed: the timer runs; latest: closeTimer.current
\* is this one; alive: the row is still mounted; toast: Undo can be clicked.
Swipe == [id: TicketIds, n: 1..MaxSwipes, armed: BOOLEAN, latest: BOOLEAN, alive: BOOLEAN,
          toast: BOOLEAN, undone: BOOLEAN]
Call == [id: TicketIds, kind: {"ack", "close"}, from: {"row", "bulk", "late"}, st: {"sent", "ok", "error"}]

\* here: the page that started the mutation is still the one on screen.
NoBulk == [on |-> FALSE, here |-> FALSE, ids |-> {}, done |-> {}]

Act == acts < MaxActs /\ acts' = acts + 1
Other == others < MaxOthers /\ others' = others + 1

-----------------------------------------------------------------------------
(* What changes the rows on screen *)

Kept(S) == {s \in S : s.armed \/ s.toast}

\* Faulty: the timers are left running.
CleanupNever(gone) == {[s EXCEPT !.alive = s.alive /\ s.id \notin gone] : s \in swipes}

\* Unmounting a row clears the timer closeTimer.current, no other.
Cleanup(gone) ==
    Kept({IF s.alive /\ s.id \in gone
          THEN [s EXCEPT !.armed = s.armed /\ ~s.latest, !.alive = FALSE] ELSE s : s \in swipes})

\* The page now shows answer d through filter f.
Show(d, f) ==
    LET gone == Mounted \ Rows(d, f) IN
    /\ swipes' = Cleanup(gone)
    /\ flung' = flung \ gone

-----------------------------------------------------------------------------
(* The query *)

\* Faulty: only a list that never loaded is fetched.
PollUnloaded(p) == p = page /\ ~cache[p].loaded

\* refetchInterval of the page on screen.
Polled(p) == p = page

Poll(p) ==
    /\ Polled(p) /\ fetch[p].st = "none"
    /\ fetch' = [fetch EXCEPT ![p] = Asked]
    /\ UNCHANGED <<status, cache, page, filter, selected, swipes, flung, calls, bulk,
                   acts, others, answered>>

\* invalidateQueries(['tickets']): the list on screen is fetched anew, an
\* answer under way is dropped; the other pages are fetched when shown.
Invalidated == [fetch EXCEPT ![page] = Asked]

Read(p) ==
    /\ fetch[p].st = "asked"
    /\ fetch' = [fetch EXCEPT ![p] = [st |-> "read", data |-> Answer(p)]]
    /\ UNCHANGED <<status, cache, page, filter, selected, swipes, flung, calls, bulk,
                   acts, others, answered>>

Receive(p) ==
    /\ fetch[p].st = "read"
    /\ fetch' = [fetch EXCEPT ![p] = NoFetch]
    /\ cache' = [cache EXCEPT ![p] = fetch[p].data]
    /\ IF p = page THEN Show(fetch[p].data, filter) ELSE UNCHANGED <<swipes, flung>>
    /\ UNCHANGED <<status, page, filter, selected, calls, bulk, acts, others, answered>>

\* An error keeps the rows of the last answer.
FetchFails(p) ==
    /\ Other
    /\ fetch[p].st # "none"
    /\ fetch' = [fetch EXCEPT ![p] = NoFetch]
    /\ UNCHANGED <<status, cache, page, filter, selected, swipes, flung, calls, bulk,
                   acts, answered>>

-----------------------------------------------------------------------------
(* Rows *)

\* onPointerUp past the threshold to the right.
SwipeAck(i) ==
    /\ Act
    /\ i \in Mounted /\ cache[page].rows[i] = "open"
    /\ calls' = calls \cup {[id |-> i, kind |-> "ack", from |-> "row", st |-> "sent"]}
    /\ UNCHANGED <<status, cache, fetch, page, filter, selected, swipes, flung, bulk,
                   others, answered>>

\* onPointerUp past the threshold to the left.  The wrapper keeps its events
\* when the row has been flung: it can be swiped again.
SwipeResolve(i, n) ==
    /\ Act
    /\ i \in Mounted
    /\ \A s \in swipes : s.n < n
    /\ flung' = flung \cup {i}
    /\ swipes' = {[s EXCEPT !.latest = s.latest /\ ~(s.alive /\ s.id = i)] : s \in swipes}
                   \cup {[id |-> i, n |-> n, armed |-> TRUE, latest |-> TRUE, alive |-> TRUE,
                          toast |-> TRUE, undone |-> FALSE]}
    /\ answered' = answered \ {i}
    /\ UNCHANGED <<status, cache, fetch, page, filter, selected, calls, bulk,
                   others>>

\* Faulty: the row stays where it was flung.
RestoreNothing(s) == flung \cup {s.id}

Restore(s) == IF s.alive THEN flung \ {s.id} ELSE flung

\* Faulty: Undo restores the row and leaves the timer running.
StoppedNone(s) == {q \in swipes : FALSE /\ q.id = s.id}

\* Undo clears closeTimer.current of its row, whichever swipe started it.
Stopped(s) == {q \in swipes : s.alive /\ q.alive /\ q.latest /\ q.id = s.id}

Undo(s) ==
    /\ Act
    /\ s.toast
    /\ swipes' = Kept({[q EXCEPT !.armed = q.armed /\ q \notin Stopped(s),
                                 !.toast = q.toast /\ q # s,
                                 !.undone = q.undone \/ q = s] : q \in swipes})
    /\ flung' = Restore(s)
    /\ UNCHANGED <<status, cache, fetch, page, filter, selected, calls, bulk,
                   others, answered>>

\* 2.4 s after the swipe.
Fire(s) ==
    /\ s.armed
    /\ swipes' = Kept({IF q = s THEN [q EXCEPT !.armed = FALSE] ELSE q : q \in swipes})
    /\ calls' = calls \cup {[id |-> s.id, kind |-> "close", from |-> "row", st |-> "sent"]}
    /\ UNCHANGED <<status, cache, fetch, page, filter, selected, flung, bulk, acts,
                   others, answered>>

\* DISMISS_MS and EXIT_MS together outlast the timer.
ToastGone(s) ==
    /\ s.toast /\ ~s.armed
    /\ swipes' = swipes \ {s}
    /\ UNCHANGED <<status, cache, fetch, page, filter, selected, flung, calls, bulk,
                   acts, others, answered>>

-----------------------------------------------------------------------------
(* Requests that change a ticket *)

\* transition(): what the server allows.
Allowed(i, kind) ==
    \/ kind = "ack" /\ status[i] \in {"open", "pending"}
    \/ kind = "close" /\ status[i] = "acknowledged"

Serve(c) ==
    /\ c.st = "sent"
    /\ LET ok == Allowed(c.id, c.kind) IN
       /\ status' = IF ok THEN [status EXCEPT ![c.id] = IF c.kind = "ack" THEN "acknowledged" ELSE "closed"]
                    ELSE status
       /\ calls' = (calls \ {c}) \cup {[c EXCEPT !.st = IF ok THEN "ok" ELSE "error"]}
       /\ bulk' = IF ok /\ c.from = "bulk" THEN [bulk EXCEPT !.done = @ \cup {c.id}] ELSE bulk
    /\ UNCHANGED <<cache, fetch, page, filter, selected, swipes, flung, acts, others,
                   answered>>

\* ackMut and closeMut: success invalidates the list, failure does nothing.
RowAnswer(c) ==
    /\ c.from = "row" /\ c.st # "sent"
    /\ calls' = calls \ {c}
    /\ fetch' = IF c.st = "ok" THEN Invalidated ELSE fetch
    /\ answered' = IF c.kind = "close" THEN answered \cup {c.id} ELSE answered
    /\ UNCHANGED <<status, cache, page, filter, selected, swipes, flung, bulk, acts, others>>

BulkLeft == {c \in calls : c.from = "bulk"}

\* Faulty: waits for all, and takes a refusal for an answer like any other.
AllSettled == \A c \in BulkLeft : c.st # "sent"

\* Promise.all has resolved.
AllOk == \A c \in BulkLeft : c.st = "ok"

\* onSuccess: the list is invalidated and the whole selection dropped.
BulkDone ==
    /\ bulk.on /\ AllOk
    /\ calls' = calls \ BulkLeft
    /\ fetch' = Invalidated
    /\ selected' = IF bulk.here THEN {} ELSE selected
    /\ bulk' = [bulk EXCEPT !.on = FALSE]
    /\ UNCHANGED <<status, cache, page, filter, swipes, flung, acts, others, answered>>

\* Promise.all rejects at the first refusal; the other requests go on and
\* nobody waits for them.  The selection stays and nothing is invalidated.
BulkFails(c) ==
    /\ c.from = "bulk" /\ c.st = "error"
    /\ calls' = {x \in calls : x.from # "bulk"}
                  \cup {[x EXCEPT !.from = "late"] : x \in {y \in BulkLeft : y.st = "sent"}}
    /\ bulk' = NoBulk
    /\ UNCHANGED <<status, cache, fetch, page, filter, selected, swipes, flung, acts,
                   others, answered>>

LateAnswer(c) ==
    /\ c.from = "late" /\ c.st # "sent"
    /\ calls' = calls \ {c}
    /\ UNCHANGED <<status, cache, fetch, page, filter, selected, swipes, flung, bulk,
                   acts, others, answered>>

-----------------------------------------------------------------------------
(* Selection and bulk bar, filters and pages *)

\* A row is selected by its checkbox; in selection mode its click does too.
Toggle(i) ==
    /\ Act
    /\ i \in Mounted
    /\ selected' = IF i \in selected THEN selected \ {i} ELSE selected \cup {i}
    /\ UNCHANGED <<status, cache, fetch, page, filter, swipes, flung, calls, bulk,
                   others, answered>>

Deselect ==
    /\ Act
    /\ selected # {}
    /\ selected' = {}
    /\ UNCHANGED <<status, cache, fetch, page, filter, swipes, flung, calls, bulk,
                   others, answered>>

\* "Acknowledge" sends the tickets the list shows open, "Close all" sends the
\* whole selection, rows of other pages and filters included.
Bulk(kind) ==
    /\ Act
    /\ selected # {} /\ ~bulk.on
    /\ LET ids == {i \in selected : kind = "close" \/ cache[page].rows[i] = "open"} IN
       /\ bulk' = [on |-> TRUE, here |-> TRUE, ids |-> ids, done |-> {}]
       /\ calls' = calls \cup {[id |-> i, kind |-> kind, from |-> "bulk", st |-> "sent"] : i \in ids}
    /\ UNCHANGED <<status, cache, fetch, page, filter, selected, swipes, flung, others,
                   answered>>

\* A page that comes on screen is shown from the cache, and fetched when the
\* cache has nothing or is stale.
Fetched(p) ==
    LET asked == IF fetch[p].st = "none" THEN [fetch EXCEPT ![p] = Asked] ELSE fetch IN
    fetch' \in IF cache[p].loaded THEN {fetch, asked} ELSE {asked}

Turn(p, f) ==
    /\ Act
    /\ page' = p /\ filter' = f
    /\ Show(cache[p], f)
    /\ Fetched(p)
    /\ UNCHANGED <<status, cache, selected, calls, bulk, others, answered>>

\* A tab, or the search box, goes back to the first page.
SetFilter(f) == f # filter /\ Turn(1, f)

\* The button of an empty list does not.
ShowAll == filter # "all" /\ cache[page].loaded /\ Shown = {} /\ Turn(page, "all")

\* The pager is there when the list on screen counts more than a page.
SetPage(p) ==
    LET totalPages == (cache[page].total + Limit - 1) \div Limit IN
    /\ totalPages > 1
    /\ p = page - 1 \/ (p = page + 1 /\ p <= totalPages)
    /\ Turn(p, filter)

\* To another page of the application and back: toasts and requests go on,
\* the cache is kept, the list's own state is new.  (A batch of the visit
\* before is waited for here before another is sent.)
Revisit ==
    /\ Act
    /\ page' = 1 /\ filter' = "all" /\ selected' = {}
    /\ swipes' = Cleanup(Mounted) /\ flung' = {}
    /\ bulk' = [bulk EXCEPT !.here = FALSE]
    /\ Fetched(1)
    /\ UNCHANGED <<status, cache, calls, others, answered>>

-----------------------------------------------------------------------------
(* Other people *)

Others(i, s) ==
    /\ Other
    /\ \/ status[i] = "none" /\ s = "open" /\ \A j \in TicketIds : j < i => status[j] # "none"
       \/ status[i] \in Statuses /\ s = "deleted"
       \/ <<status[i], s>> \in {<<"open", "acknowledged">>, <<"open", "pending">>,
             <<"pending", "acknowledged">>, <<"acknowledged", "closed">>, <<"closed", "open">>}
    /\ status' = [status EXCEPT ![i] = s]
    /\ UNCHANGED <<cache, fetch, page, filter, selected, swipes, flung, calls, bulk,
                   acts, answered>>

-----------------------------------------------------------------------------
QueueInit ==
    /\ \E n \in Before : status \in {s \in [TicketIds -> Starts \cup {"none"}] :
                                        \A i \in TicketIds : (s[i] = "none") = (i > n)}
    /\ cache = [p \in PageNumbers |-> NoAnswer]
    /\ fetch = [p \in PageNumbers |-> IF p = 1 THEN Asked ELSE NoFetch]
    /\ page = 1 /\ filter = "all" /\ selected = {}
    /\ swipes = {} /\ flung = {} /\ calls = {} /\ bulk = NoBulk
    /\ acts = 0 /\ others = 0 /\ answered = {}

Person ==
    \/ \E i \in TicketIds : SwipeAck(i) \/ Toggle(i)
    \/ \E i \in TicketIds, n \in 1..MaxSwipes : SwipeResolve(i, n)
    \/ \E s \in swipes : Undo(s)
    \/ \E kind \in {"ack", "close"} : Bulk(kind)
    \/ \E f \in Filters : SetFilter(f)
    \/ \E p \in PageNumbers : SetPage(p)
    \/ Deselect \/ ShowAll \/ Revisit

Timers == \E s \in swipes : Fire(s) \/ ToastGone(s)
Requests == BulkDone \/ \E c \in calls : Serve(c) \/ RowAnswer(c) \/ BulkFails(c) \/ LateAnswer(c)
Refetch(p) == Poll(p) \/ Read(p) \/ Receive(p)

QueueNext ==
    \/ Person \/ Timers \/ Requests
    \/ \E p \in PageNumbers : Refetch(p) \/ FetchFails(p)
    \/ \E i \in TicketIds, s \in Statuses \cup {"deleted"} : Others(i, s)

QueueSpec == QueueInit /\ [][QueueNext]_queueVars

\* Timers run out, requests are answered and the list is polled.
Fairness ==
    /\ WF_queueVars(Timers) /\ WF_queueVars(Requests)
    /\ \A p \in PageNumbers : WF_queueVars(Refetch(p))

FairSpec == QueueSpec /\ Fairness

-----------------------------------------------------------------------------
(* Properties *)

\* The variables stay in their sets.
QueueTypeOK ==
    /\ status \in [TicketIds -> Statuses \cup {"none", "deleted"}]
    /\ fetch \in [PageNumbers -> Fetch]
    /\ page \in PageNumbers /\ filter \in Filters \cup {"all"} /\ selected \subseteq TicketIds
    /\ swipes \subseteq Swipe /\ flung \subseteq TicketIds /\ calls \subseteq Call
    /\ bulk.on \in BOOLEAN /\ bulk.ids \subseteq TicketIds

\* A row that a swipe took off the screen is either gone from the list, or a
\* close of its ticket is due, under way or answered: no sequence of swipes,
\* undos, polls and page changes leaves a ticket nobody is closing out of sight.
HiddenRowsExplained ==
    \A i \in flung :
        \/ \E s \in swipes : s.id = i /\ s.armed
        \/ \E c \in calls : c.id = i /\ c.kind = "close"
        \/ i \in answered

\* A batch that reports success has changed every ticket it was sent for.
BulkTruthful == ~bulk.on => bulk.ids \subseteq bulk.done

\* When everybody is done the list shows what the server has, even if the
\* last batch failed halfway and invalidated nothing.
EventuallyShown == <>[](cache[page] = Answer(page))

\* After Undo the ticket is not closed behind the person's back: the timer of
\* an undone swipe runs on only if the row was swiped again in between.
UndoStops == \A s \in swipes : s.undone /\ s.armed => ~s.latest

\* What holds of the swipes in every state: Undo is obeyed.
QueueInv == QueueTypeOK /\ UndoStops

=============================================================================
