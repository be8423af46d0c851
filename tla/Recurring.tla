----------------------------- MODULE Recurring -----------------------------
(***************************************************************************)
(* The hourly tasks recurring_tickets and recurring_invoices (tasks.rs),   *)
(* against the desk that edits their templates and the deletion of their   *)
(* client.                                                                 *)
(*                                                                         *)
(* A run lists the templates that are due, then, for each, inserts a copy  *)
(* and moves the template's date on, in two statements.  Dates are counted *)
(* in ticks; a template's date is next_recur_date for an invoice and       *)
(* last_recurred_at plus the interval for a ticket.                        *)
(***************************************************************************)
EXTENDS Naturals, FiniteSets

CONSTANTS
  Invoices,    \* ids of invoices with recurrence, of one client
  TicketIds,   \* ids of tickets with recurrence, of the same client
  Handlers,    \* desk requests that can be in flight
  Interval,    \* ticks between two dates of a template
  MaxTime,     \* bound of the clock (model only)
  MaxEdits,    \* bound of edits by the desk (model only)
  MaxFaults    \* bound of failures and restarts of the tasks (model only)

ASSUME RecurringAssumption ==
  /\ Invoices \cap TicketIds = {}
  /\ Interval \in Nat \ {0}
  /\ {MaxTime, MaxEdits, MaxFaults} \subseteq Nat

VARIABLES
  now,       \* the clock
  client,    \* the client's row: live, hidden or gone
  rows,      \* the templates
  made,      \* history: copies made of each template for each of its dates
  task,      \* the two tasks
  req,       \* the requests in flight
  edits,     \* history: edits begun by the desk
  faults,    \* history: failures and restarts of the tasks
  from,      \* history: the date a template was last given by the desk
  slipped,   \* history: templates copied but not moved on, or moved back
  raced      \* history: templates written on a stale reading, or edited when
             \* their client was gone

vars == <<now, client, rows, made, task, req, edits, faults, from, slipped, raced>>

Templates == Invoices \cup TicketIds
Kinds == {"tickets", "invoices"}
Of(kind) == IF kind = "tickets" THEN TicketIds ELSE Invoices
Dates == 0..(MaxTime + Interval)

\* issued: the status of an invoice is no longer draft.
Row == [state : {"none", "on", "off", "gone"}, date : Dates, issued : BOOLEAN]
NoRow == [state |-> "none", date |-> 0, issued |-> FALSE]

\* due: the templates left of this run with the dates they had when listed;
\* copied: the one whose copy is made and whose date is still to move.
TaskIdle == [due |-> {}, copied |-> {}]
Due == [id : Templates, date : Dates]

ReqIdle == [id |-> {}, row |-> NoRow, read |-> NoRow]

InTable(t) == rows[t].state \in {"on", "off"}

Init ==
  /\ now = 0
  /\ client = "live"
  /\ rows = [t \in Templates |-> NoRow]
  /\ made = [t \in Templates |-> [d \in Dates |-> 0]]
  /\ task = [k \in Kinds |-> TaskIdle]
  /\ req = [h \in Handlers |-> ReqIdle]
  /\ edits = 0
  /\ faults = 0
  /\ from = [t \in Templates |-> 0]
  /\ slipped = {}
  /\ raced = {}

-----------------------------------------------------------------------------
(* The tasks *)

\* A bug: the orphans of a deleted client are listed too.
IsDueOrphan(t) == rows[t].state = "on" /\ rows[t].date <= now

\* list_due_for_recurrence.  A hidden client's tickets are hidden with it; its
\* invoices are not.
IsDue(t) ==
  /\ rows[t].state = "on" /\ rows[t].date <= now
  /\ IF t \in TicketIds THEN client = "live" ELSE client # "gone"

\* A bug: nothing starts a task again that has failed.
TicksUntilFault(k) == task[k] = TaskIdle /\ faults = 0

\* The interval ticks, also in a task the supervisor has started again.
Ticks(k) == task[k] = TaskIdle

\* A run that finds nothing changes nothing.
ListDue(k) ==
  /\ Ticks(k)
  /\ \E t \in Of(k) : IsDue(t)
  /\ task' = [task EXCEPT ![k].due = {[id |-> t, date |-> rows[t].date] : t \in {s \in Of(k) : IsDue(s)}}]
  /\ UNCHANGED <<now, client, rows, made, req, edits, faults, from, slipped, raced>>

\* The insert, which the foreign key refuses for a client that is gone.
Copy(k, d) ==
  /\ task[k].copied = {} /\ d \in task[k].due /\ client # "gone"
  /\ made' = [made EXCEPT ![d.id][d.date] = @ + 1]
  /\ task' = [task EXCEPT ![k] = [due |-> @.due \ {d}, copied |-> {d}]]
  /\ UNCHANGED <<now, client, rows, req, edits, faults, from, slipped, raced>>

CopyRefused(k, d) ==
  /\ task[k].copied = {} /\ d \in task[k].due /\ client = "gone"
  /\ task' = [task EXCEPT ![k].due = @ \ {d}]
  /\ UNCHANGED <<now, client, rows, made, req, edits, faults, from, slipped, raced>>

\* A bug: an invoice is moved on from today, not from its date.
NextDateFromNow(d) == now + Interval

\* advance_recur_date, and last_recurred_at = now.
NextDate(d) == IF d.id \in Invoices THEN d.date + Interval ELSE now + Interval

\* update_next_recur_date, update_last_recurred: WHERE id = ?.
Moved(d) == IF InTable(d.id) THEN [rows EXCEPT ![d.id].date = NextDate(d)] ELSE rows

\* The date written may be behind one the desk has given since the listing.
Advance(k, d) ==
  /\ d \in task[k].copied
  /\ rows' = Moved(d)
  /\ raced' = IF InTable(d.id) /\ rows[d.id].date # d.date THEN raced \cup {d.id} ELSE raced
  /\ slipped' = IF InTable(d.id) /\ rows[d.id].date > NextDate(d)
                THEN slipped \cup {d.id} ELSE slipped
  /\ task' = [task EXCEPT ![k].copied = {}]
  /\ UNCHANGED <<now, client, made, req, edits, faults, from>>

\* The insert or the update fails; the run goes on with the next template.
Fails(k, d) ==
  /\ faults < MaxFaults /\ faults' = faults + 1
  /\ \/ /\ task[k].copied = {} /\ d \in task[k].due
        /\ task' = [task EXCEPT ![k].due = @ \ {d}]
        /\ UNCHANGED slipped
     \/ /\ d \in task[k].copied
        /\ task' = [task EXCEPT ![k].copied = {}]
        /\ slipped' = slipped \cup {d.id}
  /\ UNCHANGED <<now, client, rows, made, req, edits, from, raced>>

\* A panic or a restart; the supervisor starts the task again and its first
\* tick comes at once.
Crash(k) ==
  /\ task[k] # TaskIdle
  /\ faults < MaxFaults /\ faults' = faults + 1
  /\ task' = [task EXCEPT ![k] = TaskIdle]
  /\ slipped' = slipped \cup {d.id : d \in task[k].copied}
  /\ UNCHANGED <<now, client, rows, made, req, edits, from, raced>>

-----------------------------------------------------------------------------
(* The desk *)

Edit == edits < MaxEdits /\ edits' = edits + 1

\* A ticket with recurrence is due at once and needs a client that is not
\* hidden; an invoice is due from the date given, which nothing compares with
\* today, and only the foreign key looks for its client.
Create(t) ==
  /\ rows[t].state = "none"
  /\ IF t \in TicketIds THEN client = "live" ELSE client # "gone"
  /\ \E d \in 0..MaxTime :
       /\ t \in TicketIds => d = now
       /\ rows' = [rows EXCEPT ![t] = [state |-> "on", date |-> d, issued |-> FALSE]]
       /\ from' = [from EXCEPT ![t] = d]
  /\ UNCHANGED <<now, client, made, task, req, edits, faults, slipped, raced>>

\* PATCH /tickets/:id writes only the columns it was given.
PatchTicket(t) ==
  /\ t \in TicketIds /\ InTable(t) /\ client = "live" /\ Edit
  /\ rows' = [rows EXCEPT ![t].state = IF @ = "on" THEN "off" ELSE "on"]
  /\ UNCHANGED <<now, client, made, task, req, faults, from, slipped, raced>>

\* What a PATCH of an invoice may make of the row it read: leave its recurrence
\* alone, stop it, start it, change its date or issue it.
Edited(r) ==
  {r, [r EXCEPT !.state = "off"], [r EXCEPT !.state = "on"], [r EXCEPT !.issued = TRUE]}
    \cup {[r EXCEPT !.date = d] : d \in 0..MaxTime}

UpdateFind(h, t) ==
  /\ req[h] = ReqIdle /\ t \in Invoices /\ InTable(t) /\ Edit
  /\ \E r \in Edited(rows[t]) : req' = [req EXCEPT ![h] = [id |-> {t}, row |-> r, read |-> rows[t]]]
  /\ UNCHANGED <<now, client, rows, made, task, faults, from, slipped, raced>>

\* UPDATE invoices writes every column, those it was not given from its reading.
UpdateWrite(h) ==
  \E t \in req[h].id :
    LET r == req[h] IN
    /\ rows' = IF InTable(t) THEN [rows EXCEPT ![t] = r.row] ELSE rows
    /\ from' = IF r.row.date # r.read.date THEN [from EXCEPT ![t] = r.row.date] ELSE from
    /\ raced' = IF rows[t] # r.read \/ client = "gone" THEN raced \cup {t} ELSE raced
    /\ slipped' = IF r.row.date < rows[t].date THEN slipped \cup {t} ELSE slipped
    /\ req' = [req EXCEPT ![h] = ReqIdle]
    /\ UNCHANGED <<now, client, made, task, edits, faults>>

Abort(h) ==
  /\ req[h] # ReqIdle
  /\ req' = [req EXCEPT ![h] = ReqIdle]
  /\ UNCHANGED <<now, client, rows, made, task, edits, faults, from, slipped, raced>>

Delete(t) ==
  /\ InTable(t) /\ Edit
  /\ t \in TicketIds => client = "live"
  /\ rows' = [rows EXCEPT ![t] = [NoRow EXCEPT !.state = "gone"]]
  /\ UNCHANGED <<now, client, made, task, req, faults, from, slipped, raced>>

-----------------------------------------------------------------------------
(* The client, as in Clients *)

SoftDelete ==
  /\ client = "live" /\ Edit
  /\ client' = "hidden"
  /\ UNCHANGED <<now, rows, made, task, req, faults, from, slipped, raced>>

Restore ==
  /\ client = "hidden"
  /\ client' = "live"
  /\ UNCHANGED <<now, rows, made, task, req, edits, faults, from, slipped, raced>>

\* A bug: the recurrence of issued invoices goes on.
CascadedOn(t) ==
  IF t \in Invoices /\ rows[t].issued THEN rows[t] ELSE [NoRow EXCEPT !.state = "gone"]

\* Tickets and drafts are deleted; issued invoices stay and stop recurring.
Cascaded(t) ==
  IF t \in Invoices /\ rows[t].issued THEN [rows[t] EXCEPT !.state = "off"]
  ELSE [NoRow EXCEPT !.state = "gone"]

HardDelete ==
  /\ client # "gone" /\ Edit
  /\ client' = "gone"
  /\ rows' = [t \in Templates |-> IF InTable(t) THEN Cascaded(t) ELSE rows[t]]
  /\ UNCHANGED <<now, made, task, req, faults, from, slipped, raced>>

Tick ==
  /\ now < MaxTime
  /\ now' = now + 1
  /\ UNCHANGED <<client, rows, made, task, req, edits, faults, from, slipped, raced>>

-----------------------------------------------------------------------------
TaskStep(k) ==
  \/ ListDue(k)
  \/ \E d \in task[k].due : Copy(k, d) \/ CopyRefused(k, d)
  \/ \E d \in task[k].copied : Advance(k, d)

Next ==
  \/ \E k \in Kinds : TaskStep(k) \/ Crash(k) \/ \E d \in task[k].due \cup task[k].copied : Fails(k, d)
  \/ \E t \in Templates : Create(t) \/ PatchTicket(t) \/ Delete(t)
  \/ \E h \in Handlers, t \in Templates : UpdateFind(h, t)
  \/ \E h \in Handlers : UpdateWrite(h) \/ Abort(h)
  \/ SoftDelete
  \/ Restore
  \/ HardDelete
  \/ Tick

\* The interval of a task ticks for ever and the supervisor starts the task again.
Fairness == \A k \in Kinds : WF_vars(TaskStep(k))

Spec == Init /\ [][Next]_vars /\ Fairness

-----------------------------------------------------------------------------
(* Properties *)

\* The variables stay in their sets.
TypeOK ==
  /\ now \in 0..MaxTime
  /\ client \in {"live", "hidden", "gone"}
  /\ rows \in [Templates -> Row]
  /\ made \in [Templates -> [Dates -> Nat]]
  /\ \A k \in Kinds : task[k].due \subseteq Due /\ task[k].copied \subseteq Due
  /\ \A h \in Handlers : req[h].id \subseteq Invoices /\ {req[h].row, req[h].read} \subseteq Row
  /\ edits \in 0..MaxEdits
  /\ faults \in 0..MaxFaults
  /\ from \in [Templates -> Dates]
  /\ {slipped, raced} \subseteq SUBSET Templates

\* A template is copied once for each of its dates, unless a copy was not followed
\* by the move of the date or the desk's stale write moved the date back.
OneCopyPerDateUnlessSlipped ==
  \A t \in Templates, d \in Dates : made[t][d] > 1 => t \in slipped

\* No date of an invoice is passed over: from the date the desk gave it, every
\* date before the current one has its draft, whatever fails, unless the desk
\* and the task wrote the row on stale readings of each other.
NoDateSkipped ==
  \A t \in Invoices \ raced : InTable(t) =>
    \A d \in {from[t] + n * Interval : n \in 0..MaxTime} :
      d < rows[t].date => made[t][d] >= 1

\* An invoice that outlives its client is issued and does not recur ("retained
\* ... with recurrence disabled", README.md:635), unless an edit was written after
\* the deletion: one that had read the invoice before, or one of the orphan itself,
\* whose recurrence the desk may turn on again although no run lists it.
OrphansQuietUnlessRaced ==
  client = "gone" =>
    \A t \in Templates \ raced : InTable(t) =>
      t \in Invoices /\ rows[t].issued /\ rows[t].state = "off"

\* No template stays due: runs catch up with all the dates that have passed.
CatchesUp == \A t \in Templates : []<>(~IsDue(t))

\* What holds of the templates and their copies in every state: no date is copied
\* twice, and nothing recurs for a client who is gone.
Inv == TypeOK /\ OneCopyPerDateUnlessSlipped /\ OrphansQuietUnlessRaced
=============================================================================
