------------------------------ MODULE Clients ------------------------------
(***************************************************************************)
(* The life of one client account: soft deletion, restoring, exports and   *)
(* permanent deletion, by the desk or by the daily purge                   *)
(* (services/admin.rs, services/export.rs, tasks.rs), and the deletion of  *)
(* one of its tickets by the desk (routes/tickets.rs).                     *)
(*                                                                         *)
(* Reads and writes of a handler are separate steps; only the bodies of    *)
(* the three transactions are atomic.  Nothing crosses clients, so one     *)
(* client stands for all.  A tick is a day, which is the granularity of    *)
(* the recovery window and of the purge.                                   *)
(***************************************************************************)
EXTENDS Naturals, FiniteSets

CONSTANTS
  Handlers,   \* desk requests that can be in flight
  Purge,      \* the task hard_delete_expired_users
  Tickets,    \* ids of tickets of the client
  Window,     \* days of the recovery window (30)
  MaxTime,    \* bound of the clock (model only)
  MaxSlips    \* bound of failed purges and of restarts (model only)

ASSUME ClientsAssumption ==
  /\ Purge \notin Handlers
  /\ {Window, MaxTime, MaxSlips} \subseteq Nat /\ Window > 0

VARIABLES
  now,        \* the day
  client,     \* row of users: live, hidden (deleted_at set) or gone
  tickets,    \* rows of tickets, with deleted_at
  dirs,       \* tickets that have a directory under uploads/
  exported,   \* client_exports has a row for the client
  tasks,      \* the requests in flight and the purge
  nextRun,    \* the day of the next tick of the purge's interval
  failures,   \* history: failures of the purge
  restarts,   \* history: restarts of the server
  raced,      \* history: a soft deletion or a restore committed on a stale read
  stray       \* history: tickets filed, uploaded to or cut short during a deletion of
              \* theirs or of the account

vars == <<now, client, tickets, dirs, exported, tasks, nextRun, failures, restarts, raced, stray>>

Actors == Handlers \cup {Purge}
Days == 0..MaxTime

Jobs == {"none", "soft", "restore", "export", "hard", "purge", "delete", "upload"}
Steps == {"idle", "commit", "check", "list", "export", "record", "cascade", "rmdirs", "write"}

\* stamp: the deleted_at read or computed.  listed: the tickets whose
\* directories go.  content: the tickets the export holds.  overtaken (history):
\* a soft deletion or a restore that had read the account was in flight when the
\* purge read it.
Task == [job : Jobs, step : Steps, stamp : Days, listed : SUBSET Tickets,
         content : SUBSET Tickets, overtaken : BOOLEAN]

Idle == [job |-> "none", step |-> "idle", stamp |-> 0, listed |-> {}, content |-> {},
         overtaken |-> FALSE]

Begin(a, t) == tasks' = [tasks EXCEPT ![a] = t]
Goto(a, step) == Begin(a, [tasks[a] EXCEPT !.step = step])
At(a, step) == tasks[a].step = step

Rows == {t \in Tickets : tickets[t].state \in {"shown", "hidden"}}

\* A deletion that has listed the tickets it will clean up after.
PastList(a) ==
  \/ tasks[a].job = "hard" /\ tasks[a].step # "list"
  \/ tasks[a].job = "purge" /\ tasks[a].step \in {"cascade", "rmdirs"}

Init ==
  /\ now = 0
  /\ client = [state |-> "live", at |-> 0]
  /\ tickets = [t \in Tickets |-> [state |-> "none", at |-> 0, late |-> FALSE]]
  /\ dirs = {}
  /\ exported = FALSE
  /\ tasks = [a \in Actors |-> Idle]
  /\ nextRun = 1
  /\ failures = 0
  /\ restarts = 0
  /\ raced = FALSE
  /\ stray = {}

-----------------------------------------------------------------------------
(* Tickets and attachments *)

\* Any of the ways a ticket is filed.  Neither tokens nor the automatic ticket
\* of a lockout look for a soft deletion; the foreign key refuses a client that
\* is gone.
FileTicket(t) ==
  /\ tickets[t].state = "none" /\ client.state # "gone"
  /\ tickets' = [tickets EXCEPT ![t] =
                   [state |-> "shown", at |-> 0, late |-> client.state = "hidden"]]
  /\ stray' = IF \E a \in Actors : PastList(a) THEN stray \cup {t} ELSE stray
  /\ UNCHANGED <<now, client, dirs, exported, tasks, nextRun, failures, restarts, raced>>

\* post_message finds the ticket ...
UploadFind(h, t) ==
  /\ At(h, "idle") /\ t \in Rows
  /\ Begin(h, [Idle EXCEPT !.job = "upload", !.step = "write", !.listed = {t}])
  /\ UNCHANGED <<now, client, tickets, dirs, exported, nextRun, failures, restarts, raced, stray>>

\* ... and later writes the attachment, creating the directory.
UploadWrite(h) ==
  /\ At(h, "write")
  /\ dirs' = dirs \cup tasks[h].listed
  /\ stray' = stray \cup (tasks[h].listed \ Rows)
  /\ Begin(h, Idle)
  /\ UNCHANGED <<now, client, tickets, exported, nextRun, failures, restarts, raced>>

\* DELETE /tickets/:id: the rows go in one transaction, the directory later
\* (RemoveDir).
DeleteTicket(h, t) ==
  /\ At(h, "idle") /\ t \in Rows
  /\ tickets' = [tickets EXCEPT ![t] = [state |-> "gone", at |-> 0, late |-> FALSE]]
  /\ Begin(h, [Idle EXCEPT !.job = "delete", !.step = "rmdirs", !.listed = {t}])
  /\ UNCHANGED <<now, client, dirs, exported, nextRun, failures, restarts, raced, stray>>

-----------------------------------------------------------------------------
(* soft_delete_client and restore_client *)

SoftFind(h) ==
  /\ At(h, "idle") /\ client.state = "live"
  /\ Begin(h, [Idle EXCEPT !.job = "soft", !.step = "commit", !.stamp = now])
  /\ UNCHANGED <<now, client, tickets, dirs, exported, nextRun, failures, restarts, raced, stray>>

\* A bug: the statements take the time one by one.
HideTicketsNow(stamp) ==
  [t \in Tickets |-> IF tickets[t].state = "shown"
                     THEN [state |-> "hidden", at |-> now, late |-> FALSE] ELSE tickets[t]]

\* UPDATE tickets ... WHERE deleted_at IS NULL
HideTickets(stamp) ==
  [t \in Tickets |-> IF tickets[t].state = "shown"
                     THEN [state |-> "hidden", at |-> stamp, late |-> FALSE] ELSE tickets[t]]

SoftCommit(h) ==
  /\ At(h, "commit") /\ tasks[h].job = "soft"
  /\ tickets' = HideTickets(tasks[h].stamp)
  /\ client' = IF client.state = "gone" THEN client
               ELSE [state |-> "hidden", at |-> tasks[h].stamp]
  /\ raced' = (raced \/ client.state # "live")
  /\ Begin(h, Idle)
  /\ UNCHANGED <<now, dirs, exported, nextRun, failures, restarts, stray>>

\* A bug: a day too many.
RecoverableLonger == now - client.at <= Window + 1

\* "Utc::now() - deleted_ts > 30 days" refuses.
Recoverable == now - client.at <= Window

RestoreFind(h) ==
  /\ At(h, "idle") /\ client.state = "hidden" /\ Recoverable
  /\ Begin(h, [Idle EXCEPT !.job = "restore", !.step = "commit", !.stamp = client.at])
  /\ UNCHANGED <<now, client, tickets, dirs, exported, nextRun, failures, restarts, raced, stray>>

\* The tickets deleted together with the user come back, by their stamp.
ShowTickets(stamp) ==
  [t \in Tickets |-> IF tickets[t].state = "hidden" /\ tickets[t].at = stamp
                     THEN [state |-> "shown", at |-> 0, late |-> FALSE]
                     ELSE [tickets[t] EXCEPT !.late = FALSE]]

RestoreCommit(h) ==
  /\ At(h, "commit") /\ tasks[h].job = "restore"
  /\ tickets' = ShowTickets(tasks[h].stamp)
  /\ client' = IF client.state = "gone" THEN client ELSE [state |-> "live", at |-> 0]
  /\ raced' = (raced \/ client # [state |-> "hidden", at |-> tasks[h].stamp])
  /\ Begin(h, Idle)
  /\ UNCHANGED <<now, dirs, exported, nextRun, failures, restarts, stray>>

-----------------------------------------------------------------------------
(* export_client: on its own, and inside both ways of permanent deletion *)

ExportBegin(h) ==
  /\ At(h, "idle") /\ client.state # "gone"
  /\ Begin(h, [Idle EXCEPT !.job = "export", !.step = "export"])
  /\ UNCHANGED <<now, client, tickets, dirs, exported, nextRun, failures, restarts, raced, stray>>

\* The user and the tickets are read; a user that is gone is NotFound.
ExportRead(a) ==
  /\ At(a, "export") /\ client.state # "gone"
  /\ Begin(a, [tasks[a] EXCEPT !.step = "record", !.content = Rows])
  /\ UNCHANGED <<now, client, tickets, dirs, exported, nextRun, failures, restarts, raced, stray>>

AfterExport(t) ==
  CASE t.job = "export" -> Idle
    [] t.job = "hard"   -> [t EXCEPT !.step = "cascade"]
    [] t.job = "purge"  -> [t EXCEPT !.step = "list", !.content = {}]

\* The file is written and recorded, which the foreign key refuses once the
\* user is gone.
ExportRecord(a) ==
  /\ At(a, "record") /\ client.state # "gone"
  /\ exported' = TRUE
  /\ Begin(a, AfterExport(tasks[a]))
  /\ UNCHANGED <<now, client, tickets, dirs, nextRun, failures, restarts, raced, stray>>

-----------------------------------------------------------------------------
(* hard_delete_client *)

\* Find, compare the confirmation, require an earlier export.
HardBegin(h) ==
  /\ At(h, "idle") /\ client.state # "gone" /\ exported
  /\ Begin(h, [Idle EXCEPT !.job = "hard", !.step = "list"])
  /\ UNCHANGED <<now, client, tickets, dirs, exported, nextRun, failures, restarts, raced, stray>>

\* list_all_for_client, which takes the hidden ones too.
Listed == Rows

\* The desk lists before its final export, the purge after its own.
List(a) ==
  /\ At(a, "list")
  /\ Begin(a, [tasks[a] EXCEPT !.listed = Listed,
                               !.step = IF tasks[a].job = "hard" THEN "export" ELSE "cascade"])
  /\ UNCHANGED <<now, client, tickets, dirs, exported, nextRun, failures, restarts, raced, stray>>

\* cascade_delete_user_data in its transaction; it succeeds when nothing is left
\* to delete.
Cascade(a) ==
  /\ At(a, "cascade")
  /\ tickets' = [t \in Tickets |-> IF t \in Rows
                                   THEN [state |-> "gone", at |-> 0, late |-> FALSE]
                                   ELSE tickets[t]]
  /\ client' = [state |-> "gone", at |-> 0]
  /\ exported' = FALSE
  /\ Goto(a, "rmdirs")
  /\ UNCHANGED <<now, dirs, nextRun, failures, restarts, raced, stray>>

Rest(a, t) ==
  IF tasks[a].listed = {t} THEN Idle ELSE [tasks[a] EXCEPT !.listed = @ \ {t}]

RemoveDir(a, t) ==
  /\ At(a, "rmdirs") /\ t \in tasks[a].listed
  /\ dirs' = dirs \ {t}
  /\ Begin(a, Rest(a, t))
  /\ UNCHANGED <<now, client, tickets, exported, nextRun, failures, restarts, raced, stray>>

Done(a) ==
  /\ At(a, "rmdirs") /\ tasks[a].listed = {}
  /\ Begin(a, Idle)
  /\ UNCHANGED <<now, client, tickets, dirs, exported, nextRun, failures, restarts, raced, stray>>

-----------------------------------------------------------------------------
(* hard_delete_expired_users *)

\* A bug: a day too many.
ExpiredLater == client.state = "hidden" /\ now - client.at > Window + 1

Expired == client.state = "hidden" /\ now - client.at > Window

\* The interval ticks once a day; find_expired_soft_deleted.
PurgeFind ==
  /\ At(Purge, "idle") /\ nextRun <= now
  /\ nextRun' = nextRun + 1
  /\ Begin(Purge, IF Expired
                  THEN [Idle EXCEPT !.job = "purge", !.step = "check",
                          !.overtaken = \E h \in Handlers : At(h, "commit")]
                  ELSE Idle)
  /\ UNCHANGED <<now, client, tickets, dirs, exported, failures, restarts, raced, stray>>

Check == IF exported THEN "list" ELSE "export"

\* exists_for_client; without an earlier export one is made first.
PurgeCheck ==
  /\ At(Purge, "check")
  /\ Goto(Purge, Check)
  /\ UNCHANGED <<now, client, tickets, dirs, exported, nextRun, failures, restarts, raced, stray>>

-----------------------------------------------------------------------------
(* Failures *)

\* A request is refused, fails or is dropped at an await.
Abort(h) ==
  /\ ~At(h, "idle")
  /\ Begin(h, Idle)
  /\ stray' = IF At(h, "rmdirs") THEN stray \cup tasks[h].listed ELSE stray
  /\ UNCHANGED <<now, client, tickets, dirs, exported, nextRun, failures, restarts, raced>>

\* A failed listing counts as an empty one (unwrap_or_default) and the deletion
\* goes on.
PurgeListFails ==
  /\ At(Purge, "list") /\ failures < MaxSlips
  /\ failures' = failures + 1
  /\ Goto(Purge, "cascade")
  /\ stray' = stray \cup Rows
  /\ UNCHANGED <<now, client, tickets, dirs, exported, nextRun, restarts, raced>>

\* A statement or the export of the purge fails; it tries again a day later.
PurgeFails ==
  /\ ~At(Purge, "idle") /\ failures < MaxSlips
  /\ failures' = failures + 1
  /\ Begin(Purge, Idle)
  /\ stray' = IF At(Purge, "rmdirs") THEN stray \cup tasks[Purge].listed ELSE stray
  /\ UNCHANGED <<now, client, tickets, dirs, exported, nextRun, restarts, raced>>

\* The first tick of a new interval, which comes at once, is skipped.
FirstRun == now + 1

\* The process stops and starts, or the purge panics and is started again.
Restart ==
  /\ restarts < MaxSlips
  /\ restarts' = restarts + 1
  /\ tasks' = [a \in Actors |-> Idle]
  /\ nextRun' = FirstRun
  /\ stray' = stray \cup UNION {tasks[a].listed : a \in {b \in Actors : At(b, "rmdirs")}}
  /\ UNCHANGED <<now, client, tickets, dirs, exported, failures, raced>>

\* A run of the purge is done on the day it is due, and no request is in flight
\* for two midnights.
Tick ==
  /\ now < MaxTime
  /\ At(Purge, "idle") /\ nextRun > now
  /\ \A h \in Handlers : tasks[h].job = "soft" => tasks[h].stamp = now
  /\ now' = now + 1
  /\ UNCHANGED <<client, tickets, dirs, exported, tasks, nextRun, failures, restarts, raced, stray>>

-----------------------------------------------------------------------------
HandlerStep(h) ==
  \/ \E t \in Tickets : UploadFind(h, t) \/ DeleteTicket(h, t)
  \/ UploadWrite(h)
  \/ SoftFind(h)
  \/ SoftCommit(h)
  \/ RestoreFind(h)
  \/ RestoreCommit(h)
  \/ ExportBegin(h)
  \/ HardBegin(h)
  \/ Abort(h)

DeletionStep(a) ==
  \/ ExportRead(a)
  \/ ExportRecord(a)
  \/ List(a)
  \/ Cascade(a)
  \/ \E t \in Tickets : RemoveDir(a, t)
  \/ Done(a)

Next ==
  \/ \E t \in Tickets : FileTicket(t)
  \/ \E h \in Handlers : HandlerStep(h)
  \/ \E a \in Actors : DeletionStep(a)
  \/ PurgeFind
  \/ PurgeCheck
  \/ PurgeListFails
  \/ PurgeFails
  \/ Restart
  \/ Tick

Spec == Init /\ [][Next]_vars

-----------------------------------------------------------------------------
(* Properties *)

\* The variables stay in their sets.
TypeOK ==
  /\ now \in Days
  /\ client \in [state : {"live", "hidden", "gone"}, at : Days]
  /\ tickets \in [Tickets -> [state : {"none", "shown", "hidden", "gone"}, at : Days,
                              late : BOOLEAN]]
  /\ dirs \in SUBSET Tickets
  /\ exported \in BOOLEAN
  /\ tasks \in [Actors -> Task]
  /\ nextRun \in 0..(MaxTime + 1)
  /\ {failures, restarts} \subseteq 0..MaxSlips
  /\ raced \in BOOLEAN
  /\ stray \in SUBSET Tickets

\* A client and its tickets are hidden and shown together: no ticket of a
\* restored client stays hidden, and of a hidden one only tickets filed since are
\* shown, unless two requests changed the account on the same reading of it.
TogetherUnlessRaced ==
  ~raced =>
    \A t \in Tickets :
      /\ client.state = "live" => tickets[t].state # "hidden"
      /\ client.state = "hidden" =>
           /\ tickets[t].state = "shown" => tickets[t].late
           /\ tickets[t].state = "hidden" => tickets[t].at = client.at

\* No account is deleted for good without a recorded export, whatever the
\* other deletions and exports do; what the desk deletes is in its final export
\* but for what was filed during the deletion.
NothingDeletedUnexported ==
  [][\A a \in Actors : Cascade(a) /\ client.state # "gone" =>
       /\ exported
       /\ tasks[a].job = "hard" => Rows \ tasks[a].content \subseteq stray]_vars

\* The purge never deletes an account that was restored, even to be deleted
\* again, unless the request that changed it had read it before the purge did:
\* recovery ends where the purge begins.
PurgeSparesRestored ==
  [][Cascade(Purge) /\ client.state # "gone" => Expired \/ tasks[Purge].overtaken]_vars

\* "Message threads and attachments: deleted together with your account"
\* (PRIVACY-NOTICE.md:49): once the deletion is through, no directory is left
\* but those of filings and uploads that overlapped the deletion of the account
\* or of their ticket, or of a listing or a removal that failed.
DirsGoUnlessRaced ==
  client.state = "gone" /\ (\A a \in Actors : ~At(a, "rmdirs")) => dirs \subseteq stray

\* A soft-deleted account outlives its window by a day at most, and by one more
\* for every run of the purge that failed and every restart.
PurgedOnTime ==
  client.state = "hidden" => now - client.at <= Window + 1 + failures + restarts

\* What holds of the account, its tickets and its directories in every state.
Inv == TypeOK /\ TogetherUnlessRaced /\ DirsGoUnlessRaced

\* What no step may do: delete for good what was not exported, or what the
\* purge should have let go.
PurgeSafe == NothingDeletedUnexported /\ PurgeSparesRestored
=============================================================================
