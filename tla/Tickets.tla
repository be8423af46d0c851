-------------------------------- MODULE Tickets --------------------------------
(***************************************************************************)
(* Tickets: the status column and everything that writes it, the messages  *)
(* of a ticket's thread, the attachments under uploads/<ticket>, and the   *)
(* deletion of a ticket.                                                   *)
(*                                                                         *)
(* A status change reads the row, validates the move with                  *)
(* ticket_status::transition and then writes the new status whatever the   *)
(* row has become (UPDATE ... WHERE id = ?), so requests on one ticket     *)
(* interleave between the read and the write.  An attachment is written    *)
(* to disk before the message that names it, and the directory is removed  *)
(* after the rows of a deleted ticket.                                     *)
(***************************************************************************)
EXTENDS Integers, FiniteSets

CONSTANTS
    Tickets,    \* ids of tickets
    Messages,   \* ids of messages; an attachment is named after its message
    Handlers,   \* requests that can be in flight at the same time
    NoTicket,   \* the ticket of an idle handler or of an unused message
    NoMessage   \* the message of a handler that posts none

ASSUME IdsAssumption == NoTicket \notin Tickets /\ NoMessage \notin Messages

VARIABLES
    status,   \* tickets.status, "none" before the row and "gone" after it
    thread,   \* the message rows: ticket and attachment
    files,    \* attachments on disk, by message
    req,      \* the handlers in flight
    hist      \* history: each file's ticket, files written after its deletion,
              \* and tickets whose directory removal was cut off

vars == <<status, thread, files, req, hist>>

-----------------------------------------------------------------------------
(* Rows and handlers *)

Statuses == {"open", "pending", "acknowledged", "closed"}
Actions == {"acknowledge", "pend", "close", "reopen"}

\* One row per message, with or without attachment_path.
Row == [state: {"none", "posted", "gone"}, ticket: Tickets \cup {NoTicket}, file: BOOLEAN]
NoRow == [state |-> "none", ticket |-> NoTicket, file |-> FALSE]

Steps == {"idle", "initial", "write", "upload", "read", "reopen", "insert", "rmdir"}

\* target: the status to write.  stale (history): the ticket's status was
\* written, or its row deleted, since the handler last read it.
Handler == [step: Steps, ticket: Tickets \cup {NoTicket}, target: Statuses,
            message: Messages \cup {NoMessage}, file: BOOLEAN, stale: BOOLEAN]
Idle == [step |-> "idle", ticket |-> NoTicket, target |-> "open",
         message |-> NoMessage, file |-> FALSE, stale |-> FALSE]

Exists(k) == status[k] \in Statuses
Begin(h, r) == req' = [req EXCEPT ![h] = r]

\* The handler h goes on as r, and what the others know of ticket k is stale.
Overtake(h, k, r) ==
    req' = [i \in Handlers |-> CASE i = h -> r
                                 [] i # h /\ req[i].ticket = k -> [req[i] EXCEPT !.stale = TRUE]
                                 [] OTHER -> req[i]]

-----------------------------------------------------------------------------
(* ticket_status::transition *)

\* Faulty: a pending ticket may be reopened as well.
TransitionFromPending(from) ==
    CASE from = "open" -> {<<"acknowledge", "acknowledged">>, <<"pend", "pending">>}
      [] from = "pending" -> {<<"acknowledge", "acknowledged">>, <<"reopen", "open">>}
      [] from = "acknowledged" -> {<<"close", "closed">>}
      [] from = "closed" -> {<<"reopen", "open">>}

\* The actions a status allows, each with the status it leads to; any other
\* action is refused as an InvalidTransition.
Transition(from) ==
    CASE from = "open" -> {<<"acknowledge", "acknowledged">>, <<"pend", "pending">>}
      [] from = "pending" -> {<<"acknowledge", "acknowledged">>}
      [] from = "acknowledged" -> {<<"close", "closed">>}
      [] from = "closed" -> {<<"reopen", "open">>}

-----------------------------------------------------------------------------
(* POST /tickets *)

\* The row is inserted open.  The desk may ask for another initial status; an
\* unknown one is answered 400 with the row left open.  The lockout ticket and
\* the recurring tickets are inserted open too.
CreateTicket(h, k, initial) ==
    /\ req[h].step = "idle"
    /\ status[k] = "none"
    /\ status' = [status EXCEPT ![k] = "open"]
    /\ Begin(h, IF initial = "open" THEN Idle
                ELSE [Idle EXCEPT !.step = "initial", !.ticket = k, !.target = initial])
    /\ UNCHANGED <<thread, files, hist>>

\* update_status, which fails when the row is gone.
UpdateStatus(h, r) ==
    LET k == req[h].ticket IN
    IF Exists(k)
    THEN status' = [status EXCEPT ![k] = req[h].target] /\ Overtake(h, k, r)
    ELSE status' = status /\ Begin(h, Idle)

SetInitial(h) ==
    /\ req[h].step = "initial"
    /\ UpdateStatus(h, Idle)
    /\ UNCHANGED <<thread, files, hist>>

-----------------------------------------------------------------------------
(* PATCH /tickets/:id/acknowledge, /pend, /close, /reopen *)

TransitionFind(h, k, action) ==
    /\ req[h].step = "idle"
    /\ Exists(k)
    /\ \E move \in Transition(status[k]) :
         /\ move[1] = action
         /\ Begin(h, [Idle EXCEPT !.step = "write", !.ticket = k, !.target = move[2]])
    /\ UNCHANGED <<status, thread, files, hist>>

TransitionWrite(h) ==
    /\ req[h].step = "write"
    /\ UpdateStatus(h, Idle)
    /\ UNCHANGED <<thread, files, hist>>

-----------------------------------------------------------------------------
(* POST /tickets/:id/messages *)

\* The route checks the ticket before it touches the disk.
PostFind(h, k, m, file) ==
    /\ req[h].step = "idle"
    /\ Exists(k)
    /\ thread[m].state = "none" /\ \A i \in Handlers : req[i].message # m
    /\ m \notin files
    /\ Begin(h, [Idle EXCEPT !.step = IF file THEN "upload" ELSE "read",
                             !.ticket = k, !.message = m, !.file = file])
    /\ UNCHANGED <<status, thread, files, hist>>

\* Faulty: a failed write is only logged.
UploadIgnored(h) ==
    /\ req[h].step = "upload"
    /\ Begin(h, [req[h] EXCEPT !.step = "read"])
    /\ UNCHANGED <<status, thread, files, hist>>

\* create_dir_all and write, which bring back a directory removed meanwhile.
PostUpload(h) ==
    /\ req[h].step = "upload"
    /\ files' = files \cup {req[h].message}
    /\ hist' = [hist EXCEPT !.home[req[h].message] = req[h].ticket,
                            !.late = IF Exists(req[h].ticket) THEN @ ELSE @ \cup {req[h].message}]
    /\ Begin(h, [req[h] EXCEPT !.step = "read"])
    /\ UNCHANGED <<status, thread>>

\* Faulty: compared with a status no ticket has.
ReopensNever(k) == status[k] = "resolved"

\* A message on a closed ticket reopens it.
Reopens(k) == status[k] = "closed"

\* services::messages::post_message reads the ticket again.
PostRead(h) ==
    LET k == req[h].ticket IN
    /\ req[h].step = "read"
    /\ Begin(h, CASE ~Exists(k) -> Idle
                  [] Reopens(k) -> [req[h] EXCEPT !.step = "reopen", !.stale = FALSE]
                  [] Exists(k) /\ ~Reopens(k) -> [req[h] EXCEPT !.step = "insert", !.stale = FALSE])
    /\ UNCHANGED <<status, thread, files, hist>>

PostReopen(h) ==
    /\ req[h].step = "reopen"
    /\ UpdateStatus(h, [req[h] EXCEPT !.step = "insert", !.target = "open"])
    /\ UNCHANGED <<thread, files, hist>>

\* thread::insert; without the ticket's row it breaks the foreign key.
PostInsert(h) ==
    LET m == req[h].message IN
    /\ req[h].step = "insert"
    /\ Exists(req[h].ticket)
    /\ thread' = [thread EXCEPT ![m] = [state |-> "posted", ticket |-> req[h].ticket,
                                        file |-> req[h].file]]
    /\ Begin(h, Idle)
    /\ UNCHANGED <<status, files, hist>>

-----------------------------------------------------------------------------
(* DELETE /tickets/:id *)

\* One transaction for the ticket, its messages, notes and links.
DeleteRows(h, k) ==
    /\ req[h].step = "idle"
    /\ Exists(k)
    /\ status' = [status EXCEPT ![k] = "gone"]
    /\ thread' = [m \in Messages |-> IF thread[m].ticket = k
                                     THEN [NoRow EXCEPT !.state = "gone"] ELSE thread[m]]
    /\ Overtake(h, k, [Idle EXCEPT !.step = "rmdir", !.ticket = k])
    /\ UNCHANGED <<files, hist>>

\* Faulty: remove_dir, which fails unless the directory is empty.
RemoveEmptyDirectory(h) ==
    /\ req[h].step = "rmdir"
    /\ Begin(h, Idle)
    /\ UNCHANGED <<status, thread, files, hist>>

\* remove_dir_all
RemoveDirectory(h) ==
    /\ req[h].step = "rmdir"
    /\ files' = {m \in files : hist.home[m] # req[h].ticket}
    /\ Begin(h, Idle)
    /\ UNCHANGED <<status, thread, hist>>

\* The handler's future is dropped or fails at an await.
Abort(h) ==
    /\ req[h].step # "idle"
    /\ hist' = IF req[h].step = "rmdir"
               THEN [hist EXCEPT !.kept = @ \cup {req[h].ticket}] ELSE hist
    /\ Begin(h, Idle)
    /\ UNCHANGED <<status, thread, files>>

-----------------------------------------------------------------------------
Init ==
    /\ status = [k \in Tickets |-> "none"]
    /\ thread = [m \in Messages |-> NoRow]
    /\ files = {}
    /\ req = [h \in Handlers |-> Idle]
    /\ hist = [home |-> [m \in Messages |-> NoTicket], late |-> {}, kept |-> {}]

HandlerStep(h) ==
    \/ SetInitial(h)
    \/ TransitionWrite(h)
    \/ PostUpload(h)
    \/ PostRead(h)
    \/ PostReopen(h)
    \/ PostInsert(h)
    \/ RemoveDirectory(h)
    \/ Abort(h)
    \/ \E k \in Tickets :
         \/ \E initial \in Statuses : CreateTicket(h, k, initial)
         \/ \E action \in Actions : TransitionFind(h, k, action)
         \/ \E m \in Messages, file \in BOOLEAN : PostFind(h, k, m, file)
         \/ DeleteRows(h, k)

Next == \E h \in Handlers : HandlerStep(h)

Spec == Init /\ [][Next]_vars

-----------------------------------------------------------------------------
(* Properties *)

\* The variables stay in their sets.
TypeOK ==
    /\ status \in [Tickets -> Statuses \cup {"none", "gone"}]
    /\ thread \in [Messages -> Row]
    /\ files \in SUBSET Messages
    /\ req \in [Handlers -> Handler]
    /\ hist \in [home: [Messages -> Tickets \cup {NoTicket}], late: SUBSET Messages,
                 kept: SUBSET Tickets]

\* The table "Ticket Lifecycle" of README.md.
Documented == {<<"open", "acknowledged">>, <<"open", "pending">>, <<"pending", "acknowledged">>,
               <<"acknowledged", "closed">>, <<"closed", "open">>}

\* The status moves only along the documented table, except that the desk's
\* initial status is written over the open row, and that a request whose
\* ticket was changed between its read and its write writes what it had
\* decided.
Moved(k) == status[k] \in Statuses /\ status'[k] \in Statuses /\ status'[k] # status[k]

LegalUnlessRaced ==
    [][\A k \in Tickets : Moved(k) =>
         \/ <<status[k], status'[k]>> \in Documented
         \/ \E h \in Handlers : /\ req[h].ticket = k /\ req[h].target = status'[k]
                                /\ \/ req[h].step = "initial"
                                   \/ req[h].step \in {"write", "reopen"} /\ req[h].stale]_vars

\* A reply never disappears into a closed ticket, unless the ticket was
\* closed between the reply's read of it and its insert.
Inserted(h) ==
    LET m == req[h].message
    IN  m \in Messages /\ thread[m].state = "none" /\ thread'[m].state = "posted"

RepliesReopenUnlessRaced ==
    [][\A h \in Handlers : Inserted(h) /\ ~req[h].stale => status'[req[h].ticket] # "closed"]_vars

\* The attachment a posted message names is on disk: it is written before the
\* row, and the directory goes only after the ticket's rows are gone.
AttachmentsPresent ==
    \A m \in Messages : thread[m].state = "posted" /\ thread[m].file => m \in files

\* A deleted ticket leaves no attachment behind, unless the removal of its
\* directory was cut off or an upload that had passed the check was still
\* writing when the ticket was deleted.
DeletedTicketsLeaveNoFiles ==
    \A m \in files : status[hist.home[m]] = "gone" =>
        \/ m \in hist.late
        \/ hist.home[m] \in hist.kept
        \/ \E h \in Handlers : req[h].step = "rmdir" /\ req[h].ticket = hist.home[m]

\* What holds of the rows and the files in every state: whoever reads a
\* message can open its attachment.
Inv == TypeOK /\ AttachmentsPresent

=============================================================================
