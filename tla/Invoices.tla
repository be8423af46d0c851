-------------------------------- MODULE Invoices --------------------------------
(***************************************************************************)
(* The invoices page: the list, the form that makes an invoice, the form   *)
(* that edits one, the status buttons and the server behind them.          *)
(*                                                                         *)
(* The edit form is filled from the row as the list showed it and sends    *)
(* nearly all of it back; a status button sends the status alone.  The     *)
(* server reads the invoice, fills in what was not sent and writes every   *)
(* column.  Meanwhile the recurring task moves the date of a template on,  *)
(* somebody else edits, and a client that is deleted leaves its invoices.  *)
(***************************************************************************)
EXTENDS Pages

CONSTANTS
    MaxInvoices,  \* invoices that can exist; the first exists already
    Together      \* the sets of columns that are edited together

ASSUME InvoicesAssumption == MaxInvoices \in Nat \ {0} /\ Together \subseteq SUBSET {"status", "terms", "recurring", "date"}

VARIABLES
    invoice,    \* the table of invoices
    rows,       \* ['invoices'] in the query cache: the last answer
    newForm,    \* CreateInvoiceModal
    editForm,   \* EditInvoiceModal
    invCalls,   \* requests under way
    due,        \* the templates the recurring task has listed
    changes,    \* history: numbers the changes, in the order they were asked for
    theirs,     \* history: the changes that were not asked for on this page
    undone      \* history: values that a request put back to an older one

historyVars == <<changes, theirs, undone>>
serverVars == <<invoice, due>>
invoiceVars == <<serverVars, rows, newForm, editForm, invCalls, historyVars>>

-----------------------------------------------------------------------------
(* Invoices, forms and requests *)

\* A column is the number of the change that set it.  terms stands for each of
\* the columns that are edited freely; recurring comes with what it was set to
\* (on); date is next_recur_date, and 0 where there is none.
Ids == 1..MaxInvoices
Plain == {"terms", "recurring", "date"}
Columns == Plain \cup {"status"}

\* client: whose it is, nobody's once that client was deleted for good.
Invoice == [st: {"none", "live", "deleted"}, client: Clients \cup {NoClient}, on: BOOLEAN,
            status: Nat, terms: Nat, recurring: Nat, date: Nat]

Live(i) == invoice[i].st = "live"
Blank == [st |-> "none", client |-> NoClient, on |-> FALSE, status |-> 0, terms |-> 0, recurring |-> 0, date |-> 0]

\* A new invoice; the number of what it is made with is 1.
Made(c, on, dated) ==
    [st |-> "live", client |-> c, on |-> on, status |-> 0, terms |-> 0, recurring |-> 0,
     date |-> IF dated THEN 1 ELSE 0]

\* The columns that change k sets.
Set(row, cols, k) ==
    [row EXCEPT !.status = IF "status" \in cols THEN k ELSE @,
                !.terms = IF "terms" \in cols THEN k ELSE @,
                !.recurring = IF "recurring" \in cols THEN k ELSE @,
                !.on = IF "recurring" \in cols THEN ~@ ELSE @,
                !.date = IF "date" \in cols THEN k ELSE @]

\* form: the form the request was sent from, asked: the changes that had been
\* asked for when it was opened; row: what the server read.
Request(kind, i, form, asked, sent) ==
    [kind |-> kind, id |-> i, form |-> form, asked |-> asked, n |-> changes + 1, sent |-> sent,
     visit |-> visit, st |-> "sent", row |-> Blank, client |-> newForm.client]

Pending(form) == \E c \in invCalls : c.form = form

NoNewForm == [n |-> 0, client |-> NoClient]

\* A form covers the page.
NoForm == newForm.n = 0 /\ editForm.n = 0

-----------------------------------------------------------------------------
(* The forms *)

OpenNew ==
    /\ Meanwhile
    /\ route = "invoices" /\ NoForm
    /\ newForm' = [n |-> Number, client |-> NoClient]
    /\ UNCHANGED <<client, roster, serverVars, rows, editForm, invCalls, historyVars>>

\* Choosing a client fills the fields in; typing in the search box unsets it.
PickClient(c) ==
    /\ Meanwhile
    /\ newForm.n # 0
    /\ IF newForm.client = NoClient THEN c \in Offered ELSE c = NoClient
    /\ newForm' = [newForm EXCEPT !.client = c]
    /\ UNCHANGED <<client, roster, serverVars, rows, editForm, invCalls, historyVars>>

\* The form is filled from the row, once.
OpenEdit(i) ==
    /\ Meanwhile
    /\ route = "invoices" /\ NoForm /\ rows[i].st = "live"
    /\ editForm' = [n |-> Number, id |-> i, row |-> rows[i], asked |-> changes]
    /\ UNCHANGED <<client, roster, serverVars, rows, newForm, invCalls, historyVars>>

CloseInvoiceForm ==
    /\ Move
    /\ ~NoForm
    /\ newForm' = NoNewForm /\ editForm' = Shut
    /\ UNCHANGED <<client, roster, serverVars, rows, invCalls, historyVars>>

Send(kind, i, form, asked, sent) ==
    /\ invCalls' = invCalls \cup {Request(kind, i, form, asked, sent)}
    /\ changes' = changes + 1
    /\ UNCHANGED <<client, roster, serverVars, rows, newForm, theirs, undone>>

SubmitNew ==
    /\ Ask
    /\ newForm.n # 0 /\ newForm.client # NoClient /\ ~Pending(newForm.n)
    /\ \E on, dated \in BOOLEAN :
         (dated => on) /\ Send("create", 0, newForm.n, 0, [on |-> on, dated |-> dated])
    /\ UNCHANGED editForm

\* Faulty: the whole row goes back, the status with it.
EditsAll(row) == [status |-> row.status, terms |-> row.terms, recurring |-> row.recurring, on |-> row.on]

\* The payload: everything but the status, edited or not.  A date goes with a
\* recurring invoice only, and an empty one is not sent.
Edits(row) ==
    IF row.on /\ row.date # 0
    THEN [terms |-> row.terms, recurring |-> row.recurring, on |-> row.on, date |-> row.date]
    ELSE [terms |-> row.terms, recurring |-> row.recurring, on |-> row.on]

\* The columns edited keep what was typed; emptied: the date was removed.
SubmitEdit(edited, emptied) ==
    LET row == [Set(editForm.row, edited, changes + 1) EXCEPT !.date = IF emptied THEN 0 ELSE @] IN
    /\ Ask
    /\ editForm.n # 0 /\ ~Pending(editForm.n)
    /\ emptied => editForm.row.date # 0 /\ "date" \notin edited
    /\ Send("save", editForm.id, editForm.n, editForm.asked, Edits(row))
    /\ editForm' = [editForm EXCEPT !.row = row]

\* The status buttons of an expanded row, never disabled.
SetStatus(i) ==
    /\ Ask
    /\ route = "invoices" /\ NoForm /\ rows[i].st = "live"
    /\ Send("status", i, 0, 0, [status |-> changes + 1])
    /\ UNCHANGED editForm

\* After the confirmation.
Delete(i) ==
    /\ Ask
    /\ route = "invoices" /\ NoForm /\ rows[i].st = "live"
    /\ Send("delete", i, 0, 0, <<>>)
    /\ UNCHANGED editForm

-----------------------------------------------------------------------------
(* The server *)

Becomes(c, st) == invCalls' = (invCalls \ {c}) \cup {[c EXCEPT !.st = st]}

\* POST /admin/invoices: the client must exist; it may be archived.
Create(c) ==
    /\ c.kind = "create" /\ c.st = "sent"
    /\ \/ /\ client[c.client] # "gone"
          /\ \E i \in Ids :
                /\ invoice[i].st = "none" /\ \A j \in Ids : j < i => invoice[j].st # "none"
                /\ invoice' = [invoice EXCEPT ![i] = Made(c.client, c.sent.on, c.sent.dated)]
          /\ Becomes(c, "ok")
       \/ client[c.client] = "gone" /\ Becomes(c, "error") /\ UNCHANGED invoice
    /\ Meanwhile
    /\ UNCHANGED <<client, roster, due, rows, newForm, editForm, historyVars>>

Destroy(c) ==
    /\ c.kind = "delete" /\ c.st = "sent"
    /\ Becomes(c, IF Live(c.id) THEN "ok" ELSE "error")
    /\ invoice' = IF Live(c.id) THEN [invoice EXCEPT ![c.id].st = "deleted"] ELSE invoice
    /\ Meanwhile
    /\ UNCHANGED <<client, roster, due, rows, newForm, editForm, historyVars>>

\* PATCH /admin/invoices/:id reads the invoice ...
Find(c) ==
    /\ c.kind \in {"save", "status"} /\ c.st = "sent"
    /\ IF Live(c.id)
       THEN invCalls' = (invCalls \ {c}) \cup {[c EXCEPT !.st = "read", !.row = invoice[c.id]]}
       ELSE Becomes(c, "error")
    /\ Meanwhile
    /\ UNCHANGED <<client, roster, serverVars, rows, newForm, editForm, historyVars>>

\* ... and writes every column, those not sent as it read them.
Value(c, col) == IF col \in DOMAIN c.sent THEN c.sent[col] ELSE c.row[col]

\* The request puts a column back to an older value.  overlap: the newer one
\* was asked for, or written, while this request was under way; unread: it had
\* been asked for before the request's form was opened; own: on this page.
PutBack(c) ==
    LET now == invoice[c.id] IN
    {[column |-> col, kind |-> c.kind,
      overlap |-> c.row[col] # now[col] \/ now[col] > c.n,
      unread |-> now[col] <= c.asked, own |-> now[col] \notin theirs] :
         col \in {x \in Columns : Value(c, x) < now[x]}}

Update(c) ==
    /\ c.st = "read"
    /\ IF Live(c.id)
       THEN /\ invoice' = [invoice EXCEPT ![c.id] = [@ EXCEPT
                   !.status = Value(c, "status"), !.terms = Value(c, "terms"),
                   !.recurring = Value(c, "recurring"), !.on = Value(c, "on"), !.date = Value(c, "date")]]
            /\ undone' = undone \cup PutBack(c)
            /\ Becomes(c, "ok")
       ELSE Becomes(c, "error") /\ UNCHANGED <<invoice, undone>>
    /\ Meanwhile
    /\ UNCHANGED <<client, roster, due, rows, newForm, editForm, changes, theirs>>

-----------------------------------------------------------------------------
(* What changes an invoice besides this page *)

\* Change k is not this page's.
Elsewhere == changes' = changes + 1 /\ theirs' = theirs \cup {changes + 1}

\* spawn_recurring_invoice_task lists the templates that are due ...
ListDue(i) ==
    /\ Fault
    /\ Live(i) /\ invoice[i].on /\ invoice[i].date # 0 /\ invoice[i].client # NoClient
    /\ due' = due \cup {i}
    /\ UNCHANGED <<client, roster, invoice, rows, newForm, editForm, invCalls, historyVars>>

\* ... and writes each one's next date, whatever became of it since.
Recur(i) ==
    /\ i \in due /\ due' = due \ {i}
    /\ IF Live(i)
       THEN invoice' = [invoice EXCEPT ![i].date = changes + 1] /\ Elsewhere
       ELSE UNCHANGED <<invoice, changes, theirs>>
    /\ Meanwhile
    /\ UNCHANGED <<client, roster, rows, newForm, editForm, invCalls, undone>>

\* Somebody else at the desk edits the invoice.  What their form or their button
\* writes counts as set by them, on the next change.
SomebodyEdits(i, cols) ==
    /\ Fault
    /\ Live(i)
    /\ invoice' = [invoice EXCEPT ![i] = Set(@, cols, changes + 1)]
    /\ Elsewhere
    /\ UNCHANGED <<client, roster, due, rows, newForm, editForm, invCalls, undone>>

\* The invoices whose client the step deletes for good.
Orphaned == {i \in Ids : Live(i) /\ invoice[i].client # NoClient /\ client'[invoice[i].client] = "gone"}

\* cascade_delete_user_data: drafts go with the client, what was issued stays,
\* nobody's, and recurs no more.
Cascade ==
    /\ \E drafts \in SUBSET Orphaned :
         invoice' = [i \in Ids |->
            IF i \in drafts THEN [invoice[i] EXCEPT !.st = "deleted"]
            ELSE IF i \in Orphaned
            THEN [invoice[i] EXCEPT !.client = NoClient, !.on = FALSE, !.recurring = changes + 1, !.date = 0]
            ELSE invoice[i]]
    /\ IF Orphaned = {} THEN UNCHANGED <<changes, theirs>> ELSE Elsewhere
    /\ UNCHANGED <<due, rows, newForm, editForm, invCalls, undone>>

-----------------------------------------------------------------------------
(* Answers *)

\* The request is lost on its way, or its answer.
InvoiceFails(c) ==
    /\ Fault
    /\ c.st \in {"sent", "ok"}
    /\ Becomes(c, "error")
    /\ UNCHANGED <<client, roster, serverVars, rows, newForm, editForm, historyVars>>

\* Faulty: whatever comes back closes the form.
ClosesSettled(c) == c.st \in {"ok", "error"} /\ c.visit = visit

\* onSuccess calls onClose, and that sets the page's state if it still is the
\* page that was on screen; an error is shown in the form.
Closes(c) == c.st = "ok" /\ c.visit = visit

InvoiceAnswer(c) ==
    /\ c.st \in {"ok", "error"}
    /\ invCalls' = invCalls \ {c}
    /\ newForm' = IF Closes(c) /\ c.kind = "create" THEN NoNewForm ELSE newForm
    /\ editForm' = IF Closes(c) /\ c.kind = "save" THEN Shut ELSE editForm
    /\ shut' = shut \cup {Closing(c.kind, c.kind, c.form = f, c.st = "ok") :
                            f \in {newForm.n, editForm.n} \ {newForm'.n, editForm'.n}}
    /\ UNCHANGED <<route, visit, moves, requests, faults, client, roster, serverVars, rows, historyVars>>

ReadInvoices ==
    /\ route = "invoices"
    /\ rows' = invoice
    /\ Meanwhile
    /\ UNCHANGED <<client, roster, serverVars, newForm, editForm, invCalls, historyVars>>

-----------------------------------------------------------------------------
\* One invoice is there, a recurring one.
InvoicesInit ==
    /\ \E c \in Admitted : invoice = [i \in Ids |-> IF i = 1 THEN Made(c, TRUE, TRUE) ELSE Blank]
    /\ rows = invoice
    /\ newForm = NoNewForm /\ editForm = Shut /\ invCalls = {}
    /\ due = {}
    /\ changes = 1 /\ theirs = {} /\ undone = {}

InvoicesNext ==
    \/ OpenNew \/ CloseInvoiceForm \/ SubmitNew \/ ReadInvoices
    \/ \E edited \in Together, emptied \in BOOLEAN : SubmitEdit(edited \ {"status"}, emptied)
    \/ \E c \in Clients \cup {NoClient} : PickClient(c)
    \/ \E i \in Ids : OpenEdit(i) \/ SetStatus(i) \/ Delete(i) \/ ListDue(i) \/ Recur(i)
    \/ \E i \in Ids, cols \in Together : SomebodyEdits(i, cols)
    \/ \E c \in invCalls : Create(c) \/ Destroy(c) \/ Find(c) \/ Update(c) \/ InvoiceFails(c)
                           \/ InvoiceAnswer(c)

\* The page is left.
InvoicesLeft ==
    /\ newForm' = NoNewForm /\ editForm' = Shut
    /\ UNCHANGED <<serverVars, rows, invCalls, historyVars>>

-----------------------------------------------------------------------------
(* Properties *)

\* The variables stay in their sets.
InvoicesTypeOK ==
    /\ invoice \in [Ids -> Invoice] /\ rows \in [Ids -> Invoice]
    /\ newForm.client \in Clients \cup {NoClient}
    /\ \A c \in invCalls : c.st \in {"sent", "read", "ok", "error"} /\ c.row \in Invoice

\* No request of the page puts an older value back, except that
\*   - two requests for the invoice, or a request and something else that
\*     changes it, are under way together: each writes the whole row;
\*   - an edit form sends back what the row held that it was opened from,
\*     though a newer value had been asked for that the row did not show yet;
\*   - an edit form sends back what it was opened with, though the recurring
\*     task, somebody else or the deletion of the client changed it since.
\* The status is no part of the last two: no edit form, however long it was
\* open, undoes one.  Nor does any form undo what it saved itself.
ChangesKept ==
    \A u \in undone :
        \/ u.overlap
        \/ u.kind = "save" /\ u.column # "status" /\ (u.unread \/ ~u.own)

=============================================================================
