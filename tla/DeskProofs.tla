------------------------------- MODULE DeskProofs -------------------------------
(***************************************************************************)
(* Proofs about the pages of the desk: Desk, for every set of clients and  *)
(* any number of invoices, requests, moves and failures; and Queue, for    *)
(* any number of tickets, rows of a page, acts and other people.           *)
(***************************************************************************)
EXTENDS Desk, Queue, FiniteSetTheorems, TLAPS

-----------------------------------------------------------------------------
(* What the pages share *)

\* A client on the roster has been on the server; nothing leaves its set.
Shared ==
    /\ moves \in Nat /\ requests \in Nat /\ faults \in Nat /\ visit \in Nat
    /\ route \in PageNames
    /\ client \in [Clients -> ClientStatus] /\ roster \in [Clients -> ClientStatus]
    /\ \A c \in Clients : roster[c] # "none" => client[c] # "none"

\* What a step may do to what the pages share: numbers grow, no client goes
\* back to not being there, and a visit ends with the page.
Onward ==
    /\ UNCHANGED visit \/ RosterLeft
    /\ moves' \in Nat /\ requests' \in Nat /\ Number <= Number'
    /\ \A c \in Clients : client[c] # "none" => client'[c] # "none"

\* The bounds are numbers.
LEMMA Bounds ==
    /\ MaxMoves \in Nat /\ MaxRequests \in Nat /\ MaxFaults \in Nat
    /\ MaxInvoices \in Nat /\ 1 \in Ids
    /\ Admitted \subseteq Clients /\ NoClient \notin Clients
BY PagesAssumption, InvoicesAssumption DEF Ids

\* The first page is one of the list, and the roster is the server's.
LEMMA SharedInit == Init => Shared
BY DEF Init, PagesInit, Shared, PageNames, ClientStatus

\* The ways a step counts.
LEMMA CountsStep ==
    ASSUME Shared, Meanwhile \/ Move \/ Ask \/ Fault
    PROVE  /\ moves' \in Nat /\ requests' \in Nat /\ faults' \in Nat /\ Number <= Number'
           /\ route' = route /\ visit' = visit
           /\ Ask => Number' = Number + 1
<1>1. CASE Meanwhile
  BY <1>1 DEF Meanwhile, Ask, Shared, Number
<1>2. CASE Move
  BY <1>2 DEF Move, Ask, Shared, Number
<1>3. CASE Ask
  BY <1>3 DEF Ask, Shared, Number
<1>4. CASE Fault
  BY <1>4 DEF Fault, Ask, Shared, Number
<1> QED BY <1>1, <1>2, <1>3, <1>4

\* Serving a request of the clients page keeps the clients that are there.
LEMMA ServeRosterClients ==
    ASSUME Shared, NEW c \in rosterCalls, ServeRoster(c)
    PROVE  /\ client' \in [Clients -> ClientStatus]
           /\ \A d \in Clients : client[d] # "none" => client'[d] # "none"
<1>1. Leaves(c.kind) \in ClientStatus \ {"none"}
  BY DEF Leaves, ClientStatus
<1> QED BY <1>1 DEF ServeRoster, Shared

\* Numbers are numbers and grow.
LEMMA NumberGrows == Shared /\ Onward => Number \in Nat /\ Number' \in Nat /\ Number <= Number'
<1> SUFFICES ASSUME Shared, Onward PROVE Number \in Nat /\ Number' \in Nat /\ Number <= Number'
  OBVIOUS
<1>1. Number' = moves' + requests' + 1
  BY DEF Number
<1>2. Number \in Nat
  BY DEF Shared, Number
<1>3. \A a, b \in Nat : a + b + 1 \in Nat
  OBVIOUS
<1>4. moves' \in Nat /\ requests' \in Nat /\ Number <= Number'
  BY DEF Onward
<1>5. Number' \in Nat
  BY <1>1, <1>3, <1>4, Zenon
<1> QED BY <1>2, <1>4, <1>5

\* Every step keeps what the pages share, and goes onward.
LEMMA SharedStep == Shared /\ [Next]_vars => Shared' /\ Onward
<1> SUFFICES ASSUME Shared, [Next]_vars PROVE Shared' /\ Onward
  OBVIOUS
<1>1. ASSUME Meanwhile \/ Move \/ Ask \/ Fault, UNCHANGED <<client, roster>> PROVE Shared' /\ Onward
  BY <1>1, CountsStep DEF Shared, Onward
<1>2. CASE UNCHANGED vars
  BY <1>2 DEF vars, pageVars, Shared, Onward, Number
<1>3. ASSUME InvoicesNext PROVE Shared' /\ Onward
  <2>1. ASSUME NEW c \in invCalls, InvoiceAnswer(c) PROVE Shared' /\ Onward
    BY <2>1 DEF InvoiceAnswer, Shared, Onward, Number
  <2>2. ASSUME ~\E c \in invCalls : InvoiceAnswer(c) PROVE Shared' /\ Onward
    BY <1>1, <1>3, <2>2 DEF InvoicesNext, OpenNew, CloseInvoiceForm, SubmitNew, SubmitEdit, ReadInvoices,
       PickClient, OpenEdit, SetStatus, Delete, Send, ListDue, Recur, SomebodyEdits, Create, Destroy, Find,
       Update, InvoiceFails
  <2> QED BY <2>1, <2>2
<1>4. ASSUME RosterNext PROVE Shared' /\ Onward
  <2>1. ASSUME NEW c \in rosterCalls, RosterAnswer(c) PROVE Shared' /\ Onward
    BY <2>1 DEF RosterAnswer, Shared, Onward, Number
  <2>2. ASSUME NEW c \in rosterCalls, ServeRoster(c) PROVE Shared' /\ Onward
    <3>1. Meanwhile /\ UNCHANGED roster
      BY <2>2 DEF ServeRoster
    <3> QED BY <2>2, <3>1, ServeRosterClients, CountsStep DEF Shared, Onward
  <2>3. ASSUME ~\E c \in rosterCalls : RosterAnswer(c) \/ ServeRoster(c) PROVE Shared' /\ Onward
    BY <1>1, <1>4, <2>3 DEF RosterNext, Regenerate, CloseModal, OpenAdmit, CancelAdmit, Admit, RequestLink,
       RowAction, MakeLink, RosterFails
  <2> QED BY <2>1, <2>2, <2>3
<1>5. ASSUME FilingNext PROVE Shared' /\ Onward
  BY <1>1, <1>5 DEF FilingNext, OpenFiling, CloseFiling, Unpick, PickSub, PickFor, FileTicket, ServeFiling,
     CloseFiled, Post, FilingFails, FilingAnswer, Fly
<1>6. CASE ReadRoster
  BY <1>6, CountsStep DEF ReadRoster, Shared, Onward
<1>7. ASSUME NEW c \in Clients, SomebodyArchives(c) PROVE Shared' /\ Onward
  <2>1. Fault
    BY <1>7 DEF SomebodyArchives
  <2>2. /\ client' \in [Clients -> ClientStatus] /\ UNCHANGED roster
        /\ \A d \in Clients : client[d] # "none" => client'[d] # "none"
    BY <1>7 DEF SomebodyArchives, Shared, ClientStatus
  <2> QED BY <2>1, <2>2, CountsStep DEF Shared, Onward
<1>8. ASSUME NEW p \in PageNames, Go(p) PROVE Shared' /\ Onward
  BY <1>8 DEF Go, Shared, Onward, Number
<1>9. ASSUME NEW c \in filings, Land(c) PROVE Shared' /\ Onward
  BY <1>9 DEF Land, Shared, Onward, Number, PageNames
<1> QED BY <1>2, <1>3, <1>4, <1>5, <1>6, <1>7, <1>8, <1>9 DEF Next

-----------------------------------------------------------------------------
(* Invoices: no request takes a newer value back *)

\* The payload of a save, without a date and with one.
Saved == [terms: Nat, recurring: Nat, on: BOOLEAN] \cup [terms: Nat, recurring: Nat, on: BOOLEAN, date: Nat]

Sent == {<<>>} \cup [on: BOOLEAN, dated: BOOLEAN] \cup [status: Nat] \cup Saved

InvCall == [kind: {"create", "save", "status", "delete"}, id: Nat, form: Nat, asked: Nat, n: Nat,
            sent: Sent, visit: Nat, st: {"sent", "read", "ok", "error"}, row: Invoice,
            client: Clients \cup {NoClient}]

\* What each request carries, and that its change has been asked for.
Carried(c) ==
    /\ c \in InvCall /\ c.n <= changes
    /\ c.kind = "create" => c.sent \in [on: BOOLEAN, dated: BOOLEAN]
    /\ c.kind = "save" => c.id \in Ids /\ c.sent \in Saved /\ c.asked # 0
    /\ c.kind = "status" => c.id \in Ids /\ c.sent = [status |-> c.n]
    /\ c.kind = "delete" => c.sent = <<>>
    /\ c.st = "read" => c.kind \in {"save", "status"}

InvoiceTypes ==
    /\ invoice \in [Ids -> Invoice] /\ rows \in [Ids -> Invoice] /\ changes \in Nat \ {0}
    /\ newForm \in [n: Nat, client: Clients \cup {NoClient}]
    /\ editForm \in {Shut} \cup [n: Nat \ {0}, id: Ids, row: Invoice, asked: Nat \ {0}]
    /\ \A c \in invCalls : Carried(c)

\* v is a value of a column that a write may bring to invoice i.
Held(i, col, v) ==
    \/ v = invoice[i][col] \/ v = rows[i][col]
    \/ editForm.n # 0 /\ editForm.id = i /\ v = editForm.row[col]
    \/ \E c \in invCalls : c.id = i /\ (v = c.row[col] \/ (col \in DOMAIN c.sent /\ v = c.sent[col]))

\* No such value is from a change that was not asked for yet.
Bounded == \A i \in Ids, col \in Plain : \A v \in Nat : Held(i, col, v) => v <= changes

\* Of those that were asked for on this page while the form of a save was open,
\* none is newer than what the save sends ...
SavesNewest ==
    \A c \in invCalls : c.kind = "save" =>
        \A col \in Plain \cap DOMAIN c.sent : \A v \in Nat :
            Held(c.id, col, v) /\ v \notin theirs /\ c.asked < v /\ v <= c.n => v <= c.sent[col]

\* ... nor than what the open form holds, a date that was removed aside.
FormNewest ==
    editForm.n # 0 =>
        \A col \in Plain : \A v \in Nat :
            Held(editForm.id, col, v) /\ v \notin theirs /\ editForm.asked < v
            => v <= editForm.row[col] \/ (col = "date" /\ editForm.row.date = 0)

InvoicesOK == InvoiceTypes /\ Bounded /\ SavesNewest /\ FormNewest /\ ChangesKept

\* A value that a step brings: one that was held, one an invoice is made with,
\* or one that is not this page's.
From(i, col, v) == Held(i, col, v) \/ v \in {0, 1} \/ (v \in theirs' /\ v <= changes')

\* The same request, further on.
Same(c, d) == d.kind = c.kind /\ d.id = c.id /\ d.asked = c.asked /\ d.n = c.n /\ d.sent = c.sent

\* A request carries what it carries as the changes go on.
LEMMA CarriedOn ==
    ASSUME InvoiceTypes, changes' \in Nat, changes <= changes'
    PROVE  \A c \in invCalls : Carried(c)'
<1> SUFFICES ASSUME NEW c \in invCalls PROVE Carried(c)'
  OBVIOUS
<1>1. Carried(c) /\ c.n \in Nat /\ changes \in Nat
  BY DEF InvoiceTypes, Carried, InvCall
<1>2. c.n <= changes'
  BY <1>1 DEF Carried
<1> QED BY <1>1, <1>2 DEF Carried

\* A blank row is an invoice, and so is a new one.
LEMMA BlankOK ==
    /\ Blank \in Invoice /\ \A col \in Columns : Blank[col] = 0
    /\ \A c \in Clients \cup {NoClient}, on, dated \in BOOLEAN :
         Made(c, on, dated) \in Invoice /\ \A col \in Columns : Made(c, on, dated)[col] \in {0, 1}
<1>1. Blank \in Invoice
  BY Bounds DEF Blank, Invoice
<1>2. \A col \in Columns : Blank[col] = 0
  BY DEF Blank, Columns, Plain
<1>3. ASSUME NEW c \in Clients \cup {NoClient}, NEW on \in BOOLEAN, NEW dated \in BOOLEAN
      PROVE  Made(c, on, dated) \in Invoice /\ \A col \in Columns : Made(c, on, dated)[col] \in {0, 1}
  <2>1. Made(c, on, dated) = [st |-> "live", client |-> c, on |-> on, status |-> 0, terms |-> 0,
                              recurring |-> 0, date |-> IF dated THEN 1 ELSE 0]
    BY DEF Made
  <2> QED BY <2>1 DEF Invoice, Columns, Plain
<1> QED BY <1>1, <1>2, <1>3

\* The columns of an invoice are numbers.
LEMMA ColumnsNat == \A row \in Invoice, col \in Columns : row[col] \in Nat
BY DEF Invoice, Columns, Plain

\* What Set sets.
LEMMA SetColumns ==
    ASSUME NEW row \in Invoice, NEW cols, NEW k \in Nat
    PROVE  /\ Set(row, cols, k) \in Invoice
           /\ \A col \in Columns : Set(row, cols, k)[col] = IF col \in cols THEN k ELSE row[col]
<1>1. PICK f : f = [status |-> IF "status" \in cols THEN k ELSE row.status,
                    terms |-> IF "terms" \in cols THEN k ELSE row.terms,
                    recurring |-> IF "recurring" \in cols THEN k ELSE row.recurring,
                    on |-> IF "recurring" \in cols THEN ~row.on ELSE row.on,
                    date |-> IF "date" \in cols THEN k ELSE row.date]
  OBVIOUS
<1>2. /\ row.status \in Nat /\ row.terms \in Nat /\ row.recurring \in Nat /\ row.date \in Nat
      /\ row.on \in BOOLEAN
  BY DEF Invoice
<1>3. /\ f.status \in Nat /\ f.terms \in Nat /\ f.recurring \in Nat /\ f.date \in Nat /\ f.on \in BOOLEAN
      /\ \A col \in Columns : f[col] = IF col \in cols THEN k ELSE row[col]
  <2>1. /\ f.status = IF "status" \in cols THEN k ELSE row.status
        /\ f.terms = IF "terms" \in cols THEN k ELSE row.terms
        /\ f.recurring = IF "recurring" \in cols THEN k ELSE row.recurring
        /\ f.on = IF "recurring" \in cols THEN ~row.on ELSE row.on
        /\ f.date = IF "date" \in cols THEN k ELSE row.date
    BY <1>1, Zenon
  <2>2. \A b \in BOOLEAN : (IF "recurring" \in cols THEN ~b ELSE b) \in BOOLEAN
    OBVIOUS
  <2>3. f.on \in BOOLEAN
    BY <1>2, <2>1, <2>2, Zenon
  <2> QED BY <1>2, <2>1, <2>3 DEF Columns, Plain
<1>4. PICK g : g = [row EXCEPT !.status = f.status, !.terms = f.terms, !.recurring = f.recurring]
  OBVIOUS
<1>5. /\ g \in Invoice /\ g.status = f.status /\ g.terms = f.terms /\ g.recurring = f.recurring
      /\ g.on = row.on /\ g.date = row.date
  BY <1>3, <1>4 DEF Invoice
<1>6. PICK h : h = [g EXCEPT !.on = f.on, !.date = f.date]
  OBVIOUS
<1>7. /\ h \in Invoice /\ h.status = f.status /\ h.terms = f.terms /\ h.recurring = f.recurring
      /\ h.on = f.on /\ h.date = f.date
  BY <1>3, <1>5, <1>6 DEF Invoice
<1>8. Set(row, cols, k) = h
  BY <1>1, <1>4, <1>6 DEF Set, Invoice
<1> QED BY <1>3, <1>7, <1>8 DEF Columns, Plain

\* What a payload sends of a row.
LEMMA EditsOK ==
    ASSUME NEW row \in Invoice
    PROVE  /\ Edits(row) \in Saved
           /\ \A col \in Plain \cap DOMAIN Edits(row) :
                Edits(row)[col] = row[col] /\ (col = "date" => row.date # 0)
<1>1. row.terms \in Nat /\ row.recurring \in Nat /\ row.date \in Nat /\ row.on \in BOOLEAN
  BY DEF Invoice
<1>2. CASE row.on /\ row.date # 0
  <2>1. Edits(row) = [terms |-> row.terms, recurring |-> row.recurring, on |-> row.on, date |-> row.date]
    BY <1>2 DEF Edits
  <2> QED BY <1>1, <1>2, <2>1 DEF Saved, Plain
<1>3. CASE ~(row.on /\ row.date # 0)
  <2>1. Edits(row) = [terms |-> row.terms, recurring |-> row.recurring, on |-> row.on]
    BY <1>3 DEF Edits
  <2>2. DOMAIN Edits(row) = {"terms", "recurring", "on"}
    BY <2>1
  <2> QED BY <1>1, <2>1, <2>2 DEF Saved, Plain
<1> QED BY <1>2, <1>3

\* A payload of a save is without a status, and has no other columns than those.
LEMMA SavedColumns ==
    \A s \in Saved : /\ "status" \notin DOMAIN s /\ "on" \in DOMAIN s /\ s["on"] \in BOOLEAN
                     /\ \A col \in Plain : col \in DOMAIN s => s[col] \in Nat
BY DEF Saved, Plain

\* What a write brings to each column is what it was sent or what it read.
LEMMA ValueOK ==
    ASSUME NEW c, Carried(c), c.st = "read"
    PROVE  /\ c.id \in Ids /\ c.row \in Invoice /\ c.n \in Nat /\ Value(c, "on") \in BOOLEAN
           /\ \A col \in Columns : Value(c, col) \in Nat
           /\ \A col \in Columns : /\ col \notin DOMAIN c.sent => Value(c, col) = c.row[col]
                                   /\ col \in DOMAIN c.sent => Value(c, col) = c.sent[col]
           /\ c.kind = "save" => Value(c, "status") = c.row.status
           /\ c.kind = "status" =>
                Value(c, "status") = c.n /\ \A col \in Plain : Value(c, col) = c.row[col]
<1>1. c \in InvCall /\ c.kind \in {"save", "status"} /\ c.id \in Ids
  BY DEF Carried
<1>2. c.row \in Invoice /\ c.n \in Nat
  BY <1>1 DEF InvCall
<1>3. \A col \in Columns : c.row[col] \in Nat
  BY <1>2, ColumnsNat
<1>4. c.row["on"] \in BOOLEAN
  BY <1>2 DEF Invoice
<1>5. CASE c.kind = "save"
  <2>1. c.sent \in Saved
    BY <1>5 DEF Carried
  <2> QED BY <1>1, <1>2, <1>3, <1>4, <1>5, <2>1, SavedColumns DEF Value, Columns
<1>6. CASE c.kind = "status"
  <2>1. c.sent = [status |-> c.n]
    BY <1>6 DEF Carried
  <2>2. DOMAIN c.sent = {"status"} /\ c.sent["status"] = c.n
    BY <2>1
  <2>3. \A col \in Columns : Value(c, col) = IF col = "status" THEN c.n ELSE c.row[col]
    BY <2>2 DEF Value
  <2>4. Value(c, "on") = c.row["on"]
    BY <2>2 DEF Value
  <2> QED BY <1>1, <1>2, <1>3, <1>4, <1>6, <2>2, <2>3, <2>4 DEF Columns, Plain
<1> QED BY <1>1, <1>5, <1>6

\* The page opens so.
LEMMA InvoicesInitOK == Init => InvoicesOK
<1> SUFFICES ASSUME Init PROVE InvoicesOK
  OBVIOUS
<1>1. PICK c \in Admitted : invoice = [i \in Ids |-> IF i = 1 THEN Made(c, TRUE, TRUE) ELSE Blank]
  BY DEF Init, InvoicesInit
<1>2. c \in Clients
  BY Bounds
<1>3. /\ rows = invoice /\ newForm = NoNewForm /\ editForm = Shut /\ invCalls = {}
      /\ changes = 1 /\ undone = {}
  BY DEF Init, InvoicesInit
<1>4. \A i \in Ids : invoice[i] \in Invoice /\ \A col \in Plain : invoice[i][col] \in {0, 1}
  BY <1>1, <1>2, BlankOK DEF Columns
<1>5. InvoiceTypes
  <2>1. invoice \in [Ids -> Invoice]
    BY <1>1, <1>4
  <2> QED BY <1>3, <2>1 DEF InvoiceTypes, NoNewForm
<1>6. Bounded
  BY <1>3, <1>4 DEF Bounded, Held, Shut
<1> QED BY <1>3, <1>5, <1>6 DEF InvoicesOK, SavesNewest, FormNewest, ChangesKept, Shut

\* A step that sends no save keeps the values bounded and the saves and the
\* form the newest: what it brings was held, or is not this page's.
LEMMA Quiet ==
    ASSUME InvoicesOK, InvoiceTypes', ChangesKept',
           changes <= changes', theirs \subseteq theirs',
           editForm' \in {editForm, Shut} \/ (editForm'.asked = changes' /\ editForm'.row = rows[editForm'.id]),
           \A i \in Ids, col \in Plain : From(i, col, invoice'[i][col]) /\ From(i, col, rows'[i][col]),
           \A d \in invCalls' :
              \/ \E c \in invCalls : Same(c, d) /\ (d.row = c.row \/ d.row = invoice[c.id])
              \/ d.kind # "save" /\ d.row = Blank /\ \A col \in Plain : col \notin DOMAIN d.sent
    PROVE  InvoicesOK'
<1>1. changes \in Nat /\ changes' \in Nat
  BY DEF InvoicesOK, InvoiceTypes
<1>2. ASSUME NEW i \in Ids, NEW col \in Plain, NEW v \in Nat, Held(i, col, v)' PROVE From(i, col, v)
  <2>1. CASE v = invoice'[i][col] \/ v = rows'[i][col]
    BY <2>1
  <2>2. ASSUME editForm'.n # 0, editForm'.id = i, v = editForm'.row[col] PROVE From(i, col, v)
    <3>1. CASE editForm' = editForm
      BY <2>2, <3>1 DEF From, Held
    <3>2. CASE editForm' = Shut
      BY <2>2, <3>2 DEF Shut
    <3>3. CASE editForm'.asked = changes' /\ editForm'.row = rows[editForm'.id]
      BY <2>2, <3>3 DEF From, Held
    <3> QED BY <3>1, <3>2, <3>3
  <2>3. ASSUME NEW d \in invCalls', d.id = i, v = d.row[col] \/ (col \in DOMAIN d.sent /\ v = d.sent[col])
        PROVE  From(i, col, v)
    <3>1. ASSUME NEW c \in invCalls, Same(c, d), d.row = c.row \/ d.row = invoice[c.id]
          PROVE  Held(i, col, v)
      BY <2>3, <3>1 DEF Same, Held
    <3>2. ASSUME d.row = Blank, col \notin DOMAIN d.sent PROVE v = 0
      BY <2>3, <3>2, BlankOK DEF Columns
    <3> QED BY <2>3, <3>1, <3>2 DEF From
  <2> QED BY <1>2, <2>1, <2>2, <2>3 DEF Held
<1>3. Bounded'
  <2> SUFFICES ASSUME NEW i \in Ids, NEW col \in Plain, NEW v \in Nat, Held(i, col, v)' PROVE v <= changes'
    BY DEF Bounded
  <2>1. From(i, col, v)
    BY <1>2
  <2>2. Held(i, col, v) => v <= changes
    BY DEF InvoicesOK, Bounded
  <2>3. changes' # 0
    BY DEF InvoiceTypes
  <2> QED BY <1>1, <2>1, <2>2, <2>3 DEF From
<1>4. SavesNewest'
  <2> SUFFICES ASSUME NEW d \in invCalls', d.kind = "save", NEW col \in Plain \cap DOMAIN d.sent, NEW v \in Nat,
                      Held(d.id, col, v)', v \notin theirs', d.asked < v, v <= d.n
               PROVE  v <= d.sent[col]
    BY DEF SavesNewest
  <2>1. PICK c \in invCalls : Same(c, d)
    OBVIOUS
  <2>2. d.id \in Ids /\ d.asked \in Nat \ {0}
    BY DEF InvoiceTypes, Carried, InvCall
  <2>3. From(d.id, col, v)
    BY <1>2, <2>2
  <2>4. Held(d.id, col, v)
    BY <2>2, <2>3 DEF From
  <2> QED BY <2>1, <2>4 DEF Same, InvoicesOK, SavesNewest
<1>5. FormNewest'
  <2>0. PICK i : i = editForm'.id
    OBVIOUS
  <2> SUFFICES ASSUME editForm'.n # 0, NEW col \in Plain, NEW v \in Nat, Held(i, col, v)',
                      v \notin theirs', editForm'.asked < v
               PROVE  v <= editForm'.row[col] \/ (col = "date" /\ editForm'.row.date = 0)
    BY <2>0 DEF FormNewest, Held
  <2>1. i \in Ids /\ editForm'.asked \in Nat \ {0}
    BY <2>0 DEF InvoiceTypes, Shut
  <2>2. From(i, col, v) /\ v <= changes'
    BY <1>2, <1>3, <2>1 DEF Bounded
  <2>3. Held(i, col, v)
    BY <2>1, <2>2 DEF From
  <2>4. CASE editForm' = editForm
    BY <2>0, <2>3, <2>4 DEF InvoicesOK, FormNewest
  <2>5. CASE editForm' = Shut
    BY <2>5 DEF Shut
  <2>6. CASE editForm'.asked = changes'
    BY <1>1, <2>2, <2>6
  <2> QED BY <2>4, <2>5, <2>6
<1> QED BY <1>3, <1>4, <1>5 DEF InvoicesOK

\* A save that the form sends is the newest, and so is the form then.
LEMMA SubmitEditOK ==
    ASSUME Shared, InvoicesOK, NEW edited \in SUBSET Plain, NEW emptied \in BOOLEAN, SubmitEdit(edited, emptied)
    PROVE  InvoicesOK'
<1> DEFINE k == changes + 1
           old == editForm.row
<1>a. PICK row : row = [Set(old, edited, k) EXCEPT !.date = IF emptied THEN 0 ELSE @]
  OBVIOUS
<1>b. PICK e : e = Request("save", editForm.id, editForm.n, editForm.asked, Edits(row))
  OBVIOUS
<1>1. /\ editForm.n # 0 /\ invCalls' = invCalls \cup {e} /\ changes' = k
      /\ UNCHANGED <<invoice, rows, newForm, theirs, undone>> /\ editForm' = [editForm EXCEPT !.row = row]
      /\ emptied => "date" \notin edited
  BY <1>a, <1>b DEF SubmitEdit, Send, serverVars
<1>2. editForm \in [n: Nat \ {0}, id: Ids, row: Invoice, asked: Nat \ {0}] /\ k \in Nat /\ changes \in Nat \ {0}
  BY <1>1 DEF InvoicesOK, InvoiceTypes, Shut
<1>3. old \in Invoice /\ editForm.id \in Ids /\ editForm.asked \in Nat \ {0} /\ editForm.id \in Nat
  BY <1>2 DEF Ids
<1>4. /\ Set(old, edited, k) \in Invoice
      /\ \A col \in Plain : Set(old, edited, k)[col] = IF col \in edited THEN k ELSE old[col]
  BY <1>2, <1>3, SetColumns DEF Columns
<1>5. row \in Invoice
  BY <1>4, <1>a DEF Invoice
<1>6. \A col \in Plain : row[col] = IF col = "date" /\ emptied THEN 0 ELSE IF col \in edited THEN k ELSE old[col]
  BY <1>4, <1>a DEF Invoice, Plain
<1>7. /\ Edits(row) \in Saved
      /\ \A col \in Plain \cap DOMAIN Edits(row) : Edits(row)[col] = row[col] /\ (col = "date" => row.date # 0)
  BY <1>5, EditsOK
<1>8. /\ e \in InvCall /\ e.kind = "save" /\ e.id = editForm.id /\ e.asked = editForm.asked /\ e.n = k
      /\ e.sent = Edits(row) /\ e.row = Blank /\ e.st = "sent"
  <2>1. visit \in Nat /\ newForm.client \in Clients \cup {NoClient}
    BY DEF Shared, InvoicesOK, InvoiceTypes
  <2> QED BY <1>b, <1>2, <1>3, <1>7, <2>1, BlankOK DEF Request, InvCall, Sent
<1>9. /\ editForm'.n = editForm.n /\ editForm'.id = editForm.id /\ editForm'.asked = editForm.asked
      /\ editForm'.row = row /\ editForm' \in [n: Nat \ {0}, id: Ids, row: Invoice, asked: Nat \ {0}]
  BY <1>1, <1>2, <1>5
<1>10. InvoiceTypes'
  <2>1. \A c \in invCalls : Carried(c)'
    BY <1>1, <1>2, CarriedOn DEF InvoicesOK
  <2>2. Carried(e)'
    BY <1>1, <1>2, <1>3, <1>7, <1>8 DEF Carried
  <2> QED BY <1>1, <1>2, <1>9, <2>1, <2>2 DEF InvoicesOK, InvoiceTypes
<1>11. ASSUME NEW i \in Ids, NEW col \in Plain, NEW v \in Nat, Held(i, col, v)'
       PROVE  Held(i, col, v) \/ v = 0 \/ (i = editForm.id /\ v = row[col])
  <2>1. ASSUME NEW d \in invCalls', d.id = i, v = d.row[col] \/ (col \in DOMAIN d.sent /\ v = d.sent[col])
        PROVE  Held(i, col, v) \/ v = 0 \/ (i = editForm.id /\ v = row[col])
    <3>1. CASE d \in invCalls
      BY <2>1, <3>1 DEF Held
    <3>2. CASE d = e
      BY <1>7, <1>8, <2>1, <3>2, BlankOK DEF Columns
    <3> QED BY <1>1, <3>1, <3>2
  <2> QED BY <1>1, <1>9, <1>11, <2>1 DEF Held
<1>12. \A col \in Plain : row[col] = k \/ row[col] = 0 \/ Held(editForm.id, col, row[col])
  BY <1>1, <1>6 DEF Held
<1>13. \A col \in Plain : row[col] \in Nat /\ old[col] \in Nat
  BY <1>3, <1>5, ColumnsNat DEF Columns
<1>14. \A col \in Plain : \A v \in Nat : Held(editForm.id, col, v) => v <= changes
  BY <1>3 DEF InvoicesOK, Bounded
<1>15. ASSUME NEW col \in Plain, NEW v \in Nat, Held(editForm.id, col, v) \/ v = 0 \/ v = row[col],
              v \notin theirs, editForm.asked < v
       PROVE  v <= row[col] \/ (col = "date" /\ row.date = 0)
  <2>1. CASE v = row[col]
    BY <1>13, <2>1
  <2>2. CASE Held(editForm.id, col, v)
    <3>1. v <= changes /\ (v <= old[col] \/ (col = "date" /\ old.date = 0))
      BY <1>1, <1>14, <1>15, <2>2 DEF InvoicesOK, FormNewest
    <3> QED BY <1>2, <1>6, <1>13, <3>1
  <2> QED BY <1>3, <1>15, <2>1, <2>2
<1>16. Bounded'
  <2> SUFFICES ASSUME NEW i \in Ids, NEW col \in Plain, NEW v \in Nat, Held(i, col, v)' PROVE v <= k
    BY <1>1 DEF Bounded
  <2>1. Held(i, col, v) \/ v = 0 \/ (i = editForm.id /\ v = row[col])
    BY <1>11
  <2>2. Held(i, col, v) => v <= changes
    BY DEF InvoicesOK, Bounded
  <2> QED BY <1>2, <1>12, <1>14, <2>1, <2>2
<1>17. SavesNewest'
  <2> SUFFICES ASSUME NEW d \in invCalls', d.kind = "save", NEW col \in Plain \cap DOMAIN d.sent, NEW v \in Nat,
                      Held(d.id, col, v)', v \notin theirs, d.asked < v, v <= d.n
               PROVE  v <= d.sent[col]
    BY <1>1 DEF SavesNewest
  <2>1. d.id \in Ids /\ d.asked \in Nat \ {0} /\ d.n \in Nat
    BY <1>10 DEF InvoiceTypes, Carried, InvCall
  <2>2. Held(d.id, col, v) \/ v = 0 \/ (d.id = editForm.id /\ v = row[col])
    BY <1>11, <2>1
  <2>3. CASE d \in invCalls
    <3>1. d.n <= changes
      BY <2>3 DEF InvoicesOK, InvoiceTypes, Carried
    <3>2. v # 0 /\ v # k
      BY <1>2, <2>1, <3>1
    <3>3. Held(d.id, col, v)
      BY <1>12, <2>2, <3>2
    <3> QED BY <2>3, <3>3 DEF InvoicesOK, SavesNewest
  <2>4. CASE d = e
    <3>1. v <= row[col] \/ (col = "date" /\ row.date = 0)
      BY <1>8, <1>15, <2>2, <2>4
    <3> QED BY <1>7, <1>8, <2>4, <3>1
  <2> QED BY <1>1, <2>3, <2>4
<1>18. FormNewest'
  <2>0. PICK i : i = editForm.id
    OBVIOUS
  <2> SUFFICES ASSUME NEW col \in Plain, NEW v \in Nat, Held(i, col, v)', v \notin theirs, editForm.asked < v
               PROVE  v <= row[col] \/ (col = "date" /\ row.date = 0)
    BY <1>1, <1>9, <2>0 DEF FormNewest, Held
  <2>1. Held(editForm.id, col, v) \/ v = 0 \/ v = row[col]
    BY <1>3, <1>11, <2>0
  <2> QED BY <1>15, <2>1
<1> QED BY <1>1, <1>10, <1>16, <1>17, <1>18 DEF InvoicesOK, ChangesKept

\* A write puts an older value back only in the ways ChangesKept names.
LEMMA PutBackOK ==
    ASSUME InvoicesOK, NEW c \in invCalls, c.st = "read", NEW u \in PutBack(c)
    PROVE  u.overlap \/ (u.kind = "save" /\ u.column # "status" /\ (u.unread \/ ~u.own))
<1> DEFINE now == invoice[c.id]
<1>1. PICK col \in Columns :
         /\ Value(c, col) < now[col]
         /\ u = [column |-> col, kind |-> c.kind,
                 overlap |-> c.row[col] # now[col] \/ now[col] > c.n,
                 unread |-> now[col] <= c.asked, own |-> now[col] \notin theirs]
  BY DEF PutBack
<1>2. Carried(c) /\ c \in InvCall /\ c.kind \in {"save", "status"}
  BY DEF InvoicesOK, InvoiceTypes, Carried
<1>3. /\ c.id \in Ids /\ c.row \in Invoice /\ c.n \in Nat /\ c.asked \in Nat
      /\ now \in Invoice /\ now[col] \in Nat /\ c.row[col] \in Nat
  BY <1>2, ValueOK, ColumnsNat DEF InvoicesOK, InvoiceTypes, InvCall
<1>4. /\ u.column = col /\ u.kind = c.kind
      /\ ~u.overlap => c.row[col] = now[col] /\ ~(now[col] > c.n)
      /\ ~u.unread => ~(now[col] <= c.asked)
      /\ u.own => now[col] \notin theirs
  BY <1>1, Zenon
<1>5. Value(c, col) = c.row[col] => u.overlap
  <2>1. Value(c, col) # now[col]
    BY <1>1, <1>3
  <2> QED BY <1>4, <2>1
<1>6. CASE c.kind = "status"
  <2>1. CASE col = "status"
    <3>1. Value(c, col) = c.n
      BY <1>2, <1>6, <2>1, ValueOK
    <3> QED BY <1>1, <1>3, <1>4, <3>1
  <2>2. CASE col # "status"
    BY <1>2, <1>5, <1>6, <2>2, ValueOK DEF Columns
  <2> QED BY <2>1, <2>2
<1>7. CASE c.kind = "save"
  <2>1. CASE col = "status"
    BY <1>2, <1>5, <1>7, <2>1, ValueOK
  <2>2. CASE col # "status" /\ col \notin DOMAIN c.sent
    BY <1>2, <1>5, <2>2, ValueOK
  <2>3. CASE col # "status" /\ col \in DOMAIN c.sent
    <3>1. col \in Plain /\ Value(c, col) = c.sent[col] /\ c.sent[col] \in Nat
      BY <1>2, <2>3, ValueOK DEF Columns
    <3>2. Held(c.id, col, now[col])
      BY DEF Held
    <3>3. ASSUME ~u.overlap, ~u.unread, u.own PROVE now[col] <= c.sent[col]
      <4>1. ~(now[col] > c.n) /\ ~(now[col] <= c.asked) /\ now[col] \notin theirs
        BY <1>4, <3>3
      <4>2. now[col] <= c.n /\ c.asked < now[col]
        BY <1>3, <4>1
      <4> QED BY <1>3, <1>7, <2>3, <3>1, <3>2, <4>1, <4>2 DEF InvoicesOK, SavesNewest
    <3>4. ~(now[col] <= c.sent[col])
      BY <1>1, <1>3, <3>1
    <3>5. u.overlap \/ u.unread \/ ~u.own
      BY <3>3, <3>4
    <3> QED BY <1>4, <1>7, <2>3, <3>5
  <2> QED BY <2>1, <2>2, <2>3
<1> QED BY <1>2, <1>6, <1>7

\* Requests that are no saves.
LEMMA SendOK ==
    ASSUME Shared, InvoicesOK, NEW kind \in {"create", "status", "delete"}, NEW i \in Nat, NEW form \in Nat,
           NEW sent \in Sent, Send(kind, i, form, 0, sent), UNCHANGED editForm,
           kind = "create" => sent \in [on: BOOLEAN, dated: BOOLEAN],
           kind = "status" => i \in Ids /\ sent = [status |-> changes + 1],
           kind = "delete" => sent = <<>>
    PROVE  InvoicesOK'
<1>1. PICK e : e = Request(kind, i, form, 0, sent)
  OBVIOUS
<1>2. /\ invCalls' = invCalls \cup {e} /\ changes' = changes + 1 /\ changes \in Nat \ {0}
      /\ UNCHANGED <<invoice, rows, newForm, theirs, undone>>
  BY <1>1 DEF Send, serverVars, InvoicesOK, InvoiceTypes
<1>3. /\ e \in InvCall /\ e.kind = kind /\ e.id = i /\ e.n = changes + 1 /\ e.sent = sent /\ e.row = Blank
      /\ e.st = "sent"
  <2>1. visit \in Nat /\ newForm.client \in Clients \cup {NoClient}
    BY DEF Shared, InvoicesOK, InvoiceTypes
  <2> QED BY <1>1, <1>2, <2>1, BlankOK DEF Request, InvCall
<1>4. \A col \in Plain : col \notin DOMAIN sent
  <2>1. CASE kind = "create"
    <3>1. DOMAIN sent = {"on", "dated"}
      BY <2>1
    <3> QED BY <3>1 DEF Plain
  <2>2. CASE kind = "status"
    <3>1. DOMAIN sent = {"status"}
      BY <2>2
    <3> QED BY <3>1 DEF Plain
  <2>3. CASE kind = "delete"
    <3>1. DOMAIN sent = {}
      BY <2>3
    <3> QED BY <3>1
  <2> QED BY <2>1, <2>2, <2>3
<1>5. InvoiceTypes'
  <2>1. \A c \in invCalls : Carried(c)'
    BY <1>2, CarriedOn DEF InvoicesOK
  <2>2. Carried(e)'
    BY <1>2, <1>3 DEF Carried
  <2> QED BY <1>2, <2>1, <2>2 DEF InvoicesOK, InvoiceTypes
<1>6. ChangesKept'
  BY <1>2 DEF InvoicesOK, ChangesKept
<1>7. \A j \in Ids, col \in Plain : From(j, col, invoice'[j][col]) /\ From(j, col, rows'[j][col])
  BY <1>2 DEF From, Held
<1>8. \A d \in invCalls' :
         \/ \E c \in invCalls : Same(c, d) /\ (d.row = c.row \/ d.row = invoice[c.id])
         \/ d.kind # "save" /\ d.row = Blank /\ \A col \in Plain : col \notin DOMAIN d.sent
  BY <1>2, <1>3, <1>4 DEF Same
<1> QED BY <1>2, <1>5, <1>6, <1>7, <1>8, Quiet

\* Answers: a request turns into itself further on, or is gone.
LEMMA BecomesOK ==
    ASSUME InvoicesOK, NEW c \in invCalls, NEW s \in {"ok", "error"}, Becomes(c, s), changes' >= changes,
           changes' \in Nat
    PROVE  /\ \A d \in invCalls' : Carried(d)'
           /\ \A d \in invCalls' : \E b \in invCalls : Same(b, d) /\ (d.row = b.row \/ d.row = invoice[b.id])
<1>1. PICK e : e = [c EXCEPT !.st = s]
  OBVIOUS
<1>2. invCalls' = (invCalls \ {c}) \cup {e}
  BY <1>1 DEF Becomes
<1>3. c \in InvCall
  BY DEF InvoicesOK, InvoiceTypes, Carried
<1>4. e \in InvCall /\ Same(c, e) /\ e.row = c.row /\ e.st = s
  BY <1>1, <1>3 DEF InvCall, Same
<1>5. \A d \in invCalls : Carried(d)'
  BY CarriedOn DEF InvoicesOK
<1>6. Carried(e)'
  BY <1>4, <1>5 DEF Carried, Same
<1> QED BY <1>2, <1>4, <1>5, <1>6 DEF Same

\* Steps that touch neither the requests nor what has been undone.
LEMMA StillOK ==
    ASSUME InvoicesOK, UNCHANGED <<newForm, editForm, invCalls, undone, rows>>, invoice' \in [Ids -> Invoice],
           \/ UNCHANGED <<changes, theirs>> \/ Elsewhere,
           \A i \in Ids, col \in Plain : From(i, col, invoice'[i][col])
    PROVE  InvoicesOK'
<1>1. changes' \in Nat \ {0} /\ changes <= changes' /\ theirs \subseteq theirs'
  BY DEF Elsewhere, InvoicesOK, InvoiceTypes
<1>2. InvoiceTypes'
  BY <1>1 DEF InvoicesOK, InvoiceTypes, Carried, InvCall
<1>3. ChangesKept'
  BY DEF InvoicesOK, ChangesKept
<1>4. \A i \in Ids, col \in Plain : From(i, col, rows'[i][col])
  BY DEF From, Held
<1>5. \A d \in invCalls' : \E c \in invCalls : Same(c, d) /\ d.row = c.row
  BY DEF Same
<1> QED BY <1>1, <1>2, <1>3, <1>4, <1>5, Quiet

\* A step of the invoices page keeps what it keeps.
LEMMA InvoicesNextOK == Shared /\ InvoicesOK /\ InvoicesNext => InvoicesOK'
<1> SUFFICES ASSUME Shared, InvoicesOK, InvoicesNext PROVE InvoicesOK'
  OBVIOUS
<1> USE Bounds
<1>0. Number \in Nat \ {0} /\ Ids \subseteq Nat /\ 0 \in Nat /\ newForm.n \in Nat /\ changes \in Nat \ {0}
  BY DEF Number, Shared, Ids, InvoicesOK, InvoiceTypes
<1>1. \A i \in Ids, col \in Plain : /\ From(i, col, invoice[i][col]) /\ From(i, col, rows[i][col])
                                    /\ invoice[i] \in Invoice
  BY DEF From, Held, InvoicesOK, InvoiceTypes
<1>2. \A c \in invCalls : c \in InvCall /\ Carried(c)
  BY DEF InvoicesOK, InvoiceTypes, Carried
<1>3. ASSUME OpenNew \/ CloseInvoiceForm \/ (\E c \in Clients \cup {NoClient} : PickClient(c))
             \/ ReadInvoices \/ \E i \in Ids : OpenEdit(i)
      PROVE InvoicesOK'
  <2>1. UNCHANGED <<invoice, invCalls, historyVars>> /\ rows' \in {rows, invoice}
    BY <1>3 DEF OpenNew, CloseInvoiceForm, PickClient, ReadInvoices, OpenEdit, serverVars
  <2>2. newForm' \in [n: Nat, client: Clients \cup {NoClient}]
    BY <1>0, <1>3 DEF OpenNew, CloseInvoiceForm, PickClient, ReadInvoices, OpenEdit, InvoicesOK, InvoiceTypes, NoNewForm
  <2>3. \/ editForm' \in {editForm, Shut}
        \/ editForm'.asked = changes /\ editForm'.row = rows[editForm'.id]
    BY <1>3 DEF OpenNew, CloseInvoiceForm, PickClient, ReadInvoices, OpenEdit
  <2>4. editForm' \in {Shut} \cup [n: Nat \ {0}, id: Ids, row: Invoice, asked: Nat \ {0}]
    BY <1>0, <1>3 DEF OpenNew, CloseInvoiceForm, PickClient, ReadInvoices, OpenEdit, InvoicesOK, InvoiceTypes
  <2>5. UNCHANGED <<changes, theirs, undone>>
    BY <2>1 DEF historyVars
  <2>6. InvoiceTypes'
    BY <2>1, <2>2, <2>4, <2>5 DEF InvoicesOK, InvoiceTypes, Carried
  <2>7. ChangesKept'
    BY <2>5 DEF InvoicesOK, ChangesKept
  <2>8. \A i \in Ids, col \in Plain : From(i, col, invoice'[i][col]) /\ From(i, col, rows'[i][col])
    BY <1>1, <2>1
  <2>9. \A d \in invCalls' : \E c \in invCalls : Same(c, d) /\ d.row = c.row
    BY <2>1 DEF Same
  <2> QED BY <1>0, <2>3, <2>5, <2>6, <2>7, <2>8, <2>9, Quiet
<1>4. CASE SubmitNew
  <2>1. PICK on \in BOOLEAN, dated \in BOOLEAN : Send("create", 0, newForm.n, 0, [on |-> on, dated |-> dated])
    BY <1>4 DEF SubmitNew
  <2>2. [on |-> on, dated |-> dated] \in [on: BOOLEAN, dated: BOOLEAN] /\ UNCHANGED editForm
    BY <1>4 DEF SubmitNew
  <2> QED BY <1>0, <2>1, <2>2, SendOK DEF Sent
<1>5. ASSUME NEW edited \in Together, NEW emptied \in BOOLEAN, SubmitEdit(edited \ {"status"}, emptied)
      PROVE  InvoicesOK'
  <2>1. edited \ {"status"} \subseteq Plain
    BY <1>5, InvoicesAssumption DEF Plain
  <2> QED BY <1>5, <2>1, SubmitEditOK
<1>6. ASSUME NEW i \in Ids, SetStatus(i) PROVE InvoicesOK'
  <2>1. [status |-> changes + 1] \in [status: Nat]
    BY <1>0
  <2> QED BY <1>0, <1>6, <2>1, SendOK DEF SetStatus, Sent
<1>7. ASSUME NEW i \in Ids, Delete(i) PROVE InvoicesOK'
  BY <1>0, <1>7, SendOK DEF Delete, Sent
<1>8. ASSUME NEW i \in Ids, ListDue(i) PROVE InvoicesOK'
  <2>1. UNCHANGED <<invoice, rows, newForm, editForm, invCalls, changes, theirs, undone>>
    BY <1>8 DEF ListDue, historyVars
  <2> QED BY <1>1, <2>1, StillOK DEF InvoicesOK, InvoiceTypes
<1>9. ASSUME NEW i \in Ids, Recur(i) PROVE InvoicesOK'
  <2>1. UNCHANGED <<rows, newForm, editForm, invCalls, undone>>
    BY <1>9 DEF Recur
  <2>2. CASE Live(i)
    <3>1. invoice' = [invoice EXCEPT ![i] = [invoice[i] EXCEPT !.date = changes + 1]] /\ Elsewhere
      BY <1>9, <2>2 DEF Recur
    <3>2. [invoice[i] EXCEPT !.date = changes + 1] \in Invoice
      BY <1>0, <1>1 DEF Invoice, Plain
    <3>3. invoice' \in [Ids -> Invoice]
      BY <3>1, <3>2 DEF InvoicesOK, InvoiceTypes
    <3>4. \A j \in Ids, col \in Plain : invoice'[j][col] \in {invoice[j][col], changes + 1}
      BY <1>1, <3>1 DEF InvoicesOK, InvoiceTypes, Invoice, Plain
    <3>5. changes + 1 \in theirs' /\ changes + 1 <= changes'
      BY <1>0, <3>1 DEF Elsewhere
    <3>6. \A j \in Ids, col \in Plain : From(j, col, invoice'[j][col])
      BY <1>1, <3>4, <3>5 DEF From
    <3> QED BY <2>1, <3>1, <3>3, <3>6, StillOK
  <2>3. CASE ~Live(i)
    <3>1. UNCHANGED <<invoice, changes, theirs>>
      BY <1>9, <2>3 DEF Recur
    <3> QED BY <1>1, <2>1, <3>1, StillOK DEF InvoicesOK, InvoiceTypes
  <2> QED BY <2>2, <2>3
<1>10. ASSUME NEW i \in Ids, NEW cols \in Together, SomebodyEdits(i, cols) PROVE InvoicesOK'
  <2>1. /\ UNCHANGED <<rows, newForm, editForm, invCalls, undone>> /\ Elsewhere
        /\ invoice' = [invoice EXCEPT ![i] = Set(invoice[i], cols, changes + 1)]
    BY <1>10 DEF SomebodyEdits
  <2>2. /\ Set(invoice[i], cols, changes + 1) \in Invoice
        /\ \A col \in Plain : Set(invoice[i], cols, changes + 1)[col] \in {invoice[i][col], changes + 1}
    BY <1>0, <1>1, SetColumns DEF Columns, InvoicesOK, InvoiceTypes
  <2>3. invoice' \in [Ids -> Invoice]
    BY <2>1, <2>2 DEF InvoicesOK, InvoiceTypes
  <2>4. \A j \in Ids, col \in Plain : invoice'[j][col] \in {invoice[j][col], changes + 1}
    BY <2>1, <2>2 DEF InvoicesOK, InvoiceTypes
  <2>5. changes + 1 \in theirs' /\ changes + 1 <= changes'
    BY <1>0, <2>1 DEF Elsewhere
  <2>6. \A j \in Ids, col \in Plain : From(j, col, invoice'[j][col])
    BY <1>1, <2>4, <2>5 DEF From
  <2> QED BY <2>1, <2>3, <2>6, StillOK
<1>11. ASSUME NEW c \in invCalls, NEW s \in {"ok", "error"}, Becomes(c, s), UNCHANGED <<rows, newForm, editForm>>,
              UNCHANGED <<changes, theirs>>, invoice' \in [Ids -> Invoice], ChangesKept',
              \A i \in Ids, col \in Plain : From(i, col, invoice'[i][col])
       PROVE  InvoicesOK'
  <2>1. /\ \A d \in invCalls' : Carried(d)'
        /\ \A d \in invCalls' : \E b \in invCalls : Same(b, d) /\ (d.row = b.row \/ d.row = invoice[b.id])
    BY <1>0, <1>11, BecomesOK
  <2>2. InvoiceTypes'
    BY <1>11, <2>1 DEF InvoicesOK, InvoiceTypes
  <2>3. \A i \in Ids, col \in Plain : From(i, col, rows'[i][col])
    BY <1>1, <1>11
  <2> QED BY <1>0, <1>11, <2>1, <2>2, <2>3, Quiet
<1>12. ASSUME NEW c \in invCalls, Create(c) PROVE InvoicesOK'
  <2>1. UNCHANGED <<rows, newForm, editForm, changes, theirs, undone>>
    BY <1>12 DEF Create, historyVars
  <2>2. c.client \in Clients \cup {NoClient} /\ c.sent \in [on: BOOLEAN, dated: BOOLEAN]
    BY <1>2, <1>12 DEF Create, Carried, InvCall
  <2>3. PICK m : m = Made(c.client, c.sent.on, c.sent.dated)
    OBVIOUS
  <2>4. m \in Invoice /\ \A col \in Plain : m[col] \in {0, 1}
    BY <2>2, <2>3, BlankOK DEF Columns
  <2>5. invoice' = invoice \/ \E i \in Ids : invoice' = [invoice EXCEPT ![i] = m]
    BY <1>12, <2>3 DEF Create
  <2>6. invoice' \in [Ids -> Invoice] /\ \A i \in Ids, col \in Plain : From(i, col, invoice'[i][col])
    BY <1>1, <2>4, <2>5 DEF InvoicesOK, InvoiceTypes, From
  <2>7. ChangesKept'
    BY <2>1 DEF InvoicesOK, ChangesKept
  <2>8. Becomes(c, "ok") \/ Becomes(c, "error")
    BY <1>12 DEF Create
  <2> QED BY <1>11, <2>1, <2>6, <2>7, <2>8
<1>13. ASSUME NEW c \in invCalls, Destroy(c) PROVE InvoicesOK'
  <2>1. UNCHANGED <<rows, newForm, editForm, changes, theirs, undone>>
    BY <1>13 DEF Destroy, historyVars
  <2>2. invoice' = invoice \/ invoice' = [invoice EXCEPT ![c.id] = [invoice[c.id] EXCEPT !.st = "deleted"]]
    BY <1>13 DEF Destroy
  <2>3. \A i \in Ids : /\ [invoice[i] EXCEPT !.st = "deleted"] \in Invoice
                       /\ \A col \in Plain : [invoice[i] EXCEPT !.st = "deleted"][col] = invoice[i][col]
    BY <1>1 DEF Invoice, Plain, InvoicesOK, InvoiceTypes
  <2>4. invoice' \in [Ids -> Invoice] /\ \A i \in Ids, col \in Plain : From(i, col, invoice'[i][col])
    BY <1>1, <2>2, <2>3 DEF InvoicesOK, InvoiceTypes
  <2>5. ChangesKept'
    BY <2>1 DEF InvoicesOK, ChangesKept
  <2>6. Becomes(c, "ok") \/ Becomes(c, "error")
    BY <1>13 DEF Destroy
  <2> QED BY <1>11, <2>1, <2>4, <2>5, <2>6
<1>14. ASSUME NEW c \in invCalls, Find(c) PROVE InvoicesOK'
  <2>1. UNCHANGED <<invoice, rows, newForm, editForm, changes, theirs, undone>> /\ c.kind \in {"save", "status"}
    BY <1>14 DEF Find, historyVars, serverVars
  <2>2. ChangesKept'
    BY <2>1 DEF InvoicesOK, ChangesKept
  <2>3. CASE Becomes(c, "error")
    BY <1>1, <1>11, <2>1, <2>2, <2>3 DEF InvoicesOK, InvoiceTypes
  <2>4. CASE ~Becomes(c, "error")
    <3>1. PICK e : e = [c EXCEPT !.st = "read", !.row = invoice[c.id]]
      OBVIOUS
    <3>2. invCalls' = (invCalls \ {c}) \cup {e}
      BY <1>14, <2>4, <3>1 DEF Find
    <3>3. c \in InvCall /\ Carried(c) /\ invoice[c.id] \in Invoice
      BY <1>2, <2>1 DEF Carried, InvoicesOK, InvoiceTypes
    <3>4. e \in InvCall /\ Same(c, e) /\ e.row = invoice[c.id] /\ e.st = "read"
      BY <3>1, <3>3 DEF InvCall, Same
    <3>5. Carried(e)'
      BY <2>1, <3>3, <3>4 DEF Carried, Same
    <3>6. InvoiceTypes'
      BY <2>1, <3>2, <3>5 DEF InvoicesOK, InvoiceTypes, Carried
    <3>7. \A d \in invCalls' : \E b \in invCalls : Same(b, d) /\ (d.row = b.row \/ d.row = invoice[b.id])
      BY <3>2, <3>4 DEF Same
    <3>8. \A i \in Ids, col \in Plain : From(i, col, invoice'[i][col]) /\ From(i, col, rows'[i][col])
      BY <1>1, <2>1
    <3>9. changes <= changes' /\ theirs \subseteq theirs' /\ editForm' \in {editForm, Shut}
      BY <1>0, <2>1
    <3> QED BY <2>2, <3>6, <3>7, <3>8, <3>9, Quiet
  <2> QED BY <2>3, <2>4
<1>15. ASSUME NEW c \in invCalls, Update(c) PROVE InvoicesOK'
  <2>1. UNCHANGED <<rows, newForm, editForm, changes, theirs>> /\ c.st = "read"
    BY <1>15 DEF Update
  <2>2. CASE Live(c.id)
    <3>1. PICK w : w = [invoice[c.id] EXCEPT
                   !.status = Value(c, "status"), !.terms = Value(c, "terms"),
                   !.recurring = Value(c, "recurring"), !.on = Value(c, "on"), !.date = Value(c, "date")]
      OBVIOUS
    <3>2. invoice' = [invoice EXCEPT ![c.id] = w] /\ undone' = undone \cup PutBack(c) /\ Becomes(c, "ok")
      BY <1>15, <2>2, <3>1 DEF Update
    <3>3. /\ c.id \in Ids /\ Value(c, "on") \in BOOLEAN
          /\ \A col \in Columns : Value(c, col) \in Nat
          /\ \A col \in Columns : /\ col \notin DOMAIN c.sent => Value(c, col) = c.row[col]
                                  /\ col \in DOMAIN c.sent => Value(c, col) = c.sent[col]
      BY <1>2, <2>1, ValueOK
    <3>4. invoice[c.id] \in Invoice
      BY <3>3 DEF InvoicesOK, InvoiceTypes
    <3>5. w \in Invoice /\ \A col \in Plain : w[col] = Value(c, col)
      BY <3>1, <3>3, <3>4 DEF Invoice, Columns, Plain
    <3>6. \A col \in Plain : Held(c.id, col, Value(c, col))
      BY <3>3 DEF Held, Columns
    <3>7. invoice' \in [Ids -> Invoice]
      BY <3>2, <3>5 DEF InvoicesOK, InvoiceTypes
    <3>8. \A i \in Ids, col \in Plain : From(i, col, invoice'[i][col])
      BY <1>1, <3>2, <3>3, <3>5, <3>6 DEF InvoicesOK, InvoiceTypes, From
    <3>9. ChangesKept'
      BY <2>1, <3>2, PutBackOK DEF InvoicesOK, ChangesKept
    <3> QED BY <1>11, <2>1, <3>2, <3>7, <3>8, <3>9
  <2>3. CASE ~Live(c.id)
    <3>1. UNCHANGED <<invoice, undone>> /\ Becomes(c, "error")
      BY <1>15, <2>3 DEF Update
    <3>2. ChangesKept'
      BY <3>1 DEF InvoicesOK, ChangesKept
    <3> QED BY <1>1, <1>11, <2>1, <3>1, <3>2 DEF InvoicesOK, InvoiceTypes
  <2> QED BY <2>2, <2>3
<1>16. ASSUME NEW c \in invCalls, InvoiceFails(c) PROVE InvoicesOK'
  <2>1. UNCHANGED <<invoice, rows, newForm, editForm, changes, theirs, undone>> /\ Becomes(c, "error")
    BY <1>16 DEF InvoiceFails, historyVars, serverVars
  <2>2. ChangesKept'
    BY <2>1 DEF InvoicesOK, ChangesKept
  <2> QED BY <1>1, <1>11, <2>1, <2>2 DEF InvoicesOK, InvoiceTypes
<1>17. ASSUME NEW c \in invCalls, InvoiceAnswer(c) PROVE InvoicesOK'
  <2>1. /\ UNCHANGED <<invoice, rows, changes, theirs, undone>> /\ invCalls' = invCalls \ {c}
        /\ newForm' \in {newForm, NoNewForm} /\ editForm' \in {editForm, Shut}
    BY <1>17 DEF InvoiceAnswer, historyVars, serverVars
  <2>2. InvoiceTypes'
    BY <2>1 DEF InvoicesOK, InvoiceTypes, NoNewForm, Carried
  <2>3. ChangesKept'
    BY <2>1 DEF InvoicesOK, ChangesKept
  <2>4. \A i \in Ids, col \in Plain : From(i, col, invoice'[i][col]) /\ From(i, col, rows'[i][col])
    BY <1>1, <2>1
  <2>5. \A d \in invCalls' : \E b \in invCalls : Same(b, d) /\ d.row = b.row
    BY <2>1 DEF Same
  <2> QED BY <1>0, <2>1, <2>2, <2>3, <2>4, <2>5, Quiet
<1> QED BY <1>3, <1>4, <1>5, <1>6, <1>7, <1>8, <1>9, <1>10, <1>12, <1>13, <1>14, <1>15, <1>16, <1>17
        DEF InvoicesNext

\* And so does the deletion of a client.
LEMMA CascadeOK == InvoicesOK /\ Cascade => InvoicesOK'
<1> SUFFICES ASSUME InvoicesOK, Cascade PROVE InvoicesOK'
  OBVIOUS
<1>1. PICK drafts \in SUBSET Orphaned :
         invoice' = [i \in Ids |->
            IF i \in drafts THEN [invoice[i] EXCEPT !.st = "deleted"]
            ELSE IF i \in Orphaned
            THEN [invoice[i] EXCEPT !.client = NoClient, !.on = FALSE, !.recurring = changes + 1, !.date = 0]
            ELSE invoice[i]]
  BY DEF Cascade
<1>2. UNCHANGED <<rows, newForm, editForm, invCalls, undone>>
  BY DEF Cascade
<1>3. changes \in Nat /\ \A i \in Ids : invoice[i] \in Invoice
  BY DEF InvoicesOK, InvoiceTypes
<1>4. ASSUME NEW i \in Ids
      PROVE  /\ invoice'[i] \in Invoice
             /\ invoice'[i] # invoice[i] => i \in Orphaned
             /\ \A col \in Plain : invoice'[i][col] \in {invoice[i][col], 0, changes + 1}
  <2>1. invoice[i] \in Invoice
    BY <1>3
  <2>2. /\ [invoice[i] EXCEPT !.st = "deleted"] \in Invoice
        /\ \A col \in Plain : [invoice[i] EXCEPT !.st = "deleted"][col] = invoice[i][col]
    BY <2>1 DEF Invoice, Plain
  <2>3. PICK o : o = [invoice[i] EXCEPT !.client = NoClient, !.on = FALSE, !.recurring = changes + 1, !.date = 0]
    OBVIOUS
  <2>4. o \in Invoice /\ \A col \in Plain : o[col] \in {invoice[i][col], 0, changes + 1}
    <3>1. o.terms = invoice[i].terms /\ o.recurring = changes + 1 /\ o.date = 0
      BY <2>1, <2>3 DEF Invoice
    <3>2. o = [st |-> invoice[i].st, client |-> NoClient, on |-> FALSE, status |-> invoice[i].status,
               terms |-> invoice[i].terms, recurring |-> changes + 1, date |-> 0]
      BY <2>1, <2>3 DEF Invoice
    <3>3. /\ invoice[i].st \in {"none", "live", "deleted"} /\ invoice[i].status \in Nat
          /\ invoice[i].terms \in Nat /\ changes + 1 \in Nat
      BY <1>3, <2>1 DEF Invoice
    <3>4. o \in Invoice
      BY <3>2, <3>3 DEF Invoice
    <3> QED BY <3>1, <3>4 DEF Plain
  <2>5. invoice'[i] = IF i \in drafts THEN [invoice[i] EXCEPT !.st = "deleted"]
                      ELSE IF i \in Orphaned THEN o ELSE invoice[i]
    BY <1>1, <2>3, Zenon
  <2> QED BY <2>1, <2>2, <2>4, <2>5
<1>5. invoice' \in [Ids -> Invoice]
  BY <1>1, <1>4
<1>6. CASE Orphaned = {}
  <2>1. UNCHANGED <<changes, theirs>>
    BY <1>6 DEF Cascade
  <2>2. \A i \in Ids, col \in Plain : From(i, col, invoice'[i][col])
    BY <1>4, <1>6 DEF From, Held
  <2> QED BY <1>2, <1>5, <2>1, <2>2, StillOK
<1>7. CASE Orphaned # {}
  <2>1. Elsewhere
    BY <1>7 DEF Cascade
  <2>2. changes + 1 \in theirs' /\ changes + 1 <= changes'
    BY <1>3, <2>1 DEF Elsewhere
  <2>3. \A i \in Ids, col \in Plain : From(i, col, invoice'[i][col])
    BY <1>4, <2>2 DEF From, Held
  <2> QED BY <1>2, <1>5, <2>1, <2>3, StillOK
<1> QED BY <1>6, <1>7

\* And so does every step of the desk.
LEMMA InvoicesStep == Shared /\ InvoicesOK /\ [Next]_vars => InvoicesOK'
<1> SUFFICES ASSUME Shared, InvoicesOK, [Next]_vars PROVE InvoicesOK'
  OBVIOUS
<1>1. CASE UNCHANGED <<invoice, rows, newForm, editForm, invCalls, changes, theirs, undone>>
  <2>1. \A i \in Ids, col \in Plain : From(i, col, invoice'[i][col])
    BY <1>1 DEF From, Held
  <2> QED BY <1>1, <2>1, StillOK DEF InvoicesOK, InvoiceTypes
<1>2. CASE InvoicesLeft
  <2>1. /\ UNCHANGED <<invoice, rows, invCalls, changes, theirs, undone>>
        /\ newForm' = NoNewForm /\ editForm' = Shut
    BY <1>2 DEF InvoicesLeft, serverVars, historyVars
  <2>2. InvoiceTypes' /\ ChangesKept'
    BY <2>1 DEF InvoicesOK, InvoiceTypes, NoNewForm, Carried, ChangesKept
  <2>3. \A i \in Ids, col \in Plain : From(i, col, invoice'[i][col]) /\ From(i, col, rows'[i][col])
    BY <2>1 DEF From, Held
  <2>4. \A d \in invCalls' : \E b \in invCalls : Same(b, d) /\ d.row = b.row
    BY <2>1 DEF Same
  <2>5. changes <= changes'
    BY <2>1 DEF InvoicesOK, InvoiceTypes
  <2> QED BY <2>1, <2>2, <2>3, <2>4, <2>5, Quiet
<1>3. \/ InvoicesNext \/ InvoicesLeft \/ Cascade
      \/ UNCHANGED <<invoice, rows, newForm, editForm, invCalls, changes, theirs, undone>>
  BY DEF Next, vars, invoiceVars, serverVars, historyVars, Go, Land
<1> QED BY <1>1, <1>2, <1>3, InvoicesNextOK, CascadeOK

-----------------------------------------------------------------------------
(* Roster: the link in the window is the client's *)

RCall == [n: Nat, kind: RowActions \cup {"regenerate", "admit"}, client: Clients, form: Nat,
          visit: Nat, st: {"sent", "cut", "ok", "error"}]

LinkCalls == {c \in rosterCalls : c.kind \in LinkKinds}

\* As long as nothing overtook the link asked for last: one request for a link
\* is under way, and no deletion; a link that was made is the one on the server;
\* the request is for the window's client, if there is a window; and until it
\* deletes the window's link that link is the one there.
Uncrossed ==
    /\ \A c, d \in LinkCalls : c = d
    /\ modal.n # 0 \/ LinkPending => \A c \in rosterCalls : c.kind # "hard-delete"
    /\ \A c \in LinkCalls : c.st = "ok" => link[c.client] = c.n
    /\ modal.n # 0 =>
         /\ \A c \in LinkCalls : c.client = modal.client /\ c.visit = visit
         /\ (\A c \in LinkCalls : c.st \notin {"cut", "ok"}) => link[modal.client] = modal.url

RosterOK ==
    /\ exported \subseteq Clients /\ link \in [Clients -> Nat] /\ crossed \in BOOLEAN
    /\ modal \in Modal /\ (modal.n # 0 => modal.client \in Clients)
    /\ newClient \in [n: Nat] /\ rosterCalls \subseteq RCall
    /\ \A c \in rosterCalls : c.st = "cut" => c.kind \in LinkKinds
    /\ ~crossed => Uncrossed

\* The page opens so.
LEMMA RosterInitOK == Init => RosterOK
<1> SUFFICES ASSUME Init PROVE RosterOK
  OBVIOUS
<1>1. NoModal \in Modal /\ NoModal.n = 0 /\ Shut \in [n: Nat]
  BY DEF NoModal, Modal, Shut
<1> QED BY <1>1 DEF Init, RosterInit, RosterOK, Uncrossed, LinkCalls, LinkPending

\* Requests the page makes are requests.
LEMMA RosterCallOK ==
    ASSUME Shared, NEW kind \in RowActions \cup {"regenerate", "admit"}, NEW c \in Clients, NEW form \in Nat
    PROVE  /\ RosterCall(kind, c, form) \in RCall
           /\ RosterCall(kind, c, form).kind = kind /\ RosterCall(kind, c, form).client = c
           /\ RosterCall(kind, c, form).st = "sent" /\ RosterCall(kind, c, form).visit = visit
<1>1. Number \in Nat
  BY DEF Number, Shared
<1> QED BY <1>1 DEF RosterCall, RCall, Shared

\* The link in the window follows.
LEMMA LinkFollows == RosterOK => LinkRight
<1> SUFFICES ASSUME RosterOK, modal.n # 0, ~crossed
             PROVE  \/ link[modal.client] = modal.url
                    \/ \E c \in rosterCalls : c.kind \in LinkKinds /\ c.client = modal.client
  BY DEF LinkRight
<1>1. Uncrossed
  BY DEF RosterOK
<1>2. CASE LinkCalls = {}
  BY <1>1, <1>2 DEF Uncrossed
<1>3. CASE LinkCalls # {}
  BY <1>1, <1>3 DEF Uncrossed, LinkCalls
<1> QED BY <1>2, <1>3

\* A request further on.
LEMMA TurnsOK ==
    ASSUME RosterOK, NEW c \in rosterCalls, NEW st \in {"cut", "ok", "error"}, Turns(c, st)
    PROVE  /\ c \in RCall /\ c.client \in Clients /\ c.n \in Nat
           /\ \E e \in RCall : /\ rosterCalls' = (rosterCalls \ {c}) \cup {e} /\ e.st = st
                               /\ e.kind = c.kind /\ e.client = c.client /\ e.n = c.n /\ e.visit = c.visit
<1>1. c \in RCall
  BY DEF RosterOK
<1>2. PICK e : e = [c EXCEPT !.st = st]
  OBVIOUS
<1>3. /\ e \in RCall /\ e.st = st
      /\ e.kind = c.kind /\ e.client = c.client /\ e.n = c.n /\ e.visit = c.visit
  BY <1>1, <1>2 DEF RCall
<1>4. rosterCalls' = (rosterCalls \ {c}) \cup {e}
  BY <1>2 DEF Turns
<1> QED BY <1>1, <1>3, <1>4 DEF RCall

\* A step of the clients page keeps it.
LEMMA RosterNextOK == Shared /\ RosterOK /\ RosterNext => RosterOK'
<1> SUFFICES ASSUME Shared, RosterOK, RosterNext PROVE RosterOK'
  OBVIOUS
<1> USE Bounds
<1>0. Number \in Nat
  BY DEF Number, Shared
<1>1. CASE Regenerate
  <2> DEFINE e == RosterCall("regenerate", modal.client, modal.n)
  <2>1. /\ modal.n # 0 /\ modal.client \in Clients /\ modal.n \in Nat
        /\ rosterCalls' = rosterCalls \cup {e} /\ crossed' = (crossed \/ LinkPending)
        /\ UNCHANGED <<exported, link, newClient, modal, visit>>
    BY <1>1 DEF Regenerate, RosterOK, Modal, Ask
  <2>2. e \in RCall /\ e.kind = "regenerate" /\ e.client = modal.client /\ e.st = "sent" /\ e.visit = visit
    BY <2>1, RosterCallOK
  <2> HIDE DEF e
  <2>3. ASSUME ~crossed' PROVE Uncrossed'
    <3>1. ~crossed /\ Uncrossed /\ LinkCalls = {}
      BY <2>1, <2>3 DEF RosterOK, LinkPending, LinkCalls
    <3>2. LinkCalls' = {e}
      BY <2>1, <2>2, <3>1 DEF LinkCalls, LinkKinds
    <3> QED BY <2>1, <2>2, <3>1, <3>2 DEF Uncrossed
  <2>4. crossed' \in BOOLEAN
    BY <2>1
  <2> QED BY <2>1, <2>2, <2>3, <2>4 DEF RosterOK
<1>2. CASE CloseModal
  <2>1. modal' = NoModal /\ NoModal \in Modal /\ NoModal.n = 0
        /\ UNCHANGED <<exported, link, newClient, rosterCalls, crossed, visit>>
    BY <1>2 DEF CloseModal, NoModal, Modal, Move
  <2>2. ASSUME ~crossed' PROVE Uncrossed'
    BY <2>1, <2>2 DEF RosterOK, Uncrossed, LinkCalls, LinkPending
  <2> QED BY <2>1, <2>2 DEF RosterOK
<1>3. CASE OpenAdmit \/ CancelAdmit
  <2>1. newClient' \in [n: Nat] /\ UNCHANGED <<exported, link, modal, rosterCalls, crossed, visit>>
    BY <1>0, <1>3 DEF OpenAdmit, CancelAdmit, Shut, Move, Meanwhile
  <2> QED BY <2>1 DEF RosterOK, Uncrossed, LinkCalls, LinkPending
<1>4. ASSUME NEW c \in Clients, Admit(c) PROVE RosterOK'
  <2> DEFINE e == RosterCall("admit", c, newClient.n)
  <2>1. /\ rosterCalls' = rosterCalls \cup {e} /\ newClient.n \in Nat
        /\ UNCHANGED <<exported, link, newClient, modal, crossed, visit>>
    BY <1>4 DEF Admit, RosterOK, Ask
  <2>2. e \in RCall /\ e.kind = "admit" /\ e.st = "sent"
    BY <2>1, RosterCallOK
  <2> HIDE DEF e
  <2>3. LinkCalls' = LinkCalls /\ LinkPending' = LinkPending
    BY <2>1, <2>2 DEF LinkCalls, LinkKinds, LinkPending
  <2>4. ASSUME ~crossed' PROVE Uncrossed'
    BY <2>1, <2>2, <2>3, <2>4 DEF RosterOK, Uncrossed
  <2> QED BY <2>1, <2>2, <2>4 DEF RosterOK
<1>5. ASSUME NEW c \in Clients, RequestLink(c) PROVE RosterOK'
  <2>0. MaxMoves + MaxRequests + faults + 1 \in Nat
    BY DEF Shared
  <2>1. crossed' = TRUE /\ link' \in [Clients -> Nat] /\ UNCHANGED <<exported, newClient, modal, rosterCalls>>
    BY <1>5, <2>0 DEF RequestLink, RosterOK
  <2> QED BY <2>1 DEF RosterOK
<1>6. ASSUME NEW c \in Clients, NEW kind \in RowActions, RowAction(kind, c) PROVE RosterOK'
  <2> DEFINE e == RosterCall(kind, c, 0)
  <2>1. /\ rosterCalls' = rosterCalls \cup {e} /\ modal.n = 0
        /\ crossed' = IF kind = "magic-link" THEN Overtaking ELSE (crossed \/ LinkPending)
        /\ UNCHANGED <<exported, link, newClient, modal, visit>>
    BY <1>6 DEF RowAction, Uncovered, Ask
  <2>2. e \in RCall /\ e.kind = kind /\ e.st = "sent"
    BY RosterCallOK
  <2> HIDE DEF e
  <2>3. ASSUME kind = "magic-link", ~crossed' PROVE Uncrossed'
    <3>1. LinkCalls = {} /\ \A d \in rosterCalls : d.kind # "hard-delete"
      BY <2>1, <2>3 DEF Overtaking, LinkPending, LinkCalls
    <3>2. LinkCalls' = {e}
      BY <2>1, <2>2, <2>3, <3>1 DEF LinkCalls, LinkKinds
    <3> QED BY <2>1, <2>2, <2>3, <3>1, <3>2 DEF Uncrossed
  <2>4. ASSUME kind # "magic-link", ~crossed' PROVE Uncrossed'
    <3>1. LinkCalls = {}
      BY <2>1, <2>4 DEF LinkPending, LinkCalls
    <3>2. kind \notin LinkKinds
      BY <2>4 DEF RowActions, LinkKinds
    <3>3. LinkCalls' = {} /\ ~LinkPending'
      BY <2>1, <2>2, <3>1, <3>2 DEF LinkCalls, LinkPending
    <3> QED BY <2>1, <3>3 DEF Uncrossed
  <2>5. crossed' \in BOOLEAN
    BY <2>1 DEF Overtaking, LinkPending, RosterOK
  <2> QED BY <2>1, <2>2, <2>3, <2>4, <2>5 DEF RosterOK
<1>7. ASSUME NEW c \in rosterCalls, ServeRoster(c) PROVE RosterOK'
  <2> DEFINE st == IF ~Accepted(c) THEN "error" ELSE IF c.kind \in LinkKinds THEN "cut" ELSE "ok"
  <2>1. Turns(c, st) /\ st \in {"cut", "ok", "error"} /\ c.st = "sent" /\ UNCHANGED <<newClient, modal, crossed, visit>>
    BY <1>7 DEF ServeRoster, Meanwhile
  <2>2. c \in RCall /\ c.client \in Clients /\ c.n \in Nat
    BY <2>1, TurnsOK
  <2>3. PICK e \in RCall : /\ rosterCalls' = (rosterCalls \ {c}) \cup {e} /\ e.st = st
                           /\ e.kind = c.kind /\ e.client = c.client /\ e.n = c.n /\ e.visit = c.visit
    BY <2>1, TurnsOK
  <2>4. exported' \subseteq Clients /\ link' \in [Clients -> Nat]
    BY <1>7, <2>2 DEF ServeRoster, RosterOK
  <2>5. ASSUME ~crossed' PROVE Uncrossed'
    <3>1. Uncrossed
      BY <2>1, <2>5 DEF RosterOK
    <3>2. CASE c.kind \in LinkKinds
      <4>1. LinkCalls = {c} /\ LinkCalls' = {e} /\ LinkPending
        BY <2>1, <2>3, <3>1, <3>2 DEF Uncrossed, LinkCalls, LinkPending
      <4>2. e.st \in {"cut", "error"} /\ (e.st = "error" => link' = link)
        BY <1>7, <2>3, <3>2 DEF ServeRoster
      <4>3. \A d \in rosterCalls' : d.kind # "hard-delete"
        BY <2>1, <2>3, <3>1, <4>1 DEF Uncrossed
      <4>4. modal.n # 0 /\ e.st = "error" => link'[modal.client] = modal.url
        BY <2>1, <3>1, <4>1, <4>2 DEF Uncrossed
      <4> QED BY <2>1, <2>3, <3>1, <4>1, <4>2, <4>3, <4>4 DEF Uncrossed
    <3>3. CASE c.kind \notin LinkKinds
      <4>1. LinkCalls' = LinkCalls /\ LinkPending' = LinkPending
        BY <2>1, <2>3, <3>3 DEF LinkCalls, LinkPending
      <4>2. c.kind # "hard-delete" => link' = link
        BY <1>7, <3>3 DEF ServeRoster
      <4>3. c.kind = "hard-delete" => modal.n = 0 /\ LinkCalls = {}
        BY <3>1 DEF Uncrossed, LinkPending, LinkCalls
      <4>4. modal.n # 0 \/ LinkPending => \A d \in rosterCalls' : d.kind # "hard-delete"
        BY <2>1, <2>3, <3>1 DEF Uncrossed
      <4> QED BY <2>1, <3>1, <4>1, <4>2, <4>3, <4>4 DEF Uncrossed
    <3> QED BY <3>2, <3>3
  <2>6. \A d \in rosterCalls' : d.st = "cut" => d.kind \in LinkKinds
    BY <2>3 DEF RosterOK
  <2> QED BY <2>1, <2>3, <2>4, <2>5, <2>6 DEF RosterOK
<1>8. ASSUME NEW c \in rosterCalls, RosterFails(c) PROVE RosterOK'
  <2>1. /\ Turns(c, "error") /\ crossed' = (crossed \/ (c.st # "sent" /\ c.kind \in LinkKinds))
        /\ UNCHANGED <<exported, link, newClient, modal, visit>>
    BY <1>8 DEF RosterFails, Fault
  <2>2. PICK e \in RCall : /\ rosterCalls' = (rosterCalls \ {c}) \cup {e} /\ e.st = "error"
                           /\ e.kind = c.kind /\ e.client = c.client /\ e.n = c.n /\ e.visit = c.visit
    BY <2>1, TurnsOK
  <2>3. ASSUME ~crossed' PROVE Uncrossed'
    <3>1. Uncrossed /\ (c.kind \in LinkKinds => c.st = "sent")
      BY <2>1, <2>3 DEF RosterOK
    <3>2. LinkPending' = LinkPending
      BY <2>2 DEF LinkPending
    <3>3. CASE c.kind \in LinkKinds
      <4>1. LinkCalls = {c} /\ LinkCalls' = {e}
        BY <2>2, <3>1, <3>3 DEF Uncrossed, LinkCalls
      <4> QED BY <2>1, <2>2, <3>1, <3>2, <3>3, <4>1 DEF Uncrossed
    <3>4. CASE c.kind \notin LinkKinds
      <4>1. LinkCalls' = LinkCalls
        BY <2>2, <3>4 DEF LinkCalls
      <4> QED BY <2>1, <2>2, <3>1, <3>2, <4>1 DEF Uncrossed
    <3> QED BY <3>3, <3>4
  <2>4. crossed' \in BOOLEAN
    BY <2>1
  <2>5. \A d \in rosterCalls' : d.st = "cut" => d.kind \in LinkKinds
    BY <2>2 DEF RosterOK
  <2> QED BY <2>1, <2>2, <2>3, <2>4, <2>5 DEF RosterOK
<1>9. ASSUME NEW c \in rosterCalls, MakeLink(c) PROVE RosterOK'
  <2>1. c.st = "cut" /\ c.kind \in LinkKinds /\ UNCHANGED <<exported, newClient, modal, visit>>
    BY <1>9 DEF MakeLink, RosterOK, Meanwhile
  <2>2. CASE client[c.client] # "gone"
    <3>1. Turns(c, "ok") /\ link' = [link EXCEPT ![c.client] = c.n] /\ UNCHANGED crossed
      BY <1>9, <2>2 DEF MakeLink
    <3>2. c.client \in Clients /\ c.n \in Nat
      BY <3>1, TurnsOK
    <3>3. PICK e \in RCall : /\ rosterCalls' = (rosterCalls \ {c}) \cup {e} /\ e.st = "ok"
                             /\ e.kind = c.kind /\ e.client = c.client /\ e.n = c.n /\ e.visit = c.visit
      BY <3>1, TurnsOK
    <3>4. link' \in [Clients -> Nat] /\ link'[c.client] = c.n
      BY <3>1, <3>2 DEF RosterOK
    <3>5. ASSUME ~crossed' PROVE Uncrossed'
      <4>1. Uncrossed
        BY <3>1, <3>5 DEF RosterOK
      <4>2. LinkCalls = {c} /\ LinkCalls' = {e} /\ LinkPending
        BY <2>1, <3>3, <4>1 DEF Uncrossed, LinkCalls, LinkPending
      <4>3. \A d \in rosterCalls' : d.kind # "hard-delete"
        BY <3>3, <4>1, <4>2 DEF Uncrossed
      <4> QED BY <2>1, <3>3, <3>4, <4>1, <4>2, <4>3 DEF Uncrossed
    <3>6. \A d \in rosterCalls' : d.st = "cut" => d.kind \in LinkKinds
      BY <3>3 DEF RosterOK
    <3> QED BY <2>1, <3>1, <3>3, <3>4, <3>5, <3>6 DEF RosterOK
  <2>3. CASE ~(client[c.client] # "gone")
    <3>1. Turns(c, "error") /\ crossed' = TRUE /\ UNCHANGED link
      BY <1>9, <2>3 DEF MakeLink
    <3>2. PICK e \in RCall : rosterCalls' = (rosterCalls \ {c}) \cup {e} /\ e.st = "error"
      BY <3>1, TurnsOK
    <3>3. \A d \in rosterCalls' : d.st = "cut" => d.kind \in LinkKinds
      BY <3>2 DEF RosterOK
    <3> QED BY <2>1, <3>1, <3>2, <3>3 DEF RosterOK
  <2> QED BY <2>2, <2>3
<1>10. ASSUME NEW c \in rosterCalls, RosterAnswer(c) PROVE RosterOK'
  <2>1. /\ rosterCalls' = rosterCalls \ {c} /\ c.st \in {"ok", "error"}
        /\ modal' = IF c.st = "ok" /\ c.visit = visit /\ c.kind \in LinkKinds THEN Linked(c) ELSE modal
        /\ newClient' \in {newClient, Shut}
        /\ UNCHANGED <<exported, link, crossed, visit>>
    BY <1>10 DEF RosterAnswer
  <2>2. c \in RCall /\ c.client \in Clients /\ c.n \in Nat
    BY DEF RosterOK, RCall
  <2>3. Linked(c) \in Modal /\ Linked(c).client = c.client /\ Linked(c).url = c.n
    BY <2>2 DEF Linked, RosterOK, Modal
  <2>4. modal' \in Modal /\ (modal'.n # 0 => modal'.client \in Clients)
    BY <2>1, <2>2, <2>3 DEF RosterOK
  <2>5. ASSUME ~crossed' PROVE Uncrossed'
    <3>1. Uncrossed
      BY <2>1, <2>5 DEF RosterOK
    <3>2. CASE c.kind \in LinkKinds
      <4>1. LinkCalls = {c} /\ LinkCalls' = {} /\ LinkPending /\ ~LinkPending'
        BY <2>1, <3>1, <3>2 DEF Uncrossed, LinkCalls, LinkPending
      <4>2. \A d \in rosterCalls' : d.kind # "hard-delete"
        BY <2>1, <3>1, <4>1 DEF Uncrossed
      <4>3. modal'.n # 0 => link[modal'.client] = modal'.url
        <5>1. CASE c.st = "ok" /\ c.visit = visit
          BY <2>1, <2>3, <3>1, <3>2, <4>1, <5>1 DEF Uncrossed
        <5>2. CASE ~(c.st = "ok" /\ c.visit = visit)
          BY <2>1, <3>1, <4>1, <5>2 DEF Uncrossed
        <5> QED BY <5>1, <5>2
      <4> QED BY <2>1, <4>1, <4>2, <4>3 DEF Uncrossed
    <3>3. CASE c.kind \notin LinkKinds
      <4>1. LinkCalls' = LinkCalls /\ LinkPending' = LinkPending /\ modal' = modal
        BY <2>1, <3>3 DEF LinkCalls, LinkPending
      <4> QED BY <2>1, <3>1, <4>1 DEF Uncrossed
    <3> QED BY <3>2, <3>3
  <2>6. newClient' \in [n: Nat]
    BY <2>1 DEF RosterOK, Shut
  <2> QED BY <2>1, <2>4, <2>5, <2>6 DEF RosterOK
<1> QED BY <1>1, <1>2, <1>3, <1>4, <1>5, <1>6, <1>7, <1>8, <1>9, <1>10 DEF RosterNext

\* And so does every step of the desk.
LEMMA RosterStep == Shared /\ RosterOK /\ [Next]_vars => RosterOK'
<1> SUFFICES ASSUME Shared, RosterOK, [Next]_vars PROVE RosterOK'
  OBVIOUS
<1>1. CASE RosterLeft
  <2>1. /\ newClient' \in [n: Nat] /\ modal' \in Modal /\ modal'.n = 0
        /\ UNCHANGED <<exported, link, rosterCalls, crossed>>
    BY <1>1 DEF RosterLeft, Shut, NoModal, Modal
  <2>2. ASSUME ~crossed' PROVE Uncrossed'
    BY <2>1, <2>2 DEF RosterOK, Uncrossed, LinkCalls, LinkPending
  <2> QED BY <2>1, <2>2 DEF RosterOK
<1>2. CASE UNCHANGED rosterVars /\ UNCHANGED visit
  BY <1>2 DEF rosterVars, RosterOK, Uncrossed, LinkCalls, LinkPending
<1>3. RosterLeft \/ RosterNext \/ UNCHANGED rosterVars
  BY DEF Next, vars, Go, Land
<1>4. UNCHANGED visit \/ RosterLeft
  BY SharedStep DEF Onward
<1> QED BY <1>1, <1>2, <1>3, <1>4, RosterNextOK

-----------------------------------------------------------------------------
(* Filing: one form files one ticket, as asked *)

FCall == [n: Nat, form: Nat \ {0}, client: Clients, sub: Clients \cup {NoClient}, closeNow: BOOLEAN,
          st: Steps, visit: Nat]
Ticket == [n: Nat, form: Nat \ {0}, closeNow: BOOLEAN, status: {"open", "closed"}, posted: BOOLEAN]

\* The form, the requests and the tickets stay in their sets; no request and no
\* ticket has a number, or comes from a form, that is still to be given out.
FilingTypes ==
    /\ filing \in Form /\ filing.n <= Number /\ filings \subseteq FCall /\ tickets \subseteq Ticket
    /\ \A c \in filings : c.n < Number /\ c.form <= c.n
    /\ \A t \in tickets : t.n < Number /\ t.form <= t.n
    /\ \A c, d \in filings : c.n = d.n => c = d

\* What the form kept: an end client of the chosen client; and nobody the
\* roster never showed.
Chosen ==
    /\ filing.client # NoClient =>
         filing.sub \in {NoClient, filing.client} /\ client[filing.client] # "none"
    /\ \A c \in filings : c.sub \in {NoClient, c.client} /\ client[c.client] # "none"

\* A form has one request, or one ticket and the request that made it, unless
\* it was filed again; before it is served a request has no ticket, and the form
\* on screen that has a ticket has its request still.
Single ==
    /\ \A c, d \in filings : c.form = d.form => c = d \/ c.form \in refiled
    /\ \A c \in filings, t \in tickets : c.form = t.form => c.n = t.n \/ c.form \in refiled
    /\ \A c \in filings, t \in tickets : c.n = t.n => c.st # "sent" /\ c.form = t.form
    /\ \A c \in filings, t \in tickets : c.n = t.n /\ c.st = "error" => c.form \in refiled
    /\ \A t \in tickets : t.form = filing.n => t.form \in refiled \/ \E c \in filings : c.form = t.form

\* A filing that failed halfway stays failed; one that has still to close its
\* ticket was to close it, and nothing was posted to that ticket yet.
Halving ==
    /\ \A n \in halved : n \in Nat /\ n < Number
    /\ \A c \in filings : c.n \in halved => c.st = "error"
    /\ \A c \in filings, t \in tickets : c.n = t.n /\ c.st = "opened" => t.closeNow /\ ~t.posted

FilingOK == FilingTypes /\ Chosen /\ Single /\ Halving /\ FiledRight

\* The page opens so.
LEMMA FilingInitOK == Init => FilingOK
BY DEF Init, PagesInit, FilingInit, NoFiling, Number, FilingOK, FilingTypes, Form, Chosen, Single, Halving,
   FiledRight, FiledOnce, FiledAsAsked

\* A request that goes on, and a form that changes in its phase or is closed.
LEMMA GoesOK ==
    ASSUME Shared, Onward, FilingOK, NEW c \in filings, NEW s \in Steps \ {"sent", "opened"},
           filings' = (filings \ {c}) \cup {[c EXCEPT !.st = s]},
           UNCHANGED <<tickets, denied>>, refiled \subseteq refiled', c.st # "error",
           IF c.st = "opened" THEN s = "error" /\ halved' = halved \cup {c.n} ELSE UNCHANGED halved,
           filing' \in Form, filing'.n = filing.n, filing'.client = filing.client, filing'.sub = filing.sub,
           s = "error" => c.form \in refiled' \/ \A t \in tickets : t.n # c.n
    PROVE  FilingOK'
<1> DEFINE e == [c EXCEPT !.st = s]
<1>1. c \in FCall
  BY DEF FilingOK, FilingTypes
<1>2. /\ e \in FCall /\ e.n = c.n /\ e.form = c.form /\ e.client = c.client /\ e.sub = c.sub /\ e.st = s
  BY <1>1 DEF FCall
<1>3. filings' = (filings \ {c}) \cup {e}
  OBVIOUS
<1> HIDE DEF e
<1>4. Number \in Nat /\ Number' \in Nat /\ Number <= Number'
  BY NumberGrows
<1>5. FilingTypes'
  <2>1. \A d \in filings' : d.n < Number' /\ d.form <= d.n
    BY <1>1, <1>2, <1>3, <1>4 DEF FilingOK, FilingTypes, FCall
  <2>2. \A t \in tickets' : t.n < Number' /\ t.form <= t.n
    BY <1>4 DEF FilingOK, FilingTypes, Ticket
  <2>3. \A d1, d2 \in filings' : d1.n = d2.n => d1 = d2
    BY <1>2, <1>3 DEF FilingOK, FilingTypes
  <2>4. filing'.n <= Number'
    BY <1>4 DEF FilingOK, FilingTypes, Form
  <2> QED BY <1>2, <1>3, <2>1, <2>2, <2>3, <2>4 DEF FilingOK, FilingTypes
<1>6. Chosen'
  <2>1. ASSUME filing'.client # NoClient
        PROVE  filing'.sub \in {NoClient, filing'.client} /\ client'[filing'.client] # "none"
    BY <2>1 DEF FilingOK, FilingTypes, Chosen, Onward, Form
  <2>2. ASSUME NEW d \in filings' PROVE d.sub \in {NoClient, d.client} /\ client'[d.client] # "none"
    BY <1>2, <1>3, <2>2 DEF FilingOK, FilingTypes, Chosen, Onward, FCall
  <2> QED BY <2>1, <2>2 DEF Chosen
<1>7. Single'
  BY <1>2, <1>3 DEF FilingOK, Single
<1>8. Halving'
  <2>1. c.n \in Nat /\ c.n < Number /\ \A d \in filings : d.n = c.n => d = c
    BY <1>1 DEF FilingOK, FilingTypes, FCall
  <2>2. \A n \in halved' : n \in Nat /\ n < Number'
    BY <1>4, <2>1 DEF FilingOK, Halving
  <2>3. \A d \in filings' : d.n \in halved' => d.st = "error"
    BY <1>2, <1>3, <2>1 DEF FilingOK, Halving
  <2> QED BY <1>2, <1>3, <2>2, <2>3 DEF FilingOK, Halving
<1>9. \A t \in tickets : Halfway(t)' <=> Halfway(t)
  BY <1>2, <1>3 DEF Halfway
<1>10. FiledRight'
  BY <1>9 DEF FilingOK, FiledRight, FiledOnce, FiledAsAsked
<1> QED BY <1>5, <1>6, <1>7, <1>8, <1>10 DEF FilingOK

\* A step that makes no request and no ticket and may take one answered away:
\* the form is closed, opened, or filled in.
LEMMA FillingOK ==
    ASSUME Shared, Onward, FilingOK, filings' \subseteq filings, UNCHANGED <<tickets, refiled, halved, denied>>,
           \A c \in filings \ filings' : c.st # "opened",
           filing' \in Form, filing'.n \in {0, filing.n, Number},
           filing'.client # NoClient =>
             filing'.sub \in {NoClient, filing'.client} /\ client[filing'.client] # "none",
           \A c \in filings \ filings' :
             filing'.n # filing.n \/ c.form # filing.n \/ c.form \in refiled \/ \A t \in tickets : t.form # c.form
    PROVE  FilingOK'
<1>1. Number \in Nat /\ Number' \in Nat /\ Number <= Number'
  BY NumberGrows
<1>2. \A t \in tickets : t.n \in Nat /\ t.form \in Nat \ {0} /\ t.n < Number /\ t.form <= t.n
  BY DEF FilingOK, FilingTypes, Ticket
<1>3. FilingTypes'
  <2>1. \A d \in filings : d.n \in Nat /\ d.n < Number
    BY DEF FilingOK, FilingTypes, FCall
  <2>2. filing'.n <= Number'
    BY <1>1 DEF FilingOK, FilingTypes, Form
  <2>3. \A d \in filings : d.n < Number'
    BY <1>1, <2>1
  <2>4. \A t \in tickets : t.n < Number'
    BY <1>1, <1>2
  <2> QED BY <1>2, <2>2, <2>3, <2>4 DEF FilingOK, FilingTypes
<1>4. Chosen'
  <2>1. ASSUME filing'.client # NoClient
        PROVE  filing'.sub \in {NoClient, filing'.client} /\ client'[filing'.client] # "none"
    BY <2>1 DEF Onward, Form
  <2>2. ASSUME NEW d \in filings PROVE d.sub \in {NoClient, d.client} /\ client'[d.client] # "none"
    BY <2>2 DEF FilingOK, FilingTypes, Chosen, Onward, FCall
  <2> QED BY <2>1, <2>2 DEF Chosen
<1>5. ASSUME NEW t \in tickets, t.form = filing'.n PROVE t.form \in refiled \/ \E c \in filings' : c.form = t.form
  <2>1. filing'.n = filing.n
    BY <1>1, <1>2, <1>5
  <2> QED BY <1>5, <2>1 DEF FilingOK, Single
<1>6. Single'
  BY <1>5 DEF FilingOK, Single
<1>7. Halving'
  BY <1>1 DEF FilingOK, Halving
<1>8. \A t \in tickets : Halfway(t)' <=> Halfway(t)
  BY DEF Halfway
<1>9. FiledRight'
  BY <1>8 DEF FilingOK, FiledRight, FiledOnce, FiledAsAsked
<1> QED BY <1>3, <1>4, <1>6, <1>7, <1>9 DEF FilingOK

\* Filing: the form may have been filed before only if that is noted.
LEMMA FileTicketOK ==
    ASSUME Shared, Onward, FilingOK, NEW closeNow \in BOOLEAN, FileTicket(closeNow)
    PROVE  FilingOK'
<1> DEFINE e == [n |-> Number, form |-> filing.n, client |-> filing.client, sub |-> filing.sub,
                 closeNow |-> closeNow, st |-> "sent", visit |-> visit]
<1>1. /\ filings' = filings \cup {e} /\ filing' = [filing EXCEPT !.phase = "filing"]
      /\ filing.n # 0 /\ filing.client # NoClient /\ ~Busy /\ Ask
      /\ UNCHANGED <<client, roster, tickets, halved, denied>>
      /\ refiled' = IF \E c \in filings : c.form = filing.n /\ Filed(c) THEN refiled \cup {filing.n} ELSE refiled
  BY DEF FileTicket, MayFile
<1>2. Number \in Nat /\ Number' = Number + 1
  <2>1. Number \in Nat
    BY DEF Shared, Number
  <2> QED BY <1>1, <2>1, CountsStep
<1>3. /\ filing \in Form /\ filing.n \in Nat \ {0} /\ filing.n <= Number
      /\ filing.client \in Clients /\ filing.sub \in {NoClient, filing.client}
      /\ client[filing.client] # "none" /\ visit \in Nat
  BY <1>1 DEF FilingOK, FilingTypes, Chosen, Form, Shared
<1>4. e \in FCall
  BY <1>2, <1>3 DEF FCall, Steps
<1>5. e.n = Number /\ e.form = filing.n /\ e.client = filing.client /\ e.sub = filing.sub /\ e.st = "sent"
  OBVIOUS
<1>6. /\ filing' \in Form /\ filing'.n = filing.n /\ filing'.client = filing.client
      /\ filing'.sub = filing.sub
  BY <1>1, <1>3 DEF Form
<1> HIDE DEF e
<1>7. /\ \A d \in filings : d.n \in Nat /\ d.n < Number /\ d.form \in Nat
      /\ \A t \in tickets : t.n \in Nat /\ t.n < Number /\ t.form \in Nat
  BY DEF FilingOK, FilingTypes, FCall, Ticket
<1>8. FilingTypes'
  <2>1. \A d \in filings' : d.n < Number' /\ d.form <= d.n
    BY <1>1, <1>2, <1>3, <1>5, <1>7 DEF FilingOK, FilingTypes
  <2>2. \A d1, d2 \in filings' : d1.n = d2.n => d1 = d2
    BY <1>1, <1>2, <1>5, <1>7 DEF FilingOK, FilingTypes
  <2>3. filing'.n <= Number' /\ \A t \in tickets : t.n < Number'
    BY <1>2, <1>3, <1>6, <1>7
  <2> QED BY <1>1, <1>4, <1>6, <2>1, <2>2, <2>3 DEF FilingOK, FilingTypes
<1>9. Chosen'
  BY <1>1, <1>3, <1>5, <1>6 DEF FilingOK, Chosen
<1>10. /\ refiled \subseteq refiled'
       /\ \A c \in filings : c.form = filing.n => filing.n \in refiled'
  BY <1>1 DEF Busy
<1>11. \A t \in tickets : t.form = filing.n => filing.n \in refiled'
  BY <1>10 DEF FilingOK, Single
<1>12. Single'
  <2>1. \A c, d \in filings' : c.form = d.form => c = d \/ c.form \in refiled'
    BY <1>1, <1>5, <1>10 DEF FilingOK, Single
  <2>2. \A c \in filings', t \in tickets : c.form = t.form => c.n = t.n \/ c.form \in refiled'
    BY <1>1, <1>5, <1>10, <1>11 DEF FilingOK, Single
  <2>3. \A c \in filings', t \in tickets :
          c.n = t.n => c.st # "sent" /\ c.form = t.form /\ (c.st = "error" => c.form \in refiled')
    BY <1>1, <1>2, <1>5, <1>7, <1>10 DEF FilingOK, Single
  <2>4. \A t \in tickets : t.form = filing'.n => t.form \in refiled'
    BY <1>6, <1>11
  <2> QED BY <1>1, <2>1, <2>2, <2>3, <2>4 DEF Single
<1>13. Halving'
  <2>1. \A n \in halved : n \in Nat /\ n < Number' /\ n # Number
    BY <1>2 DEF FilingOK, Halving
  <2> QED BY <1>1, <1>5, <2>1 DEF FilingOK, Halving
<1>14. \A t \in tickets : Halfway(t)' <=> Halfway(t)
  BY <1>1, <1>5 DEF Halfway
<1>15. FiledRight'
  BY <1>1, <1>10, <1>14 DEF FilingOK, FiledRight, FiledOnce, FiledAsAsked
<1> QED BY <1>8, <1>9, <1>12, <1>13, <1>15 DEF FilingOK

\* Serving a request makes the one ticket of its form.
LEMMA ServeFilingOK ==
    ASSUME Shared, Onward, FilingOK, NEW c \in filings, ServeFiling(c)
    PROVE  FilingOK'
<1>1. /\ c \in FCall /\ c.st = "sent" /\ c.sub \in {NoClient, c.client} /\ client[c.client] # "none"
      /\ c.client \in Clients /\ c.form <= c.n /\ c.n < Number /\ \A t \in tickets : t.n # c.n
  BY DEF ServeFiling, FilingOK, FilingTypes, Chosen, Single, FCall
<1>2. UNCHANGED <<client, filing, refiled, halved, moves, requests>> /\ Number' = Number
  BY DEF ServeFiling, Meanwhile, Number
<1>3. CASE client[c.client] # "active"
  <2>1. /\ denied' = denied \cup {[client |-> client[c.client], own |-> c.sub \in {NoClient, c.client}]}
        /\ filings' = (filings \ {c}) \cup {[c EXCEPT !.st = "error"]} /\ UNCHANGED tickets
    BY <1>3 DEF ServeFiling, Goes
  <2>2. client[c.client] \in {"archived", "gone"}
    BY <1>1, <1>3 DEF Shared, ClientStatus
  <2> DEFINE e == [c EXCEPT !.st = "error"]
  <2>3. /\ e \in FCall /\ e.n = c.n /\ e.form = c.form /\ e.client = c.client /\ e.sub = c.sub
        /\ e.st = "error"
    BY <1>1 DEF FCall, Steps
  <2> HIDE DEF e
  <2>4. filings' = (filings \ {c}) \cup {e}
    BY <2>1 DEF e
  <2>5. FilingTypes'
    BY <1>2, <2>1, <2>3, <2>4 DEF FilingOK, FilingTypes
  <2>6. Chosen' /\ Single' /\ Halving'
    BY <1>1, <1>2, <2>1, <2>3, <2>4 DEF FilingOK, Chosen, Single, Halving
  <2>7. FiledRight'
    <3>1. \A d \in denied' : d.own /\ d.client \in {"archived", "gone"}
      <4> DEFINE k == [client |-> client[c.client], own |-> c.sub \in {NoClient, c.client}]
      <4>1. k.own /\ k.client \in {"archived", "gone"}
        BY <1>1, <2>2
      <4>2. denied' = denied \cup {k}
        BY <2>1
      <4> HIDE DEF k
      <4> QED BY <4>1, <4>2 DEF FilingOK, FiledRight, FiledAsAsked
    <3>2. \A t \in tickets : Halfway(t)' <=> Halfway(t)
      BY <1>1, <1>2, <2>3, <2>4 DEF Halfway
    <3> QED BY <1>2, <2>1, <3>1, <3>2 DEF FilingOK, FiledRight, FiledOnce, FiledAsAsked
  <2> QED BY <2>5, <2>6, <2>7 DEF FilingOK
<1>4. CASE client[c.client] = "active"
  <2> DEFINE e == [c EXCEPT !.st = IF c.closeNow THEN "opened" ELSE "made"]
             k == [n |-> c.n, form |-> c.form, closeNow |-> c.closeNow, status |-> "open", posted |-> FALSE]
  <2>1. filings' = (filings \ {c}) \cup {e} /\ tickets' = tickets \cup {k} /\ UNCHANGED denied
    BY <1>1, <1>4 DEF ServeFiling, Goes
  <2>2. /\ e \in FCall /\ e.n = c.n /\ e.form = c.form /\ e.client = c.client /\ e.sub = c.sub
        /\ e.st = IF c.closeNow THEN "opened" ELSE "made"
    BY <1>1 DEF FCall, Steps
  <2>3. /\ k \in Ticket /\ k.n = c.n /\ k.form = c.form /\ k.closeNow = c.closeNow
        /\ k.status = "open" /\ ~k.posted
    BY <1>1 DEF FCall, Ticket
  <2> HIDE DEF e, k
  <2>4. FilingTypes'
    <3>1. \A d \in filings' : d.n < Number /\ d.form <= d.n
      BY <1>1, <2>1, <2>2 DEF FilingOK, FilingTypes
    <3>2. \A t \in tickets' : t.n < Number /\ t.form <= t.n
      BY <1>1, <2>1, <2>3 DEF FilingOK, FilingTypes
    <3>3. \A d1, d2 \in filings' : d1.n = d2.n => d1 = d2
      BY <2>1, <2>2 DEF FilingOK, FilingTypes
    <3> QED BY <1>2, <2>1, <2>2, <2>3, <3>1, <3>2, <3>3 DEF FilingOK, FilingTypes
  <2>5. Chosen'
    BY <1>1, <1>2, <2>1, <2>2 DEF FilingOK, Chosen
  <2>6. \A d \in filings \ {c} : d.n # c.n /\ (d.form = c.form => c.form \in refiled)
    BY DEF FilingOK, FilingTypes, Single
  <2>7. \A t \in tickets : t.form = c.form => c.form \in refiled
    BY <1>1 DEF FilingOK, Single
  <2>8. Single'
    <3>1. \A d1, d2 \in filings' : d1.form = d2.form => d1 = d2 \/ d1.form \in refiled
      BY <2>1, <2>2, <2>6 DEF FilingOK, Single
    <3>2. \A d \in filings', t \in tickets' : d.form = t.form => d.n = t.n \/ d.form \in refiled
      BY <2>1, <2>2, <2>3, <2>6, <2>7 DEF FilingOK, Single
    <3>3. \A d \in filings', t \in tickets' :
            d.n = t.n => d.st # "sent" /\ d.form = t.form /\ (d.st = "error" => d.form \in refiled)
      BY <1>1, <2>1, <2>2, <2>3, <2>6 DEF FilingOK, Single
    <3>4. \A t \in tickets' : t.form = filing.n => t.form \in refiled \/ \E d \in filings' : d.form = t.form
      BY <2>1, <2>2, <2>3 DEF FilingOK, Single
    <3> QED BY <1>2, <3>1, <3>2, <3>3, <3>4 DEF Single
  <2>9. Halving'
    <3>1. \A d \in filings' : d.n \in halved => d.st = "error"
      BY <1>1, <2>1, <2>2 DEF FilingOK, Halving
    <3>2. \A d \in filings', t \in tickets' : d.n = t.n /\ d.st = "opened" => t.closeNow /\ ~t.posted
      BY <1>1, <2>1, <2>2, <2>3, <2>6 DEF FilingOK, Halving
    <3> QED BY <1>2, <3>1, <3>2 DEF FilingOK, Halving
  <2>10. FiledOnce'
    BY <1>2, <2>1, <2>3, <2>7 DEF FilingOK, FiledRight, FiledOnce
  <2>11. FiledAsAsked'
    <3>1. \A t \in tickets : Halfway(t)' <=> Halfway(t)
      BY <1>1, <1>2, <2>1, <2>2 DEF Halfway
    <3>2. k.closeNow => Halfway(k)'
      BY <2>1, <2>2, <2>3 DEF Halfway
    <3> QED BY <2>1, <2>3, <3>1, <3>2 DEF FilingOK, FiledRight, FiledAsAsked
  <2> QED BY <2>4, <2>5, <2>8, <2>9, <2>10, <2>11 DEF FilingOK, FiledRight
<1> QED BY <1>3, <1>4

\* The second statement closes the ticket of its form.
LEMMA CloseFiledOK ==
    ASSUME Shared, Onward, FilingOK, NEW c \in filings, CloseFiled(c)
    PROVE  FilingOK'
<1> DEFINE F(t) == IF t.n = c.n THEN [t EXCEPT !.status = "closed"] ELSE t
<1>1. c \in FCall /\ c.st = "opened" /\ c.n \notin halved /\ \A d \in filings : d.n = c.n => d = c
  BY DEF CloseFiled, FilingOK, FilingTypes, Halving
<1>2. PICK e : e = [c EXCEPT !.st = "made"]
  OBVIOUS
<1>3. /\ filings' = (filings \ {c}) \cup {e} /\ tickets' = {F(t) : t \in tickets}
      /\ UNCHANGED <<client, filing, refiled, halved, denied>> /\ Number' = Number
  BY <1>2 DEF CloseFiled, Goes, Meanwhile, Number
<1>4. /\ e \in FCall /\ e.n = c.n /\ e.form = c.form /\ e.client = c.client /\ e.sub = c.sub /\ e.st = "made"
  BY <1>1, <1>2 DEF FCall, Steps
<1>5. ASSUME NEW t \in tickets
      PROVE  /\ F(t) \in Ticket /\ F(t).n = t.n /\ F(t).form = t.form /\ F(t).closeNow = t.closeNow
             /\ F(t).posted = t.posted
             /\ t.n = c.n => F(t).status = "closed" /\ t.closeNow /\ ~t.posted
             /\ t.n # c.n => F(t) = t
  <2>1. t \in Ticket /\ (t.n = c.n => t.closeNow /\ ~t.posted)
    BY <1>1 DEF FilingOK, FilingTypes, Halving
  <2>2. CASE t.n = c.n
    <3>1. PICK k : k = [t EXCEPT !.status = "closed"]
      OBVIOUS
    <3>2. /\ k \in Ticket /\ k.n = t.n /\ k.form = t.form /\ k.closeNow = t.closeNow /\ k.posted = t.posted
          /\ k.status = "closed"
      BY <2>1, <3>1 DEF Ticket
    <3>3. F(t) = k
      BY <2>2, <3>1
    <3> QED BY <2>1, <2>2, <3>2, <3>3, Zenon
  <2>3. CASE t.n # c.n
    BY <2>1, <2>3
  <2> QED BY <2>2, <2>3
<1> HIDE DEF F
<1>6. FilingTypes'
  <2>1. \A d \in filings' : d.n < Number /\ d.form <= d.n
    BY <1>3, <1>4 DEF FilingOK, FilingTypes
  <2>2. tickets' \subseteq Ticket /\ \A t \in tickets' : t.n < Number /\ t.form <= t.n
    BY <1>3, <1>5 DEF FilingOK, FilingTypes
  <2>3. \A d1, d2 \in filings' : d1.n = d2.n => d1 = d2
    BY <1>3, <1>4 DEF FilingOK, FilingTypes
  <2> QED BY <1>3, <1>4, <2>1, <2>2, <2>3 DEF FilingOK, FilingTypes
<1>7. Chosen'
  BY <1>3, <1>4 DEF FilingOK, Chosen
<1>8. Single'
  BY <1>1, <1>3, <1>4, <1>5 DEF FilingOK, Single
<1>9. Halving'
  <2>1. \A d \in filings', t \in tickets : d.n = F(t).n /\ d.st = "opened" => F(t).closeNow /\ ~F(t).posted
    BY <1>1, <1>3, <1>4, <1>5 DEF FilingOK, Halving
  <2> QED BY <1>1, <1>3, <1>4, <2>1 DEF FilingOK, Halving
<1>10. \A t \in tickets : Halfway(F(t))' <=> Halfway(t) /\ t.n # c.n
  <2> SUFFICES ASSUME NEW t \in tickets PROVE Halfway(F(t))' <=> Halfway(t) /\ t.n # c.n
    OBVIOUS
  <2>1. PICK k : k = F(t)
    OBVIOUS
  <2>2. Halfway(k)' <=> k.n \in halved \/ \E d \in filings' : d.n = k.n /\ d.st = "opened"
    BY <1>3 DEF Halfway
  <2> QED BY <1>1, <1>3, <1>4, <1>5, <2>1, <2>2 DEF Halfway
<1>11. FiledRight'
  BY <1>3, <1>5, <1>10 DEF FilingOK, FiledRight, FiledOnce, FiledAsAsked
<1> QED BY <1>6, <1>7, <1>8, <1>9, <1>11 DEF FilingOK

\* A message is posted to the ticket of its form, and reopens it.
LEMMA PostOK ==
    ASSUME Shared, Onward, FilingOK, NEW c \in filings, Post(c)
    PROVE  FilingOK'
<1> DEFINE F(t) == IF t.n = c.n THEN [t EXCEPT !.status = "open", !.posted = TRUE] ELSE t
<1>1. c \in FCall /\ c.st = "attach" /\ \A d \in filings : d.n = c.n => d = c
  BY DEF Post, FilingOK, FilingTypes
<1>2. PICK e : e = [c EXCEPT !.st = "attached"]
  OBVIOUS
<1>3. /\ filings' = (filings \ {c}) \cup {e} /\ tickets' = {F(t) : t \in tickets}
      /\ UNCHANGED <<client, filing, refiled, halved, denied>> /\ Number' = Number
  BY <1>2 DEF Post, Goes, Meanwhile, Number
<1>4. /\ e \in FCall /\ e.n = c.n /\ e.form = c.form /\ e.client = c.client /\ e.sub = c.sub /\ e.st = "attached"
  BY <1>1, <1>2 DEF FCall, Steps
<1>5. ASSUME NEW t \in tickets
      PROVE  /\ F(t) \in Ticket /\ F(t).n = t.n /\ F(t).form = t.form /\ F(t).closeNow = t.closeNow
             /\ t.n = c.n => F(t).status = "open" /\ F(t).posted
             /\ t.n # c.n => F(t) = t
  <2>1. t \in Ticket
    BY DEF FilingOK, FilingTypes
  <2>2. CASE t.n = c.n
    <3>1. PICK k : k = [t EXCEPT !.status = "open", !.posted = TRUE]
      OBVIOUS
    <3>2. /\ k \in Ticket /\ k.n = t.n /\ k.form = t.form /\ k.closeNow = t.closeNow /\ k.posted
          /\ k.status = "open"
      BY <2>1, <3>1 DEF Ticket
    <3>3. F(t) = k
      BY <2>2, <3>1
    <3> QED BY <2>2, <3>2, <3>3, Zenon
  <2>3. CASE t.n # c.n
    BY <2>1, <2>3
  <2> QED BY <2>2, <2>3
<1> HIDE DEF F
<1>6. FilingTypes'
  <2>1. \A d \in filings' : d.n < Number /\ d.form <= d.n
    BY <1>3, <1>4 DEF FilingOK, FilingTypes
  <2>2. tickets' \subseteq Ticket /\ \A t \in tickets' : t.n < Number /\ t.form <= t.n
    BY <1>3, <1>5 DEF FilingOK, FilingTypes
  <2>3. \A d1, d2 \in filings' : d1.n = d2.n => d1 = d2
    BY <1>3, <1>4 DEF FilingOK, FilingTypes
  <2> QED BY <1>3, <1>4, <2>1, <2>2, <2>3 DEF FilingOK, FilingTypes
<1>7. Chosen'
  BY <1>3, <1>4 DEF FilingOK, Chosen
<1>8. Single'
  BY <1>1, <1>3, <1>4, <1>5 DEF FilingOK, Single
<1>9. Halving'
  <2>1. \A d \in filings', t \in tickets : d.n = F(t).n /\ d.st = "opened" => F(t).closeNow /\ ~F(t).posted
    BY <1>1, <1>3, <1>4, <1>5 DEF FilingOK, Halving
  <2> QED BY <1>1, <1>3, <1>4, <2>1 DEF FilingOK, Halving
<1>10. \A t \in tickets : t.n # c.n => (Halfway(t)' <=> Halfway(t))
  BY <1>1, <1>3, <1>4 DEF Halfway
<1>11. FiledRight'
  BY <1>3, <1>5, <1>10 DEF FilingOK, FiledRight, FiledOnce, FiledAsAsked
<1> QED BY <1>6, <1>7, <1>8, <1>9, <1>11 DEF FilingOK

\* A step of the form keeps it.
LEMMA FilingNextOK == Shared /\ Onward /\ FilingOK /\ FilingNext => FilingOK'
<1> SUFFICES ASSUME Shared, Onward, FilingOK, FilingNext PROVE FilingOK'
  OBVIOUS
<1>1. Number \in Nat /\ filing \in Form /\ NoClient \notin Clients
  BY NumberGrows, Bounds DEF FilingOK, FilingTypes
<1>2. ASSUME OpenFiling PROVE FilingOK'
  <2>1. /\ filing' = [NoFiling EXCEPT !.n = Number] /\ filings' = filings
        /\ UNCHANGED <<tickets, refiled, halved, denied>>
    BY <1>2 DEF OpenFiling
  <2>2. filing' \in Form /\ filing'.n = Number /\ filing'.client = NoClient
    BY <1>1, <2>1 DEF NoFiling, Form
  <2> QED BY <2>1, <2>2, FillingOK
<1>3. ASSUME CloseFiling PROVE FilingOK'
  <2>1. filing' = NoFiling /\ filings' = filings /\ UNCHANGED <<tickets, refiled, halved, denied>>
    BY <1>3 DEF CloseFiling
  <2>2. filing' \in Form /\ filing'.n = 0 /\ filing'.client = NoClient
    BY <2>1 DEF NoFiling, Form
  <2> QED BY <2>1, <2>2, FillingOK
<1>4. ASSUME NEW c \in Clients, PickFor(c) PROVE FilingOK'
  <2>1. /\ filing' = [filing EXCEPT !.client = c, !.sub = NoClient] /\ filings' = filings
        /\ UNCHANGED <<tickets, refiled, halved, denied>> /\ roster[c] = "active"
    BY <1>4 DEF PickFor, Picked, Offered
  <2>2. filing' \in Form /\ filing'.n = filing.n /\ filing'.client = c /\ filing'.sub = NoClient
    BY <1>1, <2>1 DEF Form
  <2>3. client[c] # "none"
    BY <2>1 DEF Shared
  <2> QED BY <2>1, <2>2, <2>3, FillingOK
<1>5. ASSUME Unpick PROVE FilingOK'
  <2>1. /\ filing' = [filing EXCEPT !.client = NoClient] /\ filings' = filings
        /\ UNCHANGED <<tickets, refiled, halved, denied>>
    BY <1>5 DEF Unpick
  <2>2. filing' \in Form /\ filing'.n = filing.n /\ filing'.client = NoClient
    BY <1>1, <2>1 DEF Form
  <2> QED BY <2>1, <2>2, FillingOK
<1>6. ASSUME PickSub PROVE FilingOK'
  <2>1. /\ filing' = [filing EXCEPT !.sub = IF filing.sub = NoClient THEN filing.client ELSE NoClient]
        /\ filings' = filings /\ UNCHANGED <<tickets, refiled, halved, denied>>
    BY <1>6 DEF PickSub
  <2>2. /\ filing' \in Form /\ filing'.n = filing.n /\ filing'.client = filing.client
        /\ filing'.sub \in {NoClient, filing'.client}
    BY <1>1, <2>1 DEF Form
  <2> QED BY <2>1, <2>2, FillingOK DEF FilingOK, Chosen
<1>7. ASSUME NEW closeNow \in CloseNow, FileTicket(closeNow) PROVE FilingOK'
  BY <1>7, FileTicketOK DEF CloseNow
<1>8. ASSUME NEW c \in filings, FilingFails(c) PROVE FilingOK'
  <2>1. c.st = "sent" => \A t \in tickets : t.n # c.n
    BY DEF FilingOK, Single
  <2>2. /\ filings' = (filings \ {c}) \cup {[c EXCEPT !.st = IF c.st = "attach" THEN "attached" ELSE "error"]}
        /\ UNCHANGED <<tickets, filing, denied>> /\ c.st \in {"sent", "opened", "made", "attach"}
        /\ IF c.st = "opened" THEN halved' = halved \cup {c.n} ELSE UNCHANGED halved
        /\ refiled \subseteq refiled' /\ (c.st \in {"opened", "made"} => c.form \in refiled')
    BY <1>8 DEF FilingFails, Goes
  <2>3. CASE c.st = "attach"
    BY <1>1, <2>2, <2>3, GoesOK DEF Steps
  <2>4. CASE c.st # "attach"
    BY <1>1, <2>1, <2>2, <2>4, GoesOK DEF Steps
  <2> QED BY <2>3, <2>4
<1>9. ASSUME NEW c \in filings, NEW phase \in {"idle", "filing", "stamping", "filed"}
      PROVE  /\ Phase(c, phase) \in Form /\ Phase(c, phase).n = filing.n
             /\ Phase(c, phase).client = filing.client /\ Phase(c, phase).sub = filing.sub
  BY <1>1 DEF Phase, Form
<1>10. ASSUME NEW c \in filings, Fly(c) PROVE FilingOK'
  <2>1. /\ filings' = (filings \ {c}) \cup {[c EXCEPT !.st = "fly"]} /\ filing' = Phase(c, "filed")
        /\ c.st = "stamp" /\ UNCHANGED <<tickets, refiled, halved, denied>>
    BY <1>10 DEF Fly, Goes
  <2> QED BY <1>9, <2>1, GoesOK DEF Steps
<1>11. ASSUME NEW c \in filings, FilingAnswer(c) PROVE FilingOK'
  <2>1. UNCHANGED <<tickets, refiled, halved, denied>>
    BY <1>11 DEF FilingAnswer
  <2>2. CASE c.st = "error" /\ filings' = filings \ {c} /\ filing' = Phase(c, "idle")
    <3>1. \A d \in filings \ filings' : d = c /\ d.st # "opened"
      BY <2>2
    <3>2. c.form \in refiled \/ \A t \in tickets : t.form # c.form
      BY <2>2 DEF FilingOK, Single
    <3>3. /\ filing' \in Form /\ filing'.n = filing.n /\ filing'.client = filing.client
          /\ filing'.sub = filing.sub
      BY <1>9, <2>2
    <3> QED BY <2>1, <2>2, <3>1, <3>2, <3>3, FillingOK DEF FilingOK, Chosen
  <2>3. ASSUME NEW s \in {"attach", "stamp"}, c.st \in {"made", "attached"}, Goes(c, s), filing' \in {filing, Phase(c, "stamping")}
        PROVE  FilingOK'
    <3>1. /\ filing' \in Form /\ filing'.n = filing.n /\ filing'.client = filing.client
          /\ filing'.sub = filing.sub
      BY <1>1, <1>9, <2>3
    <3> QED BY <2>1, <2>3, <3>1, GoesOK DEF Goes, Steps
  <2> QED BY <1>11, <2>2, <2>3 DEF FilingAnswer
<1> QED BY <1>2, <1>3, <1>4, <1>5, <1>6, <1>7, <1>8, <1>10, <1>11, ServeFilingOK, CloseFiledOK,
   PostOK DEF FilingNext

\* And so does every step of the desk.
LEMMA FilingStep == Shared /\ FilingOK /\ [Next]_vars => FilingOK'
<1> SUFFICES ASSUME Shared, FilingOK, [Next]_vars PROVE FilingOK'
  OBVIOUS
<1>1. Onward
  BY SharedStep
<1>2. NoFiling \in Form /\ NoFiling.n = 0 /\ NoFiling.client = NoClient
  BY DEF NoFiling, Form
<1>3. ASSUME filing' = NoFiling, filings' \subseteq filings, \A c \in filings \ filings' : c.st # "opened",
             UNCHANGED <<tickets, refiled, halved, denied>>
      PROVE  FilingOK'
  <2>1. \A c \in filings : c.form # 0
    BY DEF FilingOK, FilingTypes, FCall
  <2>2. \A c \in filings \ filings' : filing'.n # filing.n \/ c.form # filing.n
    BY <1>2, <1>3, <2>1
  <2> QED BY <1>1, <1>2, <1>3, <2>2, FillingOK
<1>4. CASE UNCHANGED filingVars
  <2>1. filing' = filing /\ filings' = filings /\ UNCHANGED <<tickets, refiled, halved, denied>>
    BY <1>4 DEF filingVars
  <2> QED BY <1>1, <2>1, FillingOK DEF FilingOK, FilingTypes, Chosen
<1>5. ASSUME NEW p \in PageNames, Go(p) PROVE FilingOK'
  BY <1>3, <1>5 DEF Go, FilingLeft
<1>6. ASSUME NEW c \in filings, Land(c) PROVE FilingOK'
  <2>1. /\ filing' = NoFiling /\ filings' = filings \ {c} /\ c.st = "fly"
        /\ UNCHANGED <<tickets, refiled, halved, denied>>
    BY <1>6 DEF Land
  <2> QED BY <1>3, <2>1
<1> QED BY <1>1, <1>4, <1>5, <1>6, FilingNextOK DEF Next, vars

-----------------------------------------------------------------------------
(* The theorems *)

\* All of it together, an inductive invariant.
IInv == Shared /\ InvoicesOK /\ RosterOK /\ FilingOK /\ FormsKept

\* No step takes a form away but in the ways FormsKept names.
LEMMA FormsStep == InvoicesOK /\ RosterOK /\ FormsKept /\ [Next]_vars => FormsKept'
<1> SUFFICES ASSUME InvoicesOK, RosterOK, FormsKept, [Next]_vars, NEW s \in shut', s \notin shut
             PROVE  s.ok /\ (s.own \/ s.lost = s.by \/ s.by = "filing")
  BY DEF FormsKept
<1>1. ASSUME NEW c \in invCalls, InvoiceAnswer(c) PROVE s.ok /\ s.lost = s.by
  <2>1. ASSUME c.st # "ok" PROVE FALSE
    <3>1. newForm' = newForm /\ editForm' = editForm
      BY <1>1, <2>1 DEF InvoiceAnswer, Closes
    <3> QED BY <1>1, <3>1 DEF InvoiceAnswer
  <2>2. PICK f : s = Closing(c.kind, c.kind, c.form = f, c.st = "ok")
    BY <1>1 DEF InvoiceAnswer
  <2> QED BY <2>1, <2>2 DEF Closing
<1>2. ASSUME NEW c \in rosterCalls, RosterAnswer(c) PROVE s.ok /\ s.lost = s.by
  <2>1. newClient' # newClient /\ s = Closing("admit", "admit", c.form = newClient.n, c.st = "ok")
    BY <1>2 DEF RosterAnswer
  <2>2. c.st = "ok"
    BY <1>2, <2>1 DEF RosterAnswer
  <2> QED BY <2>1, <2>2 DEF Closing
<1>3. ASSUME NEW c \in filings, Land(c) PROVE s.ok /\ s.by = "filing"
  BY <1>3 DEF Land, Closing
<1>4. UNCHANGED shut \/ (\E c \in invCalls : InvoiceAnswer(c)) \/ (\E c \in rosterCalls : RosterAnswer(c))
      \/ \E c \in filings : Land(c)
  <2>1. InvoicesNext => UNCHANGED shut \/ \E c \in invCalls : InvoiceAnswer(c)
    BY DEF InvoicesNext, OpenNew, CloseInvoiceForm, SubmitNew, SubmitEdit, ReadInvoices, PickClient, OpenEdit,
       SetStatus, Delete, ListDue, Recur, SomebodyEdits, Create, Destroy, Find, Update, InvoiceFails, Meanwhile,
       Move, Ask, Fault
  <2>2. RosterNext => UNCHANGED shut \/ \E c \in rosterCalls : RosterAnswer(c)
    BY DEF RosterNext, Regenerate, CloseModal, OpenAdmit, CancelAdmit, Admit, RequestLink, RowAction, ServeRoster,
       MakeLink, RosterFails, Meanwhile, Move, Ask, Fault
  <2>3. FilingNext => UNCHANGED shut
    BY DEF FilingNext, OpenFiling, CloseFiling, Unpick, PickSub, PickFor, FileTicket, ServeFiling, CloseFiled,
       Post, FilingFails, FilingAnswer, Fly, Meanwhile, Move, Ask, Fault
  <2>4. (ReadRoster \/ \E c \in Clients : SomebodyArchives(c)) => UNCHANGED shut
    BY DEF ReadRoster, SomebodyArchives, Meanwhile, Fault
  <2>5. (\E p \in PageNames : Go(p)) \/ UNCHANGED vars => UNCHANGED shut
    BY DEF Go, vars, pageVars
  <2> QED BY <2>1, <2>2, <2>3, <2>4, <2>5 DEF Next
<1> QED BY <1>1, <1>2, <1>3, <1>4

\* The pages open so.
LEMMA IInvInit == Init => IInv
<1>1. Init => FormsKept
  BY DEF Init, PagesInit, FormsKept
<1> QED BY <1>1, SharedInit, InvoicesInitOK, RosterInitOK, FilingInitOK DEF IInv

\* It holds of every reachable state.
THEOREM Invariance == Spec => []IInv
<1>1. IInv /\ [Next]_vars => IInv'
  BY SharedStep, InvoicesStep, RosterStep, FilingStep, FormsStep DEF IInv
<1> QED BY IInvInit, <1>1, PTL DEF Spec

\* No request of the page puts a value back but as ChangesKept allows: no edit
\* form undoes a status, or what it saved itself, or what it was opened with.
THEOREM ChangesKeptHolds == Spec => []ChangesKept
<1>1. IInv => ChangesKept
  BY DEF IInv, InvoicesOK
<1> QED BY Invariance, <1>1, PTL

\* The link in the window is its client's, unless it was overtaken.
THEOREM LinkRightHolds == Spec => []LinkRight
<1>1. IInv => LinkRight
  BY LinkFollows DEF IInv
<1> QED BY Invariance, <1>1, PTL

\* One form files one ticket, as it was asked for.
THEOREM FiledRightHolds == Spec => []FiledRight
<1>1. IInv => FiledRight
  BY DEF IInv, FilingOK
<1> QED BY Invariance, <1>1, PTL

\* Types, and that forms are kept.
THEOREM InvHolds == Spec => []Inv
<1>1. IInv => Inv
  <2> SUFFICES ASSUME IInv PROVE Inv
    OBVIOUS
  <2>1. InvoicesTypeOK
    <3>1. InvoiceTypes
      BY DEF IInv, InvoicesOK
    <3>2. ASSUME NEW c \in invCalls PROVE c.st \in {"sent", "read", "ok", "error"} /\ c.row \in Invoice
      BY <3>1 DEF InvoiceTypes, Carried, InvCall
    <3> QED BY <3>1, <3>2 DEF InvoiceTypes, InvoicesTypeOK
  <2>2. RosterTypeOK
    BY DEF IInv, Shared, RosterOK, RosterTypeOK, RCall
  <2>3. FilingTypeOK
    BY DEF IInv, FilingOK, FilingTypes, FilingTypeOK, FCall, Ticket
  <2> QED BY <2>1, <2>2, <2>3 DEF IInv, Shared, Inv, TypeOK
<1> QED BY Invariance, <1>1, PTL


-----------------------------------------------------------------------------
(* The ticket list *)

\* The types, with the fields of the batch and the cache.
QueueTyped ==
    /\ QueueTypeOK
    /\ cache \in [PageNumbers -> Page]
    /\ bulk \in [on: BOOLEAN, here: BOOLEAN, ids: SUBSET TicketIds, done: SUBSET TicketIds]
    /\ answered \subseteq TicketIds

\* The close of a ticket is due, under way or answered, by a swipe: what a batch has
\* under way for the same ticket ends with the batch.
BeingClosed(i) ==
    \/ \E s \in swipes : s.id = i /\ s.armed
    \/ \E c \in calls : c.id = i /\ c.kind = "close" /\ c.from = "row"
    \/ i \in answered

HiddenOK == \A i \in flung : BeingClosed(i)

\* closeTimer.current is a timer of a row still mounted, and no timer Undo has stopped.
TimersOK ==
    \A s \in swipes : /\ s.armed /\ s.latest => s.alive
                      /\ s.undone /\ s.armed => ~s.latest

\* While a batch is on, each of its tickets is changed or has its request under way
\* or refused.
BatchOK ==
    /\ bulk.on => \A i \in bulk.ids :
         i \in bulk.done \/ \E c \in calls : c.id = i /\ c.from = "bulk" /\ c.st # "ok"
    /\ BulkTruthful

QueueIInv == QueueTyped /\ HiddenOK /\ TimersOK /\ BatchOK

-----------------------------------------------------------------------------
\* What the forms of a swipe are.
LEMMA SwipeForm ==
    ASSUME NEW s \in Swipe, NEW a \in BOOLEAN, NEW l \in BOOLEAN, NEW v \in BOOLEAN,
           NEW t \in BOOLEAN, NEW u \in BOOLEAN
    PROVE  /\ s.armed \in BOOLEAN /\ s.latest \in BOOLEAN /\ s.alive \in BOOLEAN
           /\ s.toast \in BOOLEAN /\ s.undone \in BOOLEAN /\ s.id \in TicketIds
           /\ [s EXCEPT !.armed = a, !.alive = v] \in Swipe
           /\ [s EXCEPT !.latest = l] \in Swipe
           /\ [s EXCEPT !.armed = a] \in Swipe
           /\ [s EXCEPT !.armed = a, !.toast = t, !.undone = u] \in Swipe
<1>1. s.armed \in BOOLEAN /\ s.latest \in BOOLEAN /\ s.alive \in BOOLEAN
      /\ s.toast \in BOOLEAN /\ s.undone \in BOOLEAN /\ s.id \in TicketIds
  BY DEF Swipe
<1>2. [s EXCEPT !.armed = a, !.alive = v] \in Swipe
  BY DEF Swipe
<1>3. [s EXCEPT !.latest = l] \in Swipe /\ [s EXCEPT !.armed = a] \in Swipe
  BY DEF Swipe
<1>4. [s EXCEPT !.armed = a, !.toast = t, !.undone = u] \in Swipe
  BY DEF Swipe
<1> QED BY <1>1, <1>2, <1>3, <1>4

\* Unmounting rows: the swipes of others stay, and the ones that are cut off have
\* no timer that would be the row's.
LEMMA CleanupOK ==
    ASSUME swipes \subseteq Swipe, TimersOK, NEW gone
    PROVE  /\ Cleanup(gone) \subseteq Swipe
           /\ \A s \in swipes : s.armed /\ s.id \notin gone => s \in Cleanup(gone)
           /\ \A s \in Cleanup(gone) : /\ s.armed /\ s.latest => s.alive
                                       /\ s.undone /\ s.armed => ~s.latest
<1> DEFINE cut(s) == [s EXCEPT !.armed = s.armed /\ ~s.latest, !.alive = FALSE]
           rest(s) == IF s.alive /\ s.id \in gone THEN cut(s) ELSE s
<1>1. ASSUME NEW s \in swipes
      PROVE  /\ cut(s) \in Swipe /\ cut(s).armed = (s.armed /\ ~s.latest)
             /\ cut(s).latest = s.latest /\ cut(s).undone = s.undone
  <2>1. s \in Swipe /\ s.armed \in BOOLEAN /\ s.latest \in BOOLEAN
    BY DEF Swipe
  <2>2. (s.armed /\ ~s.latest) \in BOOLEAN /\ FALSE \in BOOLEAN
    OBVIOUS
  <2>3. \A a \in BOOLEAN, v \in BOOLEAN : [s EXCEPT !.armed = a, !.alive = v] \in Swipe
    BY <2>1, SwipeForm
  <2>4. cut(s) \in Swipe
    BY <2>2, <2>3
  <2>5. cut(s).armed = (s.armed /\ ~s.latest) /\ cut(s).latest = s.latest /\ cut(s).undone = s.undone
    BY <2>1 DEF Swipe
  <2> QED BY <2>4, <2>5
<1> HIDE DEF cut
<1>2. Cleanup(gone) = {r \in {rest(s) : s \in swipes} : r.armed \/ r.toast}
  BY DEF Cleanup, Kept, cut
<1>3. \A r \in Cleanup(gone) : \E s \in swipes : r = s \/ r = cut(s)
  BY <1>2
<1>4. Cleanup(gone) \subseteq Swipe
  BY <1>1, <1>3
<1>5. ASSUME NEW s \in swipes, s.armed, s.id \notin gone PROVE s \in Cleanup(gone)
  <2>1. rest(s) = s
    BY <1>5
  <2> QED BY <1>2, <1>5, <2>1
<1>6. \A s \in Cleanup(gone) : /\ s.armed /\ s.latest => s.alive
                               /\ s.undone /\ s.armed => ~s.latest
  BY <1>1, <1>3 DEF TimersOK
<1> QED BY <1>4, <1>5, <1>6

\* The list changes on screen: rows that go take their timers and their place with them.
LEMMA GoneOK ==
    ASSUME QueueIInv, NEW gone, swipes' = Cleanup(gone), flung' \subseteq flung \ gone,
           UNCHANGED <<calls, answered>>
    PROVE  swipes' \subseteq Swipe /\ flung' \subseteq TicketIds /\ HiddenOK' /\ TimersOK'
<1>1. swipes \subseteq Swipe /\ flung \subseteq TicketIds /\ TimersOK /\ HiddenOK
  BY DEF QueueIInv, QueueTyped, QueueTypeOK
<1>2. swipes' \subseteq Swipe /\ TimersOK'
  BY <1>1, CleanupOK DEF TimersOK
<1>3. ASSUME NEW i \in flung' PROVE BeingClosed(i)'
  <2>1. i \in flung /\ i \notin gone
    OBVIOUS
  <2>2. BeingClosed(i)
    BY <1>1, <2>1 DEF HiddenOK
  <2>3. \A s \in swipes : s.id = i /\ s.armed => s \in swipes'
    BY <1>1, <2>1, CleanupOK
  <2> QED BY <2>2, <2>3 DEF BeingClosed
<1> QED BY <1>1, <1>2, <1>3 DEF HiddenOK

\* What the rows, their requests and the batch keep.
Swiping ==
    /\ swipes \subseteq Swipe /\ flung \subseteq TicketIds /\ calls \subseteq Call
    /\ bulk \in [on: BOOLEAN, here: BOOLEAN, ids: SUBSET TicketIds, done: SUBSET TicketIds]
    /\ answered \subseteq TicketIds
    /\ HiddenOK /\ TimersOK /\ BatchOK

LEMMA SwipingHolds == QueueIInv => Swiping
BY DEF QueueIInv, QueueTyped, QueueTypeOK, Swiping

LEMMA QuietOK ==
    ASSUME QueueIInv, UNCHANGED <<swipes, flung, calls, bulk, answered>>
    PROVE  Swiping'
BY SwipingHolds DEF Swiping, HiddenOK, BeingClosed, TimersOK, BatchOK, BulkTruthful

\* Batches look at the batch's requests only.
LEMMA BatchKept ==
    ASSUME QueueIInv, bulk'.on = bulk.on, bulk'.ids = bulk.ids, bulk'.done = bulk.done,
           \A c \in calls : c.from = "bulk" => c \in calls'
    PROVE  BatchOK'
BY DEF QueueIInv, BatchOK, BulkTruthful

LEMMA LeavingOK ==
    ASSUME QueueIInv, NEW gone, swipes' = Cleanup(gone), flung' \subseteq flung \ gone,
           UNCHANGED <<calls, answered>>,
           bulk' = bulk \/ bulk' = [bulk EXCEPT !.here = FALSE]
    PROVE  Swiping'
<1>1. swipes' \subseteq Swipe /\ flung' \subseteq TicketIds /\ HiddenOK' /\ TimersOK'
  BY GoneOK
<1>2. bulk \in [on: BOOLEAN, here: BOOLEAN, ids: SUBSET TicketIds, done: SUBSET TicketIds]
  BY DEF QueueIInv, QueueTyped
<1>3. bulk' \in [on: BOOLEAN, here: BOOLEAN, ids: SUBSET TicketIds, done: SUBSET TicketIds]
      /\ bulk'.on = bulk.on /\ bulk'.ids = bulk.ids /\ bulk'.done = bulk.done
  BY <1>2
<1>4. BatchOK'
  BY <1>3, BatchKept
<1> QED BY <1>1, <1>3, <1>4, SwipingHolds DEF Swiping

LEMMA ShowOK ==
    ASSUME QueueIInv, NEW d, NEW f, Show(d, f), UNCHANGED <<calls, bulk, answered>>
    PROVE  Swiping'
<1> DEFINE gone == Mounted \ Rows(d, f)
<1>1. swipes' = Cleanup(gone) /\ flung' \subseteq flung \ gone
  BY DEF Show
<1> QED BY <1>1, LeavingOK

\* A request that is added, and one that is answered for a page of the application.
LEMMA AddedOK ==
    ASSUME QueueIInv, NEW new \in SUBSET Call, calls' = calls \cup new,
           UNCHANGED <<swipes, flung, bulk, answered>>
    PROVE  Swiping'
<1>1. BatchOK'
  BY BatchKept
<1>2. HiddenOK' /\ TimersOK'
  BY SwipingHolds DEF Swiping, HiddenOK, BeingClosed, TimersOK
<1> QED BY <1>1, <1>2, SwipingHolds DEF Swiping

LEMMA SwipeAckOK ==
    ASSUME QueueIInv, NEW i \in TicketIds, SwipeAck(i)
    PROVE  Swiping'
<1> DEFINE new == {[id |-> i, kind |-> "ack", from |-> "row", st |-> "sent"]}
<1>1. new \in SUBSET Call
  BY DEF Call
<1>2. calls' = calls \cup new
  BY DEF SwipeAck
<1> HIDE DEF new
<1> QED BY <1>1, <1>2, AddedOK DEF SwipeAck

LEMMA SwipeResolveOK ==
    ASSUME QueueIInv, NEW i \in TicketIds, NEW n \in 1..MaxSwipes, SwipeResolve(i, n)
    PROVE  Swiping'
<1> DEFINE older(s) == [s EXCEPT !.latest = s.latest /\ ~(s.alive /\ s.id = i)]
           new == [id |-> i, n |-> n, armed |-> TRUE, latest |-> TRUE, alive |-> TRUE,
                   toast |-> TRUE, undone |-> FALSE]
<1>t. swipes \subseteq Swipe /\ HiddenOK /\ TimersOK
  BY SwipingHolds DEF Swiping
<1>1. new \in Swipe /\ new.armed /\ new.latest /\ new.alive /\ ~new.undone /\ new.id = i
  BY DEF Swipe
<1>2. ASSUME NEW s \in swipes
      PROVE  /\ older(s) \in Swipe /\ older(s).armed = s.armed /\ older(s).alive = s.alive
             /\ older(s).undone = s.undone /\ older(s).id = s.id
             /\ older(s).latest => s.latest
  <2>1. s \in Swipe /\ s.latest \in BOOLEAN
    BY <1>t DEF Swipe
  <2>2. (s.latest /\ ~(s.alive /\ s.id = i)) \in BOOLEAN
    OBVIOUS
  <2>3. \A l \in BOOLEAN : [s EXCEPT !.latest = l] \in Swipe
    BY <2>1, SwipeForm
  <2>4. older(s) \in Swipe
    BY <2>2, <2>3
  <2>5. older(s).armed = s.armed /\ older(s).alive = s.alive /\ older(s).undone = s.undone
        /\ older(s).id = s.id /\ older(s).latest = (s.latest /\ ~(s.alive /\ s.id = i))
    BY <2>1 DEF Swipe
  <2> QED BY <2>4, <2>5
<1>3. swipes' = {older(s) : s \in swipes} \cup {new} /\ flung' = flung \cup {i}
      /\ answered' = answered \ {i} /\ calls' = calls /\ bulk' = bulk
  BY DEF SwipeResolve
<1> HIDE DEF older, new
<1>4. swipes' \subseteq Swipe /\ flung' \subseteq TicketIds /\ answered' \subseteq TicketIds
  BY <1>1, <1>2, <1>3, SwipingHolds DEF Swiping
<1>5. TimersOK'
  BY <1>t, <1>1, <1>2, <1>3 DEF TimersOK
<1>6. HiddenOK'
  <2>1. BeingClosed(i)'
    BY <1>1, <1>3 DEF BeingClosed
  <2>2. ASSUME NEW j \in flung, j # i PROVE BeingClosed(j)'
    <3>1. BeingClosed(j)
      BY <1>t DEF HiddenOK
    <3> QED BY <1>2, <1>3, <2>2, <3>1 DEF BeingClosed
  <2> QED BY <1>3, <2>1, <2>2 DEF HiddenOK
<1>7. BatchOK'
  BY <1>3, BatchKept
<1> QED BY <1>3, <1>4, <1>5, <1>6, <1>7, SwipingHolds DEF Swiping

LEMMA UndoOK ==
    ASSUME QueueIInv, NEW s \in swipes, Undo(s)
    PROVE  Swiping'
<1> DEFINE upd(q) == [q EXCEPT !.armed = q.armed /\ q \notin Stopped(s),
                               !.toast = q.toast /\ q # s,
                               !.undone = q.undone \/ q = s]
<1>t. swipes \subseteq Swipe /\ flung \subseteq TicketIds /\ HiddenOK /\ TimersOK
  BY SwipingHolds DEF Swiping
<1>2. ASSUME NEW q \in swipes
      PROVE  /\ upd(q) \in Swipe /\ upd(q).armed = (q.armed /\ q \notin Stopped(s))
             /\ upd(q).alive = q.alive /\ upd(q).latest = q.latest /\ upd(q).id = q.id
             /\ upd(q).undone = (q.undone \/ q = s)
  <2>1. q \in Swipe
    BY <1>t
  <2>2. /\ (q.armed /\ q \notin Stopped(s)) \in BOOLEAN /\ (q.toast /\ q # s) \in BOOLEAN
        /\ (q.undone \/ q = s) \in BOOLEAN
    OBVIOUS
  <2>3. \A a \in BOOLEAN, t \in BOOLEAN, u \in BOOLEAN :
          [q EXCEPT !.armed = a, !.toast = t, !.undone = u] \in Swipe
    BY <2>1, SwipeForm
  <2>4. upd(q) \in Swipe
    BY <2>2, <2>3
  <2>5. /\ upd(q).armed = (q.armed /\ q \notin Stopped(s))
        /\ upd(q).alive = q.alive /\ upd(q).latest = q.latest /\ upd(q).id = q.id
        /\ upd(q).undone = (q.undone \/ q = s)
    BY <2>1 DEF Swipe
  <2> QED BY <2>4, <2>5
<1>3. swipes' = {r \in {upd(q) : q \in swipes} : r.armed \/ r.toast} /\ flung' = Restore(s)
      /\ calls' = calls /\ bulk' = bulk /\ answered' = answered
  BY DEF Undo, Kept
<1> HIDE DEF upd
<1>4. swipes' \subseteq Swipe /\ flung' \subseteq flung
  BY <1>2, <1>3 DEF Restore
<1>5. TimersOK'
  <2> SUFFICES ASSUME NEW r \in swipes'
               PROVE  /\ r.armed /\ r.latest => r.alive
                      /\ r.undone /\ r.armed => ~r.latest
    BY DEF TimersOK
  <2>1. PICK q \in swipes : r = upd(q)
    BY <1>3
  <2>2. r.armed /\ r.latest => r.alive
    BY <1>t, <1>2, <2>1 DEF TimersOK
  <2>3. CASE q = s
    <3>1. s.armed /\ s.latest => s \in Stopped(s)
      BY <1>t DEF TimersOK, Stopped
    <3> QED BY <1>2, <2>1, <2>2, <2>3, <3>1
  <2>4. CASE q # s
    BY <1>t, <1>2, <2>1, <2>2, <2>4 DEF TimersOK
  <2> QED BY <2>3, <2>4
<1>6. HiddenOK'
  <2> SUFFICES ASSUME NEW i \in flung' PROVE BeingClosed(i)'
    BY DEF HiddenOK
  <2>1. i \in flung /\ BeingClosed(i) /\ ~(s.alive /\ s.id = i)
    BY <1>t, <1>3 DEF HiddenOK, Restore
  <2>2. \A q \in swipes : q.id = i => q \notin Stopped(s)
    BY <2>1 DEF Stopped
  <2>3. \A q \in swipes : q.id = i /\ q.armed => upd(q) \in swipes' /\ upd(q).id = i /\ upd(q).armed
    BY <1>2, <1>3, <2>2
  <2> QED BY <1>3, <2>1, <2>3 DEF BeingClosed
<1>7. BatchOK'
  BY <1>3, BatchKept
<1> QED BY <1>t, <1>3, <1>4, <1>5, <1>6, <1>7, SwipingHolds DEF Swiping

LEMMA FireOK ==
    ASSUME QueueIInv, NEW s \in swipes, Fire(s)
    PROVE  Swiping'
<1> DEFINE upd(q) == IF q = s THEN [q EXCEPT !.armed = FALSE] ELSE q
           sent == [id |-> s.id, kind |-> "close", from |-> "row", st |-> "sent"]
<1>t. swipes \subseteq Swipe /\ HiddenOK /\ TimersOK /\ calls \subseteq Call
  BY SwipingHolds DEF Swiping
<1>1. ASSUME NEW q \in swipes
      PROVE  /\ upd(q) \in Swipe /\ upd(q).armed = (q.armed /\ q # s)
             /\ upd(q).alive = q.alive /\ upd(q).latest = q.latest /\ upd(q).undone = q.undone
  <2>1. q \in Swipe /\ q.armed \in BOOLEAN
    BY <1>t DEF Swipe
  <2>2. CASE q = s
    <3>1. FALSE \in BOOLEAN
      OBVIOUS
    <3>2. \A a \in BOOLEAN : [q EXCEPT !.armed = a] \in Swipe
      BY <2>1, SwipeForm
    <3>3. upd(q) \in Swipe
      BY <2>2, <3>1, <3>2
    <3>4. upd(q).armed = FALSE /\ upd(q).alive = q.alive /\ upd(q).latest = q.latest
          /\ upd(q).undone = q.undone
      BY <2>1, <2>2 DEF Swipe
    <3> QED BY <2>2, <3>3, <3>4
  <2>3. CASE q # s
    BY <2>1, <2>3
  <2> QED BY <2>2, <2>3
<1>2. swipes' = {r \in {upd(q) : q \in swipes} : r.armed \/ r.toast} /\ calls' = calls \cup {sent}
      /\ flung' = flung /\ bulk' = bulk /\ answered' = answered
  BY DEF Fire, Kept
<1>3. sent \in Call /\ sent.id = s.id /\ sent.kind = "close" /\ sent.from = "row"
  BY <1>t DEF Call, Swipe
<1>4. \A q \in swipes : q # s => upd(q) = q
  OBVIOUS
<1> HIDE DEF upd, sent
<1>5. swipes' \subseteq Swipe /\ calls' \subseteq Call
  BY <1>t, <1>1, <1>2, <1>3
<1>6. TimersOK'
  <2> SUFFICES ASSUME NEW r \in swipes'
               PROVE  /\ r.armed /\ r.latest => r.alive
                      /\ r.undone /\ r.armed => ~r.latest
    BY DEF TimersOK
  <2>1. PICK q \in swipes : r = upd(q)
    BY <1>2
  <2> QED BY <1>t, <1>1, <2>1 DEF TimersOK
<1>7. HiddenOK'
  <2> SUFFICES ASSUME NEW i \in flung PROVE BeingClosed(i)'
    BY <1>2 DEF HiddenOK
  <2>1. BeingClosed(i)
    BY <1>t DEF HiddenOK
  <2>2. CASE s.id = i
    BY <1>2, <1>3, <2>2 DEF BeingClosed
  <2>3. CASE s.id # i
    <3>1. \A q \in swipes : q.id = i /\ q.armed => q \in swipes'
      BY <1>2, <1>4, <2>3
    <3> QED BY <1>2, <2>1, <3>1 DEF BeingClosed
  <2> QED BY <2>2, <2>3
<1>8. BatchOK'
  BY <1>2, BatchKept
<1> QED BY <1>2, <1>5, <1>6, <1>7, <1>8, SwipingHolds DEF Swiping

LEMMA ToastGoneOK ==
    ASSUME QueueIInv, NEW s \in swipes, ToastGone(s)
    PROVE  Swiping'
<1>1. swipes' = swipes \ {s} /\ ~s.armed /\ UNCHANGED <<flung, calls, bulk, answered>>
  BY DEF ToastGone
<1>2. HiddenOK'
  BY <1>1, SwipingHolds DEF Swiping, HiddenOK, BeingClosed
<1>3. TimersOK'
  BY <1>1, SwipingHolds DEF Swiping, TimersOK
<1>4. BatchOK'
  BY <1>1, BatchKept
<1> QED BY <1>1, <1>2, <1>3, <1>4, SwipingHolds DEF Swiping

-----------------------------------------------------------------------------
LEMMA ServeOK ==
    ASSUME QueueIInv, NEW c \in calls, Serve(c)
    PROVE  Swiping' /\ status' \in [TicketIds -> Statuses \cup {"none", "deleted"}]
<1> DEFINE ok == Allowed(c.id, c.kind)
           done == [c EXCEPT !.st = IF ok THEN "ok" ELSE "error"]
<1>t. /\ calls \subseteq Call /\ HiddenOK /\ TimersOK /\ BatchOK
      /\ bulk \in [on: BOOLEAN, here: BOOLEAN, ids: SUBSET TicketIds, done: SUBSET TicketIds]
      /\ status \in [TicketIds -> Statuses \cup {"none", "deleted"}]
  BY SwipingHolds DEF Swiping, QueueIInv, QueueTyped, QueueTypeOK
<1>1. c \in Call /\ c.id \in TicketIds
  BY <1>t DEF Call
<1>2. done \in Call /\ done.id = c.id /\ done.kind = c.kind /\ done.from = c.from
      /\ done.st = IF ok THEN "ok" ELSE "error"
  BY <1>1 DEF Call
<1>3. /\ calls' = (calls \ {c}) \cup {done}
      /\ bulk' = IF ok /\ c.from = "bulk" THEN [bulk EXCEPT !.done = @ \cup {c.id}] ELSE bulk
      /\ status' = IF ok THEN [status EXCEPT ![c.id] = IF c.kind = "ack" THEN "acknowledged" ELSE "closed"]
                   ELSE status
      /\ UNCHANGED <<swipes, flung, answered>>
  BY DEF Serve
<1> HIDE DEF done, ok
<1>4. status' \in [TicketIds -> Statuses \cup {"none", "deleted"}]
  BY <1>t, <1>1, <1>3 DEF Statuses
<1>5. /\ bulk' \in [on: BOOLEAN, here: BOOLEAN, ids: SUBSET TicketIds, done: SUBSET TicketIds]
      /\ bulk'.on = bulk.on /\ bulk'.ids = bulk.ids
      /\ bulk'.done = IF ok /\ c.from = "bulk" THEN bulk.done \cup {c.id} ELSE bulk.done
  <2>1. bulk.done \cup {c.id} \in SUBSET TicketIds
    BY <1>t, <1>1
  <2> QED BY <1>t, <1>3, <2>1
<1>6. calls' \subseteq Call
  BY <1>t, <1>2, <1>3
<1>7. HiddenOK'
  <2> SUFFICES ASSUME NEW i \in flung PROVE BeingClosed(i)'
    BY <1>3 DEF HiddenOK
  <2>1. BeingClosed(i)
    BY <1>t DEF HiddenOK
  <2>2. ASSUME NEW x \in calls, x.id = i, x.kind = "close", x.from = "row" PROVE BeingClosed(i)'
    BY <1>2, <1>3, <2>2 DEF BeingClosed
  <2> QED BY <1>3, <2>1, <2>2 DEF BeingClosed
<1>8. TimersOK'
  BY <1>t, <1>3 DEF TimersOK
<1>9. BatchOK'
  <2>1. BulkTruthful'
    BY <1>t, <1>5 DEF BatchOK, BulkTruthful
  <2>2. ASSUME bulk.on, NEW i \in bulk.ids
        PROVE  i \in bulk'.done \/ \E x \in calls' : x.id = i /\ x.from = "bulk" /\ x.st # "ok"
    <3>1. CASE i \in bulk.done
      BY <1>5, <3>1
    <3>2. ASSUME NEW x \in calls, x.id = i, x.from = "bulk", x.st # "ok"
          PROVE  i \in bulk'.done \/ \E y \in calls' : y.id = i /\ y.from = "bulk" /\ y.st # "ok"
      <4>1. CASE x # c
        BY <1>3, <3>2, <4>1
      <4>2. CASE x = c /\ ok
        BY <1>5, <3>2, <4>2
      <4>3. CASE x = c /\ ~ok
        BY <1>2, <1>3, <3>2, <4>3
      <4> QED BY <4>1, <4>2, <4>3
    <3> QED BY <1>t, <2>2, <3>1, <3>2 DEF BatchOK
  <2> QED BY <1>5, <2>1, <2>2 DEF BatchOK
<1> QED BY <1>3, <1>4, <1>5, <1>6, <1>7, <1>8, <1>9, SwipingHolds DEF Swiping

LEMMA RowAnswerOK ==
    ASSUME QueueIInv, NEW c \in calls, RowAnswer(c)
    PROVE  Swiping'
<1>t. calls \subseteq Call /\ HiddenOK /\ TimersOK /\ c.id \in TicketIds
  BY SwipingHolds DEF Swiping, Call
<1>1. /\ c.from = "row" /\ calls' = calls \ {c} /\ UNCHANGED <<swipes, flung, bulk>>
      /\ answered' = IF c.kind = "close" THEN answered \cup {c.id} ELSE answered
  BY DEF RowAnswer
<1>2. HiddenOK'
  <2> SUFFICES ASSUME NEW i \in flung PROVE BeingClosed(i)'
    BY <1>1 DEF HiddenOK
  <2>1. BeingClosed(i)
    BY <1>t DEF HiddenOK
  <2>2. ASSUME NEW x \in calls, x.id = i, x.kind = "close", x.from = "row" PROVE BeingClosed(i)'
    <3>1. CASE x = c
      BY <1>1, <2>2, <3>1 DEF BeingClosed
    <3>2. CASE x # c
      BY <1>1, <2>2, <3>2 DEF BeingClosed
    <3> QED BY <3>1, <3>2
  <2> QED BY <1>1, <2>1, <2>2 DEF BeingClosed
<1>3. TimersOK'
  BY <1>t, <1>1 DEF TimersOK
<1>4. BatchOK'
  BY <1>1, BatchKept
<1> QED BY <1>t, <1>1, <1>2, <1>3, <1>4, SwipingHolds DEF Swiping

LEMMA LateAnswerOK ==
    ASSUME QueueIInv, NEW c \in calls, LateAnswer(c)
    PROVE  Swiping'
<1>1. c.from = "late" /\ calls' = calls \ {c} /\ UNCHANGED <<swipes, flung, bulk, answered>>
  BY DEF LateAnswer
<1>2. HiddenOK' /\ TimersOK'
  BY <1>1, SwipingHolds DEF Swiping, HiddenOK, BeingClosed, TimersOK
<1>3. BatchOK'
  BY <1>1, BatchKept
<1> QED BY <1>1, <1>2, <1>3, SwipingHolds DEF Swiping

\* When every request of the batch has succeeded, every ticket of it is changed.
LEMMA BulkDoneOK ==
    ASSUME QueueIInv, BulkDone
    PROVE  Swiping'
<1>t. /\ bulk \in [on: BOOLEAN, here: BOOLEAN, ids: SUBSET TicketIds, done: SUBSET TicketIds]
      /\ BatchOK
  BY DEF QueueIInv, QueueTyped
<1>1. /\ bulk.on /\ \A c \in calls : c.from = "bulk" => c.st = "ok"
      /\ calls' = {c \in calls : c.from # "bulk"} /\ bulk' = [bulk EXCEPT !.on = FALSE]
      /\ UNCHANGED <<swipes, flung, answered>>
  BY DEF BulkDone, AllOk, BulkLeft
<1>2. /\ bulk' \in [on: BOOLEAN, here: BOOLEAN, ids: SUBSET TicketIds, done: SUBSET TicketIds]
      /\ ~bulk'.on /\ bulk'.ids = bulk.ids /\ bulk'.done = bulk.done
  BY <1>t, <1>1
<1>3. BatchOK'
  BY <1>t, <1>1, <1>2 DEF BatchOK, BulkTruthful
<1>4. HiddenOK' /\ TimersOK'
  BY <1>1, SwipingHolds DEF Swiping, HiddenOK, BeingClosed, TimersOK
<1> QED BY <1>1, <1>2, <1>3, <1>4, SwipingHolds DEF Swiping

LEMMA BulkFailsOK ==
    ASSUME QueueIInv, NEW c \in calls, BulkFails(c)
    PROVE  Swiping'
<1>t. calls \subseteq Call
  BY SwipingHolds DEF Swiping
<1>1. /\ calls' = {x \in calls : x.from # "bulk"}
                    \cup {[x EXCEPT !.from = "late"] : x \in {y \in BulkLeft : y.st = "sent"}}
      /\ bulk' = NoBulk /\ UNCHANGED <<swipes, flung, answered>>
  BY DEF BulkFails
<1>2. ASSUME NEW x \in calls PROVE [x EXCEPT !.from = "late"] \in Call
  BY <1>t DEF Call
<1>3. calls' \subseteq Call
  BY <1>t, <1>1, <1>2 DEF BulkLeft
<1>4. bulk' \in [on: BOOLEAN, here: BOOLEAN, ids: SUBSET TicketIds, done: SUBSET TicketIds]
      /\ ~bulk'.on /\ bulk'.ids = {}
  BY <1>1 DEF NoBulk
<1>5. BatchOK'
  BY <1>4 DEF BatchOK, BulkTruthful
<1>6. \A x \in calls : x.from = "row" => x \in calls'
  BY <1>1
<1>7. HiddenOK' /\ TimersOK'
  BY <1>1, <1>6, SwipingHolds DEF Swiping, HiddenOK, BeingClosed, TimersOK
<1> QED BY <1>1, <1>3, <1>4, <1>5, <1>7, SwipingHolds DEF Swiping

LEMMA BulkOK ==
    ASSUME QueueIInv, NEW kind \in {"ack", "close"}, Bulk(kind)
    PROVE  Swiping'
<1> DEFINE ids == {i \in selected : kind = "close" \/ cache[page].rows[i] = "open"}
           new == {[id |-> i, kind |-> kind, from |-> "bulk", st |-> "sent"] : i \in ids}
<1>t. selected \subseteq TicketIds /\ calls \subseteq Call
  BY DEF QueueIInv, QueueTyped, QueueTypeOK
<1>1. bulk' = [on |-> TRUE, here |-> TRUE, ids |-> ids, done |-> {}] /\ calls' = calls \cup new
      /\ UNCHANGED <<swipes, flung, answered>>
  BY DEF Bulk
<1>2. ids \in SUBSET TicketIds
  BY <1>t
<1>3. new \subseteq Call
  BY <1>t DEF Call
<1>4. ASSUME NEW i \in ids PROVE \E c \in new : c.id = i /\ c.from = "bulk" /\ c.st # "ok"
  <2> DEFINE c == [id |-> i, kind |-> kind, from |-> "bulk", st |-> "sent"]
  <2>1. c \in new
    OBVIOUS
  <2>2. c.id = i /\ c.from = "bulk" /\ c.st # "ok"
    OBVIOUS
  <2> HIDE DEF c, new
  <2> QED BY <2>1, <2>2
<1> HIDE DEF ids, new
<1>5. bulk' \in [on: BOOLEAN, here: BOOLEAN, ids: SUBSET TicketIds, done: SUBSET TicketIds]
      /\ bulk'.on /\ bulk'.ids = ids
  BY <1>1, <1>2
<1>6. BatchOK'
  BY <1>1, <1>4, <1>5 DEF BatchOK, BulkTruthful
<1>7. HiddenOK' /\ TimersOK'
  BY <1>1, SwipingHolds DEF Swiping, HiddenOK, BeingClosed, TimersOK
<1> QED BY <1>t, <1>1, <1>3, <1>5, <1>6, <1>7, SwipingHolds DEF Swiping

-----------------------------------------------------------------------------
\* What the list shows has its type.
LEMMA FirstPage == 1 \in PageNumbers
<1>1. MaxTickets \in Nat /\ MaxTickets >= 1 /\ Limit \in Nat /\ Limit >= 1
  BY QueueAssumption
<1>2. MaxTickets + Limit - 1 \in Int /\ MaxTickets + Limit - 1 >= Limit
  BY <1>1
<1>3. \A n \in Int : n >= Limit => n \div Limit >= 1 /\ n \div Limit \in Int
  BY <1>1
<1> QED BY <1>2, <1>3 DEF PageNumbers

LEMMA AnswerTyped ==
    ASSUME QueueTyped, NEW p
    PROVE  Answer(p) \in Page
<1>1. IsFiniteSet(TicketIds) /\ Cardinality(TicketIds) = MaxTickets
  BY QueueAssumption, FS_Interval DEF TicketIds
<1>2. Exists \subseteq TicketIds
  BY DEF Exists
<1>3. Cardinality(Exists) \in 0..MaxTickets
  BY <1>1, <1>2, FS_Subset, FS_CardinalityType, QueueAssumption
<1>4. ASSUME NEW i \in TicketIds
      PROVE  (IF i \in OnPage(p) THEN status[i] ELSE "none") \in Statuses \cup {"none"}
  BY DEF OnPage, Exists
<1>5. [i \in TicketIds |-> IF i \in OnPage(p) THEN status[i] ELSE "none"]
        \in [TicketIds -> Statuses \cup {"none"}]
  BY <1>4
<1> QED BY <1>3, <1>5 DEF Answer, Page

LEMMA NothingTyped == NoAnswer \in Page /\ NoFetch \in Fetch /\ Asked \in Fetch
<1>1. 0 \in 0..MaxTickets /\ FALSE \in BOOLEAN
  BY QueueAssumption
<1>2. NoAnswer \in Page
  BY <1>1 DEF NoAnswer, Page
<1> QED BY <1>2 DEF NoFetch, Asked, Fetch

\* Every step leaves the pages, what is asked for them and what is shown in their types.
LEMMA BrowseTyped ==
    ASSUME QueueIInv, QueueNext
    PROVE  /\ fetch' \in [PageNumbers -> Fetch] /\ cache' \in [PageNumbers -> Page]
           /\ page' \in PageNumbers /\ filter' \in Filters \cup {"all"}
           /\ selected' \subseteq TicketIds
<1>t. /\ fetch \in [PageNumbers -> Fetch] /\ cache \in [PageNumbers -> Page]
      /\ page \in PageNumbers /\ filter \in Filters \cup {"all"} /\ selected \subseteq TicketIds
      /\ QueueTyped
  BY DEF QueueIInv, QueueTyped, QueueTypeOK
<1>f. NoFetch \in Fetch /\ Asked \in Fetch /\ 1 \in PageNumbers
  BY NothingTyped, FirstPage
<1> DEFINE Typed(x) == x \in [PageNumbers -> Fetch]
<1>e. \A p \in PageNumbers, x \in Fetch : Typed([fetch EXCEPT ![p] = x])
  BY <1>t
<1>fetch. ASSUME NEW p \in PageNumbers, Fetched(p) PROVE Typed(fetch')
  BY <1>t, <1>f, <1>e, <1>fetch DEF Fetched
<1>turn. ASSUME NEW p \in PageNumbers, NEW f \in Filters \cup {"all"}, Turn(p, f)
         PROVE  /\ Typed(fetch') /\ cache' = cache /\ selected' = selected
                /\ page' \in PageNumbers /\ filter' \in Filters \cup {"all"}
  BY <1>turn, <1>fetch DEF Turn
<1>1. ASSUME NEW p \in PageNumbers, Poll(p) \/ FetchFails(p)
      PROVE  Typed(fetch') /\ UNCHANGED <<cache, page, filter, selected>>
  BY <1>1, <1>f, <1>e DEF Poll, FetchFails
<1>2. ASSUME NEW p \in PageNumbers, Read(p)
      PROVE  Typed(fetch') /\ UNCHANGED <<cache, page, filter, selected>>
  <2>1. [st |-> "read", data |-> Answer(p)] \in Fetch
    BY <1>t, AnswerTyped DEF Fetch
  <2> QED BY <1>2, <1>e, <2>1 DEF Read
<1>3. ASSUME NEW p \in PageNumbers, Receive(p)
      PROVE  /\ Typed(fetch') /\ cache' \in [PageNumbers -> Page]
             /\ UNCHANGED <<page, filter, selected>>
  <2>1. fetch[p].data \in Page
    BY <1>t DEF Fetch
  <2> QED BY <1>3, <1>t, <1>f, <1>e, <2>1 DEF Receive
<1>4. ASSUME NEW c \in calls, RowAnswer(c)
      PROVE  Typed(fetch') /\ UNCHANGED <<cache, page, filter, selected>>
  BY <1>4, <1>t, <1>f, <1>e DEF RowAnswer, Invalidated
<1>5. CASE BulkDone
  BY <1>5, <1>t, <1>f, <1>e DEF BulkDone, Invalidated
<1>6. ASSUME NEW i \in TicketIds, Toggle(i)
      PROVE  selected' \subseteq TicketIds /\ UNCHANGED <<fetch, cache, page, filter>>
  BY <1>6, <1>t DEF Toggle
<1>7. CASE Deselect
  BY <1>7, <1>t DEF Deselect
<1>8. ASSUME NEW f \in Filters, SetFilter(f)
      PROVE  /\ Typed(fetch') /\ cache' = cache /\ selected' = selected
             /\ page' \in PageNumbers /\ filter' \in Filters \cup {"all"}
  BY <1>8, <1>f, <1>turn DEF SetFilter
<1>9. ASSUME NEW p \in PageNumbers, SetPage(p)
      PROVE  /\ Typed(fetch') /\ cache' = cache /\ selected' = selected
             /\ page' \in PageNumbers /\ filter' \in Filters \cup {"all"}
  BY <1>9, <1>t, <1>turn DEF SetPage
<1>10. CASE ShowAll
  BY <1>10, <1>t, <1>turn DEF ShowAll
<1>11. CASE Revisit
  <2>1. Typed(fetch')
    BY <1>11, <1>f, <1>fetch DEF Revisit
  <2> QED BY <1>11, <1>t, <1>f, <2>1 DEF Revisit
<1>12. CASE UNCHANGED <<fetch, cache, page, filter, selected>>
  BY <1>12, <1>t
<1>13. ASSUME \/ \E i \in TicketIds : SwipeAck(i)
              \/ \E i \in TicketIds, n \in 1..MaxSwipes : SwipeResolve(i, n)
              \/ \E s \in swipes : Undo(s) \/ Fire(s) \/ ToastGone(s)
              \/ \E kind \in {"ack", "close"} : Bulk(kind)
              \/ \E c \in calls : Serve(c) \/ BulkFails(c) \/ LateAnswer(c)
              \/ \E i \in TicketIds, s \in Statuses \cup {"deleted"} : Others(i, s)
       PROVE  UNCHANGED <<fetch, cache, page, filter, selected>>
  BY <1>13 DEF SwipeAck, SwipeResolve, Undo, Fire, ToastGone, Bulk, Serve, BulkFails, LateAnswer, Others
<1> QED BY <1>t, <1>1, <1>2, <1>3, <1>4, <1>5, <1>6, <1>7, <1>8, <1>9, <1>10, <1>11, <1>12, <1>13
     DEF QueueNext, Person, Timers, Requests, Refetch

\* The tickets keep a status.
LEMMA StatusTyped ==
    ASSUME QueueIInv, QueueNext
    PROVE  status' \in [TicketIds -> Statuses \cup {"none", "deleted"}]
<1>t. status \in [TicketIds -> Statuses \cup {"none", "deleted"}]
  BY DEF QueueIInv, QueueTyped, QueueTypeOK
<1>1. ASSUME NEW i \in TicketIds, NEW s \in Statuses \cup {"deleted"}, Others(i, s)
      PROVE  status' \in [TicketIds -> Statuses \cup {"none", "deleted"}]
  BY <1>1, <1>t DEF Others
<1>2. \/ status' = status \/ \E c \in calls : Serve(c)
      \/ \E i \in TicketIds, s \in Statuses \cup {"deleted"} : Others(i, s)
  BY DEF QueueNext, Person, Timers, Requests, Refetch, SwipeAck, Toggle, SwipeResolve, Undo, Bulk,
         SetFilter, SetPage, Turn, Deselect, ShowAll, Revisit, Fire, ToastGone, BulkDone, RowAnswer,
         BulkFails, LateAnswer, Poll, Read, Receive, FetchFails
<1> QED BY <1>t, <1>1, <1>2, ServeOK

LEMMA SwipingStep ==
    ASSUME QueueIInv, QueueNext
    PROVE  Swiping'
<1>1. ASSUME NEW p \in PageNumbers, Poll(p) \/ Read(p) \/ FetchFails(p) PROVE Swiping'
  BY <1>1, QuietOK DEF Poll, Read, FetchFails
<1>2. ASSUME NEW p \in PageNumbers, Receive(p) PROVE Swiping'
  <2>1. UNCHANGED <<calls, bulk, answered>>
    BY <1>2 DEF Receive
  <2>2. CASE p = page
    BY <1>2, <2>1, <2>2, ShowOK DEF Receive
  <2>3. CASE p # page
    BY <1>2, <2>1, <2>3, QuietOK DEF Receive
  <2> QED BY <2>2, <2>3
<1>3. ASSUME NEW p, NEW f, Turn(p, f) PROVE Swiping'
  BY <1>3, ShowOK DEF Turn
<1>4. CASE Revisit
  <2>1. swipes' = Cleanup(Mounted) /\ flung' \subseteq flung \ Mounted /\ UNCHANGED <<calls, answered>>
        /\ bulk' = [bulk EXCEPT !.here = FALSE]
    BY <1>4 DEF Revisit
  <2> QED BY <2>1, LeavingOK
<1>5. CASE \/ \E f \in Filters : SetFilter(f)
           \/ \E p \in PageNumbers : SetPage(p)
           \/ ShowAll
  BY <1>3, <1>5 DEF SetFilter, SetPage, ShowAll
<1>6. CASE \/ Deselect \/ \E i \in TicketIds : Toggle(i)
           \/ \E i \in TicketIds, s \in Statuses \cup {"deleted"} : Others(i, s)
  BY <1>6, QuietOK DEF Deselect, Toggle, Others
<1> QED BY <1>1, <1>2, <1>4, <1>5, <1>6, SwipeAckOK, SwipeResolveOK, UndoOK, FireOK, ToastGoneOK, ServeOK,
     RowAnswerOK, LateAnswerOK, BulkDoneOK, BulkFailsOK, BulkOK
     DEF QueueNext, Person, Timers, Requests, Refetch

-----------------------------------------------------------------------------
LEMMA QueueInitOK == QueueInit => QueueIInv
<1> SUFFICES ASSUME QueueInit PROVE QueueIInv
  OBVIOUS
<1>1. status \in [TicketIds -> Statuses \cup {"none", "deleted"}]
  <2>1. status \in [TicketIds -> Starts \cup {"none"}]
    BY DEF QueueInit
  <2> QED BY <2>1, QueueAssumption DEF Statuses
<1>2. fetch \in [PageNumbers -> Fetch] /\ cache \in [PageNumbers -> Page] /\ page \in PageNumbers
  BY NothingTyped, FirstPage DEF QueueInit
<1>3. bulk \in [on: BOOLEAN, here: BOOLEAN, ids: SUBSET TicketIds, done: SUBSET TicketIds]
      /\ ~bulk.on /\ bulk.ids = {}
  BY DEF QueueInit, NoBulk
<1>4. QueueTyped
  BY <1>1, <1>2, <1>3 DEF QueueInit, QueueTyped, QueueTypeOK
<1> QED BY <1>3, <1>4 DEF QueueInit, QueueIInv, HiddenOK, TimersOK, BatchOK, BulkTruthful

\* The list keeps its invariant: every row out of sight has its close, every timer its
\* row, and every ticket of a batch its request or its change.
THEOREM QueueInvariance == QueueSpec => []QueueIInv
<1>1. ASSUME QueueIInv, QueueNext PROVE QueueIInv'
  BY <1>1, BrowseTyped, StatusTyped, SwipingStep
     DEF Swiping, QueueIInv, QueueTyped, QueueTypeOK
<1>2. ASSUME QueueIInv, UNCHANGED queueVars PROVE QueueIInv'
  BY <1>2 DEF queueVars, QueueIInv, QueueTyped, QueueTypeOK, HiddenOK, BeingClosed, TimersOK, BatchOK,
              BulkTruthful
<1>3. QueueIInv /\ [QueueNext]_queueVars => QueueIInv'
  BY <1>1, <1>2
<1> QED BY QueueInitOK, <1>3, PTL DEF QueueSpec

\* HiddenRowsExplained: a row that a swipe took off the screen is gone from the list, or
\* the close of its ticket is due, under way or answered.
THEOREM HiddenRowsExplainedHolds == QueueSpec => []HiddenRowsExplained
<1>1. QueueIInv => HiddenRowsExplained
  BY DEF QueueIInv, HiddenOK, BeingClosed, HiddenRowsExplained
<1> QED BY QueueInvariance, <1>1, PTL

\* BulkTruthful: a batch that reports success has changed every ticket it was sent for.
THEOREM BulkTruthfulHolds == QueueSpec => []BulkTruthful
<1>1. QueueIInv => BulkTruthful
  BY DEF QueueIInv, BatchOK
<1> QED BY QueueInvariance, <1>1, PTL

\* QueueInv: types, and an undone swipe's timer runs on only if the row was swiped again.
THEOREM QueueInvHolds == QueueSpec => []QueueInv
<1>1. QueueIInv => QueueInv
  BY DEF QueueIInv, QueueTyped, TimersOK, QueueInv, UndoStops
<1> QED BY QueueInvariance, <1>1, PTL
=============================================================================
