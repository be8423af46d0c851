--------------------------------- MODULE Filing ---------------------------------
(***************************************************************************)
(* The form that files a ticket, on the ticket list.                       *)
(*                                                                         *)
(* Once the server has made the ticket its file is posted to it as a       *)
(* message, the form is stamped, and two timers later it is closed and the *)
(* ticket's page shown.  None of that asks whether the form is still there. *)
(***************************************************************************)
EXTENDS Pages

VARIABLES
    filing,   \* CreateTicketModal
    filings,  \* requests under way, and their timers
    tickets,  \* the tickets filed
    refiled,  \* history: forms filed again while a ticket of theirs was known or unknown
    halved,   \* history: tickets whose filing failed before they were closed
    denied    \* history: filings the server refused

filingVars == <<filing, filings, tickets, refiled, halved, denied>>

-----------------------------------------------------------------------------
\* sub: the client whose end client is chosen.
NoFiling == [n |-> 0, client |-> NoClient, sub |-> NoClient, phase |-> "idle"]
Form == [n: Nat, client: Clients \cup {NoClient}, sub: Clients \cup {NoClient},
         phase: {"idle", "filing", "stamping", "filed"}]

\* The fields that are filled in freely are kept nowhere: what counts is
\* whether "Close immediately" is ticked when the ticket is filed, and whether
\* the file input holds a file when it has been made.
CloseNow == BOOLEAN
Attachment == BOOLEAN

\* sent, opened if it is to be closed, made or refused, its file under way,
\* posted or not, then the two timers.
Steps == {"sent", "opened", "made", "error", "attach", "attached", "stamp", "fly"}

\* isPending: onSuccess is part of the mutation, its timers are not.
Filed(c) == c.st \in {"stamp", "fly"}
Busy == \E c \in filings : c.form = filing.n /\ ~Filed(c)

\* setPhase reaches the form it came from only.
Phase(c, phase) == IF c.form = filing.n THEN [filing EXCEPT !.phase = phase] ELSE filing
Goes(c, st) == filings' = (filings \ {c}) \cup {[c EXCEPT !.st = st]}

-----------------------------------------------------------------------------
(* The person *)

OpenFiling ==
    /\ Meanwhile
    /\ route = "tickets" /\ filing.n = 0
    /\ filing' = [NoFiling EXCEPT !.n = Number]
    /\ UNCHANGED <<client, roster, filings, tickets, refiled, halved, denied>>

\* Escape, the background, Cancel, Close, and the handle of the sheet.
CloseFiling ==
    /\ Move
    /\ filing.n # 0 /\ filing' = NoFiling
    /\ UNCHANGED <<client, roster, filings, tickets, refiled, halved, denied>>

\* Another client's end clients are other ones.
Picked(c) == [filing EXCEPT !.client = c, !.sub = NoClient]

\* The list of clients shows while none is chosen.
PickFor(c) ==
    /\ filing.n # 0 /\ filing.client = NoClient /\ c \in Offered
    /\ filing' = Picked(c)
    /\ Meanwhile /\ UNCHANGED <<client, roster, filings, tickets, refiled, halved, denied>>

\* Typing in the search box.
Unpick ==
    /\ filing.n # 0 /\ filing.client # NoClient
    /\ filing' = [filing EXCEPT !.client = NoClient]
    /\ Meanwhile /\ UNCHANGED <<client, roster, filings, tickets, refiled, halved, denied>>

\* An end client of the chosen client, or none.
PickSub ==
    /\ filing.n # 0 /\ filing.client # NoClient
    /\ filing' = [filing EXCEPT !.sub = IF @ = NoClient THEN filing.client ELSE NoClient]
    /\ Meanwhile /\ UNCHANGED <<client, roster, filings, tickets, refiled, halved, denied>>

\* Faulty: the button does not wait.
MayFileAlways == filing.n # 0 /\ filing.client # NoClient

MayFile == filing.n # 0 /\ filing.client # NoClient /\ ~Busy

FileTicket(closeNow) ==
    /\ Ask
    /\ MayFile
    /\ filings' = filings \cup
         {[n |-> Number, form |-> filing.n, client |-> filing.client, sub |-> filing.sub,
           closeNow |-> closeNow, st |-> "sent", visit |-> visit]}
    /\ filing' = [filing EXCEPT !.phase = "filing"]
    /\ refiled' = IF \E c \in filings : c.form = filing.n /\ Filed(c)
                  THEN refiled \cup {filing.n} ELSE refiled
    /\ UNCHANGED <<client, roster, tickets, halved, denied>>

-----------------------------------------------------------------------------
(* The server *)

\* The ticket is made, open ...
ServeFiling(c) ==
    /\ c.st = "sent"
    /\ IF client[c.client] = "active" /\ c.sub \in {NoClient, c.client}
       THEN /\ tickets' = tickets \cup {[n |-> c.n, form |-> c.form, closeNow |-> c.closeNow,
                                         status |-> "open", posted |-> FALSE]}
            /\ Goes(c, IF c.closeNow THEN "opened" ELSE "made") /\ UNCHANGED denied
       ELSE /\ denied' = denied \cup {[client |-> client[c.client], own |-> c.sub \in {NoClient, c.client}]}
            /\ Goes(c, "error") /\ UNCHANGED tickets
    /\ Meanwhile /\ UNCHANGED <<client, roster, filing, refiled, halved>>

\* ... and closed by a second statement, if that was asked for.
CloseFiled(c) ==
    /\ c.st = "opened"
    /\ tickets' = {IF t.n = c.n THEN [t EXCEPT !.status = "closed"] ELSE t : t \in tickets}
    /\ Goes(c, "made")
    /\ Meanwhile /\ UNCHANGED <<client, roster, filing, refiled, halved, denied>>

\* A message reopens a closed ticket, this one as well.
Post(c) ==
    /\ c.st = "attach"
    /\ tickets' = {IF t.n = c.n THEN [t EXCEPT !.status = "open", !.posted = TRUE] ELSE t : t \in tickets}
    /\ Goes(c, "attached")
    /\ Meanwhile /\ UNCHANGED <<client, roster, filing, refiled, halved, denied>>

\* The filing or its answer is lost, or it fails with the ticket made and not
\* yet closed; or the file, which is passed over.
FilingFails(c) ==
    /\ Fault
    /\ c.st \in {"sent", "opened", "made", "attach"}
    /\ Goes(c, IF c.st = "attach" THEN "attached" ELSE "error")
    /\ refiled' = IF c.st \in {"opened", "made"} THEN refiled \cup {c.form} ELSE refiled
    /\ halved' = IF c.st = "opened" THEN halved \cup {c.n} ELSE halved
    /\ UNCHANGED <<client, roster, filing, tickets, denied>>

-----------------------------------------------------------------------------
(* Answers and timers *)

FilingAnswer(c) ==
    /\ \/ c.st = "error" /\ filings' = filings \ {c} /\ filing' = Phase(c, "idle")
       \/ \E file \in Attachment :
            /\ c.st = "made" /\ Goes(c, IF file THEN "attach" ELSE "stamp")
            /\ filing' = IF file THEN filing ELSE Phase(c, "stamping")
       \/ c.st = "attached" /\ Goes(c, "stamp") /\ filing' = Phase(c, "stamping")
    /\ Meanwhile /\ UNCHANGED <<client, roster, tickets, refiled, halved, denied>>

\* After 640 ms; 500 ms later the form is closed and the ticket shown.
Fly(c) ==
    /\ c.st = "stamp"
    /\ Goes(c, "fly") /\ filing' = Phase(c, "filed")
    /\ Meanwhile /\ UNCHANGED <<client, roster, tickets, refiled, halved, denied>>

-----------------------------------------------------------------------------
FilingInit == filing = NoFiling /\ filings = {} /\ tickets = {} /\ refiled = {} /\ halved = {} /\ denied = {}

FilingNext ==
    \/ OpenFiling \/ CloseFiling \/ Unpick \/ PickSub
    \/ \E c \in Clients : PickFor(c)
    \/ \E closeNow \in CloseNow : FileTicket(closeNow)
    \/ \E c \in filings : ServeFiling(c) \/ CloseFiled(c) \/ Post(c) \/ FilingFails(c) \/ FilingAnswer(c) \/ Fly(c)

\* The page is left.
FilingLeft == filing' = NoFiling /\ UNCHANGED <<filings, tickets, refiled, halved, denied>>

-----------------------------------------------------------------------------
(* Properties *)

\* The variables stay in their sets.
FilingTypeOK ==
    /\ filing \in Form
    /\ \A c \in filings : c.st \in Steps
    /\ \A t \in tickets : t.status \in {"open", "closed"}

\* One form files one ticket, unless the person filed again during the stamp,
\* or after an error that came although the ticket had been made: its answer was
\* lost, or the statement that was to close it failed.
FiledOnce ==
    \A t1, t2 \in tickets : t1.form = t2.form => t1.n = t2.n \/ t1.form \in refiled

\* A ticket's filing has not come to its second statement, or never did.
Halfway(t) == t.n \in halved \/ \E c \in filings : c.n = t.n /\ c.st = "opened"

\* A ticket is filed with the status asked for, except that its own file
\* reopens it, and that the filing may stop between the two statements; and
\* none is refused for what the form kept of another client, only because the
\* client was archived or deleted meanwhile.
FiledAsAsked ==
    /\ \A t \in tickets : t.status = "closed" <=> t.closeNow /\ ~t.posted /\ ~Halfway(t)
    /\ \A d \in denied : d.own /\ d.client \in {"archived", "gone"}

\* What the form promises: one ticket, and the one that was asked for.
FiledRight == FiledOnce /\ FiledAsAsked

=============================================================================
