---------------------------------- MODULE Desk ----------------------------------
(***************************************************************************)
(* The desk's pages together: the person goes from page to page, requests  *)
(* outlive the page they came from, and a ticket that was filed takes the  *)
(* person to its page from wherever they are by then.                      *)
(***************************************************************************)
EXTENDS Invoices, Roster, Filing

vars == <<pageVars, invoiceVars, rosterVars, filingVars>>

Init == PagesInit /\ InvoicesInit /\ RosterInit /\ FilingInit

\* A link of the masthead, or the browser's own buttons: to another page, or
\* away and back to this one.
Go(p) ==
    /\ moves < MaxMoves /\ moves' = moves + 1
    /\ route' = p /\ visit' = visit + 1
    /\ InvoicesLeft /\ RosterLeft /\ FilingLeft
    /\ UNCHANGED <<requests, faults, shut, client, roster>>

\* The forms on screen, by kind.
OpenForms ==
    {f \in {[kind |-> "create", n |-> newForm.n], [kind |-> "save", n |-> editForm.n],
            [kind |-> "admit", n |-> newClient.n], [kind |-> "filing", n |-> filing.n]} : f.n # 0}

\* onClose, then nav.
Land(c) ==
    /\ c.st = "fly"
    /\ route' = "ticket" /\ visit' = visit + 1
    /\ shut' = shut \cup {Closing("filing", f.kind, f.n = c.form, TRUE) : f \in OpenForms}
    /\ filings' = filings \ {c} /\ filing' = NoFiling
    /\ InvoicesLeft /\ RosterLeft
    /\ UNCHANGED <<moves, requests, faults, client, roster, tickets, refiled, halved, denied>>

Next ==
    \/ InvoicesNext /\ UNCHANGED <<rosterVars, filingVars>>
    \/ RosterNext /\ Cascade /\ UNCHANGED filingVars
    \/ FilingNext /\ UNCHANGED <<invoiceVars, rosterVars>>
    \/ (ReadRoster \/ \E c \in Clients : SomebodyArchives(c))
         /\ UNCHANGED <<invoiceVars, rosterVars, filingVars>>
    \/ \E p \in PageNames : Go(p)
    \/ \E c \in filings : Land(c)

Spec == Init /\ [][Next]_vars

-----------------------------------------------------------------------------
(* Properties *)

TypeOK ==
    /\ route \in PageNames /\ InvoicesTypeOK /\ RosterTypeOK /\ FilingTypeOK

\* What is being filled in is not taken away: a form that the person has not
\* closed goes only when a request succeeds, and then it is the one that request
\* came from or a later one of the same kind.  The exception is a ticket that was
\* filed: whatever form is open when its timers end is lost.
FormsKept == \A s \in shut : s.ok /\ (s.own \/ s.lost = s.by \/ s.by = "filing")

\* What holds of the pages in every state: the form on screen is the person's.
Inv == TypeOK /\ FormsKept

=============================================================================
