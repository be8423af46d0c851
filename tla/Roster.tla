--------------------------------- MODULE Roster ---------------------------------
(***************************************************************************)
(* The clients page: the actions of a row, the form that admits a client,  *)
(* and the window that shows a sign-in link.                               *)
(*                                                                         *)
(* One action of a row is under way at a time.  The window's own button,   *)
(* Regenerate, is not one of them: the window can be closed, and another   *)
(* client's link asked for, before the new link comes.                     *)
(***************************************************************************)
EXTENDS Pages

VARIABLES
    exported,    \* the clients with an export on the server
    link,        \* each client's sign-in link on the server: the request that made it
    newClient,   \* NewClientModal
    modal,       \* MagicLinkModal and its link
    rosterCalls, \* requests under way
    crossed      \* history: something overtook the link that was last asked for

rosterVars == <<exported, link, newClient, modal, rosterCalls, crossed>>

-----------------------------------------------------------------------------
RowActions == {"archive", "restore", "export", "hard-delete", "magic-link"}
NoModal == [n |-> 0, client |-> NoClient, url |-> 0]

\* n: the window's instance, which a link replaced in place keeps.
Modal == [n: Nat, client: Clients \cup {NoClient}, url: Nat]

RosterCall(kind, c, form) ==
    [n |-> Number, kind |-> kind, client |-> c, form |-> form, visit |-> visit, st |-> "sent"]

\* anyPending: the page's seven mutations.
AnyPending == \E c \in rosterCalls : c.visit = visit /\ c.kind \in RowActions

LinkKinds == {"magic-link", "regenerate"}
LinkPending == \E c \in rosterCalls : c.kind \in LinkKinds

\* A request that may replace or remove a link.
Overtaking == LinkPending \/ \E c \in rosterCalls : c.kind = "hard-delete"

\* The page's buttons can be reached.
Uncovered == route = "clients" /\ newClient.n = 0 /\ modal.n = 0

-----------------------------------------------------------------------------
(* The person *)

\* A row offers what its status, as it was read, allows.
OfferedOn(status) ==
    CASE status = "archived" -> {"restore", "export", "hard-delete"}
      [] status = "active" -> {"magic-link", "export", "archive"}
      [] OTHER -> {}

\* handleAction, the confirmation included.  Unlock and Revoke sessions go the
\* same way and change nothing kept here.
RowAction(kind, c) ==
    /\ Ask
    /\ Uncovered /\ ~AnyPending /\ kind \in OfferedOn(roster[c])
    /\ rosterCalls' = rosterCalls \cup {RosterCall(kind, c, 0)}
    /\ crossed' = IF kind = "magic-link" THEN Overtaking ELSE (crossed \/ LinkPending)
    /\ UNCHANGED <<client, roster, exported, link, newClient, modal>>

\* The window's button waits for its own request only.
Regenerate ==
    /\ Ask
    /\ modal.n # 0 /\ ~\E c \in rosterCalls : c.kind = "regenerate" /\ c.form = modal.n
    /\ rosterCalls' = rosterCalls \cup {RosterCall("regenerate", modal.client, modal.n)}
    /\ crossed' = (crossed \/ LinkPending)
    /\ UNCHANGED <<client, roster, exported, link, newClient, modal>>

CloseModal ==
    /\ Move
    /\ modal.n # 0 /\ modal' = NoModal
    /\ UNCHANGED <<client, roster, exported, link, newClient, rosterCalls, crossed>>

OpenAdmit ==
    /\ Meanwhile
    /\ Uncovered
    /\ newClient' = [n |-> Number]
    /\ UNCHANGED <<client, roster, exported, link, modal, rosterCalls, crossed>>

CancelAdmit ==
    /\ Move
    /\ newClient.n # 0 /\ newClient' = Shut
    /\ UNCHANGED <<client, roster, exported, link, modal, rosterCalls, crossed>>

\* c: the client whose address is typed in, one already taken included.
Admit(c) ==
    /\ Ask
    /\ newClient.n # 0 /\ client[c] # "gone"
    /\ ~\E d \in rosterCalls : d.kind = "admit" /\ d.form = newClient.n
    /\ rosterCalls' = rosterCalls \cup {RosterCall("admit", c, newClient.n)}
    /\ UNCHANGED <<client, roster, exported, link, newClient, modal, crossed>>

-----------------------------------------------------------------------------
(* The server *)

Accepted(c) ==
    CASE c.kind \in LinkKinds \cup {"archive"} -> client[c.client] = "active"
      [] c.kind = "restore" -> client[c.client] = "archived"
      [] c.kind = "export" -> client[c.client] \in {"active", "archived"}
      [] c.kind = "hard-delete" -> client[c.client] # "gone" /\ c.client \in exported
      [] c.kind = "admit" -> client[c.client] = "none"

\* What each leaves the client in.
Leaves(kind) ==
    CASE kind = "archive" -> "archived" [] kind = "hard-delete" -> "gone" [] OTHER -> "active"

Turns(c, st) == rosterCalls' = (rosterCalls \ {c}) \cup {[c EXCEPT !.st = st]}

\* A new link deletes the one before first, if that was not used (cut).
ServeRoster(c) ==
    /\ c.st = "sent"
    /\ Turns(c, IF ~Accepted(c) THEN "error" ELSE IF c.kind \in LinkKinds THEN "cut" ELSE "ok")
    /\ client' = IF Accepted(c) /\ c.kind # "export"
                 THEN [client EXCEPT ![c.client] = Leaves(c.kind)] ELSE client
    /\ exported' = IF Accepted(c) /\ c.kind = "export" THEN exported \cup {c.client} ELSE exported
    /\ link' = IF ~Accepted(c) THEN link
               ELSE IF c.kind \in LinkKinds \cup {"hard-delete"} THEN [link EXCEPT ![c.client] = 0]
               ELSE link
    /\ Meanwhile /\ UNCHANGED <<roster, newClient, modal, crossed>>

\* The new link is inserted, for a client that is still there.
MakeLink(c) ==
    /\ c.st = "cut"
    /\ IF client[c.client] # "gone"
       THEN link' = [link EXCEPT ![c.client] = c.n] /\ Turns(c, "ok") /\ UNCHANGED crossed
       ELSE UNCHANGED link /\ Turns(c, "error") /\ crossed' = TRUE
    /\ Meanwhile /\ UNCHANGED <<client, roster, exported, newClient, modal>>

\* The client asks for a link on the sign-in page, or somebody else at the desk
\* makes one: the same two statements, the second of which may fail.
RequestLink(c) ==
    /\ Fault
    /\ client[c] = "active"
    /\ link' \in {[link EXCEPT ![c] = 0], [link EXCEPT ![c] = MaxMoves + MaxRequests + faults + 1]}
    /\ crossed' = TRUE
    /\ UNCHANGED <<client, roster, exported, newClient, modal, rosterCalls>>

-----------------------------------------------------------------------------
(* Answers *)

\* The request is lost on its way, or its answer, or it fails before the new
\* link is made.
RosterFails(c) ==
    /\ Fault
    /\ c.st \in {"sent", "cut", "ok"}
    /\ Turns(c, "error")
    /\ crossed' = (crossed \/ (c.st # "sent" /\ c.kind \in LinkKinds))
    /\ UNCHANGED <<client, roster, exported, link, newClient, modal>>

\* Faulty: a link that comes while the window is open does not replace its own.
LinkedOnce(c) == IF modal.n # 0 THEN modal ELSE [n |-> c.n, client |-> c.client, url |-> c.n]

\* setMagicLink: the window opens, or shows the new link in place.
Linked(c) ==
    [n |-> IF modal.n # 0 THEN modal.n ELSE c.n, client |-> c.client, url |-> c.n]

\* A page that was left sets nothing.  A failed action is shown nowhere, a
\* failed admission in the form.
RosterAnswer(c) ==
    /\ c.st \in {"ok", "error"}
    /\ rosterCalls' = rosterCalls \ {c}
    /\ modal' = IF c.st = "ok" /\ c.visit = visit /\ c.kind \in LinkKinds THEN Linked(c) ELSE modal
    /\ newClient' = IF c.st = "ok" /\ c.visit = visit /\ c.kind = "admit" THEN Shut ELSE newClient
    /\ shut' = IF newClient' # newClient
               THEN shut \cup {Closing("admit", "admit", c.form = newClient.n, c.st = "ok")} ELSE shut
    /\ UNCHANGED <<route, visit, moves, requests, faults, client, roster, exported, link, crossed>>

-----------------------------------------------------------------------------
RosterInit ==
    /\ exported = {} /\ link = [c \in Clients |-> 0]
    /\ newClient = Shut /\ modal = NoModal
    /\ rosterCalls = {} /\ crossed = FALSE

RosterNext ==
    \/ Regenerate \/ CloseModal \/ OpenAdmit \/ CancelAdmit
    \/ \E c \in Clients : Admit(c) \/ RequestLink(c) \/ \E kind \in RowActions : RowAction(kind, c)
    \/ \E c \in rosterCalls : ServeRoster(c) \/ MakeLink(c) \/ RosterFails(c) \/ RosterAnswer(c)

\* The page is left.
RosterLeft ==
    /\ newClient' = Shut /\ modal' = NoModal
    /\ UNCHANGED <<exported, link, rosterCalls, crossed>>

-----------------------------------------------------------------------------
(* Properties *)

\* The variables stay in their sets.
RosterTypeOK ==
    /\ client \in [Clients -> ClientStatus] /\ roster \in [Clients -> ClientStatus]
    /\ exported \subseteq Clients /\ link \in [Clients -> Nat]
    /\ modal \in Modal /\ crossed \in BOOLEAN
    /\ \A c \in rosterCalls : c.kind \in RowActions \cup {"regenerate", "admit"}

\* The link in the window is the one its client has, unless a newer one is on
\* its way to the window, or something overtook it: another action before the
\* answer, a deletion still under way when it was asked for, a lost answer, a
\* link that the client or somebody else asked for, or a new link whose making
\* failed once the old one was deleted: the window then shows the deleted one.
LinkRight ==
    modal.n # 0 /\ ~crossed =>
        \/ link[modal.client] = modal.url
        \/ \E c \in rosterCalls : c.kind \in LinkKinds /\ c.client = modal.client

=============================================================================
