--------------------------------- MODULE Pages ---------------------------------
(***************************************************************************)
(* What the desk's pages share: the page on screen, the clients, and the   *)
(* list of them that every page reads from the one query cache.            *)
(*                                                                         *)
(* A page that is left is unmounted: its forms are gone, its requests go   *)
(* on, and what their answers would set belongs to nobody.  A list is read *)
(* and shown in one step: a later answer is a list that was shown earlier. *)
(***************************************************************************)
EXTENDS Integers, FiniteSets

CONSTANTS
    Clients,
    Admitted,   \* those on the roster at first
    NoClient,   \* no client chosen
    MaxMoves,   \* bound on the forms the person closes and the pages left
    MaxRequests,\* bound on the requests the person makes
    MaxFaults   \* bound on failed requests, on what other people do and on the daily task

ASSUME PagesAssumption ==
    Admitted \subseteq Clients /\ NoClient \notin Clients /\ {MaxMoves, MaxRequests, MaxFaults} \subseteq Nat

VARIABLES
    route,
    visit,    \* numbers the pages shown, one after the other
    moves, requests, faults,
    client,   \* the clients on the server
    roster,   \* ['clients'] in the query cache: the last answer
    shut      \* history: the forms that something else than the person closed

pageVars == <<route, visit, moves, requests, faults, client, roster, shut>>

-----------------------------------------------------------------------------
PageNames == {"tickets", "ticket", "clients", "invoices"}
ClientStatus == {"none", "active", "archived", "gone"}

Move == moves < MaxMoves /\ moves' = moves + 1 /\ UNCHANGED <<route, visit, requests, faults, shut>>
Ask ==
    /\ requests < MaxRequests /\ requests' = requests + 1
    /\ UNCHANGED <<route, visit, moves, faults, shut>>
Fault == faults < MaxFaults /\ faults' = faults + 1 /\ UNCHANGED <<route, visit, moves, requests, shut>>
Meanwhile == UNCHANGED <<route, visit, moves, requests, faults, shut>>

\* A form and a request are numbered in the order the person made them; 0 is
\* none.
Number == moves + requests + 1
Shut == [n |-> 0]

\* by: the kind of the request whose answer closed a form; lost: the kind of
\* the form; own: the form was the one the request came from.
Closing(by, lost, own, ok) == [by |-> by, lost |-> lost, own |-> own, ok |-> ok]

\* clients(): those not archived are offered.
Offered == {c \in Clients : roster[c] = "active"}

PagesInit ==
    /\ route \in PageNames \ {"ticket"} /\ visit = 1 /\ moves = 0 /\ requests = 0 /\ faults = 0
    /\ client = [c \in Clients |-> IF c \in Admitted THEN "active" ELSE "none"]
    /\ roster = client /\ shut = {}

\* GET /admin/clients, at a mount or after an invalidation.
ReadRoster ==
    /\ roster' = client
    /\ Meanwhile /\ UNCHANGED client

\* Somebody else at the desk archives a client.
SomebodyArchives(c) ==
    /\ Fault
    /\ client[c] = "active"
    /\ client' = [client EXCEPT ![c] = "archived"]
    /\ UNCHANGED roster

=============================================================================
