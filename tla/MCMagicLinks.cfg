SPECIFICATION Spec
CONSTANTS
    Users = {u1}
    Tickets = {t1}
    ClientOf <- OneClient
    Links = {l1, l2}
    Jtis = {j1, j2}
    Handlers = {h1, h2}
    NoUser = NoUser
    NoTicket = NoTicket
    NoLink = NoLink
    NoJti = NoJti
    LinkTTL = 1
    LinkWindow = 0
    TokenTTL = 1
    MaxTime = 2
    MaxRows = 3
SYMMETRY Symmetry
INVARIANTS
    Inv
    NoOrphans
    TokenHonoured
