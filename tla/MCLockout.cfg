SPECIFICATION Spec
CONSTANTS
    Clients = {c1}
    Desks = {d1}
    Handlers = {h1, h2}
    Tickets = {k1, k2}
    Links = {l1, l2}
    NoUser = NoUser
    NoLink = NoLink
    FirstLock = 2
    Threshold = 3
    Delay <- DelayTicks
    TicketWindow = 1
    LinkWindow = 1
    LinkTTL = 1
    MaxTime = 2
SYMMETRY Symmetry
INVARIANTS
    Inv
    DeskHasRecoveryLink
PROPERTY
    LockOutlivesLogins
