SPECIFICATION Spec
CONSTANTS
    Clients = {c1, c2}
    Admitted = {c1}
    NoClient = NoClient
    MaxMoves = 1
    MaxRequests = 2
    MaxFaults = 1
    MaxInvoices = 2
    Together <- EditedTogether
INVARIANTS
    ChangesKept
    LinkRight
    FiledRight
    Inv
CHECK_DEADLOCK FALSE
