SPECIFICATION Spec
CONSTANTS
    Tickets = {k1, k2}
    Messages = {m1, m2}
    Handlers = {h1, h2, h3}
    NoTicket = NoTicket
    NoMessage = NoMessage
SYMMETRY Symmetry
INVARIANTS
    Inv
    DeletedTicketsLeaveNoFiles
PROPERTIES
    LegalUnlessRaced
    RepliesReopenUnlessRaced
CHECK_DEADLOCK FALSE
