SPECIFICATION Spec
CONSTANTS
    Tickets = {t1, t2}
    Starts = {"closed"}
    MaxTexts = 2
    MaxCalls = 2
    MaxMoves = 1
    MaxOthers = 1
SYMMETRY Symmetry
INVARIANTS
    DraftsKept
    SentOnceUnlessRetried
    RightTicket
    Inv
CHECK_DEADLOCK FALSE
