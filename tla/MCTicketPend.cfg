SPECIFICATION Spec
CONSTANTS
    Tickets = {t1}
    Starts = {"open", "acknowledged"}
    MaxTexts = 1
    MaxCalls = 2
    MaxMoves = 1
    MaxOthers = 1
INVARIANT
    OffersLegal
CHECK_DEADLOCK FALSE
