SPECIFICATION Spec
CONSTANTS
  Invoices = {i1}
  TicketIds = {t1}
  Handlers = {h1}
  Interval = 1
  MaxTime = 1
  MaxEdits = 3
  MaxFaults = 1
INVARIANTS
  Inv
  NoDateSkipped
PROPERTY
  CatchesUp
CHECK_DEADLOCK FALSE
