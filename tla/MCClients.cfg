CHECK_DEADLOCK FALSE
SPECIFICATION Spec
CONSTANTS
  Handlers = {h1, h2}
  Purge = purge
  Tickets = {t1}
  Window = 1
  MaxTime = 3
  MaxSlips = 1
SYMMETRY Symmetry
INVARIANTS
  Inv
  PurgedOnTime
PROPERTY
  PurgeSafe
