CONSTANTS
  None = None
  Clients = {c1, c2}
  MaxStates = 1
  MaxUnread = 3
SPECIFICATION Spec
CHECK_DEADLOCK FALSE
INVARIANTS NoWedge
