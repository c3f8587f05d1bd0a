CONSTANTS
  None = None
  Clients = {c1, c2}
  MaxStates = 2
  MaxUnread = 2
SPECIFICATION FairSpec
CHECK_DEADLOCK FALSE
INVARIANTS TypeOK ResponseMatches OnlyKnownStalls PanicExplained SurplusOnlyByKill
PROPERTIES BootReleased EventsServed HandlerReleased ShutdownEnds
