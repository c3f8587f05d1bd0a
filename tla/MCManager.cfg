CONSTANTS
  c1 = c1
  c2 = c2
  c3 = c3
  u1 = u1
  u2 = u2
  a1 = a1
  a2 = a2
  None = None
  Clients = {c1, c2, c3}
  Users = {u1, u2}
  Addresses = {a1, a2}
  Fallible = {a1}
  MaxReauths = 1
  MaxUnread = 4
  Owner <- TwoDevices
SPECIFICATION FairSpec
CHECK_DEADLOCK FALSE
INVARIANTS TypeOK RegistryConsistent AddressServed ForwardMatchesConnections RepliesLagByKills KillOnlySuperseded PanicOnlyOfReconnected StrayExplained
PROPERTIES SessionsSpec EveryConnectAnswered RulesDrain
