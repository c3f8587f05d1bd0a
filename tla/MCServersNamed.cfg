CONSTANTS
  s1 = s1
  s2 = s2
  s3 = s3
  None = None
  Servers = {s1, s2}
  MaxBoots = 2
SPECIFICATION FleetSpec
CHECK_DEADLOCK FALSE
INVARIANTS NameLeadsToServers
