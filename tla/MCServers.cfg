CONSTANTS
  s1 = s1
  s2 = s2
  s3 = s3
  None = None
  Servers = {s1, s2, s3}
  MaxBoots = 4
SYMMETRY Symmetry
SPECIFICATION FleetSpec
CHECK_DEADLOCK FALSE
INVARIANTS TypeOK OneIdentity StoredUnlessBroken FleetTypeOK RegisteredFound
PROPERTIES StaysSettled RefusedExplained
