CONSTANTS
  a = a
  b = b
  n1 = n1
  n2 = n2
  n3 = n3
  s1 = s1
  s2 = s2
  sx = sx
  None = None
  Groups = {a, b}
  Nets = {n1, n2, n3}
  Ports = {0, 22, 80}
  Names = {s1, s2, sx}
  Subnets <- MCSubnets
  NAT = {n3}
  Files <- MCFiles
  Revisions <- MCRevisions
  MaxChanges = 2
  MaxFailures = 1
SPECIFICATION FairSpec
CHECK_DEADLOCK FALSE
INVARIANTS TypeOK 
PROPERTIES AccessExplained PolicyConverges
