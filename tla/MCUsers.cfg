CONSTANTS
  k1 = k1
  k2 = k2
  k3 = k3
  h1 = h1
  h2 = h2
  u1 = u1
  None = None
  Absent = Absent
  Users = {u1}
  Keys = {k1, k2, k3}
  Hashes = {h1, h2}
  KeyOwner <- OneUser
  HashOf <- SameMaterial
  WeakSets = {{}, {k3}}
  Deletable = {k1}
  UniqueKeys = TRUE
  Buckets = {0}
  BucketOf <- OneBucket
  CABucket = 0
  MaxFiles = 4
  MaxChanges = 4
SPECIFICATION Spec
CHECK_DEADLOCK FALSE
INVARIANTS TypeOK MapsInverse AuthSound TrustedKeyReachable CertificatesFiled
