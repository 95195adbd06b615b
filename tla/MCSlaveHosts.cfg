CONSTANTS
  h1 = h1
  hm = hm
  c1 = c1
  c2 = c2
  c3 = c3
  c4 = c4
  Malformed = Malformed
  Hosts = {h1, hm}
  MasterHost = hm
  MasterAdvertised = TRUE
  Clients = {c1, c2, c3, c4}
  ClientHeader <- MCHeader
  RandValues <- MCRandSafe
  RAND_MAX = 2147483647
SPECIFICATION Spec
INVARIANT TypeOK
INVARIANT RefCountsExact
PROPERTY AbstractSpec
