\* One process that restarts or evicts, Redis survives; distinct customers, dev mode.
SPECIFICATION Spec
CONSTANTS
  a1 = a1 a2 = a2 s1 = s1 s2 = s2 d1 = d1 d2 = d2 n1 = n1 n2 = n2 n3 = n3 did = did
  None = None
  Process = {p1}
  Auth = {a1, a2}
  Stream = {s1}
  Sid = {d1, d2}
  Phone = {n1, n2, n3, did}
  PhoneOf <- DistinctPhoneOf
  SidOf <- MCSidOf
  CallOf <- DistinctCall
  StreamSid <- DistinctSid
  StreamPhones <- DistinctPhones
  ExactCase = {s1}
  UrlResolved = {}
  SuffixOf <- MCSuffixOf
  Required = FALSE
  UseRedis = TRUE
  Capacity = 1
  PhoneWindow = 3
  MaxRestarts = 1
INVARIANTS OwnCallOnly
CHECK_DEADLOCK FALSE
