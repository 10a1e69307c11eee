\* Two processes sharing Redis, two streams of one call.
SPECIFICATION Spec
CONSTANTS
  a1 = a1 a2 = a2 s1 = s1 s2 = s2 d1 = d1 d2 = d2 n1 = n1 n2 = n2 n3 = n3 did = did
  None = None
  Process = {p1, p2}
  Auth = {a1}
  Stream = {s1, s2}
  Sid = {d1, d2}
  Phone = {n1, n2, n3, did}
  PhoneOf <- ContendedPhoneOf
  SidOf <- MCSidOf
  CallOf <- ContendedCall
  StreamSid <- ContendedSid
  StreamPhones <- ContendedPhones
  ExactCase = {s1}
  UrlResolved = {}
  SuffixOf <- MCSuffixOf
  Required = TRUE
  UseRedis = TRUE
  Capacity = 2
  PhoneWindow = 3
  MaxRestarts = 0
INVARIANTS AtMostOneGrant
CHECK_DEADLOCK FALSE
