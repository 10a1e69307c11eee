\* Two concurrent requests with one externalRef, nothing fails.
SPECIFICATION Spec
CONSTANTS
  r1 = r1 r2 = r2 r3 = r3 x = x y = y
  None = None Error = Error
  Request = {r1, r2}
  Ref = {x}
  Phone = {1}
  RefOf <- TwinRefOf
  PhoneOf <- MCPhoneOf
  MaxFaults = 0
INVARIANTS DialledOnce
CHECK_DEADLOCK FALSE
