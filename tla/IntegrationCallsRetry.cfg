\* Two requests with one externalRef and a third with another, one query rejects.
SPECIFICATION FairSpec
CONSTANTS
  r1 = r1 r2 = r2 r3 = r3 x = x y = y
  None = None Error = Error
  Request = {r1, r2, r3}
  Ref = {x, y}
  Phone = {1}
  RefOf <- MCRefOf
  PhoneOf <- MCPhoneOf
  MaxFaults = 1
INVARIANTS AnswerRang ResendNeverDials
PROPERTIES IdempotentCalls AnsweredIsAuthorised RequestAnswered
CHECK_DEADLOCK FALSE
