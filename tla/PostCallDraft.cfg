\* One draft segment that the database rejects during the call.
SPECIFICATION Spec
CONSTANTS
  Utterance = {u1}
  Recording = rec
  Finalizer = {f1}
  LateDrafts = FALSE
  FailAt = {"draftCreate"}
  MaxFaults = 1
INVARIANTS ResultAfterCallEnds
CHECK_DEADLOCK FALSE
