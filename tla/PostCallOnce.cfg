\* One finalizer, and one rejection of the transcription request.
SPECIFICATION Spec
CONSTANTS
  Utterance = {u1}
  Recording = rec
  Finalizer = {f1}
  LateDrafts = FALSE
  FailAt = {"transcribe"}
  MaxFaults = 1
INVARIANTS ResultAtMostOnce
CHECK_DEADLOCK FALSE
