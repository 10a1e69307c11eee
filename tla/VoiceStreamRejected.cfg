\* One stream, every order of its events.
SPECIFICATION Spec
CONSTANTS
  UploadMayFail = FALSE
INVARIANTS RejectedNotRecorded
CHECK_DEADLOCK FALSE
