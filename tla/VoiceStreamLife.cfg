\* VoiceStream: one stream, every order of its events, uploads that may fail.
\* RuntimeSessions: one customer dialled through either provider, two streams,
\* three sessions.  ExotelStreams: two sockets of one call.  RecordingTimeline:
\* three chunks.  LanguageLock: transcripts of up to fifteen words.
\* OutboundAudio: two responses of up to seven samples.  AssistantTranscript: two
\* responses of up to two deltas.
SPECIFICATION MCSpec
CONSTANTS
  d1 = d1 d2 = d2 c2 = c2 p = p did = did t1 = t1 t2 = t2 c = c
  UploadMayFail = TRUE
  None = None
  Sid = {c2}
  Phone = {p, did}
  Dial = {d1, d2}
  DialSid <- MCDialSid
  DialPhone <- MCDialPhone
  Stream = {t1, t2}
  StreamSid <- MCStreamSid
  StreamPhones <- MCStreamPhones
  MaxSessions = 3
  MaxStarts = 2
  Socket = {w1, w2}
  Call = {c}
  CallOf <- MCCallOf
  ByFrame = {w2}
  MaxRecent = 1
  PerMs = 2
  Lengths = {1, 3}
  MaxClock = 1
  MaxChunks = 3
  Counts <- MCCounts
  Ratio = 3
  Chunk = 2
  MaxResponses = 2
  MaxSamples = 7
  MaxAnswers = 2
  Deltas = 2
  MaxOut = 3
INVARIANTS UploadedOnce EndedOnce TablesAgree AudioKept AssistantQuoted
PROPERTIES HandedOver RuntimeReleased ExpirySparesCalls UnusedPrewarmCloses GoneIsForgotten
PROPERTIES LockFollowsCustomer
CHECK_DEADLOCK FALSE
