------------------------------- MODULE MCVoice -------------------------------
(* Seven components of the voice process on one small instance each, for     *)
(* TLC.  A behaviour is one of the component named by part (VoiceStream:   *)
(* "stream"); the variables of the others keep one initial value of theirs. *)
EXTENDS VoiceStream, TLC

CONSTANTS
  None,
  Sid, Phone, Dial, DialSid, DialPhone, Stream, StreamSid, StreamPhones,
  MaxSessions, MaxStarts,                        \* RuntimeSessions
  Socket, Call, CallOf, ByFrame, MaxRecent,      \* ExotelStreams
  PerMs, Lengths, MaxClock, MaxChunks,           \* RecordingTimeline
  Counts,                                        \* LanguageLock
  Ratio, Chunk, MaxResponses, MaxSamples,        \* OutboundAudio
  MaxAnswers, Deltas, MaxOut                     \* AssistantTranscript

CONSTANTS d1, d2, c2, p, did, t1, t2, c

VARIABLES
  part,
  sessions, info, byKey, byPhone, cleanups, runtimeEndings, stream, displaced,
  sock, routed, ses, reg, auth, runtimeIds, rec, exotelFin,
  clock, state, cursor, chunks, length,
  lock, hindiTurns, otherTurns, last, previous,
  pcm, response, generated, phase, inProgress, cancelSent, remainder,
  buffer, sent, intact, closed,
  words, out, openai, segments, kept, barged, told, acked, strayed

sessionsVars == <<sessions, info, byKey, byPhone, cleanups, runtimeEndings, stream, displaced>>
exotelVars == <<sock, routed, ses, reg, auth, runtimeIds, rec, exotelFin>>
timelineVars == <<clock, state, cursor, chunks, length>>
languageVars == <<lock, hindiTurns, otherTurns, last, previous>>
outboundVars == <<pcm, response, generated, phase, inProgress, cancelSent, remainder,
                  buffer, sent, intact, closed>>
transcriptVars == <<words, out, openai, segments, kept, barged, told, acked, strayed>>
allVars == <<part, vars, sessionsVars, exotelVars, timelineVars, languageVars,
             outboundVars, transcriptVars>>

RS == INSTANCE RuntimeSessions WITH endings <- runtimeEndings
EX == INSTANCE ExotelStreams WITH runtime <- runtimeIds, fin <- exotelFin
RT == INSTANCE RecordingTimeline
LL == INSTANCE LanguageLock
OA == INSTANCE OutboundAudio
AT == INSTANCE AssistantTranscript WITH MaxResponses <- MaxAnswers, s <- words

ASSUME VoiceAssumptions ==
  /\ RS!RuntimeSessionsAssumption /\ RS!EntryAssumption
  /\ EX!ExotelStreamsAssumption /\ EX!IdAssumption
  /\ RT!TimelineAssumption /\ LL!CountsAssumption /\ OA!OutboundAssumption
  /\ AT!BoundsAssumption

\* d1 is dialled by Exotel, without a call SID, d2 by Smartflo; one customer.
MCDialSid == d1 :> None @@ d2 :> c2
MCDialPhone == [d \in Dial |-> p]
\* t1 names a SID that no prewarm had, and its numbers the other way round.
MCStreamSid == [t \in Stream |-> IF t = t1 THEN None ELSE c2]
MCStreamPhones == [t \in Stream |-> IF t = t1 THEN <<did, p>> ELSE <<p, did>>]
\* Both sockets are of one call.
MCCallOf == [w \in Socket |-> c]
\* Words of a transcript by kind.
MCCounts == [dev |-> 0..3, latin |-> 0..6, english |-> 0..4, other |-> 0..2]

MCInit ==
  /\ part \in {"stream", "sessions", "exotel", "timeline", "language", "outbound",
               "transcript"}
  /\ Init /\ RS!Init /\ EX!Init /\ RT!Init /\ LL!Init /\ AT!Init
  /\ OA!Init /\ (part # "outbound" => pcm)

MCNext ==
  \/ /\ part = "stream" /\ Next
     /\ UNCHANGED <<part, transcriptVars, sessionsVars, exotelVars, timelineVars,
                    languageVars, outboundVars>>
  \/ /\ part = "sessions" /\ RS!Next
     /\ UNCHANGED <<part, transcriptVars, vars, exotelVars, timelineVars,
                    languageVars, outboundVars>>
  \/ /\ part = "exotel" /\ EX!Next
     /\ UNCHANGED <<part, transcriptVars, vars, sessionsVars, timelineVars,
                    languageVars, outboundVars>>
  \/ /\ part = "timeline" /\ RT!Next
     /\ UNCHANGED <<part, transcriptVars, vars, sessionsVars, exotelVars,
                    languageVars, outboundVars>>
  \/ /\ part = "language" /\ LL!Next
     /\ UNCHANGED <<part, transcriptVars, vars, sessionsVars, exotelVars,
                    timelineVars, outboundVars>>
  \/ /\ part = "outbound" /\ OA!Next
     /\ UNCHANGED <<part, transcriptVars, vars, sessionsVars, exotelVars,
                    timelineVars, languageVars>>
  \/ /\ part = "transcript" /\ AT!Next
     /\ UNCHANGED <<part, vars, sessionsVars, exotelVars, timelineVars, languageVars,
                    outboundVars>>

\* The fairness of VoiceStream, RuntimeSessions and ExotelStreams.
MCFairness ==
  /\ \A f \in Finalizer : WF_vars(part = "stream" /\ Finalize(f))
  /\ WF_sessionsVars(part = "sessions" /\ RS!Due)
  /\ WF_exotelVars(part = "exotel" /\ \E w \in Socket : EX!FinalizerSteps(w))

MCSpec == MCInit /\ [][MCNext]_allVars /\ MCFairness

-----------------------------------------------------------------------------
(* What the modules promise (UploadedOnce, EndedOnce, HandedOver and        *)
(* RuntimeReleased are VoiceStream's own).                                  *)

\* The expiry of a prewarm ends no session that has taken a call.
ExpirySparesCalls == RS!ExpirySparesCalls

\* A prewarmed session that no call takes is closed.
UnusedPrewarmCloses == RS!UnusedPrewarmCloses

\* A stream of the realtime runtime is served by the session under its id, and
\* the audio for an id goes to the socket whose session has that id.
TablesAgree == RS!StreamIsServed /\ EX!RegistersAgree

\* A stream whose socket has gone is forgotten everywhere.
GoneIsForgotten == EX!GoneIsForgotten

\* No sample of the call is lost: not from the recording, and not from the
\* answers of the realtime session that are spoken to their end.
AudioKept == RT!SamplesKept /\ OA!OutboundWhole

\* The language is locked by what the customer speaks.
LockFollowsCustomer == LL!LockFollowsCustomer

\* What the live transcript and the next answer say of the assistant's words is
\* what the customer was told, whichever way an answer is cut off.
AssistantQuoted == AT!AnswersRecorded /\ AT!CutIsTold
=============================================================================
