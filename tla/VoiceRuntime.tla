----------------------------- MODULE VoiceRuntime -----------------------------
(***************************************************************************)
(* One session of OpenAiRealtimeProvider: the opening greeting, the turns  *)
(* of the conversation, barge-in, the end of the call on the customer's    *)
(* word, and endSession.                                                   *)
(*                                                                         *)
(* Every handler runs to its end without an await, so each is one step and *)
(* is written as an operator from the session record to the next one.      *)
(* OpenAI (external) is only what the provider relies on: it runs one      *)
(* response at a time, answers or refuses what it is sent, in order, and   *)
(* in server_vad mode may start a response of its own.  The frames to it   *)
(* are the queue s.out; a frame from it is handled in the step that sends  *)
(* it, which loses no order of events: both directions are FIFO, so the    *)
(* delay of one can be counted with the delay of the other.                *)
(*                                                                         *)
(* Time is left out: an armed timer may fire at any moment.  Audio is      *)
(* packets that are loud (speech-like) or not.                             *)
(***************************************************************************)
EXTENDS Naturals, Sequences

CONSTANTS
  Vads,          \* values of OPENAI_REALTIME_SERVER_VAD
  Fallbacks,     \* values of the speak-first fallback flag
  SpeechMin,     \* packets of speech that make a customer's turn
  MaxRetries,    \* OPENING_READINESS_MAX_RETRIES
  MaxResponses,  \* bound: responses OpenAI starts
  MaxTranscripts,\* bound: transcripts of the customer
  MaxOut         \* bound: frames on their way to OpenAI

ASSUME VoiceRuntimeAssumption ==
  /\ Vads \subseteq BOOLEAN /\ Fallbacks \subseteq BOOLEAN
  /\ SpeechMin \in Nat \ {0}
  /\ MaxRetries \in Nat
  /\ MaxResponses \in Nat \ {0}
  /\ MaxTranscripts \in Nat
  /\ MaxOut \in Nat \ {0}

None == "none"

Timer == {"openingTimeout", "openingReadinessRetry", "instructionReady",
          "commit", "hangup", "callEndMaxWait"}

OpeningState == {"disabled", "waiting_for_openai_ready", "ready_to_speak",
                 "opening_response_requested", "opening_audio_playing",
                 "opening_done", "failed"}

\* What one packet of the customer's audio is: silence, silence in the window of
\* isWithinPostOpeningSpeechGate, speech, or speech in the echo-tail window of
\* shouldIgnoreCustomerInterrupt.
Sound == {"silence", "gated", "speech", "echo"}

ResponseSource == {"opening", "customer_speech", "call_end_ack", "session_end",
                   "server_vad"}

VARIABLES
  s,        \* the OpenAiRealtimeSession
  socket,   \* the stream's WebSocket is in voiceSocketRegistry and open
  openai,   \* external: what OpenAI is doing
  greeted,  \* history: responses that greeted the caller and were heard
  fresh     \* history: speech went to OpenAI, and no response or request since

vars == <<s, socket, openai, greeted, fresh>>

\* startOpenAiSession, for a stream that has started or as a prewarm.
NewSession(speakFirst, vad, fallback, started) ==
  [aiSpeakFirstEnabled |-> speakFirst, useServerVad |-> vad,
   fallback |-> fallback, smartfloStartReceived |-> started,
   ws |-> "connecting", openAiSessionCreated |-> FALSE,
   sessionUpdateSent |-> FALSE, openAiSessionUpdated |-> FALSE,
   sessionReady |-> FALSE, playbookLookup |-> FALSE,
   openingState |-> IF speakFirst THEN "waiting_for_openai_ready"
                                  ELSE "disabled",
   openingGreetingComplete |-> ~speakFirst, openingGreetingPending |-> FALSE,
   greetingActuallySent |-> FALSE, openingIsCurrentResponse |-> FALSE,
   openingAudioDeltaReceived |-> FALSE, responseMulawSent |-> FALSE,
   readinessRetries |-> 0,
   ignoringInbound |-> FALSE, availabilityHandled |-> FALSE,
   responseRequested |-> FALSE, responseInProgress |-> FALSE,
   responseComplete |-> FALSE, authorizedSource |-> None,
   activeSource |-> None, responseId |-> 0, cancelSentFor |-> 0,
   awaitingCustomerInput |-> FALSE, customerTurnConfirmed |-> FALSE,
   allowNextServerVad |-> FALSE, bargeIn |-> FALSE,
   speech |-> 0, held |-> FALSE, validSpeech |-> FALSE,
   audioAppended |-> FALSE, everAppended |-> FALSE, queued |-> FALSE,
   callEndDetected |-> FALSE, streamClosed |-> FALSE, appendedNow |-> FALSE,
   closing |-> FALSE, ending |-> "no", timers |-> {}, out |-> <<>>]

Init ==
  /\ \E speakFirst, started \in BOOLEAN, vad \in Vads, fallback \in Fallbacks :
       /\ started \/ speakFirst
       /\ s = NewSession(speakFirst, vad, fallback, started)
  /\ socket = FALSE
  /\ openai = [active |-> 0, opening |-> FALSE, made |-> 0, transcripts |-> 0]
  /\ greeted = {}
  /\ fresh = FALSE

-----------------------------------------------------------------------------
(* Small updates of the session.                                           *)

Arm(t, x) == [x EXCEPT !.timers = @ \cup {t}]
Disarm(ts, x) == [x EXCEPT !.timers = @ \ ts]

\* ws.send: nothing leaves a socket that is not open.
Send(frame, x) ==
  IF x.ws = "open" THEN [x EXCEPT !.out = Append(@, frame)] ELSE x

IsAiTurnActive(x) == x.responseInProgress \/ x.responseRequested

ResetSpeechTurnState(x) ==
  [x EXCEPT !.speech = 0, !.held = FALSE, !.validSpeech = FALSE,
            !.audioAppended = FALSE]

ResetResponseGuards(x) ==
  ResetSpeechTurnState(
    [x EXCEPT !.responseRequested = FALSE, !.responseInProgress = FALSE])

SetAwaitingCustomerInput(x) ==
  IF x.awaitingCustomerInput
  THEN x
  ELSE [x EXCEPT !.awaitingCustomerInput = TRUE,
                 !.customerTurnConfirmed = FALSE,
                 !.allowNextServerVad = FALSE, !.bargeIn = FALSE]

ConfirmCustomerTurn(x) ==
  [x EXCEPT !.customerTurnConfirmed = TRUE, !.allowNextServerVad = TRUE,
            !.awaitingCustomerInput = FALSE]

ShouldAllowResponseCreate(x, source) ==
  /\ ~IsAiTurnActive(x)
  /\ \/ source \in {"opening", "call_end_ack", "session_end"}
     \/ x.customerTurnConfirmed

\* Only called when ShouldAllowResponseCreate holds.
SendResponseCreate(source, x) ==
  Send([type |-> "create", source |-> source],
       [x EXCEPT !.responseRequested = TRUE, !.authorizedSource = source,
                 !.bargeIn = FALSE])

\* scheduleSessionInstructionReadyFallback
ScheduleInstructionReady(x) ==
  IF x.openAiSessionUpdated \/ x.closing THEN x ELSE Arm("instructionReady", x)

\* sendSessionUpdate after its await.  OpenAI's answer to an update that is
\* sent once the session is ready changes nothing, so that frame is left out.
SendSessionUpdate(x) ==
  ScheduleInstructionReady(
    [(IF x.openAiSessionUpdated
      THEN x ELSE Send([type |-> "update", source |-> None], x))
       EXCEPT !.sessionUpdateSent = TRUE, !.playbookLookup = FALSE])

\* `void sendSessionUpdate(..., 'conversation')`, which first awaits the playbook
LookUpPlaybook(x) ==
  [x EXCEPT !.playbookLookup =
              @ \/ (x.ws = "open" /\ ~x.openAiSessionUpdated)]

-----------------------------------------------------------------------------
(* The opening greeting.                                                   *)

ActivateNormalModeAfterOpening(x, failed) ==
  IF ~failed /\ (x.openingGreetingComplete \/ ~x.greetingActuallySent)
  THEN x
  ELSE Disarm({"openingTimeout"},
         ResetSpeechTurnState(
           [LookUpPlaybook(x) EXCEPT !.openingGreetingComplete = TRUE,
                     !.openingGreetingPending = FALSE,
                     !.openingIsCurrentResponse = FALSE,
                     !.queued = FALSE,
                     !.responseRequested = FALSE,
                     !.responseInProgress = FALSE,
                     !.ignoringInbound = TRUE,
                     !.openingState = IF failed THEN @ ELSE "opening_done"]))

FailOpeningWithFallback(x) ==
  LET failed ==
        Disarm({"openingTimeout", "openingReadinessRetry", "instructionReady"},
          [x EXCEPT !.openingGreetingPending = FALSE,
                    !.openingIsCurrentResponse = FALSE,
                    !.responseRequested = FALSE,
                    !.responseInProgress = FALSE,
                    !.queued = FALSE,
                    !.openingState = "failed"])
  IN IF x.fallback THEN ActivateNormalModeAfterOpening(failed, TRUE) ELSE failed

CompleteOpeningGreeting(x) ==
  IF x.openingGreetingComplete \/ ~x.aiSpeakFirstEnabled
  THEN x
  ELSE ActivateNormalModeAfterOpening(x, FALSE)

StartConversationWithGreeting(x) ==
  IF \/ ~x.aiSpeakFirstEnabled \/ x.closing
     \/ x.openingGreetingComplete \/ x.greetingActuallySent
     \/ x.openingAudioDeltaReceived \/ x.openingGreetingPending
  THEN x
  ELSE IF x.ws # "open"
  THEN FailOpeningWithFallback(x)
  ELSE Arm("openingTimeout",
         SendResponseCreate("opening",
           [x EXCEPT !.openingGreetingPending = TRUE,
                     !.openingIsCurrentResponse = TRUE,
                     !.openingState = "opening_response_requested",
                     !.greetingActuallySent = TRUE]))

\* Mutants: one retry too many; retries that run out are forgotten.
RetryOnceMore(x) ==
  IF \/ "openingReadinessRetry" \in x.timers \/ x.greetingActuallySent
     \/ x.openingGreetingComplete \/ x.closing
  THEN x
  ELSE IF x.readinessRetries > MaxRetries
  THEN FailOpeningWithFallback(x)
  ELSE Arm("openingReadinessRetry", [x EXCEPT !.readinessRetries = @ + 1])

RetriesRunOut(x) ==
  IF \/ "openingReadinessRetry" \in x.timers \/ x.greetingActuallySent
     \/ x.openingGreetingComplete \/ x.closing
     \/ x.readinessRetries >= MaxRetries
  THEN x
  ELSE Arm("openingReadinessRetry", [x EXCEPT !.readinessRetries = @ + 1])

ScheduleOpeningReadinessRetry(x) ==
  IF \/ "openingReadinessRetry" \in x.timers \/ x.greetingActuallySent
     \/ x.openingGreetingComplete \/ x.closing
  THEN x
  ELSE IF x.readinessRetries >= MaxRetries
  THEN FailOpeningWithFallback(x)
  ELSE Arm("openingReadinessRetry", [x EXCEPT !.readinessRetries = @ + 1])

\* getOpeningSkipReason = null
OpeningReady(x, bound) ==
  /\ x.smartfloStartReceived /\ bound /\ x.ws = "open"
  /\ x.openAiSessionCreated /\ x.openAiSessionUpdated
  /\ ~IsAiTurnActive(x) /\ ~x.greetingActuallySent
  /\ x.openingState \in {"waiting_for_openai_ready", "ready_to_speak"}

\* shouldRetryOpeningReadiness of the first reason that applies
ShouldRetryOpeningReadiness(x, bound) ==
  /\ x.smartfloStartReceived
  /\ \/ ~bound
     \/ /\ x.ws = "open"
        /\ \/ ~x.openAiSessionCreated \/ ~x.openAiSessionUpdated
           \/ IsAiTurnActive(x)

EvaluateOpeningReadiness(x, bound) ==
  LET ready == [x EXCEPT !.openingState =
                  IF @ = "waiting_for_openai_ready" /\ x.openAiSessionUpdated
                  THEN "ready_to_speak" ELSE @]
  IN IF ~x.aiSpeakFirstEnabled
     THEN x
     ELSE IF OpeningReady(ready, bound)
     THEN StartConversationWithGreeting(Disarm({"openingReadinessRetry"}, ready))
     ELSE IF ShouldRetryOpeningReadiness(ready, bound)
     THEN ScheduleOpeningReadinessRetry(ready)
     ELSE ready

MarkOpenAiInstructionReady(x, bound) ==
  IF x.openAiSessionUpdated
  THEN x
  ELSE EvaluateOpeningReadiness(
         Disarm({"instructionReady", "openingReadinessRetry"},
           [x EXCEPT !.openAiSessionUpdated = TRUE, !.sessionReady = TRUE,
                     !.readinessRetries = 0]),
         bound)

MaybeRetryOpeningGreetingAfterResponse(x) ==
  IF IsAiTurnActive(x) THEN x ELSE StartConversationWithGreeting(x)

InterruptedOpening(x) ==
  x.openingIsCurrentResponse /\ ~x.openingGreetingComplete

OpeningResponseHadAudio(x) ==
  x.openingAudioDeltaReceived \/ x.responseMulawSent

\* finalizeInterruptedOpeningIfNeeded finds audio and completes the opening
FinalizeInterruptedOpening(x) ==
  CompleteOpeningGreeting(
    [x EXCEPT !.openingGreetingPending = FALSE,
              !.openingIsCurrentResponse = FALSE, !.activeSource = None])

-----------------------------------------------------------------------------
(* The customer's audio.                                                   *)

\* appendInputAudioChunk, of everything held back so far
AppendInputAudio(x) ==
  IF x.ws # "open"
  THEN [x EXCEPT !.held = FALSE, !.queued = TRUE]
  ELSE [x EXCEPT !.held = FALSE, !.audioAppended = TRUE,
                 !.everAppended = TRUE, !.appendedNow = TRUE]

ScheduleInputCommit(x) ==
  IF x.closing \/ x.useServerVad \/ IsAiTurnActive(x)
  THEN x ELSE Arm("commit", x)

CountSpeech(x) ==
  [x EXCEPT !.speech = IF @ < SpeechMin THEN @ + 1 ELSE @, !.held = TRUE]

HasEnoughSpeech(x) == x.speech >= SpeechMin

\* tryCancelInterruptedResponse, after sendClear and the truncation
CancelInterruptedResponse(x) ==
  IF x.responseId # 0 /\ x.cancelSentFor = x.responseId
  THEN x
  ELSE Send([type |-> "cancel", source |-> None],
            [x EXCEPT !.cancelSentFor = x.responseId])

IsSilence(sound) == sound \in {"silence", "gated"}

\* accumulateInboundDuringPostOpeningIgnore
AccumulateDuringIgnore(x, sound) ==
  IF IsSilence(sound) THEN x
  ELSE LET y == CountSpeech(x)
       IN [y EXCEPT !.validSpeech = @ \/ HasEnoughSpeech(y)]

TryForwardAccumulatedSpeech(x) ==
  IF ~(x.held /\ HasEnoughSpeech(x) /\ x.validSpeech)
  THEN x
  ELSE ScheduleInputCommit(AppendInputAudio(
         IF x.awaitingCustomerInput /\ ~x.customerTurnConfirmed
         THEN ConfirmCustomerTurn(x) ELSE x))

\* A loud packet.
HearSpeech(x, echo) ==
  LET y == CountSpeech(x)
      interrupts == IsAiTurnActive(y) /\ ~y.bargeIn
      confirmed ==
        IF interrupts
        THEN ConfirmCustomerTurn(
               CancelInterruptedResponse([y EXCEPT !.bargeIn = TRUE]))
        ELSE IF y.awaitingCustomerInput THEN ConfirmCustomerTurn(y) ELSE y
  IN IF ~HasEnoughSpeech(y) \/ (interrupts /\ (~y.responseInProgress \/ echo))
     THEN y
     ELSE ScheduleInputCommit(
            AppendInputAudio([confirmed EXCEPT !.validSpeech = TRUE]))

HearSilence(x) ==
  IF \/ IsAiTurnActive(x) /\ ~x.bargeIn
     \/ x.awaitingCustomerInput /\ ~x.customerTurnConfirmed
  THEN IF x.awaitingCustomerInput /\ ~x.customerTurnConfirmed
       THEN [x EXCEPT !.held = FALSE, !.speech = 0] ELSE x
  ELSE IF ~x.validSpeech
  THEN [x EXCEPT !.held = FALSE, !.speech = 0]
  ELSE AppendInputAudio(x)

\* post_opening_waiting_for_speech; how long the gate is open, and whether an
\* earlier packet was accepted, is left to the choice of the packet.
WaitsForSpeech(x, sound) ==
  sound = "gated" /\ x.aiSpeakFirstEnabled /\ x.openingGreetingComplete

\* shouldQueueInboundUntilOpeningComplete and shouldSuppressOpeningInbound
QueuesInbound(x) ==
  /\ x.aiSpeakFirstEnabled /\ ~x.openingGreetingComplete
  /\ x.openingState \in {"waiting_for_openai_ready", "ready_to_speak"}
SuppressesInbound(x) ==
  /\ x.aiSpeakFirstEnabled /\ ~x.openingGreetingComplete
  /\ x.openingState \in {"opening_response_requested", "opening_audio_playing"}

AppendInput(x, sound) ==
  IF QueuesInbound(x) THEN [x EXCEPT !.queued = TRUE]
  ELSE IF SuppressesInbound(x) THEN x
  ELSE IF x.ignoringInbound THEN AccumulateDuringIgnore(x, sound)
  ELSE LET y == TryForwardAccumulatedSpeech(x)
       IN IF WaitsForSpeech(y, sound) THEN y
          ELSE IF IsSilence(sound) THEN HearSilence(y)
          ELSE HearSpeech(y, sound = "echo")

FlushPendingInput(x, sound) ==
  IF x.queued THEN AppendInput([x EXCEPT !.queued = FALSE], sound) ELSE x

FlushPendingInputIfReady(x, sound) ==
  IF x.aiSpeakFirstEnabled /\ ~x.openingGreetingComplete
  THEN x ELSE FlushPendingInput(x, sound)

\* commitInputAndCreateResponse; recent: the speech is not too old
CommitInputAndCreateResponse(x, source, recent) ==
  IF x.ws # "open" \/ ~ShouldAllowResponseCreate(x, source)
  THEN x
  ELSE IF ~x.audioAppended \/ ~x.validSpeech \/ ~recent \/ ~HasEnoughSpeech(x)
  THEN Disarm({"commit"}, x)
  ELSE SendResponseCreate(source, x)

-----------------------------------------------------------------------------
(* The end of the call.                                                    *)

ScheduleHangupAfterCompletion(x) ==
  IF x.closing \/ "hangup" \in x.timers
  THEN x ELSE Arm("hangup", Disarm({"callEndMaxWait"}, x))

RequestCallEndAcknowledgement(x) ==
  IF x.ws # "open" \/ ~ShouldAllowResponseCreate(x, "call_end_ack")
  THEN ScheduleHangupAfterCompletion(x)
  ELSE SendResponseCreate("call_end_ack", x)

IsAwaitingAvailability(x) ==
  x.aiSpeakFirstEnabled /\ x.openingGreetingComplete /\ ~x.availabilityHandled

\* Mutant: no maximum wait for the response that is playing.
GoodbyeWithoutMaxWait(x) ==
  LET y == [x EXCEPT !.callEndDetected = TRUE]
  IN IF x.callEndDetected \/ (IsAwaitingAvailability(x) /\ ~x.validSpeech)
     THEN x
     ELSE IF IsAiTurnActive(y) \/ y.openingGreetingPending
     THEN y
     ELSE RequestCallEndAcknowledgement(y)

MarkCustomerCallEndDetected(x) ==
  LET y == Arm("callEndMaxWait", [x EXCEPT !.callEndDetected = TRUE])
  IN IF x.callEndDetected \/ (IsAwaitingAvailability(x) /\ ~x.validSpeech)
     THEN x
     ELSE IF IsAiTurnActive(y) \/ y.openingGreetingPending
     THEN y
     ELSE RequestCallEndAcknowledgement(y)

\* input_audio_transcription.completed; bye: detectCustomerCallEndIntent
HearTranscript(x, echo, bye, recent) ==
  LET confirmed == IF x.customerTurnConfirmed THEN x ELSE ConfirmCustomerTurn(x)
      answered ==
        IF x.useServerVad /\ ~IsAiTurnActive(x) /\ x.audioAppended
        THEN CommitInputAndCreateResponse(
               [confirmed EXCEPT !.allowNextServerVad = TRUE],
               "customer_speech", recent)
        ELSE confirmed
      handled == [answered EXCEPT !.availabilityHandled =
                    @ \/ bye \/ IsAwaitingAvailability(answered)]
  IN IF echo \/ (IsAiTurnActive(x) /\ ~x.bargeIn)
     THEN x
     ELSE IF bye THEN MarkCustomerCallEndDetected(handled) ELSE handled

-----------------------------------------------------------------------------
(* Frames from OpenAI.                                                     *)

SessionCreated(x, bound) ==
  LET y == [x EXCEPT !.openAiSessionCreated = TRUE]
      z == IF ~y.sessionUpdateSent THEN y
           ELSE IF y.aiSpeakFirstEnabled /\ y.smartfloStartReceived
           THEN MarkOpenAiInstructionReady(y, bound)
           ELSE ScheduleInstructionReady(y)
  IN EvaluateOpeningReadiness(z, bound)

ResponseCreated(x, id) ==
  LET authorized == \/ x.authorizedSource # None
                    \/ x.allowNextServerVad \/ x.customerTurnConfirmed
      source == IF x.authorizedSource # None THEN x.authorizedSource
                                             ELSE "server_vad"
  IN IF ~authorized
     THEN Send([type |-> "cancel", source |-> None], x)
     ELSE [x EXCEPT !.authorizedSource = None, !.allowNextServerVad = FALSE,
                    !.responseInProgress = TRUE, !.responseComplete = FALSE,
                    !.responseId = id, !.activeSource = source,
                    !.responseMulawSent = FALSE,
                    !.openingGreetingPending =
                      @ /\ source # "opening" /\ ~x.openingIsCurrentResponse]

\* framed: the audio held back fills a frame, and currentResponseMulawSent
\* grows; kept while openingResponseHadAudio may still need it.
OutputAudioDelta(x, framed) ==
  LET heard == \/ x.openingAudioDeltaReceived
               \/ x.openingIsCurrentResponse \/ x.activeSource = "opening"
  IN [x EXCEPT !.openingAudioDeltaReceived = heard,
               !.responseMulawSent =
                 @ \/ (framed /\ ~heard /\ ~x.openingGreetingComplete),
               !.openingState =
                 IF x.openingIsCurrentResponse /\ @ = "opening_response_requested"
                 THEN "opening_audio_playing" ELSE @]

\* Mutant: the speech of the turn that was answered is not forgotten.
DoneKeepsSpeech(x) ==
  LET y == [x EXCEPT !.responseInProgress = FALSE, !.responseComplete = TRUE,
                     !.responseRequested = FALSE, !.responseId = 0,
                     !.cancelSentFor = 0, !.activeSource = None]
  IN SetAwaitingCustomerInput(
       IF x.openingIsCurrentResponse THEN CompleteOpeningGreeting(y) ELSE y)

ResponseDone(x) ==
  LET wasOpening == \/ x.activeSource = "opening"
                    \/ x.openingIsCurrentResponse /\ x.greetingActuallySent
      y == ResetSpeechTurnState(
             [x EXCEPT !.responseInProgress = FALSE, !.responseComplete = TRUE,
                       !.responseRequested = FALSE, !.responseId = 0,
                       !.cancelSentFor = 0, !.activeSource = None])
      z == IF wasOpening /\ y.greetingActuallySent /\ ~y.openingGreetingComplete
           THEN CompleteOpeningGreeting([y EXCEPT !.openingIsCurrentResponse = FALSE])
           ELSE IF ~wasOpening
           THEN MaybeRetryOpeningGreetingAfterResponse(y)
           ELSE y
      w == SetAwaitingCustomerInput(z)
  IN IF w.callEndDetected THEN ScheduleHangupAfterCompletion(w) ELSE w

ResponseCancelled(x) ==
  LET y == IF ~InterruptedOpening(x) THEN x
           ELSE IF OpeningResponseHadAudio(x) THEN FinalizeInterruptedOpening(x)
           ELSE [x EXCEPT !.openingGreetingPending = FALSE,
                          !.openingIsCurrentResponse = FALSE,
                          !.activeSource = None, !.greetingActuallySent = FALSE]
  IN [ResetResponseGuards(y) EXCEPT !.responseId = 0]

\* Mutants: after an error the greeting is free to be sent again, heard or not;
\* an error ends the wait for the greeting and not the greeting.
ErrorGreetsAgain(x) ==
  EvaluateOpeningReadiness(
    ResetResponseGuards(
      [x EXCEPT !.openingGreetingPending = FALSE, !.activeSource = None,
                !.openingAudioDeltaReceived = FALSE,
                !.greetingActuallySent = FALSE,
                !.openingState = "ready_to_speak"]), TRUE)

ErrorForgetsTimeout(x) ==
  ResetResponseGuards(Disarm({"openingTimeout"}, [x EXCEPT !.activeSource = None]))

ErrorEvent(x) ==
  ResetResponseGuards(
    IF ~InterruptedOpening(x) THEN x
    ELSE IF OpeningResponseHadAudio(x) THEN FinalizeInterruptedOpening(x)
    ELSE FailOpeningWithFallback([x EXCEPT !.activeSource = None]))

\* ws.on('close'): the session stays in the map unless it is closing.
SocketClosed(x) ==
  LET y == ResetResponseGuards([x EXCEPT !.ws = "closed", !.timers = {},
                                         !.out = <<>>])
  IN IF /\ y.aiSpeakFirstEnabled /\ ~y.openingGreetingComplete
        /\ y.openingState # "failed" /\ ~y.closing
     THEN FailOpeningWithFallback(y) ELSE y

-----------------------------------------------------------------------------
(* Steps.                                                                  *)

\* One handler has run and left the session as y.
Step(y) ==
  /\ Len(y.out) <= MaxOut
  /\ s' = [y EXCEPT !.appendedNow = FALSE]
  /\ fresh' = (/\ y.appendedNow \/ fresh
               /\ ~ /\ y.authorizedSource = "customer_speech"
                    /\ s.authorizedSource # "customer_speech"
               /\ y.responseId \in {0, s.responseId})

Live == s.ending # "gone"

\* startOpenAiSession has returned; the call's stream registers its socket.
BindSocket ==
  /\ Live /\ ~socket /\ s.smartfloStartReceived
  /\ ~s.closing /\ ~s.streamClosed
  /\ socket' = TRUE
  /\ Step(EvaluateOpeningReadiness(s, TRUE))
  /\ UNCHANGED <<openai, greeted>>

\* adoptPrewarmSession
Adopt ==
  LET y == Disarm({"openingReadinessRetry"},
             [s EXCEPT !.smartfloStartReceived = TRUE, !.readinessRetries = 0])
      z == IF y.ws = "open" /\ y.openAiSessionUpdated
           THEN IF y.openingGreetingComplete
                THEN LookUpPlaybook(y) ELSE SendSessionUpdate(y)
           ELSE y
  IN /\ Live /\ ~s.smartfloStartReceived /\ ~s.closing
     /\ \E bound \in BOOLEAN :
          /\ socket' = bound
          /\ Step(EvaluateOpeningReadiness(z, bound))
     /\ UNCHANGED <<openai, greeted>>

\* handleAudio
Packet(sound) ==
  LET y == IF ~s.sessionReady \/ s.ws # "open"
           THEN [s EXCEPT !.queued = TRUE] ELSE AppendInput(s, sound)
  IN /\ Live /\ socket /\ ~s.closing
     /\ Step(y)
     /\ UNCHANGED <<socket, openai, greeted>>

\* The clock passes ignoreInboundAudioUntilMs.
IgnoreWindowEnds ==
  /\ s.ignoringInbound
  /\ Step([s EXCEPT !.ignoringInbound = FALSE])
  /\ UNCHANGED <<socket, openai, greeted>>

\* A timer fires and its callback runs.
Fires(t, y) ==
  /\ t \in s.timers
  /\ Step(y)
  /\ UNCHANGED <<socket, openai, greeted>>

ReadinessRetryFires ==
  Fires("openingReadinessRetry",
        EvaluateOpeningReadiness(Disarm({"openingReadinessRetry"}, s), socket))

InstructionReadyFires(sound) ==
  Fires("instructionReady",
        LET y == Disarm({"instructionReady"}, s)
        IN IF y.openAiSessionUpdated \/ y.closing
           THEN y
           ELSE FlushPendingInputIfReady(
                  MarkOpenAiInstructionReady(y, socket), sound))

OpeningTimeoutFires ==
  Fires("openingTimeout",
        LET y == Disarm({"openingTimeout"}, s)
        IN IF \/ y.closing \/ y.openingGreetingComplete
              \/ y.openingState \in {"opening_done", "failed"}
           THEN y ELSE FailOpeningWithFallback(y))

CommitFires(recent) ==
  Fires("commit", CommitInputAndCreateResponse(Disarm({"commit"}, s),
                                               "customer_speech", recent))

\* executeCallEndClose: audioGateway.closeStream, if the socket is registered
\* and open; the socket is then closing, and nothing more is taken from it.
ExecuteCallEndClose(t, closes) ==
  /\ t \in s.timers
  /\ Step([Disarm({t}, s) EXCEPT !.streamClosed = @ \/ (closes /\ socket)])
  /\ socket' = (socket /\ ~closes)
  /\ UNCHANGED <<openai, greeted>>

HangupFires == ExecuteCallEndClose("hangup", ~s.closing)

\* Mutant: the callback does not look at closing.
MaxWaitAnyway ==
  ExecuteCallEndClose("callEndMaxWait", "hangup" \notin s.timers)

CallEndMaxWaitFires ==
  ExecuteCallEndClose("callEndMaxWait", ~s.closing /\ "hangup" \notin s.timers)

\* The awaited lookup of the playbook ends, and sendSessionUpdate goes on.
PlaybookResolved ==
  /\ Live /\ s.playbookLookup
  /\ Step(SendSessionUpdate(s))
  /\ UNCHANGED <<socket, openai, greeted>>

\* ws.on('open')
SocketOpens ==
  /\ Live /\ s.ws = "connecting"
  /\ LET y == [s EXCEPT !.ws = "open"]
     IN Step(IF y.aiSpeakFirstEnabled
             THEN SendSessionUpdate(y) ELSE LookUpPlaybook(y))
  /\ UNCHANGED <<socket, openai, greeted>>

\* ws.on('error') and the 'close' that follows it, or only the 'close'.
SocketEnds(error) ==
  LET x == [s EXCEPT !.ws = "closed"]
      y == IF /\ error /\ x.aiSpeakFirstEnabled
              /\ ~x.openingGreetingComplete /\ x.openingState # "failed"
           THEN FailOpeningWithFallback(x) ELSE x
  IN /\ Live /\ s.ws # "closed" /\ (error \/ s.ws = "open")
     /\ Step(SocketClosed(y))
     /\ openai' = [openai EXCEPT !.active = 0, !.opening = FALSE]
     /\ UNCHANGED <<socket, greeted>>

-----------------------------------------------------------------------------
(* endSession, between its awaits.                                         *)

\* What endSession does once the socket is open.
FlushAtEnd(x, sound, recent) ==
  LET flushed == FlushPendingInput([x EXCEPT !.sessionReady = TRUE], sound)
      y == IF \/ ~flushed.useServerVad
              \/ /\ ~flushed.responseComplete /\ ~flushed.responseInProgress
                 /\ flushed.everAppended
           THEN CommitInputAndCreateResponse(flushed, "session_end", recent)
           ELSE flushed
  IN [y EXCEPT !.ending = "waitResponse"]

\* After a stop event the stream's socket is still open, after a disconnect not.
\* An open OpenAI socket is not waited for, so the flush belongs to the same step.
EndSession(sound, recent) ==
  LET x == [s EXCEPT !.closing = TRUE, !.timers = {}, !.ending = "waitOpen"]
      y == IF x.ws = "open" THEN FlushAtEnd(x, sound, recent) ELSE x
  IN /\ Live /\ ~s.closing
     /\ Step(y)
     /\ socket' \in {socket, FALSE}
     /\ UNCHANGED <<openai, greeted>>

\* waitForWebSocketOpen says that a connecting socket has opened.
EndFlushes(sound, recent) ==
  /\ s.ending = "waitOpen" /\ s.ws = "open"
  /\ Step(FlushAtEnd(s, sound, recent))
  /\ UNCHANGED <<socket, openai, greeted>>

\* The socket is not open, or did not open within WS_OPEN_TIMEOUT_MS, or the
\* awaited response ended, or RESPONSE_WAIT_MS passed: ws.close() and
\* sessions.delete.  Nothing of the deleted session is kept.
EndDeletes ==
  /\ \/ s.ending = "waitOpen" /\ s.ws # "open"
     \/ s.ending = "waitResponse"
  /\ s' = [NewSession(FALSE, FALSE, FALSE, TRUE)
             EXCEPT !.ws = "closed", !.closing = TRUE, !.ending = "gone"]
  /\ openai' = [active |-> 0, opening |-> FALSE, made |-> 0, transcripts |-> 0]
  /\ fresh' = FALSE
  /\ UNCHANGED <<socket, greeted>>

-----------------------------------------------------------------------------
(* OpenAI (external), and handleServerMessage of each frame it sends.      *)

\* OpenAI goes on as o; the provider's handler of its frame leaves y.
Receives(o, y) ==
  /\ Live /\ s.ws = "open"
  /\ openai' = o
  /\ Step(y)
  /\ UNCHANGED socket

OpenAiCreatesSession ==
  /\ ~s.openAiSessionCreated
  /\ Receives(openai, SessionCreated(s, socket))
  /\ UNCHANGED greeted

\* The next response of OpenAI, and the one it has ended.
Responding(opening) ==
  [openai EXCEPT !.active = openai.made + 1, !.made = openai.made + 1,
                 !.opening = opening]
Free == openai.active = 0 /\ openai.made < MaxResponses
Silent == [openai EXCEPT !.active = 0, !.opening = FALSE]

\* OpenAI takes the next frame of the provider and answers it; a request of a
\* response may be refused, whether another one is running or not.
OpenAiTakes ==
  LET frame == Head(s.out)
      x == [s EXCEPT !.out = Tail(@)]
  IN /\ s.openAiSessionCreated /\ s.out # <<>>
     /\ \/ /\ frame.type = "update"
           /\ \E sound \in Sound :
                Receives(openai, FlushPendingInputIfReady(
                                   MarkOpenAiInstructionReady(x, socket), sound))
        \/ /\ frame.type = "create" /\ Free
           /\ Receives(Responding(frame.source = "opening"),
                       ResponseCreated(x, openai.made + 1))
        \/ /\ frame.type = "create"
           /\ Receives(openai, ErrorEvent(x))
        \/ /\ frame.type = "cancel" /\ openai.active # 0
           /\ Receives(Silent, ResponseCancelled(x)) \/ Receives(Silent, ResponseDone(x))
        \/ /\ frame.type = "cancel" /\ openai.active = 0
           /\ Receives(openai, ErrorEvent(x))
     /\ UNCHANGED greeted

OpenAiVadResponds ==
  /\ s.useServerVad /\ s.everAppended /\ Free
  /\ Receives(Responding(FALSE), ResponseCreated(s, openai.made + 1))
  /\ UNCHANGED greeted

\* Transcripts come when they are ready, before or after the response.
OpenAiTranscribes ==
  /\ s.everAppended /\ openai.transcripts < MaxTranscripts
  /\ \E echo, bye, recent \in BOOLEAN :
       Receives([openai EXCEPT !.transcripts = @ + 1],
                HearTranscript(s, echo, bye, recent))
  /\ UNCHANGED greeted

OpenAiSpeaks ==
  /\ openai.active # 0
  /\ \E framed \in BOOLEAN : Receives(openai, OutputAudioDelta(s, framed))
  /\ greeted' = IF openai.opening THEN greeted \cup {openai.active} ELSE greeted

OpenAiFinishes ==
  /\ openai.active # 0
  /\ Receives(Silent, ResponseDone(s))
  /\ UNCHANGED greeted

\* A server error, while the response goes on.
OpenAiFails ==
  /\ openai.active # 0
  /\ Receives(openai, ErrorEvent(s))
  /\ UNCHANGED greeted

-----------------------------------------------------------------------------
Provider ==
  \/ BindSocket
  \/ Adopt
  \/ \E sound \in Sound : Packet(sound)
  \/ IgnoreWindowEnds
  \/ \E sound \in Sound, recent \in BOOLEAN : EndSession(sound, recent)
  \/ \E error \in BOOLEAN : SocketEnds(error)

Timers ==
  \/ ReadinessRetryFires
  \/ \E sound \in Sound : InstructionReadyFires(sound)
  \/ OpeningTimeoutFires
  \/ \E recent \in BOOLEAN : CommitFires(recent)
  \/ HangupFires
  \/ CallEndMaxWaitFires
  \/ PlaybookResolved

Ending ==
  \/ \E sound \in Sound, recent \in BOOLEAN : EndFlushes(sound, recent)
  \/ EndDeletes

OpenAi ==
  \/ SocketOpens
  \/ OpenAiCreatesSession
  \/ OpenAiTakes
  \/ OpenAiVadResponds
  \/ OpenAiTranscribes
  \/ OpenAiSpeaks
  \/ OpenAiFinishes
  \/ OpenAiFails

Next == Provider \/ Timers \/ Ending \/ OpenAi

\* A timer fires, the socket connects or fails, and OpenAI announces the
\* session.  Nothing makes OpenAI answer what it is sent, the customer speak,
\* the stream bind its socket or the call end.
Fairness ==
  /\ WF_vars(ReadinessRetryFires)
  /\ WF_vars(\E sound \in Sound : InstructionReadyFires(sound))
  /\ WF_vars(OpeningTimeoutFires)
  /\ WF_vars(HangupFires \/ CallEndMaxWaitFires)
  /\ WF_vars(SocketOpens)
  /\ WF_vars(OpenAiCreatesSession)

Spec == Init /\ [][Next]_vars /\ Fairness

-----------------------------------------------------------------------------
(* Properties.                                                             *)

\* The fields of the session, the channels and the histories have their types.
TypeOK ==
  /\ s.ws \in {"connecting", "open", "closed"}
  /\ s.openingState \in OpeningState
  /\ s.timers \subseteq Timer
  /\ {s.authorizedSource, s.activeSource} \subseteq ResponseSource \cup {None}
  /\ s.speech \in 0..SpeechMin
  /\ s.readinessRetries \in 0..MaxRetries
  /\ s.ending \in {"no", "waitOpen", "waitResponse", "gone"}
  /\ openai.active \in 0..MaxResponses
  /\ greeted \subseteq 1..MaxResponses

\* The caller hears one greeting at most, whatever is cancelled, retried, timed
\* out or answered with an error while the first one is on its way.
GreetedOnce == \A i, j \in greeted : i = j

\* appendInputAudio throws the caller's words away while the greeting is
\* requested or playing.  Whenever it does, the opening timeout is armed, so no
\* cancelled, refused or lost greeting leaves the caller muted for the call.
MutedIsWatched ==
  (SuppressesInbound(s) /\ s.ws = "open" /\ ~s.closing)
    => "openingTimeout" \in s.timers

\* An answer to the customer is requested only after speech of theirs reached
\* OpenAI that no earlier answer was requested for and no response has followed:
\* neither a transcript that arrives late, after OpenAI's own response in
\* server_vad mode for one, nor the commit timer answers a turn again.
AnswersFreshSpeech ==
  [][ (/\ s'.authorizedSource = "customer_speech"
       /\ s.authorizedSource # "customer_speech") => fresh ]_vars

\* Once endSession has begun, no timer or late frame of this session closes the
\* telephony stream, which may belong to the finalizer by then.
NoHangupAfterEnd ==
  [][ (s.closing /\ ~s.streamClosed) => ~s'.streamClosed ]_vars

\* Once the stream has started, the opening ends: the greeting is done, or it
\* failed and the caller is listened to, unless the socket or the call is gone.
OpeningSettles ==
  s.smartfloStartReceived
    ~> (s.openingGreetingComplete \/ s.openingState = "failed"
        \/ s.ws = "closed" \/ s.closing)

\* A customer who says goodbye is hung up on, with or without a last answer,
\* unless OpenAI's socket closes first, which clears the timers.
GoodbyeEndsCall ==
  s.callEndDetected ~> (s.streamClosed \/ s.ws = "closed" \/ s.closing)

=============================================================================
