------------------------- MODULE VoiceRuntime_proofs -------------------------
(***************************************************************************)
(* Proofs about one realtime session.                                      *)
(*                                                                         *)
(* Every handler of VoiceRuntime is an operator from the session record to *)
(* the next one, put together from smaller ones.  The proofs follow that   *)
(* shape: Safe is the invariant of the record, Plain relates the records   *)
(* before and after an operator and composes, and there is one lemma per   *)
(* operator that it is plain.  Only two operators are not: the one that    *)
(* requests an answer (Answers) and the one that takes a response OpenAI   *)
(* has begun (Begins).  Each step is then one of the three (NextHandles),  *)
(* and the theorems are read off.                                          *)
(*                                                                         *)
(* What is owed - the end of a call on the customer's goodbye, the end of  *)
(* the opening - is kept in the same way, with the invariant Orderly of    *)
(* the record and Mild in the place of Plain: every handler leaves it      *)
(* under a timer.                                                          *)
(*                                                                         *)
(* The clauses about the greeting and about fresh speech hold of sessions  *)
(* whose fallback flag is on (x.fallback); those about the opening timeout *)
(* and the hang-up hold of all.                                            *)
(***************************************************************************)
EXTENDS VoiceRuntime, TLAPS

\* The fields of OpenAiRealtimeSession, as NewSession gives them.
Field ==
  {"aiSpeakFirstEnabled", "useServerVad", "fallback", "smartfloStartReceived",
   "ws", "openAiSessionCreated", "sessionUpdateSent", "openAiSessionUpdated",
   "sessionReady", "playbookLookup", "openingState", "openingGreetingComplete",
   "openingGreetingPending", "greetingActuallySent", "openingIsCurrentResponse",
   "openingAudioDeltaReceived", "responseMulawSent", "readinessRetries",
   "ignoringInbound",
   "availabilityHandled", "responseRequested", "responseInProgress",
   "responseComplete", "authorizedSource", "activeSource", "responseId",
   "cancelSentFor", "awaitingCustomerInput", "customerTurnConfirmed",
   "allowNextServerVad", "bargeIn", "speech", "held", "validSpeech",
   "audioAppended", "everAppended", "queued", "callEndDetected",
   "streamClosed", "appendedNow", "closing", "ending", "timers", "out"}

\* All that the updates of a field rest on: the session has these fields.
IsSession(x) == DOMAIN x = Field

\* What is sent to OpenAI: only the request of a response has a source.
Frame ==
  {f \in [type : {"update", "create", "cancel"},
          source : ResponseSource \cup {None}] :
     f.type = "create" \/ f.source = None}

\* The greeting is still due, and its failure would end the opening.
BeforeOpening(x) ==
  x.fallback /\ x.aiSpeakFirstEnabled /\ ~x.openingGreetingComplete

\* A request of the greeting is on its way.
HasOpening(q) == \E i \in 1..Len(q) : q[i].source = "opening"

\* One at most is.
OneOpening(q) ==
  \A i, j \in 1..Len(q) : q[i].source = "opening" /\ q[j].source = "opening" => i = j

\* The greeting may still be requested.
MayGreet(x) == BeforeOpening(x) /\ ~x.greetingActuallySent

\* MutedIsWatched without the difference of an opening socket: nothing is
\* muted before it opens.
Watched(x) ==
  (SuppressesInbound(x) /\ x.ws # "closed" /\ ~x.closing)
    => "openingTimeout" \in x.timers

\* Until the opening is over no audio of the customer has reached OpenAI, so no
\* other response is requested, and the request of the greeting is authorised.
Unheard(x) ==
  BeforeOpening(x) =>
    /\ x.openingState \in {"waiting_for_openai_ready", "ready_to_speak",
                           "opening_response_requested", "opening_audio_playing"}
    /\ ~x.audioAppended /\ ~x.everAppended
    /\ \A i \in 1..Len(x.out) :
         x.out[i].type = "update" \/ x.out[i].source = "opening"
    /\ HasOpening(x.out) => x.authorizedSource = "opening"

\* The invariant of the session.
Safe(x) ==
  /\ IsSession(x)
  /\ x.out \in Seq(Frame)
  /\ Watched(x)
  /\ Unheard(x)
  /\ x.fallback => OneOpening(x.out)
  /\ MayGreet(x) => ~HasOpening(x.out)

\* What no handler undoes.
Same(x, y) ==
  /\ y.fallback = x.fallback
  /\ x.closing => y.closing
  /\ x.closing /\ y.streamClosed => x.streamClosed
  /\ y.ending = "gone" => x.ending = "gone"
  /\ BeforeOpening(y) => BeforeOpening(x)

\* A greeting is requested only by using up the permission to greet.
Greets(x, y) ==
  /\ MayGreet(y) => MayGreet(x)
  /\ x.fallback /\ HasOpening(y.out)
       => HasOpening(x.out) \/ (MayGreet(x) /\ ~MayGreet(y))

\* Audio that could be answered was appended in this step, or could be before.
Listens(x, y) ==
  /\ x.appendedNow => y.appendedNow
  /\ x.fallback /\ y.audioAppended /\ ~IsAiTurnActive(y)
       => y.appendedNow \/ (x.audioAppended /\ ~IsAiTurnActive(x))

\* No answer is requested, and no response begins.
Asks(x, y) ==
  /\ y.authorizedSource = "customer_speech" => x.authorizedSource = "customer_speech"
  /\ y.responseId \in {0, x.responseId}

\* What every handler is.
Good(x, y) == Safe(y) /\ Same(x, y) /\ Greets(x, y) /\ Listens(x, y)

\* What every handler is that neither answers nor begins a response.
Plain(x, y) == Good(x, y) /\ Asks(x, y)

-----------------------------------------------------------------------------
(* Updates in general.                                                     *)

\* One handler part after another: Plain composes.
LEMMA PlainTrans ==
  ASSUME NEW x, NEW y, NEW z, Plain(x, y), Plain(y, z)
  PROVE  Plain(x, z)
BY DEF Plain, Good, Same, Greets, Listens, Asks

\* An operator that leaves the session alone is plain.
LEMMA PlainRefl == ASSUME NEW x, Safe(x) PROVE Plain(x, x)
BY DEF Plain, Good, Same, Greets, Listens, Asks

\* A good update after a plain one is good.
LEMMA GoodTrans ==
  ASSUME NEW x, NEW y, NEW z, Plain(x, y), Good(y, z)
  PROVE  Good(x, z)
BY DEF Plain, Good, Same, Greets, Listens, Asks

\* The fields the invariants read, but for the timers.
Relevant == {"fallback", "closing", "ending", "streamClosed", "aiSpeakFirstEnabled",
  "openingGreetingComplete", "greetingActuallySent", "openingState", "ws",
  "audioAppended", "everAppended", "appendedNow", "responseRequested",
  "responseInProgress", "responseId", "authorizedSource", "out"}

\* An update that touches no field the invariants read, and arms no fewer
\* opening timeout, is plain: most of the small updates are of this kind.
LEMMA Quiet ==
  ASSUME NEW x, Safe(x), NEW y, IsSession(y),
         \A f \in Relevant : y[f] = x[f],
         "openingTimeout" \in x.timers => "openingTimeout" \in y.timers
  PROVE  Plain(x, y)
<1>1. /\ Unheard(y) <=> Unheard(x)
      /\ MayGreet(y) <=> MayGreet(x)
      /\ Same(x, y)
      /\ y.out = x.out
  BY DEF Relevant, Unheard, MayGreet, BeforeOpening, Same
<1>2. Watched(y)
  BY DEF Relevant, Safe, Watched, SuppressesInbound
<1>3. Greets(x, y) /\ Listens(x, y) /\ Asks(x, y)
  BY DEF Relevant, MayGreet, BeforeOpening, Greets, Listens, Asks, IsAiTurnActive
<1> QED BY <1>1, <1>2, <1>3 DEF Plain, Good, Safe, Same

\* Arming a timer.
LEMMA ArmPlain ==
  ASSUME NEW x, Safe(x), NEW t
  PROVE  Plain(x, Arm(t, x))
<1>1. /\ IsSession(Arm(t, x))
      /\ \A f \in Relevant : Arm(t, x)[f] = x[f]
      /\ Arm(t, x).timers = x.timers \cup {t}
  BY DEF Safe, IsSession, Field, Relevant, Arm
<1> QED BY <1>1, Quiet

\* Disarming timers other than the opening timeout.
LEMMA DisarmPlain ==
  ASSUME NEW x, Safe(x), NEW ts, "openingTimeout" \notin ts
  PROVE  Plain(x, Disarm(ts, x))
<1>1. /\ IsSession(Disarm(ts, x))
      /\ \A f \in Relevant : Disarm(ts, x)[f] = x[f]
      /\ Disarm(ts, x).timers = x.timers \ ts
  BY DEF Safe, IsSession, Field, Relevant, Disarm
<1> QED BY <1>1, Quiet

-----------------------------------------------------------------------------
(* Small updates of the session.                                           *)

\* What one more frame does to the queue to OpenAI.
LEMMA FramesAppended ==
  ASSUME NEW q \in Seq(Frame), NEW f \in Frame
  PROVE  /\ Append(q, f) \in Seq(Frame)
         /\ HasOpening(Append(q, f)) <=> HasOpening(q) \/ f.source = "opening"
         /\ f.source # "opening" \/ ~HasOpening(q) => (OneOpening(q) => OneOpening(Append(q, f)))
BY DEF HasOpening, OneOpening
\* A frame that asks for no greeting may be sent; before the opening is over
\* only an update of the session is.
LEMMA SendPlain ==
  ASSUME NEW x, Safe(x), NEW f \in Frame, f.source # "opening",
         f.type = "update" \/ ~BeforeOpening(x)
  PROVE  Plain(x, Send(f, x))
<1>1. CASE x.ws # "open"
  BY <1>1, PlainRefl DEF Send
<1>2. CASE x.ws = "open"
  <2> DEFINE y == Send(f, x)
  <2>1. /\ IsSession(y)
        /\ \A g \in Field \ {"out"} : y[g] = x[g]
        /\ y.out = Append(x.out, f)
    BY <1>2 DEF Safe, IsSession, Field, Send
  <2> HIDE DEF y
  <2>2. /\ y.out \in Seq(Frame)
        /\ HasOpening(y.out) <=> HasOpening(x.out)
        /\ y.fallback => OneOpening(y.out)
    BY <2>1, FramesAppended DEF Safe, Field
  <2>3. /\ BeforeOpening(y) <=> BeforeOpening(x)
        /\ MayGreet(y) <=> MayGreet(x)
    BY <2>1 DEF Field, BeforeOpening, MayGreet
  <2>4. Unheard(y)
    BY <2>1, <2>2, <2>3 DEF Safe, Unheard, Field
  <2>5. Watched(y)
    BY <2>1 DEF Safe, Watched, SuppressesInbound, Field
  <2>6. Same(x, y) /\ Greets(x, y) /\ Listens(x, y) /\ Asks(x, y)
    BY <2>1, <2>2, <2>3 DEF Same, Greets, Listens, Asks, IsAiTurnActive, Field
  <2> QED BY <2>1, <2>2, <2>3, <2>4, <2>5, <2>6 DEF Plain, Good, Safe, y
<1> QED BY <1>1, <1>2

\* session.update
LEMMA SendUpdatePlain ==
  ASSUME NEW x, Safe(x)
  PROVE  Plain(x, Send([type |-> "update", source |-> None], x))
<1> DEFINE f == [type |-> "update", source |-> None]
<1>1. f \in Frame /\ f.source # "opening" /\ f.type = "update"
  BY DEF Frame, None
<1> QED BY <1>1, SendPlain

\* response.cancel, once the opening is over
LEMMA SendCancelPlain ==
  ASSUME NEW x, Safe(x), ~BeforeOpening(x)
  PROVE  Plain(x, Send([type |-> "cancel", source |-> None], x))
<1> DEFINE f == [type |-> "cancel", source |-> None]
<1>1. f \in Frame /\ f.source # "opening"
  BY DEF Frame, None
<1> QED BY <1>1, SendPlain

\* The speech of the turn is forgotten.
LEMMA ResetSpeechPlain ==
  ASSUME NEW x, Safe(x)
  PROVE  Plain(x, ResetSpeechTurnState(x))
<1> DEFINE y == ResetSpeechTurnState(x)
<1>1. /\ IsSession(y)
      /\ \A g \in Field \ {"speech", "held", "validSpeech", "audioAppended"} : y[g] = x[g]
      /\ y.audioAppended = FALSE
  BY DEF Safe, IsSession, Field, ResetSpeechTurnState
<1> HIDE DEF y
<1>2. /\ BeforeOpening(y) <=> BeforeOpening(x)
      /\ MayGreet(y) <=> MayGreet(x)
      /\ y.out = x.out
  BY <1>1 DEF Field, BeforeOpening, MayGreet
<1>3. Unheard(y)
  BY <1>1, <1>2 DEF Safe, Unheard, Field
<1>4. Watched(y)
  BY <1>1 DEF Safe, Watched, SuppressesInbound, Field
<1>5. Same(x, y) /\ Greets(x, y) /\ Listens(x, y) /\ Asks(x, y)
  BY <1>1, <1>2 DEF Same, Greets, Listens, Asks, IsAiTurnActive, Field
<1> QED BY <1>1, <1>2, <1>3, <1>4, <1>5 DEF Plain, Good, Safe, Same, y

\* The response guards fall, and the speech of the turn with them: no audio
\* that was answered is left to be answered again.
LEMMA ResetGuardsPlain ==
  ASSUME NEW x, Safe(x)
  PROVE  Plain(x, ResetResponseGuards(x))
<1> DEFINE y == ResetResponseGuards(x)
<1>1. /\ IsSession(y)
      /\ \A g \in Field \ {"speech", "held", "validSpeech", "audioAppended",
                           "responseRequested", "responseInProgress"} : y[g] = x[g]
      /\ y.audioAppended = FALSE
  BY DEF Safe, IsSession, Field, ResetSpeechTurnState, ResetResponseGuards
<1> HIDE DEF y
<1>2. /\ BeforeOpening(y) <=> BeforeOpening(x)
      /\ MayGreet(y) <=> MayGreet(x)
      /\ y.out = x.out
  BY <1>1 DEF Field, BeforeOpening, MayGreet
<1>3. Unheard(y)
  BY <1>1, <1>2 DEF Safe, Unheard, Field
<1>4. Watched(y)
  BY <1>1 DEF Safe, Watched, SuppressesInbound, Field
<1>5. Same(x, y) /\ Greets(x, y) /\ Listens(x, y) /\ Asks(x, y)
  BY <1>1, <1>2 DEF Same, Greets, Listens, Asks, IsAiTurnActive, Field
<1> QED BY <1>1, <1>2, <1>3, <1>4, <1>5 DEF Plain, Good, Safe, Same, y

\* The customer is waited for.
LEMMA SetAwaitingPlain ==
  ASSUME NEW x, Safe(x)
  PROVE  Plain(x, SetAwaitingCustomerInput(x))
<1> DEFINE y == SetAwaitingCustomerInput(x)
<1>1. /\ IsSession(y)
      /\ \A g \in Relevant : y[g] = x[g]
      /\ y.timers = x.timers
  BY DEF Safe, IsSession, Field, SetAwaitingCustomerInput, Relevant
<1> QED BY <1>1, Quiet

\* The customer's turn is confirmed.
LEMMA ConfirmPlain ==
  ASSUME NEW x, Safe(x)
  PROVE  Plain(x, ConfirmCustomerTurn(x))
<1> DEFINE y == ConfirmCustomerTurn(x)
<1>1. /\ IsSession(y)
      /\ \A g \in Relevant : y[g] = x[g]
      /\ y.timers = x.timers
  BY DEF Safe, IsSession, Field, ConfirmCustomerTurn, Relevant
<1> QED BY <1>1, Quiet

\* The playbook is looked up.
LEMMA LookUpPlain ==
  ASSUME NEW x, Safe(x)
  PROVE  Plain(x, LookUpPlaybook(x))
<1> DEFINE y == LookUpPlaybook(x)
<1>1. /\ IsSession(y)
      /\ \A g \in Relevant : y[g] = x[g]
      /\ y.timers = x.timers
  BY DEF Safe, IsSession, Field, LookUpPlaybook, Relevant
<1> QED BY <1>1, Quiet

\* The timer that stands in for session.updated.
LEMMA ScheduleInstructionPlain ==
  ASSUME NEW x, Safe(x)
  PROVE  Plain(x, ScheduleInstructionReady(x))
BY ArmPlain, PlainRefl DEF ScheduleInstructionReady

\* sendSessionUpdate
LEMMA SessionUpdatePlain ==
  ASSUME NEW x, Safe(x)
  PROVE  Plain(x, SendSessionUpdate(x))
<1> DEFINE y == IF x.openAiSessionUpdated
                THEN x ELSE Send([type |-> "update", source |-> None], x)
           z == [y EXCEPT !.sessionUpdateSent = TRUE, !.playbookLookup = FALSE]
<1>1. Plain(x, y)
  BY SendUpdatePlain, PlainRefl
<1>2. Safe(y)
  BY <1>1 DEF Plain, Good
<1> HIDE DEF y
<1>3. /\ IsSession(z)
      /\ \A g \in Relevant : z[g] = y[g]
      /\ z.timers = y.timers
  BY <1>2 DEF Safe, IsSession, Field, Relevant
<1>4. Plain(y, z)
  BY <1>2, <1>3, Quiet
<1>5. Safe(z)
  BY <1>4 DEF Plain, Good
<1>6. Plain(z, ScheduleInstructionReady(z))
  BY <1>5, ScheduleInstructionPlain
<1>7. Plain(x, ScheduleInstructionReady(z))
  BY <1>1, <1>4, <1>6, PlainTrans
<1> QED BY <1>7 DEF SendSessionUpdate, y, z

-----------------------------------------------------------------------------
(* The opening greeting.                                                   *)

\* What the end of the opening leaves: the opening complete, no audio counted.
LEMMA ActivateFields ==
  ASSUME NEW x, IsSession(x), NEW failed \in BOOLEAN,
         failed \/ (~x.openingGreetingComplete /\ x.greetingActuallySent)
  PROVE  LET y == ActivateNormalModeAfterOpening(x, failed)
         IN /\ IsSession(y)
            /\ \A g \in {"fallback", "closing", "ending", "streamClosed", "appendedNow",
                         "responseId", "authorizedSource", "out"} : y[g] = x[g]
            /\ y.openingGreetingComplete = TRUE
            /\ y.audioAppended = FALSE
<1> DEFINE w == LookUpPlaybook(x)
           v == [w EXCEPT !.openingGreetingComplete = TRUE,
                   !.openingGreetingPending = FALSE,
                   !.openingIsCurrentResponse = FALSE,
                   !.queued = FALSE,
                   !.responseRequested = FALSE,
                   !.responseInProgress = FALSE,
                   !.ignoringInbound = TRUE,
                   !.openingState = IF failed THEN @ ELSE "opening_done"]
           u == ResetSpeechTurnState(v)
<1>1. ActivateNormalModeAfterOpening(x, failed) = Disarm({"openingTimeout"}, u)
  BY DEF ActivateNormalModeAfterOpening
<1>2. IsSession(w) /\ \A g \in Field \ {"playbookLookup"} : w[g] = x[g]
  BY DEF IsSession, Field, LookUpPlaybook
<1> HIDE DEF w
<1>3. /\ IsSession(v)
      /\ \A g \in {"fallback", "closing", "ending", "streamClosed", "appendedNow",
                   "responseId", "authorizedSource", "out"} : v[g] = w[g]
      /\ v.openingGreetingComplete = TRUE
  BY <1>2 DEF IsSession, Field
<1> HIDE DEF v
<1>4. /\ IsSession(Disarm({"openingTimeout"}, u))
      /\ \A g \in {"fallback", "closing", "ending", "streamClosed", "appendedNow",
                   "responseId", "authorizedSource", "out",
                   "openingGreetingComplete"} :
           Disarm({"openingTimeout"}, u)[g] = v[g]
      /\ Disarm({"openingTimeout"}, u).audioAppended = FALSE
  BY <1>3 DEF IsSession, Field, ResetSpeechTurnState, Disarm
<1> HIDE DEF u
<1> QED BY <1>1, <1>2, <1>3, <1>4 DEF Field

\* Whatever else it does, an update that completes the opening is plain.
LEMMA OpeningOver ==
  ASSUME NEW x, Safe(x), NEW y, IsSession(y),
         \A g \in {"fallback", "closing", "ending", "streamClosed", "appendedNow",
                   "responseId", "authorizedSource", "out"} : y[g] = x[g],
         y.openingGreetingComplete,
         y.audioAppended = FALSE
  PROVE  Plain(x, y)
<1>1. ~BeforeOpening(y) /\ ~MayGreet(y) /\ ~SuppressesInbound(y)
  BY DEF BeforeOpening, MayGreet, SuppressesInbound
<1>2. Safe(y)
  BY <1>1 DEF Safe, Watched, Unheard
<1> QED BY <1>1, <1>2 DEF Plain, Good, Same, Greets, Listens, Asks

\* activateNormalModeAfterOpening
LEMMA ActivatePlain ==
  ASSUME NEW x, Safe(x), NEW failed \in BOOLEAN
  PROVE  Plain(x, ActivateNormalModeAfterOpening(x, failed))
<1>1. CASE ~failed /\ (x.openingGreetingComplete \/ ~x.greetingActuallySent)
  BY <1>1, PlainRefl DEF ActivateNormalModeAfterOpening
<1>2. CASE failed \/ (~x.openingGreetingComplete /\ x.greetingActuallySent)
  BY <1>2, ActivateFields, OpeningOver DEF Safe
<1> QED BY <1>1, <1>2

\* completeOpeningGreeting
LEMMA CompletePlain ==
  ASSUME NEW x, Safe(x)
  PROVE  Plain(x, CompleteOpeningGreeting(x))
BY ActivatePlain, PlainRefl DEF CompleteOpeningGreeting

\* failOpeningWithFallback: with the flag the opening is over, without it the
\* caller is no longer muted.
LEMMA FailPlain ==
  ASSUME NEW x, Safe(x)
  PROVE  Plain(x, FailOpeningWithFallback(x))
<1> DEFINE failed ==
             Disarm({"openingTimeout", "openingReadinessRetry", "instructionReady"},
               [x EXCEPT !.openingGreetingPending = FALSE,
                         !.openingIsCurrentResponse = FALSE,
                         !.responseRequested = FALSE,
                         !.responseInProgress = FALSE,
                         !.queued = FALSE,
                         !.openingState = "failed"])
<1>1. /\ IsSession(failed)
      /\ \A g \in {"fallback", "closing", "ending", "streamClosed", "appendedNow",
                   "responseId", "authorizedSource", "out"} : failed[g] = x[g]
      /\ failed.openingState = "failed"
  BY DEF Safe, IsSession, Field, Disarm
<1>2. FailOpeningWithFallback(x) =
        IF x.fallback THEN ActivateNormalModeAfterOpening(failed, TRUE) ELSE failed
  BY DEF FailOpeningWithFallback
<1> HIDE DEF failed
<1>3. CASE x.fallback
  <2> DEFINE y == ActivateNormalModeAfterOpening(failed, TRUE)
  <2>1. /\ IsSession(y)
        /\ \A g \in {"fallback", "closing", "ending", "streamClosed", "appendedNow",
                     "responseId", "authorizedSource", "out"} : y[g] = failed[g]
        /\ y.openingGreetingComplete = TRUE
        /\ y.audioAppended = FALSE
    BY <1>1, ActivateFields
  <2> HIDE DEF y
  <2>2. Plain(x, y)
    BY <1>1, <2>1, OpeningOver
  <2> QED BY <1>2, <1>3, <2>2 DEF y
<1>4. CASE ~x.fallback
  <2>1. ~BeforeOpening(failed) /\ ~MayGreet(failed) /\ ~SuppressesInbound(failed)
    BY <1>1, <1>4 DEF BeforeOpening, MayGreet, SuppressesInbound
  <2>2. Safe(failed)
    BY <1>1, <1>4, <2>1 DEF Safe, Watched, Unheard
  <2> QED
    BY <1>1, <1>2, <1>4, <2>1, <2>2 DEF Plain, Good, Same, Greets, Listens, Asks
<1> QED BY <1>3, <1>4

\* startConversationWithGreeting: the greeting is requested once, under the
\* opening timeout.
LEMMA StartPlain ==
  ASSUME NEW x, Safe(x)
  PROVE  Plain(x, StartConversationWithGreeting(x))
<1>1. CASE \/ ~x.aiSpeakFirstEnabled \/ x.closing
           \/ x.openingGreetingComplete \/ x.greetingActuallySent
           \/ x.openingAudioDeltaReceived \/ x.openingGreetingPending
  BY <1>1, PlainRefl DEF StartConversationWithGreeting
<1>2. CASE /\ ~ \/ ~x.aiSpeakFirstEnabled \/ x.closing
                \/ x.openingGreetingComplete \/ x.greetingActuallySent
                \/ x.openingAudioDeltaReceived \/ x.openingGreetingPending
           /\ x.ws # "open"
  BY <1>2, FailPlain DEF StartConversationWithGreeting
<1>3. CASE /\ ~ \/ ~x.aiSpeakFirstEnabled \/ x.closing
                \/ x.openingGreetingComplete \/ x.greetingActuallySent
                \/ x.openingAudioDeltaReceived \/ x.openingGreetingPending
           /\ x.ws = "open"
  <2> DEFINE f == [type |-> "create", source |-> "opening"]
             y == StartConversationWithGreeting(x)
  <2>1. f \in Frame
    BY DEF Frame, ResponseSource
  <2>2. /\ IsSession(y)
        /\ \A g \in {"fallback", "closing", "ending", "streamClosed", "appendedNow",
                     "responseId", "audioAppended", "everAppended", "ws",
                     "aiSpeakFirstEnabled", "openingGreetingComplete"} : y[g] = x[g]
        /\ y.out = Append(x.out, f)
        /\ "openingTimeout" \in y.timers
        /\ y.openingState = "opening_response_requested"
        /\ y.greetingActuallySent = TRUE
        /\ y.authorizedSource = "opening"
        /\ y.responseRequested = TRUE
    BY <1>3 DEF Safe, IsSession, Field, StartConversationWithGreeting, Arm,
                SendResponseCreate, Send
  <2> HIDE DEF y
  <2>3. MayGreet(x) <=> x.fallback
    BY <1>3 DEF MayGreet, BeforeOpening
  <2>4. ~MayGreet(y) /\ (BeforeOpening(y) <=> BeforeOpening(x))
    BY <2>2 DEF MayGreet, BeforeOpening
  <2>5. /\ y.out \in Seq(Frame)
        /\ x.fallback => OneOpening(y.out)
    BY <2>1, <2>2, <2>3, FramesAppended DEF Safe
  <2>6. Unheard(y)
    <3> SUFFICES ASSUME BeforeOpening(x)
                 PROVE  \A i \in 1..Len(y.out) :
                          y.out[i].type = "update" \/ y.out[i].source = "opening"
      BY <2>2, <2>4 DEF Unheard, Safe
    <3> QED BY <2>1, <2>2 DEF Safe, Unheard
  <2>7. Safe(y)
    BY <2>2, <2>4, <2>5, <2>6 DEF Safe, Watched
  <2> QED
    BY <2>2, <2>3, <2>4, <2>7
       DEF Plain, Good, Same, Greets, Listens, Asks, IsAiTurnActive, y
<1> QED BY <1>1, <1>2, <1>3
\* What a plain update leaves.
LEMMA PlainSafe ==
  ASSUME NEW x, NEW y, Plain(x, y)
  PROVE  /\ Safe(y)
         /\ BeforeOpening(y) => BeforeOpening(x)
         /\ y.fallback = x.fallback
BY DEF Plain, Good, Same

\* scheduleOpeningReadinessRetry
LEMMA RetryPlain ==
  ASSUME NEW x, Safe(x)
  PROVE  Plain(x, ScheduleOpeningReadinessRetry(x))
<1> DEFINE z == Arm("openingReadinessRetry", [x EXCEPT !.readinessRetries = @ + 1])
<1>1. /\ IsSession(z)
      /\ \A g \in Relevant : z[g] = x[g]
      /\ "openingTimeout" \in x.timers => "openingTimeout" \in z.timers
  BY DEF Safe, IsSession, Field, Relevant, Arm
<1>2. Plain(x, z)
  BY <1>1, Quiet
<1> HIDE DEF z
<1> QED BY <1>2, FailPlain, PlainRefl DEF ScheduleOpeningReadinessRetry, z

\* The opening becomes ready to speak.
LEMMA ReadyPlain ==
  ASSUME NEW x, Safe(x)
  PROVE  Plain(x, [x EXCEPT !.openingState =
                     IF @ = "waiting_for_openai_ready" /\ x.openAiSessionUpdated
                     THEN "ready_to_speak" ELSE @])
<1> DEFINE y == [x EXCEPT !.openingState =
                   IF @ = "waiting_for_openai_ready" /\ x.openAiSessionUpdated
                   THEN "ready_to_speak" ELSE @]
<1>1. /\ IsSession(y)
      /\ \A g \in Field \ {"openingState"} : y[g] = x[g]
      /\ y.openingState = x.openingState \/ y.openingState = "ready_to_speak"
  BY DEF Safe, IsSession, Field
<1> HIDE DEF y
<1>2. /\ BeforeOpening(y) <=> BeforeOpening(x)
      /\ MayGreet(y) <=> MayGreet(x)
      /\ y.out = x.out
  BY <1>1 DEF Field, BeforeOpening, MayGreet
<1>3. Unheard(y)
  BY <1>1, <1>2 DEF Safe, Unheard, Field
<1>4. Watched(y)
  BY <1>1 DEF Safe, Watched, SuppressesInbound, Field
<1>5. Same(x, y) /\ Greets(x, y) /\ Listens(x, y) /\ Asks(x, y)
  BY <1>1, <1>2 DEF Same, Greets, Listens, Asks, IsAiTurnActive, Field
<1> QED BY <1>1, <1>2, <1>3, <1>4, <1>5 DEF Plain, Good, Safe, Same, y

\* evaluateOpeningReadiness
LEMMA EvaluatePlain ==
  ASSUME NEW x, Safe(x), NEW bound
  PROVE  Plain(x, EvaluateOpeningReadiness(x, bound))
<1> DEFINE ready == [x EXCEPT !.openingState =
                   IF @ = "waiting_for_openai_ready" /\ x.openAiSessionUpdated
                   THEN "ready_to_speak" ELSE @]
           armed == Disarm({"openingReadinessRetry"}, ready)
           started == StartConversationWithGreeting(armed)
           retried == ScheduleOpeningReadinessRetry(ready)
<1>1. EvaluateOpeningReadiness(x, bound) \in {x, ready, started, retried}
  BY DEF EvaluateOpeningReadiness
<1>2. Plain(x, ready) /\ Safe(ready)
  BY ReadyPlain, PlainSafe
<1> HIDE DEF ready
<1>3. Plain(ready, armed) /\ Safe(armed)
  BY <1>2, DisarmPlain, PlainSafe
<1>4. Plain(x, armed)
  BY <1>2, <1>3, PlainTrans
<1> HIDE DEF armed
<1>5. Plain(x, started)
  BY <1>3, <1>4, StartPlain, PlainTrans
<1>6. Plain(x, retried)
  BY <1>2, RetryPlain, PlainTrans
<1> HIDE DEF started, retried
<1> QED BY <1>1, <1>2, <1>5, <1>6, PlainRefl

\* markOpenAiInstructionReady
LEMMA MarkReadyPlain ==
  ASSUME NEW x, Safe(x), NEW bound
  PROVE  Plain(x, MarkOpenAiInstructionReady(x, bound))
<1> DEFINE y == Disarm({"instructionReady", "openingReadinessRetry"},
                  [x EXCEPT !.openAiSessionUpdated = TRUE, !.sessionReady = TRUE,
                            !.readinessRetries = 0])
<1>1. /\ IsSession(y)
      /\ \A g \in Relevant : y[g] = x[g]
      /\ "openingTimeout" \in x.timers => "openingTimeout" \in y.timers
  BY DEF Safe, IsSession, Field, Relevant, Disarm
<1>2. Plain(x, y) /\ Safe(y)
  BY <1>1, Quiet, PlainSafe
<1> HIDE DEF y
<1>3. Plain(x, EvaluateOpeningReadiness(y, bound))
  BY <1>2, EvaluatePlain, PlainTrans
<1> QED BY <1>3, PlainRefl DEF MarkOpenAiInstructionReady, y

\* maybeRetryOpeningGreetingAfterResponse
LEMMA MaybeRetryPlain ==
  ASSUME NEW x, Safe(x)
  PROVE  Plain(x, MaybeRetryOpeningGreetingAfterResponse(x))
BY StartPlain, PlainRefl DEF MaybeRetryOpeningGreetingAfterResponse

\* finalizeInterruptedOpeningIfNeeded, when audio was heard
LEMMA FinalizePlain ==
  ASSUME NEW x, Safe(x)
  PROVE  Plain(x, FinalizeInterruptedOpening(x))
<1> DEFINE y == [x EXCEPT !.openingGreetingPending = FALSE,
                          !.openingIsCurrentResponse = FALSE,
                          !.activeSource = None]
<1>1. /\ IsSession(y)
      /\ \A g \in Relevant : y[g] = x[g]
      /\ y.timers = x.timers
  BY DEF Safe, IsSession, Field, Relevant
<1>2. Plain(x, y) /\ Safe(y)
  BY <1>1, Quiet, PlainSafe
<1> HIDE DEF y
<1>3. Plain(x, CompleteOpeningGreeting(y))
  BY <1>2, CompletePlain, PlainTrans
<1> QED BY <1>3 DEF FinalizeInterruptedOpening, y

-----------------------------------------------------------------------------
(* The customer's audio.                                                   *)

\* appendInputAudioChunk, which only runs once the opening is over
LEMMA AppendPlain ==
  ASSUME NEW x, Safe(x), ~BeforeOpening(x)
  PROVE  Plain(x, AppendInputAudio(x))
<1> DEFINE y == AppendInputAudio(x)
<1>1. CASE x.ws # "open"
  <2>1. /\ IsSession(y)
        /\ \A g \in Relevant : y[g] = x[g]
        /\ y.timers = x.timers
    BY <1>1 DEF Safe, IsSession, Field, Relevant, AppendInputAudio
  <2> QED BY <2>1, Quiet
<1>2. CASE x.ws = "open"
  <2>1. /\ IsSession(y)
        /\ \A g \in Relevant \ {"audioAppended", "everAppended", "appendedNow"} :
             y[g] = x[g]
        /\ y.timers = x.timers
        /\ y.appendedNow = TRUE
    BY <1>2, ZenonT(60) DEF Safe, IsSession, Field, Relevant, AppendInputAudio
  <2> HIDE DEF y
  <2>2. ~BeforeOpening(y) /\ ~MayGreet(y) /\ y.out = x.out
    BY <2>1 DEF Relevant, BeforeOpening, MayGreet
  <2>3. Watched(y)
    BY <2>1 DEF Safe, Watched, SuppressesInbound, Relevant
  <2>4. Same(x, y) /\ Greets(x, y) /\ Listens(x, y) /\ Asks(x, y)
    BY <2>1, <2>2 DEF Same, Greets, Listens, Asks, Relevant
  <2>5. Unheard(y)
    BY <2>2 DEF Unheard
  <2> QED BY <2>1, <2>2, <2>3, <2>4, <2>5 DEF Plain, Good, Safe, Same, y
<1> QED BY <1>1, <1>2

\* scheduleInputCommit
LEMMA CommitTimerPlain ==
  ASSUME NEW x, Safe(x)
  PROVE  Plain(x, ScheduleInputCommit(x))
BY ArmPlain, PlainRefl DEF ScheduleInputCommit

\* A packet of speech is counted.
LEMMA CountPlain ==
  ASSUME NEW x, Safe(x)
  PROVE  Plain(x, CountSpeech(x))
<1> DEFINE y == CountSpeech(x)
<1>1. /\ IsSession(y)
      /\ \A g \in Relevant : y[g] = x[g]
      /\ y.timers = x.timers
  BY DEF Safe, IsSession, Field, Relevant, CountSpeech
<1> QED BY <1>1, Quiet

\* tryCancelInterruptedResponse
LEMMA CancelPlain ==
  ASSUME NEW x, Safe(x), ~BeforeOpening(x)
  PROVE  Plain(x, CancelInterruptedResponse(x))
<1> DEFINE y == [x EXCEPT !.cancelSentFor = x.responseId]
<1>1. /\ IsSession(y)
      /\ \A g \in Relevant : y[g] = x[g]
      /\ y.timers = x.timers
  BY DEF Safe, IsSession, Field, Relevant
<1> HIDE DEF y
<1>2. Plain(x, y) /\ Safe(y) /\ ~BeforeOpening(y)
  BY <1>1, Quiet, PlainSafe
<1>3. Plain(x, Send([type |-> "cancel", source |-> None], y))
  BY <1>2, SendCancelPlain, PlainTrans
<1> QED BY <1>3, PlainRefl DEF CancelInterruptedResponse, y

\* accumulateInboundDuringPostOpeningIgnore
LEMMA AccumulatePlain ==
  ASSUME NEW x, Safe(x), NEW sound
  PROVE  Plain(x, AccumulateDuringIgnore(x, sound))
<1> DEFINE y == CountSpeech(x)
           z == [y EXCEPT !.validSpeech = @ \/ HasEnoughSpeech(y)]
<1>1. Plain(x, y) /\ Safe(y)
  BY CountPlain, PlainSafe
<1> HIDE DEF y
<1>2. /\ IsSession(z)
      /\ \A g \in Relevant : z[g] = y[g]
      /\ z.timers = y.timers
  BY <1>1 DEF Safe, IsSession, Field, Relevant
<1>3. Plain(x, z)
  BY <1>1, <1>2, Quiet, PlainTrans
<1> HIDE DEF z
<1> QED BY <1>3, PlainRefl DEF AccumulateDuringIgnore, y, z

\* tryForwardAccumulatedSpeech
LEMMA TryForwardPlain ==
  ASSUME NEW x, Safe(x), ~BeforeOpening(x)
  PROVE  Plain(x, TryForwardAccumulatedSpeech(x))
<1> DEFINE y == IF x.awaitingCustomerInput /\ ~x.customerTurnConfirmed
                THEN ConfirmCustomerTurn(x) ELSE x
           z == AppendInputAudio(y)
<1>1. Plain(x, y) /\ Safe(y) /\ ~BeforeOpening(y)
  BY ConfirmPlain, PlainRefl, PlainSafe
<1> HIDE DEF y
<1>2. Plain(x, z) /\ Safe(z)
  BY <1>1, AppendPlain, PlainTrans, PlainSafe
<1> HIDE DEF z
<1>3. Plain(x, ScheduleInputCommit(z))
  BY <1>2, CommitTimerPlain, PlainTrans
<1> QED BY <1>3, PlainRefl DEF TryForwardAccumulatedSpeech, y, z

\* A loud packet.
LEMMA HearSpeechPlain ==
  ASSUME NEW x, Safe(x), ~BeforeOpening(x), NEW echo
  PROVE  Plain(x, HearSpeech(x, echo))
<1> DEFINE y == CountSpeech(x)
           w == [y EXCEPT !.bargeIn = TRUE]
           interrupts == IsAiTurnActive(y) /\ ~y.bargeIn
           confirmed ==
             IF interrupts
             THEN ConfirmCustomerTurn(CancelInterruptedResponse(w))
             ELSE IF y.awaitingCustomerInput THEN ConfirmCustomerTurn(y) ELSE y
           valid == [confirmed EXCEPT !.validSpeech = TRUE]
<1>1. Plain(x, y) /\ Safe(y) /\ ~BeforeOpening(y)
  BY CountPlain, PlainSafe
<1>2. HearSpeech(x, echo) = y \/
      HearSpeech(x, echo) = ScheduleInputCommit(AppendInputAudio(valid))
  BY DEF HearSpeech
<1> HIDE DEF y
<1>3. /\ IsSession(w)
      /\ \A g \in Relevant : w[g] = y[g]
      /\ w.timers = y.timers
  BY <1>1 DEF Safe, IsSession, Field, Relevant
<1>4. Plain(x, w) /\ Safe(w) /\ ~BeforeOpening(w)
  BY <1>1, <1>3, Quiet, PlainTrans, PlainSafe
<1> HIDE DEF w
<1>5. Plain(x, CancelInterruptedResponse(w)) /\ Safe(CancelInterruptedResponse(w))
  BY <1>4, CancelPlain, PlainTrans, PlainSafe
<1>6. Plain(x, ConfirmCustomerTurn(CancelInterruptedResponse(w)))
  BY <1>5, ConfirmPlain, PlainTrans
<1>7. Plain(x, ConfirmCustomerTurn(y))
  BY <1>1, ConfirmPlain, PlainTrans
<1>8. Plain(x, confirmed) /\ Safe(confirmed)
  BY <1>1, <1>6, <1>7, PlainSafe
<1> HIDE DEF confirmed
<1>9. /\ IsSession(valid)
      /\ \A g \in Relevant : valid[g] = confirmed[g]
      /\ valid.timers = confirmed.timers
  BY <1>8 DEF Safe, IsSession, Field, Relevant
<1>10. Plain(x, valid) /\ Safe(valid) /\ ~BeforeOpening(valid)
  BY <1>8, <1>9, Quiet, PlainTrans, PlainSafe
<1> HIDE DEF valid
<1>11. Plain(x, AppendInputAudio(valid)) /\ Safe(AppendInputAudio(valid))
  BY <1>10, AppendPlain, PlainTrans, PlainSafe
<1>12. Plain(x, ScheduleInputCommit(AppendInputAudio(valid)))
  BY <1>11, CommitTimerPlain, PlainTrans
<1> QED BY <1>1, <1>2, <1>12

\* A silent packet.
LEMMA HearSilencePlain ==
  ASSUME NEW x, Safe(x), ~BeforeOpening(x)
  PROVE  Plain(x, HearSilence(x))
<1> DEFINE y == [x EXCEPT !.held = FALSE, !.speech = 0]
<1>1. /\ IsSession(y)
      /\ \A g \in Relevant : y[g] = x[g]
      /\ y.timers = x.timers
  BY DEF Safe, IsSession, Field, Relevant
<1>2. Plain(x, y)
  BY <1>1, Quiet
<1>3. HearSilence(x) \in {x, y, AppendInputAudio(x)}
  BY DEF HearSilence
<1> HIDE DEF y
<1> QED BY <1>2, <1>3, AppendPlain, PlainRefl

\* appendInputAudio: until the opening is over the packet is queued or dropped.
LEMMA AppendInputPlain ==
  ASSUME NEW x, Safe(x), NEW sound
  PROVE  Plain(x, AppendInput(x, sound))
<1>1. CASE QueuesInbound(x)
  <2> DEFINE y == [x EXCEPT !.queued = TRUE]
  <2>1. /\ IsSession(y)
        /\ \A g \in Relevant : y[g] = x[g]
        /\ y.timers = x.timers
    BY DEF Safe, IsSession, Field, Relevant
  <2> QED BY <1>1, <2>1, Quiet DEF AppendInput
<1>2. CASE ~QueuesInbound(x) /\ SuppressesInbound(x)
  BY <1>2, PlainRefl DEF AppendInput
<1>3. CASE ~QueuesInbound(x) /\ ~SuppressesInbound(x)
  <2>1. ~BeforeOpening(x)
    BY <1>3 DEF Safe, Unheard, BeforeOpening, QueuesInbound, SuppressesInbound
  <2> DEFINE y == TryForwardAccumulatedSpeech(x)
  <2>2. Plain(x, y) /\ Safe(y) /\ ~BeforeOpening(y)
    BY <2>1, TryForwardPlain, PlainSafe
  <2>3. AppendInput(x, sound) \in
          {AccumulateDuringIgnore(x, sound), y,
           HearSilence(y), HearSpeech(y, sound = "echo")}
    BY <1>3 DEF AppendInput
  <2> HIDE DEF y
  <2>4. Plain(x, HearSilence(y)) /\ Plain(x, HearSpeech(y, sound = "echo"))
    BY <2>2, HearSilencePlain, HearSpeechPlain, PlainTrans
  <2> QED BY <2>2, <2>3, <2>4, AccumulatePlain
<1> QED BY <1>1, <1>2, <1>3

\* The queued packets are appended.
LEMMA FlushPlain ==
  ASSUME NEW x, Safe(x), NEW sound
  PROVE  Plain(x, FlushPendingInput(x, sound))
<1> DEFINE y == [x EXCEPT !.queued = FALSE]
<1>1. /\ IsSession(y)
      /\ \A g \in Relevant : y[g] = x[g]
      /\ y.timers = x.timers
  BY DEF Safe, IsSession, Field, Relevant
<1>2. Plain(x, y) /\ Safe(y)
  BY <1>1, Quiet, PlainSafe
<1> HIDE DEF y
<1>3. Plain(x, AppendInput(y, sound))
  BY <1>2, AppendInputPlain, PlainTrans
<1> QED BY <1>3, PlainRefl DEF FlushPendingInput, y

\* They are, if the opening does not hold them back.
LEMMA FlushIfReadyPlain ==
  ASSUME NEW x, Safe(x), NEW sound
  PROVE  Plain(x, FlushPendingInputIfReady(x, sound))
BY FlushPlain, PlainRefl DEF FlushPendingInputIfReady
\* A response that is not the greeting is requested.
LEMMA CreateGood ==
  ASSUME NEW x, Safe(x), ~BeforeOpening(x), NEW source \in ResponseSource,
         source # "opening"
  PROVE  LET y == SendResponseCreate(source, x)
         IN /\ Good(x, y)
            /\ y.responseRequested = TRUE
            /\ y.authorizedSource = source
            /\ y.responseId = x.responseId
<1> DEFINE f == [type |-> "create", source |-> source]
           w == [x EXCEPT !.responseRequested = TRUE,
                          !.authorizedSource = source, !.bargeIn = FALSE]
           y == SendResponseCreate(source, x)
<1>1. /\ IsSession(w)
      /\ \A g \in Relevant \ {"responseRequested", "authorizedSource"} : w[g] = x[g]
      /\ w.timers = x.timers
      /\ w.responseRequested = TRUE
      /\ w.authorizedSource = source
  BY ZenonT(60) DEF Safe, IsSession, Field, Relevant
<1>2. y = Send(f, w)
  BY DEF SendResponseCreate
<1> HIDE DEF w, y
<1>3. ~BeforeOpening(w) /\ ~MayGreet(w) /\ w.out = x.out
  BY <1>1 DEF BeforeOpening, MayGreet, Relevant
<1>4. Safe(w)
  BY <1>1, <1>3 DEF Safe, Watched, Unheard, SuppressesInbound, Relevant
<1>5. Good(x, w)
  BY <1>1, <1>3, <1>4 DEF Good, Same, Greets, Listens, IsAiTurnActive, Relevant
<1>6. f \in Frame /\ f.source # "opening"
  BY DEF Frame
<1>7. Plain(w, y)
  BY <1>2, <1>3, <1>4, <1>6, SendPlain
<1>8. /\ y.responseRequested = w.responseRequested
      /\ y.authorizedSource = w.authorizedSource
      /\ y.responseId = w.responseId
      /\ IsSession(y)
  BY <1>1, <1>2 DEF Send, IsSession, Field
<1>9. Good(x, y)
  BY <1>5, <1>7 DEF Plain, Good, Same, Greets, Listens, Asks
<1> QED BY <1>1, <1>8, <1>9 DEF Relevant, y

\* commitInputAndCreateResponse requests nothing, or answers audio that no
\* response is following.
LEMMA CommitGood ==
  ASSUME NEW x, Safe(x), NEW source \in ResponseSource, source # "opening", NEW recent
  PROVE  LET y == CommitInputAndCreateResponse(x, source, recent)
         IN \/ Plain(x, y)
            \/ /\ Good(x, y)
               /\ x.audioAppended /\ ~IsAiTurnActive(x)
               /\ y.responseRequested = TRUE
               /\ y.authorizedSource = source
               /\ y.responseId = x.responseId
<1>1. CASE x.ws # "open" \/ ~ShouldAllowResponseCreate(x, source)
  BY <1>1, PlainRefl DEF CommitInputAndCreateResponse
<1>2. CASE /\ ~(x.ws # "open" \/ ~ShouldAllowResponseCreate(x, source))
           /\ ~x.audioAppended \/ ~x.validSpeech \/ ~recent \/ ~HasEnoughSpeech(x)
  BY <1>2, DisarmPlain DEF CommitInputAndCreateResponse
<1>3. CASE /\ ~(x.ws # "open" \/ ~ShouldAllowResponseCreate(x, source))
           /\ ~(~x.audioAppended \/ ~x.validSpeech \/ ~recent \/ ~HasEnoughSpeech(x))
  <2>1. x.audioAppended /\ ~IsAiTurnActive(x)
    BY <1>3 DEF ShouldAllowResponseCreate
  <2>2. ~BeforeOpening(x)
    BY <2>1 DEF Safe, Unheard
  <2>3. CommitInputAndCreateResponse(x, source, recent) = SendResponseCreate(source, x)
    BY <1>3 DEF CommitInputAndCreateResponse
  <2> QED BY <2>1, <2>2, <2>3, CreateGood, ZenonT(60)
<1> QED BY <1>1, <1>2, <1>3

-----------------------------------------------------------------------------
(* The end of the call.                                                    *)

\* scheduleHangupAfterCompletion
LEMMA HangupPlain ==
  ASSUME NEW x, Safe(x)
  PROVE  Plain(x, ScheduleHangupAfterCompletion(x))
<1> DEFINE y == Disarm({"callEndMaxWait"}, x)
<1>1. Plain(x, y) /\ Safe(y)
  BY DisarmPlain, PlainSafe
<1> HIDE DEF y
<1>2. Plain(x, Arm("hangup", y))
  BY <1>1, ArmPlain, PlainTrans
<1> QED BY <1>2, PlainRefl DEF ScheduleHangupAfterCompletion, y

\* A response that is neither the greeting nor an answer is requested.
LEMMA CreatePlain ==
  ASSUME NEW x, Safe(x), ~BeforeOpening(x), NEW source \in ResponseSource,
         source \notin {"opening", "customer_speech"}
  PROVE  Plain(x, SendResponseCreate(source, x))
BY CreateGood DEF Plain, Asks

\* requestCallEndAcknowledgement
LEMMA AcknowledgePlain ==
  ASSUME NEW x, Safe(x), ~BeforeOpening(x)
  PROVE  Plain(x, RequestCallEndAcknowledgement(x))
<1>1. "call_end_ack" \in ResponseSource
  BY DEF ResponseSource
<1> QED BY <1>1, CreatePlain, HangupPlain DEF RequestCallEndAcknowledgement

\* markCustomerCallEndDetected
LEMMA GoodbyePlain ==
  ASSUME NEW x, Safe(x), ~BeforeOpening(x)
  PROVE  Plain(x, MarkCustomerCallEndDetected(x))
<1> DEFINE y == Arm("callEndMaxWait", [x EXCEPT !.callEndDetected = TRUE])
<1>1. /\ IsSession(y)
      /\ \A g \in Relevant : y[g] = x[g]
      /\ "openingTimeout" \in x.timers => "openingTimeout" \in y.timers
  BY DEF Safe, IsSession, Field, Relevant, Arm
<1>2. MarkCustomerCallEndDetected(x) \in {x, y, RequestCallEndAcknowledgement(y)}
  BY DEF MarkCustomerCallEndDetected
<1> HIDE DEF y
<1>3. Plain(x, y) /\ Safe(y) /\ ~BeforeOpening(y)
  BY <1>1, Quiet, PlainSafe
<1>4. Plain(x, RequestCallEndAcknowledgement(y))
  BY <1>3, AcknowledgePlain, PlainTrans
<1> QED BY <1>2, <1>3, <1>4, PlainRefl
\* The handler requests an answer, to audio that no response is following.
Answers(x, y) ==
  /\ Good(x, y)
  /\ x.audioAppended /\ ~IsAiTurnActive(x)
  /\ y.responseRequested = TRUE
  /\ y.responseId \in {0, x.responseId}

\* A plain update after an answer, which leaves the request standing.
LEMMA AnswersQuiet ==
  ASSUME NEW x, NEW y, NEW z, Answers(x, y), Plain(y, z),
         z.responseRequested = TRUE
  PROVE  Answers(x, z)
BY DEF Answers, Plain, Good, Same, Greets, Listens, Asks

\* A transcript of the customer is plain, or it answers.
LEMMA TranscriptGood ==
  ASSUME NEW x, Safe(x), ~BeforeOpening(x),
         NEW echo, NEW bye, NEW recent
  PROVE  LET y == HearTranscript(x, echo, bye, recent)
         IN Plain(x, y) \/ Answers(x, y)
<1> DEFINE confirmed == IF x.customerTurnConfirmed THEN x ELSE ConfirmCustomerTurn(x)
           allowed == [confirmed EXCEPT !.allowNextServerVad = TRUE]
           committed == CommitInputAndCreateResponse(allowed, "customer_speech", recent)
           answered ==
             IF x.useServerVad /\ ~IsAiTurnActive(x) /\ x.audioAppended
             THEN committed ELSE confirmed
           handled == [answered EXCEPT !.availabilityHandled =
                         @ \/ bye \/ IsAwaitingAvailability(answered)]
           goodbye == Arm("callEndMaxWait", [handled EXCEPT !.callEndDetected = TRUE])
<1>1. Plain(x, confirmed) /\ Safe(confirmed)
  BY ConfirmPlain, PlainRefl, PlainSafe
<1>2. \A g \in Relevant : confirmed[g] = x[g]
  BY ZenonT(60) DEF Safe, IsSession, Field, Relevant, ConfirmCustomerTurn
<1>3. HearTranscript(x, echo, bye, recent)
        \in {x, handled, MarkCustomerCallEndDetected(handled)}
  BY DEF HearTranscript
<1> HIDE DEF confirmed
<1>4. /\ IsSession(allowed)
      /\ \A g \in Relevant : allowed[g] = confirmed[g]
      /\ allowed.timers = confirmed.timers
  BY <1>1 DEF Safe, IsSession, Field, Relevant
<1>5. Plain(x, allowed) /\ Safe(allowed)
  BY <1>1, <1>4, Quiet, PlainTrans, PlainSafe
<1>6. allowed.audioAppended = x.audioAppended /\ (IsAiTurnActive(allowed) <=> IsAiTurnActive(x))
  BY <1>2, <1>4 DEF Relevant, IsAiTurnActive
<1> HIDE DEF allowed
<1>7. Plain(x, committed) \/ Answers(x, committed)
  <2>1. CASE Plain(allowed, committed)
    BY <1>5, <2>1, PlainTrans
  <2>2. CASE /\ Good(allowed, committed)
             /\ allowed.audioAppended /\ ~IsAiTurnActive(allowed)
             /\ committed.responseRequested = TRUE
             /\ committed.responseId = allowed.responseId
    BY <1>5, <1>6, <2>2, GoodTrans DEF Answers, Plain, Asks
  <2>3. "customer_speech" \in ResponseSource
    BY DEF ResponseSource
  <2> HIDE DEF committed
  <2> QED BY <1>5, <2>1, <2>2, <2>3, CommitGood, ZenonT(60) DEF committed
<1>8. Plain(x, answered) \/ Answers(x, answered)
  BY <1>1, <1>7
<1> HIDE DEF answered
<1>9. Safe(answered)
  BY <1>8 DEF Plain, Answers, Good
<1>10. /\ IsSession(handled)
       /\ \A g \in Relevant : handled[g] = answered[g]
       /\ handled.timers = answered.timers
  BY <1>9 DEF Safe, IsSession, Field, Relevant
<1> HIDE DEF handled
<1>11. Plain(answered, handled) /\ handled.responseRequested = answered.responseRequested
  BY <1>9, <1>10, Quiet DEF Relevant
<1>12. Plain(x, handled) \/ Answers(x, handled)
  BY <1>8, <1>11, PlainTrans, AnswersQuiet DEF Answers
<1>13. Safe(handled) /\ ~BeforeOpening(handled)
  BY <1>12 DEF Plain, Answers, Good, Same
<1>14. Plain(handled, MarkCustomerCallEndDetected(handled))
  BY <1>13, GoodbyePlain
<1>15. CASE Plain(x, handled)
  BY <1>3, <1>14, <1>15, PlainTrans, PlainRefl
<1>16. CASE Answers(x, handled)
  <2>1. goodbye.responseRequested = TRUE /\ IsAiTurnActive(goodbye)
    BY <1>10, <1>16 DEF Answers, IsAiTurnActive, Arm, IsSession, Field
  <2>2. MarkCustomerCallEndDetected(handled) \in {handled, goodbye}
    BY <2>1 DEF MarkCustomerCallEndDetected
  <2> HIDE DEF goodbye
  <2>3. Answers(x, MarkCustomerCallEndDetected(handled))
    BY <1>14, <1>16, <2>1, <2>2, AnswersQuiet DEF Answers
  <2> QED BY <1>3, <1>16, <2>3, PlainRefl
<1> QED BY <1>12, <1>15, <1>16

-----------------------------------------------------------------------------
(* Frames from OpenAI.                                                     *)

\* session.created
LEMMA CreatedPlain ==
  ASSUME NEW x, Safe(x), NEW bound
  PROVE  Plain(x, SessionCreated(x, bound))
<1> DEFINE y == [x EXCEPT !.openAiSessionCreated = TRUE]
           z == IF ~y.sessionUpdateSent THEN y
                ELSE IF y.aiSpeakFirstEnabled /\ y.smartfloStartReceived
                THEN MarkOpenAiInstructionReady(y, bound)
                ELSE ScheduleInstructionReady(y)
<1>1. /\ IsSession(y)
      /\ \A g \in Relevant : y[g] = x[g]
      /\ y.timers = x.timers
  BY DEF Safe, IsSession, Field, Relevant
<1> HIDE DEF y
<1>2. Plain(x, y) /\ Safe(y)
  BY <1>1, Quiet, PlainSafe
<1>3. Plain(x, z) /\ Safe(z)
  BY <1>2, MarkReadyPlain, ScheduleInstructionPlain, PlainTrans, PlainSafe
<1> HIDE DEF z
<1>4. Plain(x, EvaluateOpeningReadiness(z, bound))
  BY <1>3, EvaluatePlain, PlainTrans
<1> QED BY <1>4 DEF SessionCreated, z, y

\* The handler takes a response that OpenAI has begun.
Begins(x, y) ==
  /\ Good(x, y)
  /\ y.authorizedSource = "customer_speech" => x.authorizedSource = "customer_speech"
  /\ y.responseInProgress = TRUE \/ y.responseId \in {0, x.responseId}

\* response.created: during the opening it is the greeting's own response.
LEMMA ResponseCreatedBegins ==
  ASSUME NEW x, Safe(x), NEW id,
         BeforeOpening(x) => x.authorizedSource # None /\ ~HasOpening(x.out)
  PROVE  Begins(x, ResponseCreated(x, id))
<1> DEFINE y == ResponseCreated(x, id)
           authorized == \/ x.authorizedSource # None
                         \/ x.allowNextServerVad \/ x.customerTurnConfirmed
<1>1. CASE ~authorized
  BY <1>1, SendCancelPlain DEF ResponseCreated, Begins, Plain, Asks
<1>2. CASE authorized
  <2>1. /\ IsSession(y)
        /\ \A g \in Relevant \ {"authorizedSource", "responseInProgress", "responseId"} :
             y[g] = x[g]
        /\ y.timers = x.timers
        /\ y.authorizedSource = None
        /\ y.responseInProgress = TRUE
    BY <1>2, ZenonT(60) DEF Safe, IsSession, Field, Relevant, ResponseCreated
  <2> HIDE DEF y
  <2>2. /\ BeforeOpening(y) <=> BeforeOpening(x)
        /\ MayGreet(y) <=> MayGreet(x)
        /\ y.out = x.out
    BY <2>1 DEF Relevant, BeforeOpening, MayGreet
  <2>3. Unheard(y)
    BY <2>1, <2>2 DEF Safe, Unheard, Relevant
  <2>4. Watched(y)
    BY <2>1 DEF Safe, Watched, SuppressesInbound, Relevant
  <2>5. Same(x, y) /\ Greets(x, y) /\ Listens(x, y)
    BY <2>1, <2>2 DEF Same, Greets, Listens, IsAiTurnActive, Relevant
  <2> QED BY <2>1, <2>2, <2>3, <2>4, <2>5 DEF Begins, Good, Safe, Same, None, y
<1> QED BY <1>1, <1>2

\* response.output_audio.delta
LEMMA DeltaPlain ==
  ASSUME NEW x, Safe(x), NEW framed
  PROVE  Plain(x, OutputAudioDelta(x, framed))
<1> DEFINE y == OutputAudioDelta(x, framed)
<1>1. /\ IsSession(y)
      /\ \A g \in Relevant \ {"openingState"} : y[g] = x[g]
      /\ y.timers = x.timers
      /\ \/ y.openingState = x.openingState
         \/ /\ x.openingState = "opening_response_requested"
            /\ y.openingState = "opening_audio_playing"
  BY ZenonT(60) DEF Safe, IsSession, Field, Relevant, OutputAudioDelta
<1> HIDE DEF y
<1>2. /\ BeforeOpening(y) <=> BeforeOpening(x)
      /\ MayGreet(y) <=> MayGreet(x)
      /\ y.out = x.out
  BY <1>1 DEF Relevant, BeforeOpening, MayGreet
<1>3. Unheard(y)
  BY <1>1, <1>2 DEF Safe, Unheard, Relevant
<1>4. Watched(y)
  BY <1>1 DEF Safe, Watched, SuppressesInbound, Relevant
<1>5. Same(x, y) /\ Greets(x, y) /\ Listens(x, y) /\ Asks(x, y)
  BY <1>1, <1>2 DEF Same, Greets, Listens, Asks, IsAiTurnActive, Relevant
<1> QED BY <1>1, <1>2, <1>3, <1>4, <1>5 DEF Plain, Good, Safe, Same, y

\* response.done
LEMMA ResponseDonePlain ==
  ASSUME NEW x, Safe(x)
  PROVE  Plain(x, ResponseDone(x))
<1> DEFINE v == [x EXCEPT !.responseInProgress = FALSE, !.responseComplete = TRUE,
                          !.responseRequested = FALSE, !.responseId = 0,
                          !.cancelSentFor = 0, !.activeSource = None]
           y == ResetSpeechTurnState(v)
           u == [y EXCEPT !.openingIsCurrentResponse = FALSE]
           z1 == CompleteOpeningGreeting(u)
           z2 == MaybeRetryOpeningGreetingAfterResponse(y)
           w(z) == SetAwaitingCustomerInput(z)
<1>1. /\ IsSession(y)
      /\ \A g \in Relevant \ {"responseInProgress", "responseRequested",
                              "responseId", "audioAppended"} : y[g] = x[g]
      /\ y.timers = x.timers
      /\ y.audioAppended = FALSE
      /\ y.responseId = 0
  BY ZenonT(60) DEF Safe, IsSession, Field, Relevant, ResetSpeechTurnState
<1>2. \E z \in {y, z1, z2} :
        ResponseDone(x) \in {w(z), ScheduleHangupAfterCompletion(w(z))}
  BY DEF ResponseDone
<1> HIDE DEF y
<1>3. /\ BeforeOpening(y) <=> BeforeOpening(x)
      /\ MayGreet(y) <=> MayGreet(x)
      /\ y.out = x.out
  BY <1>1 DEF Relevant, BeforeOpening, MayGreet
<1>4. Unheard(y)
  BY <1>1, <1>3 DEF Safe, Unheard, Relevant
<1>5. Watched(y)
  BY <1>1 DEF Safe, Watched, SuppressesInbound, Relevant
<1>6. Same(x, y) /\ Greets(x, y) /\ Listens(x, y) /\ Asks(x, y)
  BY <1>1, <1>3 DEF Same, Greets, Listens, Asks, IsAiTurnActive, Relevant
<1>7. Plain(x, y) /\ Safe(y)
  BY <1>1, <1>3, <1>4, <1>5, <1>6 DEF Plain, Good, Safe, Same
<1>8. /\ IsSession(u)
      /\ \A g \in Relevant : u[g] = y[g]
      /\ u.timers = y.timers
  BY <1>7 DEF Safe, IsSession, Field, Relevant
<1> HIDE DEF u
<1>9. Plain(x, u) /\ Safe(u)
  BY <1>7, <1>8, Quiet, PlainTrans, PlainSafe
<1>10. Plain(x, z1) /\ Plain(x, z2)
  BY <1>7, <1>9, CompletePlain, MaybeRetryPlain, PlainTrans
<1> HIDE DEF z1, z2
<1>11. ASSUME NEW z, Plain(x, z)
       PROVE  Plain(x, w(z)) /\ Plain(x, ScheduleHangupAfterCompletion(w(z)))
  BY <1>11, SetAwaitingPlain, HangupPlain, PlainTrans, PlainSafe
<1> HIDE DEF w
<1> QED BY <1>2, <1>7, <1>10, <1>11

\* response.cancelled; during the opening nothing is cancelled
LEMMA CancelledPlain ==
  ASSUME NEW x, Safe(x), ~BeforeOpening(x)
  PROVE  Plain(x, ResponseCancelled(x))
<1> DEFINE v == [x EXCEPT !.openingGreetingPending = FALSE,
                          !.openingIsCurrentResponse = FALSE,
                          !.activeSource = None, !.greetingActuallySent = FALSE]
           y == IF ~InterruptedOpening(x) THEN x
                ELSE IF OpeningResponseHadAudio(x) THEN FinalizeInterruptedOpening(x)
                ELSE v
           r == ResetResponseGuards(y)
           z == [r EXCEPT !.responseId = 0]
<1>1. /\ IsSession(v)
      /\ \A g \in Relevant \ {"greetingActuallySent"} : v[g] = x[g]
      /\ v.timers = x.timers
  BY ZenonT(60) DEF Safe, IsSession, Field, Relevant
<1> HIDE DEF v
<1>2. ~BeforeOpening(v) /\ ~MayGreet(v) /\ v.out = x.out
  BY <1>1 DEF Relevant, BeforeOpening, MayGreet
<1>3. Watched(v)
  BY <1>1 DEF Safe, Watched, SuppressesInbound, Relevant
<1>4. Same(x, v) /\ Greets(x, v) /\ Listens(x, v) /\ Asks(x, v)
  BY <1>1, <1>2 DEF Same, Greets, Listens, Asks, IsAiTurnActive, Relevant
<1>5. Plain(x, v)
  BY <1>1, <1>2, <1>3, <1>4 DEF Plain, Good, Safe, Same, Unheard
<1>6. Plain(x, y) /\ Safe(y)
  BY <1>5, FinalizePlain, PlainRefl, PlainSafe
<1> HIDE DEF y
<1>7. Plain(x, r) /\ Safe(r)
  BY <1>6, ResetGuardsPlain, PlainTrans, PlainSafe
<1> HIDE DEF r
<1>8. /\ IsSession(z)
      /\ \A g \in Relevant \ {"responseId"} : z[g] = r[g]
      /\ z.timers = r.timers
      /\ z.responseId = 0
  BY <1>7 DEF Safe, IsSession, Field, Relevant
<1> HIDE DEF z
<1>9. ~BeforeOpening(z) /\ ~MayGreet(z) /\ z.out = r.out
  BY <1>7, <1>8, PlainSafe DEF Relevant, BeforeOpening, MayGreet
<1>10. Watched(z)
  BY <1>7, <1>8 DEF Safe, Watched, SuppressesInbound, Relevant
<1>11. Same(r, z) /\ Greets(r, z) /\ Listens(r, z) /\ Asks(r, z)
  BY <1>8, <1>9 DEF Same, Greets, Listens, Asks, IsAiTurnActive, Relevant
<1>12. Plain(r, z)
  BY <1>7, <1>8, <1>9, <1>10, <1>11 DEF Plain, Good, Safe, Same, Unheard
<1> QED BY <1>7, <1>12, PlainTrans DEF ResponseCancelled, v, y, r, z

\* error
LEMMA ErrorPlain ==
  ASSUME NEW x, Safe(x)
  PROVE  Plain(x, ErrorEvent(x))
<1> DEFINE v == [x EXCEPT !.activeSource = None]
           y == IF ~InterruptedOpening(x) THEN x
                ELSE IF OpeningResponseHadAudio(x) THEN FinalizeInterruptedOpening(x)
                ELSE FailOpeningWithFallback(v)
<1>1. /\ IsSession(v)
      /\ \A g \in Relevant : v[g] = x[g]
      /\ v.timers = x.timers
  BY DEF Safe, IsSession, Field, Relevant
<1> HIDE DEF v
<1>2. Plain(x, FailOpeningWithFallback(v))
  BY <1>1, Quiet, FailPlain, PlainTrans, PlainSafe
<1>3. Plain(x, y) /\ Safe(y)
  BY <1>2, FinalizePlain, PlainRefl, PlainSafe
<1> HIDE DEF y
<1>4. Plain(x, ResetResponseGuards(y))
  BY <1>3, ResetGuardsPlain, PlainTrans
<1> QED BY <1>4 DEF ErrorEvent, v, y

-----------------------------------------------------------------------------
(* endSession and the socket.                                              *)

\* The socket to OpenAI closes.
LEMMA ClosedPlain ==
  ASSUME NEW x, Safe(x)
  PROVE  Plain(x, SocketClosed(x))
<1> DEFINE v == [x EXCEPT !.ws = "closed", !.timers = {}, !.out = <<>>]
           y == ResetResponseGuards(v)
<1>1. /\ IsSession(v)
      /\ \A g \in Relevant \ {"ws", "out"} : v[g] = x[g]
      /\ v.ws = "closed"
      /\ v.out = <<>>
  BY ZenonT(60) DEF Safe, IsSession, Field, Relevant
<1> HIDE DEF v
<1>2. /\ v.out \in Seq(Frame)
      /\ ~HasOpening(v.out)
      /\ OneOpening(v.out)
  BY <1>1 DEF HasOpening, OneOpening
<1>3. /\ BeforeOpening(v) <=> BeforeOpening(x)
      /\ MayGreet(v) <=> MayGreet(x)
  BY <1>1 DEF Relevant, BeforeOpening, MayGreet
<1>4. Unheard(v)
  BY <1>1, <1>2, <1>3 DEF Safe, Unheard, Relevant
<1>5. Watched(v)
  BY <1>1 DEF Watched
<1>6. Same(x, v) /\ Greets(x, v) /\ Listens(x, v) /\ Asks(x, v)
  BY <1>1, <1>2, <1>3 DEF Same, Greets, Listens, Asks, IsAiTurnActive, Relevant
<1>7. Plain(x, v) /\ Safe(v)
  BY <1>1, <1>2, <1>3, <1>4, <1>5, <1>6 DEF Plain, Good, Safe, Same
<1>8. Plain(x, y) /\ Safe(y)
  BY <1>7, ResetGuardsPlain, PlainTrans, PlainSafe
<1> HIDE DEF y
<1>9. Plain(x, FailOpeningWithFallback(y))
  BY <1>8, FailPlain, PlainTrans
<1> QED BY <1>8, <1>9 DEF SocketClosed, v, y
\* endSession once the socket is open: the last request is not an answer.
LEMMA FlushAtEndPlain ==
  ASSUME NEW x, Safe(x), NEW sound, NEW recent
  PROVE  Plain(x, FlushAtEnd(x, sound, recent))
<1> DEFINE v == [x EXCEPT !.sessionReady = TRUE]
           flushed == FlushPendingInput(v, sound)
           committed == CommitInputAndCreateResponse(flushed, "session_end", recent)
           y == IF \/ ~flushed.useServerVad
                   \/ /\ ~flushed.responseComplete /\ ~flushed.responseInProgress
                      /\ flushed.everAppended
                THEN committed ELSE flushed
           z == [y EXCEPT !.ending = "waitResponse"]
<1>1. /\ IsSession(v)
      /\ \A g \in Relevant : v[g] = x[g]
      /\ v.timers = x.timers
  BY DEF Safe, IsSession, Field, Relevant
<1> HIDE DEF v
<1>2. Plain(x, v) /\ Safe(v)
  BY <1>1, Quiet, PlainSafe
<1>3. Plain(x, flushed) /\ Safe(flushed)
  BY <1>2, FlushPlain, PlainTrans, PlainSafe
<1> HIDE DEF flushed
<1>4. Plain(flushed, committed)
  <2>1. "session_end" \in ResponseSource
    BY DEF ResponseSource
  <2> QED BY <1>3, <2>1, CommitGood, ZenonT(60) DEF Plain, Asks
<1>5. Plain(x, y) /\ Safe(y)
  BY <1>3, <1>4, PlainTrans, PlainSafe
<1> HIDE DEF y
<1>6. /\ IsSession(z)
      /\ \A g \in Relevant \ {"ending"} : z[g] = y[g]
      /\ z.timers = y.timers
      /\ z.ending = "waitResponse"
  BY <1>5 DEF Safe, IsSession, Field, Relevant
<1> HIDE DEF z
<1>7. /\ BeforeOpening(z) <=> BeforeOpening(y)
      /\ MayGreet(z) <=> MayGreet(y)
      /\ z.out = y.out
  BY <1>6 DEF Relevant, BeforeOpening, MayGreet
<1>8. Unheard(z) /\ Watched(z)
  BY <1>5, <1>6, <1>7 DEF Safe, Unheard, Watched, SuppressesInbound, Relevant
<1>9. Same(y, z) /\ Greets(y, z) /\ Listens(y, z) /\ Asks(y, z)
  BY <1>6, <1>7 DEF Same, Greets, Listens, Asks, IsAiTurnActive, Relevant
<1>10. Plain(y, z)
  BY <1>5, <1>6, <1>7, <1>8, <1>9 DEF Plain, Good, Safe, Same
<1> QED BY <1>5, <1>10, PlainTrans DEF FlushAtEnd, z, y, committed, flushed, v

\* endSession begins.
LEMMA EndingPlain ==
  ASSUME NEW x, Safe(x), ~x.closing
  PROVE  Plain(x, [x EXCEPT !.closing = TRUE, !.timers = {}, !.ending = "waitOpen"])
<1> DEFINE z == [x EXCEPT !.closing = TRUE, !.timers = {}, !.ending = "waitOpen"]
<1>1. /\ IsSession(z)
      /\ \A g \in Relevant \ {"ending", "closing"} : z[g] = x[g]
      /\ z.ending = "waitOpen" /\ z.closing = TRUE
  BY ZenonT(60) DEF Safe, IsSession, Field, Relevant
<1> HIDE DEF z
<1>2. /\ BeforeOpening(z) <=> BeforeOpening(x)
      /\ MayGreet(z) <=> MayGreet(x)
      /\ z.out = x.out
  BY <1>1 DEF Relevant, BeforeOpening, MayGreet
<1>3. Unheard(z) /\ Watched(z)
  BY <1>1, <1>2 DEF Safe, Unheard, Watched, Relevant
<1>4. Same(x, z) /\ Greets(x, z) /\ Listens(x, z) /\ Asks(x, z)
  BY <1>1, <1>2 DEF Same, Greets, Listens, Asks, IsAiTurnActive, Relevant
<1> QED BY <1>1, <1>2, <1>3, <1>4 DEF Plain, Good, Safe, Same, z

\* The socket to OpenAI is gone.
LEMMA NoSocketPlain ==
  ASSUME NEW x, Safe(x)
  PROVE  Plain(x, [x EXCEPT !.ws = "closed"])
<1> DEFINE z == [x EXCEPT !.ws = "closed"]
<1>1. /\ IsSession(z)
      /\ \A g \in Relevant \ {"ws"} : z[g] = x[g]
      /\ z.timers = x.timers
      /\ z.ws = "closed"
  BY DEF Safe, IsSession, Field, Relevant
<1> HIDE DEF z
<1>2. /\ BeforeOpening(z) <=> BeforeOpening(x)
      /\ MayGreet(z) <=> MayGreet(x)
      /\ z.out = x.out
  BY <1>1 DEF Relevant, BeforeOpening, MayGreet
<1>3. Unheard(z) /\ Watched(z)
  BY <1>1, <1>2 DEF Safe, Unheard, Watched, Relevant
<1>4. Same(x, z) /\ Greets(x, z) /\ Listens(x, z) /\ Asks(x, z)
  BY <1>1, <1>2 DEF Same, Greets, Listens, Asks, IsAiTurnActive, Relevant
<1> QED BY <1>1, <1>2, <1>3, <1>4 DEF Plain, Good, Safe, Same, z

\* It opens: no greeting was requested before.
LEMMA OpensPlain ==
  ASSUME NEW x, Safe(x), x.ws = "connecting"
  PROVE  Plain(x, [x EXCEPT !.ws = "open"])
<1> DEFINE z == [x EXCEPT !.ws = "open"]
<1>1. /\ IsSession(z)
      /\ \A g \in Relevant \ {"ws"} : z[g] = x[g]
      /\ z.timers = x.timers
      /\ z.ws = "open"
  BY DEF Safe, IsSession, Field, Relevant
<1> HIDE DEF z
<1>2. /\ BeforeOpening(z) <=> BeforeOpening(x)
      /\ MayGreet(z) <=> MayGreet(x)
      /\ z.out = x.out
  BY <1>1 DEF Relevant, BeforeOpening, MayGreet
<1>3. Unheard(z) /\ Watched(z)
  BY <1>1, <1>2 DEF Safe, Unheard, Watched, SuppressesInbound, Relevant
<1>4. Same(x, z) /\ Greets(x, z) /\ Listens(x, z) /\ Asks(x, z)
  BY <1>1, <1>2 DEF Same, Greets, Listens, Asks, IsAiTurnActive, Relevant
<1> QED BY <1>1, <1>2, <1>3, <1>4 DEF Plain, Good, Safe, Same, z

\* OpenAI takes a frame; after the frame of the greeting there is no other.
LEMMA TakenPlain ==
  ASSUME NEW x, Safe(x), x.out # <<>>
  PROVE  LET y == [x EXCEPT !.out = Tail(@)]
         IN /\ Plain(x, y)
            /\ y.authorizedSource = x.authorizedSource
            /\ x.fallback /\ Head(x.out).source = "opening" => ~HasOpening(y.out)
            /\ BeforeOpening(y) => BeforeOpening(x)
<1> DEFINE z == [x EXCEPT !.out = Tail(@)]
<1>1. /\ IsSession(z)
      /\ \A g \in Relevant \ {"out"} : z[g] = x[g]
      /\ z.timers = x.timers
      /\ z.out = Tail(x.out)
  BY DEF Safe, IsSession, Field, Relevant
<1> HIDE DEF z
<1>2. /\ BeforeOpening(z) <=> BeforeOpening(x)
      /\ MayGreet(z) <=> MayGreet(x)
  BY <1>1 DEF Relevant, BeforeOpening, MayGreet
<1>3. /\ z.out \in Seq(Frame)
      /\ Len(z.out) = Len(x.out) - 1 /\ Len(x.out) \in Nat
      /\ \A i \in 1..Len(z.out) : z.out[i] = x.out[i + 1] /\ i + 1 \in 1..Len(x.out)
      /\ Head(x.out) = x.out[1] /\ 1 \in 1..Len(x.out)
  BY <1>1 DEF Safe
<1>4. /\ HasOpening(z.out) => HasOpening(x.out)
      /\ x.fallback => OneOpening(z.out)
      /\ x.fallback /\ Head(x.out).source = "opening" => ~HasOpening(z.out)
  <2>1. HasOpening(z.out) => HasOpening(x.out)
    BY <1>3 DEF HasOpening
  <2>2. ASSUME x.fallback
        PROVE  OneOpening(z.out)
    <3> SUFFICES ASSUME NEW i \in 1..Len(z.out), NEW j \in 1..Len(z.out),
                        z.out[i].source = "opening", z.out[j].source = "opening"
                 PROVE  i = j
      BY DEF OneOpening
    <3>1. i + 1 = j + 1
      BY <1>3, <2>2 DEF Safe, OneOpening
    <3> QED BY <3>1
  <2>3. ASSUME x.fallback, Head(x.out).source = "opening", HasOpening(z.out)
        PROVE  FALSE
    <3>1. PICK i \in 1..Len(z.out) : z.out[i].source = "opening"
      BY <2>3 DEF HasOpening
    <3>2. i + 1 = 1
      BY <1>3, <2>3, <3>1 DEF Safe, OneOpening
    <3> QED BY <3>2
  <2> QED BY <2>1, <2>2, <2>3
<1>5. Unheard(z)
  <2> SUFFICES ASSUME BeforeOpening(x)
               PROVE  /\ z.openingState \in {"waiting_for_openai_ready", "ready_to_speak",
                           "opening_response_requested", "opening_audio_playing"}
                      /\ ~z.audioAppended /\ ~z.everAppended
                      /\ \A i \in 1..Len(z.out) :
                           z.out[i].type = "update" \/ z.out[i].source = "opening"
                      /\ HasOpening(z.out) => z.authorizedSource = "opening"
    BY <1>2 DEF Unheard
  <2> QED BY <1>1, <1>3, <1>4 DEF Safe, Unheard, Relevant
<1>6. Watched(z)
  BY <1>1 DEF Safe, Watched, SuppressesInbound, Relevant
<1>7. Same(x, z) /\ Greets(x, z) /\ Listens(x, z) /\ Asks(x, z)
  BY <1>1, <1>2, <1>4 DEF Same, Greets, Listens, Asks, IsAiTurnActive, Relevant
<1>8. Plain(x, z)
  BY <1>1, <1>2, <1>3, <1>4, <1>5, <1>6, <1>7 DEF Plain, Good, Safe, Same
<1> QED BY <1>1, <1>2, <1>4, <1>8 DEF Relevant, z

\* The three kinds of handlers.
Handles(x, y) == Plain(x, y) \/ Answers(x, y) \/ Begins(x, y)

-----------------------------------------------------------------------------
(* Steps.                                                                  *)

\* A step whose handler is plain.
LEMMA StepOf ==
  ASSUME NEW y, Step(y), Plain(s, y)
  PROVE  \E z : Step(z) /\ Handles(s, z)
BY DEF Handles

\* The stream's socket is bound.
LEMMA BindHandles ==
  ASSUME Safe(s), BindSocket
  PROVE  \E y : Step(y) /\ Handles(s, y)
BY EvaluatePlain, StepOf DEF BindSocket

\* adoptPrewarmSession
LEMMA AdoptHandles ==
  ASSUME Safe(s), Adopt
  PROVE  \E y : Step(y) /\ Handles(s, y)
<1> DEFINE v == [s EXCEPT !.smartfloStartReceived = TRUE, !.readinessRetries = 0]
           y == Disarm({"openingReadinessRetry"}, v)
           z == IF y.ws = "open" /\ y.openAiSessionUpdated
                THEN IF y.openingGreetingComplete
                     THEN LookUpPlaybook(y) ELSE SendSessionUpdate(y)
                ELSE y
<1>1. /\ IsSession(y)
      /\ \A g \in Relevant : y[g] = s[g]
      /\ "openingTimeout" \in s.timers => "openingTimeout" \in y.timers
  BY DEF Safe, IsSession, Field, Relevant, Disarm
<1>2. \E bound \in BOOLEAN : Step(EvaluateOpeningReadiness(z, bound))
  BY DEF Adopt
<1> HIDE DEF y
<1>3. Plain(s, y) /\ Safe(y)
  BY <1>1, Quiet, PlainSafe
<1>4. Plain(s, z) /\ Safe(z)
  BY <1>3, LookUpPlain, SessionUpdatePlain, PlainTrans, PlainSafe
<1> HIDE DEF z
<1>5. \A bound : Plain(s, EvaluateOpeningReadiness(z, bound))
  BY <1>4, EvaluatePlain, PlainTrans
<1> QED BY <1>2, <1>5, StepOf

\* A packet of the customer.
LEMMA PacketHandles ==
  ASSUME Safe(s), NEW sound, Packet(sound)
  PROVE  \E y : Step(y) /\ Handles(s, y)
<1> DEFINE v == [s EXCEPT !.queued = TRUE]
<1>1. /\ IsSession(v)
      /\ \A g \in Relevant : v[g] = s[g]
      /\ v.timers = s.timers
  BY DEF Safe, IsSession, Field, Relevant
<1>2. Step(v) \/ Step(AppendInput(s, sound))
  BY DEF Packet
<1> HIDE DEF v
<1>3. Plain(s, v)
  BY <1>1, Quiet
<1> QED BY <1>2, <1>3, AppendInputPlain, StepOf

\* The window that ignores the inbound audio ends.
LEMMA IgnoreHandles ==
  ASSUME Safe(s), IgnoreWindowEnds
  PROVE  \E y : Step(y) /\ Handles(s, y)
<1> DEFINE v == [s EXCEPT !.ignoringInbound = FALSE]
<1>1. /\ IsSession(v)
      /\ \A g \in Relevant : v[g] = s[g]
      /\ v.timers = s.timers
  BY DEF Safe, IsSession, Field, Relevant
<1>2. Step(v)
  BY DEF IgnoreWindowEnds
<1> HIDE DEF v
<1> QED BY <1>1, <1>2, Quiet, StepOf

\* endSession
LEMMA EndSessionHandles ==
  ASSUME Safe(s), NEW sound, NEW recent, EndSession(sound, recent)
  PROVE  \E y : Step(y) /\ Handles(s, y)
<1> DEFINE x == [s EXCEPT !.closing = TRUE, !.timers = {}, !.ending = "waitOpen"]
<1>1. ~s.closing /\ (Step(x) \/ Step(FlushAtEnd(x, sound, recent)))
  BY DEF EndSession
<1>2. Plain(s, x) /\ Safe(x)
  BY <1>1, EndingPlain, PlainSafe
<1> HIDE DEF x
<1>3. Plain(s, FlushAtEnd(x, sound, recent))
  BY <1>2, FlushAtEndPlain, PlainTrans
<1> QED BY <1>1, <1>2, <1>3, StepOf

\* The socket to OpenAI fails or closes.
LEMMA SocketEndsHandles ==
  ASSUME Safe(s), NEW error, SocketEnds(error)
  PROVE  \E y : Step(y) /\ Handles(s, y)
<1> DEFINE x == [s EXCEPT !.ws = "closed"]
<1>1. Step(SocketClosed(x)) \/ Step(SocketClosed(FailOpeningWithFallback(x)))
  BY DEF SocketEnds
<1>2. Plain(s, x) /\ Safe(x)
  BY NoSocketPlain, PlainSafe
<1> HIDE DEF x
<1>3. Plain(s, FailOpeningWithFallback(x)) /\ Safe(FailOpeningWithFallback(x))
  BY <1>2, FailPlain, PlainTrans, PlainSafe
<1>4. Plain(s, SocketClosed(x)) /\ Plain(s, SocketClosed(FailOpeningWithFallback(x)))
  BY <1>2, <1>3, ClosedPlain, PlainTrans
<1> QED BY <1>1, <1>4, StepOf
\* The readiness retry fires.
LEMMA RetryFiresHandles ==
  ASSUME Safe(s), ReadinessRetryFires
  PROVE  \E y : Step(y) /\ Handles(s, y)
<1> DEFINE x == Disarm({"openingReadinessRetry"}, s)
<1>1. Step(EvaluateOpeningReadiness(x, socket))
  BY DEF ReadinessRetryFires, Fires
<1>2. Plain(s, x) /\ Safe(x)
  BY DisarmPlain, PlainSafe
<1> HIDE DEF x
<1>3. Plain(s, EvaluateOpeningReadiness(x, socket))
  BY <1>2, EvaluatePlain, PlainTrans
<1> QED BY <1>1, <1>3, StepOf

\* The instruction-ready timer fires.
LEMMA InstructionReadyHandles ==
  ASSUME Safe(s), NEW sound, InstructionReadyFires(sound)
  PROVE  \E y : Step(y) /\ Handles(s, y)
<1> DEFINE x == Disarm({"instructionReady"}, s)
           y == MarkOpenAiInstructionReady(x, socket)
<1>1. Step(x) \/ Step(FlushPendingInputIfReady(y, sound))
  BY DEF InstructionReadyFires, Fires
<1>2. Plain(s, x) /\ Safe(x)
  BY DisarmPlain, PlainSafe
<1> HIDE DEF x
<1>3. Plain(s, y) /\ Safe(y)
  BY <1>2, MarkReadyPlain, PlainTrans, PlainSafe
<1> HIDE DEF y
<1>4. Plain(s, FlushPendingInputIfReady(y, sound))
  BY <1>3, FlushIfReadyPlain, PlainTrans
<1> QED BY <1>1, <1>2, <1>4, StepOf

\* The opening timeout fires: the one timer whose end the invariant watches.
LEMMA OpeningTimeoutHandles ==
  ASSUME Safe(s), OpeningTimeoutFires
  PROVE  \E y : Step(y) /\ Handles(s, y)
<1> DEFINE x == Disarm({"openingTimeout"}, s)
           stays == \/ x.closing \/ x.openingGreetingComplete
                    \/ x.openingState \in {"opening_done", "failed"}
<1>1. IF stays THEN Step(x) ELSE Step(FailOpeningWithFallback(x))
  BY DEF OpeningTimeoutFires, Fires
<1>2. /\ IsSession(x)
      /\ \A g \in Relevant : x[g] = s[g]
      /\ x.timers = s.timers \ {"openingTimeout"}
  BY DEF Safe, IsSession, Field, Relevant, Disarm
<1> HIDE DEF x
<1>3. CASE stays
  <2>1. Watched(x)
    BY <1>3 DEF Watched, SuppressesInbound
  <2>2. /\ Unheard(x) <=> Unheard(s)
        /\ MayGreet(x) <=> MayGreet(s)
        /\ Same(s, x)
        /\ x.out = s.out
    BY <1>2 DEF Relevant, Unheard, MayGreet, BeforeOpening, Same
  <2>3. Greets(s, x) /\ Listens(s, x) /\ Asks(s, x)
    BY <1>2 DEF Relevant, MayGreet, BeforeOpening, Greets, Listens, Asks, IsAiTurnActive
  <2>4. Plain(s, x)
    BY <1>2, <2>1, <2>2, <2>3 DEF Plain, Good, Safe, Same
  <2> QED BY <1>1, <1>3, <2>4, StepOf
<1>4. CASE ~stays
  <2> DEFINE y == FailOpeningWithFallback(x)
  <2>1. Plain(s, y)
    <3> DEFINE failed ==
             Disarm({"openingTimeout", "openingReadinessRetry", "instructionReady"},
               [x EXCEPT !.openingGreetingPending = FALSE,
                         !.openingIsCurrentResponse = FALSE,
                         !.responseRequested = FALSE,
                         !.responseInProgress = FALSE,
                         !.queued = FALSE,
                         !.openingState = "failed"])
    <3>1. Plain(s, FailOpeningWithFallback(s))
      BY FailPlain
    <3>2. FailOpeningWithFallback(x) = FailOpeningWithFallback(s)
      <4>1. failed = Disarm({"openingTimeout", "openingReadinessRetry", "instructionReady"},
               [s EXCEPT !.openingGreetingPending = FALSE,
                         !.openingIsCurrentResponse = FALSE,
                         !.responseRequested = FALSE,
                         !.responseInProgress = FALSE,
                         !.queued = FALSE,
                         !.openingState = "failed"])
        BY ZenonT(60) DEF x, Disarm, Safe, IsSession, Field
      <4> QED BY <1>2, <4>1 DEF FailOpeningWithFallback, Relevant
    <3> QED BY <3>1, <3>2
  <2> QED BY <1>1, <1>4, <2>1, StepOf
<1> QED BY <1>3, <1>4

\* The commit timer fires.
LEMMA CommitHandles ==
  ASSUME Safe(s), NEW recent, CommitFires(recent)
  PROVE  \E y : Step(y) /\ Handles(s, y)
<1> DEFINE x == Disarm({"commit"}, s)
           y == CommitInputAndCreateResponse(x, "customer_speech", recent)
<1>1. Step(y)
  BY DEF CommitFires, Fires
<1>2. Plain(s, x) /\ Safe(x)
  BY DisarmPlain, PlainSafe
<1>3. \A g \in Relevant : x[g] = s[g]
  BY DEF Safe, IsSession, Field, Relevant, Disarm
<1> HIDE DEF x
<1>4. CASE Plain(x, y)
  BY <1>1, <1>2, <1>4, PlainTrans, StepOf
<1>5. CASE /\ Good(x, y)
           /\ x.audioAppended /\ ~IsAiTurnActive(x)
           /\ y.responseRequested = TRUE
           /\ y.responseId = x.responseId
  <2>1. Good(s, y)
    BY <1>2, <1>5, GoodTrans
  <2>2. s.audioAppended /\ ~IsAiTurnActive(s) /\ x.responseId = s.responseId
    BY <1>3, <1>5 DEF Relevant, IsAiTurnActive
  <2> HIDE DEF y
  <2> QED BY <1>1, <1>5, <2>1, <2>2 DEF Handles, Answers
<1>6. "customer_speech" \in ResponseSource
  BY DEF ResponseSource
<1> HIDE DEF y
<1> QED BY <1>2, <1>4, <1>5, <1>6, CommitGood, ZenonT(60) DEF y

\* executeCallEndClose: a call that is ending is not closed.
LEMMA CallEndHandles ==
  ASSUME Safe(s), NEW t, t # "openingTimeout", NEW closes,
         closes => ~s.closing, ExecuteCallEndClose(t, closes)
  PROVE  \E y : Step(y) /\ Handles(s, y)
<1> DEFINE x == Disarm({t}, s)
           y == [x EXCEPT !.streamClosed = @ \/ (closes /\ socket)]
<1>1. Step(y)
  BY DEF ExecuteCallEndClose
<1>2. Plain(s, x) /\ Safe(x)
  BY DisarmPlain, PlainSafe
<1>3. x.closing = s.closing
  BY DEF Safe, IsSession, Field, Disarm
<1> HIDE DEF x
<1>4. /\ IsSession(y)
      /\ \A g \in Relevant \ {"streamClosed"} : y[g] = x[g]
      /\ y.timers = x.timers
      /\ x.closing /\ y.streamClosed => x.streamClosed
  BY <1>2, <1>3, ZenonT(60) DEF Safe, IsSession, Field, Relevant
<1> HIDE DEF y
<1>5. /\ BeforeOpening(y) <=> BeforeOpening(x)
      /\ MayGreet(y) <=> MayGreet(x)
      /\ y.out = x.out
  BY <1>4 DEF Relevant, BeforeOpening, MayGreet
<1>6. Unheard(y) /\ Watched(y)
  BY <1>2, <1>4, <1>5 DEF Safe, Unheard, Watched, SuppressesInbound, Relevant
<1>7. Same(x, y) /\ Greets(x, y) /\ Listens(x, y) /\ Asks(x, y)
  BY <1>4, <1>5 DEF Same, Greets, Listens, Asks, IsAiTurnActive, Relevant
<1>8. Plain(x, y)
  BY <1>2, <1>4, <1>5, <1>6, <1>7 DEF Plain, Good, Safe, Same
<1> QED BY <1>1, <1>2, <1>8, PlainTrans, StepOf

\* Every timer is handled.
LEMMA TimersHandle ==
  ASSUME Safe(s), Timers
  PROVE  \E y : Step(y) /\ Handles(s, y)
<1>1. CASE HangupFires
  BY <1>1, CallEndHandles DEF HangupFires
<1>2. CASE CallEndMaxWaitFires
  BY <1>2, CallEndHandles DEF CallEndMaxWaitFires
<1>3. CASE PlaybookResolved
  BY <1>3, SessionUpdatePlain, StepOf DEF PlaybookResolved
<1> QED BY <1>1, <1>2, <1>3, RetryFiresHandles, InstructionReadyHandles,
           OpeningTimeoutHandles, CommitHandles DEF Timers

\* The socket to OpenAI opens.
LEMMA SocketOpensHandles ==
  ASSUME Safe(s), SocketOpens
  PROVE  \E y : Step(y) /\ Handles(s, y)
<1> DEFINE x == [s EXCEPT !.ws = "open"]
<1>1. Step(SendSessionUpdate(x)) \/ Step(LookUpPlaybook(x))
  BY DEF SocketOpens
<1>2. Plain(s, x) /\ Safe(x)
  BY OpensPlain, PlainSafe DEF SocketOpens
<1> HIDE DEF x
<1>3. Plain(s, SendSessionUpdate(x)) /\ Plain(s, LookUpPlaybook(x))
  BY <1>2, SessionUpdatePlain, LookUpPlain, PlainTrans
<1> QED BY <1>1, <1>3, StepOf

\* OpenAI takes the request of a response and starts it.
LEMMA CreateTaken ==
  ASSUME Safe(s), s.out # <<>>, Head(s.out).type = "create", NEW id
  PROVE  LET x == [s EXCEPT !.out = Tail(@)]
         IN /\ Plain(s, x)
            /\ Begins(x, ResponseCreated(x, id))
<1> DEFINE frame == Head(s.out)
           x == [s EXCEPT !.out = Tail(@)]
<1>1. /\ Plain(s, x) /\ Safe(x)
      /\ x.authorizedSource = s.authorizedSource
      /\ x.fallback /\ frame.source = "opening" => ~HasOpening(x.out)
      /\ BeforeOpening(x) => BeforeOpening(s)
  BY TakenPlain, PlainSafe
<1>2. BeforeOpening(s) =>
        frame.source = "opening" /\ s.authorizedSource = "opening"
  <2>1. Head(s.out) = s.out[1] /\ 1 \in 1..Len(s.out)
    BY DEF Safe
  <2> QED BY <2>1 DEF Safe, Unheard, HasOpening
<1>3. BeforeOpening(x) => x.authorizedSource # None /\ ~HasOpening(x.out)
  BY <1>1, <1>2 DEF None, BeforeOpening
<1> HIDE DEF x
<1> QED BY <1>1, <1>3, ResponseCreatedBegins DEF x

\* OpenAI takes a frame, and answers or refuses it.
LEMMA TakesHandles ==
  ASSUME Safe(s), OpenAiTakes
  PROVE  \E y : Step(y) /\ Handles(s, y)
<1> DEFINE frame == Head(s.out)
           x == [s EXCEPT !.out = Tail(@)]
           id == openai.made + 1
<1>1. s.out # <<>>
  BY DEF OpenAiTakes
<1>2. /\ Plain(s, x) /\ Safe(x)
      /\ x.authorizedSource = s.authorizedSource
      /\ x.fallback /\ frame.source = "opening" => ~HasOpening(x.out)
      /\ BeforeOpening(x) => BeforeOpening(s)
  BY <1>1, TakenPlain, PlainSafe
<1>3. BeforeOpening(s) =>
        /\ frame.type = "update" \/ frame.source = "opening"
        /\ frame.source = "opening" => s.authorizedSource = "opening"
  <2>1. Head(s.out) = s.out[1] /\ 1 \in 1..Len(s.out)
    BY <1>1 DEF Safe
  <2> QED BY <2>1 DEF Safe, Unheard, HasOpening
<1>4. frame \in Frame
  BY <1>1 DEF Safe
<1>5. CASE /\ frame.type = "update"
           /\ \E sound \in Sound :
                Step(FlushPendingInputIfReady(
                       MarkOpenAiInstructionReady(x, socket), sound))
  <2> DEFINE y == MarkOpenAiInstructionReady(x, socket)
  <2> HIDE DEF x
  <2>1. Plain(s, y) /\ Safe(y)
    BY <1>2, MarkReadyPlain, PlainTrans, PlainSafe
  <2>2. \E sound \in Sound : Step(FlushPendingInputIfReady(y, sound))
    BY <1>5
  <2> HIDE DEF y
  <2>3. \A sound : Plain(s, FlushPendingInputIfReady(y, sound))
    BY <2>1, FlushIfReadyPlain, PlainTrans
  <2> QED BY <2>2, <2>3, StepOf
<1>6. CASE frame.type = "create" /\ Step(ResponseCreated(x, id))
  <2> DEFINE y == ResponseCreated(x, id)
  <2>1. Begins(x, y)
    BY <1>1, <1>6, CreateTaken
  <2> HIDE DEF x, y
  <2>2. Begins(s, y)
    BY <1>2, <2>1, GoodTrans DEF Begins, Plain, Asks
  <2> QED BY <1>6, <2>2 DEF Handles, y
<1>7. CASE Step(ErrorEvent(x))
  <2> HIDE DEF x
  <2>1. Plain(s, ErrorEvent(x))
    BY <1>2, ErrorPlain, PlainTrans
  <2> QED BY <1>7, <2>1, StepOf
<1>8. CASE frame.type = "cancel" /\ (Step(ResponseCancelled(x)) \/ Step(ResponseDone(x)))
  <2>1. ~BeforeOpening(x)
    <3>1. frame.source = None
      BY <1>4, <1>8 DEF Frame
    <3> QED BY <1>2, <1>3, <1>8, <3>1 DEF None
  <2> HIDE DEF x
  <2>2. Plain(s, ResponseCancelled(x)) /\ Plain(s, ResponseDone(x))
    BY <1>2, <2>1, CancelledPlain, ResponseDonePlain, PlainTrans
  <2> QED BY <1>8, <2>2, StepOf
<1> QED BY <1>5, <1>6, <1>7, <1>8 DEF OpenAiTakes, Receives

\* Every frame of OpenAI is handled.
LEMMA OpenAiHandles ==
  ASSUME Safe(s), OpenAi
  PROVE  \E y : Step(y) /\ Handles(s, y)
<1>1. s.everAppended => ~BeforeOpening(s)
  BY DEF Safe, Unheard
<1>2. CASE OpenAiCreatesSession
  BY <1>2, CreatedPlain, StepOf DEF OpenAiCreatesSession, Receives
<1>3. CASE OpenAiVadResponds
  <2>1. Step(ResponseCreated(s, openai.made + 1)) /\ s.everAppended
    BY <1>3 DEF OpenAiVadResponds, Receives
  <2> QED BY <1>1, <2>1, ResponseCreatedBegins DEF Handles
<1>4. CASE OpenAiTranscribes
  BY <1>1, <1>4, TranscriptGood DEF OpenAiTranscribes, Receives, Handles
<1>5. CASE OpenAiSpeaks
  BY <1>5, DeltaPlain, StepOf DEF OpenAiSpeaks, Receives
<1>6. CASE OpenAiFinishes
  BY <1>6, ResponseDonePlain, StepOf DEF OpenAiFinishes, Receives
<1>7. CASE OpenAiFails
  BY <1>7, ErrorPlain, StepOf DEF OpenAiFails, Receives
<1> QED BY <1>2, <1>3, <1>4, <1>5, <1>6, <1>7, SocketOpensHandles, TakesHandles DEF OpenAi

-----------------------------------------------------------------------------
(* The invariant of the session.                                           *)

\* Every step but the deletion of the session is one of the three kinds.
LEMMA NextHandles ==
  ASSUME Safe(s), Next, ~EndDeletes
  PROVE  \E y : Step(y) /\ Handles(s, y)
<1>1. CASE Provider
  BY <1>1, BindHandles, AdoptHandles, PacketHandles, IgnoreHandles,
     EndSessionHandles, SocketEndsHandles DEF Provider
<1>2. CASE Ending
  BY <1>2, FlushAtEndPlain, StepOf DEF Ending, EndFlushes
<1> QED BY <1>1, <1>2, TimersHandle, OpenAiHandles DEF Next
\* A new session is safe.
LEMMA InitSafe ==
  ASSUME Init
  PROVE  /\ Safe(s)
         /\ s.ending # "gone"
         /\ s.fallback \in Fallbacks
         /\ s.audioAppended = FALSE
         /\ ~HasOpening(s.out)
<1>1. PICK speakFirst \in BOOLEAN, started \in BOOLEAN, vad \in Vads, fallback \in Fallbacks :
        s = NewSession(speakFirst, vad, fallback, started)
  BY DEF Init
<1> DEFINE x == NewSession(speakFirst, vad, fallback, started)
<1>2. /\ IsSession(x)
      /\ x.fallback = fallback
      /\ x.out = <<>> /\ x.timers = {} /\ x.ending = "no"
      /\ x.openingState \in {"waiting_for_openai_ready", "disabled"}
      /\ x.openingGreetingComplete = ~speakFirst
      /\ x.aiSpeakFirstEnabled = speakFirst
      /\ speakFirst => x.openingState = "waiting_for_openai_ready"
      /\ x.audioAppended = FALSE /\ x.everAppended = FALSE
  BY DEF NewSession, IsSession, Field
<1> HIDE DEF x
<1>3. x.out \in Seq(Frame) /\ ~HasOpening(x.out) /\ OneOpening(x.out)
  BY <1>2 DEF HasOpening, OneOpening
<1>4. Watched(x) /\ Unheard(x)
  BY <1>2, <1>3 DEF Watched, Unheard, SuppressesInbound, BeforeOpening
<1>5. Safe(x)
  BY <1>2, <1>3, <1>4 DEF Safe
<1> QED BY <1>1, <1>2, <1>3, <1>5 DEF x

\* What the deletion of the session leaves.
LEMMA DeletedFields ==
  ASSUME EndDeletes
  PROVE  /\ IsSession(s')
         /\ s'.fallback = FALSE /\ s'.ending = "gone" /\ s'.out = <<>>
         /\ s'.timers = {} /\ s'.ignoringInbound = FALSE
         /\ s'.openingState = "disabled" /\ s'.openingGreetingComplete = TRUE
         /\ s'.audioAppended = FALSE
         /\ s'.streamClosed = FALSE
         /\ s'.authorizedSource = None
<1> DEFINE x == NewSession(FALSE, FALSE, FALSE, TRUE)
<1>1. s' = [x EXCEPT !.ws = "closed", !.closing = TRUE, !.ending = "gone"]
  BY DEF EndDeletes
<1>2. /\ IsSession(x)
      /\ x.fallback = FALSE /\ x.out = <<>> /\ x.timers = {}
      /\ x.ignoringInbound = FALSE
      /\ x.openingState = "disabled" /\ x.openingGreetingComplete = TRUE
      /\ x.audioAppended = FALSE
      /\ x.streamClosed = FALSE
      /\ x.authorizedSource = None
  BY DEF NewSession, IsSession, Field
<1> HIDE DEF x
<1> QED BY <1>1, <1>2 DEF IsSession, Field

\* It is safe, and nothing is left to greet.
LEMMA DeletedSafe ==
  ASSUME EndDeletes
  PROVE  Safe(s)' /\ ~MayGreet(s') /\ ~HasOpening(s'.out)
<1>1. s'.out \in Seq(Frame) /\ ~HasOpening(s'.out) /\ OneOpening(s'.out)
  <2>1. s'.out = <<>>
    BY DeletedFields
  <2> QED BY <2>1 DEF HasOpening, OneOpening
<1>2. Watched(s') /\ Unheard(s') /\ ~MayGreet(s')
  BY DeletedFields DEF Watched, Unheard, SuppressesInbound, BeforeOpening, MayGreet
<1> QED BY <1>1, <1>2, DeletedFields DEF Safe

\* The step keeps what the handler left.
LEMMA StepFields ==
  ASSUME NEW y, Safe(y), Step(y)
  PROVE  /\ Safe(s')
         /\ \A g \in Relevant \ {"appendedNow"} : s'[g] = y[g]
         /\ MayGreet(s') <=> MayGreet(y)
         /\ IsAiTurnActive(s') <=> IsAiTurnActive(y)
<1>1. /\ IsSession(s')
      /\ \A g \in Relevant \ {"appendedNow"} : s'[g] = y[g]
      /\ s'.timers = y.timers
  BY DEF Safe, Step, IsSession, Field, Relevant
<1>2. /\ BeforeOpening(s') <=> BeforeOpening(y)
      /\ MayGreet(s') <=> MayGreet(y)
      /\ IsAiTurnActive(s') <=> IsAiTurnActive(y)
      /\ s'.out = y.out
  BY <1>1 DEF Relevant, BeforeOpening, MayGreet, IsAiTurnActive
<1>3. Watched(s') /\ Unheard(s')
  BY <1>1, <1>2 DEF Safe, Watched, SuppressesInbound, Unheard, Relevant
<1> QED BY <1>1, <1>2, <1>3 DEF Safe, Relevant

\* Every step keeps the session safe.
LEMMA NextSafe ==
  ASSUME Safe(s), [Next]_vars
  PROVE  Safe(s)'
<1>1. CASE EndDeletes
  BY <1>1, DeletedSafe
<1>2. CASE Next /\ ~EndDeletes
  <2>1. PICK y : Step(y) /\ Handles(s, y)
    BY <1>2, NextHandles
  <2>2. Safe(y)
    BY <2>1 DEF Handles, Plain, Answers, Begins, Good
  <2> QED BY <2>1, <2>2, StepFields
<1>3. CASE UNCHANGED vars
  BY <1>3 DEF vars
<1> QED BY <1>1, <1>2, <1>3

\* The invariant: in every reachable state the session is safe, for every
\* value of the flags and the bounds.
THEOREM SessionsAreSafe == Spec => []Safe(s)
<1>1. Init => Safe(s)
  BY InitSafe
<1>2. Safe(s) /\ [Next]_vars => Safe(s)'
  BY NextSafe
<1> QED BY <1>1, <1>2, PTL DEF Spec

\* No cancelled, refused or lost greeting leaves the caller muted: while
\* appendInputAudio drops the packets, the opening timeout is armed.
THEOREM MutedCallerIsWatched == Spec => []MutedIsWatched
<1>1. Safe(s) => MutedIsWatched
  BY DEF Safe, Watched, MutedIsWatched
<1> QED BY <1>1, SessionsAreSafe, PTL

-----------------------------------------------------------------------------
(* Answers are to fresh speech.                                            *)

\* Once endSession has begun, no timer and no late frame of the session closes
\* the telephony stream.
THEOREM NoLateHangup == Spec => NoHangupAfterEnd
<1>1. Safe(s) /\ [Next]_vars =>
        [(s.closing /\ ~s.streamClosed) => ~s'.streamClosed]_vars
  <2> SUFFICES ASSUME Safe(s), Next, s.closing, ~s.streamClosed
               PROVE  ~s'.streamClosed
    OBVIOUS
  <2>1. CASE EndDeletes
    BY <2>1, DeletedFields
  <2>2. CASE ~EndDeletes
    <3>1. PICK y : Step(y) /\ Handles(s, y)
      BY <2>2, NextHandles
    <3>2. Good(s, y)
      BY <3>1 DEF Handles, Plain, Answers, Begins
    <3>3. s'.streamClosed = y.streamClosed
      BY <3>1, <3>2, StepFields DEF Good, Relevant
    <3> QED BY <3>2, <3>3 DEF Good, Same
  <2> QED BY <2>1, <2>2
<1> QED BY <1>1, SessionsAreSafe, PTL DEF Spec, NoHangupAfterEnd
\* VOICE_AI_SPEAK_FIRST_FALLBACK_TO_WAIT_FOR_CUSTOMER is on, as by default.
FallsBack == Fallbacks \subseteq {TRUE}

\* The flag is on, and a deleted session has nothing left to run.
KeepsFlag ==
  /\ s.fallback = TRUE \/ s.ending = "gone"
  /\ s.ending = "gone" => s.timers = {} /\ s.ignoringInbound = FALSE

\* A deleted session takes no step.
LEMMA NothingAfterGone ==
  ASSUME KeepsFlag, s.ending = "gone", Next
  PROVE  FALSE
<1>1. s.timers = {} /\ s.ignoringInbound = FALSE /\ ~Live
  BY DEF KeepsFlag, Live
<1>2. ~Provider
  BY <1>1 DEF Provider, BindSocket, Adopt, Packet, IgnoreWindowEnds,
              EndSession, SocketEnds
<1>3. ~Timers
  BY <1>1 DEF Timers, ReadinessRetryFires, InstructionReadyFires,
              OpeningTimeoutFires, CommitFires, HangupFires,
              CallEndMaxWaitFires, PlaybookResolved, Fires, ExecuteCallEndClose
<1>4. ~Ending
  BY DEF Ending, EndFlushes, EndDeletes
<1>5. ~OpenAi
  BY <1>1 DEF OpenAi, SocketOpens, OpenAiCreatesSession, OpenAiTakes,
              OpenAiVadResponds, OpenAiTranscribes, OpenAiSpeaks,
              OpenAiFinishes, OpenAiFails, Receives
<1> QED BY <1>2, <1>3, <1>4, <1>5 DEF Next

\* The flag is on in a new session.
LEMMA InitKeepsFlag ==
  ASSUME FallsBack, Init
  PROVE  KeepsFlag
BY InitSafe DEF FallsBack, KeepsFlag

\* It stays on until the session is deleted.
LEMMA NextKeepsFlag ==
  ASSUME Safe(s), KeepsFlag, [Next]_vars
  PROVE  KeepsFlag'
<1>1. CASE EndDeletes
  BY <1>1, DeletedFields DEF KeepsFlag
<1>2. CASE Next /\ ~EndDeletes
  <2>1. PICK y : Step(y) /\ Handles(s, y)
    BY <1>2, NextHandles
  <2>2. s.ending # "gone" /\ s.fallback = TRUE
    BY <1>2, NothingAfterGone DEF KeepsFlag
  <2>3. Good(s, y)
    BY <2>1 DEF Handles, Plain, Answers, Begins
  <2>4. y.fallback = TRUE /\ y.ending # "gone"
    BY <2>2, <2>3 DEF Good, Same
  <2>5. s'.fallback = y.fallback /\ s'.ending = y.ending
    BY <2>1, <2>3, StepFields DEF Good, Relevant
  <2> QED BY <2>4, <2>5 DEF KeepsFlag
<1>3. CASE UNCHANGED vars
  BY <1>3 DEF vars, KeepsFlag
<1> QED BY <1>1, <1>2, <1>3

\* What commitInputAndCreateResponse would answer is fresh.
HeardIsFresh == (s.audioAppended /\ ~IsAiTurnActive(s)) => fresh

\* Every step keeps the audio that could be answered fresh.
LEMMA NextHeardIsFresh ==
  ASSUME Safe(s), KeepsFlag, HeardIsFresh, [Next]_vars
  PROVE  HeardIsFresh'
<1>1. CASE EndDeletes
  BY <1>1, DeletedFields DEF HeardIsFresh
<1>2. CASE Next /\ ~EndDeletes
  <2>1. PICK y : Step(y) /\ Handles(s, y)
    BY <1>2, NextHandles
  <2>2. s.fallback = TRUE
    BY <1>2, NothingAfterGone DEF KeepsFlag
  <2>3. Good(s, y)
    BY <2>1 DEF Handles, Plain, Answers, Begins
  <2>4. /\ s'.audioAppended = y.audioAppended
        /\ IsAiTurnActive(s') <=> IsAiTurnActive(y)
    BY <2>1, <2>3, StepFields DEF Good, Relevant
  <2>5. fresh' = (/\ y.appendedNow \/ fresh
                  /\ ~ /\ y.authorizedSource = "customer_speech"
                       /\ s.authorizedSource # "customer_speech"
                  /\ y.responseId \in {0, s.responseId})
    BY <2>1 DEF Step
  <2> SUFFICES ASSUME y.audioAppended, ~IsAiTurnActive(y)
               PROVE  fresh'
    BY <2>4 DEF HeardIsFresh, IsAiTurnActive
  <2>6. y.appendedNow \/ fresh
    BY <2>2, <2>3 DEF Good, Listens, HeardIsFresh
  <2>7. Asks(s, y)
    BY <2>1 DEF Handles, Plain, Answers, Begins, Asks, IsAiTurnActive
  <2> QED BY <2>5, <2>6, <2>7 DEF Asks
<1>3. CASE UNCHANGED vars
  BY <1>3 DEF vars, HeardIsFresh, IsAiTurnActive
<1> QED BY <1>1, <1>2, <1>3

-----------------------------------------------------------------------------
(* The caller is greeted once.                                             *)

\* With the fallback flag on, an answer is only ever requested to speech that
\* no earlier request and no response has followed: neither commitInput of the
\* timer nor a late transcript answers a turn twice.  Without the flag this is
\* false: a readiness retry that is left over from the failed opening clears the
\* guards of a response that is under way.
THEOREM AnswersAreToFreshSpeech ==
  FallsBack => (Spec => AnswersFreshSpeech)
<1> SUFFICES ASSUME FallsBack PROVE Spec => AnswersFreshSpeech
  OBVIOUS
<1> DEFINE Inv == Safe(s) /\ KeepsFlag /\ HeardIsFresh
<1>1. Init => Inv
  BY InitSafe, InitKeepsFlag DEF HeardIsFresh
<1>2. Inv /\ [Next]_vars => Inv'
  BY NextSafe, NextKeepsFlag, NextHeardIsFresh
<1>3. Inv /\ [Next]_vars =>
        [(/\ s'.authorizedSource = "customer_speech"
          /\ s.authorizedSource # "customer_speech") => fresh]_vars
  <2> SUFFICES ASSUME Inv, Next, s'.authorizedSource = "customer_speech",
                      s.authorizedSource # "customer_speech"
               PROVE  fresh
    OBVIOUS
  <2>1. CASE EndDeletes
    BY <2>1, DeletedFields DEF None
  <2>2. CASE ~EndDeletes
    <3>1. PICK y : Step(y) /\ Handles(s, y)
      BY <2>2, NextHandles
    <3>2. Good(s, y)
      BY <3>1 DEF Handles, Plain, Answers, Begins
    <3>3. s'.authorizedSource = y.authorizedSource
      BY <3>1, <3>2, StepFields DEF Good, Relevant
    <3>4. Answers(s, y)
      BY <3>1, <3>3 DEF Handles, Plain, Begins, Asks
    <3> QED BY <3>4 DEF Answers, HeardIsFresh
  <2> QED BY <2>1, <2>2
<1> QED BY <1>1, <1>2, <1>3, PTL DEF Spec, AnswersFreshSpeech
\* The type of OpenAI's side.
OpenAiOK ==
  openai \in [active : Nat, opening : BOOLEAN, made : Nat, transcripts : Nat]

\* The greeting is in one place at most: still to be requested or on its way to
\* OpenAI, being spoken, or heard.
OneVoice ==
  /\ MayGreet(s) \/ HasOpening(s.out) => greeted = {} /\ ~openai.opening
  /\ openai.opening => openai.active # 0 /\ greeted \subseteq {openai.active}
  /\ GreetedOnce

\* OpenAI takes the request of the greeting.
OpeningTaken ==
  /\ s.out # <<>> /\ Head(s.out).type = "create" /\ Head(s.out).source = "opening"
  /\ Step(ResponseCreated([s EXCEPT !.out = Tail(@)], openai.made + 1))
  /\ openai'.active # 0
  /\ greeted' = greeted

\* What a step does to OpenAI's side: nothing that adds a greeting, or it takes
\* the request of the greeting, or it speaks.
LEMMA OpenAiMoves ==
  ASSUME OpenAiOK, [Next]_vars
  PROVE  /\ OpenAiOK'
         /\ \/ /\ openai'.opening => openai.opening /\ openai'.active = openai.active
               /\ greeted' = greeted
            \/ OpeningTaken
            \/ OpenAiSpeaks
<1> DEFINE Stays ==
             /\ openai'.opening => openai.opening /\ openai'.active = openai.active
             /\ greeted' = greeted
<1>1. Silent \in [active : Nat, opening : BOOLEAN, made : Nat, transcripts : Nat]
      /\ Silent.opening = FALSE
  BY DEF OpenAiOK, Silent
<1>2. ASSUME NEW o \in BOOLEAN
      PROVE  /\ Responding(o) \in
                  [active : Nat, opening : BOOLEAN, made : Nat, transcripts : Nat]
             /\ Responding(o).opening = o
             /\ Responding(o).active # 0
  <2> DEFINE r == [openai EXCEPT !.active = openai.made + 1,
                                 !.made = openai.made + 1, !.opening = o]
  <2>1. openai.made + 1 \in Nat /\ openai.made + 1 # 0
    BY DEF OpenAiOK
  <2>2. r \in [active : Nat, opening : BOOLEAN, made : Nat, transcripts : Nat]
        /\ r.opening = o /\ r.active = openai.made + 1
    BY <2>1 DEF OpenAiOK
  <2> QED BY <2>1, <2>2 DEF Responding
<1>3. CASE UNCHANGED <<openai, greeted>>
  BY <1>3 DEF OpenAiOK
<1>4. CASE EndDeletes
  BY <1>4 DEF EndDeletes, OpenAiOK
<1>5. CASE \E error \in BOOLEAN : SocketEnds(error)
  <2>1. greeted' = greeted /\ openai' = Silent
    BY <1>5 DEF SocketEnds, Silent
  <2> QED BY <1>1, <2>1 DEF OpenAiOK
<1>6. CASE Provider
  BY <1>3, <1>5, <1>6 DEF Provider, BindSocket, Adopt, Packet, IgnoreWindowEnds,
                          EndSession
<1>7. CASE Timers
  BY <1>3, <1>7 DEF Timers, ReadinessRetryFires, InstructionReadyFires,
              OpeningTimeoutFires, CommitFires, HangupFires,
              CallEndMaxWaitFires, PlaybookResolved, Fires, ExecuteCallEndClose
<1>8. CASE Ending
  BY <1>3, <1>4, <1>8 DEF Ending, EndFlushes
<1>9. CASE OpenAiTakes
  <2> DEFINE frame == Head(s.out)
             x == [s EXCEPT !.out = Tail(@)]
  <2>1. CASE openai' = openai \/ openai' = Silent
    BY <1>1, <1>9, <2>1 DEF OpenAiTakes, OpenAiOK
  <2>2. CASE /\ s.out # <<>> /\ frame.type = "create"
             /\ openai' = Responding(frame.source = "opening")
             /\ Step(ResponseCreated(x, openai.made + 1))
             /\ greeted' = greeted
    <3>1. CASE frame.source = "opening"
      BY <1>2, <2>2, <3>1 DEF OpeningTaken, OpenAiOK
    <3>2. CASE frame.source # "opening"
      BY <1>2, <2>2, <3>2 DEF OpenAiOK
    <3> QED BY <3>1, <3>2
  <2> HIDE DEF x
  <2> QED BY <1>9, <2>1, <2>2 DEF OpenAiTakes, Receives, x
<1>10. CASE OpenAiVadResponds
  BY <1>2, <1>10 DEF OpenAiVadResponds, Receives, OpenAiOK
<1>11. CASE OpenAiTranscribes
  BY <1>11 DEF OpenAiTranscribes, Receives, OpenAiOK
<1>12. CASE OpenAiSpeaks
  BY <1>12 DEF OpenAiSpeaks, Receives, OpenAiOK
<1>13. CASE OpenAiFinishes
  BY <1>1, <1>13 DEF OpenAiFinishes, Receives, OpenAiOK
<1>14. CASE OpenAiFails \/ OpenAiCreatesSession \/ SocketOpens
  BY <1>3, <1>14 DEF OpenAiFails, OpenAiCreatesSession, SocketOpens, Receives
<1>15. CASE UNCHANGED vars
  BY <1>3, <1>15 DEF vars
<1> QED BY <1>6, <1>7, <1>8, <1>9, <1>10, <1>11, <1>12, <1>13, <1>14, <1>15 DEF Next, OpenAi

\* Every step keeps the greeting in one place at most.
LEMMA NextOneVoice ==
  ASSUME Safe(s), KeepsFlag, OpenAiOK, OneVoice, [Next]_vars
  PROVE  OneVoice'
<1>1. CASE EndDeletes
  <2>1. greeted' = greeted /\ openai'.opening = FALSE
    BY <1>1 DEF EndDeletes
  <2> QED BY <1>1, <2>1, DeletedSafe DEF OneVoice, GreetedOnce
<1>2. CASE Next /\ ~EndDeletes
  <2>1. PICK y : Step(y) /\ Handles(s, y)
    BY <1>2, NextHandles
  <2>2. s.fallback = TRUE
    BY <1>2, NothingAfterGone DEF KeepsFlag
  <2>3. Good(s, y)
    BY <2>1 DEF Handles, Plain, Answers, Begins
  <2>4. /\ s'.out = y.out
        /\ MayGreet(s') <=> MayGreet(y)
    BY <2>1, <2>3, StepFields DEF Good, Relevant
  <2>5. MayGreet(s') \/ HasOpening(s'.out) => MayGreet(s) \/ HasOpening(s.out)
    BY <2>2, <2>3, <2>4 DEF Good, Greets
  <2>6. CASE /\ openai'.opening => openai.opening /\ openai'.active = openai.active
             /\ greeted' = greeted
    BY <2>5, <2>6 DEF OneVoice, GreetedOnce
  <2>7. CASE OpeningTaken
    <3> DEFINE x == [s EXCEPT !.out = Tail(@)]
               z == ResponseCreated(x, openai.made + 1)
    <3>1. Plain(s, x) /\ Begins(x, z) /\ Step(z)
      BY <2>7, CreateTaken DEF OpeningTaken
    <3>2. ~HasOpening(x.out)
      BY <2>2, <2>7, <3>1, TakenPlain, PlainSafe DEF OpeningTaken
    <3>3. HasOpening(s.out)
      BY <2>7 DEF OpeningTaken, HasOpening, Safe
    <3> HIDE DEF x, z
    <3>4. ~MayGreet(s) /\ ~MayGreet(x)
      BY <3>1, <3>3 DEF Safe, Plain, Good, Greets
    <3>5. ~MayGreet(z) /\ ~HasOpening(z.out)
      BY <2>2, <3>1, <3>2, <3>4 DEF Begins, Plain, Good, Greets, Same
    <3>6. ~MayGreet(s') /\ ~HasOpening(s'.out)
      BY <3>1, <3>5, StepFields DEF Begins, Good, Relevant
    <3>7. greeted = {} /\ greeted' = {} /\ openai'.active # 0
      BY <2>7, <3>3 DEF OneVoice, OpeningTaken
    <3> QED BY <3>6, <3>7 DEF OneVoice, GreetedOnce
  <2>8. CASE OpenAiSpeaks
    <3>1. /\ openai' = openai
          /\ greeted' = IF openai.opening THEN greeted \cup {openai.active} ELSE greeted
      BY <2>8 DEF OpenAiSpeaks, Receives
    <3> QED BY <2>5, <3>1 DEF OneVoice, GreetedOnce
  <2> QED BY <1>2, <2>6, <2>7, <2>8, OpenAiMoves
<1>3. CASE UNCHANGED vars
  BY <1>3 DEF vars, OneVoice, GreetedOnce, MayGreet, BeforeOpening
<1> QED BY <1>1, <1>2, <1>3

\* With the fallback flag on, the caller hears one greeting at most, whatever is
\* cancelled, retried, timed out or refused.  Without the flag this is false: a
\* greeting that follows a failed opening may be cancelled by a frame that was
\* meant for an earlier response, and a second one requested while it waits.
THEOREM CallerIsGreetedOnce == FallsBack => (Spec => []GreetedOnce)
<1> SUFFICES ASSUME FallsBack PROVE Spec => []GreetedOnce
  OBVIOUS
<1> DEFINE Inv == Safe(s) /\ KeepsFlag /\ OpenAiOK /\ OneVoice
<1>1. Init => Inv
  <2> SUFFICES ASSUME Init PROVE Inv
    OBVIOUS
  <2>1. /\ openai = [active |-> 0, opening |-> FALSE, made |-> 0, transcripts |-> 0]
        /\ greeted = {}
    BY DEF Init
  <2> QED BY <2>1, InitSafe, InitKeepsFlag DEF OpenAiOK, OneVoice, GreetedOnce
<1>2. Inv /\ [Next]_vars => Inv'
  BY NextSafe, NextKeepsFlag, OpenAiMoves, NextOneVoice
<1>3. Inv => GreetedOnce
  BY DEF OneVoice
<1> QED BY <1>1, <1>2, <1>3, PTL DEF Spec

-----------------------------------------------------------------------------
(* What is owed has a timer.                                               *)

\* The states in which the greeting has not been requested.
Unready == {"waiting_for_openai_ready", "ready_to_speak"}

\* Something of a requested greeting is left in the session.
OpeningLeft(x) ==
  \/ x.openingGreetingPending \/ x.openingIsCurrentResponse
  \/ x.openingAudioDeltaReceived \/ x.greetingActuallySent
  \/ x.authorizedSource = "opening" \/ x.activeSource = "opening"

\* The customer has said goodbye: the hang-up or the maximum wait is armed,
\* unless the stream is closed or the timers were cleared with the socket.
EndTimed(x) ==
  x.callEndDetected =>
    \/ x.streamClosed \/ x.ws = "closed" \/ x.closing
    \/ "hangup" \in x.timers \/ "callEndMaxWait" \in x.timers

\* OpenAI has announced the session of a started stream whose opening is not
\* over: one of the timers that move the opening on is armed.
OpeningTimed(x) ==
  (x.smartfloStartReceived /\ x.ws = "open" /\ x.openAiSessionCreated) =>
    \/ x.openingGreetingComplete \/ x.openingState = "failed" \/ x.closing
    \/ "openingTimeout" \in x.timers \/ "openingReadinessRetry" \in x.timers
    \/ "instructionReady" \in x.timers

\* What the two rest on: an opening that is not over is in one of its states,
\* before its request nothing is left of an earlier one, the timer that stands in
\* for session.updated is disarmed by it, and nothing is announced on a socket
\* that has not opened.
Orderly(x) ==
  /\ IsSession(x)
  /\ ~x.openingGreetingComplete =>
       /\ x.aiSpeakFirstEnabled
       /\ x.openingState \in Unready \cup {"opening_response_requested",
                                           "opening_audio_playing", "failed"}
  /\ x.openingState \in Unready => ~OpeningLeft(x)
  /\ x.openAiSessionUpdated => "instructionReady" \notin x.timers
  /\ x.ws = "connecting" => ~x.openAiSessionCreated
  /\ EndTimed(x)

\* Nothing of the customer was taken in.
Deaf(x) == ~x.queued /\ ~x.everAppended /\ ~x.callEndDetected

\* The handler keeps what is owed under its timers.
Keeps(x, y) ==
  /\ Orderly(y)
  /\ OpeningTimed(x) => OpeningTimed(y)
  /\ y.streamClosed = x.streamClosed
  /\ y.closing = x.closing
  /\ y.smartfloStartReceived = x.smartfloStartReceived

\* It also takes in nothing of a customer who was not heard before.
Mild(x, y) == Keeps(x, y) /\ (Deaf(x) => Deaf(y))

\* One after another: both compose.
LEMMA KeepsTrans ==
  ASSUME NEW x, NEW y, NEW z, Keeps(x, y), Keeps(y, z)
  PROVE  Keeps(x, z)
BY DEF Keeps

\* So does the milder one.
LEMMA MildTrans ==
  ASSUME NEW x, NEW y, NEW z, Mild(x, y), Mild(y, z)
  PROVE  Mild(x, z)
BY DEF Mild, Keeps

\* An operator that leaves the session alone is mild.
LEMMA MildRefl == ASSUME NEW x, Orderly(x) PROVE Mild(x, x)
BY DEF Mild, Keeps

\* What they leave.
LEMMA MildKeeps ==
  ASSUME NEW x, NEW y, Mild(x, y)
  PROVE  Keeps(x, y) /\ Orderly(y)
BY DEF Mild, Keeps

\* The fields they read.
Tracked == {"aiSpeakFirstEnabled", "smartfloStartReceived", "ws",
  "openAiSessionCreated", "openAiSessionUpdated", "openingState",
  "openingGreetingComplete", "openingGreetingPending", "greetingActuallySent",
  "openingIsCurrentResponse", "openingAudioDeltaReceived", "authorizedSource",
  "activeSource", "streamClosed", "closing", "callEndDetected"}

\* An update of other fields keeps the timers' promises, if it disarms none of
\* the timers and arms the instruction-ready timer only while it is waited for.
LEMMA TrackedKeeps ==
  ASSUME NEW x, Orderly(x), NEW y, IsSession(y),
         \A f \in Tracked : y[f] = x[f],
         \A t \in Timer \ {"commit"} : t \in x.timers => t \in y.timers,
         "instructionReady" \in y.timers =>
           "instructionReady" \in x.timers \/ ~x.openAiSessionUpdated
  PROVE  /\ Keeps(x, y)
         /\ y.queued = x.queued /\ y.everAppended = x.everAppended => Mild(x, y)
<1>1. OpeningLeft(y) <=> OpeningLeft(x)
  BY DEF Tracked, OpeningLeft
<1>2. EndTimed(y)
  BY DEF Tracked, Orderly, EndTimed, Timer
<1>3. Orderly(y)
  BY <1>1, <1>2 DEF Tracked, Orderly
<1>4. OpeningTimed(x) => OpeningTimed(y)
  BY DEF Tracked, OpeningTimed, Timer
<1>5. /\ y.streamClosed = x.streamClosed
      /\ y.closing = x.closing
      /\ y.smartfloStartReceived = x.smartfloStartReceived
      /\ y.callEndDetected = x.callEndDetected
  BY DEF Tracked
<1> QED BY <1>3, <1>4, <1>5 DEF Keeps, Mild, Deaf

\* The same, for an update that leaves the timers alone.
LEMMA TrackedMild ==
  ASSUME NEW x, Orderly(x), NEW y, IsSession(y),
         \A f \in Tracked \cup {"queued", "everAppended", "timers"} : y[f] = x[f]
  PROVE  Mild(x, y)
<1>1. /\ \A f \in Tracked : y[f] = x[f]
      /\ y.queued = x.queued /\ y.everAppended = x.everAppended
      /\ y.timers = x.timers
  OBVIOUS
<1> QED BY <1>1, TrackedKeeps

\* Arming a timer.
LEMMA ArmMild ==
  ASSUME NEW x, Orderly(x), NEW t, t # "instructionReady" \/ ~x.openAiSessionUpdated
  PROVE  Mild(x, Arm(t, x))
<1>1. /\ IsSession(Arm(t, x))
      /\ \A f \in Tracked : Arm(t, x)[f] = x[f]
      /\ Arm(t, x).timers = x.timers \cup {t}
      /\ Arm(t, x).queued = x.queued /\ Arm(t, x).everAppended = x.everAppended
  BY DEF Orderly, IsSession, Field, Tracked, Arm
<1> QED BY <1>1, TrackedKeeps

\* Disarming the commit timer.
LEMMA DisarmCommitMild ==
  ASSUME NEW x, Orderly(x)
  PROVE  Mild(x, Disarm({"commit"}, x))
<1> DEFINE y == Disarm({"commit"}, x)
<1>1. /\ IsSession(y)
      /\ \A f \in Tracked : y[f] = x[f]
      /\ y.timers = x.timers \ {"commit"}
      /\ y.queued = x.queued /\ y.everAppended = x.everAppended
  BY DEF Orderly, IsSession, Field, Tracked, Disarm
<1> HIDE DEF y
<1> QED BY <1>1, TrackedKeeps DEF y

\* A frame to OpenAI.
LEMMA SendMild ==
  ASSUME NEW x, Orderly(x), NEW f
  PROVE  Mild(x, Send(f, x))
<1> DEFINE y == Send(f, x)
<1>1. /\ IsSession(y)
      /\ \A g \in Tracked \cup {"queued", "everAppended", "timers"} : y[g] = x[g]
  BY DEF Orderly, IsSession, Field, Tracked, Send
<1> HIDE DEF y
<1> QED BY <1>1, TrackedMild DEF y

\* The speech of the turn is forgotten.
LEMMA ResetSpeechMild ==
  ASSUME NEW x, Orderly(x)
  PROVE  Mild(x, ResetSpeechTurnState(x))
<1> DEFINE y == ResetSpeechTurnState(x)
<1>1. /\ IsSession(y)
      /\ \A g \in Tracked \cup {"queued", "everAppended", "timers"} : y[g] = x[g]
  BY DEF Orderly, IsSession, Field, Tracked, ResetSpeechTurnState
<1> HIDE DEF y
<1> QED BY <1>1, TrackedMild DEF y

\* The response guards fall.
LEMMA ResetGuardsMild ==
  ASSUME NEW x, Orderly(x)
  PROVE  Mild(x, ResetResponseGuards(x))
<1> DEFINE y == ResetResponseGuards(x)
<1>1. /\ IsSession(y)
      /\ \A g \in Tracked \cup {"queued", "everAppended", "timers"} : y[g] = x[g]
  BY DEF Orderly, IsSession, Field, Tracked, ResetSpeechTurnState, ResetResponseGuards
<1> HIDE DEF y
<1> QED BY <1>1, TrackedMild DEF y

\* The customer is waited for.
LEMMA SetAwaitingMild ==
  ASSUME NEW x, Orderly(x)
  PROVE  Mild(x, SetAwaitingCustomerInput(x))
<1> DEFINE y == SetAwaitingCustomerInput(x)
<1>1. /\ IsSession(y)
      /\ \A g \in Tracked \cup {"queued", "everAppended", "timers"} : y[g] = x[g]
  BY DEF Orderly, IsSession, Field, Tracked, SetAwaitingCustomerInput
<1> HIDE DEF y
<1> QED BY <1>1, TrackedMild DEF y

\* The customer's turn is confirmed.
LEMMA ConfirmMild ==
  ASSUME NEW x, Orderly(x)
  PROVE  Mild(x, ConfirmCustomerTurn(x))
<1> DEFINE y == ConfirmCustomerTurn(x)
<1>1. /\ IsSession(y)
      /\ \A g \in Tracked \cup {"queued", "everAppended", "timers"} : y[g] = x[g]
  BY DEF Orderly, IsSession, Field, Tracked, ConfirmCustomerTurn
<1> HIDE DEF y
<1> QED BY <1>1, TrackedMild DEF y

\* The playbook is looked up.
LEMMA LookUpMild ==
  ASSUME NEW x, Orderly(x)
  PROVE  Mild(x, LookUpPlaybook(x))
<1> DEFINE y == LookUpPlaybook(x)
<1>1. /\ IsSession(y)
      /\ \A g \in Tracked \cup {"queued", "everAppended", "timers"} : y[g] = x[g]
  BY DEF Orderly, IsSession, Field, Tracked, LookUpPlaybook
<1> HIDE DEF y
<1> QED BY <1>1, TrackedMild DEF y

\* The timer that stands in for session.updated.
LEMMA ScheduleInstructionMild ==
  ASSUME NEW x, Orderly(x)
  PROVE  Mild(x, ScheduleInstructionReady(x))
BY ArmMild, MildRefl DEF ScheduleInstructionReady

\* sendSessionUpdate
LEMMA SessionUpdateMild ==
  ASSUME NEW x, Orderly(x)
  PROVE  Mild(x, SendSessionUpdate(x))
<1> DEFINE y == IF x.openAiSessionUpdated
                THEN x ELSE Send([type |-> "update", source |-> None], x)
           z == [y EXCEPT !.sessionUpdateSent = TRUE, !.playbookLookup = FALSE]
<1>1. Mild(x, y) /\ Orderly(y)
  BY SendMild, MildRefl, MildKeeps
<1> HIDE DEF y
<1>2. /\ IsSession(z)
      /\ \A g \in Tracked \cup {"queued", "everAppended", "timers"} : z[g] = y[g]
  BY <1>1 DEF Orderly, IsSession, Field, Tracked
<1>3. Mild(x, z) /\ Orderly(z)
  BY <1>1, <1>2, TrackedMild, MildTrans, MildKeeps
<1> HIDE DEF z
<1>4. Mild(x, ScheduleInstructionReady(z))
  BY <1>3, ScheduleInstructionMild, MildTrans
<1> QED BY <1>4 DEF SendSessionUpdate, y, z

-----------------------------------------------------------------------------
(* The opening greeting has a timer.                                       *)

\* What the end of the opening leaves of the tracked fields.
LEMMA ActivateTracked ==
  ASSUME NEW x, IsSession(x), NEW failed \in BOOLEAN,
         failed \/ (~x.openingGreetingComplete /\ x.greetingActuallySent)
  PROVE  LET y == ActivateNormalModeAfterOpening(x, failed)
         IN /\ IsSession(y)
            /\ \A g \in Tracked \ {"openingState", "openingGreetingComplete",
                          "openingGreetingPending", "openingIsCurrentResponse"} :
                 y[g] = x[g]
            /\ y.openingGreetingComplete = TRUE
            /\ y.openingGreetingPending = FALSE
            /\ y.openingIsCurrentResponse = FALSE
            /\ y.openingState = IF failed THEN x.openingState ELSE "opening_done"
            /\ y.timers = x.timers \ {"openingTimeout"}
            /\ y.queued = FALSE /\ y.everAppended = x.everAppended
<1> DEFINE w == LookUpPlaybook(x)
           v == [w EXCEPT !.openingGreetingComplete = TRUE,
                   !.openingGreetingPending = FALSE,
                   !.openingIsCurrentResponse = FALSE,
                   !.queued = FALSE,
                   !.responseRequested = FALSE,
                   !.responseInProgress = FALSE,
                   !.ignoringInbound = TRUE,
                   !.openingState = IF failed THEN @ ELSE "opening_done"]
           u == ResetSpeechTurnState(v)
           y == Disarm({"openingTimeout"}, u)
           rest == Tracked \ {"openingState", "openingGreetingComplete",
                              "openingGreetingPending", "openingIsCurrentResponse"}
<1>1. ActivateNormalModeAfterOpening(x, failed) = y
  BY DEF ActivateNormalModeAfterOpening
<1>2. IsSession(w) /\ \A g \in Field \ {"playbookLookup"} : w[g] = x[g]
  BY DEF IsSession, Field, LookUpPlaybook
<1> HIDE DEF w
<1>3. /\ IsSession(v)
      /\ \A g \in rest \cup {"timers", "everAppended"} : v[g] = w[g]
      /\ v.openingGreetingComplete = TRUE
      /\ v.openingGreetingPending = FALSE
      /\ v.openingIsCurrentResponse = FALSE
      /\ v.queued = FALSE
      /\ v.openingState = IF failed THEN w.openingState ELSE "opening_done"
  BY <1>2, ZenonT(60) DEF IsSession, Field, Tracked
<1> HIDE DEF v
<1>4. /\ IsSession(u)
      /\ \A g \in Tracked \cup {"timers", "everAppended", "queued"} : u[g] = v[g]
  BY <1>3 DEF IsSession, Field, Tracked, ResetSpeechTurnState
<1> HIDE DEF u
<1>5. /\ IsSession(y)
      /\ \A g \in Tracked \cup {"everAppended", "queued"} : y[g] = u[g]
      /\ y.timers = u.timers \ {"openingTimeout"}
  BY <1>4 DEF IsSession, Field, Tracked, Disarm
<1> HIDE DEF y
<1> QED BY <1>1, <1>2, <1>3, <1>4, <1>5 DEF Field, Tracked

\* An update that ends the opening is mild, if it disarms only its timers.
LEMMA OpeningOverMild ==
  ASSUME NEW x, Orderly(x), NEW y, IsSession(y),
         \A g \in {"smartfloStartReceived", "ws", "openAiSessionCreated",
                   "openAiSessionUpdated", "streamClosed", "closing",
                   "callEndDetected", "everAppended"} : y[g] = x[g],
         y.queued => x.queued,
         y.openingGreetingComplete
           \/ (y.openingState = "failed" /\ y.aiSpeakFirstEnabled = x.aiSpeakFirstEnabled
               /\ y.openingGreetingComplete = x.openingGreetingComplete),
         y.openingState \notin Unready,
         y.timers \subseteq x.timers,
         \A t \in {"hangup", "callEndMaxWait"} : t \in x.timers => t \in y.timers
  PROVE  Mild(x, y)
<1>1. EndTimed(y)
  BY DEF Orderly, EndTimed
<1>2. Orderly(y)
  BY <1>1 DEF Orderly
<1>3. OpeningTimed(y)
  BY DEF OpeningTimed
<1>4. Deaf(x) => Deaf(y)
  BY DEF Deaf
<1> QED BY <1>2, <1>3, <1>4 DEF Keeps, Mild

\* activateNormalModeAfterOpening, when the opening has not failed
LEMMA CompleteMild ==
  ASSUME NEW x, Orderly(x)
  PROVE  Mild(x, CompleteOpeningGreeting(x))
<1> DEFINE y == ActivateNormalModeAfterOpening(x, FALSE)
<1>1. CASE ~x.openingGreetingComplete /\ x.greetingActuallySent
  <2>1. /\ IsSession(y)
        /\ \A g \in Tracked \ {"openingState", "openingGreetingComplete",
                      "openingGreetingPending", "openingIsCurrentResponse"} :
             y[g] = x[g]
        /\ y.openingGreetingComplete = TRUE
        /\ y.openingState = "opening_done"
        /\ y.timers = x.timers \ {"openingTimeout"}
        /\ y.queued = FALSE /\ y.everAppended = x.everAppended
    BY <1>1, ActivateTracked DEF Orderly
  <2> HIDE DEF y
  <2>2. Mild(x, y)
    BY <2>1, OpeningOverMild DEF Tracked, Unready
  <2> QED BY <2>2, MildRefl DEF CompleteOpeningGreeting, y
<1>2. CASE x.openingGreetingComplete \/ ~x.greetingActuallySent
  <2>1. y = x
    BY <1>2 DEF ActivateNormalModeAfterOpening
  <2> HIDE DEF y
  <2> QED BY <2>1, MildRefl DEF CompleteOpeningGreeting, y
<1> QED BY <1>1, <1>2

\* failOpeningWithFallback: the opening is over, or it has failed.
LEMMA FailMild ==
  ASSUME NEW x, Orderly(x)
  PROVE  LET y == FailOpeningWithFallback(x)
         IN /\ Mild(x, y)
            /\ y.openingState = "failed"
<1> DEFINE failed ==
             Disarm({"openingTimeout", "openingReadinessRetry", "instructionReady"},
               [x EXCEPT !.openingGreetingPending = FALSE,
                         !.openingIsCurrentResponse = FALSE,
                         !.responseRequested = FALSE,
                         !.responseInProgress = FALSE,
                         !.queued = FALSE,
                         !.openingState = "failed"])
           kept == {"smartfloStartReceived", "ws", "openAiSessionCreated",
                    "openAiSessionUpdated", "streamClosed", "closing",
                    "callEndDetected", "everAppended"}
<1>1. /\ IsSession(failed)
      /\ \A g \in kept \cup {"aiSpeakFirstEnabled", "openingGreetingComplete"} :
           failed[g] = x[g]
      /\ failed.openingState = "failed"
      /\ failed.queued = FALSE
      /\ failed.timers =
           x.timers \ {"openingTimeout", "openingReadinessRetry", "instructionReady"}
  BY ZenonT(60) DEF Orderly, IsSession, Field, Disarm
<1>2. FailOpeningWithFallback(x) =
        IF x.fallback THEN ActivateNormalModeAfterOpening(failed, TRUE) ELSE failed
  BY DEF FailOpeningWithFallback
<1> HIDE DEF failed
<1>3. Mild(x, failed)
  BY <1>1, OpeningOverMild DEF Unready
<1> DEFINE y == ActivateNormalModeAfterOpening(failed, TRUE)
<1>4. /\ IsSession(y)
      /\ \A g \in Tracked \ {"openingState", "openingGreetingComplete",
                    "openingGreetingPending", "openingIsCurrentResponse"} :
           y[g] = failed[g]
      /\ y.openingGreetingComplete = TRUE
      /\ y.openingState = "failed"
      /\ y.timers = failed.timers \ {"openingTimeout"}
      /\ y.queued = FALSE /\ y.everAppended = failed.everAppended
  BY <1>1, ActivateTracked
<1> HIDE DEF y
<1>5. Mild(failed, y)
  BY <1>3, <1>4, MildKeeps, OpeningOverMild DEF Tracked, Unready
<1> QED BY <1>1, <1>2, <1>3, <1>4, <1>5, MildTrans DEF y

\* startConversationWithGreeting: a greeting that is not yet requested is
\* requested under the opening timeout, or it has failed.
LEMMA StartMild ==
  ASSUME NEW x, Orderly(x)
  PROVE  LET y == StartConversationWithGreeting(x)
         IN /\ Mild(x, y)
            /\ x.openingState \in Unready => OpeningTimed(y)
<1> DEFINE y == StartConversationWithGreeting(x)
           skipped == \/ ~x.aiSpeakFirstEnabled \/ x.closing
                      \/ x.openingGreetingComplete \/ x.greetingActuallySent
                      \/ x.openingAudioDeltaReceived \/ x.openingGreetingPending
<1>1. CASE skipped
  <2>1. y = x
    BY <1>1 DEF StartConversationWithGreeting
  <2>2. x.openingState \in Unready => OpeningTimed(x)
    BY <1>1 DEF OpeningTimed, Orderly, OpeningLeft
  <2> HIDE DEF y
  <2> QED BY <2>1, <2>2, MildRefl DEF y
<1>2. CASE ~skipped /\ x.ws # "open"
  <2>1. y = FailOpeningWithFallback(x)
    BY <1>2 DEF StartConversationWithGreeting
  <2> HIDE DEF y
  <2>2. Mild(x, y) /\ y.openingState = "failed"
    BY <2>1, FailMild
  <2> QED BY <2>2 DEF OpeningTimed, y
<1>3. CASE ~skipped /\ x.ws = "open"
  <2>1. /\ IsSession(y)
        /\ \A g \in {"smartfloStartReceived", "ws", "openAiSessionCreated",
                     "openAiSessionUpdated", "streamClosed", "closing",
                     "callEndDetected", "everAppended", "queued",
                     "aiSpeakFirstEnabled", "openingGreetingComplete"} : y[g] = x[g]
        /\ y.timers = x.timers \cup {"openingTimeout"}
        /\ y.openingState = "opening_response_requested"
    BY <1>3, ZenonT(60) DEF Orderly, IsSession, Field, StartConversationWithGreeting, Arm,
                SendResponseCreate, Send
  <2> HIDE DEF y
  <2>2. EndTimed(y)
    BY <2>1 DEF Orderly, EndTimed
  <2>3. Orderly(y)
    BY <2>1, <2>2 DEF Orderly, Unready
  <2>4. OpeningTimed(y)
    BY <2>1 DEF OpeningTimed
  <2>5. Deaf(x) => Deaf(y)
    BY <2>1 DEF Deaf
  <2> QED BY <2>1, <2>3, <2>4, <2>5 DEF Mild, Keeps, y
<1> QED BY <1>1, <1>2, <1>3

\* scheduleOpeningReadinessRetry: unless the greeting was requested, the retry is
\* armed or the opening has failed.
LEMMA RetryMild ==
  ASSUME NEW x, Orderly(x)
  PROVE  LET y == ScheduleOpeningReadinessRetry(x)
         IN /\ Mild(x, y)
            /\ ~x.greetingActuallySent => OpeningTimed(y)
<1> DEFINE v == [x EXCEPT !.readinessRetries = @ + 1]
           z == Arm("openingReadinessRetry", v)
           y == ScheduleOpeningReadinessRetry(x)
           skipped == \/ "openingReadinessRetry" \in x.timers \/ x.greetingActuallySent
                      \/ x.openingGreetingComplete \/ x.closing
<1>1. /\ IsSession(v)
      /\ \A g \in Tracked \cup {"queued", "everAppended", "timers"} : v[g] = x[g]
  BY DEF Orderly, IsSession, Field, Tracked
<1>2. Mild(x, v) /\ Orderly(v)
  BY <1>1, TrackedMild, MildKeeps
<1> HIDE DEF v
<1>3. Mild(x, z)
  BY <1>2, ArmMild, MildTrans
<1>4. "openingReadinessRetry" \in z.timers
  BY <1>2 DEF Orderly, IsSession, Field, Arm
<1>5. y \in {x, FailOpeningWithFallback(x), z} /\ (y = x => skipped \/ x = z \/ x = FailOpeningWithFallback(x))
  BY DEF ScheduleOpeningReadinessRetry, v
<1> HIDE DEF z, y
<1>6. CASE y = x /\ skipped
  BY <1>6, MildRefl DEF OpeningTimed, y
<1>7. CASE y = FailOpeningWithFallback(x)
  BY <1>7, FailMild DEF OpeningTimed, y
<1>8. CASE y = z
  BY <1>3, <1>4, <1>8 DEF OpeningTimed, y
<1> QED BY <1>5, <1>6, <1>7, <1>8

\* The opening becomes ready to speak.
LEMMA ReadyMild ==
  ASSUME NEW x, Orderly(x)
  PROVE  LET y == [x EXCEPT !.openingState =
                     IF @ = "waiting_for_openai_ready" /\ x.openAiSessionUpdated
                     THEN "ready_to_speak" ELSE @]
         IN /\ Mild(x, y)
            /\ \A g \in Field \ {"openingState"} : y[g] = x[g]
            /\ y.openingState \notin Unready => y.openingState = x.openingState
<1> DEFINE y == [x EXCEPT !.openingState =
                   IF @ = "waiting_for_openai_ready" /\ x.openAiSessionUpdated
                   THEN "ready_to_speak" ELSE @]
<1>1. /\ IsSession(y)
      /\ \A g \in Field \ {"openingState"} : y[g] = x[g]
      /\ \/ y.openingState = x.openingState
         \/ x.openingState \in Unready /\ y.openingState = "ready_to_speak"
  BY DEF Orderly, IsSession, Field, Unready
<1> HIDE DEF y
<1>2. OpeningLeft(y) <=> OpeningLeft(x)
  BY <1>1 DEF Field, OpeningLeft
<1>3. EndTimed(y)
  BY <1>1 DEF Orderly, EndTimed, Field
<1>4. Orderly(y)
  BY <1>1, <1>2, <1>3 DEF Orderly, Field, Unready
<1>5. OpeningTimed(x) => OpeningTimed(y)
  BY <1>1 DEF OpeningTimed, Field, Unready
<1>6. Deaf(x) => Deaf(y)
  BY <1>1 DEF Deaf, Field
<1>7. Mild(x, y)
  BY <1>1, <1>4, <1>5, <1>6 DEF Mild, Keeps, Field
<1> QED BY <1>1, <1>7 DEF y, Unready

\* evaluateOpeningReadiness leaves the opening under a timer: it requests the
\* greeting, or it retries, or what it waits for is watched.
LEMMA EvaluateTimes ==
  ASSUME NEW x, Orderly(x), Watched(x), NEW bound
  PROVE  LET y == EvaluateOpeningReadiness(x, bound)
         IN /\ Mild(x, y)
            /\ OpeningTimed(y)
<1> DEFINE ready == [x EXCEPT !.openingState =
                   IF @ = "waiting_for_openai_ready" /\ x.openAiSessionUpdated
                   THEN "ready_to_speak" ELSE @]
           armed == Disarm({"openingReadinessRetry"}, ready)
           started == StartConversationWithGreeting(armed)
           retried == ScheduleOpeningReadinessRetry(ready)
           y == EvaluateOpeningReadiness(x, bound)
<1>1. /\ Mild(x, ready) /\ Orderly(ready)
      /\ \A g \in Field \ {"openingState"} : ready[g] = x[g]
      /\ ready.openingState \notin Unready => ready.openingState = x.openingState
  BY ReadyMild, MildKeeps
<1>2. y = IF ~x.aiSpeakFirstEnabled THEN x
          ELSE IF OpeningReady(ready, bound) THEN started
          ELSE IF ShouldRetryOpeningReadiness(ready, bound) THEN retried
          ELSE ready
  BY DEF EvaluateOpeningReadiness
<1> HIDE DEF ready, y
<1>3. CASE ~x.aiSpeakFirstEnabled
  <2>1. y = x /\ OpeningTimed(x)
    BY <1>2, <1>3 DEF Orderly, OpeningTimed
  <2> QED BY <2>1, MildRefl DEF y
<1>4. CASE x.aiSpeakFirstEnabled /\ OpeningReady(ready, bound)
  <2>1. /\ IsSession(armed)
        /\ \A g \in Field \ {"timers"} : armed[g] = ready[g]
        /\ armed.timers = ready.timers \ {"openingReadinessRetry"}
    BY <1>1 DEF Orderly, IsSession, Field, Disarm
  <2> HIDE DEF armed
  <2>2. OpeningLeft(armed) <=> OpeningLeft(ready)
    BY <2>1 DEF OpeningLeft, Field
  <2>3. EndTimed(armed)
    BY <1>1, <2>1 DEF Orderly, EndTimed, Field
  <2>4. Orderly(armed) /\ armed.openingState \in Unready
    BY <1>1, <1>4, <2>1, <2>2, <2>3 DEF Orderly, Field, OpeningReady, Unready
  <2>5. Mild(armed, started) /\ OpeningTimed(started)
    BY <2>4, StartMild
  <2> HIDE DEF started
  <2>6. /\ armed.streamClosed = x.streamClosed /\ armed.closing = x.closing
        /\ armed.smartfloStartReceived = x.smartfloStartReceived
        /\ Deaf(x) => Deaf(armed)
    BY <1>1, <2>1 DEF Field, Deaf
  <2>7. Mild(x, started)
    BY <2>5, <2>6 DEF Mild, Keeps
  <2> QED BY <1>2, <1>4, <2>5, <2>7 DEF y
<1>5. CASE /\ x.aiSpeakFirstEnabled /\ ~OpeningReady(ready, bound)
           /\ ready.openingState \in Unready
           /\ ShouldRetryOpeningReadiness(ready, bound)
  <2>1. ~ready.greetingActuallySent
    BY <1>1, <1>5 DEF Orderly, OpeningLeft
  <2>2. Mild(ready, retried) /\ OpeningTimed(retried)
    BY <1>1, <2>1, RetryMild
  <2> HIDE DEF retried
  <2> QED BY <1>1, <1>2, <1>5, <2>2, MildTrans DEF y
<1>6. CASE /\ x.aiSpeakFirstEnabled /\ ~OpeningReady(ready, bound)
           /\ ready.openingState \in Unready
           /\ ~ShouldRetryOpeningReadiness(ready, bound)
  <2>1. ~ready.greetingActuallySent
    BY <1>1, <1>6 DEF Orderly, OpeningLeft
  <2>2. ~(ready.smartfloStartReceived /\ ready.ws = "open" /\ ready.openAiSessionCreated)
    BY <1>6, <2>1 DEF OpeningReady, ShouldRetryOpeningReadiness, Unready
  <2>3. OpeningTimed(ready)
    BY <2>2 DEF OpeningTimed
  <2> QED BY <1>1, <1>2, <1>6, <2>3 DEF y
<1>7. CASE /\ x.aiSpeakFirstEnabled /\ ready.openingState \notin Unready
  <2>1. OpeningTimed(ready)
    <3>1. ready.openingState = x.openingState
      BY <1>1, <1>7
    <3>2. SUFFICES ASSUME ready.ws = "open", ~ready.openingGreetingComplete,
                          ready.openingState # "failed", ~ready.closing
                   PROVE  "openingTimeout" \in ready.timers
      BY DEF OpeningTimed
    <3>3. /\ x.ws = "open" /\ ~x.openingGreetingComplete /\ ~x.closing
          /\ x.openingState # "failed" /\ ready.timers = x.timers
      BY <1>1, <3>1, <3>2 DEF Field
    <3>4. SuppressesInbound(x)
      BY <1>7, <3>1, <3>3 DEF Orderly, SuppressesInbound
    <3> QED BY <3>3, <3>4 DEF Watched
  <2>2. ~OpeningReady(ready, bound)
    BY <1>7 DEF OpeningReady, Unready
  <2>3. Mild(ready, retried) /\ OpeningTimed(retried)
    BY <1>1, <2>1, RetryMild DEF Mild, Keeps
  <2> HIDE DEF retried
  <2> QED BY <1>1, <1>2, <1>7, <2>1, <2>2, <2>3, MildTrans DEF y
<1> QED BY <1>3, <1>4, <1>5, <1>6, <1>7

\* markOpenAiInstructionReady: the instruction-ready timer is disarmed, and the
\* readiness evaluated.
LEMMA MarkReadyTimes ==
  ASSUME NEW x, Safe(x), Orderly(x), NEW bound
  PROVE  LET y == MarkOpenAiInstructionReady(x, bound)
         IN /\ Mild(x, y)
            /\ ~x.openAiSessionUpdated => OpeningTimed(y)
<1> DEFINE v == Disarm({"instructionReady", "openingReadinessRetry"},
                  [x EXCEPT !.openAiSessionUpdated = TRUE, !.sessionReady = TRUE,
                            !.readinessRetries = 0])
           y == EvaluateOpeningReadiness(v, bound)
<1>1. /\ IsSession(v)
      /\ \A g \in Field \ {"openAiSessionUpdated", "sessionReady",
                           "readinessRetries", "timers"} : v[g] = x[g]
      /\ v.timers = x.timers \ {"instructionReady", "openingReadinessRetry"}
  BY DEF Orderly, IsSession, Field, Disarm
<1> HIDE DEF v
<1>2. OpeningLeft(v) <=> OpeningLeft(x)
  BY <1>1 DEF OpeningLeft, Field
<1>3. EndTimed(v)
  BY <1>1 DEF Orderly, EndTimed, Field
<1>4. Orderly(v)
  BY <1>1, <1>2, <1>3 DEF Orderly, Field
<1>5. Watched(v)
  BY <1>1 DEF Safe, Watched, SuppressesInbound, Field
<1>6. Mild(v, y) /\ OpeningTimed(y)
  BY <1>4, <1>5, EvaluateTimes
<1> HIDE DEF y
<1>7. /\ v.streamClosed = x.streamClosed /\ v.closing = x.closing
      /\ v.smartfloStartReceived = x.smartfloStartReceived
      /\ Deaf(x) => Deaf(v)
  BY <1>1 DEF Field, Deaf
<1>8. Mild(x, y)
  BY <1>6, <1>7 DEF Mild, Keeps
<1> QED BY <1>6, <1>8, MildRefl DEF MarkOpenAiInstructionReady, y, v

\* maybeRetryOpeningGreetingAfterResponse
LEMMA MaybeRetryMild ==
  ASSUME NEW x, Orderly(x)
  PROVE  Mild(x, MaybeRetryOpeningGreetingAfterResponse(x))
BY StartMild, MildRefl DEF MaybeRetryOpeningGreetingAfterResponse

\* What is left of a requested greeting is cleared.
LEMMA ClearedMild ==
  ASSUME NEW x, Orderly(x), NEW y, IsSession(y),
         \A g \in (Tracked \ {"openingGreetingPending", "openingIsCurrentResponse",
                              "activeSource", "greetingActuallySent"})
                    \cup {"queued", "everAppended", "timers"} : y[g] = x[g],
         OpeningLeft(y) => OpeningLeft(x)
  PROVE  Mild(x, y)
<1>1. EndTimed(y)
  BY DEF Orderly, EndTimed, Tracked
<1>2. Orderly(y)
  BY <1>1 DEF Orderly, Tracked
<1>3. OpeningTimed(x) => OpeningTimed(y)
  BY DEF OpeningTimed, Tracked
<1>4. Deaf(x) => Deaf(y)
  BY DEF Deaf, Tracked
<1> QED BY <1>2, <1>3, <1>4 DEF Mild, Keeps, Tracked

\* finalizeInterruptedOpeningIfNeeded, when audio was heard
LEMMA FinalizeMild ==
  ASSUME NEW x, Orderly(x)
  PROVE  Mild(x, FinalizeInterruptedOpening(x))
<1> DEFINE y == [x EXCEPT !.openingGreetingPending = FALSE,
                          !.openingIsCurrentResponse = FALSE,
                          !.activeSource = None]
<1>1. /\ IsSession(y)
      /\ \A g \in Field \ {"openingGreetingPending", "openingIsCurrentResponse",
                           "activeSource"} : y[g] = x[g]
      /\ y.openingGreetingPending = FALSE /\ y.openingIsCurrentResponse = FALSE
      /\ y.activeSource = None
  BY DEF Orderly, IsSession, Field
<1> HIDE DEF y
<1>2. OpeningLeft(y) => OpeningLeft(x)
  BY <1>1 DEF OpeningLeft, Field, None
<1>3. Mild(x, y) /\ Orderly(y)
  BY <1>1, <1>2, ClearedMild, MildKeeps DEF Tracked, Field
<1>4. Mild(x, CompleteOpeningGreeting(y))
  BY <1>3, CompleteMild, MildTrans
<1> QED BY <1>4 DEF FinalizeInterruptedOpening, y

-----------------------------------------------------------------------------
(* The customer's audio and the end of the call have their timers.         *)

\* appendInputAudioChunk
LEMMA AppendKeeps ==
  ASSUME NEW x, Orderly(x)
  PROVE  Keeps(x, AppendInputAudio(x))
<1> DEFINE y == AppendInputAudio(x)
<1>1. /\ IsSession(y)
      /\ \A g \in Tracked \cup {"timers"} : y[g] = x[g]
  BY DEF Orderly, IsSession, Field, Tracked, AppendInputAudio
<1> HIDE DEF y
<1> QED BY <1>1, TrackedKeeps DEF y

\* scheduleInputCommit
LEMMA CommitTimerMild ==
  ASSUME NEW x, Orderly(x)
  PROVE  Mild(x, ScheduleInputCommit(x))
BY ArmMild, MildRefl DEF ScheduleInputCommit

\* A packet of speech is counted.
LEMMA CountMild ==
  ASSUME NEW x, Orderly(x)
  PROVE  Mild(x, CountSpeech(x))
<1> DEFINE y == CountSpeech(x)
<1>1. /\ IsSession(y)
      /\ \A g \in Tracked \cup {"queued", "everAppended", "timers"} : y[g] = x[g]
  BY DEF Orderly, IsSession, Field, Tracked, CountSpeech
<1> HIDE DEF y
<1> QED BY <1>1, TrackedMild DEF y

\* tryCancelInterruptedResponse
LEMMA CancelMild ==
  ASSUME NEW x, Orderly(x)
  PROVE  Mild(x, CancelInterruptedResponse(x))
<1> DEFINE y == [x EXCEPT !.cancelSentFor = x.responseId]
<1>1. /\ IsSession(y)
      /\ \A g \in Tracked \cup {"queued", "everAppended", "timers"} : y[g] = x[g]
  BY DEF Orderly, IsSession, Field, Tracked
<1> HIDE DEF y
<1>2. Mild(x, y) /\ Orderly(y)
  BY <1>1, TrackedMild, MildKeeps
<1>3. Mild(x, Send([type |-> "cancel", source |-> None], y))
  BY <1>2, SendMild, MildTrans
<1> QED BY <1>3, MildRefl DEF CancelInterruptedResponse, y

\* accumulateInboundDuringPostOpeningIgnore
LEMMA AccumulateMild ==
  ASSUME NEW x, Orderly(x), NEW sound
  PROVE  Mild(x, AccumulateDuringIgnore(x, sound))
<1> DEFINE y == CountSpeech(x)
           z == [y EXCEPT !.validSpeech = @ \/ HasEnoughSpeech(y)]
<1>1. Mild(x, y) /\ Orderly(y)
  BY CountMild, MildKeeps
<1> HIDE DEF y
<1>2. /\ IsSession(z)
      /\ \A g \in Tracked \cup {"queued", "everAppended", "timers"} : z[g] = y[g]
  BY <1>1 DEF Orderly, IsSession, Field, Tracked
<1>3. Mild(x, z)
  BY <1>1, <1>2, TrackedMild, MildTrans
<1> HIDE DEF z
<1> QED BY <1>3, MildRefl DEF AccumulateDuringIgnore, y, z

\* tryForwardAccumulatedSpeech
LEMMA TryForwardKeeps ==
  ASSUME NEW x, Orderly(x)
  PROVE  Keeps(x, TryForwardAccumulatedSpeech(x))
<1> DEFINE y == IF x.awaitingCustomerInput /\ ~x.customerTurnConfirmed
                THEN ConfirmCustomerTurn(x) ELSE x
           z == AppendInputAudio(y)
<1>1. Keeps(x, y) /\ Orderly(y)
  BY ConfirmMild, MildRefl, MildKeeps
<1> HIDE DEF y
<1>2. Keeps(x, z) /\ Orderly(z)
  BY <1>1, AppendKeeps, KeepsTrans DEF Keeps
<1> HIDE DEF z
<1>3. Keeps(x, ScheduleInputCommit(z))
  BY <1>2, CommitTimerMild, KeepsTrans, MildKeeps
<1> QED BY <1>3, MildRefl, MildKeeps DEF TryForwardAccumulatedSpeech, y, z

\* A loud packet.
LEMMA HearSpeechKeeps ==
  ASSUME NEW x, Orderly(x), NEW echo
  PROVE  Keeps(x, HearSpeech(x, echo))
<1> DEFINE y == CountSpeech(x)
           w == [y EXCEPT !.bargeIn = TRUE]
           interrupts == IsAiTurnActive(y) /\ ~y.bargeIn
           confirmed ==
             IF interrupts
             THEN ConfirmCustomerTurn(CancelInterruptedResponse(w))
             ELSE IF y.awaitingCustomerInput THEN ConfirmCustomerTurn(y) ELSE y
           valid == [confirmed EXCEPT !.validSpeech = TRUE]
<1>1. Mild(x, y) /\ Orderly(y)
  BY CountMild, MildKeeps
<1>2. HearSpeech(x, echo) = y \/
      HearSpeech(x, echo) = ScheduleInputCommit(AppendInputAudio(valid))
  BY DEF HearSpeech
<1> HIDE DEF y
<1>3. /\ IsSession(w)
      /\ \A g \in Tracked \cup {"queued", "everAppended", "timers"} : w[g] = y[g]
  BY <1>1 DEF Orderly, IsSession, Field, Tracked
<1>4. Mild(x, w) /\ Orderly(w)
  BY <1>1, <1>3, TrackedMild, MildTrans, MildKeeps
<1> HIDE DEF w
<1>5. Mild(x, CancelInterruptedResponse(w)) /\ Orderly(CancelInterruptedResponse(w))
  BY <1>4, CancelMild, MildTrans, MildKeeps
<1>6. Mild(x, ConfirmCustomerTurn(CancelInterruptedResponse(w)))
  BY <1>5, ConfirmMild, MildTrans
<1>7. Mild(x, ConfirmCustomerTurn(y))
  BY <1>1, ConfirmMild, MildTrans
<1>8. Mild(x, confirmed) /\ Orderly(confirmed)
  BY <1>1, <1>6, <1>7, MildKeeps
<1> HIDE DEF confirmed
<1>9. /\ IsSession(valid)
      /\ \A g \in Tracked \cup {"queued", "everAppended", "timers"} :
           valid[g] = confirmed[g]
  BY <1>8 DEF Orderly, IsSession, Field, Tracked
<1>10. Keeps(x, valid) /\ Orderly(valid)
  BY <1>8, <1>9, TrackedMild, MildTrans, MildKeeps
<1> HIDE DEF valid
<1>11. Keeps(x, AppendInputAudio(valid)) /\ Orderly(AppendInputAudio(valid))
  BY <1>10, AppendKeeps, KeepsTrans DEF Keeps
<1>12. Keeps(x, ScheduleInputCommit(AppendInputAudio(valid)))
  BY <1>11, CommitTimerMild, KeepsTrans, MildKeeps
<1> QED BY <1>1, <1>2, <1>12, MildKeeps

\* A silent packet.
LEMMA HearSilenceKeeps ==
  ASSUME NEW x, Orderly(x)
  PROVE  Keeps(x, HearSilence(x))
<1> DEFINE y == [x EXCEPT !.held = FALSE, !.speech = 0]
<1>1. /\ IsSession(y)
      /\ \A g \in Tracked \cup {"queued", "everAppended", "timers"} : y[g] = x[g]
  BY DEF Orderly, IsSession, Field, Tracked
<1>2. HearSilence(x) \in {x, y, AppendInputAudio(x)}
  BY DEF HearSilence
<1> HIDE DEF y
<1>3. Keeps(x, y)
  BY <1>1, TrackedMild, MildKeeps
<1> QED BY <1>2, <1>3, AppendKeeps, MildRefl, MildKeeps

\* A packet is kept for later.
LEMMA QueueKeeps ==
  ASSUME NEW x, Orderly(x), NEW b
  PROVE  Keeps(x, [x EXCEPT !.queued = b])
<1> DEFINE y == [x EXCEPT !.queued = b]
<1>1. /\ IsSession(y)
      /\ \A g \in Tracked \cup {"timers"} : y[g] = x[g]
  BY DEF Orderly, IsSession, Field, Tracked
<1> HIDE DEF y
<1> QED BY <1>1, TrackedKeeps DEF y

\* appendInputAudio
LEMMA AppendInputKeeps ==
  ASSUME NEW x, Orderly(x), NEW sound
  PROVE  Keeps(x, AppendInput(x, sound))
<1> DEFINE q == [x EXCEPT !.queued = TRUE]
           y == TryForwardAccumulatedSpeech(x)
<1>1. AppendInput(x, sound) \in
        {q, x, y, AccumulateDuringIgnore(x, sound),
         HearSilence(y), HearSpeech(y, sound = "echo")}
  BY DEF AppendInput
<1>2. Keeps(x, q)
  BY QueueKeeps
<1>3. Keeps(x, y) /\ Orderly(y)
  BY TryForwardKeeps DEF Keeps
<1> HIDE DEF q, y
<1>4. Keeps(x, HearSilence(y)) /\ Keeps(x, HearSpeech(y, sound = "echo"))
  BY <1>3, HearSilenceKeeps, HearSpeechKeeps, KeepsTrans
<1> QED BY <1>1, <1>2, <1>3, <1>4, AccumulateMild, MildRefl, MildKeeps

\* The queued packets are appended, if there are any.
LEMMA FlushMild ==
  ASSUME NEW x, Orderly(x), NEW sound
  PROVE  Mild(x, FlushPendingInput(x, sound))
<1> DEFINE y == [x EXCEPT !.queued = FALSE]
<1>1. Keeps(x, y) /\ Orderly(y)
  BY QueueKeeps DEF Keeps
<1> HIDE DEF y
<1>2. Keeps(x, AppendInput(y, sound))
  BY <1>1, AppendInputKeeps, KeepsTrans
<1>3. CASE x.queued
  BY <1>2, <1>3 DEF FlushPendingInput, Mild, Deaf, y
<1>4. CASE ~x.queued
  BY <1>4, MildRefl DEF FlushPendingInput
<1> QED BY <1>3, <1>4

\* They are, if the opening does not hold them back.
LEMMA FlushIfReadyMild ==
  ASSUME NEW x, Orderly(x), NEW sound
  PROVE  Mild(x, FlushPendingInputIfReady(x, sound))
BY FlushMild, MildRefl DEF FlushPendingInputIfReady

\* A response that is not the greeting is requested.
LEMMA CreateMild ==
  ASSUME NEW x, Orderly(x), NEW source, source # "opening"
  PROVE  Mild(x, SendResponseCreate(source, x))
<1> DEFINE w == [x EXCEPT !.responseRequested = TRUE,
                          !.authorizedSource = source, !.bargeIn = FALSE]
           f == [type |-> "create", source |-> source]
<1>1. /\ IsSession(w)
      /\ \A g \in (Tracked \ {"authorizedSource"})
                    \cup {"queued", "everAppended", "timers"} : w[g] = x[g]
      /\ w.authorizedSource = source
  BY ZenonT(60) DEF Orderly, IsSession, Field, Tracked
<1> HIDE DEF w
<1>2. OpeningLeft(w) => OpeningLeft(x)
  BY <1>1 DEF OpeningLeft, Tracked
<1>3. EndTimed(w)
  BY <1>1 DEF Orderly, EndTimed, Tracked
<1>4. Orderly(w)
  BY <1>1, <1>2, <1>3 DEF Orderly, Tracked
<1>5. OpeningTimed(x) => OpeningTimed(w)
  BY <1>1 DEF OpeningTimed, Tracked
<1>6. Deaf(x) => Deaf(w)
  BY <1>1 DEF Deaf, Tracked
<1>7. Mild(x, w)
  BY <1>1, <1>4, <1>5, <1>6 DEF Mild, Keeps, Tracked
<1>8. Mild(x, Send(f, w))
  BY <1>4, <1>7, SendMild, MildTrans
<1> QED BY <1>8 DEF SendResponseCreate, w

\* commitInputAndCreateResponse
LEMMA CommitMild ==
  ASSUME NEW x, Orderly(x), NEW source, source # "opening", NEW recent
  PROVE  Mild(x, CommitInputAndCreateResponse(x, source, recent))
<1>1. CommitInputAndCreateResponse(x, source, recent)
        \in {x, Disarm({"commit"}, x), SendResponseCreate(source, x)}
  BY DEF CommitInputAndCreateResponse
<1> QED BY <1>1, MildRefl, DisarmCommitMild, CreateMild

\* scheduleHangupAfterCompletion: the maximum wait gives way to the hang-up.
LEMMA HangupMild ==
  ASSUME NEW x, Orderly(x)
  PROVE  Mild(x, ScheduleHangupAfterCompletion(x))
<1> DEFINE y == Arm("hangup", Disarm({"callEndMaxWait"}, x))
<1>1. /\ IsSession(y)
      /\ \A g \in Field \ {"timers"} : y[g] = x[g]
      /\ y.timers = (x.timers \ {"callEndMaxWait"}) \cup {"hangup"}
  BY DEF Orderly, IsSession, Field, Arm, Disarm
<1> HIDE DEF y
<1>2. OpeningLeft(y) <=> OpeningLeft(x)
  BY <1>1 DEF OpeningLeft, Field
<1>3. EndTimed(y)
  BY <1>1 DEF EndTimed
<1>4. Orderly(y)
  BY <1>1, <1>2, <1>3 DEF Orderly, Field
<1>5. OpeningTimed(x) => OpeningTimed(y)
  BY <1>1 DEF OpeningTimed, Field
<1>6. Deaf(x) => Deaf(y)
  BY <1>1 DEF Deaf, Field
<1>7. Mild(x, y)
  BY <1>1, <1>4, <1>5, <1>6 DEF Mild, Keeps, Field
<1> QED BY <1>7, MildRefl DEF ScheduleHangupAfterCompletion, y

\* requestCallEndAcknowledgement
LEMMA AcknowledgeMild ==
  ASSUME NEW x, Orderly(x)
  PROVE  Mild(x, RequestCallEndAcknowledgement(x))
BY HangupMild, CreateMild DEF RequestCallEndAcknowledgement

\* markCustomerCallEndDetected arms the maximum wait with the flag.
LEMMA GoodbyeKeeps ==
  ASSUME NEW x, Orderly(x)
  PROVE  Keeps(x, MarkCustomerCallEndDetected(x))
<1> DEFINE y == Arm("callEndMaxWait", [x EXCEPT !.callEndDetected = TRUE])
<1>1. /\ IsSession(y)
      /\ \A g \in Field \ {"timers", "callEndDetected"} : y[g] = x[g]
      /\ y.timers = x.timers \cup {"callEndMaxWait"}
  BY DEF Orderly, IsSession, Field, Arm
<1>2. MarkCustomerCallEndDetected(x) \in {x, y, RequestCallEndAcknowledgement(y)}
  BY DEF MarkCustomerCallEndDetected
<1> HIDE DEF y
<1>3. OpeningLeft(y) <=> OpeningLeft(x)
  BY <1>1 DEF OpeningLeft, Field
<1>4. EndTimed(y)
  BY <1>1 DEF EndTimed
<1>5. Orderly(y)
  BY <1>1, <1>3, <1>4 DEF Orderly, Field
<1>6. OpeningTimed(x) => OpeningTimed(y)
  BY <1>1 DEF OpeningTimed, Field
<1>7. Keeps(x, y)
  BY <1>1, <1>5, <1>6 DEF Keeps, Field
<1>8. Keeps(x, RequestCallEndAcknowledgement(y))
  BY <1>5, <1>7, AcknowledgeMild, MildKeeps, KeepsTrans
<1> QED BY <1>2, <1>7, <1>8, MildRefl, MildKeeps

\* A transcript of the customer.
LEMMA TranscriptKeeps ==
  ASSUME NEW x, Orderly(x), NEW echo, NEW bye, NEW recent
  PROVE  Keeps(x, HearTranscript(x, echo, bye, recent))
<1> DEFINE confirmed == IF x.customerTurnConfirmed THEN x ELSE ConfirmCustomerTurn(x)
           allowed == [confirmed EXCEPT !.allowNextServerVad = TRUE]
           committed == CommitInputAndCreateResponse(allowed, "customer_speech", recent)
           answered ==
             IF x.useServerVad /\ ~IsAiTurnActive(x) /\ x.audioAppended
             THEN committed ELSE confirmed
           handled == [answered EXCEPT !.availabilityHandled =
                         @ \/ bye \/ IsAwaitingAvailability(answered)]
<1>1. Mild(x, confirmed) /\ Orderly(confirmed)
  BY ConfirmMild, MildRefl, MildKeeps
<1>2. HearTranscript(x, echo, bye, recent)
        \in {x, handled, MarkCustomerCallEndDetected(handled)}
  BY DEF HearTranscript
<1> HIDE DEF confirmed
<1>3. /\ IsSession(allowed)
      /\ \A g \in Tracked \cup {"queued", "everAppended", "timers"} :
           allowed[g] = confirmed[g]
  BY <1>1 DEF Orderly, IsSession, Field, Tracked
<1>4. Mild(x, allowed) /\ Orderly(allowed)
  BY <1>1, <1>3, TrackedMild, MildTrans, MildKeeps
<1> HIDE DEF allowed
<1>5. Mild(x, committed)
  BY <1>4, CommitMild, MildTrans
<1> HIDE DEF committed
<1>6. Mild(x, answered) /\ Orderly(answered)
  BY <1>1, <1>5, MildKeeps
<1> HIDE DEF answered
<1>7. /\ IsSession(handled)
      /\ \A g \in Tracked \cup {"queued", "everAppended", "timers"} :
           handled[g] = answered[g]
  BY <1>6 DEF Orderly, IsSession, Field, Tracked
<1>8. Keeps(x, handled) /\ Orderly(handled)
  BY <1>6, <1>7, TrackedMild, MildTrans, MildKeeps
<1> HIDE DEF handled
<1>9. Keeps(x, MarkCustomerCallEndDetected(handled))
  BY <1>8, GoodbyeKeeps, KeepsTrans
<1> QED BY <1>2, <1>8, <1>9, MildRefl, MildKeeps

-----------------------------------------------------------------------------
(* Frames and the end of the session under the timers.                     *)

\* session.created: the readiness is evaluated.
LEMMA CreatedTimes ==
  ASSUME NEW x, Safe(x), Orderly(x), x.ws = "open", NEW bound
  PROVE  LET y == SessionCreated(x, bound)
         IN Mild(x, y) /\ OpeningTimed(y)
<1> DEFINE v == [x EXCEPT !.openAiSessionCreated = TRUE]
           z == IF ~v.sessionUpdateSent THEN v
                ELSE IF v.aiSpeakFirstEnabled /\ v.smartfloStartReceived
                THEN MarkOpenAiInstructionReady(v, bound)
                ELSE ScheduleInstructionReady(v)
           y == EvaluateOpeningReadiness(z, bound)
<1>1. /\ IsSession(v)
      /\ \A g \in Field \ {"openAiSessionCreated"} : v[g] = x[g]
  BY DEF Orderly, IsSession, Field
<1> HIDE DEF v
<1>2. /\ \A g \in Relevant : v[g] = x[g]
      /\ v.timers = x.timers
  BY <1>1 DEF Field, Relevant
<1>3. Safe(v)
  BY <1>1, <1>2, Quiet, PlainSafe
<1>4. OpeningLeft(v) <=> OpeningLeft(x)
  BY <1>1 DEF OpeningLeft, Field
<1>5. EndTimed(v)
  BY <1>1 DEF Orderly, EndTimed, Field
<1>6. Orderly(v)
  BY <1>1, <1>4, <1>5 DEF Orderly, Field
<1>7. Safe(z) /\ Mild(v, z) /\ Orderly(z)
  BY <1>3, <1>6, MarkReadyPlain, ScheduleInstructionPlain, PlainSafe,
     MarkReadyTimes, ScheduleInstructionMild, MildRefl, MildKeeps
<1> HIDE DEF z
<1>8. Mild(z, y) /\ OpeningTimed(y)
  BY <1>7, EvaluateTimes DEF Safe
<1> HIDE DEF y
<1>9. Mild(v, y)
  BY <1>7, <1>8, MildTrans
<1>10. /\ v.streamClosed = x.streamClosed /\ v.closing = x.closing
       /\ v.smartfloStartReceived = x.smartfloStartReceived
       /\ Deaf(x) => Deaf(v)
  BY <1>1 DEF Field, Deaf
<1>11. Mild(x, y)
  BY <1>8, <1>9, <1>10 DEF Mild, Keeps
<1> QED BY <1>8, <1>11 DEF SessionCreated, y, z, v

\* response.created: a response of the greeting was requested as such.
LEMMA ResponseCreatedMild ==
  ASSUME NEW x, Orderly(x), NEW id
  PROVE  Mild(x, ResponseCreated(x, id))
<1> DEFINE y == ResponseCreated(x, id)
           authorized == \/ x.authorizedSource # None
                         \/ x.allowNextServerVad \/ x.customerTurnConfirmed
<1>1. CASE ~authorized
  BY <1>1, SendMild DEF ResponseCreated
<1>2. CASE authorized
  <2>1. /\ IsSession(y)
        /\ \A g \in (Tracked \ {"authorizedSource", "activeSource",
                                "openingGreetingPending"})
                      \cup {"queued", "everAppended", "timers"} : y[g] = x[g]
        /\ y.authorizedSource = None
        /\ y.activeSource = "opening" => x.authorizedSource = "opening"
        /\ y.openingGreetingPending => x.openingGreetingPending
    BY <1>2, ZenonT(60) DEF Orderly, IsSession, Field, Tracked, ResponseCreated
  <2> HIDE DEF y
  <2>2. OpeningLeft(y) => OpeningLeft(x)
    BY <2>1 DEF OpeningLeft, Tracked, None
  <2>3. EndTimed(y)
    BY <2>1 DEF Orderly, EndTimed, Tracked
  <2>4. Orderly(y)
    BY <2>1, <2>2, <2>3 DEF Orderly, Tracked
  <2>5. OpeningTimed(x) => OpeningTimed(y)
    BY <2>1 DEF OpeningTimed, Tracked
  <2>6. Deaf(x) => Deaf(y)
    BY <2>1 DEF Deaf, Tracked
  <2> QED BY <2>1, <2>4, <2>5, <2>6 DEF Mild, Keeps, Tracked, y
<1> QED BY <1>1, <1>2

\* response.output_audio.delta
LEMMA DeltaMild ==
  ASSUME NEW x, Orderly(x), NEW framed
  PROVE  Mild(x, OutputAudioDelta(x, framed))
<1> DEFINE y == OutputAudioDelta(x, framed)
<1>1. /\ IsSession(y)
      /\ \A g \in (Tracked \ {"openingState", "openingAudioDeltaReceived"})
                    \cup {"queued", "everAppended", "timers"} : y[g] = x[g]
      /\ \/ y.openingState = x.openingState
         \/ /\ x.openingState = "opening_response_requested"
            /\ y.openingState = "opening_audio_playing"
      /\ y.openingAudioDeltaReceived =>
           \/ x.openingAudioDeltaReceived \/ x.openingIsCurrentResponse
           \/ x.activeSource = "opening"
  BY ZenonT(60) DEF Orderly, IsSession, Field, Tracked, OutputAudioDelta
<1> HIDE DEF y
<1>2. OpeningLeft(y) => OpeningLeft(x)
  BY <1>1 DEF OpeningLeft, Tracked
<1>3. EndTimed(y)
  BY <1>1 DEF Orderly, EndTimed, Tracked
<1>4. Orderly(y)
  BY <1>1, <1>2, <1>3 DEF Orderly, Tracked, Unready
<1>5. OpeningTimed(x) => OpeningTimed(y)
  BY <1>1 DEF OpeningTimed, Tracked
<1>6. Deaf(x) => Deaf(y)
  BY <1>1 DEF Deaf, Tracked
<1> QED BY <1>1, <1>4, <1>5, <1>6 DEF Mild, Keeps, Tracked, y

\* response.done
LEMMA ResponseDoneMild ==
  ASSUME NEW x, Orderly(x)
  PROVE  Mild(x, ResponseDone(x))
<1> DEFINE v == [x EXCEPT !.responseInProgress = FALSE, !.responseComplete = TRUE,
                          !.responseRequested = FALSE, !.responseId = 0,
                          !.cancelSentFor = 0, !.activeSource = None]
           y == ResetSpeechTurnState(v)
           u == [y EXCEPT !.openingIsCurrentResponse = FALSE]
           z1 == CompleteOpeningGreeting(u)
           z2 == MaybeRetryOpeningGreetingAfterResponse(y)
           w(z) == SetAwaitingCustomerInput(z)
<1>1. \E z \in {y, z1, z2} :
        ResponseDone(x) \in {w(z), ScheduleHangupAfterCompletion(w(z))}
  BY DEF ResponseDone
<1>2. /\ IsSession(v)
      /\ \A g \in (Tracked \ {"activeSource"})
                    \cup {"queued", "everAppended", "timers"} : v[g] = x[g]
      /\ v.activeSource = None
  BY ZenonT(60) DEF Orderly, IsSession, Field, Tracked
<1> HIDE DEF v
<1>3. OpeningLeft(v) => OpeningLeft(x)
  BY <1>2 DEF OpeningLeft, Tracked, None
<1>4. Mild(x, v) /\ Orderly(v)
  BY <1>2, <1>3, ClearedMild, MildKeeps
<1>5. Mild(x, y) /\ Orderly(y)
  BY <1>4, ResetSpeechMild, MildTrans, MildKeeps
<1> HIDE DEF y
<1>6. /\ IsSession(u)
      /\ \A g \in (Tracked \ {"openingIsCurrentResponse"})
                    \cup {"queued", "everAppended", "timers"} : u[g] = y[g]
      /\ u.openingIsCurrentResponse = FALSE
  BY <1>5 DEF Orderly, IsSession, Field, Tracked
<1> HIDE DEF u
<1>7. OpeningLeft(u) => OpeningLeft(y)
  BY <1>6 DEF OpeningLeft, Tracked
<1>8. Mild(x, u) /\ Orderly(u)
  BY <1>5, <1>6, <1>7, ClearedMild, MildTrans, MildKeeps
<1>9. Mild(x, z1) /\ Mild(x, z2)
  BY <1>5, <1>8, CompleteMild, MaybeRetryMild, MildTrans
<1> HIDE DEF z1, z2
<1>10. ASSUME NEW z, Mild(x, z)
       PROVE  Mild(x, w(z)) /\ Mild(x, ScheduleHangupAfterCompletion(w(z)))
  BY <1>10, SetAwaitingMild, HangupMild, MildTrans, MildKeeps
<1> HIDE DEF w
<1> QED BY <1>1, <1>5, <1>9, <1>10

\* response.cancelled: a greeting that was cancelled before it was heard stays
\* under its timeout.
LEMMA CancelledMild ==
  ASSUME NEW x, Orderly(x)
  PROVE  Mild(x, ResponseCancelled(x))
<1> DEFINE v == [x EXCEPT !.openingGreetingPending = FALSE,
                          !.openingIsCurrentResponse = FALSE,
                          !.activeSource = None, !.greetingActuallySent = FALSE]
           y == IF ~InterruptedOpening(x) THEN x
                ELSE IF OpeningResponseHadAudio(x) THEN FinalizeInterruptedOpening(x)
                ELSE v
           r == ResetResponseGuards(y)
           z == [r EXCEPT !.responseId = 0]
<1>1. /\ IsSession(v)
      /\ \A g \in (Tracked \ {"openingGreetingPending", "openingIsCurrentResponse",
                              "activeSource", "greetingActuallySent"})
                    \cup {"queued", "everAppended", "timers"} : v[g] = x[g]
      /\ v.openingGreetingPending = FALSE /\ v.openingIsCurrentResponse = FALSE
      /\ v.activeSource = None /\ v.greetingActuallySent = FALSE
  BY ZenonT(60) DEF Orderly, IsSession, Field, Tracked
<1> HIDE DEF v
<1>2. OpeningLeft(v) => OpeningLeft(x)
  BY <1>1 DEF OpeningLeft, Tracked, None
<1>3. Mild(x, v)
  BY <1>1, <1>2, ClearedMild
<1>4. Mild(x, y) /\ Orderly(y)
  BY <1>3, FinalizeMild, MildRefl, MildKeeps
<1> HIDE DEF y
<1>5. Mild(x, r) /\ Orderly(r)
  BY <1>4, ResetGuardsMild, MildTrans, MildKeeps
<1> HIDE DEF r
<1>6. /\ IsSession(z)
      /\ \A g \in Tracked \cup {"queued", "everAppended", "timers"} : z[g] = r[g]
  BY <1>5 DEF Orderly, IsSession, Field, Tracked
<1> HIDE DEF z
<1>7. Mild(x, z)
  BY <1>5, <1>6, TrackedMild, MildTrans
<1> QED BY <1>7 DEF ResponseCancelled, v, y, r, z

\* error
LEMMA ErrorMild ==
  ASSUME NEW x, Orderly(x)
  PROVE  Mild(x, ErrorEvent(x))
<1> DEFINE v == [x EXCEPT !.activeSource = None]
           y == IF ~InterruptedOpening(x) THEN x
                ELSE IF OpeningResponseHadAudio(x) THEN FinalizeInterruptedOpening(x)
                ELSE FailOpeningWithFallback(v)
<1>1. /\ IsSession(v)
      /\ \A g \in (Tracked \ {"activeSource"})
                    \cup {"queued", "everAppended", "timers"} : v[g] = x[g]
      /\ v.activeSource = None
  BY DEF Orderly, IsSession, Field, Tracked
<1> HIDE DEF v
<1>2. OpeningLeft(v) => OpeningLeft(x)
  BY <1>1 DEF OpeningLeft, Tracked, None
<1>3. Mild(x, v) /\ Orderly(v)
  BY <1>1, <1>2, ClearedMild, MildKeeps
<1>4. Mild(x, FailOpeningWithFallback(v))
  BY <1>3, FailMild, MildTrans
<1>5. Mild(x, y) /\ Orderly(y)
  BY <1>4, FinalizeMild, MildRefl, MildKeeps
<1> HIDE DEF y
<1>6. Mild(x, ResetResponseGuards(y))
  BY <1>5, ResetGuardsMild, MildTrans
<1> QED BY <1>6 DEF ErrorEvent, v, y

\* Once the socket to OpenAI is closed nothing is owed.
LEMMA NoSocketMild ==
  ASSUME NEW x, Orderly(x), NEW y, IsSession(y),
         \A g \in (Tracked \ {"ws"}) \cup {"queued", "everAppended"} : y[g] = x[g],
         y.timers \subseteq x.timers,
         y.ws = "closed"
  PROVE  Mild(x, y)
<1>1. OpeningLeft(y) <=> OpeningLeft(x)
  BY DEF OpeningLeft, Tracked
<1>2. EndTimed(y)
  BY DEF EndTimed
<1>3. Orderly(y)
  BY <1>1, <1>2 DEF Orderly, Tracked
<1>4. OpeningTimed(y)
  BY DEF OpeningTimed
<1>5. Deaf(x) => Deaf(y)
  BY DEF Deaf, Tracked
<1> QED BY <1>3, <1>4, <1>5 DEF Mild, Keeps, Tracked

\* ws.on('close')
LEMMA ClosedMild ==
  ASSUME NEW x, Orderly(x)
  PROVE  Mild(x, SocketClosed(x))
<1> DEFINE v == [x EXCEPT !.ws = "closed", !.timers = {}, !.out = <<>>]
           y == ResetResponseGuards(v)
<1>1. /\ IsSession(v)
      /\ \A g \in (Tracked \ {"ws"}) \cup {"queued", "everAppended"} : v[g] = x[g]
      /\ v.timers = {}
      /\ v.ws = "closed"
  BY ZenonT(60) DEF Orderly, IsSession, Field, Tracked
<1> HIDE DEF v
<1>2. Mild(x, v) /\ Orderly(v)
  BY <1>1, NoSocketMild, MildKeeps
<1>3. Mild(x, y) /\ Orderly(y)
  BY <1>2, ResetGuardsMild, MildTrans, MildKeeps
<1> HIDE DEF y
<1>4. Mild(x, FailOpeningWithFallback(y))
  BY <1>3, FailMild, MildTrans
<1> QED BY <1>3, <1>4 DEF SocketClosed, v, y

\* endSession once the socket is open
LEMMA FlushAtEndMild ==
  ASSUME NEW x, Orderly(x), NEW sound, NEW recent
  PROVE  Mild(x, FlushAtEnd(x, sound, recent))
<1> DEFINE v == [x EXCEPT !.sessionReady = TRUE]
           flushed == FlushPendingInput(v, sound)
           committed == CommitInputAndCreateResponse(flushed, "session_end", recent)
           y == IF \/ ~flushed.useServerVad
                   \/ /\ ~flushed.responseComplete /\ ~flushed.responseInProgress
                      /\ flushed.everAppended
                THEN committed ELSE flushed
           z == [y EXCEPT !.ending = "waitResponse"]
<1>1. /\ IsSession(v)
      /\ \A g \in Tracked \cup {"queued", "everAppended", "timers"} : v[g] = x[g]
  BY DEF Orderly, IsSession, Field, Tracked
<1> HIDE DEF v
<1>2. Mild(x, v) /\ Orderly(v)
  BY <1>1, TrackedMild, MildKeeps
<1>3. Mild(x, flushed) /\ Orderly(flushed)
  BY <1>2, FlushMild, MildTrans, MildKeeps
<1> HIDE DEF flushed
<1>4. Mild(flushed, committed)
  BY <1>3, CommitMild
<1> HIDE DEF committed
<1>5. Mild(x, y) /\ Orderly(y)
  BY <1>3, <1>4, MildTrans, MildKeeps
<1> HIDE DEF y
<1>6. /\ IsSession(z)
      /\ \A g \in Tracked \cup {"queued", "everAppended", "timers"} : z[g] = y[g]
  BY <1>5 DEF Orderly, IsSession, Field, Tracked
<1> HIDE DEF z
<1>7. Mild(x, z)
  BY <1>5, <1>6, TrackedMild, MildTrans
<1> QED BY <1>7 DEF FlushAtEnd, z, y, committed, flushed, v

-----------------------------------------------------------------------------
(* Steps keep what is owed under its timers.                               *)

\* Nothing of the customer was taken in without a stream that can be closed.
Heard == Deaf(s) \/ s.closing \/ s.streamClosed \/ socket

\* A stream that has not started has no socket.
Unbound == ~s.smartfloStartReceived => ~socket

\* Together: what is owed.
Owed == Orderly(s) /\ OpeningTimed(s) /\ Heard /\ Unbound

\* The step keeps what the handler left.
LEMMA StepOwes ==
  ASSUME NEW y, Step(y), Orderly(y), OpeningTimed(y),
         Deaf(y) \/ y.closing \/ y.streamClosed \/ socket',
         ~y.smartfloStartReceived => ~socket'
  PROVE  Owed'
<1> DEFINE z == [y EXCEPT !.appendedNow = FALSE]
<1>1. s' = z
  BY DEF Step
<1>2. /\ IsSession(z)
      /\ \A g \in Tracked \cup {"queued", "everAppended", "timers"} : z[g] = y[g]
  BY DEF Orderly, IsSession, Field, Tracked
<1> HIDE DEF z
<1>3. Mild(y, z)
  BY <1>2, TrackedMild
<1>4. /\ Orderly(z) /\ OpeningTimed(z) /\ (Deaf(y) => Deaf(z))
      /\ z.closing = y.closing /\ z.streamClosed = y.streamClosed
      /\ z.smartfloStartReceived = y.smartfloStartReceived
  BY <1>3 DEF Mild, Keeps
<1>5. Orderly(s') /\ OpeningTimed(s')
  BY <1>1, <1>4
<1>6. Heard' /\ Unbound'
  BY <1>1, <1>4 DEF Heard, Unbound, Deaf
<1> QED BY <1>5, <1>6 DEF Owed

\* So does a mild handler.
LEMMA MildStep ==
  ASSUME Owed, NEW y, Step(y), Mild(s, y), socket' = socket
  PROVE  Owed'
<1>1. /\ Orderly(y) /\ OpeningTimed(y)
      /\ Deaf(y) \/ y.closing \/ y.streamClosed \/ socket'
      /\ ~y.smartfloStartReceived => ~socket'
  BY DEF Owed, Mild, Keeps, Heard, Unbound
<1> QED BY <1>1, StepOwes

\* Disarming timers of the opening leaves the session in order.
LEMMA DisarmOrderly ==
  ASSUME NEW x, Orderly(x), NEW ts,
         "hangup" \notin ts, "callEndMaxWait" \notin ts
  PROVE  LET y == Disarm(ts, x)
         IN /\ Orderly(y)
            /\ \A g \in Field \ {"timers"} : y[g] = x[g]
            /\ y.timers = x.timers \ ts
<1> DEFINE y == Disarm(ts, x)
<1>1. /\ IsSession(y)
      /\ \A g \in Field \ {"timers"} : y[g] = x[g]
      /\ y.timers = x.timers \ ts
  BY DEF Orderly, IsSession, Field, Disarm
<1> HIDE DEF y
<1>2. OpeningLeft(y) <=> OpeningLeft(x)
  BY <1>1 DEF OpeningLeft, Field
<1>3. EndTimed(y)
  BY <1>1 DEF Orderly, EndTimed, Field
<1>4. Orderly(y)
  BY <1>1, <1>2, <1>3 DEF Orderly, Field
<1> QED BY <1>1, <1>4 DEF y

\* What follows a record that differs from the session in fields the heard and
\* the bound do not read.
LEMMA SameOwes ==
  ASSUME Owed, NEW x, \A g \in {"queued", "everAppended", "callEndDetected", "closing",
                                "streamClosed", "smartfloStartReceived"} : x[g] = s[g],
         NEW y, Step(y), Mild(x, y), OpeningTimed(y), socket' = socket
  PROVE  Owed'
<1>1. Deaf(x) <=> Deaf(s)
  BY DEF Deaf
<1>2. /\ Orderly(y)
      /\ Deaf(y) \/ y.closing \/ y.streamClosed \/ socket'
      /\ ~y.smartfloStartReceived => ~socket'
  BY <1>1 DEF Owed, Mild, Keeps, Heard, Unbound
<1> QED BY <1>2, StepOwes

\* The stream's socket is bound.
LEMMA BindOwes ==
  ASSUME Safe(s), Owed, BindSocket
  PROVE  Owed'
<1> DEFINE y == EvaluateOpeningReadiness(s, TRUE)
<1>1. Step(y) /\ socket' = TRUE /\ s.smartfloStartReceived
  BY DEF BindSocket
<1>2. Mild(s, y) /\ OpeningTimed(y)
  BY EvaluateTimes DEF Safe, Owed
<1> HIDE DEF y
<1> QED BY <1>1, <1>2, StepOwes DEF Mild, Keeps

\* adoptPrewarmSession
LEMMA AdoptOwes ==
  ASSUME Safe(s), Owed, Adopt
  PROVE  Owed'
<1> DEFINE y == Disarm({"openingReadinessRetry"},
                  [s EXCEPT !.smartfloStartReceived = TRUE, !.readinessRetries = 0])
           z == IF y.ws = "open" /\ y.openAiSessionUpdated
                THEN IF y.openingGreetingComplete
                     THEN LookUpPlaybook(y) ELSE SendSessionUpdate(y)
                ELSE y
<1>1. PICK bound \in BOOLEAN : Step(EvaluateOpeningReadiness(z, bound)) /\ socket' = bound
  BY DEF Adopt
<1> DEFINE w == EvaluateOpeningReadiness(z, bound)
<1>2. /\ IsSession(y)
      /\ \A g \in Field \ {"smartfloStartReceived", "readinessRetries", "timers"} :
           y[g] = s[g]
      /\ y.smartfloStartReceived = TRUE
      /\ y.timers = s.timers \ {"openingReadinessRetry"}
  BY ZenonT(60) DEF Safe, IsSession, Field, Disarm
<1> HIDE DEF y
<1>3. /\ \A g \in Relevant : y[g] = s[g]
      /\ "openingTimeout" \in s.timers => "openingTimeout" \in y.timers
  BY <1>2 DEF Field, Relevant
<1>4. Safe(y)
  BY <1>2, <1>3, Quiet, PlainSafe
<1>5. OpeningLeft(y) <=> OpeningLeft(s)
  BY <1>2 DEF OpeningLeft, Field
<1>6. EndTimed(y)
  BY <1>2 DEF Owed, Orderly, EndTimed, Field
<1>7. Orderly(y)
  BY <1>2, <1>5, <1>6 DEF Owed, Orderly, Field
<1>8. Safe(z) /\ Mild(y, z) /\ Orderly(z)
  BY <1>4, <1>7, LookUpPlain, SessionUpdatePlain, PlainSafe, LookUpMild,
     SessionUpdateMild, MildRefl, MildKeeps
<1> HIDE DEF z
<1>9. Mild(z, w) /\ OpeningTimed(w)
  BY <1>8, EvaluateTimes DEF Safe
<1> HIDE DEF w
<1>10. Mild(y, w)
  BY <1>8, <1>9, MildTrans
<1>11. ~socket /\ ~s.closing
  BY DEF Adopt, Owed, Unbound
<1>12. Deaf(y) \/ y.streamClosed
  BY <1>2, <1>11 DEF Owed, Heard, Deaf, Field
<1>13. /\ Orderly(w) /\ w.smartfloStartReceived
       /\ Deaf(w) \/ w.closing \/ w.streamClosed \/ socket'
  BY <1>2, <1>10, <1>12 DEF Mild, Keeps
<1> QED BY <1>1, <1>9, <1>13, StepOwes DEF w

\* A packet of the customer comes over the socket.
LEMMA PacketOwes ==
  ASSUME Owed, NEW sound, Packet(sound)
  PROVE  Owed'
<1> DEFINE q == [s EXCEPT !.queued = TRUE]
<1>1. /\ Step(q) \/ Step(AppendInput(s, sound))
      /\ socket' = socket /\ socket
  BY DEF Packet
<1>2. Keeps(s, q) /\ Keeps(s, AppendInput(s, sound))
  BY QueueKeeps, AppendInputKeeps DEF Owed
<1> HIDE DEF q
<1>3. ASSUME NEW y, Step(y), Keeps(s, y)
      PROVE  Owed'
  BY <1>1, <1>3, StepOwes DEF Owed, Keeps, Unbound
<1> QED BY <1>1, <1>2, <1>3

\* The window that ignores the inbound audio ends.
LEMMA IgnoreOwes ==
  ASSUME Owed, IgnoreWindowEnds
  PROVE  Owed'
<1> DEFINE y == [s EXCEPT !.ignoringInbound = FALSE]
<1>1. /\ IsSession(y)
      /\ \A g \in Tracked \cup {"queued", "everAppended", "timers"} : y[g] = s[g]
  BY DEF Owed, Orderly, IsSession, Field, Tracked
<1>2. Step(y) /\ socket' = socket
  BY DEF IgnoreWindowEnds
<1> HIDE DEF y
<1>3. Mild(s, y)
  BY <1>1, TrackedMild DEF Owed
<1> QED BY <1>2, <1>3, MildStep

\* endSession: its own steps take the place of the timers.
LEMMA EndSessionOwes ==
  ASSUME Owed, NEW sound, NEW recent, EndSession(sound, recent)
  PROVE  Owed'
<1> DEFINE x == [s EXCEPT !.closing = TRUE, !.timers = {}, !.ending = "waitOpen"]
<1>1. /\ Step(x) \/ Step(FlushAtEnd(x, sound, recent))
      /\ socket' \in {socket, FALSE}
  BY DEF EndSession
<1>2. /\ IsSession(x)
      /\ \A g \in Tracked \ {"closing"} : x[g] = s[g]
      /\ x.closing = TRUE /\ x.timers = {}
  BY ZenonT(60) DEF Owed, Orderly, IsSession, Field, Tracked
<1> HIDE DEF x
<1>3. OpeningLeft(x) <=> OpeningLeft(s)
  BY <1>2 DEF OpeningLeft, Tracked
<1>4. EndTimed(x) /\ OpeningTimed(x)
  BY <1>2 DEF EndTimed, OpeningTimed
<1>5. Orderly(x)
  BY <1>2, <1>3, <1>4 DEF Owed, Orderly, Tracked
<1>6. Mild(x, x) /\ Mild(x, FlushAtEnd(x, sound, recent))
  BY <1>5, MildRefl, FlushAtEndMild
<1>7. ASSUME NEW y, Step(y), Mild(x, y)
      PROVE  Owed'
  <2>1. ~x.smartfloStartReceived => ~socket'
    BY <1>1, <1>2 DEF Owed, Unbound, Tracked
  <2>2. /\ Orderly(y) /\ OpeningTimed(y) /\ y.closing
        /\ ~y.smartfloStartReceived => ~socket'
    BY <1>2, <1>4, <1>7, <2>1 DEF Mild, Keeps
  <2> QED BY <1>7, <2>2, StepOwes
<1> QED BY <1>1, <1>6, <1>7

\* The socket to OpenAI fails or closes.
LEMMA SocketEndsOwes ==
  ASSUME Owed, NEW error, SocketEnds(error)
  PROVE  Owed'
<1> DEFINE x == [s EXCEPT !.ws = "closed"]
<1>1. /\ Step(SocketClosed(x)) \/ Step(SocketClosed(FailOpeningWithFallback(x)))
      /\ socket' = socket
  BY DEF SocketEnds
<1>2. /\ IsSession(x)
      /\ \A g \in (Tracked \ {"ws"}) \cup {"queued", "everAppended"} : x[g] = s[g]
      /\ x.timers = s.timers /\ x.ws = "closed"
  BY DEF Owed, Orderly, IsSession, Field, Tracked
<1> HIDE DEF x
<1>3. Mild(s, x) /\ Orderly(x)
  BY <1>2, NoSocketMild, MildKeeps DEF Owed
<1>4. Mild(s, FailOpeningWithFallback(x)) /\ Orderly(FailOpeningWithFallback(x))
  BY <1>3, FailMild, MildTrans, MildKeeps
<1>5. Mild(s, SocketClosed(x)) /\ Mild(s, SocketClosed(FailOpeningWithFallback(x)))
  BY <1>3, <1>4, ClosedMild, MildTrans
<1> QED BY <1>1, <1>5, MildStep

\* The readiness retry fires, and the readiness is evaluated.
LEMMA RetryFiresOwes ==
  ASSUME Safe(s), Owed, ReadinessRetryFires
  PROVE  Owed'
<1> DEFINE x == Disarm({"openingReadinessRetry"}, s)
           y == EvaluateOpeningReadiness(x, socket)
<1>1. Step(y) /\ socket' = socket
  BY DEF ReadinessRetryFires, Fires
<1>2. Orderly(x) /\ \A g \in Field \ {"timers"} : x[g] = s[g]
  BY DisarmOrderly DEF Owed
<1>3. Watched(x)
  BY DisarmPlain, PlainSafe DEF Safe
<1> HIDE DEF x
<1>4. Mild(x, y) /\ OpeningTimed(y)
  BY <1>2, <1>3, EvaluateTimes
<1> HIDE DEF y
<1> QED BY <1>1, <1>2, <1>4, SameOwes DEF Field

\* The instruction-ready timer fires: it is armed only while it is waited for, so
\* the readiness is evaluated.
LEMMA InstructionReadyOwes ==
  ASSUME Safe(s), Owed, NEW sound, InstructionReadyFires(sound)
  PROVE  Owed'
<1> DEFINE x == Disarm({"instructionReady"}, s)
           y == MarkOpenAiInstructionReady(x, socket)
           z == FlushPendingInputIfReady(y, sound)
<1>1. /\ IF x.openAiSessionUpdated \/ x.closing THEN Step(x) ELSE Step(z)
      /\ socket' = socket /\ "instructionReady" \in s.timers
  BY DEF InstructionReadyFires, Fires
<1>2. Orderly(x) /\ \A g \in Field \ {"timers"} : x[g] = s[g]
  BY DisarmOrderly DEF Owed
<1>3. Safe(x)
  BY DisarmPlain, PlainSafe
<1> HIDE DEF x
<1>4. ~x.openAiSessionUpdated
  BY <1>1, <1>2 DEF Owed, Orderly, Field
<1>5. Mild(x, y) /\ OpeningTimed(y)
  BY <1>2, <1>3, <1>4, MarkReadyTimes
<1> HIDE DEF y
<1>6. Mild(x, z) /\ OpeningTimed(z)
  BY <1>5, FlushIfReadyMild, MildTrans, MildKeeps DEF Mild, Keeps
<1> HIDE DEF z
<1>7. CASE x.closing
  BY <1>1, <1>2, <1>7, MildRefl, SameOwes DEF Field, OpeningTimed
<1>8. CASE ~x.closing
  BY <1>1, <1>2, <1>4, <1>6, <1>8, SameOwes DEF Field
<1> QED BY <1>7, <1>8

\* The opening timeout fires: the opening is over, or it fails.
LEMMA OpeningTimeoutOwes ==
  ASSUME Owed, OpeningTimeoutFires
  PROVE  Owed'
<1> DEFINE x == Disarm({"openingTimeout"}, s)
           y == FailOpeningWithFallback(x)
           stays == \/ x.closing \/ x.openingGreetingComplete
                    \/ x.openingState \in {"opening_done", "failed"}
<1>1. /\ IF stays THEN Step(x) ELSE Step(y)
      /\ socket' = socket
  BY DEF OpeningTimeoutFires, Fires
<1>2. Orderly(x) /\ \A g \in Field \ {"timers"} : x[g] = s[g]
  BY DisarmOrderly DEF Owed
<1> HIDE DEF x
<1>3. stays => OpeningTimed(x)
  BY <1>2 DEF OpeningTimed, Orderly, Unready
<1>4. Mild(x, y) /\ OpeningTimed(y)
  BY <1>2, FailMild DEF OpeningTimed
<1> HIDE DEF y
<1>5. Mild(x, x)
  BY <1>2, MildRefl
<1> QED BY <1>1, <1>2, <1>3, <1>4, <1>5, SameOwes DEF Field

\* The commit timer fires.
LEMMA CommitOwes ==
  ASSUME Owed, NEW recent, CommitFires(recent)
  PROVE  Owed'
<1> DEFINE x == Disarm({"commit"}, s)
           y == CommitInputAndCreateResponse(x, "customer_speech", recent)
<1>1. Step(y) /\ socket' = socket
  BY DEF CommitFires, Fires
<1>2. Mild(s, x) /\ Orderly(x)
  BY DisarmCommitMild, MildKeeps DEF Owed
<1> HIDE DEF x
<1>3. Mild(s, y)
  BY <1>2, CommitMild, MildTrans
<1> HIDE DEF y
<1> QED BY <1>1, <1>3, MildStep

\* executeCallEndClose: the timer that fires closes the stream, or the other one
\* is armed; a goodbye was heard over a socket, so there is a stream to close.
LEMMA CallEndOwes ==
  ASSUME Owed, NEW t, NEW closes, closes \in BOOLEAN,
         \/ t = "hangup" /\ closes = ~s.closing
         \/ t = "callEndMaxWait" /\ closes = (~s.closing /\ "hangup" \notin s.timers),
         ExecuteCallEndClose(t, closes)
  PROVE  Owed'
<1> DEFINE x == Disarm({t}, s)
           y == [x EXCEPT !.streamClosed = @ \/ (closes /\ socket)]
<1>1. Step(y) /\ socket' = (socket /\ ~closes)
  BY DEF ExecuteCallEndClose
<1>2. IsSession(x) /\ (\A g \in Field \ {"timers"} : x[g] = s[g]) /\ x.timers = s.timers \ {t}
  BY DEF Owed, Orderly, IsSession, Field, Disarm
<1> HIDE DEF x
<1>3. /\ IsSession(y)
      /\ \A g \in Field \ {"streamClosed"} : y[g] = x[g]
      /\ y.streamClosed = (x.streamClosed \/ (closes /\ socket))
  BY <1>2 DEF IsSession, Field
<1> HIDE DEF y
<1>4. /\ \A g \in Field \ {"timers", "streamClosed"} : y[g] = s[g]
      /\ y.timers = s.timers \ {t}
      /\ y.streamClosed <=> s.streamClosed \/ (closes /\ socket)
  BY <1>2, <1>3 DEF Field
<1>5. OpeningLeft(y) <=> OpeningLeft(s)
  BY <1>4 DEF OpeningLeft, Field
<1>6. EndTimed(y)
  <2> SUFFICES ASSUME s.callEndDetected, ~y.streamClosed, s.ws # "closed", ~s.closing
               PROVE  "hangup" \in y.timers \/ "callEndMaxWait" \in y.timers
    BY <1>4 DEF EndTimed, Field
  <2>1. ~s.streamClosed /\ socket /\ ~closes
    BY <1>4 DEF Owed, Heard, Deaf
  <2>2. t = "callEndMaxWait" /\ "hangup" \in s.timers
    BY <2>1
  <2> QED BY <1>4, <2>2
<1>7. Orderly(y)
  BY <1>3, <1>4, <1>5, <1>6 DEF Owed, Orderly, Field
<1>8. OpeningTimed(y)
  BY <1>4 DEF Owed, OpeningTimed, Field
<1>9. /\ Deaf(y) \/ y.closing \/ y.streamClosed \/ socket'
      /\ ~y.smartfloStartReceived => ~socket'
  BY <1>1, <1>4 DEF Owed, Heard, Unbound, Deaf, Field
<1> QED BY <1>1, <1>7, <1>8, <1>9, StepOwes

\* Every timer that fires leaves what is owed to another, or does it.
LEMMA TimersOwe ==
  ASSUME Safe(s), Owed, Timers
  PROVE  Owed'
<1>1. CASE HangupFires
  <2>1. ExecuteCallEndClose("hangup", ~s.closing)
    BY <1>1 DEF HangupFires
  <2>2. (~s.closing) \in BOOLEAN
    OBVIOUS
  <2> QED BY <2>1, <2>2, CallEndOwes
<1>2. CASE CallEndMaxWaitFires
  <2>1. ExecuteCallEndClose("callEndMaxWait", ~s.closing /\ "hangup" \notin s.timers)
    BY <1>2 DEF CallEndMaxWaitFires
  <2>2. (~s.closing /\ "hangup" \notin s.timers) \in BOOLEAN
    OBVIOUS
  <2> QED BY <2>1, <2>2, CallEndOwes
<1>3. CASE PlaybookResolved
  BY <1>3, SessionUpdateMild, MildStep DEF PlaybookResolved, Owed
<1> QED BY <1>1, <1>2, <1>3, RetryFiresOwes, InstructionReadyOwes,
           OpeningTimeoutOwes, CommitOwes DEF Timers

\* The socket to OpenAI opens: nothing was announced on it before.
LEMMA SocketOpensOwes ==
  ASSUME Owed, SocketOpens
  PROVE  Owed'
<1> DEFINE x == [s EXCEPT !.ws = "open"]
<1>1. /\ Step(SendSessionUpdate(x)) \/ Step(LookUpPlaybook(x))
      /\ socket' = socket /\ s.ws = "connecting"
  BY DEF SocketOpens
<1>2. /\ IsSession(x)
      /\ \A g \in Field \ {"ws"} : x[g] = s[g]
      /\ x.ws = "open"
  BY DEF Owed, Orderly, IsSession, Field
<1> HIDE DEF x
<1>3. OpeningLeft(x) <=> OpeningLeft(s)
  BY <1>2 DEF OpeningLeft, Field
<1>4. EndTimed(x)
  BY <1>1, <1>2 DEF Owed, Orderly, EndTimed, Field
<1>5. Orderly(x)
  BY <1>2, <1>3, <1>4 DEF Owed, Orderly, Field
<1>6. OpeningTimed(x)
  BY <1>1, <1>2 DEF Owed, Orderly, OpeningTimed, Field
<1>7. Mild(x, SendSessionUpdate(x)) /\ Mild(x, LookUpPlaybook(x))
  BY <1>5, SessionUpdateMild, LookUpMild
<1>8. ASSUME NEW y, Step(y), Mild(x, y)
      PROVE  Owed'
  <2>1. OpeningTimed(y)
    BY <1>6, <1>8 DEF Mild, Keeps
  <2> QED BY <1>1, <1>2, <1>8, <2>1, SameOwes DEF Field
<1> QED BY <1>1, <1>7, <1>8

\* OpenAI takes a frame.
LEMMA TakesOwes ==
  ASSUME Safe(s), Owed, OpenAiTakes
  PROVE  Owed'
<1> DEFINE frame == Head(s.out)
           x == [s EXCEPT !.out = Tail(@)]
           id == openai.made + 1
           m == MarkOpenAiInstructionReady(x, socket)
<1>1. s.out # <<>> /\ socket' = socket
  BY DEF OpenAiTakes, Receives
<1>2. Safe(x)
  BY <1>1, TakenPlain, PlainSafe
<1>3. /\ IsSession(x)
      /\ \A g \in Tracked \cup {"queued", "everAppended", "timers"} : x[g] = s[g]
  BY DEF Owed, Orderly, IsSession, Field, Tracked
<1>4. \/ \E sound \in Sound : Step(FlushPendingInputIfReady(m, sound))
      \/ Step(ResponseCreated(x, id)) \/ Step(ErrorEvent(x))
      \/ Step(ResponseCancelled(x)) \/ Step(ResponseDone(x))
  BY DEF OpenAiTakes, Receives
<1> HIDE DEF x
<1>5. Mild(s, x) /\ Orderly(x)
  BY <1>3, TrackedMild, MildKeeps DEF Owed
<1>6. Mild(s, m) /\ Orderly(m)
  BY <1>2, <1>5, MarkReadyTimes, MildTrans, MildKeeps
<1> HIDE DEF m, id
<1>7. \A sound : Mild(s, FlushPendingInputIfReady(m, sound))
  BY <1>6, FlushIfReadyMild, MildTrans
<1>8. /\ Mild(s, ResponseCreated(x, id)) /\ Mild(s, ErrorEvent(x))
      /\ Mild(s, ResponseCancelled(x)) /\ Mild(s, ResponseDone(x))
  BY <1>5, ResponseCreatedMild, ErrorMild, CancelledMild, ResponseDoneMild, MildTrans
<1> QED BY <1>1, <1>4, <1>7, <1>8, MildStep

\* OpenAI's frames; a transcript is of a customer who was heard.
LEMMA OpenAiOwes ==
  ASSUME Safe(s), Owed, OpenAi
  PROVE  Owed'
<1>1. Orderly(s)
  BY DEF Owed
<1>2. CASE OpenAiCreatesSession
  <2> DEFINE y == SessionCreated(s, socket)
  <2>1. Step(y) /\ s.ws = "open" /\ socket' = socket
    BY <1>2 DEF OpenAiCreatesSession, Receives
  <2>2. Mild(s, y)
    BY <1>1, <2>1, CreatedTimes
  <2> HIDE DEF y
  <2> QED BY <2>1, <2>2, MildStep
<1>3. CASE OpenAiVadResponds
  BY <1>1, <1>3, ResponseCreatedMild, MildStep DEF OpenAiVadResponds, Receives
<1>4. CASE OpenAiTranscribes
  <2>1. PICK echo, bye, recent \in BOOLEAN : Step(HearTranscript(s, echo, bye, recent))
    BY <1>4 DEF OpenAiTranscribes, Receives
  <2> DEFINE y == HearTranscript(s, echo, bye, recent)
  <2>2. Keeps(s, y)
    BY <1>1, TranscriptKeeps
  <2>3. s.everAppended /\ socket' = socket
    BY <1>4 DEF OpenAiTranscribes, Receives
  <2> HIDE DEF y
  <2>4. /\ Orderly(y) /\ OpeningTimed(y)
        /\ y.closing \/ y.streamClosed \/ socket'
        /\ ~y.smartfloStartReceived => ~socket'
    BY <2>2, <2>3 DEF Owed, Keeps, Heard, Deaf, Unbound
  <2> QED BY <2>1, <2>4, StepOwes DEF y
<1>5. CASE OpenAiSpeaks
  BY <1>1, <1>5, DeltaMild, MildStep DEF OpenAiSpeaks, Receives
<1>6. CASE OpenAiFinishes
  BY <1>1, <1>6, ResponseDoneMild, MildStep DEF OpenAiFinishes, Receives
<1>7. CASE OpenAiFails
  BY <1>1, <1>7, ErrorMild, MildStep DEF OpenAiFails, Receives
<1> QED BY <1>2, <1>3, <1>4, <1>5, <1>6, <1>7, SocketOpensOwes, TakesOwes DEF OpenAi

\* The deleted session owes nothing.
LEMMA DeletedOwes ==
  ASSUME EndDeletes
  PROVE  Owed'
<1> DEFINE x == NewSession(FALSE, FALSE, FALSE, TRUE)
           y == [x EXCEPT !.ws = "closed", !.closing = TRUE, !.ending = "gone"]
<1>1. s' = y
  BY DEF EndDeletes
<1>2. /\ IsSession(x)
      /\ x.openingGreetingComplete = TRUE /\ x.openingState = "disabled"
      /\ x.openAiSessionUpdated = FALSE /\ x.smartfloStartReceived = TRUE
  BY DEF NewSession, IsSession, Field
<1> HIDE DEF x
<1>3. /\ IsSession(y)
      /\ y.openingGreetingComplete = TRUE /\ y.openingState = "disabled"
      /\ y.openAiSessionUpdated = FALSE /\ y.smartfloStartReceived = TRUE
      /\ y.ws = "closed" /\ y.closing = TRUE
  BY <1>2 DEF IsSession, Field
<1> HIDE DEF y
<1>4. Orderly(y) /\ OpeningTimed(y)
  BY <1>3 DEF Orderly, EndTimed, OpeningTimed, Unready
<1>5. Orderly(s') /\ OpeningTimed(s')
  BY <1>1, <1>4
<1>6. Heard' /\ Unbound'
  BY <1>1, <1>3 DEF Heard, Unbound
<1> QED BY <1>5, <1>6 DEF Owed

\* A new session owes nothing yet.
LEMMA InitOwes ==
  ASSUME Init
  PROVE  Owed
<1>1. PICK speakFirst \in BOOLEAN, started \in BOOLEAN, vad \in Vads, fallback \in Fallbacks :
        s = NewSession(speakFirst, vad, fallback, started)
  BY DEF Init
<1> DEFINE x == NewSession(speakFirst, vad, fallback, started)
<1>2. /\ IsSession(x)
      /\ x.openingState = IF speakFirst THEN "waiting_for_openai_ready" ELSE "disabled"
      /\ x.openingGreetingComplete = ~speakFirst
      /\ x.aiSpeakFirstEnabled = speakFirst
      /\ x.openingGreetingPending = FALSE /\ x.greetingActuallySent = FALSE
      /\ x.openingIsCurrentResponse = FALSE /\ x.openingAudioDeltaReceived = FALSE
      /\ x.authorizedSource = None /\ x.activeSource = None
      /\ x.openAiSessionUpdated = FALSE /\ x.openAiSessionCreated = FALSE
      /\ x.queued = FALSE /\ x.everAppended = FALSE /\ x.callEndDetected = FALSE
  BY DEF NewSession, IsSession, Field
<1> HIDE DEF x
<1>3. ~OpeningLeft(x)
  BY <1>2 DEF OpeningLeft, None
<1>4. EndTimed(x) /\ OpeningTimed(x) /\ Deaf(x)
  BY <1>2 DEF EndTimed, OpeningTimed, Deaf
<1>5. Orderly(x)
  BY <1>2, <1>3, <1>4 DEF Orderly, Unready
<1>6. ~socket
  BY DEF Init
<1> QED BY <1>1, <1>4, <1>5, <1>6 DEF Owed, Heard, Unbound, x

\* Every step keeps what is owed.
LEMMA NextOwes ==
  ASSUME Safe(s), Owed, [Next]_vars
  PROVE  Owed'
<1>1. CASE Provider
  BY <1>1, BindOwes, AdoptOwes, PacketOwes, IgnoreOwes, EndSessionOwes,
     SocketEndsOwes DEF Provider
<1>2. CASE \E sound \in Sound, recent \in BOOLEAN : EndFlushes(sound, recent)
  BY <1>2, FlushAtEndMild, MildStep DEF EndFlushes, Owed
<1>3. CASE Ending
  BY <1>2, <1>3, DeletedOwes DEF Ending
<1>4. CASE UNCHANGED vars
  BY <1>4 DEF vars, Owed, Heard, Unbound, Deaf
<1> QED BY <1>1, <1>3, <1>4, TimersOwe, OpenAiOwes DEF Next

\* What is owed is kept, for every value of the flags and the bounds.
LEMMA OwedAlways == Spec => []Owed
<1>1. Init => Owed
  BY InitOwes
<1>2. Safe(s) /\ Owed /\ [Next]_vars => Owed'
  BY NextOwes
<1> QED BY <1>1, <1>2, SessionsAreSafe, PTL DEF Spec

\* GoodbyeEndsCall has its timer: from the goodbye on the hang-up or the maximum
\* wait is armed, until the stream is closed, the session is ending or its socket
\* has cleared the timers.
GoodbyeIsTimed ==
  s.callEndDetected =>
    \/ s.streamClosed \/ s.ws = "closed" \/ s.closing
    \/ "hangup" \in s.timers \/ "callEndMaxWait" \in s.timers

\* OpeningSettles has its timer: once OpenAI has announced the session of a
\* started stream, the opening timeout, the readiness retry or the stand-in for
\* session.updated is armed, until the greeting is done or has failed.
OpeningIsTimed ==
  (s.smartfloStartReceived /\ s.ws = "open" /\ s.openAiSessionCreated) =>
    \/ s.openingGreetingComplete \/ s.openingState = "failed" \/ s.closing
    \/ "openingTimeout" \in s.timers \/ "openingReadinessRetry" \in s.timers
    \/ "instructionReady" \in s.timers

\* executeCallEndClose is never left to chance: neither the last answer that
\* takes the place of the maximum wait, nor a hang-up timer that finds no socket,
\* nor a refused request leaves a goodbye without a timer that closes the stream.
THEOREM GoodbyesAreTimed == Spec => []GoodbyeIsTimed
<1>1. Owed => GoodbyeIsTimed
  BY DEF Owed, Orderly, EndTimed, GoodbyeIsTimed
<1> QED BY <1>1, OwedAlways, PTL

\* evaluateOpeningReadiness and the handlers that disarm its timers never leave
\* the opening of a started stream without one: every greeting that is waited for,
\* refused, cancelled or retried is on its way to an end.
THEOREM OpeningsAreTimed == Spec => []OpeningIsTimed
<1>1. Owed => OpeningIsTimed
  BY DEF Owed, OpeningTimed, OpeningIsTimed
<1> QED BY <1>1, OwedAlways, PTL

=============================================================================
