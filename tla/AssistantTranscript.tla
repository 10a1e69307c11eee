------------------------- MODULE AssistantTranscript -------------------------
(***************************************************************************)
(* What OpenAiRealtimeProvider knows of the assistant's words: the text of *)
(* a response as it is generated, cut off when the customer interrupts it, *)
(* written to the live transcript and quoted to OpenAI in the next answer. *)
(*                                                                         *)
(* A response is a number and has the number as its conversation item; its *)
(* text is the set of its deltas <<response, k>>, and no text is the empty *)
(* set.  A handler has no await and is one step.  OpenAI (external) takes  *)
(* the provider's frames in order, runs one response at a time, announces  *)
(* its item, sends the deltas of one it has not truncated, and the end of  *)
(* the item's transcript, with the whole text, before the response's end.  *)
(* The deltas that VoiceTranscriptService keeps are read nowhere.          *)
(***************************************************************************)
EXTENDS Naturals, Sequences

CONSTANTS
  MaxResponses,   \* bound: responses of OpenAI
  Deltas,         \* bound: deltas of one response
  MaxOut          \* bound: frames on their way to OpenAI

\* The bounds are numbers.
BoundsAssumption == MaxResponses \in Nat /\ Deltas \in Nat

VARIABLES
  s,          \* the fields of OpenAiRealtimeSession that matter here
  out,        \* frames on their way to OpenAI
  openai,     \* OpenAI: the response it runs, and how far it is
  segments,   \* the assistant's segments of the live transcript
  kept,       \* response -> its text when it was cut off, or when it was whole
  barged,     \* responses the customer interrupted
  told,       \* what the last commit said of an interruption, and what was kept by then
  acked,      \* the acknowledgement of the customer's goodbye was asked for
  strayed     \* a response may have started that no turn of the customer asked for

vars == <<s, out, openai, segments, kept, barged, told, acked, strayed>>
history == <<kept, barged, told, acked, strayed>>

Response == 1..MaxResponses
Said(r) == {r} \X (1..Deltas)
Heard(r) == IF r = openai.active THEN {r} \X (1..openai.said) ELSE {}
NotTold == [text |-> {}, after |-> 0, kept |-> {}]

Init ==
  /\ s = [item |-> 0, buffer |-> {}, lastText |-> {},
          interrupted |-> 0, truncateSentFor |-> 0, committed |-> FALSE,
          responseId |-> 0, cancelSentFor |-> 0, wasInterrupted |-> FALSE,
          inProgress |-> FALSE, requested |-> FALSE, pending |-> FALSE,
          bargedIn |-> FALSE, confirmed |-> FALSE, awaiting |-> FALSE]
  /\ out = <<>>
  /\ openai = [active |-> 0, made |-> 0, announced |-> FALSE, said |-> 0,
               truncated |-> FALSE, done |-> FALSE]
  /\ segments = <<>>
  /\ kept = [r \in Response |-> {}] /\ barged = {}
  /\ told = NotTold /\ acked = FALSE /\ strayed = FALSE

-----------------------------------------------------------------------------
(* The provider's helpers, from the session to the next one.               *)

Active(x) == x.inProgress \/ x.requested

ResolveInterruptedAssistantText(x) ==
  IF x.buffer # {} THEN x.buffer ELSE x.lastText

SetAwaitingCustomerInput(x) ==
  IF x.awaiting THEN x
  ELSE [x EXCEPT !.awaiting = TRUE, !.confirmed = FALSE, !.bargedIn = FALSE]

ConfirmCustomerTurn(x) == [x EXCEPT !.confirmed = TRUE, !.awaiting = FALSE]

\* An item is truncated once.
Truncates(x) == x.item # 0 /\ x.truncateSentFor # x.item

\* Mutant: the text is not kept.
TruncateForgets(x) ==
  [x EXCEPT !.truncateSentFor = x.item, !.interrupted = x.item]

\* What was said of the item becomes the last text.
TruncateInterruptedItem(x) ==
  [x EXCEPT !.truncateSentFor = x.item, !.interrupted = x.item,
            !.lastText = ResolveInterruptedAssistantText(x)]

ShouldCancelResponse(x) ==
  /\ x.inProgress
  /\ x.responseId = 0 \/ x.cancelSentFor # x.responseId

CancelInterruptedResponse(x) ==
  [x EXCEPT !.cancelSentFor = x.responseId, !.wasInterrupted = TRUE]

ResetResponseGuards(x) == [x EXCEPT !.requested = FALSE, !.inProgress = FALSE]

SendResponseCreate(x) ==
  [x EXCEPT !.requested = TRUE, !.pending = TRUE, !.bargedIn = FALSE]

Send(frames) == out' = out \o frames /\ Len(out') <= MaxOut

-----------------------------------------------------------------------------
(* The customer, and the provider's requests.                              *)

\* appendInputAudio: enough speech while the assistant speaks.
BargeIn ==
  LET frames == (IF Truncates(s) THEN <<[type |-> "truncate", item |-> s.item]>> ELSE <<>>)
                \o (IF ShouldCancelResponse(s) THEN <<[type |-> "cancel"]>> ELSE <<>>)
      x == IF Truncates(s) THEN TruncateInterruptedItem(s) ELSE s
      y == IF ShouldCancelResponse(s) THEN CancelInterruptedResponse(x) ELSE x
  IN /\ s.inProgress /\ ~s.bargedIn
     /\ Send(frames)
     /\ s' = ConfirmCustomerTurn([y EXCEPT !.bargedIn = TRUE])
     /\ kept' = IF Truncates(s) THEN [kept EXCEPT ![s.item] = Heard(s.item)]
                ELSE kept
     /\ barged' = barged \cup {s.responseId}
     /\ UNCHANGED <<openai, segments, told, acked, strayed>>

\* Speech or a transcript opens the customer's turn.
CustomerTurn ==
  /\ ~s.confirmed /\ (Active(s) => s.bargedIn)
  /\ s' = ConfirmCustomerTurn(s)
  /\ UNCHANGED <<out, openai, segments, history>>

\* The instructions of a turn quote the assistant after an interruption.
TurnInstructions ==
  IF ~s.wasInterrupted THEN NotTold
  ELSE [text |-> ResolveInterruptedAssistantText(s), after |-> openai.made,
        kept |-> IF openai.made = 0 THEN {} ELSE kept[openai.made]]

\* commitInputAndCreateResponse, when the customer's speech allows it.
Commit ==
  /\ ~Active(s) /\ s.confirmed
  /\ told' = TurnInstructions
  /\ s' = SendResponseCreate([s EXCEPT !.wasInterrupted = FALSE])
  /\ Send(<<[type |-> "create"]>>)
  /\ UNCHANGED <<openai, segments, kept, barged, acked, strayed>>

\* The greeting, and the acknowledgement of a goodbye.
AskToSpeak ==
  /\ ~Active(s) /\ ~acked
  /\ acked' = (openai.made > 0) /\ strayed' = (strayed \/ acked')
  /\ s' = SendResponseCreate(s)
  /\ Send(<<[type |-> "create"]>>)
  /\ UNCHANGED <<openai, segments, kept, barged, told>>

-----------------------------------------------------------------------------
(* Events of OpenAI, and their handlers.                                   *)

\* response.created: an unauthorized response leaves the session as it is, and
\* is cancelled.
Authorized == s.pending \/ s.confirmed

\* Mutant: the interrupted transcript of one response counts for the next.
CreatedKeepsCommitted(r) ==
  [s EXCEPT !.pending = FALSE, !.inProgress = TRUE,
            !.buffer = {}, !.item = 0, !.interrupted = 0,
            !.truncateSentFor = 0, !.responseId = r]

ResponseCreated(r) ==
  [s EXCEPT !.pending = FALSE, !.inProgress = TRUE,
            !.buffer = {}, !.item = 0, !.interrupted = 0,
            !.truncateSentFor = 0, !.committed = FALSE, !.responseId = r]

Starts(frames) ==
  LET r == openai.made + 1
  IN /\ openai.active = 0 /\ r \in Response
     /\ openai' = [active |-> r, made |-> r, announced |-> FALSE, said |-> 0,
                   truncated |-> FALSE, done |-> FALSE]
     /\ s' = IF Authorized THEN ResponseCreated(r) ELSE s
     /\ out' = frames \o (IF Authorized THEN <<>> ELSE <<[type |-> "cancel"]>>)
     /\ Len(out') <= MaxOut

\* In server_vad mode OpenAI may start a response of its own.
VadResponds ==
  /\ Starts(out)
  /\ strayed' = TRUE
  /\ UNCHANGED <<segments, kept, barged, told, acked>>

\* response.output_item.added
ItemAdded ==
  /\ openai.active # 0 /\ ~openai.announced
  /\ openai' = [openai EXCEPT !.announced = TRUE]
  /\ s' = [s EXCEPT !.item = openai.active]
  /\ UNCHANGED <<out, segments, history>>

Speaking == openai.announced /\ ~openai.done

TranscriptDelta ==
  /\ Speaking /\ ~openai.truncated /\ openai.said < Deltas
  /\ openai' = [openai EXCEPT !.said = @ + 1]
  /\ s' = [s EXCEPT !.buffer = @ \cup {<<openai.active, openai.said + 1>>}]
  /\ UNCHANGED <<out, segments, history>>

\* handleRealtimeCompleted: a blank text is not recorded.
Record(item, text) ==
  IF text = {} THEN segments
  ELSE Append(segments, [item |-> item, text |-> text, of |-> openai.active])

\* The transcript of an interrupted item: what had been said of it, once.
DoneAfterInterrupt ==
  /\ s.interrupted = openai.active
  /\ s' = [s EXCEPT !.buffer = {},
                    !.committed = @ \/ ResolveInterruptedAssistantText(s) # {}]
  /\ segments' = IF s.committed THEN segments
                 ELSE Record(s.interrupted, ResolveInterruptedAssistantText(s))
  /\ UNCHANGED kept

\* The text of the event, or else what the deltas brought.
DoneText == IF Heard(openai.active) # {} THEN Heard(openai.active) ELSE s.buffer

DoneWhole ==
  /\ s.interrupted # openai.active
  /\ s' = [s EXCEPT !.lastText = IF DoneText = {} THEN @ ELSE DoneText,
                    !.buffer = {}, !.item = 0]
  /\ segments' = Record(s.item, DoneText)
  /\ kept' = [kept EXCEPT ![openai.active] = Heard(openai.active)]

\* response.output_audio_transcript.done
TranscriptDone ==
  /\ Speaking
  /\ openai' = [openai EXCEPT !.done = TRUE]
  /\ DoneAfterInterrupt \/ DoneWhole
  /\ UNCHANGED <<out, barged, told, acked, strayed>>

\* Mutant: whichever item it is.
TruncatedWhichever(item) == [s EXCEPT !.buffer = {}]

\* conversation.item.truncated: the text of the interrupted item has been kept.
ItemTruncated(item) ==
  IF item = s.interrupted THEN [s EXCEPT !.buffer = {}] ELSE s

\* The response has ended; by whichever event.
ResponseDone ==
  SetAwaitingCustomerInput(
    [s EXCEPT !.inProgress = FALSE, !.requested = FALSE,
              !.responseId = 0, !.cancelSentFor = 0])

ResponseCancelled == [ResetResponseGuards(s) EXCEPT !.responseId = 0]

Quiet == openai.active # 0 /\ (openai.announced => openai.done)

ResponseEnds ==
  /\ Quiet
  /\ openai' = [openai EXCEPT !.active = 0]
  /\ s' = ResponseDone
  /\ UNCHANGED <<out, segments, history>>

\* OpenAI takes a frame and answers it; any request may be refused.
OpenAiTakes ==
  LET frame == Head(out)
  IN /\ out # <<>>
     /\ \/ /\ frame.type = "create" /\ Starts(Tail(out))
           /\ UNCHANGED <<segments, history>>
        \/ /\ frame.type = "truncate"
           /\ openai' = [openai EXCEPT !.truncated = @ \/ openai.active = frame.item]
           /\ s' = ItemTruncated(frame.item)
           /\ out' = Tail(out)
           /\ UNCHANGED <<segments, history>>
        \/ /\ frame.type = "cancel" /\ Quiet
           /\ openai' = [openai EXCEPT !.active = 0]
           /\ s' \in {ResponseDone, ResponseCancelled}
           /\ out' = Tail(out)
           /\ UNCHANGED <<segments, history>>
        \/ /\ s' = ResetResponseGuards(s)
           /\ out' = Tail(out) /\ strayed' = TRUE
           /\ UNCHANGED <<openai, segments, kept, barged, told, acked>>

Next ==
  \/ BargeIn \/ CustomerTurn \/ Commit \/ AskToSpeak
  \/ VadResponds \/ ItemAdded \/ TranscriptDelta \/ TranscriptDone
  \/ ResponseEnds \/ OpenAiTakes

Spec == Init /\ [][Next]_vars

-----------------------------------------------------------------------------

\* A response whose transcript has ended is recorded once, under its own item
\* and with its own words: all of them, or, when the customer cut it off, at
\* least those that had been received by then.  (Of a response that was cut off
\* before its first word the code records the words of the one before.)
AnswersRecorded ==
  \A r \in 1..openai.made :
    (kept[r] # {} /\ (r = openai.active => openai.done)) =>
      \E i \in DOMAIN segments :
        /\ segments[i].of = r /\ segments[i].item = r
        /\ kept[r] \subseteq segments[i].text /\ segments[i].text \subseteq Said(r)
        /\ \A j \in DOMAIN segments : segments[j].of = r => j = i

\* As long as every response answers a turn of the customer, OpenAI is told that
\* the last answer was cut off only when it was, and the words it is told are of
\* that answer, with all that had been received when it was cut off.
CutIsTold ==
  (told # NotTold /\ ~strayed) =>
    /\ told.after \in barged
    /\ told.kept # {} =>
         told.kept \subseteq told.text /\ told.text \subseteq Said(told.after)

=============================================================================
