---------------------------- MODULE OutboundAudio ----------------------------
(***************************************************************************)
(* The assistant's voice on its way from OpenAI to the caller              *)
(* (runtime/openai-realtime.provider.ts, audio/pcm-resampler.ts).          *)
(*                                                                         *)
(* OpenAI sends a response as deltas of 24 kHz samples, of any length.     *)
(* The session joins Ratio of them into one telephony sample, collects     *)
(* those in outboundMulawBuffer and sends frames of Chunk of them; what is *)
(* left at the end of the audio is padded with silence.  A delta that ends *)
(* in the middle of a group leaves its samples in the downsampler.  The    *)
(* caller may talk into the response, OpenAI may report an error in the    *)
(* middle of it, and a response the session did not ask for is cancelled,  *)
(* but heard until OpenAI has stopped it.                                  *)
(*                                                                         *)
(* A sample is <<response, number>>; Silence is a sample of padding.  A    *)
(* telephony sample is the sequence of samples it is the mean of; encoding *)
(* and gain keep one sample per sample and are left out.                   *)
(***************************************************************************)
EXTENDS Integers, Sequences

CONSTANTS
  Ratio,         \* input samples per telephony sample: 24000 / 8000
  Chunk,         \* telephony samples in a frame: outboundChunkBytes
  MaxResponses,  \* responses of one call
  MaxSamples     \* samples of one response

OutboundAssumption ==
  /\ Ratio \in Nat \ {0, 1} /\ Chunk \in Nat \ {0}
  /\ MaxResponses \in Nat /\ MaxSamples \in Nat

VARIABLES
  pcm,        \* outputAudioFormat: pcm, or g711_ulaw that is passed on as it is
  response,   \* OpenAI: number of the latest response
  generated,  \* OpenAI: samples of it that have been sent
  phase,      \* OpenAI: "none", "speaking", "audio_done" or "done"
  inProgress, \* responseInProgress
  cancelSent, \* cancelSentForResponseId names the current response
  remainder,  \* Pcm16StreamDownsampler.remainder
  buffer,     \* outboundMulawBuffer
  sent,       \* what the frames sent since the response began hold
  intact,     \* nothing has cut this response short
  closed      \* the session has ended

vars == <<pcm, response, generated, phase, inProgress, cancelSent, remainder,
          buffer, sent, intact, closed>>

Silence == <<0, 0>>

Init ==
  /\ pcm \in BOOLEAN
  /\ response = 0 /\ generated = 0 /\ phase = "none"
  /\ inProgress = FALSE /\ cancelSent = FALSE
  /\ remainder = <<>> /\ buffer = <<>> /\ sent = <<>>
  /\ intact = TRUE /\ closed = FALSE

-----------------------------------------------------------------------------
(* The pipeline: each operator maps a record of remainder, buffer and sent *)
(* to the next.                                                            *)

Pipe == [remainder |-> remainder, buffer |-> buffer, sent |-> sent]

\* push: the complete groups of the remainder and the new samples.
Push(p, samples) ==
  LET all  == p.remainder \o samples
      full == Len(all) \div Ratio
  IN [p EXCEPT !.remainder = SubSeq(all, full * Ratio + 1, Len(all)),
               !.buffer = @ \o [g \in 1..full |->
                                  SubSeq(all, (g - 1) * Ratio + 1, g * Ratio)]]

\* Variant: what does not fill a group is dropped.
FlushDropsPartGroup(p) == [p EXCEPT !.remainder = <<>>]

\* flush: the remainder, padded to a group, is pushed, and push puts the
\* remainder in front of it once more; what then remains is dropped.
FlushOutboundPcmRemainder(p) ==
  LET missing == Ratio - Len(p.remainder)
      pushed  == Push(p, p.remainder \o [i \in 1..missing |-> Silence])
  IN IF p.remainder = <<>> THEN p ELSE [pushed EXCEPT !.remainder = <<>>]

\* flushOutboundMulaw: frames of Chunk are sent as long as the buffer fills one.
FlushOutboundMulaw(p) ==
  LET full == Len(p.buffer) - (Len(p.buffer) % Chunk)
  IN [p EXCEPT !.buffer = SubSeq(p.buffer, full + 1, Len(p.buffer)),
               !.sent = @ \o SubSeq(p.buffer, 1, full)]

\* flushRemainingOutbound: the last frame is filled up with silence.
FlushRemainingOutbound(p) ==
  LET missing == (Chunk - (Len(p.buffer) % Chunk)) % Chunk
  IN FlushOutboundMulaw([p EXCEPT !.buffer =
       @ \o [i \in 1..missing |-> <<Silence>>]])

FlushAll(p) == FlushRemainingOutbound(FlushOutboundPcmRemainder(p))

Empty(p) == [p EXCEPT !.remainder = <<>>, !.buffer = <<>>]

Becomes(p) ==
  /\ remainder' = p.remainder /\ buffer' = p.buffer /\ sent' = p.sent

-----------------------------------------------------------------------------
(* handleServerMessage.                                                    *)

\* response.created.  One that the session asked for, or a customer's turn
\* allows, starts with empty buffers; any other is cancelled and left alone.
ResponseCreated(authorized) ==
  /\ ~closed /\ phase \in {"none", "done"} /\ response < MaxResponses
  /\ response' = response + 1 /\ generated' = 0 /\ phase' = "speaking"
  /\ intact' = TRUE
  /\ Becomes([(IF authorized THEN Empty(Pipe) ELSE Pipe) EXCEPT !.sent = <<>>])
  /\ inProgress' = (authorized \/ inProgress)
  /\ cancelSent' = (cancelSent /\ ~authorized)
  /\ UNCHANGED <<pcm, closed>>

\* response.output_audio.delta: whatever response it is of, it is passed on.
OutputAudioDelta(n) ==
  LET samples == [i \in 1..n |-> <<response, generated + i>>]
  IN /\ ~closed /\ phase = "speaking" /\ generated + n <= MaxSamples
     /\ generated' = generated + n
     /\ Becomes(FlushOutboundMulaw(
          IF pcm THEN Push(Pipe, samples)
          ELSE [Pipe EXCEPT !.buffer = @ \o [i \in 1..n |-> <<samples[i]>>]]))
     /\ UNCHANGED <<pcm, response, phase, inProgress, cancelSent, intact, closed>>

\* response.output_audio.done; another item of the response may follow.
OutputAudioDone ==
  /\ ~closed /\ phase = "speaking"
  /\ phase' \in {"speaking", "audio_done"}
  /\ Becomes(FlushAll(Pipe))
  /\ UNCHANGED <<pcm, response, generated, inProgress, cancelSent, intact, closed>>

\* response.done, of a response that was completed or cancelled.
ResponseDone ==
  /\ ~closed /\ phase \in {"speaking", "audio_done"}
  /\ phase' = "done"
  /\ inProgress' = FALSE /\ cancelSent' = FALSE
  /\ Becomes(FlushAll(Pipe))
  /\ UNCHANGED <<pcm, response, generated, intact, closed>>

\* resetResponseGuards: on error, which need not be about this response and
\* does not end it, and on response.cancelled.
ResetResponseGuards ==
  /\ ~closed
  /\ inProgress' = FALSE
  /\ Becomes(Empty(Pipe))
  /\ intact' = FALSE
  /\ UNCHANGED <<pcm, response, generated, cancelSent, closed>>

ErrorEvent == phase # "none" /\ ResetResponseGuards /\ UNCHANGED phase

ResponseCancelled ==
  /\ cancelSent \/ ~inProgress
  /\ phase \in {"speaking", "audio_done"}
  /\ ResetResponseGuards /\ phase' = "done"

-----------------------------------------------------------------------------
(* The caller and the end of the call.                                     *)

\* tryCancelInterruptedResponse: the buffer is dropped, the downsampler's
\* remainder is not, and deltas that are under way are still passed on.
Interrupt ==
  /\ ~closed /\ inProgress /\ ~cancelSent
  /\ cancelSent' = TRUE /\ intact' = FALSE
  /\ buffer' = <<>>
  /\ UNCHANGED <<pcm, response, generated, phase, inProgress, remainder,
                 sent, closed>>

\* scheduleCallEndMaxWait: what has arrived is sent, and the stream closed.
CallEndMaxWaitFires ==
  /\ ~closed
  /\ Becomes(FlushAll(Pipe))
  /\ UNCHANGED <<pcm, response, generated, phase, inProgress, cancelSent,
                 intact, closed>>

\* endSession, after waitForResponseComplete has resolved or timed out.
EndSession ==
  /\ ~closed /\ closed' = TRUE
  /\ intact' = (intact /\ phase \in {"none", "done"})
  /\ Becomes(FlushRemainingOutbound(Pipe))
  /\ UNCHANGED <<pcm, response, generated, phase, inProgress, cancelSent>>

Next ==
  \/ \E authorized \in BOOLEAN : ResponseCreated(authorized)
  \/ \E n \in 1..MaxSamples : OutputAudioDelta(n)
  \/ OutputAudioDone \/ ResponseDone \/ ErrorEvent \/ ResponseCancelled
  \/ Interrupt \/ CallEndMaxWaitFires \/ EndSession

Spec == Init /\ [][Next]_vars

-----------------------------------------------------------------------------

\* A sample that a telephony sample is the mean of, where it occurs first:
\* padding is left out, and so is the second use of a sample, as flush averages
\* the samples of a part group twice.
FirstUse(group, i) ==
  group[i] # Silence /\ \A j \in 1..(i - 1) : group[j] # group[i]

\* Telephony samples hold the first n samples of the response, each once and in
\* their order.
HoldsAll(samples, n) ==
  /\ \A m \in 1..n : \E k \in DOMAIN samples :
       \E i \in DOMAIN samples[k] : samples[k][i] = <<response, m>>
  /\ \A k \in DOMAIN samples : \A i \in DOMAIN samples[k] :
       FirstUse(samples[k], i) =>
         /\ samples[k][i][2] \in 1..n
         /\ \A l \in 1..k : \A j \in DOMAIN samples[l] :
              (FirstUse(samples[l], j) /\ (l = k => j < i))
                => samples[l][j][2] < samples[k][i][2]

\* No frame mixes two responses; and unless the caller or an error cut the
\* response short, the caller hears all of it: the frames, the buffer and the
\* downsampler hold every sample OpenAI has sent, in order and once, however
\* the deltas are cut, and when the response is done the frames hold them all.
OutboundWhole ==
  /\ \A k \in DOMAIN sent : \A i \in DOMAIN sent[k] :
       sent[k][i] = Silence \/ sent[k][i][1] = response
  /\ intact => HoldsAll(sent \o buffer \o <<remainder>>, generated)
  /\ (intact /\ phase = "done") => HoldsAll(sent, generated)
=============================================================================
