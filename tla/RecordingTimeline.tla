-------------------------- MODULE RecordingTimeline --------------------------
(***************************************************************************)
(* How a call's recording is put together: VoiceRecordingService places    *)
(* each chunk of each direction on the wall clock, behind the chunks of    *)
(* its direction that arrived in a burst, and pcm-recording-mix.util       *)
(* writes the chunks into one buffer.                                      *)
(*                                                                         *)
(* Time and sound are counted in samples.  The code computes with floating *)
(* point milliseconds: (offsetMs / 1000) * sampleRate can fall just below  *)
(* the whole number it stands for, so that Math.floor places a chunk one   *)
(* sample early, or just above it, so that Math.ceil makes the buffer one  *)
(* sample longer.  Both are choices here.                                  *)
(***************************************************************************)
EXTENDS Naturals, Sequences, FiniteSets, FiniteSetsExt

CONSTANTS
  PerMs,       \* samples of a millisecond, the step of Date.now()
  Lengths,     \* samples of a chunk
  MaxClock,    \* milliseconds of one behaviour
  MaxChunks    \* chunks of one behaviour

TimelineAssumption ==
  /\ PerMs \in Nat \ {0} /\ MaxClock \in Nat /\ MaxChunks \in Nat
  /\ Lengths \subseteq Nat \ {0}

Direction == {"inbound", "outbound"}

VARIABLES
  clock,       \* wall clock since the recording was created
  state,       \* "none", "active" in activeByStreamSid, or "finalized"
  cursor,      \* Direction -> end of its last chunk, 0 before the first
  chunks,      \* the chunks of both directions in their order of arrival
  length       \* samples of the mixed buffer once it is finalized

vars == <<clock, state, cursor, chunks, length>>

Init ==
  /\ clock = 0 /\ state = "none"
  /\ cursor = [d \in Direction |-> 0]
  /\ chunks = <<>> /\ length = 0

\* start keeps a recording that is active or finalized.
Start ==
  /\ state = "none"
  /\ state' = "active" /\ clock' = 0
  /\ UNCHANGED <<cursor, chunks, length>>

Tick ==
  /\ clock < MaxClock
  /\ clock' = clock + 1
  /\ UNCHANGED <<state, cursor, chunks, length>>

OffsetOnArrival(d) == clock * PerMs

\* resolveRecordingOffsetMs; no chunk ends at 0.
RecordingOffset(d) == Max({clock * PerMs, cursor[d]})

\* A chunk without an active recording, or one that is empty, is dropped.
\* `early' is the sample that rounding may take away; `silent' a chunk of
\* silence bytes, which are not written.
AppendTimeline(d, n, early, silent) ==
  /\ state = "active" /\ Len(chunks) < MaxChunks
  /\ early <= RecordingOffset(d)
  /\ chunks' = Append(chunks, [direction |-> d, offset |-> RecordingOffset(d),
                               start |-> RecordingOffset(d) - early, samples |-> n,
                               silent |-> silent, arrived |-> clock * PerMs])
  /\ cursor' = [cursor EXCEPT ![d] = RecordingOffset(d) + n]
  /\ UNCHANGED <<clock, state, length>>

\* resolveTimelineLengthMs over all chunks, rounded up.
TimelineLength ==
  Max({chunks[i].offset + chunks[i].samples : i \in DOMAIN chunks})

\* finalize uploads nothing when there is no chunk.
Finalize ==
  /\ state = "active"
  /\ state' = "finalized"
  /\ IF chunks = <<>> THEN UNCHANGED length
     ELSE \E more \in {0, 1} : length' = TimelineLength + more
  /\ UNCHANGED <<clock, cursor, chunks>>

Next ==
  \/ Start \/ Tick \/ Finalize
  \/ \E d \in Direction, n \in Lengths, early \in {0, 1}, silent \in BOOLEAN :
       AppendTimeline(d, n, early, silent)

Spec == Init /\ [][Next]_vars

-----------------------------------------------------------------------------
(* writeMulawChunkToPcmTimeline, for every chunk: an inbound sample replaces *)
(* what is there, an outbound one, written later, is added to it.            *)

Covers(i, position) ==
  /\ ~chunks[i].silent
  /\ position >= chunks[i].start /\ position < chunks[i].start + chunks[i].samples
  /\ position < length

Covering(d, position) ==
  {i \in DOMAIN chunks : chunks[i].direction = d /\ Covers(i, position)}

\* The chunks that are heard at a position of the mixed recording.
Heard(position) ==
  LET inbound == Covering("inbound", position)
  IN (IF inbound = {} THEN {} ELSE {Max(inbound)}) \union Covering("outbound", position)

\* The mixed recording holds every chunk of both directions whole, save the
\* last sample of an inbound chunk where rounding made the next one start
\* early, and no sample more than one before the time it arrived, whatever the
\* bursts, gaps and overlaps of the two directions.
SamplesKept ==
  state = "finalized" =>
    \A i \in DOMAIN chunks :
      /\ chunks[i].start + 1 >= chunks[i].arrived
      /\ ~chunks[i].silent =>
           /\ \A k \in 0..(chunks[i].samples - 2) : i \in Heard(chunks[i].start + k)
           /\ \/ i \in Heard(chunks[i].start + chunks[i].samples - 1)
              \/ \E j \in DOMAIN chunks :
                   /\ j > i /\ chunks[j].direction = "inbound"
                   /\ chunks[j].start < chunks[j].offset

=============================================================================
