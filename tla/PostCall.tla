------------------------------ MODULE PostCall ------------------------------
(***************************************************************************)
(* The transcript of one call and the call.result_ready webhook:           *)
(* VoiceTranscriptService and IntegrationCallbackService.                  *)
(*                                                                         *)
(* During the call every utterance the realtime model reports is appended  *)
(* to the live list of the process and saved as a draft by a promise that  *)
(* nobody awaits.  When the recording is uploaded, a finalizer starts the  *)
(* post-call job, which rewrites the transcript row and its segments and   *)
(* posts the result to the partner.  A job or a draft that fails starts a  *)
(* salvage, again without awaiting it.  Each of these is a task here, and  *)
(* one step of a task is the code between two of its awaits.               *)
(***************************************************************************)
EXTENDS Naturals, Sequences, FiniteSets

CONSTANTS
  Utterance,       \* what the two sides of the call say
  Recording,       \* the one segment transcribed from the recording
  Finalizer,       \* finalizeRecording calls that got the metadata
  LateDrafts,      \* the call may end while draft writes are in flight
  FailAt,          \* steps at which the database or HTTP call may reject
  MaxFaults        \* bound: rejections, lost answers and worker crashes

Drafting == {"draftUpsert", "draftCreate", "draftRead", "draftWrite"}
Persisting == {"upsert", "delete", "create"}
Notifying == {"notify", "post", "record"}
Jobbing == {"mark", "source", "queued", "load", "transcribe"}
Live == {"live", "liveWrite", "liveSegments"}
Salvaging == {"look", "fail"}
Steps == Drafting \cup Persisting \cup Notifying \cup Jobbing \cup Live \cup Salvaging

ASSUME PostCallAssumption ==
  /\ Recording \notin Utterance
  /\ Finalizer \cap Utterance = {}
  /\ LateDrafts \in BOOLEAN
  /\ FailAt \subseteq Steps
  /\ MaxFaults \in Nat

Segment == Utterance \cup {Recording}
Task == (Utterance \X {"draft", "salvage"}) \cup (Finalizer \X {"job", "first", "second"})

VARIABLES
  integration,  \* the call has source integration, an API key and a webhook URL
  postCall,     \* VOICE_POSTCALL_TRANSCRIPT: isPostCallEnabled()
  ended,        \* the stream is over and its recording uploaded
  live,         \* liveByStreamSid: what the API process heard
  row,          \* the CallTranscript row and its segments
  delivered,    \* metadata.integrationWebhook.resultDeliveredAt is set
  task,         \* [Task -> record]
  posts,        \* call.result_ready requests the partner has received
  faults

config == <<integration, postCall>>
vars == <<config, ended, live, row, delivered, task, posts, faults>>

Status == {"none", "draft", "processing", "final", "failed"}

Idle == [pc |-> "idle", plan |-> {}, caught |-> FALSE]

Init ==
  /\ integration \in BOOLEAN
  /\ postCall \in BOOLEAN
  /\ ended = FALSE
  /\ live = {}
  /\ row = [status |-> "none", content |-> {}, segs |-> {}]
  /\ delivered = FALSE
  /\ task = [t \in Task |-> Idle]
  /\ posts = <<>>
  /\ faults = 0

Busy(t) == task[t].pc \in Steps

\* t arrives at pc, keeping the segments it is going to write.
Goto(t, pc) == task' = [task EXCEPT ![t].pc = pc]
GotoWith(t, pc, plan) ==
  task' = [task EXCEPT ![t] = [pc |-> pc, plan |-> plan, caught |-> @.caught]]

-----------------------------------------------------------------------------
(* During the call.                                                        *)

\* handleRealtimeCompleted: push to the live list, `void persistDraftSegment`.
HandleRealtimeCompleted(u) ==
  /\ ~ended /\ u \notin live
  /\ live' = live \cup {u}
  /\ Goto(<<u, "draft">>, "draftUpsert")
  /\ UNCHANGED <<config, ended, row, delivered, posts, faults>>

\* The hang-up is known and the recording uploaded.
EndCall ==
  /\ ~ended
  /\ LateDrafts \/ \A u \in Utterance : ~Busy(<<u, "draft">>)
  /\ ended' = TRUE
  /\ UNCHANGED <<config, live, row, delivered, task, posts, faults>>

\* persistDraftSegment: upsert the row as draft, add the segment, read them
\* all, write the flat text.
PersistDraft(u) ==
  LET t == <<u, "draft">>
      r == task[t]
  IN  /\ \/ /\ r.pc = "draftUpsert"
            /\ row' = [row EXCEPT !.status = "draft",
                         !.content = IF row.status = "none" THEN {u} ELSE @]
            /\ Goto(t, "draftCreate")
         \/ /\ r.pc = "draftCreate"
            /\ row' = [row EXCEPT !.segs = @ \cup {u}]
            /\ Goto(t, "draftRead")
         \/ /\ r.pc = "draftRead"
            /\ GotoWith(t, "draftWrite", row.segs)
            /\ UNCHANGED row
         \/ /\ r.pc = "draftWrite"
            /\ row' = [row EXCEPT !.content = r.plan]
            /\ Goto(t, "done")
      /\ UNCHANGED <<config, ended, live, delivered, posts, faults>>

-----------------------------------------------------------------------------
(* The job.                                                                *)

\* finalizeRecording got the metadata of an uploaded recording.
Finalize(f) ==
  /\ ended
  /\ task[<<f, "job">>].pc = "idle"
  /\ Goto(<<f, "job">>, IF postCall THEN "mark" ELSE "live")
  /\ UNCHANGED <<config, ended, live, row, delivered, posts, faults>>

\* The job of a call the platform dialled for itself runs on the worker.
OnWorker(t) == t[1] \in Finalizer /\ postCall /\ ~integration

\* enqueuePostCallTranscription: mark the row, look at the source, run the job
\* here or queue it.
Enqueue(f) ==
  LET t == <<f, "job">>
  IN  /\ \/ /\ task[t].pc = "mark"
            /\ row' = [row EXCEPT !.status = "processing"]
            /\ Goto(t, "source")
         \/ /\ task[t].pc = "source"
            /\ Goto(t, IF integration THEN "load" ELSE "queued")
            /\ UNCHANGED row
         \/ /\ task[t].pc = "queued"
            /\ Goto(t, "load")
            /\ UNCHANGED row
      /\ UNCHANGED <<config, ended, live, delivered, posts, faults>>

\* Mutant: findFirst, one segment.
TimelineFirst == IF row.segs = {} THEN {} ELSE {CHOOSE u \in row.segs : TRUE}

\* loadRealtimeTimelineSegments
Timeline == row.segs \cap Utterance

\* transcribeRecordingSegments.  Assumption about the speech API: a recording
\* in which the realtime model heard speech gives a segment.
Transcriptions == IF live = {} THEN {{}, {Recording}} ELSE {{Recording}}

\* processPostCallJob up to persistFinalSegments.  Cleaning never empties a
\* segment that is not blank.
ProcessPostCallJob(f) ==
  LET t == <<f, "job">>
  IN  /\ \/ /\ task[t].pc = "load"
            /\ IF Timeline # {} THEN GotoWith(t, "upsert", Timeline)
                                ELSE Goto(t, "transcribe")
         \/ /\ task[t].pc = "transcribe"
            /\ \E heard \in Transcriptions : GotoWith(t, "upsert", heard)
      /\ UNCHANGED <<config, ended, live, row, delivered, posts, faults>>

\* finalizeLiveTranscriptForCall, when post-call transcription is off: what to
\* write is decided by the row that was read before.
FinalizeLiveTranscript(f) ==
  LET t == <<f, "job">>
  IN  /\ \/ /\ task[t].pc = "live"
            /\ IF live # {} /\ row.status = "none"
                 THEN GotoWith(t, "upsert", live)
                 ELSE Goto(t, IF live # {} \/ row.status = "draft"
                                THEN "liveWrite" ELSE "notify")
            /\ UNCHANGED row
         \/ /\ task[t].pc = "liveWrite"
            /\ row' = [row EXCEPT !.status = "final",
                                  !.content = IF live # {} THEN live ELSE @]
            /\ Goto(t, "liveSegments")
         \/ /\ task[t].pc = "liveSegments"
            /\ Goto(t, "notify")
            /\ UNCHANGED row
      /\ UNCHANGED <<config, ended, live, delivered, posts, faults>>

\* Mutant: the old segments are deleted last.
PersistOrderSwapped == [first |-> "create", second |-> "delete"]

\* The two segment statements of persistFinalSegments, in their order.
PersistOrder == [first |-> "delete", second |-> "create"]

\* persistFinalSegments: three statements, no transaction.  The summary job
\* it enqueues at the end never rejects.
PersistFinal(t) ==
  LET r == task[t]
      After(pc) == IF pc = PersistOrder.first THEN PersistOrder.second ELSE "notify"
  IN  /\ \/ /\ r.pc = "upsert"
            /\ row' = [row EXCEPT !.status = "final", !.content = r.plan]
            /\ Goto(t, PersistOrder.first)
         \/ /\ r.pc = "delete"
            /\ row' = [row EXCEPT !.segs = {}]
            /\ Goto(t, After(r.pc))
         \/ /\ r.pc = "create"
            /\ row' = [row EXCEPT !.segs = @ \cup r.plan]
            /\ Goto(t, After(r.pc))
      /\ UNCHANGED <<config, ended, live, delivered, posts, faults>>

-----------------------------------------------------------------------------
(* call.result_ready.                                                      *)

\* Mutant: the segments are sent, not the flat text.
TextOfSegments == row.segs

\* resolveIntegrationTranscriptContent
Text == IF row.content # {} THEN row.content ELSE row.segs

\* notifyCallResultReady: read the call, post, record the delivery.
Notify(t) ==
  LET r == task[t]
  IN  /\ \/ /\ r.pc = "notify"
            /\ IF integration /\ ~delivered THEN GotoWith(t, "post", Text)
                                            ELSE Goto(t, "done")
            /\ UNCHANGED <<delivered, posts>>
         \/ /\ r.pc = "post"
            /\ posts' = Append(posts, [text |-> r.plan, ended |-> ended])
            /\ Goto(t, "record")
            /\ UNCHANGED delivered
         \/ /\ r.pc = "record"
            /\ delivered' = TRUE
            /\ Goto(t, "done")
            /\ UNCHANGED posts
      /\ UNCHANGED <<config, ended, live, row, faults>>

\* postWebhook turns every failure into `sent: false`; an answer may also be
\* lost after the partner has handled the request.
PostUnanswered(t) ==
  /\ task[t].pc = "post" /\ "post" \in FailAt
  /\ faults < MaxFaults
  /\ faults' = faults + 1
  /\ \/ posts' = Append(posts, [text |-> task[t].plan, ended |-> ended])
     \/ UNCHANGED posts
  /\ Goto(t, "done")
  /\ UNCHANGED <<config, ended, live, row, delivered>>

-----------------------------------------------------------------------------
(* Failures.                                                               *)

\* The live list of the process that runs t.
Heard(t) == IF OnWorker(t) THEN {} ELSE live

\* recordTranscriptError starts a salvage up to its first await.
Salvage(t) ==
  IF Heard(t) # {} THEN [pc |-> "upsert", plan |-> Heard(t), caught |-> FALSE]
                   ELSE [pc |-> "look", plan |-> {}, caught |-> FALSE]

\* trySalvageTranscriptAndNotify without a live list: what the database has.
Look(t) ==
  /\ task[t].pc = "look"
  /\ IF row.segs # {} THEN GotoWith(t, "upsert", row.segs) ELSE Goto(t, "fail")
  /\ UNCHANGED <<config, ended, live, row, delivered, posts, faults>>

\* markTranscriptFailedAndNotify
MarkFailed(t) ==
  /\ task[t].pc = "fail"
  /\ row' = [row EXCEPT !.status = "failed"]
  /\ Goto(t, "notify")
  /\ UNCHANGED <<config, ended, live, delivered, posts, faults>>

\* Mutant: the error is logged, nothing more.
SalvagesNone(t) == {}

\* The salvages a failure of t starts.  An inline job is caught twice: by
\* processPostCallJob and, rethrown, by enqueuePostCallTranscription.
Salvages(t) ==
  CASE t[2] = "draft" -> {<<t[1], "salvage">>}
    [] t[2] = "job" -> IF task[t].pc \in {"load", "transcribe"} \cup Persisting /\ postCall
                         THEN {<<t[1], "first">>} \cup
                              (IF OnWorker(t) THEN {} ELSE {<<t[1], "second">>})
                         ELSE {}    \* before the try block, or caught and logged
    [] OTHER -> {}

\* An awaited call of t rejects.  A salvage goes to its catch handler, which
\* marks the transcript failed; nothing handles a rejection of that handler.
Fail(t) ==
  /\ task[t].pc \in FailAt \ {"post"}
  /\ faults < MaxFaults
  /\ faults' = faults + 1
  /\ task' = [x \in Task |->
       IF x = t
         THEN IF t[2] \in {"draft", "job"} \/ task[t].caught
                THEN [task[t] EXCEPT !.pc = "done"]
                ELSE [task[t] EXCEPT !.pc = "fail", !.caught = TRUE]
         ELSE IF x \in Salvages(t) THEN Salvage(x) ELSE task[x]]
  /\ UNCHANGED <<config, ended, live, row, delivered, posts>>

\* The worker crashes: BullMQ gives its unfinished jobs to the next one.
WorkerCrash ==
  /\ faults < MaxFaults
  /\ faults' = faults + 1
  /\ task' = [t \in Task |->
       IF OnWorker(t) /\ Busy(t) /\ task[t].pc \notin {"mark", "source", "queued"}
         THEN [Idle EXCEPT !.pc = IF t[2] = "job" THEN "load" ELSE "done"]
         ELSE task[t]]
  /\ UNCHANGED <<config, ended, live, row, delivered, posts>>

-----------------------------------------------------------------------------
\* What a task does next when nothing fails.
Advance(t) ==
  \/ t[2] = "draft" /\ PersistDraft(t[1])
  \/ t[2] = "job" /\ (Enqueue(t[1]) \/ ProcessPostCallJob(t[1])
                                    \/ FinalizeLiveTranscript(t[1]))
  \/ PersistFinal(t) \/ Notify(t) \/ Look(t) \/ MarkFailed(t)

Next ==
  \/ \E u \in Utterance : HandleRealtimeCompleted(u)
  \/ EndCall
  \/ \E f \in Finalizer : Finalize(f)
  \/ \E u \in Utterance : PersistDraft(u)
  \/ \E f \in Finalizer : Enqueue(f)
  \/ \E f \in Finalizer : ProcessPostCallJob(f)
  \/ \E f \in Finalizer : FinalizeLiveTranscript(f)
  \/ \E t \in Task : PersistFinal(t)
  \/ \E t \in Task : Notify(t)
  \/ \E t \in Task : Look(t)
  \/ \E t \in Task : MarkFailed(t)
  \/ \E t \in Task : PostUnanswered(t)
  \/ \E t \in Task : Fail(t)
  \/ WorkerCrash

Spec == Init /\ [][Next]_vars

\* Promises settle and the worker takes its jobs; calls need not end.
FairSpec == Spec /\ \A t \in Task : WF_vars(Advance(t))

-----------------------------------------------------------------------------
(* Properties.                                                             *)

\* Types of the variables.
TypeOK ==
  /\ integration \in BOOLEAN /\ postCall \in BOOLEAN /\ ended \in BOOLEAN
  /\ live \subseteq Utterance
  /\ row \in [status : Status, content : SUBSET Segment, segs : SUBSET Segment]
  /\ delivered \in BOOLEAN
  /\ task \in [Task -> [pc : Steps \cup {"idle", "done"}, plan : SUBSET Segment,
                        caught : BOOLEAN]]
  /\ posts \in Seq([text : SUBSET Segment, ended : BOOLEAN])
  /\ faults \in Nat

\* What counts as the whole conversation: every utterance that was heard, or
\* the transcription of the recording in their place.
Whole(S) == S = live \/ S = {Recording}

\* A transcript that is final after the call shows the whole conversation,
\* whichever of the jobs and salvages of two finalizers wrote it last.
FinalIsWhole ==
  ended /\ live # {} /\ row.status = "final" => Whole(row.content)

\* The partner is never sent part of a conversation: the read of the row may
\* fall between the statements by which another task rewrites it.
ResultIsWhole ==
  \A i \in DOMAIN posts : live # {} => Whole(posts[i].text)

\* When everything has come to rest, the segments of a final transcript hold
\* the whole conversation: the deletes and inserts of concurrent rewrites are
\* not transactions, and a rewrite may stop after its delete.
SegmentsAreWhole ==
  (\A t \in Task : ~Busy(t)) /\ ended /\ live # {} /\ row.status = "final"
    => live \subseteq row.segs \/ Recording \in row.segs

\* A transcript whose post-call job began settles for good as final or failed.
TranscriptSettles ==
  (\E f \in Finalizer : task[<<f, "job">>].pc = "load")
    ~> [](row.status \in {"final", "failed"})

\* "call.result_ready is delivered at most once per call."
ResultAtMostOnce == Len(posts) <= 1

\* "Sent once after the call ends."
ResultAfterCallEnds == \A i \in DOMAIN posts : posts[i].ended
=============================================================================
