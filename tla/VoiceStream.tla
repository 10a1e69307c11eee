----------------------------- MODULE VoiceStream -----------------------------
(***************************************************************************)
(* One Smartflo media stream from its WebSocket to the end of its call:    *)
(* SmartfloStreamAdapter, AudioGateway, VoiceSessionService,               *)
(* VoiceRecordingService and the session map of the realtime runtime.      *)
(*                                                                         *)
(* The start event waits for authorizeStart, the stop event and the        *)
(* disconnect each start a finalizer, and none of the three waits for the  *)
(* others.  A step is the code a handler runs between two awaits that      *)
(* really suspend it; an await of something already settled is not one.    *)
(***************************************************************************)
EXTENDS Naturals

CONSTANTS
  UploadMayFail   \* uploadRecording may answer with an error

ASSUME VoiceStreamAssumption == UploadMayFail \in BOOLEAN

Finalizer == {"stop", "disconnect"}

VARIABLES
  socket,       \* the provider's WebSocket: "open" or "closed"
  session,      \* the VoiceSession: status, isAppInitiated, callId
  authPending,  \* streamSid \in authorizationPending
  decision,     \* where the awaited authorizeStart is
  recording,    \* activeByStreamSid / finalizedByStreamSid of the recordings
  runtime,      \* the entry of the realtime provider's `sessions`
  progress,     \* `void markCallInProgress`
  fin,          \* the finalizer of the stop event and that of the disconnect
  call,         \* status of the Call row
  jobs,         \* post-call jobs that were started
  uploads,      \* history: mixed recordings sent to S3
  endings,      \* history: times the session entered recentEndedSessions
  early         \* history: the hang-up came while authorizeStart was awaited

vars == <<socket, session, authPending, decision, recording, runtime, progress,
          fin, call, jobs, uploads, endings, early>>

Init ==
  /\ socket = "open"
  /\ session = [status |-> "pending", app |-> "unset", callId |-> FALSE]
  /\ authPending = FALSE
  /\ decision = "idle"
  /\ recording = "none"
  /\ runtime = "none"
  /\ progress = "idle"
  /\ fin = [f \in Finalizer |-> [pc |-> "idle", callId |-> FALSE]]
  /\ call = "initiated"
  /\ jobs = 0
  /\ uploads = 0
  /\ endings = 0
  /\ early = FALSE

-----------------------------------------------------------------------------
(* VoiceSessionService and VoiceRecordingService.                          *)

InMaps == session.status \in {"pending", "active"}

\* getByStreamSid: an active session or one that ended recently.
Known == session.status \in {"active", "ended"}

\* Mutant: only the pending mark is looked at.
AppInitiatedPending == authPending

\* isAppInitiatedStream
AppInitiated ==
  IF Known /\ session.app # "unset" THEN session.app = "yes" ELSE authPending

\* Mutant: the chunks are dropped from the map when the upload is done.
TakenLate(r) == r

\* What finalize leaves of the active recording before its first await.
Taken(r) == IF r \in {"empty", "audio"} THEN "taken" ELSE r

\* Mutant: the session is ended whatever its status.
EndableAlways == TRUE

\* endByStreamSid and endBySocketSessionId find a session that has not ended.
Endable == InMaps

\* A session that got a start event is kept among the recent ones.
EndSession ==
  IF Endable
    THEN /\ session' = [session EXCEPT !.status =
                          IF @ = "pending" THEN "discarded" ELSE "ended"]
         /\ endings' = IF session.status = "pending" THEN endings ELSE endings + 1
    ELSE UNCHANGED <<session, endings>>

-----------------------------------------------------------------------------
(* Start and media events.                                                 *)

\* handleStart: bind the stream, start recording, await authorizeStart.
HandleStart ==
  /\ socket = "open" /\ session.status = "pending"
  /\ session' = [session EXCEPT !.status = "active"]
  /\ authPending' = TRUE
  /\ recording' = "empty"
  /\ decision' = "waiting"
  /\ UNCHANGED <<socket, runtime, progress, fin, call, jobs, uploads, endings, early>>

\* handleMedia: audio is recorded as soon as the authorization is pending.
HandleMedia ==
  /\ socket = "open" /\ session.status \in {"active", "ended"}
  /\ AppInitiated
  /\ recording \in {"empty", "audio"}
  /\ recording' = "audio"
  /\ UNCHANGED <<socket, session, authPending, decision, runtime, progress, fin,
                 call, jobs, uploads, endings, early>>

\* markAppInitiated: nothing, once the session has left the map.
MarkAppInitiated(app, callId) ==
  session' = IF InMaps THEN [session EXCEPT !.app = app, !.callId = callId]
                       ELSE session

\* authorizeAndStartRuntime when authorizeStart rejects the stream.
Reject ==
  /\ decision = "waiting"
  /\ decision' = "rejected"
  /\ authPending' = FALSE
  /\ MarkAppInitiated("no", FALSE)
  /\ UNCHANGED <<socket, recording, runtime, progress, fin, call, jobs, uploads,
                 endings, early>>

\* ... when it grants it: `void markCallInProgress`, `void createSession`.
Grant(callId) ==
  /\ decision = "waiting"
  /\ decision' = "granted"
  /\ authPending' = FALSE
  /\ MarkAppInitiated("yes", callId)
  /\ progress' = IF callId THEN "update" ELSE "idle"
  /\ runtime' = "open"
  /\ UNCHANGED <<socket, recording, fin, call, jobs, uploads, endings, early>>

\* ... when it throws: `void handleStart` has nobody to tell.
AuthorizeThrows ==
  /\ decision = "waiting"
  /\ decision' = "failed"
  /\ UNCHANGED <<socket, session, authPending, recording, runtime, progress, fin,
                 call, jobs, uploads, endings, early>>

\* The update of markCallInProgress reaches the database.
MarkCallInProgress ==
  /\ progress = "update"
  /\ progress' = "done"
  /\ call' = "in_progress"
  /\ UNCHANGED <<socket, session, authPending, decision, recording, runtime, fin,
                 jobs, uploads, endings, early>>

-----------------------------------------------------------------------------
(* Finalizers.                                                             *)

\* Where finalizeRecording goes from finalize: the metadata of an upload that
\* is over, an upload of its own, or null.
NextPc(callId) ==
  CASE recording = "finalized" -> IF callId THEN "complete" ELSE "end"
    [] recording = "audio" -> "upload"
    [] OTHER -> "end"

\* finalizeRecording up to its first await: the callId is read, then the
\* recording is taken out of the map.
FinalizeRecording(f) ==
  LET callId == Known /\ session.callId
  IN  /\ fin' = [fin EXCEPT ![f] = [pc |-> NextPc(callId), callId |-> callId]]
      /\ recording' = Taken(recording)
      /\ uploads' = IF recording = "audio" THEN uploads + 1 ELSE uploads

\* The finalizer of a stream the app initiated ends the runtime first.
BeginFinalizer(f) ==
  IF runtime = "open"
    THEN /\ fin' = [fin EXCEPT ![f].pc = "runtime"]
         /\ UNCHANGED <<recording, uploads>>
    ELSE FinalizeRecording(f)

\* handleStop
HandleStop ==
  /\ socket = "open" /\ session.status = "active" /\ fin["stop"].pc = "idle"
  /\ early' = (early \/ decision = "waiting")
  /\ IF AppInitiated
       THEN BeginFinalizer("stop") /\ UNCHANGED <<session, endings>>
       ELSE /\ fin' = [fin EXCEPT !["stop"].pc = "done"]
            /\ EndSession
            /\ UNCHANGED <<recording, uploads>>
  /\ UNCHANGED <<socket, authPending, decision, runtime, progress, call, jobs>>

\* handleDisconnect: a finalizer of its own unless the session has ended.
HandleDisconnect ==
  /\ socket = "open"
  /\ socket' = "closed"
  /\ early' = (early \/ decision = "waiting")
  /\ IF session.status = "active"
       THEN /\ IF AppInitiated
                 THEN BeginFinalizer("disconnect")
                 ELSE /\ fin' = [fin EXCEPT !["disconnect"].pc =
                                   IF runtime = "open" THEN "release" ELSE "end"]
                      /\ UNCHANGED <<recording, uploads>>
            /\ UNCHANGED <<session, endings>>
       ELSE EndSession /\ UNCHANGED <<fin, recording, uploads>>
  /\ UNCHANGED <<authPending, decision, runtime, progress, call, jobs>>

\* endSession of the runtime: it waits for the last response and the close.
EndRuntime(f) ==
  /\ fin[f].pc \in {"runtime", "release"}
  /\ runtime' = "none"
  /\ IF fin[f].pc = "runtime"
       THEN FinalizeRecording(f)
       ELSE fin' = [fin EXCEPT ![f].pc = "end"] /\ UNCHANGED <<recording, uploads>>
  /\ UNCHANGED <<socket, session, authPending, decision, progress, call, jobs,
                 endings, early>>

\* uploadRecording and saveS3KeyToDb are over; on an error finalize gives null
\* and the audio is gone.
UploadRecording(f) ==
  /\ fin[f].pc = "upload"
  /\ \/ /\ recording' = "finalized"
        /\ fin' = [fin EXCEPT ![f].pc = IF fin[f].callId THEN "complete" ELSE "end"]
     \/ /\ UploadMayFail
        /\ recording' = "lost"
        /\ fin' = [fin EXCEPT ![f].pc = "end"]
  /\ UNCHANGED <<socket, session, authPending, decision, runtime, progress, call,
                 jobs, uploads, endings, early>>

\* markCallCompleted, whose error is caught, then `void` the post-call job.
MarkCallCompleted(f) ==
  /\ fin[f].pc = "complete"
  /\ call' \in {"completed", call}
  /\ jobs' = jobs + 1
  /\ fin' = [fin EXCEPT ![f].pc = "end"]
  /\ UNCHANGED <<socket, session, authPending, decision, recording, runtime,
                 progress, uploads, endings, early>>

\* The end of finalizeAndEndOnStop and of finalizeAndDisconnect.
Finish(f) ==
  /\ fin[f].pc = "end"
  /\ fin' = [fin EXCEPT ![f].pc = "done"]
  /\ EndSession
  /\ UNCHANGED <<socket, authPending, decision, recording, runtime, progress, call,
                 jobs, uploads, early>>

-----------------------------------------------------------------------------
Finalize(f) ==
  EndRuntime(f) \/ UploadRecording(f) \/ MarkCallCompleted(f) \/ Finish(f)

Next ==
  \/ HandleStart
  \/ HandleMedia
  \/ Reject
  \/ \E callId \in BOOLEAN : Grant(callId)
  \/ AuthorizeThrows
  \/ MarkCallInProgress
  \/ HandleStop
  \/ HandleDisconnect
  \/ \E f \in Finalizer : EndRuntime(f)
  \/ \E f \in Finalizer : UploadRecording(f)
  \/ \E f \in Finalizer : MarkCallCompleted(f)
  \/ \E f \in Finalizer : Finish(f)

Spec == Init /\ [][Next]_vars

\* Waits end: the runtime's have timeouts, the uploads and queries answer.
FairSpec == Spec /\ \A f \in Finalizer : WF_vars(Finalize(f))

-----------------------------------------------------------------------------
(* Properties.                                                             *)

\* Types of the variables.
TypeOK ==
  /\ socket \in {"open", "closed"}
  /\ session \in [status : {"pending", "active", "ended", "discarded"},
                  app : {"unset", "yes", "no"}, callId : BOOLEAN]
  /\ authPending \in BOOLEAN
  /\ decision \in {"idle", "waiting", "granted", "rejected", "failed"}
  /\ recording \in {"none", "empty", "audio", "taken", "finalized", "lost"}
  /\ runtime \in {"none", "open"}
  /\ progress \in {"idle", "update", "done"}
  /\ fin \in [Finalizer -> [pc : {"idle", "runtime", "release", "upload", "complete",
                                  "end", "done"},
                            callId : BOOLEAN]]
  /\ call \in {"initiated", "in_progress", "completed"}
  /\ jobs \in Nat /\ uploads \in Nat /\ endings \in Nat
  /\ early \in BOOLEAN

\* The recording is uploaded once, although the stop event and the disconnect
\* both finalize it and the first is still uploading when the second looks.
UploadedOnce == uploads <= 1

\* The session enters the list of ended sessions once, by whichever handler
\* gets there first.
EndedOnce == endings <= 1

\* The audio of a granted call reaches the post-call job with its callId,
\* unless the upload fails: the finalizer that is left with nothing may end
\* the session while the other one still works on it.
HandedOver ==
  (decision = "granted" /\ session.callId /\ recording = "audio" /\ socket = "closed")
    ~> (jobs > 0 \/ recording = "lost")

\* The runtime of a stream that has gone is released, provided the hang-up did
\* not come while the authorization was awaited.
RuntimeReleased ==
  (socket = "closed" /\ ~early /\ runtime = "open") ~> runtime = "none"

\* "Smartflo stream rejected - skipping OpenAI runtime and recording."
RejectedNotRecorded == decision = "rejected" => uploads = 0
=============================================================================
