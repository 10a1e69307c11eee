--------------------------- MODULE RecordingLookups ---------------------------
(***************************************************************************)
(* Where a call's recording is kept and how it is found again              *)
(* (audio/voice-recording.service.ts, voice.controller.ts,                 *)
(* voice-session.service.ts, voice-shared-state.service.ts,                *)
(* audio/s3-recording-storage.service.ts).                                 *)
(*                                                                         *)
(* When a call ends, its stop event and the close of its socket may both   *)
(* finalize the recording.  The key of the uploaded object goes to the     *)
(* call's row, to the recording service's memory and to the session, in    *)
(* that order; the session, when it ends, is copied to Redis with what it  *)
(* knows then, so the finalizer that comes second may copy it before it    *)
(* knows the key.  Memory and the list of ended sessions forget their      *)
(* oldest entries, a restart of the process forgets everything it held,    *)
(* and a copy in Redis expires.  A lookup tries memory, then the session,  *)
(* of this process or in Redis, then the row of the session's call.        *)
(*                                                                         *)
(* The module follows one app-initiated call; of the others it has what    *)
(* they push out of the process's memory.  The id of its stream is not     *)
(* used again: ExotelStreams has the ids that are.                         *)
(***************************************************************************)
EXTENDS Naturals

VARIABLES
  usesRedis,  \* voice-shared-state: Redis is configured and was reachable
  place,      \* the session: "new", "active", "recent" or "gone"
  call,       \* its callId is set
  key,        \* its recordingS3Url is set
  recording,  \* the recording service's entry is active
  finalizer,  \* progress of the stop event's and the disconnect's finalizer
  remembered, \* finalizedByStreamSid has its metadata
  object,     \* the mixed track is in the bucket
  row,        \* the call's row has recordingS3Url
  saving,     \* the copy under way to Redis
  copy,       \* voice:session:<streamSid> in Redis
  lookup      \* one request for the recording

vars == <<usesRedis, place, call, key, recording, finalizer, remembered,
          object, row, saving, copy, lookup>>

callVars == <<usesRedis, place, call, key, recording, finalizer, remembered,
              object, row, saving, copy>>

EndEvent == {"stop", "disconnect"}
Routes == {"signed", "metadata", "download", "detail"}

NoCopy == [there |-> FALSE, call |-> FALSE, key |-> FALSE]
NoLookup == [part |-> "idle"]

Init ==
  /\ usesRedis \in BOOLEAN
  /\ place = "new" /\ call = FALSE /\ key = FALSE /\ recording = FALSE
  /\ finalizer = [f \in EndEvent |-> "idle"]
  /\ remembered = FALSE /\ object = FALSE /\ row = FALSE
  /\ saving = NoCopy /\ copy = NoCopy
  /\ lookup = NoLookup

Local == place \in {"active", "recent"}

\* toVoiceSessionResponse: what of a session is copied.
Snapshot == [there |-> TRUE, call |-> call, key |-> key]

-----------------------------------------------------------------------------
(* The end of the call.                                                    *)

\* The stream is accepted; its authorization may name a call row.
StartStream ==
  /\ place = "new" /\ place' = "active"
  /\ call' \in BOOLEAN /\ recording' = TRUE
  /\ UNCHANGED <<usesRedis, key, finalizer, remembered, object, row, saving,
                 copy, lookup>>

\* endSession: it is copied to Redis, and nothing waits for that.
EndSession ==
  /\ place' = IF place = "active" THEN "recent" ELSE place
  /\ saving' = IF place = "active" /\ usesRedis THEN Snapshot ELSE saving

To(f, pc) == finalizer' = [finalizer EXCEPT ![f] = pc]

\* The stop event, or the close of a socket whose session has not ended.
Begin(f) ==
  /\ place = "active" /\ finalizer[f] = "idle"
  /\ To(f, "runtime")
  /\ UNCHANGED <<usesRedis, place, call, key, recording, remembered, object,
                 row, saving, copy, lookup>>

\* attachRecordingMetadata: on the session, ended or not, that is still held.
AttachRecordingMetadata == key' = (key \/ Local)

\* finalize, once the runtime has ended: the metadata that is remembered; or
\* nothing, when another finalizer has taken the recording or no audio came,
\* and the session ends; or the upload.
Take(f) ==
  /\ finalizer[f] = "runtime"
  /\ recording' = (recording /\ remembered)
  /\ \/ /\ remembered /\ To(f, "complete")
        /\ AttachRecordingMetadata /\ UNCHANGED <<place, saving>>
     \/ ~remembered /\ To(f, "done") /\ EndSession /\ UNCHANGED key
     \/ /\ ~remembered /\ recording
        /\ To(f, "upload") /\ UNCHANGED <<place, key, saving>>
  /\ UNCHANGED <<usesRedis, call, remembered, object, row, copy, lookup>>

\* uploadRecording of the mixed track; without it nothing is kept.  The
\* speaker tracks that may follow are kept for the transcript only.
UploadRecording(f) ==
  /\ finalizer[f] = "upload"
  /\ \/ object' = TRUE /\ To(f, "save") /\ UNCHANGED <<place, saving>>
     \/ To(f, "done") /\ EndSession /\ UNCHANGED object
  /\ UNCHANGED <<usesRedis, call, key, recording, remembered, row, copy, lookup>>

\* saveS3KeyToDb, whose error is swallowed; then finalizedByStreamSid and
\* attachRecordingMetadata.
SaveS3KeyToDb(f) ==
  /\ finalizer[f] = "save"
  /\ row' \in IF call THEN BOOLEAN ELSE {FALSE}
  /\ remembered' = TRUE
  /\ AttachRecordingMetadata
  /\ To(f, "complete")
  /\ UNCHANGED <<usesRedis, place, call, recording, object, saving, copy, lookup>>

\* markCallCompleted has returned, or failed: endByStreamSid.
Complete(f) ==
  /\ finalizer[f] = "complete"
  /\ To(f, "done") /\ EndSession
  /\ UNCHANGED <<usesRedis, call, key, recording, remembered, object, row,
                 copy, lookup>>

SaveEndedSession ==
  /\ saving.there
  /\ copy' = saving /\ saving' = NoCopy
  /\ UNCHANGED <<usesRedis, place, call, key, recording, finalizer, remembered,
                 object, row, lookup>>

-----------------------------------------------------------------------------
(* A request for the recording.  promised: when it was sent, Redis held    *)
(* the ended session, with the key or with a call whose row has the key,   *)
(* and it has not expired since.                                           *)

Durable == copy.there /\ (copy.key \/ (copy.call /\ row))

Ask(route) ==
  /\ lookup.part \in {"idle", "answered"} /\ place # "new"
  /\ lookup' = [part |-> IF route = "signed" THEN "look" ELSE "resolve",
                route |-> route, pass |-> 1, hint |-> NoCopy,
                rowHint |-> FALSE, promised |-> Durable]
  /\ UNCHANGED callVars

Answer(a) == lookup' = [part |-> "answered", promised |-> lookup.promised,
                        answer |-> a]

\* resolveByStreamSid: this process's session, else the copy in Redis.
ResolveByStreamSid ==
  IF Local THEN Snapshot ELSE IF usesRedis THEN copy ELSE NoCopy

\* The controller: metadata looks in memory first; detail gives up on a
\* session nobody knows, and reads the row of one that has a call.
Resolve ==
  LET known == ResolveByStreamSid
      needs == IF lookup.route = "detail" /\ known.call THEN "rows" ELSE "look"
  IN /\ lookup.part = "resolve"
     /\ CASE lookup.route = "metadata" /\ remembered   -> Answer("found")
          [] lookup.route = "detail" /\ ~known.there -> Answer("unknown")
          [] OTHER -> lookup' = [lookup EXCEPT !.hint = known, !.part = needs]
     /\ UNCHANGED callVars

\* enrichRecordingAvailability: call.findMany.
ReadRows ==
  /\ lookup.part = "rows"
  /\ lookup' = [lookup EXCEPT !.part = "look", !.rowHint = row]
  /\ UNCHANGED callVars

\* download looks four times: for the recording, for its signed URL and, when
\* there is none, for whether the object exists and for the object itself.  A
\* miss at the second look is passed over.
LookAgain == lookup' = [lookup EXCEPT !.pass = @ + 1, !.part = "look"]

Found(inRow) ==
  IF lookup.route \notin {"signed", "download"} THEN Answer("found")
  ELSE IF lookup.route = "download" /\ lookup.pass = 1
    THEN lookup' = [lookup EXCEPT !.rowHint = @ \/ inRow, !.pass = 2, !.part = "look"]
    ELSE lookup' = [lookup EXCEPT !.part = "bucket"]

Missed == IF lookup.pass = 2 THEN LookAgain ELSE Answer("none")

\* resolveRecordingLookup: memory, the hints and the session; `named' when one
\* of those names the call ...
LookedUp(named) ==
  LET held == ResolveByStreamSid
  IN /\ lookup.part = "look"
     /\ IF remembered \/ lookup.hint.key \/ held.key THEN Found(FALSE)
        ELSE IF lookup.rowHint THEN Found(TRUE)
        ELSE IF named THEN lookup' = [lookup EXCEPT !.part = "row"]
        ELSE Missed
     /\ UNCHANGED callVars

\* Variant: only the request's hints name the call.
LookByHint == LookedUp(lookup.hint.call)

ResolveRecordingLookup == LookedUp(lookup.hint.call \/ ResolveByStreamSid.call)

\* ... and the row of the call they name.
ReadRow ==
  /\ lookup.part = "row"
  /\ IF row THEN Found(TRUE) ELSE Missed
  /\ UNCHANGED callVars

\* S3 is asked to sign the URL, whether the object exists, or for the object;
\* it may refuse each.
AskBucket ==
  /\ lookup.part = "bucket"
  /\ \/ lookup.pass # 3 /\ Answer("found")
     \/ lookup.pass \in {2, 3} /\ LookAgain
     \/ lookup.pass # 2 /\ Answer("failed")
  /\ UNCHANGED callVars

-----------------------------------------------------------------------------
(* What is forgotten.                                                      *)

\* SESSION_REDIS_TTL_SECONDS: the copy is gone, and with it the promise.
CopyExpires ==
  /\ copy.there /\ copy' = NoCopy
  /\ lookup' = IF lookup.part = "idle" THEN lookup
               ELSE [lookup EXCEPT !.promised = FALSE]
  /\ UNCHANGED <<usesRedis, place, call, key, recording, finalizer, remembered,
                 object, row, saving>>

\* clearOldRecordings, when other calls' recordings are finalized.
ClearOldRecordings ==
  /\ remembered /\ remembered' = FALSE
  /\ UNCHANGED <<usesRedis, place, call, key, recording, finalizer, object,
                 row, saving, copy, lookup>>

\* MAX_RECENT_ENDED_SESSIONS, when other calls end.
ForgetEndedSession ==
  /\ place = "recent" /\ place' = "gone"
  /\ UNCHANGED <<usesRedis, call, key, recording, finalizer, remembered, object,
                 row, saving, copy, lookup>>

\* The process restarts: its maps, finalizers and requests are gone.
Restart ==
  /\ place # "new" /\ place' = "gone"
  /\ recording' = FALSE /\ remembered' = FALSE
  /\ finalizer' = [f \in EndEvent |-> "done"]
  /\ saving' = NoCopy /\ lookup' = NoLookup
  /\ UNCHANGED <<usesRedis, call, key, object, row, copy>>

Finalizing(f) ==
  \/ Begin(f) \/ Take(f) \/ UploadRecording(f) \/ SaveS3KeyToDb(f) \/ Complete(f)

Next ==
  \/ StartStream \/ SaveEndedSession \/ CopyExpires
  \/ \E f \in EndEvent : Finalizing(f)
  \/ \E route \in Routes : Ask(route)
  \/ Resolve \/ ReadRows \/ ResolveRecordingLookup \/ ReadRow \/ AskBucket
  \/ ClearOldRecordings \/ ForgetEndedSession \/ Restart

Spec == Init /\ [][Next]_vars

-----------------------------------------------------------------------------

\* A recording that the database and Redis keep is found, whatever the
\* process has forgotten, whichever route asks, and though the session was
\* copied to Redis before its recording was there, unless S3 itself refuses
\* it; and what is found is in the bucket.
KeptRecordingIsFound ==
  lookup.part = "answered" =>
    /\ lookup.promised => lookup.answer \notin {"none", "unknown"}
    /\ lookup.answer = "found" => object
=============================================================================
