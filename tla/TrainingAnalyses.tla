-------------------------- MODULE TrainingAnalyses --------------------------
(***************************************************************************)
(* Training call intelligence: TrainingCallAnalysisService with its        *)
(* controller, queue and processor, for one training recording and the     *)
(* insight reports.                                                        *)
(*                                                                         *)
(* A request of the console reads the analysis, marks it pending and       *)
(* queues a job; without Redis the job starts at once in the API.  A job   *)
(* reads again, marks the analysis processing, asks the language model and *)
(* writes the outcome.  Jobs are not retried.  Any of these queries may    *)
(* reject, and either process may stop: then what was marked stays so.     *)
(***************************************************************************)
EXTENDS Naturals

CONSTANTS
  Request,     \* requests of the console, each with its job
  KindOf       \* Request -> {"analyze", "reanalyze", "all", "insights"}

AnalysisAssumption ==
  KindOf \in [Request -> {"analyze", "reanalyze", "all", "insights"}]

VARIABLES
  redis,       \* jobs are queued for the one worker
  text,        \* the recording has a transcript
  analysis,    \* status of its trainingRecordingAnalysis, "none" without one
  report,      \* Request -> status of the last insight report its job created
  request,     \* Request -> where the API is with it
  job,         \* Request -> where its job is
  marker,      \* the request that, or whose job, last marked the analysis
  lost         \* requests that may write no outcome: a query of theirs
               \* rejected, their process stopped, or the transcript was reset

vars == <<redis, text, analysis, report, request, job, marker, lost>>

Init ==
  /\ redis \in BOOLEAN
  /\ text = FALSE /\ analysis = "none"
  /\ report = [r \in Request |-> "none"]
  /\ request = [r \in Request |-> "none"]
  /\ job = [r \in Request |-> "none"]
  /\ marker = "none" /\ lost = {}

Asked(r) == request[r] \in {"marking", "queueing"}
Running(r) == job[r] \in {"started", "marking", "asking"}
Busy(r) == Asked(r) \/ job[r] = "waiting" \/ Running(r)

\* `reanalyze' is false in a job for all recordings.
Settled(r) == analysis \in {"completed", "processing"} /\ KindOf[r] # "reanalyze"

RequestAt(r, phase) == request' = [request EXCEPT ![r] = phase]
JobAt(r, phase) == job' = [job EXCEPT ![r] = phase]

-----------------------------------------------------------------------------
(* The controller.                                                         *)

\* enqueueRecordingAnalysis, up to its query; a recording without transcript
\* is refused, and left out of a job for all.
EnqueueRecordingAnalysis(r) ==
  /\ request[r] = "none" /\ KindOf[r] # "insights"
  /\ RequestAt(r, IF ~text
                    THEN IF KindOf[r] = "all" THEN "queueing" ELSE "rejected"
                    ELSE IF Settled(r) THEN "queueing" ELSE "marking")
  /\ UNCHANGED <<redis, text, analysis, report, job, marker, lost>>

MarkPending(r) ==
  /\ request[r] = "marking"
  /\ analysis' = "pending" /\ marker' = r
  /\ RequestAt(r, "queueing")
  /\ UNCHANGED <<redis, text, report, job, lost>>

GenerateInsights(r) ==
  /\ request[r] = "none" /\ KindOf[r] = "insights"
  /\ RequestAt(r, "queueing")
  /\ UNCHANGED <<redis, text, analysis, report, job, marker, lost>>

EnqueueTrainingAnalysis(r) ==
  /\ request[r] = "queueing"
  /\ RequestAt(r, "queued")
  /\ JobAt(r, IF redis THEN "waiting" ELSE "started")
  /\ UNCHANGED <<redis, text, analysis, report, marker, lost>>

\* The upsert rejects, or the queue does: its job may have been added.  The
\* upsert of another recording fails a request for all in the same way.
RequestRejects(r) ==
  /\ Asked(r)
  /\ lost' = lost \union {r}
  /\ RequestAt(r, "gone")
  /\ \/ UNCHANGED job
     \/ redis /\ request[r] = "queueing" /\ JobAt(r, "waiting")
  /\ UNCHANGED <<redis, text, analysis, report, marker>>

-----------------------------------------------------------------------------
(* The processor.                                                          *)

WorkerStarts(r) ==
  /\ job[r] = "waiting" /\ \A other \in Request : redis => ~Running(other)
  /\ JobAt(r, "started")
  /\ UNCHANGED <<redis, text, analysis, report, request, marker, lost>>

\* analyzeRecording, up to its query.
AnalyzeRecording(r) ==
  /\ job[r] = "started" /\ KindOf[r] # "insights"
  /\ JobAt(r, IF ~text \/ Settled(r) THEN "done" ELSE "marking")
  /\ UNCHANGED <<redis, text, analysis, report, request, marker, lost>>

\* A job that comes so far, again after a stop, has the transcript in hand.
MarkProcessing(r) ==
  /\ job[r] = "marking"
  /\ analysis' = "processing" /\ marker' = r
  /\ lost' = lost \ {r}
  /\ JobAt(r, "asking")
  /\ UNCHANGED <<redis, text, report, request>>

\* generateAggregateInsights creates its report before it looks for analyses.
CreateReport(r) ==
  /\ job[r] = "started" /\ KindOf[r] = "insights"
  /\ report' = [report EXCEPT ![r] = "processing"]
  /\ JobAt(r, "asking")
  /\ UNCHANGED <<redis, text, analysis, request, marker, lost>>

AnalysisCompletes(r) ==
  /\ job[r] = "asking" /\ KindOf[r] # "insights"
  /\ analysis' = "completed"
  /\ JobAt(r, "done")
  /\ UNCHANGED <<redis, text, report, request, marker, lost>>

AnalysisThrows(r) ==
  /\ job[r] = "asking" /\ KindOf[r] # "insights"
  /\ JobAt(r, "done")
  /\ UNCHANGED <<redis, text, analysis, report, request, marker, lost>>

\* callLlm, the parser of its answer or the update throws, and the catch block
\* notes it.
AnalysisFails(r) ==
  /\ job[r] = "asking" /\ KindOf[r] # "insights"
  /\ analysis' = "failed"
  /\ JobAt(r, "done")
  /\ UNCHANGED <<redis, text, report, request, marker, lost>>

\* Without a completed analysis the report fails.
ReportEnds(r) ==
  /\ job[r] = "asking" /\ KindOf[r] = "insights"
  /\ \/ analysis = "completed" /\ report' = [report EXCEPT ![r] = "completed"]
     \/ report' = [report EXCEPT ![r] = "failed"]
  /\ JobAt(r, "done")
  /\ UNCHANGED <<redis, text, analysis, request, marker, lost>>

\* A query before the try block rejects, or the update of the catch block does.
JobRejects(r) ==
  /\ Running(r)
  /\ lost' = lost \union {r}
  /\ JobAt(r, "done")
  /\ UNCHANGED <<redis, text, analysis, report, request, marker>>

\* The worker stops; its job is stalled and runs again, or fails if it was
\* stalled before.
WorkerStops(r) ==
  /\ redis /\ Running(r)
  /\ lost' = lost \union {r}
  /\ \E phase \in {"waiting", "done"} : JobAt(r, phase)
  /\ UNCHANGED <<redis, text, analysis, report, request, marker>>

\* The API stops with the requests it handles, of which some may have added
\* their job, and, without Redis, with the jobs.
ApiStops ==
  /\ \E r \in Request : Asked(r) \/ (~redis /\ Running(r))
  /\ lost' = lost \union {r \in Request : Asked(r) \/ (~redis /\ Running(r))}
  /\ request' = [r \in Request |-> IF Asked(r) THEN "gone" ELSE request[r]]
  /\ \E added \in SUBSET {r \in Request : redis /\ request[r] = "queueing"} :
       job' = [r \in Request |-> IF r \in added THEN "waiting"
                                 ELSE IF ~redis /\ Running(r) THEN "done" ELSE job[r]]
  /\ UNCHANGED <<redis, text, analysis, report, marker>>

-----------------------------------------------------------------------------
(* The recordings page transcribes the recording, or resets its transcript. *)

Transcribe ==
  /\ ~text /\ text' = TRUE
  /\ UNCHANGED <<redis, analysis, report, request, job, marker, lost>>

\* A second transcription, too, hides the recording from a job for all.
ResetTranscription ==
  /\ text /\ text' = FALSE
  /\ lost' = lost \union
       {r \in Request : Asked(r) \/ job[r] \in {"waiting", "started"}}
  /\ UNCHANGED <<redis, analysis, report, request, job, marker>>

Next ==
  \/ \E r \in Request :
       \/ EnqueueRecordingAnalysis(r) \/ MarkPending(r) \/ GenerateInsights(r)
       \/ EnqueueTrainingAnalysis(r) \/ RequestRejects(r)
       \/ WorkerStarts(r) \/ AnalyzeRecording(r)
       \/ MarkProcessing(r) \/ CreateReport(r) \/ AnalysisCompletes(r)
       \/ AnalysisFails(r) \/ ReportEnds(r) \/ JobRejects(r) \/ WorkerStops(r)
  \/ ApiStops
  \/ Transcribe \/ ResetTranscription

Spec == Init /\ [][Next]_vars

-----------------------------------------------------------------------------

\* Whoever last marked the analysis pending or processing is still at work on
\* it, whatever requests, jobs and the stale reads of both interleave, or is one
\* that a rejecting query, a stop or a transcript reset kept from an outcome;
\* another's loss is no excuse.  The same for a report and its job.
InProgressHasJob ==
  /\ analysis \in {"pending", "processing"} => Busy(marker) \/ marker \in lost
  /\ \A r \in Request : report[r] = "processing" => Running(r) \/ r \in lost

=============================================================================
