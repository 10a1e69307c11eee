-------------------------- MODULE ProviderWebhooks --------------------------
(***************************************************************************)
(* The telephony provider's webhook and the summary of a call's            *)
(* transcript: CallsService.handleProviderWebhook, storeTranscript and     *)
(* generateAndStoreSummary with the summary queue, for one call.           *)
(*                                                                         *)
(* A webhook awaits one write after another, with other webhooks of the    *)
(* same call in between, in any order the provider's requests arrive.      *)
(***************************************************************************)
CONSTANTS
  Hook,       \* the webhooks the provider sends for the call
  StatusOf,   \* Hook -> the status it reports, "none" for none
  TextOf,     \* Hook -> the transcript in its payload
  NoText      \* no transcript, no summary

VARIABLES
  redis,        \* summary jobs are queued for the worker
  status,       \* of the call
  ended,        \* endedAt is set
  transcript,   \* content of the call's transcript
  summary,      \* the text its summary was made of
  hook,         \* Hook -> what its handler does next
  job,          \* Hook -> phase of the summary it asked for
  reads,        \* Hook -> the text that summary is made of
  unmade        \* a summary failed, or a process stopped before it was made

vars == <<redis, status, ended, transcript, summary, hook, job, reads, unmade>>

Init ==
  /\ redis \in BOOLEAN
  /\ status = "initiated" /\ ended = FALSE
  /\ transcript = NoText /\ summary = NoText
  /\ hook = [h \in Hook |-> "none"]
  /\ job = [h \in Hook |-> "none"]
  /\ reads = [h \in Hook |-> NoText]
  /\ unmade = FALSE

Handles(h, now, next) == hook[h] = now /\ hook' = [hook EXCEPT ![h] = next]

\* The call is found by its id or providerRef; otherwise nothing happens.
HandleProviderWebhook(h) ==
  /\ Handles(h, "none", IF StatusOf[h] # "none" THEN "updating" ELSE "recording")
  /\ UNCHANGED <<redis, status, ended, transcript, summary, job, reads, unmade>>

\* Any status overwrites any other.
UpdateStatus(h) ==
  /\ Handles(h, "updating", "notifying")
  /\ status' = StatusOf[h]
  /\ ended' = (ended \/ StatusOf[h] = "completed")
  /\ UNCHANGED <<redis, transcript, summary, job, reads, unmade>>

\* notifyStatusChange is awaited and swallows its errors.
NotifyStatusChange(h) ==
  /\ Handles(h, "notifying", "recording")
  /\ UNCHANGED <<redis, status, ended, transcript, summary, job, reads, unmade>>

RecordEvent(h) ==
  /\ Handles(h, "recording", IF TextOf[h] # NoText THEN "storing" ELSE "done")
  /\ UNCHANGED <<redis, status, ended, transcript, summary, job, reads, unmade>>

StoreTranscript(h) ==
  /\ Handles(h, "storing", "queueing")
  /\ transcript' = TextOf[h]
  /\ UNCHANGED <<redis, status, ended, summary, job, reads, unmade>>

\* Without Redis the summary is made of the text of this request, in it.
EnqueueSummary(h) ==
  /\ Handles(h, "queueing", "done")
  /\ job' = [job EXCEPT ![h] = IF redis THEN "waiting" ELSE "asking"]
  /\ reads' = [reads EXCEPT ![h] = IF redis THEN NoText ELSE TextOf[h]]
  /\ UNCHANGED <<redis, status, ended, transcript, summary, unmade>>

PayloadText(h) == TextOf[h]

\* The job reads the transcript the call has by then.
SummaryText(h) == transcript

\* The worker runs one summary at a time.
SummaryJobStarts(h) ==
  /\ job[h] = "waiting"
  /\ \A other \in Hook : job[other] # "asking"
  /\ job' = [job EXCEPT ![h] = "asking"]
  /\ reads' = [reads EXCEPT ![h] = SummaryText(h)]
  /\ UNCHANGED <<redis, status, ended, transcript, summary, hook, unmade>>

\* The model answers for the summary and the sentiment, and both are stored.
StoreSummary(h) ==
  /\ job[h] = "asking"
  /\ summary' = reads[h]
  /\ job' = [job EXCEPT ![h] = "done"]
  /\ UNCHANGED <<redis, status, ended, transcript, hook, reads, unmade>>

\* No attempt is repeated.
SummaryFails(h) ==
  /\ job[h] = "asking"
  /\ job' = [job EXCEPT ![h] = "done"]
  /\ unmade' = TRUE
  /\ UNCHANGED <<redis, status, ended, transcript, summary, hook, reads>>

\* The worker stops, and another runs the stalled job again.
WorkerStops(h) ==
  /\ redis /\ job[h] = "asking"
  /\ job' = [job EXCEPT ![h] = "waiting"]
  /\ UNCHANGED <<redis, status, ended, transcript, summary, hook, reads, unmade>>

\* A write throws or the API stops: the rest of the handler does not run.
HandlerStops(h) ==
  /\ hook[h] \notin {"none", "done"}
  /\ hook' = [hook EXCEPT ![h] = "done"]
  /\ unmade' = (unmade \/ hook[h] = "queueing")
  /\ UNCHANGED <<redis, status, ended, transcript, summary, job, reads>>

Next ==
  \E h \in Hook :
    \/ HandleProviderWebhook(h) \/ UpdateStatus(h) \/ NotifyStatusChange(h)
    \/ RecordEvent(h) \/ StoreTranscript(h) \/ EnqueueSummary(h)
    \/ SummaryJobStarts(h) \/ StoreSummary(h) \/ SummaryFails(h)
    \/ WorkerStops(h) \/ HandlerStops(h)

Spec == Init /\ [][Next]_vars

-----------------------------------------------------------------------------

Quiet == \A h \in Hook : hook[h] \in {"none", "done"} /\ job[h] \in {"none", "done"}

\* With the queue, once the webhooks are handled and their jobs have run, the
\* summary is one of the transcript the call has, in whatever order two
\* webhooks with a transcript are received, stored, queued and summarised.
SummaryIsCurrent == (redis /\ Quiet /\ ~unmade) => summary = transcript

=============================================================================
