--------------------------- MODULE TranscriptEmail ---------------------------
(***************************************************************************)
(* The mail with a call's transcript: TranscriptEmailService, its log rows *)
(* in the database and its BullMQ queue, for one call.                     *)
(*                                                                         *)
(* A request is the one the post-call job makes when the transcript is     *)
(* final (`auto') or one of the console (`manual', or `resend' for a       *)
(* deliberate repeat).  It looks for a mail already sent, writes its log   *)
(* row and queues a job; without Redis the job runs at once in the API.    *)
(* The worker runs one job at a time and a failed one three times.         *)
(***************************************************************************)
EXTENDS Naturals, FiniteSets

CONSTANTS
  Request,      \* the requests for this call, each with its own log row
  KindOf,       \* Request -> {"auto", "manual", "resend"}
  MaxFaults     \* errors, crashes and redeployments of one behaviour

EmailAssumption ==
  /\ IsFiniteSet(Request)
  /\ KindOf \in [Request -> {"auto", "manual", "resend"}]
  /\ MaxFaults \in Nat

Attempts == 3
MaxStalls == 1     \* BullMQ's default, which no Worker of worker.ts changes

VARIABLES
  redis,       \* QueueService has a connection: jobs are queued
  enabled,     \* TRANSCRIPT_EMAIL_ENABLED
  recipients,  \* TRANSCRIPT_EMAIL_TO has a valid address
  authorized,  \* isAppInitiated of the stream's session is not false
  transcript,  \* lifecycleStatus of the call's transcript
  request,     \* Request -> what the API does for it
  log,         \* Request -> the status of its TranscriptEmailLog row
  job,         \* Request -> where its job is
  tries,       \* Request -> attemptsMade of its job: how often it failed
  stalls,      \* Request -> how often its worker died
  mails,       \* mails the SMTP server accepted for this call
  slips,       \* accepted mails whose job failed or was lost afterwards
  faults

vars == <<redis, enabled, recipients, authorized, transcript, request, log, job,
          tries, stalls, mails, slips, faults>>

config == <<redis, enabled, recipients, authorized>>

Running == {"resolving", "checking", "building", "sending", "sent"}

TypeOK ==
  /\ redis \in BOOLEAN /\ enabled \in BOOLEAN
  /\ recipients \in BOOLEAN /\ authorized \in BOOLEAN
  /\ transcript \in {"processing", "final"}
  /\ request \in [Request -> {"none", "checking", "creating", "queueing",
                              "queued", "duplicate", "rejected", "failed"}]
  /\ log \in [Request -> {"none", "pending", "sent", "failed", "skipped"}]
  /\ job \in [Request -> Running \union {"none", "waiting", "done", "lost"}]
  /\ tries \in [Request -> 0..Attempts] /\ stalls \in [Request -> 0..MaxStalls]
  /\ mails \in Nat /\ slips \in Nat /\ faults \in 0..MaxFaults

Init ==
  /\ redis \in BOOLEAN /\ enabled \in BOOLEAN
  /\ recipients \in BOOLEAN /\ authorized \in BOOLEAN
  /\ transcript = "processing"
  /\ request = [r \in Request |-> "none"]
  /\ log = [r \in Request |-> "none"]
  /\ job = [r \in Request |-> "none"]
  /\ tries = [r \in Request |-> 0] /\ stalls = [r \in Request |-> 0]
  /\ mails = 0 /\ slips = 0 /\ faults = 0

Fault == faults < MaxFaults /\ faults' = faults + 1

\* findSentLog: a row of this call, other than the one excluded, that is sent.
SentLog(excluded) == \E r \in Request \ excluded : log[r] = "sent"

-----------------------------------------------------------------------------
(* The request, in the API process.                                        *)

Asks(r, phase, row) ==
  /\ request' = [request EXCEPT ![r] = phase]
  /\ log' = [log EXCEPT ![r] = row]

\* enqueueAfterFinalTranscript, up to its query for a duplicate.
EnqueueAfterFinalTranscript(r) ==
  /\ KindOf[r] = "auto" /\ request[r] = "none" /\ transcript = "final"
  /\ IF enabled /\ recipients THEN Asks(r, "checking", "none")
                              ELSE Asks(r, "rejected", "skipped")
  /\ UNCHANGED <<config, transcript, job, tries, stalls, mails, slips, faults>>

\* requestManualSend, up to its query for a duplicate, which a resend skips.
RequestManualSend(r) ==
  /\ KindOf[r] # "auto" /\ request[r] = "none"
  /\ request' = [request EXCEPT ![r] =
       IF ~enabled \/ transcript # "final" \/ ~recipients THEN "rejected"
       ELSE IF KindOf[r] = "resend" THEN "creating" ELSE "checking"]
  /\ UNCHANGED <<config, transcript, log, job, tries, stalls, mails, slips, faults>>

\* An automatic duplicate is noted in a row of its own; a manual one is
\* answered with the row found.
FindDuplicate(r) ==
  /\ request[r] = "checking"
  /\ IF SentLog({})
       THEN Asks(r, "duplicate", IF KindOf[r] = "auto" THEN "skipped" ELSE "none")
       ELSE Asks(r, "creating", "none")
  /\ UNCHANGED <<config, transcript, job, tries, stalls, mails, slips, faults>>

CreateLog(r) ==
  /\ request[r] = "creating"
  /\ Asks(r, "queueing", "pending")
  /\ UNCHANGED <<config, transcript, job, tries, stalls, mails, slips, faults>>

\* enqueueTranscriptEmail; when nothing is queued, sendTranscriptEmail is
\* started in this process and not awaited.
EnqueueTranscriptEmail(r) ==
  /\ request[r] = "queueing"
  /\ request' = [request EXCEPT ![r] = "queued"]
  /\ job' = [job EXCEPT ![r] = IF redis THEN "waiting" ELSE "resolving"]
  /\ UNCHANGED <<config, transcript, log, tries, stalls, mails, slips, faults>>

\* A query or the queue throws: the row a request had written stays pending.
RequestThrows(r) ==
  /\ request[r] \in {"checking", "creating", "queueing"}
  /\ Fault
  /\ request' = [request EXCEPT ![r] = "failed"]
  /\ UNCHANGED <<config, transcript, log, job, tries, stalls, mails, slips>>

-----------------------------------------------------------------------------
(* The job, sendTranscriptEmail.                                           *)

\* One Worker with BullMQ's default concurrency.
WorkerStarts(r) ==
  /\ job[r] = "waiting"
  /\ \A other \in Request : job[other] \notin Running
  /\ job' = [job EXCEPT ![r] = "resolving"]
  /\ UNCHANGED <<config, transcript, request, log, tries, stalls, mails, slips, faults>>

\* resolveCallIdentity and getOrCreatePendingLog find the call and the row.
Resolve(r) ==
  /\ job[r] = "resolving"
  /\ job' = [job EXCEPT ![r] = "checking"]
  /\ UNCHANGED <<config, transcript, request, log, tries, stalls, mails, slips, faults>>

Settles(r, row) ==
  /\ log' = [log EXCEPT ![r] = row]
  /\ job' = [job EXCEPT ![r] = "done"]

\* The checks before the mail is composed.
RefusedUnchecked(r) == ~enabled \/ ~authorized

Refused(r) ==
  ~enabled \/ ~authorized \/ (KindOf[r] # "resend" /\ SentLog({r}))

CheckBeforeSend(r) ==
  /\ job[r] = "checking"
  /\ IF Refused(r) THEN Settles(r, "skipped")
     ELSE job' = [job EXCEPT ![r] = "building"] /\ UNCHANGED log
  /\ UNCHANGED <<config, transcript, request, tries, stalls, mails, slips, faults>>

\* buildEmailData refuses a transcript that is not final with a
\* BadRequestException, which the job does not retry.
BuildEmailData(r) ==
  /\ job[r] = "building"
  /\ IF transcript = "final"
       THEN job' = [job EXCEPT ![r] = "sending"] /\ UNCHANGED log
       ELSE Settles(r, "skipped")
  /\ UNCHANGED <<config, transcript, request, tries, stalls, mails, slips, faults>>

\* EmailService.send: the SMTP server takes the mail.
Send(r) ==
  /\ job[r] = "sending"
  /\ mails' = mails + 1
  /\ job' = [job EXCEPT ![r] = "sent"]
  /\ UNCHANGED <<config, transcript, request, log, tries, stalls, slips, faults>>

MarkSent(r) ==
  /\ job[r] = "sent"
  /\ Settles(r, "sent")
  /\ UNCHANGED <<config, transcript, request, tries, stalls, mails, slips, faults>>

\* BullMQ queues a failed job again, with a delay, until its attempts are used.
FailedForGood(r) == "lost"

FailedJob(r) ==
  IF redis /\ tries[r] + 1 < Attempts THEN "waiting" ELSE "lost"

\* A query, the SMTP server or the update to sent fails.  What fails before
\* the try block leaves the row as it is; the catch block writes failed.
JobThrows(r) ==
  /\ job[r] \in Running
  /\ Fault
  /\ log' = [log EXCEPT ![r] = IF job[r] = "resolving" THEN @ ELSE "failed"]
  /\ slips' = IF job[r] = "sent" THEN slips + 1 ELSE slips
  /\ job' = [job EXCEPT ![r] = FailedJob(r)]
  /\ tries' = [tries EXCEPT ![r] = IF redis THEN @ + 1 ELSE @]
  /\ UNCHANGED <<config, transcript, request, stalls, mails>>

\* The process that runs the job dies.  A queued job is stalled and another
\* worker takes it, once; one that ran in the API is lost with its process.
Crash(r) ==
  /\ job[r] \in Running
  /\ Fault
  /\ slips' = IF job[r] = "sent" THEN slips + 1 ELSE slips
  /\ IF redis /\ stalls[r] < MaxStalls
       THEN /\ job' = [job EXCEPT ![r] = "waiting"]
            /\ stalls' = [stalls EXCEPT ![r] = @ + 1]
       ELSE job' = [job EXCEPT ![r] = "lost"] /\ UNCHANGED stalls
  /\ UNCHANGED <<config, transcript, request, log, tries, mails>>

-----------------------------------------------------------------------------
(* The surroundings: the post-call job finalizes the transcript, a retry   *)
(* of it takes the transcript back for a while, an operator turns the      *)
(* delivery off and restarts the processes.                                *)

Finalize ==
  /\ transcript = "processing"
  /\ transcript' = "final"
  /\ UNCHANGED <<config, request, log, job, tries, stalls, mails, slips, faults>>

Reprocess ==
  /\ transcript = "final" /\ Fault
  /\ transcript' = "processing"
  /\ UNCHANGED <<config, request, log, job, tries, stalls, mails, slips>>

Disable ==
  /\ enabled /\ Fault
  /\ \A r \in Request : job[r] \notin Running /\ request[r] # "checking"
  /\ enabled' = FALSE
  /\ UNCHANGED <<redis, recipients, authorized, transcript, request, log, job, tries,
                 stalls, mails, slips>>

RequestStep(r) ==
  \/ FindDuplicate(r) \/ CreateLog(r) \/ EnqueueTranscriptEmail(r)

JobStep(r) ==
  \/ WorkerStarts(r) \/ Resolve(r) \/ CheckBeforeSend(r)
  \/ BuildEmailData(r) \/ Send(r) \/ MarkSent(r)

Next ==
  \/ \E r \in Request :
       \/ EnqueueAfterFinalTranscript(r) \/ RequestManualSend(r) \/ RequestThrows(r)
       \/ RequestStep(r) \/ JobStep(r) \/ JobThrows(r) \/ Crash(r)
  \/ Finalize \/ Reprocess \/ Disable

\* The worker goes on with the jobs that are queued.
Fairness == WF_vars(\E r \in Request : JobStep(r))

Spec == Init /\ [][Next]_vars /\ Fairness

-----------------------------------------------------------------------------

\* With the queue, the customer's team gets one mail per call and one more for
\* every resend, plus one for every mail whose job failed or died before its
\* row said sent: neither a console request that overlaps the automatic one,
\* nor a retry, nor a second run of the post-call job adds one.
MailedOnce ==
  redis => mails <= 1 + slips
                      + Cardinality({r \in Request : KindOf[r] = "resend"})

\* A row whose job is queued does not stay `queued' in the console, whatever
\* fails within the job's attempts, unless its worker died and it is given up.
\* (Again and again: requests run out, and a row that is settled stays so.)
LogSettles ==
  []<>(\A r \in Request : redis /\ job[r] # "none" =>
         log[r] # "pending" \/ stalls[r] = MaxStalls)
=============================================================================
