------------------------------ MODULE Campaigns ------------------------------
(***************************************************************************)
(* One outbound campaign: CampaignsService with the campaign and the retry *)
(* queue, their processors, and the calls they create.                     *)
(*                                                                         *)
(* Scheduling and retrying read the campaign first, then queue one job per *)
(* customer or failed call, or run it themselves without Redis; requests   *)
(* overlap.  Any of their queries may reject, and either process may stop. *)
(* The telephone is not connected yet: a provider's webhook, or a test,    *)
(* reports how a call went.                                                *)
(***************************************************************************)
EXTENDS Naturals, FiniteSets

CONSTANTS
  Customer,    \* customers that may be added to the campaign
  Request,     \* requests to schedule or to retry
  MaxCalls     \* calls of one behaviour

VARIABLES
  redis,       \* jobs are queued, one worker per queue runs them
  status,      \* of the campaign
  members,     \* campaignCustomer rows
  request,     \* Request -> what is left to queue: customers and failed calls
  jobs,        \* the job of each call, in the order they were queued
  calls,       \* call rows: customer and status, one per job that ran
  lost         \* jobs that ended between creating their call and initiating it:
               \* a query of theirs rejected, or their process stopped

vars == <<redis, status, members, request, jobs, calls, lost>>

None == [op |-> "none", todo |-> {}]

\* A job is numbered by the call it creates.
Numbers == 1..MaxCalls
\* `rerun' when an earlier run of it was stalled.
NoJob == [phase |-> "none", by |-> "none", queue |-> "none", rerun |-> FALSE]
NoCall == "none"

Init ==
  /\ redis \in BOOLEAN
  /\ status = "draft" /\ members = {}
  /\ request = [r \in Request |-> None]
  /\ jobs = [n \in Numbers |-> NoJob]
  /\ calls = [n \in Numbers |-> NoCall]
  /\ lost = {}

-----------------------------------------------------------------------------
(* The console.                                                            *)

\* create and update leave a draft; addCustomers skips the ones it has.
AddCustomers ==
  /\ \E added \in SUBSET Customer \ {{}} : members' = members \union added
  /\ UNCHANGED <<redis, status, request, jobs, calls, lost>>

\* schedule, up to the read of the campaign and its customers.
ReadForSchedule(r) ==
  /\ request[r] = None
  /\ status \in {"draft", "paused"} /\ members # {}
  /\ request' = [request EXCEPT ![r] = [op |-> "schedule", todo |-> members]]
  /\ UNCHANGED <<redis, status, members, jobs, calls, lost>>

MarkScheduled(r) ==
  /\ request[r].op = "schedule"
  /\ status' = "scheduled"
  /\ request' = [request EXCEPT ![r].op = "campaign"]
  /\ UNCHANGED <<redis, members, jobs, calls, lost>>

\* retryFailed: every call that failed, each time it is asked.
RetryFailed(r) ==
  /\ request[r] = None
  /\ request' = [request EXCEPT ![r] =
       [op |-> "retry", todo |-> {n \in Numbers : calls[n] = "failed"}]]
  /\ UNCHANGED <<redis, status, members, jobs, calls, lost>>

Fresh(n) == jobs[n] = NoJob /\ \A m \in 1..(n - 1) : jobs[m] # NoJob

\* Without Redis a job is processed before the request goes on.
Waits(r) == \E n \in Numbers : ~redis /\ jobs[n].by = r /\ jobs[n].phase # "done"

Enqueue(r) ==
  /\ request[r].op \in {"campaign", "retry"} /\ ~Waits(r)
  /\ \E one \in request[r].todo, n \in Numbers :
       /\ Fresh(n)
       /\ jobs' = [jobs EXCEPT ![n] =
            [phase |-> "waiting", by |-> r, queue |-> request[r].op, rerun |-> FALSE]]
       /\ request' = [request EXCEPT ![r].todo = @ \ {one}]
  /\ UNCHANGED <<redis, status, members, calls, lost>>

\* Its last job was queued; or the update, the queue or, without Redis, the note
\* of an initiated call rejects, and what is left is never queued.
EndRequest(r) ==
  /\ request[r] # None /\ ~Waits(r)
  /\ request' = [request EXCEPT ![r] = None]
  /\ UNCHANGED <<redis, status, members, jobs, calls, lost>>

\* Jobs that are queued stay queued.
Pause ==
  /\ status \in {"running", "scheduled"}
  /\ status' = "paused"
  /\ UNCHANGED <<redis, members, request, jobs, calls, lost>>

Resume ==
  /\ status = "paused"
  /\ status' = "running"
  /\ UNCHANGED <<redis, members, request, jobs, calls, lost>>

-----------------------------------------------------------------------------
(* CampaignCallProcessor and CallRetryProcessor.                           *)

Busy(n) == jobs[n].phase \in {"created", "noted"}

\* One worker per queue.
MayStart(n) ==
  /\ jobs[n].phase = "waiting"
  /\ \A m \in Numbers : redis /\ jobs[m].queue = jobs[n].queue => ~Busy(m)

\* The job's call row is created as queued.
CreateCall(n) ==
  /\ MayStart(n)
  /\ jobs' = [jobs EXCEPT ![n].phase = "created"]
  /\ calls' = [calls EXCEPT ![n] = "queued"]
  /\ UNCHANGED <<redis, status, members, request, lost>>

NoteEvent(n) ==
  /\ jobs[n].phase = "created"
  /\ jobs' = [jobs EXCEPT ![n].phase = "noted"]
  /\ UNCHANGED <<redis, status, members, request, calls, lost>>

InitiateNothing(n) ==
  /\ jobs[n].phase = "noted"
  /\ jobs' = [jobs EXCEPT ![n].phase = "done"]
  /\ UNCHANGED <<redis, status, members, request, calls, lost>>

\* The event noted after it changes nothing here when it rejects.
Initiate(n) ==
  /\ jobs[n].phase = "noted"
  /\ jobs' = [jobs EXCEPT ![n].phase = "done"]
  /\ calls' = [calls EXCEPT ![n] = "initiated"]
  /\ UNCHANGED <<redis, status, members, request, lost>>

\* The call is not connected; its status comes from the provider's webhook.
CallFails(n) ==
  /\ calls[n] = "initiated"
  /\ calls' = [calls EXCEPT ![n] = "failed"]
  /\ UNCHANGED <<redis, status, members, request, jobs, lost>>

Lost(n) == lost' = IF Busy(n) THEN lost \union {n} ELSE lost

\* A query of the job rejects, that of its call row, of its first event or of
\* the update; without Redis its request gets the error and ends.
JobRejects(n) ==
  /\ MayStart(n) \/ Busy(n)
  /\ Lost(n)
  /\ jobs' = [jobs EXCEPT ![n].phase = "done"]
  /\ request' = [r \in Request |-> IF ~redis /\ jobs[n].by = r THEN None ELSE request[r]]
  /\ UNCHANGED <<redis, status, members, calls>>

\* The worker stops.  Its stalled job runs once more and creates another call,
\* the first stays queued.
WorkerStops(n) ==
  /\ redis /\ Busy(n)
  /\ Lost(n)
  /\ \/ /\ jobs[n].rerun
        /\ jobs' = [jobs EXCEPT ![n].phase = "done"]
     \/ \E again \in Numbers :
          /\ ~jobs[n].rerun /\ Fresh(again)
          /\ jobs' = [jobs EXCEPT ![n].phase = "done",
               ![again] = [jobs[n] EXCEPT !.phase = "waiting", !.rerun = TRUE]]
  /\ UNCHANGED <<redis, status, members, request, calls>>

\* The API stops, with the requests it handles and, without Redis, their jobs.
ApiStops ==
  /\ \E r \in Request : request[r] # None
  /\ request' = [r \in Request |-> None]
  /\ lost' = IF redis THEN lost ELSE lost \union {n \in Numbers : Busy(n)}
  /\ jobs' = [n \in Numbers |->
       IF ~redis /\ jobs[n] # NoJob THEN [jobs[n] EXCEPT !.phase = "done"] ELSE jobs[n]]
  /\ UNCHANGED <<redis, status, members, calls>>

Next ==
  \/ AddCustomers \/ Pause \/ Resume
  \/ \E r \in Request :
       \/ ReadForSchedule(r) \/ MarkScheduled(r) \/ RetryFailed(r)
       \/ Enqueue(r) \/ EndRequest(r)
  \/ \E n \in Numbers :
       \/ CreateCall(n) \/ NoteEvent(n) \/ Initiate(n) \/ CallFails(n)
       \/ JobRejects(n) \/ WorkerStops(n)
  \/ ApiStops

Spec == Init /\ [][Next]_vars

-----------------------------------------------------------------------------

\* A call shown as queued is one that its processor is about to initiate, unless
\* that very job ended in between: a query of it rejected, or its process
\* stopped.
QueuedHasProcessor ==
  \A n \in Numbers : calls[n] = "queued" => Busy(n) \/ n \in lost

=============================================================================
