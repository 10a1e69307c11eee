----------------------------- MODULE MCAfterCall -----------------------------
(* What follows a call, and the work of the console around calls: ten      *)
(* components on one small instance each, for TLC.  A behaviour is one of  *)
(* the component named by part (PostCall: "transcript"); the variables of  *)
(* the others keep one initial value of theirs.                            *)
EXTENDS MCPostCall, TLC

CONSTANTS
  Mail, MailKind, MailFaults,                    \* TranscriptEmail
  Playbook, Lookup, NoPlaybook, Ttl,             \* Playbooks
  Analysis, AnalysisKind,                        \* TrainingAnalyses
  Transcriber, Tuner,                            \* TrainingRecordings
  Hook, HookStatus, HookText, NoText,            \* ProviderWebhooks
  Customer, CampaignRequest, MaxCalls,           \* Campaigns
  MaxStarts, MaxPosts, PageFaults,               \* ConsolePages
  MaxSessions, MaxLive, StreamIds, Exotel, Matching, MaxRecent, SharedRecent,
  PageSize, MaxLost                              \* SessionLists

\* The requests and webhooks of the instance, and what each asks for.
CONSTANTS r1, r2, r3, a1, a2, a3, h1, h2, h3

VARIABLES
  part,
  redis,    \* the job queue has its connection, in every component
  enabled, recipients, authorized, transcript, mailRequest, log, mailJob,
  tries, stalls, mails, slips, mailFaults,
  status, activated, request, cache, lookup, gone,
  text, analysis, report, analysisRequest, analysisJob, analysisMarker, analysisLost,
  recording, transcriber, dataset, file, tuner, tuning, provider, refresh,
  cleared, marker,
  callStatus, callEnded, callText, summary, hook, summaryJob, reads, unmade,
  campaign, members, campaignRequest, campaignJobs, campaignCalls, campaignLost,
  usesRedis, place, call, key, live_recording, finalizer, remembered, object,
  s3Row, saving, copy, recordingLookup,
  query, server, drafts, insightJobs, open, data, fetch, post, told, starts,
  pagePosts, pageFaults,
  redisReady, streamOf, phase, endedAt, recent, savingSessions, index, stored,
  reader, listing, lost

emailVars == <<enabled, recipients, authorized, transcript, mailRequest, log, mailJob,
               tries, stalls, mails, slips, mailFaults>>
playbookVars == <<status, activated, request, cache, lookup, gone>>
analysisVars == <<text, analysis, report, analysisRequest, analysisJob, analysisMarker,
                  analysisLost>>
trainingVars == <<recording, transcriber, dataset, file, tuner, tuning, provider,
                  refresh, cleared, marker>>
webhookVars == <<callStatus, callEnded, callText, summary, hook, summaryJob, reads, unmade>>
campaignVars == <<campaign, members, campaignRequest, campaignJobs, campaignCalls,
                  campaignLost>>
lookupVars == <<usesRedis, place, call, key, live_recording, finalizer, remembered,
                object, s3Row, saving, copy, recordingLookup>>
pageVars == <<query, server, drafts, insightJobs, open, data, fetch, post, told,
              starts, pagePosts, pageFaults>>
listVars == <<redisReady, streamOf, phase, endedAt, recent, savingSessions,
              index, stored, reader, listing, lost>>
allVars == <<part, redis, vars, emailVars, playbookVars, analysisVars, trainingVars,
             webhookVars, campaignVars, lookupVars, pageVars, listVars>>

MCMailKind == r1 :> "auto" @@ r2 :> "manual" @@ r3 :> "resend"
MCAnalysisKind == a1 :> "all" @@ a2 :> "reanalyze" @@ a3 :> "insights"
MCHookStatus == h1 :> "in_progress" @@ h2 :> "completed" @@ h3 :> "none"
MCHookText == h1 :> NoText @@ h2 :> "early" @@ h3 :> "late"

TE == INSTANCE TranscriptEmail
        WITH Request <- Mail, KindOf <- MailKind, MaxFaults <- MailFaults,
             request <- mailRequest, job <- mailJob, faults <- mailFaults
PB == INSTANCE Playbooks
TA == INSTANCE TrainingAnalyses
        WITH Request <- Analysis, KindOf <- AnalysisKind,
             request <- analysisRequest, job <- analysisJob,
             marker <- analysisMarker, lost <- analysisLost
TR == INSTANCE TrainingRecordings
PW == INSTANCE ProviderWebhooks
        WITH StatusOf <- HookStatus, TextOf <- HookText,
             status <- callStatus, ended <- callEnded, transcript <- callText,
             job <- summaryJob
CP == INSTANCE Campaigns
        WITH Request <- CampaignRequest,
             status <- campaign, request <- campaignRequest, jobs <- campaignJobs,
             calls <- campaignCalls, lost <- campaignLost
RL == INSTANCE RecordingLookups
        WITH recording <- live_recording, row <- s3Row, lookup <- recordingLookup
PG == INSTANCE ConsolePages
        WITH MaxFaults <- PageFaults, queued <- redis, live <- drafts,
             jobs <- insightJobs, posts <- pagePosts, faults <- pageFaults

SL == INSTANCE SessionLists WITH saving <- savingSessions

\* Three stream ids, or one that a second session takes again.
MCStreamIds == {<<1, 2, 3>>, <<1, 1, 2>>}

ASSUME AfterCallAssumptions ==
  /\ TE!EmailAssumption /\ PB!PlaybookAssumption /\ TA!AnalysisAssumption
  /\ SL!ListsAssumption

MCInit ==
  /\ part \in {"transcript", "email", "playbook", "analysis", "training",
               "webhook", "campaign", "lookup", "page", "lists"}
  /\ redis \in BOOLEAN
  /\ part \in {"transcript", "playbook", "training", "lookup", "lists"} => redis
  /\ Init /\ (part # "transcript" => integration /\ postCall)
  /\ TE!Init /\ (part # "email" => enabled /\ recipients /\ authorized)
  /\ PB!Init /\ TA!Init /\ TR!Init /\ PW!Init /\ CP!Init
  /\ RL!Init /\ (part # "lookup" => usesRedis)
  /\ PG!Init /\ (part # "page" => query = "session")
  /\ SL!Init /\ (part # "lists" => redisReady /\ streamOf = <<1, 2, 3>>)

MCNext ==
  \/ /\ part = "transcript" /\ Next
     /\ UNCHANGED <<emailVars, playbookVars, analysisVars, trainingVars, webhookVars,
                    campaignVars, lookupVars, pageVars, listVars, redis, part>>
  \/ /\ part = "email" /\ TE!Next
     /\ UNCHANGED <<vars, playbookVars, analysisVars, trainingVars, webhookVars,
                    campaignVars, lookupVars, pageVars, listVars, part>>
  \/ /\ part = "playbook" /\ PB!Next
     /\ UNCHANGED <<vars, emailVars, analysisVars, trainingVars, webhookVars,
                    campaignVars, lookupVars, pageVars, listVars, redis, part>>
  \/ /\ part = "analysis" /\ TA!Next
     /\ UNCHANGED <<vars, emailVars, playbookVars, trainingVars, webhookVars,
                    campaignVars, lookupVars, pageVars, listVars, part>>
  \/ /\ part = "training" /\ TR!Next
     /\ UNCHANGED <<vars, emailVars, playbookVars, analysisVars, webhookVars,
                    campaignVars, lookupVars, pageVars, listVars, redis, part>>
  \/ /\ part = "webhook" /\ PW!Next
     /\ UNCHANGED <<vars, emailVars, playbookVars, analysisVars, trainingVars,
                    campaignVars, lookupVars, pageVars, listVars, part>>
  \/ /\ part = "campaign" /\ CP!Next
     /\ UNCHANGED <<vars, emailVars, playbookVars, analysisVars, trainingVars,
                    webhookVars, lookupVars, pageVars, listVars, part>>
  \/ /\ part = "lookup" /\ RL!Next
     /\ UNCHANGED <<vars, emailVars, playbookVars, analysisVars, trainingVars,
                    webhookVars, campaignVars, pageVars, listVars, redis, part>>
  \/ /\ part = "page" /\ PG!Next
     /\ UNCHANGED <<vars, emailVars, playbookVars, analysisVars, trainingVars,
                    webhookVars, campaignVars, lookupVars, listVars, part>>
  \/ /\ part = "lists" /\ SL!Next
     /\ UNCHANGED <<vars, emailVars, playbookVars, analysisVars, trainingVars,
                    webhookVars, campaignVars, lookupVars, pageVars, redis, part>>

\* The fairness of PostCall, TranscriptEmail and ConsolePages.
MCFairness ==
  /\ \A t \in Task : WF_vars(part = "transcript" /\ Advance(t))
  /\ WF_emailVars(part = "email" /\ \E r \in Mail : TE!JobStep(r))
  /\ WF_pageVars(part = "page" /\ PG!Poll)
  /\ WF_pageVars(part = "page" /\ PG!ServeFetch)
  /\ WF_pageVars(part = "page" /\ PG!FetchSucceeds)

MCSpec == MCInit /\ [][MCNext]_allVars /\ MCFairness

-----------------------------------------------------------------------------
(* What the modules promise (ResultIsWhole and TranscriptSettles are        *)
(* PostCall's own).                                                         *)

\* A transcript that is final, and the segments under it, are whole; and the
\* variables of PostCall have their types.
TranscriptIsWhole == TypeOK /\ FinalIsWhole /\ SegmentsAreWhole

\* However many requests and retries, a call's mail is sent once for each
\* request that may send it.
MailedOnce == TE!MailedOnce

\* A mail that has been queued is sent, or its log says why not.
LogSettles == TE!LogSettles

\* The playbook a call is given is at most the cache's lifetime out of date.
CacheIsRecent == PB!CacheIsRecent

\* What the console shows as in progress is being worked on by whom marked it so,
\* or by one that a rejecting query or a stop kept from writing its outcome.
InProgressHasWork ==
  TA!InProgressHasJob /\ TR!InProgressHasRequest /\ CP!QueuedHasProcessor

\* What goes to the provider for training has been redacted.
ExamplesRedacted == TR!ExamplesRedacted

\* The summary of a call is that of its transcript.
SummaryIsCurrent == PW!SummaryIsCurrent

\* A call that has ended is listed once, on a page that its reader comes to, and
\* a recording that is kept is found, through whichever of the caches.
EndedCallIsFound == RL!KeptRecordingIsFound /\ SL!ListedOnce /\ SL!PagesMissNothing

\* A page that watches work comes to show how it ended.
PageCatchesUp == PG!PageCatchesUp
=============================================================================
