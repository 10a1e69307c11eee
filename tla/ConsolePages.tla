----------------------------- MODULE ConsolePages -----------------------------
(***************************************************************************)
(* The console's pages that watch work in progress                         *)
(* (frontend/src: SessionTranscriptSection, CallDetailPage, TrainingPage,  *)
(* CallAnalysisPage, TrainingInsightsPage).                                *)
(*                                                                         *)
(* A page shows what its last successful read of the server said.  It      *)
(* reads again when it is opened, on a timer for as long as what it shows  *)
(* is unfinished, and when the server has answered one of its own          *)
(* requests: that drops the read under way, which may have been served     *)
(* before the request.  What one page shows is one query: a transcript,    *)
(* by its session or by its call, the state of its email, the analyses of  *)
(* recordings, or the latest insights report.                              *)
(*                                                                         *)
(* Each start of the work has a number, so that an outcome is told from    *)
(* that of an earlier start.                                               *)
(***************************************************************************)
EXTENDS Naturals

CONSTANTS
  MaxStarts,  \* starts of the work after which nobody else starts it
  MaxPosts,   \* requests of the page
  MaxFaults   \* failed reads, the retries of a read included

VARIABLES
  query,    \* what the page watches
  queued,   \* the server has its job queue
  server,   \* [start, status] in the database
  live,     \* the session has draft lines in memory
  jobs,     \* insights jobs in the queue
  open,     \* the page is mounted
  data,     \* what it shows: a value of server, or Nothing
  fetch,    \* its read: [at, got]
  post,     \* its request: "idle", "sent", "working", "handled" or "announced"
  told,     \* the last start the server's answer has told it of
  starts,   \* starts so far
  posts,    \* requests so far
  faults

vars == <<query, queued, server, live, jobs, open, data, fetch, post, told, starts, posts, faults>>

Queries == {"session", "transcript", "email", "analyses", "insights"}
Nothing == [start |-> 0, status |-> "nothing"]
NoFetch == [at |-> "idle", got |-> Nothing]

Init ==
  /\ query \in Queries /\ queued \in BOOLEAN
  /\ server = [start |-> 0, status |-> "none"]
  /\ live = FALSE /\ jobs = 0 /\ open = FALSE /\ data = Nothing /\ fetch = NoFetch
  /\ post = "idle" /\ told = 0 /\ starts = 0 /\ posts = 0 /\ faults = 0

-----------------------------------------------------------------------------
(* The server.                                                             *)

\* A line that is stored late makes a draft of any row.
Transcribed ==
  {<<status, "draft">> : status \in {"none", "processing", "final", "failed"}}
    \cup {<<"none", "processing">>, <<"draft", "processing">>, <<"draft", "final">>,
          <<"processing", "final">>, <<"processing", "failed">>, <<"failed", "final">>}

\* The statuses the work goes through by itself.
Moves ==
  [session    |-> Transcribed,
   transcript |-> Transcribed,
   email      |-> {<<"queued", "sent">>, <<"queued", "failed">>},
   analyses   |-> {<<"pending", "processing">>, <<"processing", "completed">>,
                   <<"processing", "failed">>},
   insights   |-> {<<"processing", "completed">>, <<"processing", "failed">>}]

First == [email |-> "queued", analyses |-> "pending", insights |-> "processing"]

Settled(status) == status \in {"none", "final", "sent", "completed", "failed"}

\* The work starts, or starts over.
Starts(status) ==
  /\ server' = [start |-> starts + 1, status |-> status]
  /\ starts' = starts + 1

Advance ==
  /\ \E move \in Moves[query] :
       /\ move[1] = server.status
       /\ server' = [server EXCEPT !.status = move[2]]
  /\ UNCHANGED <<query, queued, live, jobs, open, data, fetch, post, told, starts, posts, faults>>

\* A line is spoken; the lines in memory outlive the call.
HandleRealtimeCompleted ==
  /\ query = "session" /\ live' = TRUE
  /\ UNCHANGED <<query, queued, server, jobs, open, data, fetch, post, told, starts, posts, faults>>

\* The automatic email, or somebody else's request.
StartElsewhere ==
  /\ query \in DOMAIN First /\ post # "sent" /\ starts + jobs < MaxStarts
  /\ Starts(First[query])
  /\ UNCHANGED <<query, queued, live, jobs, open, data, fetch, post, told, posts, faults>>

\* A request is answered once the row says that work has begun, or that it is
\* done or under way and the request repeats it.
Begun(status, repeats) ==
  /\ post' = "handled" /\ UNCHANGED jobs
  /\ \E anyway \in BOOLEAN :
       IF server.status \in repeats /\ ~anyway
         THEN UNCHANGED <<server, starts>>
         ELSE Starts(status)

\* The log of an email sent earlier may hide behind that of a later one.
RequestManualSend ==
  /\ query = "email" /\ post = "sent"
  /\ Begun("queued", {"sent", "failed", "queued"})
  /\ UNCHANGED <<query, queued, live, open, data, fetch, told, posts, faults>>

\* Analyze, analyze again, or analyze all.
AnalyzeRecording ==
  /\ query = "analyses" /\ post = "sent"
  /\ Begun("pending", {"completed", "processing"})
  /\ UNCHANGED <<query, queued, live, open, data, fetch, told, posts, faults>>

\* With the job queue the answer announces a job that will write the row;
\* without it, the report is made while the request waits.
GenerateInsights ==
  /\ query = "insights" /\ post = "sent"
  /\ \/ /\ queued /\ jobs' = jobs + 1 /\ post' = "announced"
        /\ UNCHANGED <<server, starts>>
     \/ /\ ~queued /\ Starts("processing") /\ post' = "working"
        /\ UNCHANGED jobs
  /\ UNCHANGED <<query, queued, live, open, data, fetch, told, posts, faults>>

ReportMade ==
  /\ post = "working" /\ Settled(server.status) /\ post' = "handled"
  /\ UNCHANGED <<query, queued, server, live, jobs, open, data, fetch, told, starts, posts, faults>>

RunJob ==
  /\ jobs > 0 /\ jobs' = jobs - 1
  /\ Starts("processing")
  /\ UNCHANGED <<query, queued, live, open, data, fetch, post, told, posts, faults>>

\* The row's word, except that draft lines in memory stand for a row that has
\* not got beyond them.
GetSessionTranscript ==
  IF live /\ server.status \notin {"processing", "final", "failed"}
  THEN [server EXCEPT !.status = "draft"]
  ELSE server

ServeFetch ==
  /\ fetch.at = "sent"
  /\ fetch' = [at |-> "served", got |-> GetSessionTranscript]
  /\ UNCHANGED <<query, queued, server, live, jobs, open, data, post, told, starts, posts, faults>>

-----------------------------------------------------------------------------
(* The page.                                                               *)

Sent == [at |-> "sent", got |-> Nothing]

\* useQuery: a page that is opened reads, unless a read is under way.
Open ==
  /\ ~open /\ open' = TRUE
  /\ fetch' = IF fetch.at = "idle" THEN Sent ELSE fetch
  /\ UNCHANGED <<query, queued, server, live, jobs, data, post, told, starts, posts, faults>>

Close ==
  /\ open /\ open' = FALSE
  /\ UNCHANGED <<query, queued, server, live, jobs, data, fetch, post, told, starts, posts, faults>>

\* refetchInterval: the statuses that keep the timer running.
RefetchInterval(status) ==
  CASE query \in {"session", "transcript"} -> status \in {"processing", "draft"}
    [] query = "email"      -> status = "queued"
    [] query = "analyses"   -> status \in {"processing", "pending"}
    [] query = "insights"   -> status = "processing"

Poll ==
  /\ open /\ fetch.at = "idle" /\ RefetchInterval(data.status)
  /\ fetch' = Sent
  /\ UNCHANGED <<query, queued, server, live, jobs, open, data, post, told, starts, posts, faults>>

FetchSucceeds ==
  /\ fetch.at = "served"
  /\ data' = fetch.got /\ fetch' = NoFetch
  /\ UNCHANGED <<query, queued, server, live, jobs, open, post, told, starts, posts, faults>>

\* What was shown stays, the timer with it, and the page says that it failed.
FetchFails ==
  /\ fetch.at # "idle" /\ faults < MaxFaults
  /\ fetch' = NoFetch /\ faults' = faults + 1 /\ told' = data.start
  /\ UNCHANGED <<query, queued, server, live, jobs, open, data, post, starts, posts>>

\* useMutation: send the email, analyze, analyze again or all, generate.
Mutate ==
  /\ open /\ query \in DOMAIN First /\ post = "idle"
  /\ data # Nothing /\ posts < MaxPosts
  /\ post' = "sent" /\ posts' = posts + 1
  /\ UNCHANGED <<query, queued, server, live, jobs, open, data, fetch, told, starts, faults>>

\* Variant: a read that is under way is taken for the new one.
InvalidateJoins == IF fetch.at = "idle" THEN Sent ELSE fetch

\* invalidateQueries: a read under way is dropped and the query is read again.
InvalidateQueries == IF open THEN Sent ELSE fetch

\* onSuccess.  What was announced has no row yet that would tell of it, and
\* a closed page reads nothing.
MutateSucceeds ==
  /\ post \in {"handled", "announced"} /\ post' = "idle"
  /\ fetch' = InvalidateQueries
  /\ told' = IF post = "announced" \/ ~open THEN told ELSE server.start
  /\ UNCHANGED <<query, queued, server, live, jobs, open, data, starts, posts, faults>>

\* onError, whatever the server has done: the page reads nothing.
MutateFails ==
  /\ post # "idle" /\ post' = "idle" /\ faults < MaxFaults
  /\ faults' = faults + 1
  /\ UNCHANGED <<query, queued, server, live, jobs, open, data, fetch, told, starts, posts>>

Next ==
  \/ Advance \/ HandleRealtimeCompleted \/ StartElsewhere
  \/ RequestManualSend \/ AnalyzeRecording \/ GenerateInsights
  \/ ReportMade \/ RunJob \/ ServeFetch
  \/ Open \/ Close \/ Poll \/ FetchSucceeds \/ FetchFails
  \/ Mutate \/ MutateSucceeds \/ MutateFails

\* The timer fires, the server serves what it is sent and its answers arrive.
Fairness ==
  /\ WF_vars(Poll) /\ WF_vars(ServeFetch) /\ WF_vars(FetchSucceeds)

Spec == Init /\ [][Next]_vars
FairSpec == Spec /\ Fairness

-----------------------------------------------------------------------------

\* The work has ended, and an open page shows it unfinished or does not show
\* what it was told its request had begun.
Behind == /\ open /\ Settled(GetSessionTranscript.status)
          /\ \/ data # Nothing /\ ~Settled(data.status)
             \/ data.start < told

\* No page stays behind for ever while it is open.  (A read that fails is shown
\* as such; it forgets what the page was told.)
PageCatchesUp == []<>~Behind
=============================================================================
