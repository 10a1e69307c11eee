# Verification of the call-agent platform

TLA+ models of this repository: a NestJS back end (`src/backend`) that dials
customers through Smartflo or Exotel, connects the media stream the provider
opens to a realtime speech model, records and transcribes the call, mails and
reports it to integration partners, and learns from it; and of the console
pages (`src/frontend`) that watch that work.
TLC checks small instances of the models; TLAPS proves the theorems listed in
"What is proved" for every value of the constants.

Paths below are relative to `src/backend/src/modules` unless they start with
`src/`.

## 1. Inventory

### How the parts interact

    partner --POST /integrations/v1/calls--> integration calls --dial--> provider
                                                  |  register              |
                                                  v                        | opens a media stream
                 Redis <--save, load, mark-- call authorization            v
                                                  ^                   audio gateway
                                                  |  authorizeStart        |
                                                  +------------------ stream adapter
                                                                           |  start, media, stop, disconnect
                             realtime runtime <--- sessions --- recording -+-> S3
                                    |  utterances                  |  metadata
                                    v                              v
                             live transcript ---drafts---> transcript rows <--- post-call job (inline or BullMQ)
                                                                   |
    partner <------------- call.result_ready ----------------------+

One API process and one worker run under PM2 (`src/backend/ecosystem.config.js`).
Inside a process the handlers are `async` functions: whatever runs between two
awaits is atomic and everything else interleaves. Many continuations are
started with `void promise` and awaited by nobody. Between processes only
Redis, Postgres and BullMQ are shared, one command or query at a time; no
transaction is used in the paths modelled here.

### Components

| Component | State | Operations | Hard behaviour | Correct when |
|---|---|---|---|---|
| Call authorization (`voice/voice-call-authorization.service.ts`, `voice/exotel-voice.controller.ts`) | maps `pending`, `pendingByPhone`, `pendingByCallSid`, stream-URL reservations | register, linkProviderCallDetails, findPendingAuthorizationId, authorizeStart, pruning, trimming | searches that await between candidates, live lists iterated across awaits, shared copies, restarts | a call's authorization admits one stream, its own; a stream with a match is not turned away |
| Voice shared state (`voice/voice-shared-state.service.ts`) | Redis keys `voice:auth*`, session history | save (not awaited), load by id / SID / phone, mark consumed (GET then SET) | commands that fail unnoticed, reads before marks | a recorded consumption is never forgotten |
| Stream adapters and gateway (`voice/smartflo-stream.adapter.ts`, `voice/audio.gateway.ts`, `voice/voice-session.service.ts`) | session maps, `authorizationPending` | start, media, stop, disconnect, finalize | two finalizers, hang-up during authorization | one upload, one end, the audio reaches the post-call job, the runtime is released |
| Recording (`voice/audio/voice-recording.service.ts`) | active and finalized recordings | start, append, finalize | ownership moves at a delete before an await | as above |
| Exotel streams (`voice/exotel-stream.adapter.ts`, `voice/stream/voice-stream-runtime.bridge.ts`, `voice/voice-socket.registry.ts`) | the session maps again, and the registry's socket maps | connect, start, media, send, stop, disconnect, finalize | a fallback id that the start event replaces, a call that reconnects under it, finalizers of the old socket | the two registers agree; a socket that has gone is in none of them |
| Realtime session (`voice/runtime/openai-realtime.provider.ts`) | one record of flags, timers and buffers per session | audio packets, OpenAI events, timers, interrupt, endSession | barge-in races, late response events, errors, retries of the greeting | one greeting; a caller is not muted for ever; an answer is to fresh speech; goodbye hangs up |
| Realtime sessions (same file) | `sessions`, `prewarmByCallSid`, `prewarmByPhone`, cleanup timers | prewarm, adopt, expire, endSession | rekeying under endings and timers | a running call keeps its session; an unused prewarm closes |
| Audio out (same file, `voice/audio/pcm-resampler.ts`) | downsampler remainder, frame buffer | deltas, flush, interrupt, error | remainders at every boundary | what is spoken to the end is heard whole, once, in order |
| Assistant's words (same file, `voice/voice-interruption.util.ts`) | transcript buffer, last text, ids of the item and of the interrupted one | deltas, truncate, transcript done, commit | an interruption races the end of the transcript and the next response | each answer is recorded once with its own words; a cut is told of the answer that was cut |
| Language lock (`voice/voice-language.util.ts`) | lock, counters | each customer transcript | thresholds on ratios, mixed turns | the language follows what the customer speaks |
| Recording retrieval (`voice/voice.controller.ts`, recording, session and shared-state services) | keys in memory, session, Redis, row | finalize, four lookup routes, forgetting | the copy is taken before the key is known | what the row and Redis keep is found |
| Session lists (`voice/voice.controller.ts`, `voice/voice-session-search.util.ts`, session and shared-state services) | ended sessions in memory, index and copies in Redis | end, save, list, search, pages | three sources read at three moments, bounded lists | a session is listed once, by its newest; pages miss none |
| Post-call transcript (`voice/transcript/*`) | live segments per stream, `CallTranscript`, segments | utterance, draft save, post-call job, salvage, mark failed | concurrent jobs and salvages rewrite one row without a transaction; redelivery | a final transcript is the whole conversation, and there is always one in the end |
| Result webhook (`integrations/integration-callback.service.ts`) | `resultDeliveredAt` in the call's metadata | notifyCallResultReady | read, post, write; lost answers | once, after the call, with the whole text |
| Integration calls (`integrations/integration-calls.service.ts`) | `Call` rows, unique on (apiKeyId, externalRef) | createOnDemandCall | lookup, dial, insert: retries and races | `externalRef` is an idempotency key |
| Outbound dialling (`voice/telephony/*`) | - | initiateCall of two providers | dial succeeds and a later query fails | an answered call has its row and authorization |
| Provider webhooks (`calls/calls.service.ts`) | status, transcript and summary of a call | handleProviderWebhook, summary job | webhooks overlap, step by step | the summary is of the transcript the call has |
| Transcript email (`voice/transcript-email.service.ts`) | log rows, jobs | automatic, manual, resend; send with retries | check, send, mark; redelivery | one mail per call and resend; a log that settles |
| Campaigns (`campaigns/*`, `src/backend/src/queues/processors/*`) | campaign, members, calls, jobs | add, schedule, pause, resume, retryFailed, processors | loops that stop half-way | a queued call has a processor |
| Training (`training/*`) | recordings, datasets, fine-tunes, analyses, reports, playbooks and their cache | see the four services | stale reads, failures, resets, a cache filled late | what shows as in progress is worked on; only redacted text leaves; calls get a recent playbook |
| Console pages (`src/frontend/src/pages`, `components/voice`) | one query each | open, poll, mutate, invalidate | reads served before and answered after a mutation | an open page catches up |
| Agents, analytics, console CRUD | database rows, text | see PROJECT.json | - | not worth a model (section 8) |

PROJECT.json lists every component with its status and, under "hazards", each
place where the code is hard to test with the property that watches it.

## 2. Modules

**CallAuthorization** - `VoiceCallAuthorizationService` with the authorization
half of `VoiceSharedStateService`. `pending`, `entry` and `reservation` are the
maps of each process; `redis` and `redisPhone` the keys; `outbox` the saves in
flight on the process's one connection. Each `authorizeStart` is a small
process, `start[s]`: `Lookup` picks the next candidate of the current stage
(offered id, reservation, call SID, Redis by SID, exact phone, Redis by phone,
phone suffix), `RedisGet` loads a copy, `Check` is the test-and-set of
`consumeAuthorization`, `MarkRead`/`MarkWrite` the GET and SET of
`markAuthorizationConsumed`, `Return` the end, `RedisError` a rejected command.
`Register` includes the prune and trim the code performs, and queues the save.
Phone numbers are values; `SuffixOf` says which agree in their last ten digits.
`took` and `eligible` are history variables; `CallOf` says which call, if any of
ours, the provider opened a stream for.
**OneShotGrants** is what the component promises: an issued authorization is
taken by one stream, once.

**VoiceStream** - one Smartflo stream across the adapter, gateway, session
service, recording service and the runtime's session map. The start event, the
stop event and the disconnect are three concurrent handlers; the steps of the
two finalizers are the stretches between the awaits that suspend them.

**PostCall** - the transcript row, its segments and the result webhook.
Draft saves, post-call jobs (one per finalizer that got the metadata) and
salvages are tasks; one step is one query or request with the code after it.
Text is a set of utterances, plus `Recording` for the segment transcribed from
the audio. `Fail` rejects the awaited call of a task, with the salvages its
catch blocks start; `PostUnanswered` is a webhook refused or whose answer is
lost; `WorkerCrash` a redelivery by BullMQ.

**IntegrationCalls** - `createOnDemandCall` with the `initiateCall` of both
providers. One step per query, dial or insert; `row` is the unique index, `auth`
the authorization the call gets and what it knows of the call.
**OneCallPerRef** is what EXTERNAL_API.md promises of `externalRef` for the
recorded call and the answers.

**VoiceRuntime** - one session of `OpenAiRealtimeProvider`, from the bound
socket to the end. `s` is the session record, field for field those that decide
something: turn and response guards, opening state, the set of armed timers,
what is buffered each way. A handler has no await, so each is an operator from
record to record, and actions compose them as the code calls them. `openai` is
the other side, external: it takes frames in order, runs one response at a time,
answers or refuses, and in server_vad mode may respond on its own. `greeted` and
`fresh` are history: responses that spoke the greeting, and speech not yet
answered. What the code contains and no behaviour of it reaches is left out: the
opening delay timer and the deferred-retry timer (armed nowhere),
`scheduleManualFallbackSilenceCommit` (no caller), and the effects of
`speech_stopped` and of a second `session.updated`, which change nothing that is
read.

**RuntimeSessions** - the provider's session map around it: `PrewarmAuthorizedCall`
on a dial, `PrewarmExpires` by the cleanup timer, `Adopt` or `CreateSession` when
the stream starts, `StreamStops`, `SocketCloses` and the two halves of
`endSession`, whose second deletes whatever is under its key by then. `Rekeyed`
is the move of an adopted entry.

**ExotelStreams** - two sockets of one call, which may share a fallback id.
`ses` holds the maps of VoiceSessionService and `reg` those of
VoiceSocketRegistry; `HandleStart`, `AuthorizeAndStartRuntime`, `HandleMedia`,
`SendMedia`, `HandleStop`, `HandleDisconnect` and the finalizers are the
handlers.

**RecordingTimeline** - where VoiceRecordingService puts a chunk: `RecordingOffset` is
the cursor rule of bursts and gaps (a cursor that is not set counts as 0, where no
chunk ends), `TimelineLength` and `Heard` the mix. Rounding
of floating-point milliseconds is a choice between two samples.

**OutboundAudio** - a response of OpenAI as numbered samples through the
downsampler (`Pipe`, groups of `Ratio`), the frame buffer and `flush`, with
interruption, error, cancellation and end of session.

**LanguageLock** - detection, class and thresholds of one transcript from its word
counts, and the counters that lock and unlock Hindi.

**AssistantTranscript** - the assistant's words through an interruption. `s` is the
part of the session record that holds them, `segments` the assistant's part of the
live transcript, and a text is the set of its deltas. `BargeIn` truncates the item
and cancels the response, `TranscriptDone` records the answer whole or as
far as it was heard, `ItemTruncated` drops the buffer, `Commit` quotes the last answer
when it was cut off. `kept`, `barged`, `told`, `acked` and `strayed` are history:
what had been received of a response, which were interrupted, what OpenAI was told, and whether
a response started that no turn asked for.

**RecordingLookups** - one call's recording key in the row, the recording service's
memory, the session and the Redis copy; the two finalizers write them in the
code's order and `Resolve`, `ReadRows`, `ResolveRecordingLookup`, `ReadRow`, `AskBucket` are the
steps of a request on one of the four routes. A download looks up to four times
(`LookAgain`), and S3 may refuse to sign, to find or to send.

**SessionLists** - the lists of active and ended sessions. `recent` is what the process
holds (recentEndedSessions), `index` and `stored` what Redis does, `saving` the
copies under way. `End` with its two outcomes is endByStreamSid and
endBySocketSessionId; a request is `ListSessions` (the local snapshot), `ReadIndex`,
`ReadCopies` and `Reply`, which merges by stream id, sorts, searches, cuts the page and
adds the active sessions of that moment. `held`, `seen`, `due` and `steady` are history: what was
to be found, what a reader of all pages has seen, and whether an ending since
moved what the pages show. The lists are sets with the turn in which each session ended
(`endedAt`); `Newest` is a list cut to its length, and copies arrive and expire in that
order. Assumed: no two sessions end in one millisecond, and sessions that share a
stream id do not overlap (in ExotelStreams they do). A list request may find the copies
of some ids unreadable, which the code passes over.

**TranscriptEmail** - three requests for one call's mail, each with its log row and
job: `FindDuplicate`, `CreateLog`, `EnqueueTranscriptEmail`, then `Resolve`,
`CheckBeforeSend`, `BuildEmailData`, `Send`, `MarkSent`; `JobThrows` with three attempts, `Crash`
with one redelivery.

**ProviderWebhooks** - each webhook's writes in turn, and the summary job inline or
queued. **Campaigns** - requests that read first and enqueue one by one, and the two
processors query by query. Each of their queries may reject (`JobRejects`, `EndRequest`), and the
worker and the API may stop (`WorkerStops`, `ApiStops`); `lost` holds the jobs that ended
so after creating their call.

**Playbooks**, **TrainingAnalyses**, **TrainingRecordings** - the training services. A console
request reads, decides and writes with others in between; a job reads again,
marks, asks the provider and writes the outcome. Any of their queries may reject, that of
a catch block included (`RequestRejects`, `JobRejects`, `FailureRejected`, `FineTuneRejected`).
`marker` names the request or job that marked the row last, and `lost` those that can write
no outcome any more: a row in progress is excused only by its own marker's loss.

**ConsolePages** - one page and its query: `Poll` while what it shows is unfinished,
`ServeFetch` and `FetchSucceeds` the two halves of a read, `Mutate` and `MutateSucceeds` its own
request, whose invalidation drops a read under way. `query` selects which of five
queries; the server side of each is reduced to the states it shows.

**MCVoice** composes VoiceStream with RuntimeSessions, ExotelStreams,
RecordingTimeline, LanguageLock, OutboundAudio and AssistantTranscript, and **MCAfterCall** composes
PostCall with the nine modules of what follows a call. A behaviour there is a
behaviour of one of them, the one `part` names; the rest keep their initial values.
They are checked side by side in one run and not interleaved: they share no
variable, except whether the queue has its connection, so interleaving them would
multiply states without adding a behaviour of any. What crosses from one
component to another is an input of the receiving module (see the assumptions below).
Some of the properties there are conjunctions over modules; each conjunct has its
own variant of the code that breaks it, kept in the module
(OffsetOnArrival, RebindOnly, FailureForgotten, InitiateNothing, and others), of which
PROJECT.json names one per property.

`MC*` modules hold the small instances; MCVoice and MCAfterCall take the sets of
their components as constants, so that the theorems about MCSpec are about every
instance. `*_proofs` modules hold the theorems.
Operators that no action uses, most of them commented "Mutant" or "Variant", are plausible
bugs: each replaces the definition after it, and must break the property it is paired
with in PROJECT.json.

### What the models assume of code outside them

- The stream modules take the decision of `authorizeStart` as an input, and the
  integration module takes the authorization service as a record per call:
  CallAuthorization checks that service on its own.
- The transcription of a recording that holds speech yields a segment, and the
  cleaning of a segment that is not blank does not empty it.
- `pendingByPhone` is a list from which used entries disappear only by trimming
  or expiry, both of which hit its tail.
- BullMQ accepts the post-call job. When it does not, the code runs the job in
  the API process, without the redelivery.
- OpenAI announces an item before its deltas, sends none after it took a truncation,
  and ends the transcript of an announced item before the response
  (AssistantTranscript).
- OpenAI keeps the order of the frames it takes and runs one response at a
  time. A frame of its own is handled in the step that sends it: both directions
  are FIFO, so the delay of one can be counted with the delay of the other.
- A recording or mail job asks the transcript for whether it is final, not for
  what it says: TranscriptEmail and ConsolePages take its status as an input
  that PostCall's states can produce.

## 3. Runs that pass

| Run | Instance | Shows |
|---|---|---|
| CallAuthorizationMemory | two calls to one number, two streams that match both, one process, no Redis | TypeOK; AtMostOneGrant; NothingLeftBehind: a stream is rejected only when no matching entry is unused; OneShot: refinement of OneShotGrants |
| CallAuthorizationRedis | one call, two streams, commands that fail or are lost | RedisRemembers: no late save erases a mark; StartAnswered: each start ends |
| CallAuthorizationRestart | two customers, one stream, a restart, room for one entry | OwnCallOnly: no looser match, in a map or in Redis, takes the other customer's call |
| VoiceStreamLife | MCVoice: one stream with failing uploads; two prewarmed dials and two streams; two sockets of one call; up to seven samples each way; every word count to six; two answers of two deltas | UploadedOnce; EndedOnce; HandedOver: the audio of a granted call reaches a post-call job unless its upload failed; RuntimeReleased; TablesAgree: a running stream finds its session and audio goes to the socket whose session has the id; GoneIsForgotten; ExpirySparesCalls; UnusedPrewarmCloses; AudioKept: no sample is lost from the recording or from an answer; LockFollowsCustomer; AssistantQuoted: an answer is recorded once and as its own words, and only an interrupted one is quoted as cut off |
| VoiceRuntimeTurns | VoiceRuntime: three responses, one transcript, one retry of the greeting, both turn-detection modes | GreetedOnce; MutedIsWatched; AnswersFreshSpeech; NoHangupAfterEnd; OpeningSettles; GoodbyeEndsCall |
| PostCallJobs | MCAfterCall: two utterances, two finalizers and one fault for the transcript; three mails, two faults; two playbooks; a request to analyse all, one to analyse again and one for a report; two transcriptions and a fine-tune; three webhooks; two campaign requests; one lookup; three sessions and one reader of their list; one page | TranscriptIsWhole: types, and a final transcript and its segments are whole; ResultIsWhole; TranscriptSettles; MailedOnce; LogSettles; SummaryIsCurrent; EndedCallIsFound: a recording that is kept is found, a list shows each session once and its pages miss none; InProgressHasWork: what shows as in progress is worked on by whom marked it, unless that very one could not go on; ExamplesRedacted; CacheIsRecent; PageCatchesUp |
| IntegrationCallsRetry | three requests, two with one ref, one failing query, failing dials, both providers | AnswerRang: a call a partner is told of was dialled; ResendNeverDials; IdempotentCalls: refinement of OneCallPerRef; AnsweredIsAuthorised; RequestAnswered |

All set `CHECK_DEADLOCK FALSE`: once the calls, streams or requests of an
instance are used up there is nothing left to do.

### Bounds, and why they are enough

- *Two calls, two streams, two finalizers, two requests per ref.* Every property
  about contention relates two actors. A third request in
  IntegrationCallsRetry adds a different ref to the same customer. The theorems
  remove these bounds for the properties they cover.
- `MaxRestarts`, `MaxFaults` (one): a second fault meets a state
  the first produced, but the code has no state in which it remembers a fault
  other than those the first leaves, except the catch handler of a salvage,
  which a single fault reaches through `MarkFailed`. Two faults in PostCall can
  leave a transcript unfinished, since nothing handles a rejection of the
  handler itself: TranscriptSettles is claimed for one fault.
- `Capacity` stands for 500 pending entries: 1 where eviction is of interest
  (CallAuthorizationRestart), 2 (no eviction) elsewhere. `PhoneWindow` (3) stands
  for the eleven ids LRANGE returns: every save of a call pushes its id again,
  up to four times, so that lists grow beyond the window and it does cut off
  candidates.
- VoiceRuntime: `MaxResponses` (3) allows a greeting, its retry and an answer, or
  a greeting and two answers; `MaxRetries` stands for the configured readiness retries, `SpeechMin`
  for the milliseconds of speech that make a turn, `MaxOut` for frames OpenAI has
  not taken yet.

- RuntimeSessions: `MaxSessions`, `MaxStarts`: two dials and two streams are the
  fewest in which a prewarm is replaced, adopted through the other key, and
  ended while its successor waits. ExotelStreams: two sockets of one call. A
  third does meet maps that two cannot make (section 8); TablesAgree names that
  exception, and is proved for any number. `MaxRecent` = 1 makes the list of ended sessions
  evict.
- RecordingTimeline and OutboundAudio count samples: two per millisecond instead
  of eight, frames of two instead of 160, and the code's own ratio of three, so
  that partial groups, partial frames and whole ones all occur within the seven
  samples of `MaxSamples`; chunks of one and three samples overlap and leave gaps.
- AssistantTranscript: two responses are the fewest in which the words of one can be
  taken for another's (three gave the same result); two deltas let an interruption
  fall between them; three frames are a truncation, a cancellation and a request
  under way.
- LanguageLock: up to six Hindi words in Latin script, three in Devanagari, four
  English ones and two in no letters, so that each comparison of counts and ratios
  in the code goes both ways.
- TranscriptEmail: a request of each kind, and two faults of the three that exhaust
  the attempts; the third attempt is reached. `Ttl` of Playbooks is two ticks: an
  entry that is fresh, old and expired. ConsolePages: `MaxStarts`, `MaxPosts` and
  one failing read.
- SessionLists: three sessions, the first two under one stream id or all distinct;
  `MaxRecent` = 1 and `SharedRecent` = 2 stand for the lists of 100, so that both push out
  their oldest and Redis holds more than the process; `PageSize` = 1 gives up to three
  pages; `MaxLost` is one restart or lost save. Four sessions with `MaxRecent` = 2 gave
  the same.
- `LateDrafts = FALSE` in PostCallJobs: drafts are saved before the upload of
  the recording is over. The code does not enforce it: with a draft write that
  takes longer than runtime shutdown and upload together, a final row can turn
  back into a draft, and TranscriptSettles fails. The parameter keeps that
  assumption explicit.
- `FailAt` in PostCallJobs starts at the load of the job: a rejection of
  `markProcessing` or of the lookup after it is outside every `try` block, so no
  job starts and nothing is promised.
- The in-memory instance contains no restart: it empties memory, streams and all.

## 4. Runs that show a disagreement

| Run | Property, and who says it | What the code does |
|---|---|---|
| CallAuthorizationShared | AtMostOneGrant - the warning in `voice-shared-state.service.ts:57` that without Redis authorization is "not safe behind load balancers" | two processes both load the copy before either marks it, and both grant |
| VoiceStreamRejected | RejectedNotRecorded - the log line in `smartflo-stream.adapter.ts:226` | a stop while the authorization is pending uploads the recording; the rejection comes afterwards |
| PostCallOnce | ResultAtMostOnce - `src/docs/integrations/EXTERNAL_API.md:281` | a failing inline job is caught twice; two salvages post |
| PostCallDraft | ResultAfterCallEnds - EXTERNAL_API.md:251 | a failing draft save during the call finalizes and posts |
| IntegrationCallsTwice | DialledOnce - EXTERNAL_API.md:92, 173 | two concurrent requests both pass the lookup and both dial |

CallAuthorizationShared needs a second API process, which
`ecosystem.config.js` does not start today.

Reading VoiceStream also shows a stream that is granted after it has hung up:
its runtime is opened when nobody is left to close it. RuntimeReleased
therefore excludes a hang-up during the authorization (`early`).

## 5. Fairness

- CallAuthorization: weak fairness of each running start and of the delivery of
  saves: the event loop runs a ready continuation, the ioredis connection
  answers or rejects. Nothing makes calls register, streams arrive or entries
  expire.
- VoiceStream: weak fairness of the finalizers: `endSession` of the runtime
  waits under timeouts, uploads and queries answer. A provider need not send
  stop, close the socket or even start, and the authorization need not answer.
- PostCall: weak fairness of each task: queries and requests settle and the
  worker takes jobs. The call need not end, faults need not occur.
- IntegrationCalls: weak fairness of each received request. Requests and the
  status webhook need not come.
- VoiceRuntime: weak fairness of the timers that end an opening or a call, of the
  opening of the socket and of OpenAI's first event on it. The answers of OpenAI
  to anything later, the caller's words and the playbook query may never come.
- RuntimeSessions and ExotelStreams: weak fairness of the steps that are due (timers,
  endings, finalizers), taken together: dials, streams and sockets run out, so
  those steps are not postponed for ever. UnusedPrewarmCloses and GoneIsForgotten
  say that the good state returns again and again ([]<>), which for finitely many
  sessions and sockets is the same as each one's leads-to and cheaper to check.
- TranscriptEmail: weak fairness of the job steps: BullMQ runs a queued job, with
  at most one death of its worker (`MaxStalls`). ConsolePages: weak fairness of polling,
  of the server's answer and of a successful read; a user need not open the page or
  press anything.
- Playbooks, TrainingAnalyses, TrainingRecordings, ProviderWebhooks, Campaigns,
  RecordingLookups, SessionLists, RecordingTimeline, LanguageLock, OutboundAudio and
  AssistantTranscript state safety only
  and assume no fairness.

## 6. What is proved

The theorems hold for every value of the constants: any number of calls,
streams, tasks, jobs, sockets, responses, faults and retries. They use only the
assumptions named in the modules - types of the constants, and facts about
what the environment hands in, listed here:

- a run registers finitely many calls (CallAuthorization) and finitely many
  requests for mail (TranscriptEmail);
- names of different kinds differ (`Finalizer`, `Utterance`, `Recording`, `None`,
  keys of prewarms and of streams; a socket or an id is not `None`);
- sessions are numbered and the limits of the lists are above zero (`ListsAssumption`
  of SessionLists);
- two dials that return the same call SID went to the same number
  (`EntryAssumption` of RuntimeSessions);
- word counts are natural numbers (`CountsAssumption` of LanguageLock).

Where a theorem has a hypothesis of its own, it is named below with the reason.
tlapm checks every leaf.

**CallAuthorization_proofs** - `TypesHold`: Spec => []TypeOK. The inductive
invariant `Typed` adds `SearchOK` to the types: a start that searches has a
process, and one that checks or marks has a candidate; without it the step
`Check` could record None as taken or mark no entry.

**CallAuthorizationGrants_proofs** - under `OneStore` (no Redis; or Redis with a
single process that neither restarts nor runs out of room), for any number of
calls and streams:
`GrantedAtMostOnce`: Spec => []AtMostOneGrant, and `ServiceImplementsOneShot`:
Spec => OneShot. AtMostOneGrant is not inductive: a stream that holds a copy
read from Redis could still take it. The invariant `GrantInv` says why it
cannot: every id in play was registered (`Known`); the local map still holds
everything alive (`Kept`), so a search only asks Redis for what has expired and
its copy is dead (`SharedIsDead`); whatever was taken is marked in the one entry
its home holds (`TookMarked`). CallAuthorizationShared shows that the conclusion
fails outside `OneStore`. The refinement maps `issued` to the registered ids:
Register is Issue, the successful Check is Take, everything else stutters.

Three more hold in wider deployments. `Onward` is the lemma they share: what is
registered keeps its number and its marks, and no map gains it again.
- `NothingIsLeftBehind`: []NothingLeftBehind for any number of processes, restarts and
  evictions, under `DistinctSids` (the provider gives no two calls one SID). The
  invariant `SearchInv` says that whatever is left for a search lies `Ahead` of the stage
  it has reached - at the latest in the scan of the numbers, past its cursor - and that a
  candidate in hand was the first its stage had (`InHand`). It rests on registration
  numbers being distinct (`StampInv`): that is why a scan that remembers the
  number it tried last skips nothing.
- `RedisKeepsTheMark`: RedisRemembers under `OneWriter` (no Redis, or one process, which
  may restart and evict). The invariant `RedisInv`: a used authorization Redis knows
  of, or is about to, is marked in every map that could save it again
  (`Remembered`), and of the saves under way none comes after one that says more
  (`SavesOK`). With two processes it is false: the home of an authorization that
  another process consumed saves its own, unmarked entry when it is linked.
- `StreamsTakeTheirOwn`: []OwnCallOnly under `CallsToldApart`: no two customers share a
  number or its last ten digits, a stream shows no number of a customer it is not of, and
  a SID is of one call. The lists in Redis then hold calls to their number, and url,
  reservation and search of a stream its own call or none (`OwnInv`).

**VoiceRuntime_proofs** - the realtime session, with any limits on responses,
errors and retries, in both turn-detection modes:
- `MutedCallerIsWatched`: Spec => []MutedIsWatched, and `NoLateHangup`:
  Spec => NoHangupAfterEnd;
- `CallerIsGreetedOnce`: Spec => []GreetedOnce, and `AnswersAreToFreshSpeech`:
  Spec => AnswersFreshSpeech, under `FallsBack`: the flag
  VOICE_AI_SPEAK_FIRST_FALLBACK_TO_WAIT_FOR_CUSTOMER is on, which is its default
  (`voice/voice-opening-config.service.ts:32`). Without it both are false; see
  section 8.

A handler is a composition of some fifty operators on the session record. Rather
than follow each through every action, the proof has two relations on records,
which say what a handler part may do: a *good* update (`Good`) keeps the session's
invariant, requests a greeting only by using up the permission to greet, and leaves no
audio to be answered that was not there or is new; a *plain* one (`Plain`, which
composes) requests no answer and begins no response either. There is one lemma per
operator (`ResetSpeechPlain`, `FailPlain`, `CommitGood`, ...), and an action is good
because its parts are. `SessionsAreSafe` (Spec => []Safe(s)) is the invariant:
a caller who is muted has a timeout armed (`Watched`); until the opening is over no
audio of the customer has reached OpenAI and the only response requested is the
greeting (`Unheard`); one frame at most requests it, and none while it may still be
requested. GreetedOnce adds that the greeting is in one place at most - to be requested, on
its way, being spoken or heard (`OneVoice`) - and AnswersFreshSpeech that audio which
could be answered is fresh (`HeardIsFresh`).

Two more say that what is owed has a timer, for either value of the flag:
- `GoodbyesAreTimed`: Spec => []GoodbyeIsTimed. Once the end of the call is decided the
  hang-up or the maximum wait is armed, until the stream, the WebSocket or the session is closed;
- `OpeningsAreTimed`: Spec => []OpeningIsTimed. From OpenAI's session.created of a started
  stream until the greeting is done or failed, the opening timeout, the readiness
  retry or the stand-in for session.updated is armed.

They use a second pair, parallel to the first: `Orderly`, which a record must satisfy,
and `Mild`, which composes and leaves alone what the timers are for. The inductive
invariant `Owed` adds that the opening has its timer (`OpeningTimed`), that
nothing of the customer was taken in without a stream that can be closed (`Heard`),
and that a stream which has not started has no socket (`Unbound`). Orderly needs a
clause of its own: before the greeting is requested nothing of one is left (`OpeningLeft`),
neither a request nor a response or audio of it, so that no late event can be taken for its end.

**PostCall_proofs** - the transcript, its segments and the webhook:
- `PostCallTypes`: Spec => []TypeOK.
- `NothingMissing` (Spec => []FinalIsComplete) and `InApiFinalIsWhole`, for any number
  of faults, under `DraftsSucceed`: no draft save fails or is written after the call.
  A final transcript has all that was said, live or as heard from the recording;
  and one that is written by the API process is exactly one or the other.
- `PartnerGetsTheWhole`: Spec => []ResultIsWhole, and `SegmentsComeBack`: Spec =>
  []SegmentsAreWhole, under `DraftsSucceed` and MaxFaults <= 1.
- `FinalIsAlwaysWhole`: Spec => []FinalIsWhole, on the worker too, under both and
  `TwoFinalizers`. Those are the ones the code has: the stop event
  (`finalizeAndEndOnStop`) and the disconnect (`finalizeRecordingForStreamAsync`).

None of these is inductive: they speak of the row, which a task writes from the
plan it made three queries earlier. `CompleteInv` says what every task may have
planned and which step of a save a draft has reached when the call ends (`DraftsOK`);
`WholeInv` adds which ways lead to which task (`WaysOK`: a salvage follows a fault, a
redelivery a crash); `OneFaultInv` that whoever notifies comes after a task
that has written the row, and that deleted segments have a task still to
create them (`SegmentsComing`). The hypotheses are needed. With two faults the failing job's
salvage fails too, and the row that is posted holds the text of a draft. A
salvage of the *worker*, whose process heard nothing, takes the segments for its text.
`WorkerIsWhole` says why they are no mixture: while a task may still read them
(`Unwritten`: the one fault may yet stop its job, or its salvage is going to look) they
are whole or none, and the one other job that can be about to create its own finds
them deleted (`SegmentsReadable`). With a third finalizer it might not, and the theorem is false.

- `NothingStaysProcessing`: Spec => [](Recoverable => NoneLeftProcessing). When every task has
  come to rest, a transcript whose job began is final or failed. `Recoverable` is one
  fault, or any number of them in the API process, that of writing `failed` excepted. It is
  under DraftsSucceed and `JobsAreTaken`: the queries before the job's try block
  (mark, source, queued) do not reject; where they do, nothing in the code writes the
  row (`voice/transcript/voice-transcript.service.ts:188`). The invariant `SomeSettles`:
  until the row is final or failed some task is at a step that leads to it.

**AfterCall_proofs** - over MCSpec, the components of MCAfterCall. `OnePartActs` reduces
a step of the composition to a step of one component.
- `TranscriptsAreWhole`: []TranscriptIsWhole, from PostCall_proofs and under its hypotheses:
  the transcript's part of a behaviour is one of PostCall (`TranscriptPart`).
- `QueuedRowsHaveAJob`: []PendingHasJob. With the queue, a row that shows as queued has a job that
  waits or runs, unless the worker died more than MaxStalls times or all three attempts
  failed before the try block of sendTranscriptEmail (`JobsGoOn`).
- `MailIsSentOnce`: []MailedOnce. A mail is counted when it is sent and the row
  is marked a step later. `MailInv`: each request's row says whether its job sent
  (`JobOfRequest`, `AcceptedOnce`), and at most one job that is not a resend passes the check
  (`OneJob`, `SentAlone`). The count is then the cardinality of the sent requests.
- `CachedPlaybookIsRecent`: []CacheIsRecent. `CacheInv` dates the answers of
  lookups under way as well: none was superseded longer ago than it is old.
- `InProgressIsWorkedOn`: []InProgressHasWork. `AnalysisInv` ties each request to its job, and
  says that a job which has yet to read the transcript finds it, unless it is among those
  the code has lost (`MarkHasText`): otherwise it would end without an outcome. The
  recordings come from TrainingRecordings_proofs; of campaign calls QueuedHasProcessor
  is inductive with the types (`CampaignInv`). Rejecting queries are in all three: nothing but
  the loss of the marker itself, by a rejection, a stop or a reset, is an excuse.
- `SummaryFollowsTranscript`: []SummaryIsCurrent. `SummaryInv`: unless a
  webhook or a waiting job is still to come (`SummaryPending`), the one summary that is being
  made, or else the one stored, is of the call's transcript.
- `TrainingIsRedacted`: []ExamplesRedacted, by TrainingRecordings_proofs.
- `RecordingsAreFound`: []RL!KeptRecordingIsFound, the recording's part of
  EndedCallIsFound. `LookupInv` follows what is known of a session through the copy on
  its way to Redis, the maps, the rows and a lookup's hint: what a request has still to
  look at names the call or the key whenever the request was promised an answer.
- `PagesListEachOnce` and, with it, `EndedCallsAreFound`: []EndedCallIsFound, for any number of
  sessions, any reuse of stream ids, any lengths of the lists and of a page. `ListsInv` has three
  layers. `EndingsAgree` is about the endings alone: the process holds the last of them,
  and a copy reaches Redis after those of all earlier endings. `RequestAgrees` and `ListingAgrees`
  relate a request under way to what was held when it was asked for. `InStepAgrees` is
  about a reader of the pages: what is owing is listed still, and in the list
  found so far, in the one that would be found now, and in the last reply there are as many
  newer sessions as the pages read so far hold. The last page then leaves
  nothing owing (`LastPageIsTheEnd`), as fewer sessions are newer than one of a list than the
  list has.

**Voice_proofs** - first of VoiceStream, then over MCSpec, the components of MCVoice:
- `RecordingUploadedOnce` and `SessionEndsOnce`: UploadedOnce and EndedOnce, in every
  behaviour of VoiceStream. The invariant `StreamInv` is TypeOK with `Progress`, which counts:
  uploads are zero while the recording is not taken, endings zero while the session is
  in the maps.
- `TablesAlwaysAgree`: []TablesAgree. For the runtime `SessionsInv` (`SessionsAreKept`): the
  session in a stream's entry serves that stream, the one in a prewarm's entry serves
  nobody, a prewarm that can be found is not closing. For Exotel `ExotelInv`: a socket and
  its id are mapped to each other, a pending session is in the service's map, a
  socket that no event routed to Exotel has no id.
- `ExpirySparesAdopted`: ExpirySparesCalls, from SessionsInv.
- `UnusedPrewarmsAreTimed`: []UnusedIsTimed, under `KeysApart`. A session that no call took is
  closing or in reach of its timer, unless the ending of an earlier prewarm took its
  entry (`displaced`). `PrewarmsWait` says that its key still leads to it; `NumbersLead` that a
  number prewarmed only without SIDs leads where its key does. KeysApart: a
  key by number is no SID (`phone:` sees to that), and a stream that names no SID is not for a number
  prewarmed both with a SID and without. Without the second half it is false; see section 8.
- `GoneSocketsAreForgotten`: []GoneIsWaitedFor. A socket that has gone has its disconnect
  finalizer to come, or is in none of the maps. By `HeldSessions` a stream id and the id of
  a socket lead only to sessions the service holds, the ones whose end removes both; no
  event of another socket under the same id puts an entry back.
- `LanguageFollowsCustomer`: LockFollowsCustomer, with the invariant that a counter
  above zero was raised by the last turn.
- `AudioIsKept`: []AudioKept, for any lengths of chunks and deltas and any sizes of
  groups and frames. Its half for the recording is `SamplesAreKept`: by `TimelineInv` the chunks of
  a direction follow one another up to its cursor, so an inbound sample can
  only be covered where rounding starts the next chunk one sample early. For the
  answer `OutboundInv` says that the frames, the buffer and the downsampler together hold the
  samples 1 to `generated` (`PipeHolds`), and that the pipe is empty between responses. One
  lemma per operator of the pipe shows that it keeps this (`PushKeeps`,
  `RemainderIsHeard`, `FramesMoveSamples`, `LastFrameIsFilled`), on two facts: what is
  put behind a sequence that holds the samples up to the a-th must hold those after it
  (`HoldsBoth`), and the k-th of equal groups starts (k-1) * size later (`GroupsHold`).
- `AnswersAreQuoted`: []AssistantQuoted, for any numbers of answers and deltas
  (`BoundsAssumption`). `WordsInv` ties each answer to the deltas that have come of it
  and each record of it to what was received when it was made; `CutInv` says that,
  as long as every response answers a turn, the provider knows whether a response
  runs, has asked for at most one more (and only when none runs), and has an
  interruption to tell of only when it was the last response's.

**IntegrationCalls_proofs** - for any number of requests, refs, customers and
failing queries: `AnswersRang`, `ResendsNeverDial` and
`ServiceImplementsOneCallPerRef`: Spec => IdempotentCalls. The invariant
`CallInv` adds to the types: a request past its dial was dialled (`Dialled`),
a row belongs to the request that made it and is the row of that request's ref
(`Recorded`), an answer is the recorded call (`Answered`), and a request sent
after an answer can only find (`Resent`): rows are never deleted, so the lookup
cannot come back empty. `ToldCallsAreLinked`: Spec => []ToldAreLinked. A re-sent request
is answered from the row before the creator has linked it; the call is linked, or the
creator's next query links it, or the creator has failed (`RowsLinked`).

**TrainingRecordings_proofs** - for any number of transcriptions and fine-tunes:
`DatasetsAreRedacted` (Spec => []ExamplesRedacted) and `WorkHasRequest`
(Spec => []InProgressHasRequest). ExamplesRedacted is not inductive: it speaks of a
dataset, and a dataset takes the text of an approved recording. The invariant
`RedactionInv` adds that an approved recording is redacted, unless an operator emptied
it. `RequestInv` adds to the second that the marker is a transcription that waits, or
lost, and what a provider can say of a job, so that a
refresh cannot put a row back to uploading.

TLC checked each inductive invariant on the instances of the runs before it was
proved.

### Checked but not proved

- All liveness, for which the prover has no support (fairness, ENABLED). Of seven the
  safety half is proved - whenever something is owed there is a task, a job or a timer
  that will do it - and TLC checks that the step comes:

  | liveness checked by TLC | what is proved |
  |---|---|
  | TranscriptSettles | NothingStaysProcessing |
  | LogSettles | QueuedRowsHaveAJob |
  | AnsweredIsAuthorised | ToldCallsAreLinked |
  | UnusedPrewarmCloses | UnusedPrewarmsAreTimed |
  | GoneIsForgotten | GoneSocketsAreForgotten |
  | GoodbyeEndsCall | GoodbyesAreTimed |
  | OpeningSettles | OpeningsAreTimed |

  StartAnswered, HandedOver, RuntimeReleased, PageCatchesUp and RequestAnswered are
  only model-checked.
- The `TypeOK` of VoiceStream and IntegrationCalls are conjuncts of the invariants
  proved for them, and hold by those theorems; that of VoiceRuntime and
  TranscriptEmail document the variables.
- Modules that reach RECURSIVE operators are out of the prover's reach. No module here
  has one.

## 7. Plan

1. *Done*: CallAuthorization, VoiceStream, PostCall, IntegrationCalls, with the
   abstract specifications OneShotGrants and OneCallPerRef and their theorems;
   the realtime runtime (VoiceRuntime, RuntimeSessions, OutboundAudio,
   LanguageLock), Exotel, recordings, what follows a call, campaigns, training and
   the console pages.
2. *Proved*: every invariant the runs check, and the safety half of seven of the
   liveness properties. Next: that of RuntimeReleased and HandedOver, whose obligations
   pass between two components.
3. Next models: a composition of ExotelStreams with CallAuthorization in place of
   the free decision; the writers of `Call.status` together (dialling, adapters,
   provider webhooks) against an abstract status that only moves forward, which
   the code does not promise today.

## 8. Not modelled, and why

- An API restart in the middle of an inline post-call job: no code recovers it.
- DTMF, mark and clear events, statistics: nothing else reads them.
- Duplicate segment rows: segments are a set, so that two concurrent inserts of
  the same segments show as one. TranscriptIsWhole is about what is missing.
- The on-demand queue: nothing in the code puts a job on it. Test calls
  from the console take the path of IntegrationCalls without an externalRef.
- Prompts, agents, analytics, CRUD, authentication, and the console pages that
  read once: single-statement reads and writes or text passed to a language model.
- `PUBLIC` endpoints that only read (`getByExternalRef`, `getById`).

### What the models contain and no property forbids

Reading the code into the models showed behaviour that nothing in the repository
promises to avoid. The models contain it, the properties are stated around it,
and a team may want to know:

- *Stream granted after hang-up*: its runtime is opened when nobody is left to
  close it; RuntimeReleased excludes a hang-up during the authorization.
- *Late endings of an earlier session* (RuntimeSessions): endSession of an earlier
  prewarm of the same key, or the late close of a restarted stream's WebSocket,
  deletes the entry of the later session; `displaced` records it. Adoption does
  not look whether the prewarmed WebSocket is still open, and orphans a session
  that is already there under the stream's id. The key and timer of a `phone:`
  prewarm adopted through its SID block the next prewarm until they expire.
- *A number prewarmed in two ways* (RuntimeSessions): adoptPrewarmSession
  (`voice/runtime/openai-realtime.provider.ts:869`) clears the timer under the stream's own SID or number, not
  that of the prewarm it adopts. If a number was prewarmed by a dial that returned no
  SID and then by one that did, a stream without a SID adopts the second and stops the
  timer of the first, whose OpenAI session nothing closes any more. UnusedPrewarmsAreTimed
  excludes it by KeysApart; the dials and streams of VoiceStreamLife do not contain it.
- *Reconnecting Exotel calls* (ExotelStreams): under one fallback id the old socket's
  disconnect ends the runtime and the session of the new one; frames without
  `stream_sid` lose their audio; evicting the oldest ended session also removes a
  newer entry of the same id; media that comes late recreates statistics.
- *Three sockets of one Exotel call* (ExotelStreams): the `break` in removeByStreamSid
  (`voice/voice-socket.registry.ts:127`) forgets the first socket that is mapped to the stopped
  id, which may be another one still waiting for its start event under the same
  fallback id. Its start then registers it with VoiceSessionService and not with the registry, so
  that the two name different sockets for the call's id. TablesAgree excepts the
  socket that the registry has forgotten.
- *Opening without fallback* (VoiceRuntime): with
  VOICE_AI_SPEAK_FIRST_FALLBACK_TO_WAIT_FOR_CUSTOMER off, failOpeningWithFallback leaves the opening
  unfinished. A readiness retry left from it calls it again and clears the guards
  of a response that is running, after which the commit timer answers the
  same speech again (AnswersFreshSpeech fails); and a cancellation meant for an earlier
  response of OpenAI's own may reach the one taken for the greeting, which is
  requested again while the first request is still in the queue (GreetedOnce fails).
- *Early streams and late drafts* (CallAuthorization, PostCall): a stream that starts before the
  dial's registration is rejected, since nothing waits for it (for Smartflo the
  registration comes after the dial and three queries). A draft that is written after the
  transcript is final turns it back into a draft (`LateDrafts`).
- *Two faults after a call* (PostCall): if the salvage of a failing job fails too,
  the partner is sent the text of a draft, and no later task corrects it. With
  three finalizers on the worker a salvage may read the segments between another
  task's delete and create, and store a mixture of live segments and recording.
- *Audio* (RecordingTimeline, OutboundAudio): Math.floor may place a chunk one sample
  early, over the last sample of its predecessor. Deltas of a response that the
  session cancelled are still forwarded until OpenAI stops; an error event that
  concerns no response drops buffered samples; `audio_end_ms` counts what was sent, not what
  was played.
- *Interrupted answers* (AssistantTranscript): an answer cut off before its first word is
  recorded, and quoted, with the words of the one before it. In server_vad mode,
  and after a goodbye, `wasInterruptedResponse` stays set until the next commit, so that a later
  whole answer may be called cut off; CutIsTold excludes those (`strayed`).
- *Language* (LanguageLock): the tokenizer cuts Devanagari words at vowel signs; a
  turn of digits counts as English; fillers reset no counter.
- *Recordings* (RecordingLookups): without Redis, a restart or an eviction makes a
  recording unreachable by its stream id. When S3 refuses to sign, the signed route answers
  404 for a recording that is there; EndedCallIsFound excepts refusals of S3.
- *Session lists* (SessionLists): the ended sessions are read before the active ones, so
  a call that ends between shows in neither until the next poll. A call that
  reconnects under its stream id hides its earlier session. A reader of the pages
  may miss a session when a stream id is used again, or when a session that Redis
  has no copy of, or whose copy was still on its way when the reader began, is
  pushed out meanwhile; `steady` excludes those. A copy whose GET fails inside the pipeline,
  or that does not parse, is left out of the list without a trace; so is what its
  reader then misses.
- *Webhooks* (ProviderWebhooks): an earlier status that arrives late overwrites a
  terminal one; without Redis the summary of an older transcript may be stored
  last.
- *Email* (TranscriptEmail): an enqueue that throws, or a second death of the worker,
  leaves a log pending; a mail that was sent before its row said so is sent again;
  without Redis an automatic and a manual mail may both go out.
- *Campaigns*: two schedule requests, or two of retryFailed, queue everyone twice;
  pausing leaves queued jobs running; a job whose worker stops after it created its call
  runs again and creates another. When the event or the update after the creation rejects
  (`queues/processors/campaign-call.processor.ts:29`), the job is not tried again and the call stays
  queued for good; when an enqueue rejects, or without Redis a job does, the customers
  after it are never called though the campaign shows as scheduled.
- *Training*: rows stay in progress when a process stops, when the enqueue rejects after
  `pending` was written (`training/training-call-analysis.controller.ts:69`), when a query of the job
  before its try block does, when the update of a catch block does
  (`training/training-call-analysis.service.ts:237`), and when a transcript is reset under a
  request or job that has still to read it; InProgressHasWork excepts exactly these. Two concurrent
  transcriptions demote an approved recording; emptying the redacted text sends the
  raw one; approving from a stale read revives an archived playbook; an
  invalidation reaches the cache of one process only; without Redis concurrent
  requests pay for an analysis twice.
- *Console* (ConsolePages): a report is announced before its row exists; polling stops at
  `failed` although a salvage may finish later; a panel opened before there is
  anything to watch does not poll; a lost answer of a POST leaves a page waiting.

## 9. Running

    tlc -workers 2 -config CallAuthorizationMemory.cfg MCCallAuthorization
    tlc -workers 2 -config VoiceStreamLife.cfg MCVoice
    tlc -workers 2 -config VoiceRuntimeTurns.cfg VoiceRuntime
    tlc -workers 2 -config PostCallJobs.cfg MCAfterCall
    tlc -workers 2 -config IntegrationCallsRetry.cfg MCIntegrationCalls
    tlapm CallAuthorizationGrants_proofs.tla

The larger runs take up to three minutes. PROJECT.json pairs every run with its
module, every property with the mutant that breaks it, and every definition
with the lines it models.
