\* PostCall: two finalizers, drafts saved before the call ends, one fault in a job
\* or salvage.  TranscriptEmail: the automatic mail, a manual one and a resend.
\* TrainingAnalyses: for all, again and insights.  ProviderWebhooks: three hooks.
SPECIFICATION MCSpec
CONSTANTS
  r1 = r1 r2 = r2 r3 = r3 a1 = a1 a2 = a2 a3 = a3 h1 = h1 h2 = h2 h3 = h3
  Utterance = {u1, u2}
  Recording = rec
  Finalizer = {f1, f2}
  LateDrafts = FALSE
  FailAt <- AfterLoad
  MaxFaults = 1
  Mail = {r1, r2, r3}
  MailKind <- MCMailKind
  MailFaults = 2
  Playbook = {p1, p2}
  Lookup = {l1}
  NoPlaybook = NoPlaybook
  Ttl = 2
  Analysis = {a1, a2, a3}
  AnalysisKind <- MCAnalysisKind
  Transcriber = {t1, t2}
  Tuner = {j1}
  Hook = {h1, h2, h3}
  HookStatus <- MCHookStatus
  HookText <- MCHookText
  NoText = NoText
  Customer = {c1}
  CampaignRequest = {s1, s2}
  MaxCalls = 2
  MaxStarts = 1
  MaxPosts = 2
  PageFaults = 1
  MaxSessions = 3
  MaxLive = 2
  StreamIds <- MCStreamIds
  Exotel = {1, 2}
  Matching = {1, 3}
  MaxRecent = 1
  SharedRecent = 2
  PageSize = 1
  MaxLost = 1
INVARIANTS TranscriptIsWhole ResultIsWhole MailedOnce CacheIsRecent InProgressHasWork
INVARIANTS ExamplesRedacted SummaryIsCurrent EndedCallIsFound
PROPERTIES TranscriptSettles LogSettles PageCatchesUp
CHECK_DEADLOCK FALSE
