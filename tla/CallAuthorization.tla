------------------------- MODULE CallAuthorization -------------------------
(***************************************************************************)
(* VoiceCallAuthorizationService and the part of VoiceSharedStateService   *)
(* it uses.  Dialling a call registers a pending authorization; when the   *)
(* telephony provider opens a media stream, authorizeStart looks for an    *)
(* authorization that matches (id, reserved call SID, call SID, phone,     *)
(* phone suffix) and consumes it.                                          *)
(*                                                                         *)
(* authorizeStart is an async function: every await lets other handlers of *)
(* the same process run, and every Redis command is a round trip to a      *)
(* store that other processes use.  Each start is therefore a small        *)
(* process of its own: Lookup picks the next candidate, RedisGet reads the *)
(* shared copy, Check decides and consumes, MarkRead and MarkWrite are the *)
(* GET and SET of markAuthorizationConsumed.                               *)
(***************************************************************************)
EXTENDS Naturals, Sequences, FiniteSets

CONSTANTS
  Process,      \* backend processes behind the load balancer
  Auth,         \* authorization ids (randomUUID: never reused)
  Stream,       \* media streams whose start event arrives
  Sid,          \* provider call SIDs, compared without case
  Phone,        \* normalised phone numbers
  None,         \* absent value
  PhoneOf,      \* [Auth -> Phone]: the customer number registered
  SidOf,        \* [Auth -> Sid]: the SID the provider gives the call
  StreamSid,    \* [Stream -> Sid \cup {None}]: callSid of the start event
  StreamPhones, \* [Stream -> Seq(Phone)]: <<from, to>>, normalised
  CallOf,       \* [Stream -> Auth \cup {None}]: the call it is of, if we dialled it
  ExactCase,    \* streams that spell the SID exactly as the dial response did
  UrlResolved,  \* streams whose WSS URL the Exotel resolver handed out
  SuffixOf,     \* [Phone -> anything]: last ten digits, None when shorter
  Required,     \* isAuthorizationRequired()
  UseRedis,     \* REDIS_ENABLED and Redis reachable
  Capacity,     \* MAX_PENDING_AUTHORIZATIONS
  PhoneWindow,  \* entries LRANGE 0..10 returns
  MaxRestarts   \* bound: process restarts

ASSUME ConstantsAssumption ==
  /\ IsFiniteSet(Auth)      \* a run registers finitely many calls
  /\ None \notin Auth \cup Sid \cup Phone \cup Process
  /\ PhoneOf \in [Auth -> Phone]
  /\ SidOf \in [Auth -> Sid]
  /\ StreamSid \in [Stream -> Sid \cup {None}]
  /\ StreamPhones \in [Stream -> Seq(Phone)]
  /\ CallOf \in [Stream -> Auth \cup {None}]
  /\ ExactCase \subseteq Stream /\ UrlResolved \subseteq Stream
  /\ Required \in BOOLEAN /\ UseRedis \in BOOLEAN
  /\ Capacity \in Nat \ {0} /\ PhoneWindow \in Nat \ {0}
  /\ MaxRestarts \in Nat

VARIABLES
  home,         \* [Auth -> Process \cup {None}]: the process that registered it
  stamp,        \* [Auth -> Nat]: order of registration (registeredAt)
  expired,      \* authorizations past expiresAt
  pending,      \* [Process -> SUBSET Auth]: keys of the Map `pending`
  entry,        \* [Auth -> record]: the object the Map of its home holds
  reservation,  \* [Process -> [Sid -> ...]]: streamUrlAuthorizationByCallSid
  redis,        \* [Auth -> record]: the voice:auth keys
  redisPhone,   \* [Phone -> Seq(Auth)]: the voice:auth:phone lists
  outbox,       \* [Process -> Seq(save)]: `void saveAuthorization` in flight
  hint,         \* [Stream -> Auth \cup {None}]: authorizationId of the WSS url
  start,        \* [Stream -> record]: one authorizeStart call per stream
  took,         \* [Stream -> Auth \cup {None}]: the authorization it consumed
  eligible,     \* [Stream -> SUBSET Auth]: history, matching entries at its start
  restarts

issueVars == <<home, stamp, expired>>
localVars == <<pending, entry, reservation>>
redisVars == <<redis, redisPhone>>
startVars == <<start, took, eligible>>
vars == <<issueVars, localVars, redisVars, outbox, hint, startVars, restarts>>

Stages == {"authorizationId", "reservation", "callSid", "redisCallSid",
           "phoneExact", "redisPhone", "phoneSuffix", "exhausted"}
Decided == {"granted", "rejected", "bypassed", "failed", "dropped"}
Running == {"lookup", "get", "check", "markRead", "markWrite", "return"}

StartRecord == [pc : {"idle"} \cup Running \cup Decided,
                proc : Process \cup {None}, offered : Auth \cup {None},
                stage : Stages, phone : Nat, cursor : Nat,
                target : Auth \cup {None}, source : {"none", "local", "shared"},
                consumable : BOOLEAN]

\* A search at a stage (number, entry) with no candidate in hand.
Search(p, offered, pc, stage, phone, cursor) ==
  [pc |-> pc, proc |-> p, offered |-> offered, stage |-> stage, phone |-> phone,
   cursor |-> cursor, target |-> None, source |-> "none", consumable |-> FALSE]

Idle == Search(None, None, "idle", "authorizationId", 1, 0)

Init ==
  /\ home = [a \in Auth |-> None]
  /\ stamp = [a \in Auth |-> 0]
  /\ expired = {}
  /\ pending = [p \in Process |-> {}]
  /\ entry = [a \in Auth |-> [sid |-> FALSE, callId |-> FALSE, consumed |-> FALSE]]
  /\ reservation = [p \in Process |-> [d \in Sid |-> None]]
  /\ redis = [a \in Auth |-> [present |-> FALSE, sid |-> FALSE, consumed |-> FALSE]]
  /\ redisPhone = [n \in Phone |-> <<>>]
  /\ outbox = [p \in Process |-> <<>>]
  /\ hint = [s \in Stream |-> None]
  /\ start = [s \in Stream |-> Idle]
  /\ took = [s \in Stream |-> None]
  /\ eligible = [s \in Stream |-> {}]
  /\ restarts = 0

-----------------------------------------------------------------------------
(* The maps of one process.                                                *)

Registered == {a \in Auth : home[a] # None}
Live(a) == a \notin expired
Consumable(a) == Live(a) /\ ~entry[a].consumed

\* pruneExpired
Unexpired(S) == S \ expired

\* trimPendingEntries: drop the oldest until MAX_PENDING_AUTHORIZATIONS remain.
Trimmed(S, order) ==
  {a \in S : Cardinality({b \in S : order[b] > order[a]}) < Capacity}

\* pendingByPhone.get(phone): newest first, so index j has j newer entries.
ByPhone(p, n) == {a \in pending[p] : PhoneOf[a] = n}
AtIndex(S, j) == {a \in S : Cardinality({b \in S : stamp[b] > stamp[a]}) = j}

\* pendingByCallSid, read without case (findAuthorizationIdForCallSid).
ByCallSid(p, sid) == {a \in pending[p] : entry[a].sid /\ SidOf[a] = sid}

\* Mutant: the scan starts one entry late.
SuffixMatchLate(p, n, after) ==
  LET S == {a \in pending[p] : /\ SuffixOf[n] # None
                               /\ SuffixOf[PhoneOf[a]] = SuffixOf[n]
                               /\ Consumable(a)
                               /\ stamp[a] > after + 1}
  IN  {a \in S : \A b \in S : stamp[a] <= stamp[b]}

\* Mutant: any entry with a number passes for the same customer.
SuffixMatchAny(p, n, after) ==
  LET S == {a \in pending[p] : Consumable(a) /\ stamp[a] > after}
  IN  {a \in S : \A b \in S : stamp[a] <= stamp[b]}

\* The Map scan of consumeAuthorizationByPhoneSuffix: insertion order, from
\* after the entry last tried, skipping what is already consumed or expired.
SuffixMatch(p, n, after) ==
  LET S == {a \in pending[p] : /\ SuffixOf[n] # None
                               /\ SuffixOf[PhoneOf[a]] = SuffixOf[n]
                               /\ Consumable(a)
                               /\ stamp[a] > after}
  IN  {a \in S : \A b \in S : stamp[a] <= stamp[b]}

(* What Redis answers.                                                     *)

SharedConsumable(a) == redis[a].present /\ ~redis[a].consumed /\ Live(a)

\* loadAuthorizationByCallSid: the key is spelled exactly.
SharedByCallSid(s) ==
  {a \in Auth : s \in ExactCase /\ redis[a].sid /\ SidOf[a] = StreamSid[s]}

\* loadLatestAuthorizationByPhone: first usable id of the LRANGE window.
SharedByPhone(n) ==
  LET ids == redisPhone[n]
      usable == {i \in 1..Len(ids) : i <= PhoneWindow /\ SharedConsumable(ids[i])}
  IN  {ids[i] : i \in {j \in usable : \A k \in usable : j <= k}}

\* saveAuthorization once it reaches Redis: SET, the callSid key, LPUSH.
Store(a, hasSid, consumed) ==
  /\ redis' = [redis EXCEPT ![a] = [present |-> TRUE,
                                    sid |-> @.sid \/ hasSid,
                                    consumed |-> consumed]]
  /\ redisPhone' = [redisPhone EXCEPT ![PhoneOf[a]] = <<a>> \o @]

\* `void saveAuthorization(entry)`: the payload is serialised at the call.
Save(p, a, hasSid, consumed) ==
  outbox' = IF UseRedis
              THEN [outbox EXCEPT ![p] = Append(@, [id |-> a, sid |-> hasSid,
                                                    consumed |-> consumed])]
              ELSE outbox

\* Mutant: reads do not wait for the writes sent before them.
FlushedNever(p) == TRUE

\* A process's commands share one connection: a read waits for its writes.
Flushed(p) == outbox[p] = <<>>

-----------------------------------------------------------------------------
(* Operations of the outbound call path.                                   *)

\* register: Smartflo registers after dialling, with the SID; Exotel before.
Register(p, a, hasSid) ==
  /\ home[a] = None
  /\ home' = [home EXCEPT ![a] = p]
  /\ stamp' = [stamp EXCEPT ![a] = 1 + Cardinality(Registered)]
  /\ entry' = [entry EXCEPT ![a].sid = hasSid, ![a].callId = hasSid]
  /\ pending' = [pending EXCEPT ![p] = Trimmed(Unexpired(@) \cup {a}, stamp')]
  /\ Save(p, a, hasSid, FALSE)
  /\ UNCHANGED <<expired, reservation, redisVars, hint, startVars, restarts>>

\* linkProviderCallDetails with the callSid, then with the database callId.
\* The callId only matters here for the save it causes.
LinkProviderCallDetails(p, a, field) ==
  /\ a \in pending[p]
  /\ field = "callId" => UseRedis
  /\ ~entry[a][field]
  /\ entry' = [entry EXCEPT ![a][field] = TRUE]
  /\ Save(p, a, entry'[a].sid, entry[a].consumed)
  /\ UNCHANGED <<issueVars, pending, reservation, redisVars, hint, startVars,
                 restarts>>

\* A save reaches Redis; exec() resolves with per-command errors that the
\* caller ignores, so a save may also be lost without a trace.
DeliverSave(p) ==
  /\ outbox[p] # <<>>
  /\ outbox' = [outbox EXCEPT ![p] = Tail(@)]
  /\ LET save == Head(outbox[p])
     IN \/ Store(save.id, save.sid, save.consumed)
        \/ UNCHANGED redisVars
  /\ UNCHANGED <<issueVars, localVars, hint, startVars, restarts>>

\* All entries have the same TTL: they expire in the order they registered.
Expire(a) ==
  /\ a \in Registered \ expired
  /\ \A b \in Registered : stamp[b] < stamp[a] => b \in expired
  /\ expired' = expired \cup {a}
  /\ UNCHANGED <<home, stamp, localVars, redisVars, outbox, hint, startVars, restarts>>

-----------------------------------------------------------------------------
(* The Exotel stream-url resolver.                                         *)

\* Mutant: answers with the rank of the alternative instead of its id.
FirstPendingRank(p, s) ==
  IF \E a \in pending[p] : Consumable(a) THEN {3} ELSE {}

\* findPendingAuthorizationId, without consuming: ranked alternatives.
FirstPending(p, s) ==
  LET phones == StreamPhones[s]
      newest(n) == LET S == {a \in ByPhone(p, n) : Consumable(a)}
                   IN  {a \in S : \A b \in S : stamp[b] <= stamp[a]}
      ranked ==
        {<<1, a>> : a \in {b \in ByCallSid(p, StreamSid[s]) :
                             s \in ExactCase /\ Consumable(b)}}
        \cup {<<2, a>> : a \in {b \in SharedByCallSid(s) : SharedConsumable(b)}}
        \cup UNION {{<<3 + 2 * (Len(phones) - i), a>> : a \in newest(phones[i])}
                    \cup {<<4 + 2 * (Len(phones) - i), a>> :
                            a \in SharedByPhone(phones[i])}
                    : i \in DOMAIN phones}
  IN  {x[2] : x \in {y \in ranked : \A z \in ranked : y[1] <= z[1]}}

\* resolveStreamUrl: the id goes into the WSS URL and is remembered for the
\* SID.  Atomic: what it returns is a hint that consumption checks again.
ResolveStreamUrl(p, s) ==
  /\ s \in UrlResolved /\ start[s].pc = "idle" /\ hint[s] = None
  /\ Flushed(p)
  /\ \E a \in FirstPending(p, s) :
       /\ hint' = [hint EXCEPT ![s] = a]
       /\ reservation' = IF StreamSid[s] = None THEN reservation
                         ELSE [reservation EXCEPT ![p][StreamSid[s]] = a]
  /\ pending' = [pending EXCEPT ![p] = Unexpired(@)]
  /\ UNCHANGED <<issueVars, entry, redisVars, outbox, startVars, restarts>>

-----------------------------------------------------------------------------
(* authorizeStart, one await at a time.                                    *)

Matches(s, a) ==
  \/ SidOf[a] = StreamSid[s] /\ entry[a].sid
  \/ \E i \in DOMAIN StreamPhones[s] :
       /\ SuffixOf[StreamPhones[s][i]] # None
       /\ SuffixOf[StreamPhones[s][i]] = SuffixOf[PhoneOf[a]]

\* The offered id is the one in the URL of this stream, or of an earlier
\* stream of the same call when the provider reconnects.
BeginStart(p, s, offered) ==
  /\ start[s].pc = "idle"
  /\ start' = [start EXCEPT
       ![s] = Search(p, offered, "lookup", "authorizationId", 1, 0)]
  /\ pending' = [pending EXCEPT ![p] = Unexpired(@)]
  /\ eligible' = [eligible EXCEPT
       ![s] = {a \in pending[p] : Consumable(a) /\ (a = offered \/ Matches(s, a))}]
  /\ UNCHANGED <<issueVars, entry, reservation, redisVars, outbox, hint, took, restarts>>

SharedStages == {"redisCallSid", "redisPhone"}

\* The candidate of the stage r has reached, if any (a set of at most one id).
Candidate(s, r) ==
  LET sid == StreamSid[s]
      number == StreamPhones[s][r.phone]
  IN  CASE r.stage = "authorizationId" -> {r.offered} \ {None}
        [] r.stage = "reservation" ->
             IF sid = None THEN {} ELSE {reservation[r.proc][sid]} \ {None}
        [] r.stage = "callSid" -> ByCallSid(r.proc, sid)
        [] r.stage = "redisCallSid" -> SharedByCallSid(s)
        [] r.stage = "phoneExact" -> AtIndex(ByPhone(r.proc, number), r.cursor)
        [] r.stage = "redisPhone" -> SharedByPhone(number)
        [] r.stage = "phoneSuffix" -> SuffixMatch(r.proc, number, r.cursor)
        [] r.stage = "exhausted" -> {}

\* The search r, elsewhere.
At(r, pc, stage, phone, cursor) ==
  Search(r.proc, r.offered, pc, stage, phone, cursor)

\* The search r with a candidate in hand.
Trying(r, pc, a, source) ==
  [pc |-> pc, proc |-> r.proc, offered |-> r.offered, stage |-> r.stage,
   phone |-> r.phone, cursor |-> r.cursor, target |-> a, source |-> source,
   consumable |-> FALSE]

\* Where the search goes when a stage has nothing (more) to offer.
AfterStage(s, r) ==
  LET phones == Len(StreamPhones[s])
      To(stage, i) == At(r, "lookup", stage, i, 0)
  IN  CASE r.stage = "authorizationId" ->
             To(IF Required THEN "reservation" ELSE "callSid", 1)
        [] r.stage = "reservation" -> To("callSid", 1)
        [] r.stage = "callSid" -> To("redisCallSid", 1)
        [] r.stage = "redisCallSid" ->
             To(IF phones = 0 THEN "exhausted" ELSE "phoneExact", 1)
        [] r.stage = "phoneExact" -> To("redisPhone", r.phone)
        [] r.stage = "redisPhone" ->
             IF r.phone < phones THEN To("phoneExact", r.phone + 1)
                                 ELSE To("phoneSuffix", 1)
        [] r.stage = "phoneSuffix" ->
             IF r.phone < phones THEN To("phoneSuffix", r.phone + 1)
                                 ELSE To("exhausted", 1)
        [] r.stage = "exhausted" ->
             At(r, IF Required THEN "rejected" ELSE "bypassed", "exhausted", 1, 0)

\* Mutant: the phone loop never moves past a used entry.
AfterTryStuck(s, r) == At(r, "lookup", r.stage, r.phone, r.cursor)

\* Where it goes when a candidate could not be consumed: the two loops try
\* their next element, every other stage has a single candidate.
AfterTry(s, r) ==
  CASE r.stage = "phoneExact" -> At(r, "lookup", r.stage, r.phone, r.cursor + 1)
    [] r.stage = "phoneSuffix" ->
         At(r, "lookup", r.stage, r.phone, stamp[r.target])
    [] OTHER -> AfterStage(s, r)

\* resolveAuthorization takes the local object if the Map has one.
HeldLocally(p, a) == a \in pending[p]

\* The next candidate and where it is resolved.
Lookup(s) ==
  LET r == start[s]
  IN  /\ start[s].pc = "lookup"
      /\ r.stage \in SharedStages => Flushed(r.proc)
      /\ \/ \E a \in Candidate(s, r) :
              LET mine == HeldLocally(r.proc, a)
              IN start' = [start EXCEPT ![s] =
                   Trying(r, IF mine \/ ~UseRedis THEN "check" ELSE "get",
                          a, IF mine THEN "local" ELSE "shared")]
         \/ /\ Candidate(s, r) = {}
            /\ start' = [start EXCEPT ![s] = AfterStage(s, r)]
      /\ UNCHANGED <<issueVars, localVars, redisVars, outbox, hint, took,
                     eligible, restarts>>

\* loadAuthorization: a parsed copy, detached from what other starts see.
RedisGet(s) ==
  LET a == start[s].target
  IN  /\ start[s].pc = "get"
      /\ Flushed(start[s].proc)
      /\ start' = [start EXCEPT ![s].pc = "check",
                     ![s].consumable = redis[a].present /\ ~redis[a].consumed]
      /\ UNCHANGED <<issueVars, localVars, redisVars, outbox, hint, took, eligible, restarts>>

\* Mutant: only the expiry is tested.
UsableUsed(r) == Live(r.target)

\* What consumeAuthorization tests: the live local object or the parsed copy.
Usable(r) ==
  /\ Live(r.target)
  /\ IF r.source = "local" THEN ~entry[r.target].consumed ELSE r.consumable

\* Mutant: the flag is set on the match that is returned only.
MarkedNothing(r) == entry

\* ... and what it sets: the object itself and the local entry, if any.
Marked(r) ==
  IF r.source = "local" \/ r.target \in pending[r.proc]
    THEN [entry EXCEPT ![r.target].consumed = TRUE] ELSE entry

\* The test and set of consumeAuthorization, with no await between them.
Check(s) ==
  LET r == start[s]
  IN  /\ r.pc = "check"
      /\ IF Usable(r)
           THEN /\ took' = [took EXCEPT ![s] = r.target]
                /\ entry' = Marked(r)
                /\ start' = [start EXCEPT ![s].pc =
                               IF UseRedis THEN "markRead" ELSE "return"]
           ELSE /\ start' = [start EXCEPT ![s] = AfterTry(s, r)]
                /\ UNCHANGED <<took, entry>>
      /\ UNCHANGED <<issueVars, pending, reservation, redisVars, outbox, hint,
                     eligible, restarts>>

\* markAuthorizationConsumed: GET, then SET of the payload it read.
MarkRead(s) ==
  /\ start[s].pc = "markRead"
  /\ Flushed(start[s].proc)
  /\ start' = [start EXCEPT ![s].pc = IF redis[start[s].target].present
                                        THEN "markWrite" ELSE "return"]
  /\ UNCHANGED <<issueVars, localVars, redisVars, outbox, hint, took, eligible, restarts>>

MarkWrite(s) ==
  /\ start[s].pc = "markWrite"
  /\ Flushed(start[s].proc)
  /\ \/ Store(start[s].target, FALSE, TRUE)
     \/ UNCHANGED redisVars
  /\ start' = [start EXCEPT ![s].pc = "return"]
  /\ UNCHANGED <<issueVars, localVars, outbox, hint, took, eligible, restarts>>

\* The awaits are over: the used-up reservation is dropped and the match returned.
Return(s) ==
  /\ start[s].pc = "return"
  /\ start' = [start EXCEPT ![s].pc = "granted"]
  /\ reservation' = IF start[s].stage = "reservation"
                      THEN [reservation EXCEPT
                              ![start[s].proc][StreamSid[s]] = None]
                      ELSE reservation
  /\ UNCHANGED <<issueVars, pending, entry, redisVars, outbox, hint, took,
                 eligible, restarts>>

\* A Redis command rejects and authorizeStart with it: what was consumed stays so.
RedisError(s) ==
  /\ UseRedis
  /\ \/ start[s].pc \in {"get", "markRead", "markWrite"}
     \/ start[s].pc = "lookup" /\ start[s].stage \in SharedStages
  /\ start' = [start EXCEPT ![s].pc = "failed"]
  /\ UNCHANGED <<issueVars, localVars, redisVars, outbox, hint, took, eligible, restarts>>

\* PM2 restarts a process: its maps and sockets are gone, Redis keeps its keys.
Restart(p) ==
  /\ restarts < MaxRestarts
  /\ restarts' = restarts + 1
  /\ pending' = [pending EXCEPT ![p] = {}]
  /\ reservation' = [reservation EXCEPT ![p] = [d \in Sid |-> None]]
  /\ outbox' = [outbox EXCEPT ![p] = <<>>]
  /\ start' = [s \in Stream |->
                 IF start[s].proc = p /\ start[s].pc \in Running
                   THEN [start[s] EXCEPT !.pc = "dropped"] ELSE start[s]]
  /\ UNCHANGED <<issueVars, entry, redisVars, hint, took, eligible>>

-----------------------------------------------------------------------------
Advance(s) ==
  Lookup(s) \/ RedisGet(s) \/ Check(s) \/ MarkRead(s) \/ MarkWrite(s) \/ Return(s)

Offers(s) ==
  {None} \cup {hint[t] : t \in {u \in Stream : CallOf[u] = CallOf[s]}}

Next ==
  \/ \E p \in Process, a \in Auth : \E hasSid \in BOOLEAN : Register(p, a, hasSid)
  \/ \E p \in Process, a \in Auth : \E field \in {"sid", "callId"} :
       LinkProviderCallDetails(p, a, field)
  \/ \E p \in Process : DeliverSave(p)
  \/ \E p \in Process : Restart(p)
  \/ \E a \in Auth : Expire(a)
  \/ \E p \in Process, s \in Stream : ResolveStreamUrl(p, s)
  \/ \E p \in Process, s \in Stream : \E o \in Offers(s) : BeginStart(p, s, o)
  \/ \E s \in Stream : Lookup(s)
  \/ \E s \in Stream : RedisGet(s)
  \/ \E s \in Stream : Check(s)
  \/ \E s \in Stream : MarkRead(s)
  \/ \E s \in Stream : MarkWrite(s)
  \/ \E s \in Stream : Return(s)
  \/ \E s \in Stream : RedisError(s)

Spec == Init /\ [][Next]_vars

\* The event loop runs every continuation that is ready and the connection to
\* Redis delivers what was sent; nothing makes calls or streams arrive.
Fairness ==
  /\ \A s \in Stream : WF_vars(Advance(s))
  /\ \A p \in Process : WF_vars(DeliverSave(p))

FairSpec == Spec /\ Fairness

-----------------------------------------------------------------------------
(* Properties.                                                             *)

\* Types of the variables.
TypeOK ==
  /\ home \in [Auth -> Process \cup {None}]
  /\ stamp \in [Auth -> Nat]
  /\ expired \subseteq Auth
  /\ pending \in [Process -> SUBSET Auth]
  /\ entry \in [Auth -> [sid : BOOLEAN, callId : BOOLEAN, consumed : BOOLEAN]]
  /\ reservation \in [Process -> [Sid -> Auth \cup {None}]]
  /\ redis \in [Auth -> [present : BOOLEAN, sid : BOOLEAN, consumed : BOOLEAN]]
  /\ redisPhone \in [Phone -> Seq(Auth)]
  /\ outbox \in [Process -> Seq([id : Auth, sid : BOOLEAN, consumed : BOOLEAN])]
  /\ hint \in [Stream -> Auth \cup {None}]
  /\ start \in [Stream -> StartRecord]
  /\ took \in [Stream -> Auth \cup {None}]
  /\ eligible \in [Stream -> SUBSET Auth]
  /\ restarts \in Nat

\* No authorization is consumed by two streams: authorizeStart of two streams
\* that match the same call interleave at every await, and one of them must
\* find it "already used" (voice-call-authorization.service.ts, l.299).
AtMostOneGrant ==
  \A s, t \in Stream : took[s] # None /\ took[s] = took[t] => s = t

\* A stream that is turned away leaves nothing behind it: no authorization
\* that matched when its start arrived, in the map of its process, is still
\* unused.  The loops iterate live maps that other handlers change meanwhile.
NothingLeftBehind ==
  \A s \in Stream : start[s].pc = "rejected" =>
    \A a \in eligible[s] \cap pending[start[s].proc] : ~Consumable(a)

\* A stream only ever takes the authorization of its own call, although every
\* failed match falls through to looser ones: where the customers' numbers
\* differ, neither a stale reservation nor a copy in Redis lets it pass for
\* another (consumeAuthorizationByPhone and its suffix scan).
OwnCallOnly == \A s \in Stream : took[s] \in {None, CallOf[s]}

\* A start that was received is eventually answered, however its awaits
\* interleave with registrations that lengthen the lists it iterates.
StartAnswered ==
  \A s \in Stream : start[s].pc \in Running ~> start[s].pc \in Decided

\* Redis never forgets a consumption it has recorded: a save of the provider
\* details that was serialised earlier must not overwrite the mark.
RedisRemembers ==
  [][\A a \in Auth : redis[a].consumed => redis'[a].consumed]_vars

\* Every behaviour is one of the one-shot authorizations of OneShotGrants.
Abstract == INSTANCE OneShotGrants WITH issued <- Registered, took <- took
OneShot == Abstract!Spec
=============================================================================
