----------------------------- MODULE SessionLists -----------------------------
(***************************************************************************)
(* The lists of active and of ended sessions on the console                *)
(* (voice.controller.ts, voice-session.service.ts,                         *)
(* voice-shared-state.service.ts, voice-session-search.util.ts).           *)
(*                                                                         *)
(* The process holds its last ended sessions; of those the app initiated   *)
(* a copy goes to Redis, where an index keeps the latest and each copy     *)
(* expires.  A request takes what the process holds, reads the index, then *)
(* the copies, merges them by stream id and returns one page of the result *)
(* together with the sessions that are active by then.                     *)
(*                                                                         *)
(* Sessions are numbers in the order in which they come, and no two end in *)
(* the same millisecond.  Two of one stream id, a call that reconnects     *)
(* under a fallback id, do not overlap here: in ExotelStreams they do.     *)
(* Whether a listed recording is available is in RecordingLookups.         *)
(***************************************************************************)
EXTENDS Naturals, FiniteSets

CONSTANTS
  MaxSessions,  \* bound: sessions
  MaxLive,      \* bound: sessions at a time
  StreamIds,    \* bound: which session has which stream id
  Exotel,       \* sessions of Exotel, which have an id from the connection on
  Matching,     \* sessions that contain the search term
  MaxRecent,    \* MAX_RECENT_ENDED_SESSIONS
  SharedRecent, \* RECENT_SESSIONS_MAX
  PageSize,     \* limit
  MaxLost       \* bound: restarts and saves that Redis loses

\* Sessions are numbered and have stream ids, and the limits are above zero.
ListsAssumption ==
  /\ MaxSessions \in Nat /\ StreamIds \subseteq [1..MaxSessions -> Nat]
  /\ {MaxRecent, SharedRecent, PageSize} \subseteq Nat \ {0}

VARIABLES
  redisReady, \* voice-shared-state: Redis was reachable
  streamOf,   \* session -> its stream id
  phase,      \* session -> where it is, with what isAppInitiated says
  endedAt,    \* session -> its turn among those that have ended, or 0
  recent,     \* recentEndedSessions
  saving,     \* copies on their way to Redis
  index,      \* voice:sessions:recent
  stored,     \* voice:session:<streamSid>
  reader,     \* one reader of the list, page after page
  listing,    \* the last answer
  lost        \* restarts and lost saves so far

configVars == <<redisReady, streamOf>>
endedVars == <<endedAt, recent>>
redisVars == <<saving, index, stored>>
readerVars == <<reader, listing>>
sessionVars == <<configVars, phase, endedVars, redisVars, lost>>
vars == <<sessionVars, readerVars>>

Session == 1..MaxSessions
Ended == {s \in Session : endedAt[s] > 0}
Live(s) == phase[s] \in {"connected", "pending", "accepted", "rejected"}
NoReader == [part |-> "idle"]
NoListing == [there |-> FALSE]

Init ==
  /\ redisReady \in BOOLEAN /\ streamOf \in StreamIds
  /\ phase = [s \in Session |-> "new"]
  /\ endedAt = [s \in Session |-> 0]
  /\ recent = {} /\ saving = {} /\ index = {} /\ stored = {}
  /\ reader = NoReader /\ listing = NoListing /\ lost = 0

-----------------------------------------------------------------------------
(* The sessions.                                                           *)

Connect(s) ==
  /\ phase[s] = "new"
  /\ \A t \in Session : t < s => phase[t] # "new"
  /\ \A t \in Session : Live(t) => streamOf[t] # streamOf[s]
  /\ Cardinality({t \in Session : Live(t)}) < MaxLive
  /\ phase' = [phase EXCEPT
                 ![s] = IF s \in Exotel THEN "pending" ELSE "connected"]
  /\ UNCHANGED <<configVars, endedVars, redisVars, readerVars, lost>>

BindStreamSid(s) ==
  /\ phase[s] = "connected"
  /\ phase' = [phase EXCEPT ![s] = "pending"]
  /\ UNCHANGED <<configVars, endedVars, redisVars, readerVars, lost>>

MarkAppInitiated(s) ==
  /\ phase[s] = "pending"
  /\ \E a \in {"accepted", "rejected"} : phase' = [phase EXCEPT ![s] = a]
  /\ UNCHANGED <<configVars, endedVars, redisVars, readerVars, lost>>

ShouldPreserveEndedSession(s) == phase[s] # "connected"

\* The sessions whose copies a request would find in Redis.
Shared == {s \in stored : \E t \in index : streamOf[t] = streamOf[s]}

\* Where a session stands among others, the newest first, and the first n.
Place(at, S, s) == Cardinality({t \in S : at[t] >= at[s]})
Newest(at, S, n) == {s \in S : Place(at, S, s) <= n}

\* Copies arrive, and expire, in the order of the endings.
Oldest(S) == {s \in S : \A t \in S : endedAt[s] <= endedAt[t]}

\* An ending leaves the pages of a reader in step unless it takes a stream id
\* again, or pushes out a session of which Redis has no copy.
InStep(s) ==
  /\ \A t \in Ended : streamOf[t] # streamOf[s]
  /\ recent \ recent' \subseteq Shared

EndSession(s) ==
  /\ phase' = [phase EXCEPT ![s] = "ended"]
  /\ endedAt' = [endedAt EXCEPT ![s] = Cardinality(Ended) + 1]
  /\ recent' = Newest(endedAt', recent \cup {s}, MaxRecent)
  /\ saving' = IF redisReady /\ phase[s] = "accepted" THEN saving \cup {s}
               ELSE saving
  /\ reader' = IF reader.part = "idle" \/ InStep(s) THEN reader
               ELSE [reader EXCEPT !.steady = FALSE]

DiscardSession(s) ==
  /\ phase' = [phase EXCEPT ![s] = "ended"]
  /\ UNCHANGED <<endedVars, saving, reader>>

\* endByStreamSid, endBySocketSessionId
End(s) ==
  /\ Live(s)
  /\ \/ ShouldPreserveEndedSession(s) /\ EndSession(s)
     \/ ~ShouldPreserveEndedSession(s) /\ DiscardSession(s)
  /\ UNCHANGED <<configVars, index, stored, listing, lost>>

\* A session takes the place of those of its stream id.
Put(S, s) == {t \in S : streamOf[t] # streamOf[s]} \cup {s}

\* saveEndedSession: SET, ZADD and ZREMRANGEBYRANK in one pipeline.
SaveEndedSession(s) ==
  /\ s \in Oldest(saving) /\ saving' = saving \ {s}
  /\ stored' = Put(stored, s)
  /\ index' = Newest(endedAt, Put(index, s), SharedRecent)
  /\ UNCHANGED <<configVars, phase, endedVars, readerVars, lost>>

SaveFails(s) ==
  /\ s \in Oldest(saving) /\ saving' = saving \ {s}
  /\ lost < MaxLost /\ lost' = lost + 1
  /\ UNCHANGED <<configVars, phase, endedVars, index, stored, readerVars>>

Expires(s) ==
  /\ s \in Oldest(stored) /\ stored' = stored \ {s}
  /\ UNCHANGED <<configVars, phase, endedVars, saving, index, readerVars, lost>>

\* The process restarts, with its sockets and the request.
Restart ==
  /\ lost < MaxLost /\ lost' = lost + 1
  /\ phase' = [s \in Session |-> IF Live(s) THEN "ended" ELSE phase[s]]
  /\ recent' = {} /\ saving' = {}
  /\ reader' = NoReader /\ listing' = NoListing
  /\ UNCHANGED <<configVars, endedAt, index, stored>>

-----------------------------------------------------------------------------
(* The list.                                                               *)

GetActiveSessions ==
  {s \in Session : Live(s) /\ (phase[s] # "rejected" \/ s \in Exotel)}

FilterVoiceSessionsBySearch(S, search) == IF search THEN S \cap Matching ELSE S

\* getRecentEndedSessions takes the local sessions, then asks Redis.
ListSessions(page, search) ==
  reader' = [part |-> IF redisReady THEN "index" ELSE "merge",
             page |-> page, search |-> search,
             local |-> recent, ids |-> {}, copies |-> {},
             held |-> recent \cup Shared,
             seen |-> IF page = 1 THEN {} ELSE reader.seen,
             due |-> IF page = 1 THEN {} ELSE reader.due,
             steady |-> IF page = 1 THEN saving \subseteq recent
                       ELSE reader.steady]

\* Someone starts to read, or goes on to the next page.
OpenPage ==
  /\ reader.part = "idle" /\ (\E search \in BOOLEAN : ListSessions(1, search))
  /\ UNCHANGED <<sessionVars, listing>>

NextPage ==
  /\ reader.part = "read" /\ reader.page < listing.pages
  /\ ListSessions(reader.page + 1, reader.search)
  /\ listing' = NoListing
  /\ UNCHANGED sessionVars

\* listRecentEndedSessions: ZREVRANGE, then a GET of each.
ReadIndex ==
  /\ reader.part = "index"
  /\ reader' = [reader EXCEPT !.part = "copies",
                              !.ids = {streamOf[s] : s \in index}]
  /\ UNCHANGED <<sessionVars, listing>>

\* A GET that fails, or a copy that cannot be parsed, is left out, and the
\* answer then says nothing of its stream unless the process holds it.
ReadCopies ==
  /\ reader.part = "copies"
  /\ \E failed \in SUBSET {s \in stored : streamOf[s] \in reader.ids} :
       reader' = [reader EXCEPT !.part = "merge",
          !.copies = {s \in stored \ failed : streamOf[s] \in reader.ids},
          !.held = {s \in @ : s \in reader.local
                               \/ \A t \in failed : streamOf[t] # streamOf[s]},
          !.steady = @ /\ failed = {}]
  /\ UNCHANGED <<sessionVars, listing>>

\* The last of some sessions under each stream id.
LastOfStream(S) ==
  {s \in S : \A t \in S : streamOf[t] = streamOf[s] => endedAt[t] <= endedAt[s]}

\* Mutant: a copy from Redis replaces the session the process holds.
MergeCopiesOver(local, copies) ==
  copies \cup {s \in LastOfStream(local) :
                 \A t \in copies : streamOf[t] # streamOf[s]}

\* By stream id, what the process holds in place of a copy.
Merge(local, copies) ==
  LastOfStream(local)
    \cup {s \in copies : \A t \in local : streamOf[t] # streamOf[s]}

\* Mutant: the oldest first.
OldestFirst(all, page) ==
  {s \in all : Cardinality({t \in all : endedAt[t] <= endedAt[s]})
                 \in ((page - 1) * PageSize + 1)..(page * PageSize)}

\* The newest are on the first page.
PageItems(all, page) ==
  Newest(endedAt, all, page * PageSize) \ Newest(endedAt, all, (page - 1) * PageSize)

TotalPages(all) ==
  IF all = {} THEN 1 ELSE (Cardinality(all) + PageSize - 1) \div PageSize

\* The page, its number of pages, and the active sessions of the moment.
Reply ==
  LET merged == Merge(reader.local, reader.copies)
      all == FilterVoiceSessionsBySearch(merged, reader.search)
  IN /\ reader.part = "merge"
     /\ listing' = [there |-> TRUE, all |-> all, pages |-> TotalPages(all),
                    held |-> reader.held \cap (reader.local \cup Shared),
                    active |-> FilterVoiceSessionsBySearch(GetActiveSessions,
                                                           reader.search)]
     /\ reader' = [reader EXCEPT !.part = "read", !.local = {}, !.ids = {},
                                 !.copies = {}, !.held = {},
                                 !.seen = @ \cup PageItems(all, reader.page),
                                 !.due = IF reader.page = 1 THEN all ELSE @]
     /\ UNCHANGED sessionVars

ClosePage ==
  /\ reader.part = "read" /\ reader' = NoReader /\ listing' = NoListing
  /\ UNCHANGED sessionVars

Next ==
  \/ \E s \in Session :
       \/ Connect(s) \/ BindStreamSid(s) \/ MarkAppInitiated(s) \/ End(s)
       \/ SaveEndedSession(s) \/ SaveFails(s) \/ Expires(s)
  \/ Restart
  \/ OpenPage \/ NextPage \/ ReadIndex \/ ReadCopies \/ Reply \/ ClosePage

Spec == Init /\ [][Next]_vars

-----------------------------------------------------------------------------

\* An answer shows no session as both active and ended, and no stream twice
\* among the ended; and what was held when it was asked for, and still is, is
\* shown, without a search, by a session that is no older one of its stream,
\* but for what only a copy that could not be read holds.
ListedOnce ==
  listing.there =>
    /\ listing.active \cap listing.all = {}
    /\ \A s, t \in listing.all : streamOf[s] = streamOf[t] => s = t
    /\ ~reader.search => \A s \in listing.held : \E t \in listing.all :
         streamOf[t] = streamOf[s] /\ endedAt[t] >= endedAt[s]

\* Whoever reads the pages to the last, while calls end and copies expire, has
\* seen every session that was listed when they began and still is, unless a
\* stream id was used again meanwhile, a session pushed out of which Redis had
\* no copy, or not yet, or a copy could not be read.
PagesMissNothing ==
  (reader.part = "read" /\ reader.page >= listing.pages /\ reader.steady)
    => reader.due \cap listing.all \subseteq reader.seen

=============================================================================
