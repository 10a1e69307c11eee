------------------------------ MODULE Playbooks ------------------------------
(***************************************************************************)
(* The agent playbooks of AgentPlaybookService: their life cycle in the    *)
(* database, and the cache from which the voice runtime takes the active   *)
(* one.                                                                    *)
(*                                                                         *)
(* A console request reads its playbook, decides, writes and then empties  *)
(* the cache, with others in between; one that another API process handles *)
(* empties that process's cache.  A lookup of the runtime takes the time,  *)
(* queries and fills the cache.                                            *)
(***************************************************************************)
EXTENDS Integers, FiniteSets, Sequences, SequencesExt

CONSTANTS
  Playbook,     \* rows of agentPlaybook
  Lookup,       \* calls whose runtime asks for the active playbook
  NoPlaybook,   \* the answer null
  Ttl           \* VOICE_AGENT_PLAYBOOK_CACHE_TTL_SECONDS, in ticks

PlaybookAssumption ==
  /\ IsFiniteSet(Playbook) /\ IsFiniteSet(Lookup)
  /\ NoPlaybook \notin Playbook
  /\ Ttl \in Nat

VARIABLES
  status,     \* Playbook -> its status, "none" before the row exists
  activated,  \* the playbooks ever activated, in the order of activatedAt
  request,    \* the console request in progress: phase, operation, row read
  cache,      \* runtimeCache: playbook and age; age Ttl or more has expired
  lookup,     \* Lookup -> phase, age and answer of its query
  gone        \* for each answer, ticks since the database last gave it

vars == <<status, activated, request, cache, lookup, gone>>

Answers == Playbook \union {NoPlaybook}
Older(age) == IF age > Ttl THEN age ELSE age + 1

NoRequest == [phase |-> "idle"]
EmptyCache == [playbook |-> NoPlaybook, age |-> Ttl]

Init ==
  /\ status = [p \in Playbook |-> "none"]
  /\ activated = <<>>
  /\ request = NoRequest
  /\ cache = EmptyCache
  /\ lookup = [l \in Lookup |-> [phase |-> "idle", age |-> 0, answer |-> NoPlaybook]]
  /\ gone = [p \in Answers |-> IF p = NoPlaybook THEN 0 ELSE Ttl + 1]

\* findFirst of the active rows, the latest activatedAt first.
ActiveIn(rows, order) ==
  LET last == SelectLastInSeq(order, LAMBDA p : rows[p] = "active")
  IN IF last = 0 THEN NoPlaybook ELSE order[last]

ActivePlaybook == ActiveIn(status, activated)

\* Every change of the rows; `gone' starts anew for what is answered from now.
Writes(rows, order) ==
  /\ status' = rows
  /\ activated' = order
  /\ gone' = [gone EXCEPT ![ActivePlaybook] = 0, ![ActiveIn(rows, order)] = 0]

-----------------------------------------------------------------------------
(* The console.  A request of this process reads, writes and invalidates   *)
(* in steps of their own; one of another process is one step here, since   *)
(* it never touches this process's cache.                                  *)

\* findOrThrow and the refusals; createFromInsightReport and duplicatePlaybook
\* both add a draft.
Accepts(op, s) ==
  CASE op = "create"   -> s = "none"
    [] op = "approve"  -> s \notin {"none", "archived"}
    [] op = "activate" -> s \in {"approved", "active"}
    [] op = "archive"  -> s \notin {"none", "archived"}
    [] op = "update"   -> s = "draft"

CreatePlaybook(p, read) == Writes([status EXCEPT ![p] = "draft"], activated)

ApprovePlaybook(p, read) ==
  Writes([status EXCEPT ![p] = IF read = "active" THEN "active" ELSE "approved"], activated)

\* One transaction: the other active playbooks are archived.
ActivatePlaybook(p, read) ==
  Writes([q \in Playbook |-> IF q = p THEN "active"
                             ELSE IF status[q] = "active" THEN "archived" ELSE status[q]],
         Append(RemoveFirst(activated, p), p))

ArchivePlaybook(p, read) == Writes([status EXCEPT ![p] = "archived"], activated)

\* Changes the text only.
UpdateDraftPlaybook(p, read) == Writes(status, activated)

Write(op, p, read) ==
  \/ op = "create" /\ CreatePlaybook(p, read)
  \/ op = "approve" /\ ApprovePlaybook(p, read)
  \/ op = "activate" /\ ActivatePlaybook(p, read)
  \/ op = "archive" /\ ArchivePlaybook(p, read)
  \/ op = "update" /\ UpdateDraftPlaybook(p, read)

ReadPlaybook(op, p) ==
  /\ request.phase = "idle"
  /\ Accepts(op, status[p])
  /\ request' = [phase |-> "read", op |-> op, id |-> p, status |-> status[p]]
  /\ UNCHANGED <<status, activated, cache, lookup, gone>>

WritePlaybook ==
  /\ request.phase = "read"
  /\ Write(request.op, request.id, request.status)
  /\ request' = [phase |-> "written"]
  /\ UNCHANGED <<cache, lookup>>

\* Two requests never create the same row.
WriteElsewhere(op, p) ==
  /\ Accepts(op, status[p])
  /\ op = "create" => (request.phase = "read" => request.id # p)
  /\ Write(op, p, status[p])
  /\ UNCHANGED <<request, cache, lookup>>

\* The continuation of the write, in this process.
InvalidateRuntimeCache ==
  /\ request.phase = "written"
  /\ request' = NoRequest
  /\ cache' = EmptyCache
  /\ UNCHANGED <<status, activated, lookup, gone>>

-----------------------------------------------------------------------------
(* getActivePlaybookForRuntime.                                            *)

Usable == cache.age < Ttl

\* A usable cache answers at once, which changes nothing.
StartLookup(l) ==
  /\ lookup[l].phase = "idle" /\ ~Usable
  /\ lookup' = [lookup EXCEPT ![l].phase = "querying", ![l].age = 0]
  /\ UNCHANGED <<status, activated, request, cache, gone>>

QueryActive(l) ==
  /\ lookup[l].phase = "querying"
  /\ lookup' = [lookup EXCEPT ![l].phase = "answered", ![l].answer = ActivePlaybook]
  /\ UNCHANGED <<status, activated, request, cache, gone>>

ExpiryFromAnswer(l) == 0

\* The expiry counts from the time taken before the query.
Expiry(l) == lookup[l].age

FillCache(l) ==
  /\ lookup[l].phase = "answered"
  /\ cache' = [playbook |-> lookup[l].answer, age |-> Expiry(l)]
  /\ lookup' = [lookup EXCEPT ![l] = [phase |-> "idle", age |-> 0, answer |-> NoPlaybook]]
  /\ UNCHANGED <<status, activated, request, gone>>

LookupFails(l) ==
  /\ lookup[l].phase = "querying"
  /\ cache' = EmptyCache
  /\ lookup' = [lookup EXCEPT ![l] = [phase |-> "idle", age |-> 0, answer |-> NoPlaybook]]
  /\ UNCHANGED <<status, activated, request, gone>>

Tick ==
  /\ cache' = [cache EXCEPT !.age = Older(@)]
  /\ lookup' = [l \in Lookup |->
       IF lookup[l].phase = "idle" THEN lookup[l]
       ELSE [lookup[l] EXCEPT !.age = Older(@)]]
  /\ gone' = [p \in Answers |-> IF p = ActivePlaybook THEN 0 ELSE Older(gone[p])]
  /\ UNCHANGED <<status, activated, request>>

Operations == {"create", "approve", "activate", "archive", "update"}

Next ==
  \/ \E op \in Operations, p \in Playbook : ReadPlaybook(op, p) \/ WriteElsewhere(op, p)
  \/ WritePlaybook \/ InvalidateRuntimeCache
  \/ \E l \in Lookup :
       StartLookup(l) \/ QueryActive(l) \/ FillCache(l) \/ LookupFails(l)
  \/ Tick

Spec == Init /\ [][Next]_vars

-----------------------------------------------------------------------------

\* A playbook that a call takes from the cache was the active one at some time
\* within the cache's lifetime, however queries, activations, archivals and
\* invalidations of this and of other processes interleave.
CacheIsRecent == Usable => gone[cache.playbook] <= cache.age

=============================================================================
