------------------- MODULE CallAuthorizationGrants_proofs -------------------
(***************************************************************************)
(* An authorization is granted at most once, and the service implements    *)
(* OneShotGrants, in the deployments where one store decides: either Redis *)
(* is off and the only copy of an authorization is in its home process, or *)
(* a single process that never restarts and never trims its map keeps a    *)
(* local copy of everything that has not expired.  The run                 *)
(* CallAuthorizationShared shows that outside OneStore the property fails. *)
(* Then, for wider deployments: Redis keeps the mark of a used one where   *)
(* one process writes, and with any number of processes no start is turned *)
(* away while something matches, and none takes the call of another.       *)
(***************************************************************************)
EXTENDS CallAuthorization_proofs, WellFoundedInduction

OneStore ==
  \/ ~UseRedis
  \/ /\ \A p, q \in Process : p = q
     /\ MaxRestarts = 0
     /\ Cardinality(Auth) <= Capacity

\* Every id the maps, Redis, messages in flight and searches hold was registered.
Known ==
  /\ pending \in [Process -> SUBSET Registered]
  /\ reservation \in [Process -> [Sid -> Registered \cup {None}]]
  /\ \A a \in Auth : redis[a].sid => a \in Registered
  /\ redisPhone \in [Phone -> Seq(Registered)]
  /\ outbox \in [Process -> Seq([id : Registered, sid : BOOLEAN, consumed : BOOLEAN])]
  /\ hint \in [Stream -> Registered \cup {None}]
  /\ \A s \in Stream : /\ start[s].offered \in Registered \cup {None}
                       /\ start[s].target \in Registered \cup {None}

\* With Redis, the local map holds everything that has not expired ...
Kept == UseRedis => \A p \in Process : Registered \ expired \subseteq pending[p]

\* ... so a search that had to ask Redis can no longer use the answer.
SharedIsDead ==
  \A s \in Stream :
    /\ start[s].pc = "get" => UseRedis /\ start[s].target \in expired
    /\ start[s].pc = "check" /\ start[s].source # "local"
         => ~start[s].consumable \/ start[s].target \in expired

\* A stream takes before it leaves the search, and what it took is marked.
TookMarked ==
  \A s \in Stream :
    /\ start[s].pc \in {"idle", "lookup", "get", "check"} => took[s] = None
    /\ took[s] # None => entry[took[s]].consumed

GrantInv == Typed /\ Known /\ Kept /\ SharedIsDead /\ TookMarked /\ AtMostOneGrant

\* Nothing is registered, searched or taken at the start.
LEMMA InitGrantInv == Init => GrantInv
<1> SUFFICES ASSUME Init PROVE GrantInv
  OBVIOUS
<1>1. Registered = {}
  BY DEF Init, Registered
<1>2. Known
  BY EmptySeq DEF Init, Known, Idle, Search
<1>3. Kept /\ SharedIsDead /\ TookMarked /\ AtMostOneGrant
  BY <1>1 DEF Init, Kept, SharedIsDead, TookMarked, AtMostOneGrant, Idle, Search
<1> QED BY <1>2, <1>3, InitTyped DEF GrantInv

-----------------------------------------------------------------------------
(* Known.                                                                  *)

\* Every source a search consults only names registered authorizations.
LEMMA CandidateIsKnown ==
  ASSUME Typed, Known, NEW s \in Stream, start[s].pc = "lookup"
  PROVE  Candidate(s, start[s]) \subseteq Registered
<1> DEFINE r == start[s]
<1>1. r \in StartRecord /\ r.proc \in Process
  BY DEF Typed, TypeOK, SearchOK
<1>2. r.stage \in {"phoneExact", "redisPhone", "phoneSuffix"}
        => StreamPhones[s][r.phone] \in Phone
  BY ConstantsAssumption, ElementOfSeq DEF Typed, SearchOK
<1>3. \A n \in Phone : SharedByPhone(n) \subseteq Registered
  BY ElementOfSeq DEF SharedByPhone, Known
<1>4. r.stage = "authorizationId" => Candidate(s, r) \subseteq Registered
  BY DEF Candidate, Known
<1>5. r.stage = "reservation" => Candidate(s, r) \subseteq Registered
  BY <1>1, ConstantsAssumption DEF Candidate, Known
<1>6. r.stage = "callSid" => Candidate(s, r) \subseteq Registered
  BY <1>1 DEF Candidate, ByCallSid, Known
<1>7. r.stage = "redisCallSid" => Candidate(s, r) \subseteq Registered
  BY DEF Candidate, SharedByCallSid, Known
<1>8. r.stage = "phoneExact" => Candidate(s, r) \subseteq Registered
  BY <1>1, <1>2 DEF Candidate, AtIndex, ByPhone, Known
<1>9. r.stage = "redisPhone" => Candidate(s, r) \subseteq Registered
  BY <1>2, <1>3 DEF Candidate
<1>10. r.stage = "phoneSuffix" => Candidate(s, r) \subseteq Registered
  BY <1>1, <1>2 DEF Candidate, SuffixMatch, Known
<1>11. r.stage = "exhausted" => Candidate(s, r) \subseteq Registered
  BY DEF Candidate
<1> QED BY <1>1, <1>4, <1>5, <1>6, <1>7, <1>8, <1>9, <1>10, <1>11
        DEF StartRecord, Stages

\* A save is of a registered authorization.
LEMMA SaveKnown ==
  ASSUME NEW R, outbox \in [Process -> Seq([id : R, sid : BOOLEAN, consumed : BOOLEAN])],
         NEW p \in Process, NEW a \in R,
         NEW hasSid \in BOOLEAN, NEW consumed \in BOOLEAN,
         Save(p, a, hasSid, consumed)
  PROVE  outbox' \in [Process -> Seq([id : R, sid : BOOLEAN, consumed : BOOLEAN])]
<1> DEFINE m == [id |-> a, sid |-> hasSid, consumed |-> consumed]
<1>1. m \in [id : R, sid : BOOLEAN, consumed : BOOLEAN]
  OBVIOUS
<1>2. Append(outbox[p], m) \in Seq([id : R, sid : BOOLEAN, consumed : BOOLEAN])
  BY <1>1, AppendProperties
<1> QED BY <1>2 DEF Save

\* What reaches Redis was registered.
LEMMA StoreKnown ==
  ASSUME Typed, Known, NEW a \in Registered, NEW hasSid \in BOOLEAN,
         NEW consumed \in BOOLEAN, Store(a, hasSid, consumed)
  PROVE  /\ \A b \in Auth : redis'[b].sid => b \in Registered
         /\ redisPhone' \in [Phone -> Seq(Registered)]
<1>1. a \in Auth
  BY DEF Registered
<1>2. \A b \in Auth : redis'[b].sid => b \in Registered
  BY <1>1 DEF Store, Known, Typed, TypeOK
<1>3. <<a>> \in Seq(Registered) /\ PhoneOf[a] \in Phone
  BY <1>1, ConstantsAssumption
<1>4. <<a>> \o redisPhone[PhoneOf[a]] \in Seq(Registered)
  BY <1>3, ConcatProperties DEF Known
<1>5. redisPhone' \in [Phone -> Seq(Registered)]
  BY <1>3, <1>4 DEF Store, Known
<1> QED BY <1>2, <1>5

\* Registration adds one authorization to the registered ones and keeps Known.
LEMMA RegisterKnown ==
  ASSUME Typed, Known, NEW p \in Process, NEW a \in Auth, NEW hasSid \in BOOLEAN,
         Register(p, a, hasSid)
  PROVE  Known' /\ Registered' = Registered \cup {a}
<1> DEFINE R == Registered \cup {a}
<1>1. Registered' = R
  BY ConstantsAssumption DEF Register, Registered, Typed, TypeOK
<1>2. pending' \in [Process -> SUBSET R]
  BY DEF Register, Trimmed, Unexpired, Known
<1>3. outbox' \in [Process -> Seq([id : R, sid : BOOLEAN, consumed : BOOLEAN])]
  <2>1. outbox \in [Process -> Seq([id : R, sid : BOOLEAN, consumed : BOOLEAN])]
    <3>1. [id : Registered, sid : BOOLEAN, consumed : BOOLEAN]
            \subseteq [id : R, sid : BOOLEAN, consumed : BOOLEAN]
      OBVIOUS
    <3>2. Seq([id : Registered, sid : BOOLEAN, consumed : BOOLEAN])
            \subseteq Seq([id : R, sid : BOOLEAN, consumed : BOOLEAN])
      BY <3>1, SeqMonotonic
    <3> QED BY <3>2 DEF Known
  <2> HIDE DEF R
  <2>2. a \in R
    BY DEF R
  <2>3. Save(p, a, hasSid, FALSE)
    BY DEF Register
  <2> QED BY <2>1, <2>2, <2>3, SaveKnown
<1>4. redisPhone' \in [Phone -> Seq(R)]
  <2>1. Seq(Registered) \subseteq Seq(R)
    BY SeqMonotonic
  <2> QED BY <2>1 DEF Register, redisVars, Known
<1>5. /\ reservation' \in [Process -> [Sid -> R \cup {None}]]
      /\ hint' \in [Stream -> R \cup {None}]
      /\ \A b \in Auth : redis'[b].sid => b \in R
      /\ \A s \in Stream : /\ start'[s].offered \in R \cup {None}
                           /\ start'[s].target \in R \cup {None}
  BY DEF Register, redisVars, startVars, Known
<1> HIDE DEF R
<1>6. Known'
  BY <1>1, <1>2, <1>3, <1>4, <1>5 DEF Known
<1> QED BY <1>1, <1>6 DEF R

\* A step that registers nothing and replaces one search by another.
LEMMA SearchStepKnown ==
  ASSUME Known, UNCHANGED <<home, pending, reservation, redis, redisPhone, outbox, hint>>,
         \A t \in Stream :
           \/ start'[t] = start[t]
           \/ /\ start'[t].offered \in Registered \cup {None}
              /\ start'[t].target \in Registered \cup {None}
  PROVE  Known' /\ Registered' = Registered
<1>1. Registered' = Registered
  BY DEF Registered
<1> QED BY <1>1 DEF Known

\* What a search keeps while it moves on.
LEMMA AfterKeeps ==
  ASSUME Typed, NEW s \in Stream, start[s].pc \in Running
  PROVE  /\ AfterStage(s, start[s]).offered = start[s].offered
         /\ AfterStage(s, start[s]).target = None
         /\ AfterStage(s, start[s]).pc \in {"lookup", "rejected", "bypassed"}
         /\ AfterTry(s, start[s]).offered = start[s].offered
         /\ AfterTry(s, start[s]).target = None
         /\ AfterTry(s, start[s]).pc \in {"lookup", "rejected", "bypassed"}
<1> DEFINE r == start[s]
           Kin(x) == /\ x.offered = r.offered /\ x.target = None
                     /\ x.pc \in {"lookup", "rejected", "bypassed"}
<1>1. r.stage \in Stages
  BY DEF Typed, TypeOK, StartRecord
<1>2. \A pc \in {"lookup", "rejected", "bypassed"} :
        \A st, i, c : Kin(At(r, pc, st, i, c))
  BY DEF At, Search
<1>3. \E pc \in {"lookup", "rejected", "bypassed"} :
        \E st, i, c : AfterStage(s, r) = At(r, pc, st, i, c)
  BY <1>1 DEF AfterStage, Stages
<1>4. \/ AfterTry(s, r) = AfterStage(s, r)
      \/ \E i, c : AfterTry(s, r) = At(r, "lookup", r.stage, i, c)
  BY DEF AfterTry
<1>5. Kin(AfterStage(s, r))
  BY <1>2, <1>3
<1>6. Kin(AfterTry(s, r))
  BY <1>2, <1>4, <1>5
<1> QED BY <1>5, <1>6

\* Every step keeps Known.
LEMMA KnownStep ==
  ASSUME Typed, Known, [Next]_vars
  PROVE  Known'
<1>1. ASSUME NEW p \in Process, NEW a \in Auth, NEW hasSid \in BOOLEAN,
             Register(p, a, hasSid)
      PROVE  Known'
  BY <1>1, RegisterKnown
<1>2. ASSUME NEW p \in Process, NEW a \in Auth, NEW field \in {"sid", "callId"},
             LinkProviderCallDetails(p, a, field)
      PROVE  Known'
  <2>1. a \in Registered /\ Registered' = Registered
    BY <1>2 DEF LinkProviderCallDetails, issueVars, Known, Registered
  <2>2. entry'[a].sid \in BOOLEAN /\ entry[a].consumed \in BOOLEAN
    BY <1>2 DEF LinkProviderCallDetails, Typed, TypeOK
  <2>3. PICK hasSid \in BOOLEAN, consumed \in BOOLEAN : Save(p, a, hasSid, consumed)
    BY <1>2, <2>2 DEF LinkProviderCallDetails
  <2>4. outbox' \in [Process -> Seq([id : Registered, sid : BOOLEAN, consumed : BOOLEAN])]
    <3>1. outbox \in [Process -> Seq([id : Registered, sid : BOOLEAN, consumed : BOOLEAN])]
      BY DEF Known
    <3>2. p \in Process /\ a \in Registered
      BY <1>2, <2>1
    <3> HIDE <1>2, <2>1
    <3> QED BY <2>3, <3>1, <3>2, SaveKnown
  <2> QED BY <1>2, <2>1, <2>4
          DEF LinkProviderCallDetails, issueVars, redisVars, startVars, Known
<1>3. ASSUME NEW p \in Process, DeliverSave(p) PROVE Known'
  <2>1. Registered' = Registered
    BY <1>3 DEF DeliverSave, issueVars, Registered
  <2>2. /\ outbox[p] # <<>>
        /\ outbox[p] \in Seq([id : Registered, sid : BOOLEAN, consumed : BOOLEAN])
    BY <1>3 DEF DeliverSave, Known
  <2>3. /\ Head(outbox[p]) \in [id : Registered, sid : BOOLEAN, consumed : BOOLEAN]
        /\ Tail(outbox[p]) \in Seq([id : Registered, sid : BOOLEAN, consumed : BOOLEAN])
    BY <2>2, HeadTailProperties
  <2>4. outbox' \in [Process -> Seq([id : Registered, sid : BOOLEAN, consumed : BOOLEAN])]
    BY <1>3, <2>3 DEF DeliverSave, Known
  <2>5. /\ \A b \in Auth : redis'[b].sid => b \in Registered
        /\ redisPhone' \in [Phone -> Seq(Registered)]
    <3>1. CASE UNCHANGED redisVars
      BY <3>1 DEF redisVars, Known
    <3>2. CASE Store(Head(outbox[p]).id, Head(outbox[p]).sid, Head(outbox[p]).consumed)
      BY <2>3, <3>2, StoreKnown
    <3> QED BY <1>3, <3>1, <3>2 DEF DeliverSave
  <2> QED BY <1>3, <2>1, <2>4, <2>5
          DEF DeliverSave, issueVars, localVars, startVars, Known
<1>4. ASSUME NEW p \in Process, Restart(p) PROVE Known'
  <2>1. Registered' = Registered
    BY <1>4 DEF Restart, issueVars, Registered
  <2>2. pending' \in [Process -> SUBSET Registered]
    BY <1>4 DEF Restart, Known
  <2>3. reservation' \in [Process -> [Sid -> Registered \cup {None}]]
    BY <1>4 DEF Restart, Known
  <2>4. outbox' \in [Process -> Seq([id : Registered, sid : BOOLEAN, consumed : BOOLEAN])]
    BY <1>4, EmptySeq DEF Restart, Known
  <2>5. ASSUME NEW s \in Stream
        PROVE  start'[s].offered = start[s].offered /\ start'[s].target = start[s].target
    <3>1. start[s] \in StartRecord
      BY DEF Typed, TypeOK
    <3>2. /\ [start[s] EXCEPT !.pc = "dropped"].offered = start[s].offered
          /\ [start[s] EXCEPT !.pc = "dropped"].target = start[s].target
      BY <3>1 DEF StartRecord
    <3>3. start'[s] = start[s] \/ start'[s] = [start[s] EXCEPT !.pc = "dropped"]
      BY <1>4 DEF Restart
    <3> QED BY <3>2, <3>3
  <2> QED BY <1>4, <2>1, <2>2, <2>3, <2>4, <2>5 DEF Restart, redisVars, Known
<1>5. ASSUME NEW a \in Auth, Expire(a) PROVE Known'
  BY <1>5 DEF Expire, localVars, redisVars, startVars, Known, Registered
<1>6. ASSUME NEW p \in Process, NEW s \in Stream, ResolveStreamUrl(p, s)
      PROVE  Known'
  <2>1. Registered' = Registered
    BY <1>6 DEF ResolveStreamUrl, issueVars, Registered
  <2>2. FirstPending(p, s) \subseteq Registered
    <3>1. \A i \in DOMAIN StreamPhones[s] : StreamPhones[s][i] \in Phone
      BY ConstantsAssumption, ElementOfSeq
    <3>2. \A n \in Phone : SharedByPhone(n) \subseteq Registered
      BY ElementOfSeq DEF SharedByPhone, Known
    <3>3. pending[p] \subseteq Registered
      BY DEF Known
    <3>4. SharedByCallSid(s) \subseteq Registered
      BY DEF SharedByCallSid, Known
    <3> QED BY <3>1, <3>2, <3>3, <3>4 DEF FirstPending, ByCallSid, ByPhone
  <2>3. PICK a \in Registered :
          /\ hint' = [hint EXCEPT ![s] = a]
          /\ reservation' = IF StreamSid[s] = None THEN reservation
                            ELSE [reservation EXCEPT ![p][StreamSid[s]] = a]
    BY <1>6, <2>2 DEF ResolveStreamUrl
  <2>4. hint' \in [Stream -> Registered \cup {None}]
    BY <2>3 DEF Known
  <2>5. reservation' \in [Process -> [Sid -> Registered \cup {None}]]
    BY <2>3 DEF Known
  <2>6. pending' \in [Process -> SUBSET Registered]
    BY <1>6 DEF ResolveStreamUrl, Unexpired, Known
  <2> QED BY <1>6, <2>1, <2>4, <2>5, <2>6
          DEF ResolveStreamUrl, redisVars, startVars, Known
<1>7. ASSUME NEW p \in Process, NEW s \in Stream, NEW o \in Offers(s),
             BeginStart(p, s, o)
      PROVE  Known'
  <2>1. Registered' = Registered
    BY <1>7 DEF BeginStart, issueVars, Registered
  <2>2. o \in Registered \cup {None}
    BY DEF Offers, Known
  <2>3. pending' \in [Process -> SUBSET Registered]
    BY <1>7 DEF BeginStart, Unexpired, Known
  <2>4. \A t \in Stream : /\ start'[t].offered \in Registered \cup {None}
                          /\ start'[t].target \in Registered \cup {None}
    BY <1>7, <2>2 DEF BeginStart, Search, Known, Typed, TypeOK
  <2> QED BY <1>7, <2>1, <2>3, <2>4 DEF BeginStart, redisVars, Known
<1>8. ASSUME NEW s \in Stream, Lookup(s) PROVE Known'
  <2>1. start[s].pc \in Running /\ start[s].pc = "lookup"
    BY <1>8 DEF Lookup, Running
  <2>2. /\ start'[s].offered \in Registered \cup {None}
        /\ start'[s].target \in Registered \cup {None}
    <3>1. CASE start' = [start EXCEPT ![s] = AfterStage(s, start[s])]
      BY <2>1, <3>1, AfterKeeps DEF Known, Typed, TypeOK
    <3>2. ASSUME NEW a \in Candidate(s, start[s]), NEW pc, NEW source,
                 start' = [start EXCEPT ![s] = Trying(start[s], pc, a, source)]
          PROVE  /\ start'[s].offered \in Registered \cup {None}
                 /\ start'[s].target \in Registered \cup {None}
      BY <2>1, <3>2, CandidateIsKnown DEF Trying, Known, Typed, TypeOK
    <3> QED BY <1>8, <3>1, <3>2 DEF Lookup
  <2>3. \A t \in Stream : t # s => start'[t] = start[t]
    BY <1>8 DEF Lookup, Typed, TypeOK
  <2> QED BY <1>8, <2>2, <2>3, SearchStepKnown
          DEF Lookup, issueVars, localVars, redisVars
<1>9. ASSUME NEW s \in Stream, Check(s) PROVE Known'
  <2>1. start[s].pc \in Running /\ start[s] \in StartRecord
    BY <1>9 DEF Check, Running, Typed, TypeOK
  <2>2. \A pc : /\ [start[s] EXCEPT !.pc = pc].offered = start[s].offered
                /\ [start[s] EXCEPT !.pc = pc].target = start[s].target
    BY <2>1 DEF StartRecord
  <2>3. /\ start'[s].offered \in Registered \cup {None}
        /\ start'[s].target \in Registered \cup {None}
    <3>1. CASE start' = [start EXCEPT ![s] = AfterTry(s, start[s])]
      BY <2>1, <3>1, AfterKeeps DEF Known, Typed, TypeOK
    <3>2. ASSUME NEW pc, start' = [start EXCEPT ![s].pc = pc]
          PROVE  /\ start'[s].offered \in Registered \cup {None}
                 /\ start'[s].target \in Registered \cup {None}
      <4>1. start'[s] = [start[s] EXCEPT !.pc = pc]
        BY <3>2 DEF Typed, TypeOK
      <4> QED BY <2>2, <4>1 DEF Known
    <3> QED BY <1>9, <3>1, <3>2 DEF Check
  <2>4. \A t \in Stream : t # s => start'[t] = start[t]
    BY <1>9 DEF Check, Typed, TypeOK
  <2>5. UNCHANGED <<home, pending, reservation, redis, redisPhone, outbox, hint>>
    BY <1>9 DEF Check, issueVars, redisVars
  <2> QED BY <2>3, <2>4, <2>5, SearchStepKnown
<1>10. ASSUME NEW s \in Stream,
              RedisGet(s) \/ MarkRead(s) \/ RedisError(s)
       PROVE  Known'
  <2>1. start[s] \in StartRecord
    BY DEF Typed, TypeOK
  <2>2. /\ start'[s].offered = start[s].offered /\ start'[s].target = start[s].target
        /\ \A t \in Stream : t # s => start'[t] = start[t]
    <3>1. CASE RedisGet(s)
      <4>1. PICK b : start' = [start EXCEPT ![s].pc = "check", ![s].consumable = b]
        BY <3>1 DEF RedisGet
      <4>2. DEFINE x == [start[s] EXCEPT !.pc = "check"]
      <4>3. /\ x.offered = start[s].offered /\ x.target = start[s].target
            /\ [x EXCEPT !.consumable = b].offered = x.offered
            /\ [x EXCEPT !.consumable = b].target = x.target
        BY <2>1 DEF StartRecord
      <4>4. start'[s] = [x EXCEPT !.consumable = b]
        BY <4>1 DEF Typed, TypeOK
      <4>5. \A t \in Stream : t # s => start'[t] = start[t]
        BY <4>1 DEF Typed, TypeOK
      <4> HIDE DEF x
      <4> QED BY <4>3, <4>4, <4>5
    <3>2. CASE MarkRead(s) \/ RedisError(s)
      <4>1. PICK pc : start' = [start EXCEPT ![s].pc = pc]
        BY <3>2 DEF MarkRead, RedisError
      <4>2. start'[s] = [start[s] EXCEPT !.pc = pc]
        BY <4>1 DEF Typed, TypeOK
      <4>3. /\ [start[s] EXCEPT !.pc = pc].offered = start[s].offered
            /\ [start[s] EXCEPT !.pc = pc].target = start[s].target
        BY <2>1 DEF StartRecord
      <4> QED BY <4>1, <4>2, <4>3 DEF Typed, TypeOK
    <3> QED BY <1>10, <3>1, <3>2
  <2>3. UNCHANGED <<home, pending, reservation, redis, redisPhone, outbox, hint>>
    BY <1>10 DEF RedisGet, MarkRead, RedisError, issueVars, localVars, redisVars
  <2>4. /\ start[s].offered \in Registered \cup {None}
        /\ start[s].target \in Registered \cup {None}
    BY DEF Known
  <2> QED BY <2>2, <2>3, <2>4, SearchStepKnown
<1>11. ASSUME NEW s \in Stream, MarkWrite(s) \/ Return(s) PROVE Known'
  <2>1. start[s] \in StartRecord
    BY DEF Typed, TypeOK
  <2>2. Registered' = Registered
    BY <1>11 DEF MarkWrite, Return, issueVars, Registered
  <2>3. PICK pc : start' = [start EXCEPT ![s].pc = pc]
    BY <1>11 DEF MarkWrite, Return
  <2>4. start'[s] = [start[s] EXCEPT !.pc = pc]
    BY <2>3 DEF Typed, TypeOK
  <2>5. /\ [start[s] EXCEPT !.pc = pc].offered = start[s].offered
        /\ [start[s] EXCEPT !.pc = pc].target = start[s].target
    BY <2>1 DEF StartRecord
  <2>6. \A t \in Stream : /\ start'[t].offered \in Registered \cup {None}
                          /\ start'[t].target \in Registered \cup {None}
    BY <2>3, <2>4, <2>5 DEF Known, Typed, TypeOK
  <2>7. CASE Return(s)
    <3>1. reservation' \in [Process -> [Sid -> Registered \cup {None}]]
      BY <2>7 DEF Return, Known
    <3> QED BY <2>2, <2>6, <2>7, <3>1 DEF Return, redisVars, Known
  <2>8. CASE MarkWrite(s)
    <3>1. start[s].target \in Registered
      BY <2>8, ConstantsAssumption DEF MarkWrite, Typed, SearchOK, Known
    <3>2. /\ \A b \in Auth : redis'[b].sid => b \in Registered
          /\ redisPhone' \in [Phone -> Seq(Registered)]
      <4>1. CASE UNCHANGED redisVars
        BY <4>1 DEF redisVars, Known
      <4>2. CASE Store(start[s].target, FALSE, TRUE)
        BY <3>1, <4>2, StoreKnown
      <4> QED BY <2>8, <4>1, <4>2 DEF MarkWrite
    <3> QED BY <2>2, <2>6, <2>8, <3>2 DEF MarkWrite, localVars, Known
  <2> QED BY <1>11, <2>7, <2>8
<1>12. CASE UNCHANGED vars
  BY <1>12 DEF vars, issueVars, localVars, redisVars, startVars, Known, Registered
<1> QED BY <1>1, <1>2, <1>3, <1>4, <1>5, <1>6, <1>7, <1>8, <1>9, <1>10, <1>11, <1>12
        DEF Next

-----------------------------------------------------------------------------
(* Kept.                                                                   *)

\* A map that has room for every authorization is never trimmed.
LEMMA NothingTrimmed ==
  ASSUME Cardinality(Auth) <= Capacity,
         NEW S \in SUBSET Auth, NEW order \in [Auth -> Nat]
  PROVE  Trimmed(S, order) = S
<1> SUFFICES ASSUME NEW a \in S
             PROVE  Cardinality({b \in S : order[b] > order[a]}) < Capacity
  BY DEF Trimmed
<1> DEFINE newer == {b \in S : order[b] > order[a]}
<1>1. newer \subseteq Auth /\ newer # Auth
  OBVIOUS
<1>2. /\ Cardinality(newer) \in Nat /\ Cardinality(Auth) \in Nat
      /\ Cardinality(newer) <= Cardinality(Auth)
      /\ Cardinality(newer) # Cardinality(Auth)
  BY <1>1, ConstantsAssumption, FS_Subset, FS_CardinalityType
<1> QED BY <1>2, ConstantsAssumption

\* With one store the local map of the single process loses nothing but what
\* expires: there is no restart, no trimming, and pruning drops the expired.
LEMMA KeptStep ==
  ASSUME OneStore, Typed, Known, Kept, [Next]_vars
  PROVE  Kept'
<1> SUFFICES ASSUME UseRedis PROVE Kept'
  BY DEF Kept
<1>1. /\ \A p, q \in Process : p = q
      /\ MaxRestarts = 0
      /\ Cardinality(Auth) <= Capacity
  BY ConstantsAssumption DEF OneStore
<1>2. ASSUME NEW p \in Process, NEW a \in Auth, NEW hasSid \in BOOLEAN,
             Register(p, a, hasSid)
      PROVE  Kept'
  <2>1. Registered' = Registered \cup {a}
    BY <1>2, RegisterKnown
  <2>2. stamp' \in [Auth -> Nat]
    <3>1. Typed'
      BY <1>2, RegisterTyped
    <3> QED BY <3>1 DEF Typed, TypeOK
  <2>3. Unexpired(pending[p]) \cup {a} \in SUBSET Auth
    BY DEF Unexpired, Typed, TypeOK
  <2>4. Trimmed(Unexpired(pending[p]) \cup {a}, stamp') = Unexpired(pending[p]) \cup {a}
    BY <1>1, <2>2, <2>3, NothingTrimmed
  <2>5. pending' = [pending EXCEPT ![p] = Unexpired(pending[p]) \cup {a}]
    BY <1>2, <2>4 DEF Register
  <2>6. expired' = expired
    BY <1>2 DEF Register
  <2> QED BY <1>1, <2>1, <2>5, <2>6 DEF Kept, Unexpired, Typed, TypeOK
<1>3. ASSUME NEW p \in Process, Restart(p) PROVE Kept'
  BY <1>1, <1>3 DEF Restart, Typed, TypeOK
<1>4. ASSUME NEW a \in Auth, Expire(a) PROVE Kept'
  BY <1>4 DEF Expire, localVars, Kept, Registered
<1>5. ASSUME NEW p \in Process, NEW s \in Stream,
             ResolveStreamUrl(p, s) \/ (\E o \in Offers(s) : BeginStart(p, s, o))
      PROVE  Kept'
  <2>1. pending' = [pending EXCEPT ![p] = pending[p] \ expired]
    BY <1>5 DEF ResolveStreamUrl, BeginStart, Unexpired
  <2>2. UNCHANGED <<home, expired>>
    BY <1>5 DEF ResolveStreamUrl, BeginStart, issueVars
  <2> QED BY <2>1, <2>2 DEF Kept, Registered, Typed, TypeOK
<1>6. ASSUME UNCHANGED <<home, expired, pending>> PROVE Kept'
  BY <1>6 DEF Kept, Registered
<1>7. ASSUME NEW p \in Process, NEW a \in Auth, NEW field \in {"sid", "callId"},
             LinkProviderCallDetails(p, a, field)
      PROVE  Kept'
  BY <1>6, <1>7 DEF LinkProviderCallDetails, issueVars
<1>8. ASSUME NEW p \in Process, DeliverSave(p) PROVE Kept'
  BY <1>6, <1>8 DEF DeliverSave, issueVars, localVars
<1>9. ASSUME NEW s \in Stream,
             \/ Lookup(s) \/ RedisGet(s) \/ Check(s) \/ MarkRead(s)
             \/ MarkWrite(s) \/ Return(s) \/ RedisError(s)
      PROVE  Kept'
  BY <1>6, <1>9 DEF Lookup, RedisGet, Check, MarkRead, MarkWrite, Return, RedisError,
                    issueVars, localVars
<1>10. CASE UNCHANGED vars
  BY <1>6, <1>10 DEF vars, issueVars, localVars
<1> QED BY <1>2, <1>3, <1>4, <1>5, <1>7, <1>8, <1>9, <1>10 DEF Next

-----------------------------------------------------------------------------
(* SharedIsDead and TookMarked.                                            *)

\* Nothing un-expires.
LEMMA ExpiredGrows ==
  ASSUME [Next]_vars
  PROVE  expired \subseteq expired'
<1>1. ASSUME UNCHANGED expired PROVE expired \subseteq expired'
  BY <1>1
<1> QED BY <1>1
        DEF Next, Register, LinkProviderCallDetails, DeliverSave, Expire, Restart,
            ResolveStreamUrl, BeginStart, Lookup, RedisGet, Check, MarkRead, MarkWrite,
            Return, RedisError, vars, issueVars

\* What a step can do to the record of a start.
Settles(s) == start'[s].pc \in {"markRead", "markWrite", "return"} \cup Decided
MovesOn(s) ==
  /\ start'[s].pc = "lookup"
  /\ start[s].pc \in {"idle", "lookup"} \/ (Check(s) /\ ~Usable(start[s]))
Picks(s) ==
  /\ Lookup(s)
  /\ \E a \in Candidate(s, start[s]) :
       \/ /\ HeldLocally(start[s].proc, a)
          /\ start'[s] = Trying(start[s], "check", a, "local")
       \/ /\ ~HeldLocally(start[s].proc, a) /\ ~UseRedis
          /\ start'[s] = Trying(start[s], "check", a, "shared")
       \/ /\ ~HeldLocally(start[s].proc, a) /\ UseRedis
          /\ start'[s] = Trying(start[s], "get", a, "shared")
Answered(s) ==
  /\ RedisGet(s)
  /\ start'[s].pc = "check" /\ start'[s].target = start[s].target
Moves(s) ==
  start'[s] = start[s] \/ Settles(s) \/ MovesOn(s) \/ Picks(s) \/ Answered(s)

\* A step leaves the record of a start alone or moves it in one of four ways.
LEMMA StartStep ==
  ASSUME Typed, [Next]_vars, NEW s \in Stream
  PROVE  Moves(s)
<1>0. /\ start \in [Stream -> StartRecord] /\ start[s] \in StartRecord
  BY DEF Typed, TypeOK
<1>1. \A pc : start' = [start EXCEPT ![s].pc = pc] => start'[s].pc = pc
  <2> TAKE pc
  <2> HAVE start' = [start EXCEPT ![s].pc = pc]
  <2>1. start'[s] = [start[s] EXCEPT !.pc = pc]
    BY <1>0
  <2>2. [start[s] EXCEPT !.pc = pc].pc = pc
    BY <1>0 DEF StartRecord
  <2> QED BY <2>1, <2>2
<1>2. CASE start' = start
  BY <1>2 DEF Moves
<1>3. ASSUME NEW p \in Process, NEW t \in Stream, NEW o \in Offers(t),
             BeginStart(p, t, o)
      PROVE  Moves(s)
  <2>1. start' = [start EXCEPT ![t] = Search(p, o, "lookup", "authorizationId", 1, 0)]
        /\ start[t].pc = "idle"
    BY <1>3 DEF BeginStart
  <2>2. CASE t = s
    <3>1. start'[s].pc = "lookup" /\ start[s].pc = "idle"
      BY <1>0, <2>1, <2>2 DEF Search
    <3> QED BY <3>1 DEF Moves, MovesOn
  <2>3. CASE t # s
    <3>1. start'[s] = start[s]
      BY <1>0, <2>1, <2>3
    <3> QED BY <3>1 DEF Moves
  <2> QED BY <2>2, <2>3
<1>4. ASSUME NEW p \in Process, Restart(p) PROVE Moves(s)
  <2>1. start'[s] = start[s] \/ start'[s] = [start[s] EXCEPT !.pc = "dropped"]
    BY <1>4 DEF Restart
  <2>2. [start[s] EXCEPT !.pc = "dropped"].pc = "dropped"
    BY <1>0 DEF StartRecord
  <2> QED BY <2>1, <2>2 DEF Moves, Settles, Decided
<1>5. CASE Lookup(s)
  <2>1. start[s].pc \in Running
    BY <1>5 DEF Lookup, Running
  <2>2. CASE start' = [start EXCEPT ![s] = AfterStage(s, start[s])]
    <3>1. start'[s].pc \in {"lookup", "rejected", "bypassed"}
      BY <1>0, <2>1, <2>2, AfterKeeps
    <3>2. start[s].pc = "lookup"
      BY <1>5 DEF Lookup
    <3> QED BY <3>1, <3>2 DEF Moves, MovesOn, Settles, Decided
  <2>3. ASSUME NEW a \in Candidate(s, start[s]),
               start' = [start EXCEPT ![s] =
                 Trying(start[s],
                        IF HeldLocally(start[s].proc, a) \/ ~UseRedis THEN "check" ELSE "get",
                        a, IF HeldLocally(start[s].proc, a) THEN "local" ELSE "shared")]
        PROVE  Moves(s)
    <3>1. start'[s] =
            Trying(start[s],
                   IF HeldLocally(start[s].proc, a) \/ ~UseRedis THEN "check" ELSE "get",
                   a, IF HeldLocally(start[s].proc, a) THEN "local" ELSE "shared")
      BY <1>0, <2>3
    <3>2. CASE HeldLocally(start[s].proc, a)
      BY <1>5, <3>1, <3>2 DEF Moves, Picks
    <3>3. CASE ~HeldLocally(start[s].proc, a) /\ ~UseRedis
      BY <1>5, <3>1, <3>3 DEF Moves, Picks
    <3>4. CASE ~HeldLocally(start[s].proc, a) /\ UseRedis
      BY <1>5, <3>1, <3>4 DEF Moves, Picks
    <3> QED BY <3>2, <3>3, <3>4
  <2> QED BY <1>5, <2>2, <2>3 DEF Lookup
<1>6. CASE Check(s)
  <2>1. CASE Usable(start[s])
    <3>1. start'[s].pc \in {"markRead", "return"}
      BY <1>1, <1>6, <2>1 DEF Check
    <3> QED BY <3>1 DEF Moves, Settles
  <2>2. CASE ~Usable(start[s])
    <3>1. start' = [start EXCEPT ![s] = AfterTry(s, start[s])] /\ start[s].pc \in Running
      BY <1>6, <2>2 DEF Check, Running
    <3>2. start'[s].pc \in {"lookup", "rejected", "bypassed"}
      BY <1>0, <3>1, AfterKeeps
    <3> QED BY <1>6, <2>2, <3>2 DEF Moves, MovesOn, Settles, Decided
  <2> QED BY <2>1, <2>2
<1>7. CASE RedisGet(s)
  <2>1. PICK b : start' = [start EXCEPT ![s].pc = "check", ![s].consumable = b]
    BY <1>7 DEF RedisGet
  <2>2. DEFINE x == [start[s] EXCEPT !.pc = "check"]
  <2>3. start'[s] = [x EXCEPT !.consumable = b]
    BY <1>0, <2>1
  <2>4. /\ x.pc = "check" /\ x.target = start[s].target
        /\ [x EXCEPT !.consumable = b].pc = x.pc
        /\ [x EXCEPT !.consumable = b].target = x.target
    BY <1>0 DEF StartRecord
  <2> HIDE DEF x
  <2> QED BY <1>7, <2>3, <2>4 DEF Moves, Answered
<1>8. CASE MarkRead(s) \/ MarkWrite(s) \/ Return(s) \/ RedisError(s)
  BY <1>1, <1>8 DEF MarkRead, MarkWrite, Return, RedisError, Decided, Moves, Settles
<1>9. ASSUME NEW t \in Stream, t # s,
             \/ Lookup(t) \/ RedisGet(t) \/ Check(t) \/ MarkRead(t)
             \/ MarkWrite(t) \/ Return(t) \/ RedisError(t)
      PROVE  Moves(s)
  <2>1. start'[s] = start[s]
    BY <1>0, <1>9 DEF Lookup, RedisGet, Check, MarkRead, MarkWrite, Return, RedisError
  <2> QED BY <2>1 DEF Moves
<1>10. CASE UNCHANGED vars
  BY <1>2, <1>10 DEF vars, startVars
<1>11. ASSUME NEW p \in Process, NEW a \in Auth, NEW hasSid \in BOOLEAN,
              Register(p, a, hasSid)
       PROVE  Moves(s)
  BY <1>2, <1>11 DEF Register, startVars
<1>14. ASSUME NEW p \in Process, NEW a \in Auth, NEW f \in {"sid", "callId"},
              LinkProviderCallDetails(p, a, f)
       PROVE  Moves(s)
  BY <1>2, <1>14 DEF LinkProviderCallDetails, startVars
<1>15. ASSUME NEW p \in Process, DeliverSave(p) PROVE Moves(s)
  BY <1>2, <1>15 DEF DeliverSave, startVars
<1>16. ASSUME NEW a \in Auth, Expire(a) PROVE Moves(s)
  BY <1>2, <1>16 DEF Expire, startVars
<1>12. ASSUME NEW p \in Process, NEW t \in Stream, ResolveStreamUrl(p, t)
       PROVE  Moves(s)
  BY <1>2, <1>12 DEF ResolveStreamUrl, startVars
<1>13. ASSUME NEW t \in Stream,
              \/ Lookup(t) \/ RedisGet(t) \/ Check(t) \/ MarkRead(t)
              \/ MarkWrite(t) \/ Return(t) \/ RedisError(t)
       PROVE  Moves(s)
  <2>1. CASE t = s
    BY <1>13, <1>5, <1>6, <1>7, <1>8, <2>1
  <2>2. CASE t # s
    BY <1>13, <1>9, <2>2
  <2> QED BY <2>1, <2>2
<1> QED BY <1>3, <1>4, <1>10, <1>11, <1>12, <1>13, <1>14, <1>15, <1>16 DEF Next

\* A search never gains a usable answer of Redis.
LEMMA SharedIsDeadStep ==
  ASSUME OneStore, Typed, Known, Kept, SharedIsDead, [Next]_vars
  PROVE  SharedIsDead'
<1> SUFFICES ASSUME NEW s \in Stream
             PROVE  /\ start'[s].pc = "get" => UseRedis /\ start'[s].target \in expired'
                    /\ start'[s].pc = "check" /\ start'[s].source # "local"
                         => ~start'[s].consumable \/ start'[s].target \in expired'
  BY DEF SharedIsDead
<1>1. expired \subseteq expired'
  BY ExpiredGrows
<1>2. /\ start[s].pc = "get" => UseRedis /\ start[s].target \in expired
      /\ start[s].pc = "check" /\ start[s].source # "local"
           => ~start[s].consumable \/ start[s].target \in expired
  BY DEF SharedIsDead
<1>3. CASE start'[s] = start[s]
  BY <1>1, <1>2, <1>3
<1>5. CASE Answered(s)
  BY <1>1, <1>2, <1>5 DEF Answered, RedisGet
<1>6. CASE Picks(s)
  <2>1. PICK a \in Candidate(s, start[s]) :
          \/ /\ HeldLocally(start[s].proc, a)
             /\ start'[s] = Trying(start[s], "check", a, "local")
          \/ /\ ~HeldLocally(start[s].proc, a) /\ ~UseRedis
             /\ start'[s] = Trying(start[s], "check", a, "shared")
          \/ /\ ~HeldLocally(start[s].proc, a) /\ UseRedis
             /\ start'[s] = Trying(start[s], "get", a, "shared")
    BY <1>6 DEF Picks
  <2>2. start[s].proc \in Process /\ a \in Registered
    BY <1>6, CandidateIsKnown DEF Picks, Lookup, Typed, SearchOK
  <2>3. UseRedis /\ ~HeldLocally(start[s].proc, a) => a \in expired
    BY <2>2 DEF HeldLocally, Kept
  <2> QED BY <1>1, <2>1, <2>3 DEF Trying
<1>7. CASE MovesOn(s)
  BY <1>7 DEF MovesOn
<1>8. CASE Settles(s)
  BY <1>8 DEF Settles, Decided
<1> QED BY <1>3, <1>5, <1>6, <1>7, <1>8, StartStep DEF Moves

\* The two ways in which the grants and the marks change.
LEMMA GrantStep ==
  ASSUME Typed, [Next]_vars
  PROVE  \/ /\ took' = took
            /\ \A a \in Auth : entry[a].consumed => entry'[a].consumed
         \/ \E s \in Stream :
              /\ Check(s) /\ Usable(start[s]) /\ start[s].target \in Auth
              /\ took' = [took EXCEPT ![s] = start[s].target]
              /\ entry' = Marked(start[s])
<1> DEFINE Kept0 == /\ took' = took
                    /\ \A a \in Auth : entry[a].consumed => entry'[a].consumed
           Grant == \E s \in Stream :
              /\ Check(s) /\ Usable(start[s]) /\ start[s].target \in Auth
              /\ took' = [took EXCEPT ![s] = start[s].target]
              /\ entry' = Marked(start[s])
<1> SUFFICES Kept0 \/ Grant
  OBVIOUS
<1>1. ASSUME UNCHANGED <<took, entry>> PROVE Kept0
  BY <1>1
<1>2. ASSUME NEW p \in Process, NEW a \in Auth, NEW hasSid \in BOOLEAN,
             Register(p, a, hasSid)
      PROVE  Kept0
  BY <1>2 DEF Register, startVars, Typed, TypeOK
<1>3. ASSUME NEW p \in Process, NEW a \in Auth, NEW field \in {"sid", "callId"},
             LinkProviderCallDetails(p, a, field)
      PROVE  Kept0
  BY <1>3 DEF LinkProviderCallDetails, startVars, Typed, TypeOK
<1>4. ASSUME NEW s \in Stream, Check(s) PROVE Kept0 \/ Grant
  <2>1. CASE Usable(start[s])
    <3>1. start[s].target \in Auth
      BY <1>4 DEF Check, Typed, SearchOK
    <3> QED BY <1>4, <2>1, <3>1 DEF Check
  <2>2. CASE ~Usable(start[s])
    BY <1>1, <1>4, <2>2 DEF Check
  <2> QED BY <2>1, <2>2
<1> HIDE DEF Kept0, Grant
<1>5. ASSUME NEW p \in Process, DeliverSave(p) \/ Restart(p) PROVE Kept0
  BY <1>1, <1>5 DEF DeliverSave, Restart, localVars, startVars
<1>6. ASSUME NEW a \in Auth, Expire(a) PROVE Kept0
  BY <1>1, <1>6 DEF Expire, localVars, startVars
<1>7. ASSUME NEW p \in Process, NEW s \in Stream,
             ResolveStreamUrl(p, s) \/ (\E o \in Offers(s) : BeginStart(p, s, o))
      PROVE  Kept0
  BY <1>1, <1>7 DEF ResolveStreamUrl, BeginStart, startVars
<1>8. ASSUME NEW s \in Stream,
             \/ Lookup(s) \/ RedisGet(s) \/ MarkRead(s) \/ MarkWrite(s)
             \/ Return(s) \/ RedisError(s)
      PROVE  Kept0
  BY <1>1, <1>8 DEF Lookup, RedisGet, MarkRead, MarkWrite, Return, RedisError, localVars
<1>9. CASE UNCHANGED vars
  BY <1>1, <1>9 DEF vars, localVars, startVars
<1> QED BY <1>2, <1>3, <1>4, <1>5, <1>6, <1>7, <1>8, <1>9 DEF Next

\* A grant is of a marked-from-now-on authorization nobody had marked.
LEMMA GrantIsFresh ==
  ASSUME OneStore, Typed, SharedIsDead, TookMarked,
         NEW s \in Stream, Check(s), Usable(start[s]), entry' = Marked(start[s])
  PROVE  /\ start[s].source = "local"
         /\ ~entry[start[s].target].consumed
         /\ entry' = [entry EXCEPT ![start[s].target].consumed = TRUE]
<1>1. start[s].pc = "check" /\ start[s] \in StartRecord
  BY DEF Check, Typed, TypeOK
<1>2. start[s].target \notin expired
  BY DEF Usable, Live
<1>3. start[s].source = "local"
  BY <1>1, <1>2 DEF SharedIsDead, Usable
<1> QED BY <1>3 DEF Usable, Marked

\* What a stream has taken stays marked.
LEMMA TookMarkedStep ==
  ASSUME OneStore, Typed, SharedIsDead, TookMarked, [Next]_vars
  PROVE  TookMarked'
<1> SUFFICES ASSUME NEW s \in Stream
             PROVE  /\ start'[s].pc \in {"idle", "lookup", "get", "check"} => took'[s] = None
                    /\ took'[s] # None => entry'[took'[s]].consumed
  BY DEF TookMarked
<1>1. CASE /\ took' = took
           /\ \A a \in Auth : entry[a].consumed => entry'[a].consumed
  <2>1. took[s] # None => took[s] \in Auth /\ entry[took[s]].consumed
    BY DEF TookMarked, Typed, TypeOK
  <2>2. start'[s].pc \in {"idle", "lookup", "get", "check"} =>
          start[s].pc \in {"idle", "lookup", "get", "check"}
    BY StartStep DEF Moves, Settles, MovesOn, Picks, Answered, Lookup, RedisGet, Check,
                     Decided
  <2> QED BY <1>1, <2>1, <2>2 DEF TookMarked
<1>2. ASSUME NEW t \in Stream, Check(t), Usable(start[t]), start[t].target \in Auth,
             took' = [took EXCEPT ![t] = start[t].target], entry' = Marked(start[t])
      PROVE  /\ start'[s].pc \in {"idle", "lookup", "get", "check"} => took'[s] = None
             /\ took'[s] # None => entry'[took'[s]].consumed
  <2>1. entry' = [entry EXCEPT ![start[t].target].consumed = TRUE]
    BY <1>2, GrantIsFresh
  <2>2. CASE s = t
    <3>1. took'[s] = start[s].target /\ start[s].target # None
      BY <1>2, <2>2, ConstantsAssumption DEF Typed, TypeOK
    <3>2. entry'[start[s].target].consumed
      BY <1>2, <2>1, <2>2 DEF Typed, TypeOK
    <3>3. start'[s].pc \in {"markRead", "return"}
      <4>1. PICK pc \in {"markRead", "return"} : start' = [start EXCEPT ![s].pc = pc]
        BY <1>2, <2>2 DEF Check
      <4>2. start[s] \in StartRecord /\ start'[s] = [start[s] EXCEPT !.pc = pc]
        BY <4>1 DEF Typed, TypeOK
      <4>3. [start[s] EXCEPT !.pc = pc].pc = pc
        BY <4>2 DEF StartRecord
      <4> QED BY <4>2, <4>3
    <3> QED BY <3>1, <3>2, <3>3
  <2>3. CASE s # t
    <3>1. took'[s] = took[s] /\ start'[s] = start[s]
      BY <1>2, <2>3 DEF Check, Typed, TypeOK
    <3>2. took[s] # None => took[s] \in Auth /\ entry[took[s]].consumed
      BY DEF TookMarked, Typed, TypeOK
    <3>3. \A a \in Auth : entry[a].consumed => entry'[a].consumed
      BY <1>2, <2>1 DEF Typed, TypeOK
    <3> QED BY <3>1, <3>2, <3>3 DEF TookMarked
  <2> QED BY <2>2, <2>3
<1> QED BY <1>1, <1>2, GrantStep

\* Two streams cannot take the same authorization: the second would find it
\* marked by the first.
LEMMA AtMostOneGrantStep ==
  ASSUME OneStore, Typed, SharedIsDead, TookMarked, AtMostOneGrant, [Next]_vars
  PROVE  AtMostOneGrant'
<1>1. CASE took' = took
  BY <1>1 DEF AtMostOneGrant
<1>2. ASSUME NEW s \in Stream, Check(s), Usable(start[s]), start[s].target \in Auth,
             took' = [took EXCEPT ![s] = start[s].target], entry' = Marked(start[s])
      PROVE  AtMostOneGrant'
  <2>1. ~entry[start[s].target].consumed
    BY <1>2, GrantIsFresh
  <2>2. \A t \in Stream : took[t] # start[s].target
    BY <1>2, <2>1, ConstantsAssumption DEF TookMarked
  <2> QED BY <1>2, <2>2 DEF AtMostOneGrant, Typed, TypeOK
<1> QED BY <1>1, <1>2, GrantStep

\* The invariant is inductive.
LEMMA GrantInvStep ==
  ASSUME OneStore, GrantInv, [Next]_vars
  PROVE  GrantInv'
<1>1. Typed'
  BY NextTyped DEF GrantInv
<1> QED BY <1>1, KnownStep, KeptStep, SharedIsDeadStep, TookMarkedStep, AtMostOneGrantStep
        DEF GrantInv

-----------------------------------------------------------------------------
\* Where one store decides, an authorization is granted to at most one stream,
\* for any number of calls, streams, and (without Redis) processes and restarts.
THEOREM GrantedAtMostOnce == ASSUME OneStore PROVE Spec => []AtMostOneGrant
<1>1. Init => GrantInv
  BY InitGrantInv
<1>2. GrantInv /\ [Next]_vars => GrantInv'
  BY GrantInvStep
<1>3. GrantInv => AtMostOneGrant
  BY DEF GrantInv
<1> QED BY <1>1, <1>2, <1>3, PTL DEF Spec

-----------------------------------------------------------------------------
(* The refinement of OneShotGrants.                                        *)

\* The initial states are initial states of OneShotGrants.
LEMMA InitRefines == Init => Abstract!Init
BY DEF Init, Registered, Abstract!Init

\* A step registers, takes, or leaves the abstract state alone.
LEMMA StepRefines ==
  ASSUME OneStore, GrantInv, [Next]_vars
  PROVE  [Abstract!Next]_(Abstract!vars)
<1> USE DEF GrantInv
<1>1. ASSUME NEW p \in Process, NEW a \in Auth, NEW hasSid \in BOOLEAN,
             Register(p, a, hasSid)
      PROVE  Abstract!Issue(a)
  <2>1. a \notin Registered
    BY <1>1 DEF Register, Registered
  <2>2. Registered' = Registered \cup {a}
    BY <1>1, RegisterKnown
  <2>3. took' = took
    BY <1>1 DEF Register, startVars
  <2> QED BY <2>1, <2>2, <2>3 DEF Abstract!Issue
<1>2. ASSUME NEW s \in Stream, Check(s), Usable(start[s])
      PROVE  Abstract!Take(s, start[s].target)
  <2>1. /\ start[s].target \in Auth /\ start[s].target \in Registered
        /\ start[s].pc = "check"
    BY <1>2, ConstantsAssumption DEF Check, Typed, SearchOK, Known
  <2>2. took[s] = None
    BY <2>1 DEF TookMarked
  <2>3. took' = [took EXCEPT ![s] = start[s].target] /\ entry' = Marked(start[s])
    BY <1>2 DEF Check
  <2>4. ~entry[start[s].target].consumed
    BY <1>2, <2>3, GrantIsFresh
  <2>5. \A t \in Stream : took[t] # start[s].target
    BY <2>1, <2>4, ConstantsAssumption DEF TookMarked
  <2>6. Registered' = Registered
    BY <1>2 DEF Check, issueVars, Registered
  <2> QED BY <2>1, <2>2, <2>3, <2>5, <2>6 DEF Abstract!Take
<1>3. ASSUME UNCHANGED <<home, took>> PROVE UNCHANGED Abstract!vars
  BY <1>3 DEF Abstract!vars, Registered
<1>4. ASSUME NEW p \in Process, NEW a \in Auth, NEW field \in {"sid", "callId"},
             LinkProviderCallDetails(p, a, field)
      PROVE  UNCHANGED Abstract!vars
  BY <1>3, <1>4 DEF LinkProviderCallDetails, issueVars, startVars
<1>5. ASSUME NEW p \in Process, DeliverSave(p) \/ Restart(p)
      PROVE  UNCHANGED Abstract!vars
  BY <1>3, <1>5 DEF DeliverSave, Restart, issueVars, startVars
<1>6. ASSUME NEW a \in Auth, Expire(a) PROVE UNCHANGED Abstract!vars
  BY <1>3, <1>6 DEF Expire, startVars
<1>7. ASSUME NEW p \in Process, NEW s \in Stream,
             ResolveStreamUrl(p, s) \/ (\E o \in Offers(s) : BeginStart(p, s, o))
      PROVE  UNCHANGED Abstract!vars
  BY <1>3, <1>7 DEF ResolveStreamUrl, BeginStart, issueVars, startVars
<1>8. ASSUME NEW s \in Stream,
             \/ Lookup(s) \/ RedisGet(s) \/ MarkRead(s) \/ MarkWrite(s)
             \/ Return(s) \/ RedisError(s)
      PROVE  UNCHANGED Abstract!vars
  BY <1>3, <1>8 DEF Lookup, RedisGet, MarkRead, MarkWrite, Return, RedisError, issueVars
<1>9. ASSUME NEW s \in Stream, Check(s), ~Usable(start[s])
      PROVE  UNCHANGED Abstract!vars
  BY <1>3, <1>9 DEF Check, issueVars
<1>10. CASE UNCHANGED vars
  BY <1>3, <1>10 DEF vars, issueVars, startVars
<1>11. ASSUME NEW s \in Stream, Check(s)
       PROVE  Abstract!Next \/ UNCHANGED Abstract!vars
  <2>1. CASE Usable(start[s])
    <3>1. start[s].target \in Auth
      BY <1>11 DEF Check, Typed, SearchOK
    <3> QED BY <1>2, <1>11, <2>1, <3>1 DEF Abstract!Next
  <2>2. CASE ~Usable(start[s])
    BY <1>9, <1>11, <2>2
  <2> QED BY <2>1, <2>2
<1>12. ASSUME NEW p \in Process, NEW a \in Auth, NEW hasSid \in BOOLEAN,
              Register(p, a, hasSid)
       PROVE  Abstract!Next
  BY <1>1, <1>12 DEF Abstract!Next
<1> QED BY <1>4, <1>5, <1>6, <1>7, <1>8, <1>10, <1>11, <1>12 DEF Next

\* There the service implements its abstract specification.
THEOREM ServiceImplementsOneShot == ASSUME OneStore PROVE Spec => OneShot
<1>1. Init => GrantInv /\ Abstract!Init
  BY InitGrantInv, InitRefines
<1>2. GrantInv /\ [Next]_vars => GrantInv' /\ [Abstract!Next]_(Abstract!vars)
  BY GrantInvStep, StepRefines
<1> QED BY <1>1, <1>2, PTL DEF Spec, OneShot, Abstract!Spec
-----------------------------------------------------------------------------
(* What never comes back.                                                  *)

\* What is registered keeps its number and its marks, and a map never gains an
\* authorization that was registered before.
Onward ==
  /\ Registered \subseteq Registered'
  /\ \A p \in Process : pending'[p] \cap Registered \subseteq pending[p]
  /\ \A a \in Auth : entry[a].consumed => entry'[a].consumed
  /\ \A a \in Registered : stamp'[a] = stamp[a] /\ (entry[a].sid => entry'[a].sid)
  /\ expired \subseteq expired'

\* A step that changes neither the numbers nor the entries, and only takes from
\* the maps.
LEMMA OnwardWhenKept ==
  ASSUME Typed, UNCHANGED <<home, stamp, entry>>, expired \subseteq expired',
         \A p \in Process : pending'[p] \subseteq pending[p]
  PROVE  Onward
BY DEF Onward, Registered

\* Every step goes onward.
LEMMA OnwardStep ==
  ASSUME Typed, Known, [Next]_vars
  PROVE  Onward
<1>0. /\ home \in [Auth -> Process \cup {None}] /\ stamp \in [Auth -> Nat]
      /\ entry \in [Auth -> [sid : BOOLEAN, callId : BOOLEAN, consumed : BOOLEAN]]
      /\ pending \in [Process -> SUBSET Auth]
      /\ start \in [Stream -> StartRecord]
  BY DEF Typed, TypeOK
<1>1. ASSUME NEW p \in Process, NEW a \in Auth, NEW hasSid \in BOOLEAN,
             Register(p, a, hasSid)
      PROVE  Onward
  <2>1. a \notin Registered /\ Registered' = Registered \cup {a}
    BY <1>1, RegisterKnown DEF Register, Registered
  <2>2. \A q \in Process : pending'[q] \subseteq pending[q] \cup {a}
    BY <1>0, <1>1 DEF Register, Trimmed, Unexpired
  <2>3. \A b \in Auth : /\ b # a => entry'[b] = entry[b] /\ stamp'[b] = stamp[b]
                        /\ entry'[b].consumed = entry[b].consumed
    BY <1>0, <1>1 DEF Register
  <2>4. expired' = expired
    BY <1>1 DEF Register
  <2> QED BY <2>1, <2>2, <2>3, <2>4 DEF Onward, Registered
<1>2. ASSUME NEW p \in Process, NEW a \in Auth, NEW field \in {"sid", "callId"},
             LinkProviderCallDetails(p, a, field)
      PROVE  Onward
  <2>1. \A b \in Auth : /\ entry'[b].consumed = entry[b].consumed
                        /\ entry[b].sid => entry'[b].sid
    BY <1>0, <1>2 DEF LinkProviderCallDetails
  <2>2. UNCHANGED <<home, stamp, expired, pending>>
    BY <1>2 DEF LinkProviderCallDetails, issueVars
  <2> QED BY <2>1, <2>2 DEF Onward, Registered
<1>3. ASSUME NEW p \in Process, DeliverSave(p) \/ Restart(p)
      PROVE  Onward
  <2>1. UNCHANGED <<home, stamp, entry, expired>>
    BY <1>3 DEF DeliverSave, Restart, issueVars, localVars
  <2>2. \A q \in Process : pending'[q] \subseteq pending[q]
    BY <1>0, <1>3 DEF DeliverSave, Restart, localVars
  <2> QED BY <2>1, <2>2, OnwardWhenKept
<1>4. ASSUME NEW a \in Auth, Expire(a) PROVE Onward
  BY <1>4, OnwardWhenKept DEF Expire, localVars
<1>5. ASSUME NEW p \in Process, NEW s \in Stream,
             ResolveStreamUrl(p, s) \/ (\E o \in Offers(s) : BeginStart(p, s, o))
      PROVE  Onward
  <2>1. UNCHANGED <<home, stamp, entry, expired>>
    BY <1>5 DEF ResolveStreamUrl, BeginStart, issueVars
  <2>2. \A q \in Process : pending'[q] \subseteq pending[q]
    BY <1>0, <1>5 DEF ResolveStreamUrl, BeginStart, Unexpired
  <2> QED BY <2>1, <2>2, OnwardWhenKept
<1>6. ASSUME NEW s \in Stream, Check(s) PROVE Onward
  <2>1. UNCHANGED <<home, stamp, expired, pending>>
    BY <1>6 DEF Check, issueVars
  <2>2. start[s].target \in Auth
    BY <1>6 DEF Check, Typed, SearchOK
  <2>3. entry' = entry \/ entry' = [entry EXCEPT ![start[s].target].consumed = TRUE]
    BY <1>6 DEF Check, Marked
  <2>4. \A b \in Auth : /\ entry[b].consumed => entry'[b].consumed
                        /\ entry[b].sid => entry'[b].sid
    BY <1>0, <2>2, <2>3
  <2> QED BY <2>1, <2>4 DEF Onward, Registered
<1>7. ASSUME NEW s \in Stream,
             \/ Lookup(s) \/ RedisGet(s) \/ MarkRead(s) \/ MarkWrite(s)
             \/ Return(s) \/ RedisError(s)
      PROVE  Onward
  <2>1. UNCHANGED <<home, stamp, entry, expired, pending>>
    BY <1>7 DEF Lookup, RedisGet, MarkRead, MarkWrite, Return, RedisError, issueVars,
                localVars
  <2> QED BY <2>1, OnwardWhenKept
<1>8. CASE UNCHANGED vars
  BY <1>8, OnwardWhenKept DEF vars, issueVars, localVars
<1> QED BY <1>1, <1>2, <1>3, <1>4, <1>5, <1>6, <1>7, <1>8 DEF Next

-----------------------------------------------------------------------------
(* RedisRemembers, where one process writes.                               *)

\* One process sends saves and marks to Redis, or none does.  It may restart,
\* and it may drop what it has no room for.
OneWriter == ~UseRedis \/ \A p, q \in Process : p = q

\* The process that could save an authorization again knows that it was used.
Remembered(a) ==
  /\ a \in Registered
  /\ \A p \in Process : a \in pending[p] => entry[a].consumed

\* No save under way undoes what Redis or a save before it says.
SavesOK ==
  \A p \in Process :
    /\ UseRedis \/ outbox[p] = <<>>
    /\ \A i \in 1..Len(outbox[p]) :
         /\ outbox[p][i].consumed => Remembered(outbox[p][i].id)
         /\ redis[outbox[p][i].id].consumed => outbox[p][i].consumed
    /\ \A i, j \in 1..Len(outbox[p]) :
         i < j /\ outbox[p][i].id = outbox[p][j].id /\ outbox[p][i].consumed
           => outbox[p][j].consumed

\* Nor does any that can still be sent: what Redis has as used, or is about to,
\* is remembered.
MarksOK ==
  /\ \A a \in Auth : redis[a].consumed => Remembered(a)
  /\ \A s \in Stream : start[s].pc \in {"markRead", "markWrite"} =>
       UseRedis /\ Remembered(start[s].target)

RedisInv == Typed /\ Known /\ SavesOK /\ MarksOK

\* The same, of the next state.
RememberedThen(a) ==
  /\ a \in Registered'
  /\ \A p \in Process : a \in pending'[p] => entry'[a].consumed

\* What is remembered stays so.
LEMMA RememberedStays ==
  ASSUME Onward, NEW a \in Auth, Remembered(a)
  PROVE  RememberedThen(a)
BY DEF Onward, Remembered, RememberedThen

\* How the two speak of the saves, the marks and the answers of Redis.
LEMMA SavesThen ==
  ASSUME \A p \in Process :
           /\ UseRedis \/ outbox'[p] = <<>>
           /\ \A i \in 1..Len(outbox'[p]) :
                /\ outbox'[p][i].consumed => RememberedThen(outbox'[p][i].id)
                /\ redis'[outbox'[p][i].id].consumed => outbox'[p][i].consumed
           /\ \A i, j \in 1..Len(outbox'[p]) :
                i < j /\ outbox'[p][i].id = outbox'[p][j].id /\ outbox'[p][i].consumed
                  => outbox'[p][j].consumed
  PROVE  SavesOK'
BY DEF SavesOK, Remembered, RememberedThen

\* ... and of the marks.
LEMMA MarksThen ==
  ASSUME \A a \in Auth : redis'[a].consumed => RememberedThen(a),
         \A s \in Stream : start'[s].pc \in {"markRead", "markWrite"} =>
           UseRedis /\ RememberedThen(start'[s].target)
  PROVE  MarksOK'
BY DEF MarksOK, Remembered, RememberedThen

\* At the start nothing was sent.
LEMMA InitRedisInv == Init => RedisInv
<1> SUFFICES ASSUME Init PROVE RedisInv
  OBVIOUS
<1>1. Typed /\ Known
  BY InitGrantInv DEF GrantInv
<1>2. Len(<<>>) = 0
  BY EmptySeq
<1>3. SavesOK /\ MarksOK
  BY <1>2 DEF Init, SavesOK, MarksOK, Idle, Search
<1> QED BY <1>1, <1>3 DEF RedisInv

\* A save goes to the end of the queue.
LEMMA SaveAppends ==
  ASSUME Typed, NEW p \in Process, NEW a \in Auth, NEW hasSid \in BOOLEAN,
         NEW consumed \in BOOLEAN, Save(p, a, hasSid, consumed)
  PROVE  \A q \in Process : \A k \in 1..Len(outbox'[q]) :
           \/ k \in 1..Len(outbox[q]) /\ outbox'[q][k] = outbox[q][k]
           \/ /\ UseRedis /\ q = p /\ k = Len(outbox[p]) + 1
              /\ outbox'[q][k].id = a /\ outbox'[q][k].consumed = consumed
<1> DEFINE m == [id |-> a, sid |-> hasSid, consumed |-> consumed]
<1>1. /\ m \in [id : Auth, sid : BOOLEAN, consumed : BOOLEAN]
      /\ m.id = a /\ m.consumed = consumed
  OBVIOUS
<1>2. outbox \in [Process -> Seq([id : Auth, sid : BOOLEAN, consumed : BOOLEAN])]
  BY DEF Typed, TypeOK
<1>3. outbox' = IF UseRedis THEN [outbox EXCEPT ![p] = Append(outbox[p], m)] ELSE outbox
  BY DEF Save
<1> HIDE DEF m
<1>4. /\ Len(Append(outbox[p], m)) = Len(outbox[p]) + 1
      /\ \A k \in 1..Len(outbox[p]) : Append(outbox[p], m)[k] = outbox[p][k]
      /\ Append(outbox[p], m)[Len(outbox[p]) + 1] = m
      /\ Len(outbox[p]) \in Nat
  BY <1>1, <1>2, AppendProperties, LenProperties
<1>5. CASE UseRedis
  BY <1>1, <1>2, <1>3, <1>4, <1>5
<1>6. CASE ~UseRedis
  BY <1>3, <1>6
<1> QED BY <1>5, <1>6

\* It undoes nothing if it says what the entry says.
LEMMA SaveKeeps ==
  ASSUME Typed, Known, SavesOK, Onward, UNCHANGED redis,
         NEW p \in Process, NEW a \in Auth, NEW hasSid \in BOOLEAN,
         NEW consumed \in BOOLEAN, Save(p, a, hasSid, consumed),
         consumed => RememberedThen(a),
         redis[a].consumed => consumed,
         \A i \in 1..Len(outbox[p]) :
           outbox[p][i].id = a /\ outbox[p][i].consumed => consumed
  PROVE  SavesOK'
<1> DEFINE M == [id : Auth, sid : BOOLEAN, consumed : BOOLEAN]
<1>0. /\ \A q \in Process : Len(outbox[q]) \in Nat
      /\ \A q \in Process : \A i \in 1..Len(outbox[q]) : outbox[q][i].id \in Auth
  <2>1. \A q \in Process : outbox[q] \in Seq(M)
    BY DEF Typed, TypeOK
  <2>2. \A m \in M : m.id \in Auth
    OBVIOUS
  <2> HIDE DEF M
  <2>3. \A q \in Process : \A i \in 1..Len(outbox[q]) : outbox[q][i] \in M
    BY <2>1, ElementOfSeq
  <2>4. \A q \in Process : Len(outbox[q]) \in Nat
    BY <2>1, LenProperties
  <2> QED BY <2>2, <2>3, <2>4
<1>1. \A q \in Process : \A k \in 1..Len(outbox'[q]) :
        \/ k \in 1..Len(outbox[q]) /\ outbox'[q][k] = outbox[q][k]
        \/ /\ UseRedis /\ q = p /\ k = Len(outbox[p]) + 1
           /\ outbox'[q][k].id = a /\ outbox'[q][k].consumed = consumed
  BY SaveAppends
<1>2. ASSUME NEW q \in Process PROVE UseRedis \/ outbox'[q] = <<>>
  BY DEF Save, SavesOK
<1>3. ASSUME NEW q \in Process, NEW i \in 1..Len(outbox'[q])
      PROVE  /\ outbox'[q][i].consumed => RememberedThen(outbox'[q][i].id)
             /\ redis[outbox'[q][i].id].consumed => outbox'[q][i].consumed
  <2>1. CASE i \in 1..Len(outbox[q]) /\ outbox'[q][i] = outbox[q][i]
    <3>1. outbox[q][i].id \in Auth
      BY <1>0, <2>1
    <3>2. outbox[q][i].consumed => Remembered(outbox[q][i].id)
      BY <2>1 DEF SavesOK
    <3>3. redis[outbox[q][i].id].consumed => outbox[q][i].consumed
      BY <2>1 DEF SavesOK
    <3>4. Remembered(outbox[q][i].id) => RememberedThen(outbox[q][i].id)
      BY <3>1, RememberedStays
    <3> QED BY <2>1, <3>2, <3>3, <3>4
  <2>2. CASE outbox'[q][i].id = a /\ outbox'[q][i].consumed = consumed
    BY <2>2
  <2> QED BY <1>1, <2>1, <2>2
<1>4. ASSUME NEW q \in Process, NEW i \in 1..Len(outbox'[q]), NEW j \in 1..Len(outbox'[q]),
             i < j, outbox'[q][i].id = outbox'[q][j].id, outbox'[q][i].consumed
      PROVE  outbox'[q][j].consumed
  <2>1. i \in 1..Len(outbox[q]) /\ outbox'[q][i] = outbox[q][i]
    <3>1. CASE j \in 1..Len(outbox[q])
      BY <1>0, <1>1, <1>4, <3>1
    <3>2. CASE q = p /\ j = Len(outbox[p]) + 1
      BY <1>0, <1>1, <1>4, <3>2
    <3> QED BY <1>1, <3>1, <3>2
  <2>2. CASE j \in 1..Len(outbox[q]) /\ outbox'[q][j] = outbox[q][j]
    BY <1>4, <2>1, <2>2 DEF SavesOK
  <2>3. CASE q = p /\ outbox'[q][j].id = a /\ outbox'[q][j].consumed = consumed
    BY <1>4, <2>1, <2>3
  <2> QED BY <1>1, <2>2, <2>3
<1> QED BY <1>2, <1>3, <1>4, SavesThen
\* A step that sends and stores nothing keeps the saves in order.
LEMMA SavesKept ==
  ASSUME Typed, SavesOK, Onward, UNCHANGED <<redis, outbox>>
  PROVE  SavesOK'
<1> DEFINE M == [id : Auth, sid : BOOLEAN, consumed : BOOLEAN]
<1>1. \A q \in Process : \A i \in 1..Len(outbox[q]) : outbox[q][i].id \in Auth
  <2>1. \A q \in Process : outbox[q] \in Seq(M)
    BY DEF Typed, TypeOK
  <2>2. \A m \in M : m.id \in Auth
    OBVIOUS
  <2> HIDE DEF M
  <2> QED BY <2>1, <2>2, ElementOfSeq
<1>2. ASSUME NEW q \in Process, NEW i \in 1..Len(outbox[q]), outbox[q][i].consumed
      PROVE  RememberedThen(outbox[q][i].id)
  BY <1>1, <1>2, RememberedStays DEF SavesOK
<1> QED BY <1>2, SavesThen DEF SavesOK

\* One that stores nothing keeps the marks, when no start reaches the marking.
LEMMA MarksKept ==
  ASSUME Typed, MarksOK, Onward, UNCHANGED redis,
         \A s \in Stream : start'[s].pc \in {"markRead", "markWrite"} =>
           /\ start[s].pc \in {"markRead", "markWrite"}
           /\ start'[s].target = start[s].target
  PROVE  MarksOK'
<1>1. ASSUME NEW a \in Auth, redis[a].consumed PROVE RememberedThen(a)
  BY <1>1, RememberedStays DEF MarksOK
<1>2. ASSUME NEW s \in Stream, start'[s].pc \in {"markRead", "markWrite"}
      PROVE  UseRedis /\ RememberedThen(start'[s].target)
  <2>1. /\ start[s].pc \in {"markRead", "markWrite"}
        /\ start'[s].target = start[s].target /\ start[s].target \in Auth
    BY <1>2 DEF Typed, SearchOK
  <2> QED BY <2>1, RememberedStays DEF MarksOK
<1> QED BY <1>1, <1>2, MarksThen

\* What a store changes.
LEMMA StoreSays ==
  ASSUME Typed, NEW a \in Auth, NEW hasSid, NEW consumed, Store(a, hasSid, consumed)
  PROVE  /\ redis'[a].consumed = consumed
         /\ \A b \in Auth : b # a => redis'[b] = redis[b]
BY DEF Store, Typed, TypeOK

\* A start that only moves its counter.
LEMMA CounterStep ==
  ASSUME Typed, NEW s \in Stream, NEW pc, start' = [start EXCEPT ![s].pc = pc]
  PROVE  /\ start'[s].pc = pc /\ start'[s].target = start[s].target
         /\ \A t \in Stream : t # s => start'[t] = start[t]
<1>0. start \in [Stream -> StartRecord] /\ start[s] \in StartRecord
  BY DEF Typed, TypeOK
<1>1. start'[s] = [start[s] EXCEPT !.pc = pc]
  BY <1>0
<1>2. /\ [start[s] EXCEPT !.pc = pc].pc = pc
      /\ [start[s] EXCEPT !.pc = pc].target = start[s].target
  BY <1>0 DEF StartRecord
<1>3. \A t \in Stream : t # s => start'[t] = start[t]
  BY <1>0
<1> QED BY <1>1, <1>2, <1>3

\* Registering sends an unused authorization that nothing names yet, and linking
\* sends what the entry says.
LEMMA SendRedisStep ==
  ASSUME RedisInv, Onward, NEW p \in Process, NEW a \in Auth,
         \/ \E hasSid \in BOOLEAN : Register(p, a, hasSid)
         \/ \E field \in {"sid", "callId"} : LinkProviderCallDetails(p, a, field)
  PROVE  SavesOK' /\ MarksOK'
<1> USE DEF RedisInv
<1> DEFINE M == [id : Registered, sid : BOOLEAN, consumed : BOOLEAN]
<1>0. \A q \in Process : \A i \in 1..Len(outbox[q]) : outbox[q][i].id \in Registered
  <2>1. \A q \in Process : outbox[q] \in Seq(M)
    BY DEF Known
  <2>2. \A m \in M : m.id \in Registered
    OBVIOUS
  <2> HIDE DEF M
  <2> QED BY <2>1, <2>2, ElementOfSeq
<1>1. ASSUME NEW hasSid \in BOOLEAN, Register(p, a, hasSid) PROVE SavesOK' /\ MarksOK'
  <2>1. a \notin Registered
    BY <1>1 DEF Register, Registered
  <2>2. Save(p, a, hasSid, FALSE) /\ UNCHANGED <<redis, start>>
    BY <1>1 DEF Register, redisVars, startVars
  <2>3. ~redis[a].consumed
    BY <2>1 DEF MarksOK, Remembered
  <2>4. SavesOK'
    BY <1>0, <2>1, <2>2, <2>3, SaveKeeps
  <2> QED BY <2>2, <2>4, MarksKept
<1>2. ASSUME NEW field \in {"sid", "callId"}, LinkProviderCallDetails(p, a, field)
      PROVE  SavesOK' /\ MarksOK'
  <2>1. /\ a \in pending[p] /\ a \in Registered
        /\ entry[a] \in [sid : BOOLEAN, callId : BOOLEAN, consumed : BOOLEAN]
        /\ entry'[a].sid \in BOOLEAN /\ entry'[a].consumed = entry[a].consumed
    <3>1. a \in pending[p] /\ entry' = [entry EXCEPT ![a][field] = TRUE]
      BY <1>2 DEF LinkProviderCallDetails
    <3>2. entry \in [Auth -> [sid : BOOLEAN, callId : BOOLEAN, consumed : BOOLEAN]]
      BY DEF Typed, TypeOK
    <3>3. a \in Registered
      BY <3>1 DEF Known
    <3>4. CASE field = "sid"
      BY <3>1, <3>2, <3>3, <3>4
    <3>5. CASE field = "callId"
      BY <3>1, <3>2, <3>3, <3>5
    <3> QED BY <3>4, <3>5
  <2>2. Save(p, a, entry'[a].sid, entry[a].consumed) /\ UNCHANGED <<redis, start>>
    BY <1>2 DEF LinkProviderCallDetails, redisVars, startVars
  <2>3. entry[a].consumed => RememberedThen(a)
    BY <2>1 DEF Onward, RememberedThen
  <2>4. redis[a].consumed => entry[a].consumed
    BY <2>1 DEF MarksOK, Remembered
  <2>5. \A i \in 1..Len(outbox[p]) :
          outbox[p][i].id = a /\ outbox[p][i].consumed => entry[a].consumed
    BY <2>1 DEF SavesOK, Remembered
  <2>6. SavesOK'
    <3>1. entry'[a].sid \in BOOLEAN /\ entry[a].consumed \in BOOLEAN
      BY <2>1
    <3> HIDE <2>1, <1>0, <1>2
    <3> QED BY <2>2, <2>3, <2>4, <2>5, <3>1, SaveKeeps
  <2> QED BY <2>2, <2>6, MarksKept
<1> QED BY <1>1, <1>2

\* A save that arrives says no less than Redis did, and no more than what is
\* remembered.
LEMMA DeliverRedisStep ==
  ASSUME OneWriter, RedisInv, Onward, NEW p \in Process, DeliverSave(p)
  PROVE  /\ SavesOK' /\ MarksOK'
         /\ \A a \in Auth : redis[a].consumed => redis'[a].consumed
<1> USE DEF RedisInv
<1> DEFINE M == [id : Auth, sid : BOOLEAN, consumed : BOOLEAN]
           h == Head(outbox[p])
<1>1. /\ outbox[p] # <<>> /\ outbox' = [outbox EXCEPT ![p] = Tail(outbox[p])]
      /\ UNCHANGED start
      /\ Store(h.id, h.sid, h.consumed) \/ UNCHANGED redisVars
  BY DEF DeliverSave, startVars
<1>2. outbox \in [Process -> Seq(M)]
  BY DEF Typed, TypeOK
<1>3. \A m \in M : m.id \in Auth
  OBVIOUS
<1> HIDE DEF M
<1>4. UseRedis /\ \A q \in Process : q = p
  BY <1>1 DEF SavesOK, OneWriter
<1>5. /\ Len(outbox[p]) \in Nat /\ Len(outbox[p]) >= 1
      /\ h = outbox[p][1] /\ h \in M
      /\ Len(Tail(outbox[p])) = Len(outbox[p]) - 1
      /\ \A i \in 1..Len(Tail(outbox[p])) : Tail(outbox[p])[i] = outbox[p][i + 1]
  BY <1>1, <1>2, HeadTailProperties, LenProperties, EmptySeq
<1>6. \A i \in 1..Len(outbox[p]) : outbox[p][i].id \in Auth
  BY <1>2, <1>3, ElementOfSeq
<1> HIDE DEF h
<1>7. \A i \in 1..Len(outbox'[p]) :
        i + 1 \in 1..Len(outbox[p]) /\ outbox'[p][i] = outbox[p][i + 1]
  BY <1>1, <1>2, <1>5
<1>8. 1 \in 1..Len(outbox[p]) /\ h.id \in Auth
  BY <1>5, <1>6
<1>9. /\ h.consumed => Remembered(h.id)
      /\ redis[h.id].consumed => h.consumed
  BY <1>5, <1>8 DEF SavesOK
<1>10. \A a \in Auth : \/ redis'[a].consumed = redis[a].consumed
                       \/ a = h.id /\ redis'[a].consumed = h.consumed
  <2>1. CASE UNCHANGED redisVars
    BY <2>1 DEF redisVars
  <2>2. CASE Store(h.id, h.sid, h.consumed)
    BY <1>8, <2>2, StoreSays
  <2> QED BY <1>1, <2>1, <2>2
<1>11. \A a \in Auth : redis[a].consumed => redis'[a].consumed
  BY <1>9, <1>10
<1>12. ASSUME NEW a \in Auth, redis'[a].consumed PROVE RememberedThen(a)
  BY <1>9, <1>10, <1>12, RememberedStays DEF MarksOK
<1>13. ASSUME NEW s \in Stream, start'[s].pc \in {"markRead", "markWrite"}
       PROVE  UseRedis /\ RememberedThen(start'[s].target)
  <2>1. start[s].pc \in {"markRead", "markWrite"} /\ start[s].target \in Auth
    BY <1>1, <1>13 DEF Typed, SearchOK
  <2> QED BY <1>1, <2>1, RememberedStays DEF MarksOK
<1>14. MarksOK'
  BY <1>12, <1>13, MarksThen
<1>15. ASSUME NEW i \in 1..Len(outbox'[p])
       PROVE  /\ outbox'[p][i].consumed => RememberedThen(outbox'[p][i].id)
              /\ redis'[outbox'[p][i].id].consumed => outbox'[p][i].consumed
  <2>1. PICK k \in 1..Len(outbox[p]) : k = i + 1 /\ outbox'[p][i] = outbox[p][k]
    BY <1>7, <1>15
  <2>2. outbox[p][k].id \in Auth /\ 1 < k
    BY <1>5, <1>6, <2>1
  <2>3. /\ outbox[p][k].consumed => Remembered(outbox[p][k].id)
        /\ redis[outbox[p][k].id].consumed => outbox[p][k].consumed
    BY DEF SavesOK
  <2>4. outbox[p][k].id = h.id /\ h.consumed => outbox[p][k].consumed
    BY <1>5, <1>8, <2>2 DEF SavesOK
  <2>5. outbox[p][k].consumed => RememberedThen(outbox[p][k].id)
    BY <2>2, <2>3, RememberedStays
  <2>6. redis'[outbox[p][k].id].consumed => outbox[p][k].consumed
    BY <1>10, <2>2, <2>3, <2>4
  <2> QED BY <2>1, <2>5, <2>6
<1>16. ASSUME NEW i \in 1..Len(outbox'[p]), NEW j \in 1..Len(outbox'[p]), i < j,
              outbox'[p][i].id = outbox'[p][j].id, outbox'[p][i].consumed
       PROVE  outbox'[p][j].consumed
  <2>1. PICK k \in 1..Len(outbox[p]) : k = i + 1 /\ outbox'[p][i] = outbox[p][k]
    BY <1>7, <1>16
  <2>2. PICK l \in 1..Len(outbox[p]) : l = j + 1 /\ outbox'[p][j] = outbox[p][l]
    BY <1>7, <1>16
  <2>3. k < l
    BY <1>16, <2>1, <2>2
  <2> QED BY <1>16, <2>1, <2>2, <2>3 DEF SavesOK
<1>17. SavesOK'
  BY <1>4, <1>15, <1>16, SavesThen
<1> QED BY <1>11, <1>14, <1>17

\* The test and set marks every copy its one process holds.
LEMMA CheckRedisStep ==
  ASSUME OneWriter, RedisInv, Onward, NEW s \in Stream, Check(s)
  PROVE  SavesOK' /\ MarksOK'
<1> USE DEF RedisInv
<1>1. UNCHANGED <<home, pending, redis, outbox>>
  BY DEF Check, issueVars, redisVars
<1>2. SavesOK'
  BY <1>1, SavesKept
<1>3. CASE ~Usable(start[s])
  <2>1. start' = [start EXCEPT ![s] = AfterTry(s, start[s])] /\ start[s].pc \in Running
    BY <1>3 DEF Check, Running
  <2>2. start'[s].pc \in {"lookup", "rejected", "bypassed"}
    BY <2>1, AfterKeeps DEF Typed, TypeOK
  <2>3. \A t \in Stream : t # s => start'[t] = start[t]
    BY <2>1 DEF Typed, TypeOK
  <2> QED BY <1>1, <1>2, <2>2, <2>3, MarksKept
<1>4. CASE Usable(start[s])
  <2>1. start' = [start EXCEPT ![s].pc = IF UseRedis THEN "markRead" ELSE "return"]
    BY <1>4 DEF Check
  <2>2. /\ start'[s].pc = IF UseRedis THEN "markRead" ELSE "return"
        /\ start'[s].target = start[s].target
        /\ \A t \in Stream : t # s => start'[t] = start[t]
    BY <2>1, CounterStep, ZenonT(60)
  <2>3. ASSUME UseRedis PROVE RememberedThen(start[s].target)
    <3>1. start[s].target \in Auth /\ start[s].target \in Registered
      BY ConstantsAssumption DEF Check, Typed, SearchOK, Known
    <3>2. \A q \in Process : q = start[s].proc
      BY <2>3, ConstantsAssumption DEF OneWriter, Check, Typed, SearchOK
    <3>3. entry' = Marked(start[s])
      BY <1>4 DEF Check
    <3>4. start[s].target \in pending[start[s].proc] => entry'[start[s].target].consumed
      BY <3>1, <3>3 DEF Marked, Typed, TypeOK
    <3>5. start[s].target \in Registered'
      BY <1>1, <3>1 DEF Registered
    <3> QED BY <1>1, <3>2, <3>4, <3>5 DEF RememberedThen
  <2>4. ASSUME NEW a \in Auth, redis'[a].consumed PROVE RememberedThen(a)
    BY <1>1, <2>4, RememberedStays DEF MarksOK
  <2>5. ASSUME NEW t \in Stream, start'[t].pc \in {"markRead", "markWrite"}
        PROVE  UseRedis /\ RememberedThen(start'[t].target)
    <3>1. CASE t = s
      BY <2>2, <2>3, <2>5, <3>1
    <3>2. CASE t # s
      <4>1. /\ start'[t] = start[t] /\ start[t].target \in Auth
            /\ start[t].pc \in {"markRead", "markWrite"}
        BY <2>2, <2>5, <3>2 DEF Typed, SearchOK
      <4> QED BY <4>1, RememberedStays DEF MarksOK
    <3> QED BY <3>1, <3>2
  <2> QED BY <1>2, <2>4, <2>5, MarksThen
<1> QED BY <1>3, <1>4

\* The mark is written when nothing else is under way.
LEMMA MarkRedisStep ==
  ASSUME OneWriter, RedisInv, Onward, NEW s \in Stream, MarkRead(s) \/ MarkWrite(s)
  PROVE  /\ SavesOK' /\ MarksOK'
         /\ \A a \in Auth : redis[a].consumed => redis'[a].consumed
<1> USE DEF RedisInv
<1>0. PICK pc \in {"markWrite", "return"} : start' = [start EXCEPT ![s].pc = pc]
  BY DEF MarkRead, MarkWrite
<1>1. /\ start'[s].pc = pc /\ start'[s].target = start[s].target
      /\ \A t \in Stream : t # s => start'[t] = start[t]
  BY <1>0, CounterStep
<1>2. /\ start[s].pc \in {"markRead", "markWrite"} /\ start[s].target \in Auth
      /\ start[s].proc \in Process
  BY DEF MarkRead, MarkWrite, Typed, SearchOK
<1>3. UseRedis /\ Remembered(start[s].target)
  BY <1>2 DEF MarksOK
<1>4. \A q \in Process : outbox[q] = <<>> /\ outbox' = outbox
  BY <1>2, <1>3, ConstantsAssumption DEF OneWriter, MarkRead, MarkWrite, Flushed
<1>5. \A a \in Auth : \/ redis'[a].consumed = redis[a].consumed
                      \/ a = start[s].target /\ redis'[a].consumed = TRUE
  <2>1. CASE UNCHANGED redisVars
    BY <2>1 DEF redisVars
  <2>2. CASE Store(start[s].target, FALSE, TRUE)
    BY <1>2, <2>2, StoreSays
  <2> QED BY <2>1, <2>2 DEF MarkRead, MarkWrite
<1>6. \A q \in Process : outbox'[q] = <<>> /\ Len(outbox'[q]) = 0
  BY <1>4, EmptySeq
<1>7. SavesOK'
  BY <1>6, SavesThen
<1>8. ASSUME NEW a \in Auth, redis'[a].consumed PROVE RememberedThen(a)
  BY <1>3, <1>5, <1>8, RememberedStays DEF MarksOK
<1>9. ASSUME NEW t \in Stream, start'[t].pc \in {"markRead", "markWrite"}
      PROVE  UseRedis /\ RememberedThen(start'[t].target)
  <2>1. /\ start'[t].target = start[t].target /\ start[t].target \in Auth
        /\ start[t].pc \in {"markRead", "markWrite"}
    BY <1>1, <1>2, <1>9 DEF Typed, SearchOK
  <2> QED BY <2>1, RememberedStays DEF MarksOK
<1>10. MarksOK'
  BY <1>8, <1>9, MarksThen
<1> QED BY <1>5, <1>7, <1>10

\* A restart sends nothing any more and marks nothing any more.
LEMMA RestartRedisStep ==
  ASSUME RedisInv, Onward, NEW p \in Process, Restart(p)
  PROVE  SavesOK' /\ MarksOK'
<1> USE DEF RedisInv
<1>1. /\ UNCHANGED redis /\ outbox' = [outbox EXCEPT ![p] = <<>>]
      /\ start' = [s \in Stream |->
                     IF start[s].proc = p /\ start[s].pc \in Running
                       THEN [start[s] EXCEPT !.pc = "dropped"] ELSE start[s]]
  BY DEF Restart, redisVars
<1>2. ASSUME NEW s \in Stream, start'[s].pc \in {"markRead", "markWrite"}
      PROVE  start'[s] = start[s]
  <2>1. start[s] \in StartRecord
    BY DEF Typed, TypeOK
  <2>2. [start[s] EXCEPT !.pc = "dropped"].pc = "dropped"
    BY <2>1 DEF StartRecord
  <2> QED BY <1>1, <1>2, <2>2
<1>3. MarksOK'
  BY <1>1, <1>2, MarksKept
<1> DEFINE M == [id : Auth, sid : BOOLEAN, consumed : BOOLEAN]
<1>4. \A q \in Process : \A i \in 1..Len(outbox[q]) : outbox[q][i].id \in Auth
  <2>1. \A q \in Process : outbox[q] \in Seq(M)
    BY DEF Typed, TypeOK
  <2>2. \A m \in M : m.id \in Auth
    OBVIOUS
  <2> HIDE DEF M
  <2> QED BY <2>1, <2>2, ElementOfSeq
<1>5. ASSUME NEW q \in Process, NEW i \in 1..Len(outbox[q]), outbox[q][i].consumed
      PROVE  RememberedThen(outbox[q][i].id)
  BY <1>4, <1>5, RememberedStays DEF SavesOK
<1>6. \A q \in Process : outbox'[q] = outbox[q] \/ (outbox'[q] = <<>> /\ Len(outbox'[q]) = 0)
  BY <1>1, EmptySeq DEF Typed, TypeOK
<1>7. SavesOK'
  <2> SUFFICES ASSUME NEW q \in Process
               PROVE  /\ UseRedis \/ outbox'[q] = <<>>
                      /\ \A i \in 1..Len(outbox'[q]) :
                           /\ outbox'[q][i].consumed => RememberedThen(outbox'[q][i].id)
                           /\ redis'[outbox'[q][i].id].consumed => outbox'[q][i].consumed
                      /\ \A i, j \in 1..Len(outbox'[q]) :
                           i < j /\ outbox'[q][i].id = outbox'[q][j].id
                                 /\ outbox'[q][i].consumed
                             => outbox'[q][j].consumed
    BY SavesThen
  <2>1. CASE outbox'[q] = outbox[q]
    BY <1>1, <1>5, <2>1 DEF SavesOK
  <2>2. CASE outbox'[q] = <<>> /\ Len(outbox'[q]) = 0
    BY <2>2
  <2> QED BY <1>6, <2>1, <2>2
<1> QED BY <1>3, <1>7

\* Every step keeps the invariant, and Redis remembers what it had as used.
LEMMA RedisStep ==
  ASSUME OneWriter, RedisInv, [Next]_vars
  PROVE  RedisInv' /\ \A a \in Auth : redis[a].consumed => redis'[a].consumed
<1> DEFINE Fine == /\ SavesOK' /\ MarksOK'
                   /\ \A a \in Auth : redis[a].consumed => redis'[a].consumed
<1>0. Typed' /\ Known' /\ Onward /\ Typed
  BY NextTyped, KnownStep, OnwardStep DEF RedisInv
<1> SUFFICES Fine
  BY <1>0 DEF RedisInv
<1>1. ASSUME NEW p \in Process, NEW a \in Auth, NEW hasSid \in BOOLEAN,
             Register(p, a, hasSid)
      PROVE  Fine
  BY <1>0, <1>1, SendRedisStep DEF Register, redisVars
<1>2. ASSUME NEW p \in Process, NEW a \in Auth, NEW field \in {"sid", "callId"},
             LinkProviderCallDetails(p, a, field)
      PROVE  Fine
  BY <1>0, <1>2, SendRedisStep DEF LinkProviderCallDetails, redisVars
<1>3. ASSUME NEW p \in Process, DeliverSave(p) PROVE Fine
  BY <1>0, <1>3, DeliverRedisStep
<1>4. ASSUME NEW p \in Process, Restart(p) PROVE Fine
  BY <1>0, <1>4, RestartRedisStep DEF Restart, redisVars
<1>5. ASSUME UNCHANGED <<redis, outbox>>,
             \A s \in Stream : start'[s].pc \in {"markRead", "markWrite"} =>
                                 start'[s] = start[s]
      PROVE  Fine
  BY <1>0, <1>5, SavesKept, MarksKept DEF RedisInv
<1>6. ASSUME NEW a \in Auth, Expire(a) PROVE Fine
  BY <1>5, <1>6 DEF Expire, redisVars, startVars
<1>7. ASSUME NEW p \in Process, NEW s \in Stream, ResolveStreamUrl(p, s) PROVE Fine
  BY <1>5, <1>7 DEF ResolveStreamUrl, redisVars, startVars
<1>8. ASSUME NEW p \in Process, NEW s \in Stream, NEW o \in Offers(s), BeginStart(p, s, o)
      PROVE  Fine
  <2>1. /\ start' = [start EXCEPT ![s] = Search(p, o, "lookup", "authorizationId", 1, 0)]
        /\ UNCHANGED <<redis, outbox>>
    BY <1>8 DEF BeginStart, redisVars
  <2>2. start'[s].pc = "lookup" /\ \A t \in Stream : t # s => start'[t] = start[t]
    BY <1>0, <2>1 DEF Typed, TypeOK, Search
  <2> QED BY <1>5, <2>1, <2>2
<1>9. ASSUME NEW s \in Stream, Lookup(s) PROVE Fine
  <2>1. UNCHANGED <<redis, outbox>> /\ start[s].pc \in Running
    BY <1>9 DEF Lookup, redisVars, Running
  <2>2. start'[s].pc \in {"lookup", "rejected", "bypassed", "check", "get"}
    <3>1. CASE start' = [start EXCEPT ![s] = AfterStage(s, start[s])]
      BY <1>0, <2>1, <3>1, AfterKeeps DEF Typed, TypeOK
    <3>2. ASSUME NEW a, NEW pc \in {"check", "get"}, NEW source,
                 start' = [start EXCEPT ![s] = Trying(start[s], pc, a, source)]
          PROVE  start'[s].pc \in {"check", "get"}
      BY <1>0, <3>2 DEF Trying, Typed, TypeOK
    <3> QED BY <1>9, <3>1, <3>2 DEF Lookup
  <2>3. \A t \in Stream : t # s => start'[t] = start[t]
    BY <1>0, <1>9 DEF Lookup, Typed, TypeOK
  <2> QED BY <1>5, <2>1, <2>2, <2>3
<1>10. ASSUME NEW s \in Stream, RedisGet(s) PROVE Fine
  <2>1. UNCHANGED <<redis, outbox>>
    BY <1>10 DEF RedisGet, redisVars
  <2>2. \A t \in Stream : t # s => start'[t] = start[t]
    BY <1>0, <1>10 DEF RedisGet, Typed, TypeOK
  <2>3. PICK b : start' = [start EXCEPT ![s].pc = "check", ![s].consumable = b]
    BY <1>10 DEF RedisGet
  <2>4. DEFINE x == [start[s] EXCEPT !.pc = "check"]
  <2>5. start[s] \in StartRecord /\ start'[s] = [x EXCEPT !.consumable = b]
    BY <1>0, <2>3 DEF Typed, TypeOK
  <2>6. x.pc = "check" /\ [x EXCEPT !.consumable = b].pc = x.pc
    BY <2>5 DEF StartRecord
  <2> HIDE DEF x
  <2>7. start'[s].pc = "check"
    BY <2>5, <2>6
  <2> QED BY <1>5, <2>1, <2>2, <2>7
<1>11. ASSUME NEW s \in Stream, Check(s) PROVE Fine
  BY <1>0, <1>11, CheckRedisStep DEF Check, redisVars
<1>12. ASSUME NEW s \in Stream, MarkRead(s) \/ MarkWrite(s) PROVE Fine
  BY <1>0, <1>12, MarkRedisStep
<1>13. ASSUME NEW s \in Stream, Return(s) \/ RedisError(s) PROVE Fine
  <2>1. PICK pc \in {"granted", "failed"} : start' = [start EXCEPT ![s].pc = pc]
    BY <1>13 DEF Return, RedisError
  <2>2. start'[s].pc = pc /\ \A t \in Stream : t # s => start'[t] = start[t]
    BY <1>0, <2>1, CounterStep
  <2>3. UNCHANGED <<redis, outbox>>
    BY <1>13 DEF Return, RedisError, redisVars
  <2> QED BY <1>5, <2>2, <2>3
<1>14. CASE UNCHANGED vars
  BY <1>5, <1>14 DEF vars, redisVars, startVars
<1> HIDE DEF Fine
<1> QED BY <1>1, <1>2, <1>3, <1>4, <1>6, <1>7, <1>8, <1>9, <1>10, <1>11, <1>12, <1>13,
           <1>14 DEF Next

\* Where one process writes, whatever it forgets and however often it restarts,
\* Redis never loses the mark that an authorization was used: no save that was
\* serialised before the mark arrives after it (`void saveAuthorization` and
\* markAuthorizationConsumed share one connection).
THEOREM RedisKeepsTheMark == ASSUME OneWriter PROVE Spec => RedisRemembers
<1>1. Init => RedisInv
  BY InitRedisInv
<1>2. RedisInv /\ [Next]_vars =>
        RedisInv' /\ [\A a \in Auth : redis[a].consumed => redis'[a].consumed]_vars
  BY RedisStep
<1> QED BY <1>1, <1>2, PTL DEF Spec, RedisRemembers
-----------------------------------------------------------------------------
(* NothingLeftBehind, for any number of processes, restarts and evictions. *)

\* The provider gives no two calls the same SID.
DistinctSids == \A a, b \in Auth : SidOf[a] = SidOf[b] => a = b

\* Registration numbers are distinct and start at 1.
StampInv ==
  /\ \A a \in Registered : stamp[a] \in 1..Cardinality(Registered)
  /\ \A a, b \in Registered : stamp[a] = stamp[b] => a = b

\* Authorization a is of the customer whose number is the i-th of stream s.
SameSuffix(s, i, a) ==
  /\ SuffixOf[StreamPhones[s][i]] # None
  /\ SuffixOf[StreamPhones[s][i]] = SuffixOf[PhoneOf[a]]

\* A search at r has yet to come to authorization a: by its id, by the SID or,
\* at the latest, in the scan of the numbers.
Ahead(s, r, a) ==
  \/ a = r.offered /\ r.stage = "authorizationId"
  \/ /\ SidOf[a] = StreamSid[s] /\ entry[a].sid
     /\ r.stage \in {"authorizationId", "reservation", "callSid"}
  \/ \E i \in DOMAIN StreamPhones[s] :
       /\ SameSuffix(s, i, a)
       /\ r.stage = "phoneSuffix" => r.phone < i \/ (r.phone = i /\ r.cursor < stamp[a])
       /\ r.stage # "exhausted"

\* What matched when the start came and could still be granted.
LeftFor(s) == {a \in eligible[s] \cap pending[start[s].proc] : Consumable(a)}

\* A candidate in hand is read from the map if the map has it, is the one its
\* stage offers, and in the scan nothing was passed over.
InHand(s, r) ==
  /\ r.target \in pending[r.proc] => r.source = "local" /\ r.pc = "check"
  /\ r.stage = "authorizationId" => r.target = r.offered
  /\ r.stage = "callSid" => SidOf[r.target] = StreamSid[s]
  /\ r.stage = "phoneSuffix" =>
       \A b \in LeftFor(s) :
         SameSuffix(s, r.phone, b) /\ r.cursor < stamp[b] => stamp[r.target] <= stamp[b]

\* Everything that is left for a search lies ahead of it.
SearchFine(s) ==
  /\ eligible[s] \subseteq Registered
  /\ start[s].pc \in {"lookup", "get", "check"} =>
       \A a \in LeftFor(s) : Ahead(s, start[s], a)
  /\ start[s].pc \in {"get", "check"} => InHand(s, start[s])
  /\ start[s].pc = "rejected" => LeftFor(s) = {}

SearchInv ==
  Typed /\ Known /\ StampInv /\ \A s \in Stream : SearchFine(s)

\* At the start there is nothing to find.
LEMMA InitSearchInv == Init => SearchInv
<1> SUFFICES ASSUME Init PROVE SearchInv
  OBVIOUS
<1>1. Typed /\ Known
  BY InitGrantInv DEF GrantInv
<1>2. Registered = {}
  BY DEF Init, Registered
<1>3. \A s \in Stream : SearchFine(s)
  BY DEF Init, SearchFine, LeftFor, Idle, Search
<1> QED BY <1>1, <1>2, <1>3 DEF SearchInv, StampInv

\* A registration takes the next number; nothing else changes a number.
LEMMA StampStep ==
  ASSUME Typed, Known, StampInv, [Next]_vars
  PROVE  StampInv'
<1>1. ASSUME UNCHANGED <<home, stamp>> PROVE StampInv'
  BY <1>1 DEF StampInv, Registered
<1>2. ASSUME NEW p \in Process, NEW a \in Auth, NEW hasSid \in BOOLEAN,
             Register(p, a, hasSid)
      PROVE  StampInv'
  <2> DEFINE n == Cardinality(Registered)
  <2>1. Registered' = Registered \cup {a} /\ a \notin Registered
    BY <1>2, RegisterKnown DEF Register, Registered
  <2>2. IsFiniteSet(Registered)
    BY ConstantsAssumption, FS_Subset DEF Registered
  <2>3. n \in Nat /\ Cardinality(Registered') = n + 1
    BY <2>1, <2>2, FS_AddElement, FS_CardinalityType
  <2>4. /\ stamp'[a] = n + 1
        /\ \A b \in Auth : b # a => stamp'[b] = stamp[b]
    BY <1>2, <2>3 DEF Register, Typed, TypeOK
  <2>5. \A b \in Registered : /\ stamp[b] \in 1..n /\ b # a
                              /\ stamp'[b] = stamp[b]
    BY <2>1, <2>4 DEF StampInv, Registered
  <2> HIDE DEF n
  <2>6. \A b \in Registered' : stamp'[b] \in 1..(n + 1)
    BY <2>1, <2>3, <2>4, <2>5
  <2>7. \A b, c \in Registered' : stamp'[b] = stamp'[c] => b = c
    <3> SUFFICES ASSUME NEW b \in Registered', NEW c \in Registered', stamp'[b] = stamp'[c]
                 PROVE  b = c
      OBVIOUS
    <3>1. CASE b = a \/ c = a
      BY <2>1, <2>3, <2>4, <2>5, <3>1
    <3>2. CASE b # a /\ c # a
      BY <2>1, <2>5, <3>2 DEF StampInv
    <3> QED BY <3>1, <3>2
  <2> QED BY <2>3, <2>6, <2>7 DEF StampInv
<1>3. ASSUME NEW p \in Process, NEW a \in Auth, NEW field \in {"sid", "callId"},
             LinkProviderCallDetails(p, a, field)
      PROVE  StampInv'
  BY <1>1, <1>3 DEF LinkProviderCallDetails, issueVars
<1>4. ASSUME NEW p \in Process, DeliverSave(p) \/ Restart(p) PROVE StampInv'
  BY <1>1, <1>4 DEF DeliverSave, Restart, issueVars
<1>5. ASSUME NEW a \in Auth, Expire(a) PROVE StampInv'
  BY <1>1, <1>5 DEF Expire
<1>6. ASSUME NEW p \in Process, NEW s \in Stream,
             ResolveStreamUrl(p, s) \/ (\E o \in Offers(s) : BeginStart(p, s, o))
      PROVE  StampInv'
  BY <1>1, <1>6 DEF ResolveStreamUrl, BeginStart, issueVars
<1>7. ASSUME NEW s \in Stream,
             \/ Lookup(s) \/ RedisGet(s) \/ Check(s) \/ MarkRead(s) \/ MarkWrite(s)
             \/ Return(s) \/ RedisError(s)
      PROVE  StampInv'
  BY <1>1, <1>7 DEF Lookup, RedisGet, Check, MarkRead, MarkWrite, Return, RedisError,
                    issueVars
<1>8. CASE UNCHANGED vars
  BY <1>1, <1>8 DEF vars, issueVars
<1> QED BY <1>2, <1>3, <1>4, <1>5, <1>6, <1>7, <1>8 DEF Next

\* A search that stays in its process never has more left than it had.
LEMMA LeftShrinks ==
  ASSUME Typed, Onward, NEW s \in Stream, eligible[s] \subseteq Registered,
         eligible'[s] = eligible[s], start'[s].proc = start[s].proc,
         start[s].proc \in Process
  PROVE  LeftFor(s)' \subseteq LeftFor(s)
BY DEF LeftFor, Onward, Consumable, Live, Typed, TypeOK

\* What lies ahead of a place stays ahead of it.
LEMMA AheadStays ==
  ASSUME Onward, NEW s, NEW r, NEW a \in Registered, Ahead(s, r, a)
  PROVE  Ahead(s, r, a)'
<1>1. stamp'[a] = stamp[a] /\ (entry[a].sid => entry'[a].sid)
  BY DEF Onward
<1> QED BY <1>1 DEF Ahead

\* A search that moves to a place everything left lies ahead of is fine there.
LEMMA MovedIsFine ==
  ASSUME Typed, Onward, NEW s \in Stream, SearchFine(s), start[s].pc \in Running,
         eligible'[s] = eligible[s],
         NEW r, start'[s] = r, r.proc = start[s].proc,
         r.pc \in {"lookup", "rejected", "bypassed"},
         r.pc = "lookup" => \A a \in LeftFor(s) : Ahead(s, r, a),
         r.pc = "rejected" => LeftFor(s) = {}
  PROVE  SearchFine(s)'
<1>1. start[s].proc \in Process
  BY DEF Typed, SearchOK, Running
<1>2. LeftFor(s)' \subseteq LeftFor(s) /\ eligible[s] \subseteq Registered
  BY <1>1, LeftShrinks DEF SearchFine
<1>3. eligible'[s] \subseteq Registered'
  BY <1>2 DEF Onward
<1>4. ASSUME r.pc = "lookup", NEW a \in LeftFor(s)' PROVE Ahead(s, r, a)'
  BY <1>2, <1>4, AheadStays DEF LeftFor
<1> QED BY <1>2, <1>3, <1>4 DEF SearchFine

\* So is one that does not move at all ...
LEMMA StaysFine ==
  ASSUME Typed, Known, Onward, NEW s \in Stream, SearchFine(s),
         eligible'[s] = eligible[s], start'[s] = start[s]
  PROVE  SearchFine(s)'
<1> DEFINE r == start[s]
<1>1. eligible[s] \subseteq Registered /\ eligible'[s] \subseteq Registered'
  BY DEF SearchFine, Onward
<1>2. CASE r.pc \in {"lookup", "get", "check", "rejected"}
  <2>1. r.proc \in Process
    BY <1>2 DEF Typed, SearchOK
  <2>2. LeftFor(s)' \subseteq LeftFor(s)
    BY <1>1, <2>1, LeftShrinks
  <2>3. ASSUME r.pc \in {"lookup", "get", "check"}, NEW a \in LeftFor(s)'
        PROVE  Ahead(s, r, a)'
    BY <1>1, <2>2, <2>3, AheadStays DEF SearchFine, LeftFor
  <2>4. ASSUME r.pc \in {"get", "check"} PROVE InHand(s, r)'
    <3>1. r.target \in Registered /\ InHand(s, r)
      BY <2>4, ConstantsAssumption DEF Typed, SearchOK, Known, SearchFine
    <3>2. \A p \in Process : r.target \in pending'[p] => r.target \in pending[p]
      BY <3>1 DEF Onward
    <3>3. \A b \in LeftFor(s)' : b \in LeftFor(s) /\ stamp'[b] = stamp[b]
      BY <1>1, <2>2 DEF Onward, LeftFor
    <3>4. stamp'[r.target] = stamp[r.target]
      BY <3>1 DEF Onward
    <3> QED BY <2>1, <3>1, <3>2, <3>3, <3>4 DEF InHand, SameSuffix
  <2> QED BY <1>1, <2>2, <2>3, <2>4 DEF SearchFine
<1>3. CASE r.pc \notin {"lookup", "get", "check", "rejected"}
  BY <1>1, <1>3 DEF SearchFine
<1> QED BY <1>2, <1>3

\* ... and one that ends in another way.
LEMMA EndsFine ==
  ASSUME Onward, NEW s \in Stream, SearchFine(s), eligible'[s] = eligible[s],
         start'[s].pc \notin {"lookup", "get", "check", "rejected"}
  PROVE  SearchFine(s)'
BY DEF SearchFine, Onward
\* A set of numbers that is not empty has a least one.
LEMMA LeastNumber ==
  ASSUME NEW T, T \subseteq Nat, T # {}
  PROVE  \E x \in T : \A y \in T : x <= y
<1>1. PICK x \in T : \A y \in T : ~ (<<y, x>> \in OpToRel(<, Nat))
  BY NatLessThanWellFounded, WFMin
<1>2. \A y \in T : ~(y < x)
  BY <1>1 DEF OpToRel
<1>3. ASSUME NEW y \in T PROVE x <= y
  <2>1. x \in Nat /\ y \in Nat /\ ~(y < x)
    BY <1>2
  <2> QED BY <2>1
<1> QED BY <1>3

\* The scan of the numbers stops at the first authorization that fits, if any.
LEMMA ScanFinds ==
  ASSUME Typed, NEW p \in Process, NEW n, NEW after \in Nat,
         NEW b \in pending[p], SuffixOf[n] # None, SuffixOf[PhoneOf[b]] = SuffixOf[n],
         Consumable(b), stamp[b] > after
  PROVE  /\ SuffixMatch(p, n, after) # {}
         /\ \A a \in SuffixMatch(p, n, after) : stamp[a] <= stamp[b]
<1> DEFINE S == {a \in pending[p] : /\ SuffixOf[n] # None
                                    /\ SuffixOf[PhoneOf[a]] = SuffixOf[n]
                                    /\ Consumable(a)
                                    /\ stamp[a] > after}
           T == {stamp[a] : a \in S}
<1>1. b \in S /\ S \subseteq Auth
  BY DEF Typed, TypeOK
<1>2. T \subseteq Nat /\ T # {}
  BY <1>1 DEF Typed, TypeOK
<1>3. SuffixMatch(p, n, after) = {a \in S : \A c \in S : stamp[a] <= stamp[c]}
  BY DEF SuffixMatch
<1>4. PICK x \in T : \A y \in T : x <= y
  BY <1>2, LeastNumber
<1>5. PICK a \in S : stamp[a] = x
  BY <1>4
<1>6. \A c \in S : stamp[a] <= stamp[c]
  BY <1>4, <1>5
<1> HIDE DEF S
<1> QED BY <1>1, <1>3, <1>5, <1>6

\* Authorization a is not what the stage of r looks for (any more).
NotHere(s, r, a) ==
  /\ r.stage = "authorizationId" => a # r.offered
  /\ r.stage = "callSid" => ~(SidOf[a] = StreamSid[s] /\ entry[a].sid)
  /\ r.stage = "phoneSuffix" => ~(SameSuffix(s, r.phone, a) /\ r.cursor < stamp[a])

\* The next stage still has ahead of it what the stage before did not hold.
LEMMA NextStageAhead ==
  ASSUME Typed, StampInv, NEW s \in Stream, start[s].pc \in Running,
         NEW a \in Registered, Ahead(s, start[s], a), NotHere(s, start[s], a)
  PROVE  /\ start[s].stage # "exhausted"
         /\ Ahead(s, AfterStage(s, start[s]), a)
<1> DEFINE r == start[s]
           phones == Len(StreamPhones[s])
           x == AfterStage(s, r)
<1> SUFFICES r.stage # "exhausted" /\ Ahead(s, x, a)
  OBVIOUS
<1>0. Cardinality(Registered) \in Nat
  BY ConstantsAssumption, FS_Subset, FS_CardinalityType DEF Registered
<1>1. /\ r.stage \in Stages /\ r.phone \in Nat /\ r.cursor \in Nat
      /\ phones \in Nat /\ DOMAIN StreamPhones[s] = 1..phones
      /\ stamp[a] \in Nat /\ stamp[a] > 0
  <2>1. /\ r.stage \in Stages /\ r.phone \in Nat /\ r.cursor \in Nat
    BY DEF Typed, TypeOK, StartRecord
  <2>2. phones \in Nat /\ DOMAIN StreamPhones[s] = 1..phones
    BY ConstantsAssumption, LenProperties
  <2>3. stamp[a] \in 1..Cardinality(Registered)
    BY DEF StampInv
  <2> QED BY <1>0, <2>1, <2>2, <2>3
<1>2. r.stage # "exhausted"
  BY DEF Ahead
<1>3. CASE r.stage = "authorizationId"
  <2>1. x.stage \in {"reservation", "callSid"}
    BY <1>3 DEF AfterStage, At, Search
  <2> HIDE DEF x
  <2> QED BY <1>2, <1>3, <2>1 DEF Ahead, NotHere
<1>4. CASE r.stage = "reservation"
  <2>1. x.stage = "callSid"
    BY <1>4 DEF AfterStage, At, Search
  <2> HIDE DEF x
  <2> QED BY <1>2, <1>4, <2>1 DEF Ahead
<1>5. CASE r.stage = "callSid"
  <2>1. x.stage = "redisCallSid"
    BY <1>5 DEF AfterStage, At, Search
  <2> HIDE DEF x
  <2> QED BY <1>2, <1>5, <2>1 DEF Ahead, NotHere
<1>6. CASE r.stage = "redisCallSid"
  <2>1. PICK i \in 1..phones : SameSuffix(s, i, a)
    BY <1>1, <1>6 DEF Ahead
  <2>2. x.stage = "phoneExact"
    BY <1>1, <1>6, <2>1 DEF AfterStage, At, Search
  <2> HIDE DEF x
  <2> QED BY <1>1, <1>2, <2>1, <2>2 DEF Ahead
<1>7. CASE r.stage \in {"phoneExact", "redisPhone"}
  <2>1. PICK i \in 1..phones : SameSuffix(s, i, a)
    BY <1>1, <1>7 DEF Ahead
  <2>2. \/ x.stage \in {"phoneExact", "redisPhone"}
        \/ x.stage = "phoneSuffix" /\ x.phone = 1 /\ x.cursor = 0
    BY <1>1, <1>7 DEF AfterStage, At, Search
  <2> HIDE DEF x
  <2>3. 1 < i \/ (1 = i /\ 0 < stamp[a])
    BY <1>1, <2>1
  <2> QED BY <1>1, <1>2, <2>1, <2>2, <2>3 DEF Ahead
<1>8. CASE r.stage = "phoneSuffix"
  <2>1. PICK i \in 1..phones : /\ SameSuffix(s, i, a)
                               /\ r.phone < i \/ (r.phone = i /\ r.cursor < stamp[a])
    BY <1>1, <1>8 DEF Ahead
  <2>2. r.phone < i
    BY <1>8, <2>1 DEF NotHere
  <2>3. x.stage = "phoneSuffix" /\ x.phone = r.phone + 1 /\ x.cursor = 0
    BY <1>1, <1>8, <2>1, <2>2 DEF AfterStage, At, Search
  <2> HIDE DEF x
  <2>4. x.phone < i \/ (x.phone = i /\ x.cursor < stamp[a])
    BY <1>1, <2>1, <2>2, <2>3
  <2> QED BY <1>1, <1>2, <2>1, <2>3, <2>4 DEF Ahead
<1> QED BY <1>1, <1>2, <1>3, <1>4, <1>5, <1>6, <1>7, <1>8 DEF Stages

\* What the next stage is like.
LEMMA NextStageIs ==
  ASSUME Typed, NEW s \in Stream, start[s].pc \in Running
  PROVE  /\ AfterStage(s, start[s]).proc = start[s].proc
         /\ AfterStage(s, start[s]).pc \in {"lookup", "rejected", "bypassed"}
         /\ AfterStage(s, start[s]).pc = "lookup" <=> start[s].stage # "exhausted"
<1> DEFINE r == start[s]
<1>1. r.stage \in Stages
  BY DEF Typed, TypeOK, StartRecord
<1>2. \A pc, st, i, c : /\ At(r, pc, st, i, c).proc = r.proc
                        /\ At(r, pc, st, i, c).pc = pc
  BY DEF At, Search
<1>3. \/ \E st, i, c : AfterStage(s, r) = At(r, "lookup", st, i, c) /\ r.stage # "exhausted"
      \/ /\ \E pc \in {"rejected", "bypassed"} : \E st, i, c :
              AfterStage(s, r) = At(r, pc, st, i, c)
         /\ r.stage = "exhausted"
  BY <1>1 DEF AfterStage, Stages
<1> QED BY <1>2, <1>3

\* A search goes to the next stage when this one holds nothing that is left.
LEMMA NextStageFine ==
  ASSUME SearchInv, Onward, NEW s \in Stream, start[s].pc \in {"lookup", "check"},
         eligible'[s] = eligible[s], start'[s] = AfterStage(s, start[s]),
         \A a \in LeftFor(s) : NotHere(s, start[s], a)
  PROVE  SearchFine(s)'
<1> USE DEF SearchInv
<1> DEFINE x == AfterStage(s, start[s])
<1>1. start[s].pc \in Running
  BY DEF Running
<1>2. /\ x.proc = start[s].proc /\ x.pc \in {"lookup", "rejected", "bypassed"}
      /\ x.pc = "lookup" <=> start[s].stage # "exhausted"
  BY <1>1, NextStageIs
<1>3. \A a \in LeftFor(s) : start[s].stage # "exhausted" /\ Ahead(s, x, a)
  BY <1>1, NextStageAhead DEF SearchFine, LeftFor
<1>4. x.pc = "rejected" => LeftFor(s) = {}
  BY <1>2, <1>3
<1> HIDE DEF x
<1>5. start'[s] = x
  BY DEF x
<1> QED BY <1>1, <1>2, <1>3, <1>4, <1>5, MovedIsFine

\* The search looks for its next candidate.
LEMMA LookupFine ==
  ASSUME SearchInv, Onward, NEW s \in Stream, Lookup(s)
  PROVE  SearchFine(s)'
<1> USE DEF SearchInv
<1> DEFINE r == start[s]
<1>0. /\ r \in StartRecord /\ r.pc = "lookup" /\ r.proc \in Process
      /\ eligible' = eligible /\ pending' = pending /\ stamp' = stamp
  BY DEF Lookup, Typed, TypeOK, SearchOK, issueVars, localVars
<1>1. \A b \in LeftFor(s) : /\ b \in pending[r.proc] /\ Consumable(b) /\ b \in Auth
                            /\ stamp[b] \in Nat
  BY <1>0 DEF LeftFor, Typed, TypeOK
<1>2. ASSUME r.stage = "phoneSuffix", NEW b \in LeftFor(s),
             SameSuffix(s, r.phone, b), r.cursor < stamp[b]
      PROVE  /\ Candidate(s, r) # {}
             /\ \A a \in Candidate(s, r) : stamp[a] <= stamp[b]
  <2>1. Candidate(s, r) = SuffixMatch(r.proc, StreamPhones[s][r.phone], r.cursor)
    BY <1>2 DEF Candidate
  <2>2. r.cursor \in Nat /\ stamp[b] > r.cursor
    BY <1>0, <1>1, <1>2 DEF StartRecord
  <2> HIDE DEF r
  <2> QED BY <1>0, <1>1, <1>2, <2>1, <2>2, ScanFinds DEF SameSuffix
<1>3. CASE Candidate(s, r) = {} /\ start' = [start EXCEPT ![s] = AfterStage(s, r)]
  <2>1. start'[s] = AfterStage(s, r)
    BY <1>3 DEF Typed, TypeOK
  <2>2. ASSUME NEW a \in LeftFor(s) PROVE NotHere(s, r, a)
    <3>1. r.stage = "authorizationId" => r.offered = None
      BY <1>3 DEF Candidate
    <3>2. r.stage = "callSid" => ByCallSid(r.proc, StreamSid[s]) = {}
      BY <1>3 DEF Candidate
    <3> QED BY <1>1, <1>2, <1>3, <3>1, <3>2, ConstantsAssumption DEF NotHere, ByCallSid
  <2> QED BY <1>0, <2>1, <2>2, NextStageFine
<1>4. ASSUME NEW a \in Candidate(s, r), NEW pc \in {"check", "get"},
             NEW source \in {"local", "shared"},
             a \in pending[r.proc] => source = "local" /\ pc = "check",
             start' = [start EXCEPT ![s] = Trying(r, pc, a, source)]
      PROVE  SearchFine(s)'
  <2>0. PICK x : x = Trying(r, pc, a, source)
    OBVIOUS
  <2>1. start'[s] = x
    BY <1>4, <2>0 DEF Typed, TypeOK
  <2>2. /\ x.pc = pc /\ x.proc = r.proc /\ x.offered = r.offered /\ x.stage = r.stage
        /\ x.phone = r.phone /\ x.cursor = r.cursor /\ x.target = a /\ x.source = source
    BY <2>0 DEF Trying
  <2>3. LeftFor(s)' \subseteq LeftFor(s) /\ eligible[s] \subseteq Registered
    <3>1. start'[s].proc = r.proc
      BY <2>1, <2>2
    <3> QED BY <1>0, <3>1, LeftShrinks DEF SearchFine
  <2>4. \A b \in LeftFor(s) : b \in Registered /\ Ahead(s, x, b)
    BY <1>0, <2>2, <2>3 DEF SearchFine, Ahead, LeftFor
  <2>5. \A b \in LeftFor(s)' : Ahead(s, x, b)'
    BY <2>3, <2>4, AheadStays
  <2>6. InHand(s, x)'
    <3>1. r.stage = "authorizationId" => a = r.offered
      BY <1>4 DEF Candidate
    <3>2. r.stage = "callSid" => SidOf[a] = StreamSid[s]
      BY <1>4 DEF Candidate, ByCallSid
    <3>3. \A b \in LeftFor(s)' : b \in LeftFor(s)
      BY <2>3
    <3> QED BY <1>0, <1>2, <1>4, <2>2, <3>1, <3>2, <3>3 DEF InHand, SameSuffix
  <2>7. eligible'[s] \subseteq Registered'
    BY <1>0, <2>3 DEF Onward
  <2> QED BY <1>4, <2>1, <2>2, <2>5, <2>6, <2>7 DEF SearchFine
<1>5. CASE Candidate(s, r) # {}
  <2>1. PICK a \in Candidate(s, r) :
          start' = [start EXCEPT ![s] =
            Trying(r, IF HeldLocally(r.proc, a) \/ ~UseRedis THEN "check" ELSE "get",
                   a, IF HeldLocally(r.proc, a) THEN "local" ELSE "shared")]
    BY <1>5 DEF Lookup
  <2> HIDE DEF r
  <2>2. CASE HeldLocally(r.proc, a)
    BY <1>4, <2>1, <2>2
  <2>3. CASE ~HeldLocally(r.proc, a) /\ ~UseRedis
    BY <1>4, <2>1, <2>3 DEF HeldLocally
  <2>4. CASE ~HeldLocally(r.proc, a) /\ UseRedis
    BY <1>4, <2>1, <2>4 DEF HeldLocally
  <2> QED BY <2>2, <2>3, <2>4
<1> QED BY <1>3, <1>5 DEF Lookup
\* A candidate that could not be granted is not one of those left, and nothing
\* else of its stage is passed over.
LEMMA CheckFine ==
  ASSUME DistinctSids, SearchInv, Onward, NEW s \in Stream, Check(s)
  PROVE  SearchFine(s)'
<1> USE DEF SearchInv
<1> DEFINE r == start[s]
<1>0. /\ r \in StartRecord /\ r.pc = "check" /\ r.proc \in Process /\ r.target \in Auth
      /\ r.target \in Registered /\ eligible' = eligible
  BY ConstantsAssumption DEF Check, Typed, TypeOK, SearchOK, Known
<1>1. InHand(s, r) /\ eligible[s] \subseteq Registered
  BY <1>0 DEF SearchFine
<1>2. CASE Usable(r)
  <2>1. start' = [start EXCEPT ![s].pc = IF UseRedis THEN "markRead" ELSE "return"]
    BY <1>2 DEF Check
  <2>2. start'[s].pc = IF UseRedis THEN "markRead" ELSE "return"
    BY <2>1, CounterStep, ZenonT(60)
  <2> QED BY <1>0, <2>2, EndsFine
<1>3. CASE ~Usable(r)
  <2>1. start'[s] = AfterTry(s, r)
    BY <1>3 DEF Check, Typed, TypeOK
  <2>2. r.target \notin LeftFor(s)
    <3>1. CASE r.target \in pending[r.proc]
      BY <1>1, <1>3, <3>1 DEF InHand, Usable, LeftFor, Consumable
    <3>2. CASE r.target \notin pending[r.proc]
      BY <3>2 DEF LeftFor
    <3> QED BY <3>1, <3>2
  <2>3. \A a \in LeftFor(s) : a # r.target /\ a \in Registered /\ a \in Auth
    BY <1>1, <2>2 DEF LeftFor, Registered
  <2>4. \A a \in LeftFor(s) : Ahead(s, r, a)
    BY <1>0 DEF SearchFine
  <2>5. CASE r.stage \notin {"phoneExact", "phoneSuffix"}
    <3>1. AfterTry(s, r) = AfterStage(s, r)
      BY <2>5 DEF AfterTry
    <3>2. ASSUME NEW a \in LeftFor(s) PROVE NotHere(s, r, a)
      BY <1>0, <1>1, <2>3, <2>5 DEF NotHere, InHand, DistinctSids
    <3> QED BY <1>0, <2>1, <3>1, <3>2, NextStageFine
  <2>6. CASE r.stage \in {"phoneExact", "phoneSuffix"}
    <3>1. PICK x : x = AfterTry(s, r)
      OBVIOUS
    <3>2. /\ x.pc = "lookup" /\ x.proc = r.proc /\ x.stage = r.stage /\ x.phone = r.phone
          /\ r.stage = "phoneSuffix" => x.cursor = stamp[r.target]
      BY <2>6, <3>1 DEF AfterTry, At, Search
    <3>3. ASSUME NEW a \in LeftFor(s) PROVE Ahead(s, x, a)
      <4>1. PICK i \in DOMAIN StreamPhones[s] :
              /\ SameSuffix(s, i, a)
              /\ r.stage = "phoneSuffix" =>
                   r.phone < i \/ (r.phone = i /\ r.cursor < stamp[a])
        BY <2>4, <2>6 DEF Ahead
      <4>2. stamp[a] # stamp[r.target] /\ stamp[a] \in Nat /\ stamp[r.target] \in Nat
        BY <1>0, <2>3 DEF StampInv, Typed, TypeOK
      <4>3. r.stage = "phoneSuffix" /\ r.phone = i /\ r.cursor < stamp[a]
              => stamp[r.target] < stamp[a]
        BY <1>1, <4>1, <4>2 DEF InHand
      <4> QED BY <2>6, <3>2, <4>1, <4>3 DEF Ahead
    <3>4. start[s].pc \in Running /\ start'[s] = x
      BY <1>0, <2>1, <3>1 DEF Running
    <3> QED BY <1>0, <3>2, <3>3, <3>4, MovedIsFine
  <2> QED BY <2>5, <2>6
<1> QED BY <1>2, <1>3

\* The copy Redis answers with is of an authorization the map does not have.
LEMMA RedisGetFine ==
  ASSUME SearchInv, Onward, NEW s \in Stream, RedisGet(s)
  PROVE  SearchFine(s)'
<1> USE DEF SearchInv
<1> DEFINE r == start[s]
<1>0. /\ r \in StartRecord /\ r.pc = "get" /\ r.proc \in Process /\ r.target \in Auth
      /\ eligible' = eligible /\ pending' = pending /\ stamp' = stamp
  BY DEF RedisGet, Typed, TypeOK, SearchOK, issueVars, localVars
<1>1. InHand(s, r) /\ eligible[s] \subseteq Registered
  BY <1>0 DEF SearchFine
<1>2. PICK x : /\ start'[s] = x
               /\ x.pc = "check" /\ x.proc = r.proc /\ x.offered = r.offered
               /\ x.stage = r.stage /\ x.phone = r.phone /\ x.cursor = r.cursor
               /\ x.target = r.target
  <2>1. PICK b : start' = [start EXCEPT ![s].pc = "check", ![s].consumable = b]
    BY DEF RedisGet
  <2>2. DEFINE y == [r EXCEPT !.pc = "check"]
  <2>3. start'[s] = [y EXCEPT !.consumable = b]
    BY <2>1 DEF Typed, TypeOK
  <2>4. /\ y \in StartRecord
        /\ y.pc = "check" /\ y.proc = r.proc /\ y.offered = r.offered
        /\ y.stage = r.stage /\ y.phone = r.phone /\ y.cursor = r.cursor
        /\ y.target = r.target
    BY <1>0 DEF StartRecord, Running
  <2> HIDE DEF y
  <2>5. DEFINE z == [y EXCEPT !.consumable = b]
  <2>6. /\ z.pc = y.pc /\ z.proc = y.proc /\ z.offered = y.offered
        /\ z.stage = y.stage /\ z.phone = y.phone /\ z.cursor = y.cursor
        /\ z.target = y.target
    BY <2>4 DEF StartRecord
  <2>7. start'[s] = z
    BY <2>3
  <2> HIDE DEF z
  <2> QED BY <2>4, <2>6, <2>7
<1>3. LeftFor(s)' \subseteq LeftFor(s)
  <2>1. start'[s].proc = r.proc
    BY <1>2
  <2> QED BY <1>0, <1>1, <2>1, LeftShrinks
<1>4. \A a \in LeftFor(s) : a \in Registered /\ Ahead(s, x, a)
  BY <1>0, <1>1, <1>2 DEF SearchFine, Ahead, LeftFor
<1>5. \A a \in LeftFor(s)' : Ahead(s, x, a)'
  BY <1>3, <1>4, AheadStays
<1>6. InHand(s, x)'
  <2>1. r.target \notin pending[r.proc]
    BY <1>0, <1>1 DEF InHand
  <2>2. \A a \in LeftFor(s)' : a \in LeftFor(s)
    BY <1>3
  <2> QED BY <1>0, <1>1, <1>2, <2>1, <2>2 DEF InHand, SameSuffix
<1>7. eligible'[s] \subseteq Registered'
  BY <1>0, <1>1 DEF Onward
<1> QED BY <1>2, <1>5, <1>6, <1>7 DEF SearchFine

\* A search begins before everything that matches.
LEMMA BeginFine ==
  ASSUME SearchInv, Onward, NEW p \in Process, NEW s \in Stream, NEW o \in Offers(s),
         BeginStart(p, s, o)
  PROVE  SearchFine(s)'
<1> USE DEF SearchInv
<1>1. PICK x : x = Search(p, o, "lookup", "authorizationId", 1, 0)
  OBVIOUS
<1>2. start'[s] = x
  BY <1>1 DEF BeginStart, Typed, TypeOK
<1>3. x.pc = "lookup" /\ x.stage = "authorizationId" /\ x.offered = o
  BY <1>1 DEF Search
<1>4. eligible'[s] =
        {a \in pending[p] : Consumable(a) /\ (a = o \/ Matches(s, a))}
  BY DEF BeginStart, Typed, TypeOK
<1>5. pending[p] \subseteq Registered /\ entry' = entry
  BY DEF Known, BeginStart
<1>6. eligible'[s] \subseteq Registered'
  BY <1>4, <1>5 DEF Onward
<1>7. \A a \in eligible'[s] : Ahead(s, x, a)
  BY <1>3, <1>4 DEF Matches, Ahead, SameSuffix
<1>8. \A a \in LeftFor(s)' : Ahead(s, x, a)'
  BY <1>4, <1>5, <1>7, AheadStays DEF LeftFor
<1> QED BY <1>2, <1>3, <1>6, <1>8 DEF SearchFine

\* Every step leaves every search fine.
LEMMA SearchStep ==
  ASSUME DistinctSids, SearchInv, [Next]_vars
  PROVE  SearchInv'
<1> USE DEF SearchInv
<1>0. Typed' /\ Known' /\ StampInv' /\ Onward
  BY NextTyped, KnownStep, StampStep, OnwardStep
<1> SUFFICES ASSUME NEW s \in Stream PROVE SearchFine(s)'
  BY <1>0
<1>1. ASSUME UNCHANGED <<start, eligible>> PROVE SearchFine(s)'
  BY <1>0, <1>1, StaysFine
<1>2. ASSUME NEW p \in Process, NEW a \in Auth, NEW hasSid \in BOOLEAN,
             Register(p, a, hasSid)
      PROVE  SearchFine(s)'
  BY <1>1, <1>2 DEF Register, startVars
<1>3. ASSUME NEW p \in Process, NEW a \in Auth, NEW field \in {"sid", "callId"},
             LinkProviderCallDetails(p, a, field)
      PROVE  SearchFine(s)'
  BY <1>1, <1>3 DEF LinkProviderCallDetails, startVars
<1>4. ASSUME NEW p \in Process, DeliverSave(p) PROVE SearchFine(s)'
  BY <1>1, <1>4 DEF DeliverSave, startVars
<1>5. ASSUME NEW p \in Process, Restart(p) PROVE SearchFine(s)'
  <2>1. start'[s] = start[s] \/ start'[s] = [start[s] EXCEPT !.pc = "dropped"]
    BY <1>5 DEF Restart
  <2>2. start[s] \in StartRecord /\ eligible' = eligible
    BY <1>5 DEF Typed, TypeOK, Restart
  <2>3. [start[s] EXCEPT !.pc = "dropped"].pc = "dropped"
    BY <2>2 DEF StartRecord
  <2> QED BY <1>0, <2>1, <2>2, <2>3, StaysFine, EndsFine
<1>6. ASSUME NEW a \in Auth, Expire(a) PROVE SearchFine(s)'
  BY <1>1, <1>6 DEF Expire, startVars
<1>7. ASSUME NEW p \in Process, NEW t \in Stream, ResolveStreamUrl(p, t)
      PROVE  SearchFine(s)'
  BY <1>1, <1>7 DEF ResolveStreamUrl, startVars
<1>8. ASSUME NEW p \in Process, NEW t \in Stream, NEW o \in Offers(t), BeginStart(p, t, o)
      PROVE  SearchFine(s)'
  <2>1. t # s => start'[s] = start[s] /\ eligible'[s] = eligible[s]
    BY <1>8 DEF BeginStart, Typed, TypeOK
  <2>2. CASE t # s
    BY <1>0, <2>1, <2>2, StaysFine
  <2>3. CASE t = s
    BY <1>0, <1>8, <2>3, BeginFine
  <2> QED BY <2>2, <2>3
<1>9. ASSUME NEW t \in Stream,
             \/ Lookup(t) \/ RedisGet(t) \/ Check(t) \/ MarkRead(t) \/ MarkWrite(t)
             \/ Return(t) \/ RedisError(t)
      PROVE  SearchFine(s)'
  <2>1. eligible' = eligible /\ (t # s => start'[s] = start[s])
    BY <1>9 DEF Lookup, RedisGet, Check, MarkRead, MarkWrite, Return, RedisError, Typed,
                TypeOK
  <2>2. CASE t # s
    BY <1>0, <2>1, <2>2, StaysFine
  <2>3. CASE t = s /\ (Lookup(s) \/ RedisGet(s) \/ Check(s))
    BY <1>0, <2>3, LookupFine, RedisGetFine, CheckFine
  <2>4. CASE t = s /\ (MarkRead(s) \/ MarkWrite(s) \/ Return(s) \/ RedisError(s))
    <3>1. PICK pc \in {"markWrite", "return", "granted", "failed"} :
            start' = [start EXCEPT ![s].pc = pc]
      BY <2>4 DEF MarkRead, MarkWrite, Return, RedisError
    <3>2. start'[s].pc = pc
      BY <3>1, CounterStep
    <3> QED BY <1>0, <2>1, <3>2, EndsFine
  <2> QED BY <1>9, <2>2, <2>3, <2>4
<1>10. CASE UNCHANGED vars
  BY <1>1, <1>10 DEF vars, startVars
<1> QED BY <1>2, <1>3, <1>4, <1>5, <1>6, <1>7, <1>8, <1>9, <1>10 DEF Next

\* A stream is only turned away when no authorization that matched as its start
\* arrived is still unused in its process, whatever the other handlers do to the
\* maps between the awaits of authorizeStart (registrations, links, evictions,
\* restarts, other starts), for any number of processes, calls and streams.
THEOREM NothingIsLeftBehind == ASSUME DistinctSids PROVE Spec => []NothingLeftBehind
<1>1. Init => SearchInv
  BY InitSearchInv
<1>2. SearchInv /\ [Next]_vars => SearchInv'
  BY SearchStep
<1>3. SearchInv => NothingLeftBehind
  BY DEF SearchInv, SearchFine, LeftFor, NothingLeftBehind
<1> QED BY <1>1, <1>2, <1>3, PTL DEF Spec
-----------------------------------------------------------------------------
(* OwnCallOnly, for any number of processes, restarts and evictions.       *)

\* Something in the start of stream s speaks for authorization a.
Names(s, a) ==
  \/ StreamSid[s] = SidOf[a]
  \/ \E i \in DOMAIN StreamPhones[s] :
       StreamPhones[s][i] = PhoneOf[a] \/ SameSuffix(s, i, a)

\* No two customers share a number, no stream shows the number of a customer it
\* is not of, and a SID is of one call.
CallsToldApart ==
  /\ \A s \in Stream, a \in Auth : Names(s, a) => CallOf[s] = a
  /\ \A s, t \in Stream :
       StreamSid[s] # None /\ StreamSid[s] = StreamSid[t] => CallOf[s] = CallOf[t]

Own(s, x) == x \in {None, CallOf[s]}

\* The lists of Redis hold calls to their number; the url, the reservation and
\* the search of a stream hold its own call or none.
OwnInv ==
  /\ Typed
  /\ \A n \in Phone : redisPhone[n] \in Seq({a \in Auth : PhoneOf[a] = n})
  /\ \A s \in Stream :
       /\ Own(s, hint[s]) /\ Own(s, took[s])
       /\ Own(s, start[s].offered) /\ Own(s, start[s].target)
       /\ StreamSid[s] # None => \A p \in Process : Own(s, reservation[p][StreamSid[s]])

\* At the start nothing is held.
LEMMA InitOwnInv == Init => OwnInv
BY InitTyped, EmptySeq, ConstantsAssumption DEF Init, OwnInv, Own, Idle, Search

\* The entries of the lists of Redis are calls to their number.
LEMMA SharedByPhoneNames ==
  ASSUME OwnInv, NEW n \in Phone
  PROVE  SharedByPhone(n) \subseteq {a \in Auth : PhoneOf[a] = n}
BY ElementOfSeq DEF SharedByPhone, OwnInv

\* Every stage only offers the call of the stream.
LEMMA CandidateIsOwn ==
  ASSUME CallsToldApart, OwnInv, NEW s \in Stream, start[s].pc = "lookup"
  PROVE  \A a \in Candidate(s, start[s]) : a = CallOf[s]
<1> DEFINE r == start[s]
           number == StreamPhones[s][r.phone]
<1>1. /\ r \in StartRecord /\ r.proc \in Process /\ pending[r.proc] \subseteq Auth
      /\ Own(s, r.offered)
  BY DEF OwnInv, Typed, TypeOK, SearchOK
<1>2. r.stage \in {"phoneExact", "redisPhone", "phoneSuffix"}
        => r.phone \in DOMAIN StreamPhones[s] /\ number \in Phone
  BY ConstantsAssumption, ElementOfSeq DEF OwnInv, Typed, SearchOK
<1>3. \A a \in Auth : Names(s, a) => a = CallOf[s]
  BY DEF CallsToldApart
<1>4. r.stage = "authorizationId" => \A a \in Candidate(s, r) : a = CallOf[s]
  BY <1>1 DEF Candidate, Own
<1>5. r.stage = "reservation" => \A a \in Candidate(s, r) : a = CallOf[s]
  BY <1>1 DEF Candidate, OwnInv, Own
<1>6. r.stage = "callSid" => \A a \in Candidate(s, r) : a = CallOf[s]
  BY <1>1, <1>3 DEF Candidate, ByCallSid, Names
<1>7. r.stage = "redisCallSid" => \A a \in Candidate(s, r) : a = CallOf[s]
  BY <1>3 DEF Candidate, SharedByCallSid, Names
<1>8. r.stage = "phoneExact" => \A a \in Candidate(s, r) : a = CallOf[s]
  BY <1>1, <1>2, <1>3 DEF Candidate, AtIndex, ByPhone, Names
<1>9. r.stage = "redisPhone" => \A a \in Candidate(s, r) : a = CallOf[s]
  BY <1>2, <1>3, SharedByPhoneNames DEF Candidate, Names
<1>10. r.stage = "phoneSuffix" => \A a \in Candidate(s, r) : a = CallOf[s]
  BY <1>1, <1>2, <1>3 DEF Candidate, SuffixMatch, Names, SameSuffix
<1>11. r.stage = "exhausted" => \A a \in Candidate(s, r) : a = CallOf[s]
  BY DEF Candidate
<1> QED BY <1>1, <1>4, <1>5, <1>6, <1>7, <1>8, <1>9, <1>10, <1>11
        DEF StartRecord, Stages

\* So does the resolver of the stream url.
LEMMA FirstPendingIsOwn ==
  ASSUME CallsToldApart, OwnInv, NEW p \in Process, NEW s \in Stream
  PROVE  \A a \in FirstPending(p, s) : a = CallOf[s]
<1>1. \A a \in Auth : Names(s, a) => a = CallOf[s]
  BY DEF CallsToldApart
<1>2. \A i \in DOMAIN StreamPhones[s] : StreamPhones[s][i] \in Phone
  BY ConstantsAssumption, ElementOfSeq
<1>3. \A b \in ByCallSid(p, StreamSid[s]) : b = CallOf[s]
  BY <1>1 DEF ByCallSid, Names, OwnInv, Typed, TypeOK
<1>4. \A b \in SharedByCallSid(s) : b = CallOf[s]
  BY <1>1 DEF SharedByCallSid, Names
<1>5. \A i \in DOMAIN StreamPhones[s] : \A b \in ByPhone(p, StreamPhones[s][i]) :
        b = CallOf[s]
  BY <1>1 DEF ByPhone, Names, OwnInv, Typed, TypeOK
<1>6. \A i \in DOMAIN StreamPhones[s] : \A b \in SharedByPhone(StreamPhones[s][i]) :
        b = CallOf[s]
  BY <1>1, <1>2, SharedByPhoneNames DEF Names
<1> DEFINE phones == StreamPhones[s]
           newest(n) == LET S == {a \in ByPhone(p, n) : Consumable(a)}
                        IN  {a \in S : \A b \in S : stamp[b] <= stamp[a]}
           bySid == {<<1, a>> : a \in {b \in ByCallSid(p, StreamSid[s]) :
                                         s \in ExactCase /\ Consumable(b)}}
           bySharedSid == {<<2, a>> : a \in {b \in SharedByCallSid(s) :
                                               SharedConsumable(b)}}
           byPhone(i) == {<<3 + 2 * (Len(phones) - i), a>> : a \in newest(phones[i])}
           bySharedPhone(i) == {<<4 + 2 * (Len(phones) - i), a>> :
                                  a \in SharedByPhone(phones[i])}
           ranked == bySid \cup bySharedSid
                     \cup UNION {byPhone(i) \cup bySharedPhone(i) : i \in DOMAIN phones}
<1>7. FirstPending(p, s) =
        {x[2] : x \in {y \in ranked : \A z \in ranked : y[1] <= z[1]}}
  BY DEF FirstPending
<1>8. \A x \in bySid : x[2] = CallOf[s]
  BY <1>3
<1>9. \A x \in bySharedSid : x[2] = CallOf[s]
  BY <1>4
<1>10. ASSUME NEW i \in DOMAIN phones, NEW x \in byPhone(i) PROVE x[2] = CallOf[s]
  <2>1. PICK a \in newest(phones[i]) : x = <<3 + 2 * (Len(phones) - i), a>>
    OBVIOUS
  <2>2. a \in ByPhone(p, phones[i])
    OBVIOUS
  <2>3. x[2] = a
    BY <2>1
  <2> QED BY <1>5, <2>2, <2>3
<1>11. ASSUME NEW i \in DOMAIN phones, NEW x \in bySharedPhone(i) PROVE x[2] = CallOf[s]
  <2>1. PICK a \in SharedByPhone(phones[i]) : x = <<4 + 2 * (Len(phones) - i), a>>
    OBVIOUS
  <2>2. x[2] = a
    BY <2>1
  <2> QED BY <1>6, <2>2
<1> HIDE DEF bySid, bySharedSid, byPhone, bySharedPhone
<1>12. \A x \in ranked : x[2] = CallOf[s]
  BY <1>8, <1>9, <1>10, <1>11
<1> HIDE DEF ranked
<1> QED BY <1>7, <1>12

\* What is stored goes to the list of its number.
LEMMA StoreKeepsLists ==
  ASSUME OwnInv, NEW a \in Auth, NEW hasSid, NEW consumed, Store(a, hasSid, consumed)
  PROVE  \A n \in Phone : redisPhone'[n] \in Seq({b \in Auth : PhoneOf[b] = n})
<1> SUFFICES ASSUME NEW n \in Phone
             PROVE  redisPhone'[n] \in Seq({b \in Auth : PhoneOf[b] = n})
  OBVIOUS
<1> DEFINE T == {b \in Auth : PhoneOf[b] = n}
<1>1. redisPhone' = [redisPhone EXCEPT ![PhoneOf[a]] = <<a>> \o redisPhone[PhoneOf[a]]]
  BY DEF Store
<1>2. redisPhone \in [Phone -> Seq(Auth)] /\ redisPhone[n] \in Seq(T)
  BY DEF OwnInv, Typed, TypeOK
<1>3. CASE PhoneOf[a] = n
  <2>1. a \in T
    BY <1>3
  <2> HIDE DEF T
  <2>2. <<a>> \o redisPhone[n] \in Seq(T)
    BY <1>2, <2>1, ConcatProperties
  <2>3. redisPhone'[n] = <<a>> \o redisPhone[n]
    BY <1>1, <1>2, <1>3
  <2>4. redisPhone'[n] \in Seq(T)
    BY <2>2, <2>3
  <2> QED BY <2>4 DEF T
<1>4. CASE PhoneOf[a] # n
  BY <1>1, <1>2, <1>4
<1> QED BY <1>3, <1>4

\* Every step keeps every stream to its own call.
LEMMA OwnStep ==
  ASSUME CallsToldApart, OwnInv, [Next]_vars
  PROVE  OwnInv'
<1>0. Typed /\ Typed' /\ start \in [Stream -> StartRecord]
  BY NextTyped DEF OwnInv, Typed, TypeOK
<1> DEFINE Lists == \A n \in Phone : redisPhone'[n] \in Seq({a \in Auth : PhoneOf[a] = n})
           Starts == \A s \in Stream : /\ Own(s, start'[s].offered)
                                       /\ Own(s, start'[s].target)
           Urls == \A s \in Stream :
                     /\ Own(s, hint'[s])
                     /\ StreamSid[s] # None =>
                          \A p \in Process : Own(s, reservation'[p][StreamSid[s]])
           Takes == \A s \in Stream : Own(s, took'[s])
<1>1. Lists /\ Starts /\ Urls /\ Takes => OwnInv'
  BY <1>0 DEF OwnInv, Own
<1>2. UNCHANGED redisPhone => Lists
  BY DEF OwnInv
<1>3. UNCHANGED <<hint, reservation>> => Urls
  BY DEF OwnInv
<1>4. UNCHANGED took => Takes
  BY DEF OwnInv
<1>5. UNCHANGED start => Starts
  BY DEF OwnInv
<1>6. ASSUME NEW s \in Stream, \A t \in Stream : t # s => start'[t] = start[t],
             Own(s, start'[s].offered), Own(s, start'[s].target)
      PROVE  Starts
  BY <1>6 DEF OwnInv
<1>7. ASSUME NEW s \in Stream, NEW pc, start' = [start EXCEPT ![s].pc = pc]
      PROVE  Starts
  <2>1. start[s] \in StartRecord /\ start'[s] = [start[s] EXCEPT !.pc = pc]
    BY <1>0, <1>7
  <2>2. /\ [start[s] EXCEPT !.pc = pc].offered = start[s].offered
        /\ [start[s] EXCEPT !.pc = pc].target = start[s].target
    BY <2>1 DEF StartRecord
  <2>3. \A t \in Stream : t # s => start'[t] = start[t]
    BY <1>0, <1>7
  <2> QED BY <1>6, <2>1, <2>2, <2>3 DEF OwnInv
<1>8. ASSUME NEW a \in Auth, NEW hasSid, NEW consumed, Store(a, hasSid, consumed)
      PROVE  Lists
  BY <1>8, StoreKeepsLists
<1> HIDE DEF Lists, Starts, Urls, Takes
<1>9. ASSUME NEW p \in Process, NEW a \in Auth, NEW hasSid \in BOOLEAN,
             Register(p, a, hasSid)
      PROVE  OwnInv'
  BY <1>1, <1>2, <1>3, <1>4, <1>5, <1>9 DEF Register, redisVars, startVars
<1>10. ASSUME NEW p \in Process, NEW a \in Auth, NEW field \in {"sid", "callId"},
              LinkProviderCallDetails(p, a, field)
       PROVE  OwnInv'
  BY <1>1, <1>2, <1>3, <1>4, <1>5, <1>10 DEF LinkProviderCallDetails, redisVars, startVars
<1>11. ASSUME NEW p \in Process, DeliverSave(p) PROVE OwnInv'
  <2> DEFINE M == [id : Auth, sid : BOOLEAN, consumed : BOOLEAN]
  <2>1. outbox[p] \in Seq(M) /\ outbox[p] # <<>>
    BY <1>0, <1>11 DEF DeliverSave, Typed, TypeOK
  <2>2. \A m \in M : m.id \in Auth
    OBVIOUS
  <2>3. \/ Store(Head(outbox[p]).id, Head(outbox[p]).sid, Head(outbox[p]).consumed)
        \/ UNCHANGED redisVars
    BY <1>11 DEF DeliverSave
  <2> HIDE DEF M
  <2>4. Head(outbox[p]).id \in Auth
    BY <2>1, <2>2, HeadTailProperties
  <2>5. Lists
    BY <1>2, <1>8, <2>3, <2>4 DEF redisVars
  <2> QED BY <1>1, <1>3, <1>4, <1>5, <1>11, <2>5 DEF DeliverSave, localVars, startVars
<1>12. ASSUME NEW p \in Process, Restart(p) PROVE OwnInv'
  <2>1. Urls
    <3>1. reservation' = [reservation EXCEPT ![p] = [d \in Sid |-> None]] /\ hint' = hint
      BY <1>12 DEF Restart
    <3> QED BY <1>0, <3>1, ConstantsAssumption DEF Urls, OwnInv, Own, Typed, TypeOK
  <2>2. ASSUME NEW s \in Stream
        PROVE  start'[s].offered = start[s].offered /\ start'[s].target = start[s].target
    <3>1. start'[s] = start[s] \/ start'[s] = [start[s] EXCEPT !.pc = "dropped"]
      BY <1>12 DEF Restart
    <3>2. start[s] \in StartRecord
      BY <1>0
    <3>3. /\ [start[s] EXCEPT !.pc = "dropped"].offered = start[s].offered
          /\ [start[s] EXCEPT !.pc = "dropped"].target = start[s].target
      BY <3>2 DEF StartRecord
    <3> QED BY <3>1, <3>3
  <2>3. Starts
    BY <2>2 DEF Starts, OwnInv
  <2> QED BY <1>1, <1>2, <1>4, <1>12, <2>1, <2>3 DEF Restart, redisVars
<1>13. ASSUME NEW a \in Auth, Expire(a) PROVE OwnInv'
  BY <1>1, <1>2, <1>3, <1>4, <1>5, <1>13 DEF Expire, localVars, redisVars, startVars
<1>14. ASSUME NEW p \in Process, NEW s \in Stream, ResolveStreamUrl(p, s) PROVE OwnInv'
  <2>1. PICK a \in FirstPending(p, s) :
          /\ hint' = [hint EXCEPT ![s] = a]
          /\ reservation' = IF StreamSid[s] = None THEN reservation
                            ELSE [reservation EXCEPT ![p][StreamSid[s]] = a]
    BY <1>14 DEF ResolveStreamUrl
  <2>2. a = CallOf[s]
    BY <2>1, FirstPendingIsOwn
  <2>3. ASSUME NEW t \in Stream PROVE Own(t, hint'[t])
    BY <1>0, <2>1, <2>2 DEF OwnInv, Own, Typed, TypeOK
  <2>4. ASSUME NEW t \in Stream, StreamSid[t] # None, NEW q \in Process
        PROVE  Own(t, reservation'[q][StreamSid[t]])
    <3>0. StreamSid[t] \in Sid /\ Own(t, reservation[q][StreamSid[t]])
      BY <2>4, ConstantsAssumption DEF OwnInv
    <3>1. CASE StreamSid[s] = None
      BY <2>1, <3>0, <3>1
    <3>2. CASE StreamSid[s] # None /\ StreamSid[s] = StreamSid[t]
      <4>1. a = CallOf[t]
        BY <2>2, <3>2 DEF CallsToldApart
      <4>2. \/ reservation'[q][StreamSid[t]] = a
            \/ reservation'[q][StreamSid[t]] = reservation[q][StreamSid[t]]
        BY <1>0, <2>1, <3>0, <3>2 DEF Typed, TypeOK
      <4> QED BY <3>0, <4>1, <4>2 DEF Own
    <3>3. CASE StreamSid[s] # None /\ StreamSid[s] # StreamSid[t]
      <4>1. StreamSid[s] \in Sid
        BY <3>3, ConstantsAssumption
      <4>2. reservation'[q][StreamSid[t]] = reservation[q][StreamSid[t]]
        BY <1>0, <2>1, <3>0, <3>3, <4>1 DEF Typed, TypeOK
      <4> QED BY <3>0, <4>2
    <3> QED BY <3>1, <3>2, <3>3
  <2>5. Urls
    BY <2>3, <2>4 DEF Urls
  <2> QED BY <1>1, <1>2, <1>4, <1>5, <1>14, <2>5 DEF ResolveStreamUrl, redisVars, startVars
<1>15. ASSUME NEW p \in Process, NEW s \in Stream, NEW o \in Offers(s), BeginStart(p, s, o)
       PROVE  OwnInv'
  <2>1. start' = [start EXCEPT ![s] = Search(p, o, "lookup", "authorizationId", 1, 0)]
    BY <1>15 DEF BeginStart
  <2>2. start'[s].offered = o /\ start'[s].target = None
    BY <1>0, <2>1 DEF Search
  <2>3. Own(s, o)
    BY DEF Offers, OwnInv, Own
  <2>4. \A t \in Stream : t # s => start'[t] = start[t]
    BY <1>0, <2>1
  <2>5. Starts
    BY <1>6, <2>2, <2>3, <2>4 DEF Own
  <2> QED BY <1>1, <1>2, <1>3, <1>4, <1>15, <2>5 DEF BeginStart, redisVars
<1>16. ASSUME NEW s \in Stream, Lookup(s) PROVE OwnInv'
  <2>1. start[s].pc \in Running /\ start[s].pc = "lookup"
    BY <1>16 DEF Lookup, Running
  <2>2. Own(s, start'[s].offered) /\ Own(s, start'[s].target)
    <3>1. CASE start' = [start EXCEPT ![s] = AfterStage(s, start[s])]
      <4>1. start'[s] = AfterStage(s, start[s])
        BY <1>0, <3>1
      <4>2. start'[s].offered = start[s].offered /\ start'[s].target = None
        BY <1>0, <2>1, <4>1, AfterKeeps
      <4> QED BY <4>2 DEF Own, OwnInv
    <3>2. ASSUME NEW a \in Candidate(s, start[s]), NEW pc, NEW source,
                 start' = [start EXCEPT ![s] = Trying(start[s], pc, a, source)]
          PROVE  Own(s, start'[s].offered) /\ Own(s, start'[s].target)
      <4>1. a = CallOf[s]
        BY <2>1, CandidateIsOwn
      <4>2. start'[s].offered = start[s].offered /\ start'[s].target = a
        BY <1>0, <3>2 DEF Trying
      <4> QED BY <4>1, <4>2 DEF Own, OwnInv
    <3> QED BY <1>16, <3>1, <3>2 DEF Lookup
  <2>3. \A t \in Stream : t # s => start'[t] = start[t]
    BY <1>0, <1>16 DEF Lookup
  <2>4. Starts
    BY <1>6, <2>2, <2>3
  <2> QED BY <1>1, <1>2, <1>3, <1>4, <1>16, <2>4 DEF Lookup, localVars, redisVars
<1>17. ASSUME NEW s \in Stream, Check(s) PROVE OwnInv'
  <2>1. Takes
    <3>1. took' = took \/ took' = [took EXCEPT ![s] = start[s].target]
      BY <1>17 DEF Check
    <3> QED BY <1>0, <3>1 DEF Takes, OwnInv, Typed, TypeOK
  <2>2. Starts
    <3>1. CASE Usable(start[s])
      <4>1. PICK pc : start' = [start EXCEPT ![s].pc = pc]
        BY <1>17, <3>1 DEF Check
      <4> QED BY <1>7, <4>1
    <3>2. CASE ~Usable(start[s])
      <4>1. start' = [start EXCEPT ![s] = AfterTry(s, start[s])] /\ start[s].pc \in Running
        BY <1>17, <3>2 DEF Check, Running
      <4>2. start'[s].offered = start[s].offered /\ start'[s].target = None
        BY <1>0, <4>1, AfterKeeps
      <4>3. \A t \in Stream : t # s => start'[t] = start[t]
        BY <1>0, <4>1
      <4> QED BY <1>6, <4>2, <4>3 DEF Own, OwnInv
    <3> QED BY <3>1, <3>2
  <2> QED BY <1>1, <1>2, <1>3, <1>17, <2>1, <2>2 DEF Check, redisVars
<1>18. ASSUME NEW s \in Stream, RedisGet(s) PROVE OwnInv'
  <2>1. PICK b : start' = [start EXCEPT ![s].pc = "check", ![s].consumable = b]
    BY <1>18 DEF RedisGet
  <2>2. DEFINE y == [start[s] EXCEPT !.pc = "check"]
  <2>3. start[s] \in StartRecord /\ start'[s] = [y EXCEPT !.consumable = b]
    BY <1>0, <2>1
  <2>4. /\ y.offered = start[s].offered /\ y.target = start[s].target
        /\ [y EXCEPT !.consumable = b].offered = y.offered
        /\ [y EXCEPT !.consumable = b].target = y.target
    BY <2>3 DEF StartRecord
  <2> HIDE DEF y
  <2>5. \A t \in Stream : t # s => start'[t] = start[t]
    BY <1>0, <2>1
  <2>6. Starts
    BY <1>6, <2>3, <2>4, <2>5 DEF OwnInv
  <2> QED BY <1>1, <1>2, <1>3, <1>4, <1>18, <2>6 DEF RedisGet, localVars, redisVars
<1>19. ASSUME NEW s \in Stream, MarkRead(s) \/ MarkWrite(s) PROVE OwnInv'
  <2>1. PICK pc : start' = [start EXCEPT ![s].pc = pc]
    BY <1>19 DEF MarkRead, MarkWrite
  <2>2. Lists
    <3>1. MarkWrite(s) => start[s].target \in Auth
      BY <1>0 DEF MarkWrite, Typed, SearchOK
    <3> QED BY <1>2, <1>8, <1>19, <3>1 DEF MarkRead, MarkWrite, redisVars
  <2>3. Starts
    BY <1>7, <2>1
  <2> QED BY <1>1, <1>3, <1>4, <1>19, <2>2, <2>3 DEF MarkRead, MarkWrite, localVars
<1>20. ASSUME NEW s \in Stream, Return(s) PROVE OwnInv'
  <2>1. Starts
    BY <1>7, <1>20 DEF Return
  <2>2. Urls
    <3>1. /\ hint' = hint
          /\ \/ reservation' = reservation
             \/ reservation' = [reservation EXCEPT ![start[s].proc][StreamSid[s]] = None]
      BY <1>20 DEF Return
    <3>2. ASSUME NEW t \in Stream, StreamSid[t] # None, NEW q \in Process
          PROVE  Own(t, reservation'[q][StreamSid[t]])
      <4>1. StreamSid[t] \in Sid /\ Own(t, reservation[q][StreamSid[t]])
        BY <3>2, ConstantsAssumption DEF OwnInv
      <4>2. \/ reservation'[q][StreamSid[t]] = None
            \/ reservation'[q][StreamSid[t]] = reservation[q][StreamSid[t]]
        <5>1. reservation \in [Process -> [Sid -> Auth \cup {None}]]
          BY <1>0 DEF Typed, TypeOK
        <5>2. \/ reservation'[q] = reservation[q]
              \/ reservation'[q] = [reservation[q] EXCEPT ![StreamSid[s]] = None]
          BY <3>1, <5>1
        <5> QED BY <4>1, <5>1, <5>2
      <4> QED BY <4>1, <4>2 DEF Own
    <3> QED BY <3>1, <3>2 DEF Urls, OwnInv
  <2> QED BY <1>1, <1>2, <1>4, <1>20, <2>1, <2>2 DEF Return, redisVars
<1>21. ASSUME NEW s \in Stream, RedisError(s) PROVE OwnInv'
  <2>1. Starts
    BY <1>7, <1>21 DEF RedisError
  <2> QED BY <1>1, <1>2, <1>3, <1>4, <1>21, <2>1 DEF RedisError, localVars, redisVars
<1>22. CASE UNCHANGED vars
  BY <1>1, <1>2, <1>3, <1>4, <1>5, <1>22 DEF vars, localVars, redisVars, startVars
<1> QED BY <1>9, <1>10, <1>11, <1>12, <1>13, <1>14, <1>15, <1>16, <1>17, <1>18, <1>19,
           <1>20, <1>21, <1>22 DEF Next

\* Where customers can be told apart, a stream takes the authorization of its own
\* call or none, and a stream of no call takes none, whatever is registered,
\* evicted, restarted or read from Redis while its search falls through from the
\* id to the last digits of a number.
THEOREM StreamsTakeTheirOwn == ASSUME CallsToldApart PROVE Spec => []OwnCallOnly
<1>1. Init => OwnInv
  BY InitOwnInv
<1>2. OwnInv /\ [Next]_vars => OwnInv'
  BY OwnStep
<1>3. OwnInv => OwnCallOnly
  BY DEF OwnInv, OwnCallOnly, Own
<1> QED BY <1>1, <1>2, <1>3, PTL DEF Spec
=============================================================================
