---------------------- MODULE CallAuthorization_proofs ----------------------
(* The types of the variables of CallAuthorization, proved with TLAPS for  *)
(* every value of the constants.                                           *)
EXTENDS CallAuthorization, FiniteSetTheorems, SequenceTheorems, TLAPS

\* What the program counter of a start says about the rest of its record.
SearchOK ==
  \A s \in Stream :
    LET r == start[s]
    IN  /\ r.pc # "idle" => r.proc \in Process
        /\ r.pc \in {"get", "check", "markRead", "markWrite", "return"}
             => r.target \in Auth
        /\ r.stage \in {"phoneExact", "redisPhone", "phoneSuffix"}
             => r.phone \in DOMAIN StreamPhones[s]

Typed == TypeOK /\ SearchOK

\* Initially nothing was registered, sent or searched.
LEMMA InitTyped == Init => Typed
<1> SUFFICES ASSUME Init PROVE Typed
  OBVIOUS
<1>1. Idle \in StartRecord
  BY DEF Idle, Search, StartRecord, Stages
<1>2. TypeOK
  BY <1>1, ConstantsAssumption, EmptySeq DEF Init, TypeOK
<1>3. SearchOK
  BY DEF Init, SearchOK, Idle, Search
<1> QED BY <1>2, <1>3 DEF Typed

-----------------------------------------------------------------------------
(* Helpers.                                                                *)

\* A candidate is an authorization.
LEMMA CandidateIsAuth ==
  ASSUME Typed, NEW s \in Stream, start[s].pc = "lookup"
  PROVE  Candidate(s, start[s]) \subseteq Auth
<1> DEFINE r == start[s]
<1>1. r \in StartRecord /\ r.proc \in Process
  BY DEF Typed, TypeOK, SearchOK
<1>2. r.stage \in {"phoneExact", "redisPhone", "phoneSuffix"}
        => StreamPhones[s][r.phone] \in Phone
  BY ConstantsAssumption, ElementOfSeq DEF Typed, SearchOK
<1>3. \A n \in Phone : SharedByPhone(n) \subseteq Auth
  BY DEF SharedByPhone, Typed, TypeOK
<1>4. r.stage = "authorizationId" => Candidate(s, r) \subseteq Auth
  BY <1>1 DEF Candidate, StartRecord
<1>5. r.stage = "reservation" => Candidate(s, r) \subseteq Auth
  BY <1>1, ConstantsAssumption DEF Candidate, Typed, TypeOK
<1>6. r.stage = "callSid" => Candidate(s, r) \subseteq Auth
  BY <1>1 DEF Candidate, ByCallSid, Typed, TypeOK
<1>7. r.stage = "redisCallSid" => Candidate(s, r) \subseteq Auth
  BY <1>1 DEF Candidate, SharedByCallSid
<1>8. r.stage = "phoneExact" => Candidate(s, r) \subseteq Auth
  BY <1>1, <1>2 DEF Candidate, AtIndex, ByPhone, Typed, TypeOK
<1>9. r.stage = "redisPhone" => Candidate(s, r) \subseteq Auth
  BY <1>1, <1>2, <1>3 DEF Candidate
<1>10. r.stage = "phoneSuffix" => Candidate(s, r) \subseteq Auth
  BY <1>1, <1>2 DEF Candidate, SuffixMatch, Typed, TypeOK
<1>11. r.stage = "exhausted" => Candidate(s, r) \subseteq Auth
  BY DEF Candidate
<1> QED BY <1>1, <1>4, <1>5, <1>6, <1>7, <1>8, <1>9, <1>10, <1>11
        DEF StartRecord, Stages

\* Moving the search on keeps its record well formed.
Moved(s, r) ==
  /\ r \in StartRecord
  /\ r.pc \in {"lookup", "rejected", "bypassed"}
  /\ r.proc \in Process
  /\ r.stage \in {"phoneExact", "redisPhone", "phoneSuffix"}
       => r.phone \in DOMAIN StreamPhones[s]

\* The next stage of a search is well formed ...
LEMMA AfterStageTyped ==
  ASSUME Typed, NEW s \in Stream, start[s].pc \in Running
  PROVE  Moved(s, AfterStage(s, start[s]))
<1> DEFINE r == start[s]
           phones == Len(StreamPhones[s])
<1>1. /\ r \in StartRecord /\ r.proc \in Process
      /\ StreamPhones[s] \in Seq(Phone) /\ phones \in Nat
      /\ DOMAIN StreamPhones[s] = 1..phones
      /\ r.stage \in {"phoneExact", "redisPhone", "phoneSuffix"}
           => r.phone \in 1..phones
  BY ConstantsAssumption, LenProperties
     DEF Typed, TypeOK, SearchOK, StartRecord, Running
<1>2. ASSUME NEW pc \in {"lookup", "rejected", "bypassed"}, NEW stage \in Stages,
             NEW i \in Nat,
             stage \in {"phoneExact", "redisPhone", "phoneSuffix"} => i \in 1..phones
      PROVE  Moved(s, At(r, pc, stage, i, 0))
  BY <1>1, <1>2 DEF At, Search, Moved, StartRecord, Running, Decided
<1>3. CASE r.stage = "authorizationId"
  <2>1. AfterStage(s, r) =
          At(r, "lookup", IF Required THEN "reservation" ELSE "callSid", 1, 0)
    BY <1>3 DEF AfterStage
  <2> QED BY <1>2, <2>1 DEF Stages
<1>4. CASE r.stage = "reservation"
  <2>1. AfterStage(s, r) = At(r, "lookup", "callSid", 1, 0)
    BY <1>4 DEF AfterStage
  <2> QED BY <1>2, <2>1 DEF Stages
<1>5. CASE r.stage = "callSid"
  <2>1. AfterStage(s, r) = At(r, "lookup", "redisCallSid", 1, 0)
    BY <1>5 DEF AfterStage
  <2> QED BY <1>2, <2>1 DEF Stages
<1>6. CASE r.stage = "redisCallSid"
  <2>1. AfterStage(s, r) =
          At(r, "lookup", IF phones = 0 THEN "exhausted" ELSE "phoneExact", 1, 0)
    BY <1>6 DEF AfterStage
  <2> QED BY <1>1, <1>2, <2>1 DEF Stages
<1>7. CASE r.stage = "phoneExact"
  <2>1. AfterStage(s, r) = At(r, "lookup", "redisPhone", r.phone, 0)
    BY <1>7 DEF AfterStage
  <2> QED BY <1>1, <1>2, <1>7, <2>1 DEF Stages
<1>8. CASE r.stage = "redisPhone"
  <2>1. AfterStage(s, r) = IF r.phone < phones
                             THEN At(r, "lookup", "phoneExact", r.phone + 1, 0)
                             ELSE At(r, "lookup", "phoneSuffix", 1, 0)
    BY <1>8 DEF AfterStage
  <2> QED BY <1>1, <1>2, <1>8, <2>1 DEF Stages
<1>9. CASE r.stage = "phoneSuffix"
  <2>1. AfterStage(s, r) = IF r.phone < phones
                             THEN At(r, "lookup", "phoneSuffix", r.phone + 1, 0)
                             ELSE At(r, "lookup", "exhausted", 1, 0)
    BY <1>9 DEF AfterStage
  <2> QED BY <1>1, <1>2, <1>9, <2>1 DEF Stages
<1>10. CASE r.stage = "exhausted"
  <2>1. AfterStage(s, r) =
          At(r, IF Required THEN "rejected" ELSE "bypassed", "exhausted", 1, 0)
    BY <1>10 DEF AfterStage
  <2> QED BY <1>2, <2>1 DEF Stages
<1> QED BY <1>1, <1>3, <1>4, <1>5, <1>6, <1>7, <1>8, <1>9, <1>10
        DEF StartRecord, Stages

\* ... and so is what follows a candidate that could not be consumed.
LEMMA AfterTryTyped ==
  ASSUME Typed, NEW s \in Stream, start[s].pc \in Running, start[s].target \in Auth
  PROVE  Moved(s, AfterTry(s, start[s]))
<1> DEFINE r == start[s]
<1>1. /\ r \in StartRecord /\ r.proc \in Process /\ stamp[r.target] \in Nat
      /\ r.stage \in {"phoneExact", "redisPhone", "phoneSuffix"}
           => r.phone \in DOMAIN StreamPhones[s]
  BY DEF Typed, TypeOK, SearchOK, Running
<1>2. CASE r.stage = "phoneExact"
  <2>1. AfterTry(s, r) = At(r, "lookup", r.stage, r.phone, r.cursor + 1)
    BY <1>2 DEF AfterTry
  <2> QED BY <1>1, <1>2, <2>1 DEF At, Search, Moved, StartRecord, Running
<1>3. CASE r.stage = "phoneSuffix"
  <2>1. AfterTry(s, r) = At(r, "lookup", r.stage, r.phone, stamp[r.target])
    BY <1>3 DEF AfterTry
  <2> QED BY <1>1, <1>3, <2>1 DEF At, Search, Moved, StartRecord, Running
<1>4. CASE r.stage \notin {"phoneExact", "phoneSuffix"}
  <2>1. AfterTry(s, r) = AfterStage(s, r)
    BY <1>4 DEF AfterTry
  <2> QED BY <2>1, AfterStageTyped
<1> QED BY <1>2, <1>3, <1>4

-----------------------------------------------------------------------------
(* Every action preserves the types.                                       *)

SaveRecord == [id : Auth, sid : BOOLEAN, consumed : BOOLEAN]

\* A queued save is a save record.
LEMMA SaveTyped ==
  ASSUME Typed, NEW p \in Process, NEW a \in Auth,
         NEW hasSid \in BOOLEAN, NEW consumed \in BOOLEAN,
         Save(p, a, hasSid, consumed)
  PROVE  outbox' \in [Process -> Seq(SaveRecord)]
<1>1. [id |-> a, sid |-> hasSid, consumed |-> consumed] \in SaveRecord
  BY DEF SaveRecord
<1>2. outbox \in [Process -> Seq(SaveRecord)]
  BY DEF Typed, TypeOK, SaveRecord
<1>3. Append(outbox[p], [id |-> a, sid |-> hasSid, consumed |-> consumed])
        \in Seq(SaveRecord)
  BY <1>1, <1>2, AppendProperties
<1> QED BY <1>2, <1>3 DEF Save

\* A delivered save keeps the types of the Redis keys.
LEMMA StoreTyped ==
  ASSUME Typed, NEW a \in Auth, NEW hasSid \in BOOLEAN, NEW consumed \in BOOLEAN,
         Store(a, hasSid, consumed)
  PROVE  /\ redis' \in [Auth -> [present : BOOLEAN, sid : BOOLEAN, consumed : BOOLEAN]]
         /\ redisPhone' \in [Phone -> Seq(Auth)]
<1>1. redis' \in [Auth -> [present : BOOLEAN, sid : BOOLEAN, consumed : BOOLEAN]]
  BY DEF Store, Typed, TypeOK
<1>2. /\ <<a>> \in Seq(Auth) /\ PhoneOf[a] \in Phone
      /\ redisPhone \in [Phone -> Seq(Auth)]
  BY ConstantsAssumption DEF Typed, TypeOK
<1>3. <<a>> \o redisPhone[PhoneOf[a]] \in Seq(Auth)
  BY <1>2, ConcatProperties
<1>4. redisPhone' \in [Phone -> Seq(Auth)]
  BY <1>2, <1>3 DEF Store
<1> QED BY <1>1, <1>4

\* register keeps the types.
LEMMA RegisterTyped ==
  ASSUME Typed, NEW p \in Process, NEW a \in Auth, NEW hasSid \in BOOLEAN,
         Register(p, a, hasSid)
  PROVE  Typed'
<1> USE DEF Register
<1>1. outbox' \in [Process -> Seq(SaveRecord)]
  BY SaveTyped
<1>2. Cardinality(Registered) \in Nat
  BY ConstantsAssumption, FS_Subset, FS_CardinalityType DEF Registered
<1>3. Trimmed(Unexpired(pending[p]) \cup {a}, stamp') \subseteq Auth
  BY DEF Trimmed, Unexpired, Typed, TypeOK
<1>4. pending' \in [Process -> SUBSET Auth]
  BY <1>3 DEF Typed, TypeOK
<1>5. stamp' \in [Auth -> Nat]
  BY <1>2 DEF Typed, TypeOK
<1>6. entry' \in [Auth -> [sid : BOOLEAN, callId : BOOLEAN, consumed : BOOLEAN]]
  BY ZenonT(60) DEF Typed, TypeOK
<1>7. TypeOK'
  BY <1>1, <1>4, <1>5, <1>6 DEF Typed, TypeOK, SaveRecord, redisVars, startVars
<1>8. SearchOK'
  BY DEF Typed, SearchOK, startVars
<1> QED BY <1>7, <1>8 DEF Typed

\* linkProviderCallDetails keeps the types.
LEMMA LinkTyped ==
  ASSUME Typed, NEW p \in Process, NEW a \in Auth, NEW field \in {"sid", "callId"},
         LinkProviderCallDetails(p, a, field)
  PROVE  Typed'
<1> USE DEF LinkProviderCallDetails
<1>1. entry' \in [Auth -> [sid : BOOLEAN, callId : BOOLEAN, consumed : BOOLEAN]]
  BY ZenonT(60) DEF Typed, TypeOK
<1>2. outbox' \in [Process -> Seq(SaveRecord)]
  <2>1. entry'[a].sid \in BOOLEAN /\ entry[a].consumed \in BOOLEAN
    BY <1>1 DEF Typed, TypeOK
  <2>2. Save(p, a, entry'[a].sid, entry[a].consumed)
    OBVIOUS
  <2> QED BY <2>1, <2>2, SaveTyped
<1>3. TypeOK'
  BY <1>1, <1>2 DEF Typed, TypeOK, SaveRecord, redisVars, startVars, issueVars
<1>4. SearchOK'
  BY DEF Typed, SearchOK, startVars
<1> QED BY <1>3, <1>4 DEF Typed

\* The delivery of a save keeps the types.
LEMMA DeliverSaveTyped ==
  ASSUME Typed, NEW p \in Process, DeliverSave(p)
  PROVE  Typed'
<1> USE DEF DeliverSave
<1>1. outbox \in [Process -> Seq(SaveRecord)] /\ outbox[p] # <<>>
  BY DEF Typed, TypeOK, SaveRecord
<1>2. Head(outbox[p]) \in SaveRecord /\ Tail(outbox[p]) \in Seq(SaveRecord)
  BY <1>1, HeadTailProperties
<1>3. outbox' \in [Process -> Seq(SaveRecord)]
  BY <1>1, <1>2
<1>4. /\ redis' \in [Auth -> [present : BOOLEAN, sid : BOOLEAN, consumed : BOOLEAN]]
      /\ redisPhone' \in [Phone -> Seq(Auth)]
  <2>1. CASE UNCHANGED redisVars
    BY <2>1 DEF redisVars, Typed, TypeOK
  <2>2. CASE Store(Head(outbox[p]).id, Head(outbox[p]).sid, Head(outbox[p]).consumed)
    BY <1>2, <2>2, StoreTyped DEF SaveRecord
  <2> QED BY <2>1, <2>2
<1>5. TypeOK'
  BY <1>3, <1>4 DEF Typed, TypeOK, SaveRecord, localVars, startVars, issueVars
<1>6. SearchOK'
  BY DEF Typed, SearchOK, startVars
<1> QED BY <1>5, <1>6 DEF Typed

\* Expiry keeps the types.
LEMMA ExpireTyped ==
  ASSUME Typed, NEW a \in Auth, Expire(a)
  PROVE  Typed'
<1>1. TypeOK'
  BY DEF Expire, Typed, TypeOK, localVars, redisVars, startVars
<1>2. SearchOK'
  BY DEF Expire, Typed, SearchOK, startVars
<1> QED BY <1>1, <1>2 DEF Typed

\* resolveStreamUrl keeps the types.
LEMMA ResolveTyped ==
  ASSUME Typed, NEW p \in Process, NEW s \in Stream, ResolveStreamUrl(p, s)
  PROVE  Typed'
<1> USE DEF ResolveStreamUrl
<1>1. FirstPending(p, s) \subseteq Auth
  <2>1. /\ StreamPhones[s] \in Seq(Phone)
        /\ \A i \in DOMAIN StreamPhones[s] : StreamPhones[s][i] \in Phone
    BY ConstantsAssumption, ElementOfSeq
  <2>2. \A n \in Phone : SharedByPhone(n) \subseteq Auth
    BY DEF SharedByPhone, Typed, TypeOK
  <2>3. pending[p] \subseteq Auth
    BY DEF Typed, TypeOK
  <2> QED BY <2>1, <2>2, <2>3
          DEF FirstPending, ByCallSid, SharedByCallSid, ByPhone
<1>2. PICK a \in Auth :
        /\ hint' = [hint EXCEPT ![s] = a]
        /\ reservation' = IF StreamSid[s] = None THEN reservation
                          ELSE [reservation EXCEPT ![p][StreamSid[s]] = a]
  BY <1>1
<1>3. hint' \in [Stream -> Auth \cup {None}]
  BY <1>2 DEF Typed, TypeOK
<1>4. reservation' \in [Process -> [Sid -> Auth \cup {None}]]
  BY <1>2 DEF Typed, TypeOK
<1>5. pending' \in [Process -> SUBSET Auth]
  BY DEF Unexpired, Typed, TypeOK
<1>6. TypeOK'
  BY <1>3, <1>4, <1>5 DEF Typed, TypeOK, issueVars, redisVars, startVars
<1>7. SearchOK'
  BY DEF Typed, SearchOK, startVars
<1> QED BY <1>6, <1>7 DEF Typed

\* A step that only replaces the record of one start by a well-formed one.
LEMMA StartStepTyped ==
  ASSUME Typed, NEW s \in Stream, NEW r \in StartRecord,
         start' = [start EXCEPT ![s] = r],
         r.pc # "idle" => r.proc \in Process,
         r.pc \in {"get", "check", "markRead", "markWrite", "return"}
           => r.target \in Auth,
         r.stage \in {"phoneExact", "redisPhone", "phoneSuffix"}
           => r.phone \in DOMAIN StreamPhones[s]
  PROVE  start' \in [Stream -> StartRecord] /\ SearchOK'
BY DEF Typed, TypeOK, SearchOK

\* The same for a step that changes nothing in the record but its counter.
LEMMA CounterTyped ==
  ASSUME Typed, NEW s \in Stream, NEW pc \in Running \cup Decided,
         start' = [start EXCEPT ![s].pc = pc], start[s].pc # "idle",
         pc \in {"get", "check", "markRead", "markWrite", "return"}
           => start[s].target \in Auth
  PROVE  start' \in [Stream -> StartRecord] /\ SearchOK'
<1>1. start[s] \in StartRecord /\ start[s].proc \in Process
  BY DEF Typed, TypeOK, SearchOK
<1>2. DEFINE x == [start[s] EXCEPT !.pc = pc]
<1>3. x \in StartRecord
  BY <1>1 DEF StartRecord
<1>4. /\ x.pc = pc /\ x.proc = start[s].proc /\ x.target = start[s].target
      /\ x.stage = start[s].stage /\ x.phone = start[s].phone
  BY <1>1 DEF StartRecord
<1>5. start[s].stage \in {"phoneExact", "redisPhone", "phoneSuffix"}
        => start[s].phone \in DOMAIN StreamPhones[s]
  BY DEF Typed, SearchOK
<1>6. start' = [start EXCEPT ![s] = x]
  OBVIOUS
<1> HIDE DEF x
<1> QED BY <1>1, <1>3, <1>4, <1>5, <1>6, StartStepTyped

\* The arrival of a start event keeps the types.
LEMMA BeginStartTyped ==
  ASSUME Typed, NEW p \in Process, NEW s \in Stream, NEW o \in Offers(s),
         BeginStart(p, s, o)
  PROVE  Typed'
<1> USE DEF BeginStart
<1>1. o \in Auth \cup {None}
  BY DEF Offers, Typed, TypeOK
<1>2. Search(p, o, "lookup", "authorizationId", 1, 0) \in StartRecord
  BY <1>1 DEF Search, StartRecord, Running, Stages
<1>3. start' \in [Stream -> StartRecord] /\ SearchOK'
  BY <1>2, StartStepTyped DEF Search
<1>5. pending' \in [Process -> SUBSET Auth]
  BY DEF Unexpired, Typed, TypeOK
<1>6. eligible' \in [Stream -> SUBSET Auth]
  BY DEF Typed, TypeOK
<1>7. TypeOK'
  BY <1>3, <1>5, <1>6 DEF Typed, TypeOK, issueVars, redisVars
<1> QED BY <1>3, <1>7 DEF Typed

\* A lookup keeps the types: a candidate is an authorization.
LEMMA LookupTyped ==
  ASSUME Typed, NEW s \in Stream, Lookup(s)
  PROVE  Typed'
<1> DEFINE r == start[s]
<1>1. /\ r.pc = "lookup" /\ r \in StartRecord /\ r.proc \in Process
      /\ r.stage \in {"phoneExact", "redisPhone", "phoneSuffix"}
           => r.phone \in DOMAIN StreamPhones[s]
  BY DEF Lookup, Typed, TypeOK, SearchOK
<1>2. start' \in [Stream -> StartRecord] /\ SearchOK'
  <2>1. CASE Candidate(s, r) = {} /\ start' = [start EXCEPT ![s] = AfterStage(s, r)]
    BY <1>1, <2>1, AfterStageTyped, StartStepTyped DEF Moved, Running
  <2>2. ASSUME NEW a \in Candidate(s, r),
               NEW pc \in {"check", "get"}, NEW source \in {"local", "shared"},
               start' = [start EXCEPT ![s] = Trying(r, pc, a, source)]
        PROVE  start' \in [Stream -> StartRecord] /\ SearchOK'
    <3>1. a \in Auth
      BY <1>1, CandidateIsAuth
    <3>2. Trying(r, pc, a, source) \in StartRecord
      BY <1>1, <3>1 DEF Trying, StartRecord, Running
    <3> QED BY <1>1, <2>2, <3>1, <3>2, StartStepTyped DEF Trying
  <2> QED BY <2>1, <2>2 DEF Lookup
<1>3. TypeOK'
  BY <1>2 DEF Lookup, Typed, TypeOK, issueVars, localVars, redisVars
<1> QED BY <1>2, <1>3 DEF Typed

\* The answer of loadAuthorization keeps the types.
LEMMA RedisGetTyped ==
  ASSUME Typed, NEW s \in Stream, RedisGet(s)
  PROVE  Typed'
<1> DEFINE a == start[s].target
           c == redis[a].present /\ ~redis[a].consumed /\ TRUE
           x == [start[s] EXCEPT !.pc = "check", !.consumable = c]
<1>1. start[s] \in StartRecord /\ start[s].proc \in Process /\ a \in Auth
  BY DEF RedisGet, Typed, TypeOK, SearchOK
<1>2. redis[a].present \in BOOLEAN /\ redis[a].consumed \in BOOLEAN
  BY <1>1 DEF Typed, TypeOK
<1>3. PICK b \in BOOLEAN : start' = [start EXCEPT ![s].pc = "check",
                                                  ![s].consumable = b]
  BY <1>2 DEF RedisGet
<1>4. DEFINE y == [start[s] EXCEPT !.pc = "check"]
             z == [y EXCEPT !.consumable = b]
<1>5. y \in StartRecord
  BY <1>1 DEF StartRecord, Running
<1>6. /\ y.pc = "check" /\ y.proc = start[s].proc /\ y.target = a
      /\ y.stage = start[s].stage /\ y.phone = start[s].phone
  BY <1>1 DEF StartRecord
<1>7. start' = [start EXCEPT ![s] = z]
  BY <1>1, <1>3 DEF Typed, TypeOK
<1> HIDE DEF y
<1>8. z \in StartRecord
  BY <1>5 DEF StartRecord
<1>9. /\ z.pc = "check" /\ z.proc = start[s].proc /\ z.target = a
      /\ z.stage = start[s].stage /\ z.phone = start[s].phone
  BY <1>5, <1>6 DEF StartRecord
<1>10. start[s].stage \in {"phoneExact", "redisPhone", "phoneSuffix"}
         => start[s].phone \in DOMAIN StreamPhones[s]
  BY DEF Typed, SearchOK
<1> HIDE DEF z
<1>11. start' \in [Stream -> StartRecord] /\ SearchOK'
  BY <1>1, <1>7, <1>8, <1>9, <1>10, StartStepTyped
<1>12. TypeOK'
  BY <1>11 DEF RedisGet, Typed, TypeOK, issueVars, localVars, redisVars
<1> QED BY <1>11, <1>12 DEF Typed

\* consumeAuthorization keeps the types.
LEMMA CheckTyped ==
  ASSUME Typed, NEW s \in Stream, Check(s)
  PROVE  Typed'
<1> DEFINE r == start[s]
<1>1. /\ r.pc = "check" /\ r \in StartRecord /\ r.proc \in Process
      /\ r.target \in Auth
  BY DEF Check, Typed, TypeOK, SearchOK
<1>2. /\ start' \in [Stream -> StartRecord] /\ SearchOK'
      /\ took' \in [Stream -> Auth \cup {None}]
      /\ entry' \in [Auth -> [sid : BOOLEAN, callId : BOOLEAN, consumed : BOOLEAN]]
  <2>1. CASE Usable(r)
    <3>1. took' = [took EXCEPT ![s] = r.target] /\ entry' = Marked(r)
      BY <2>1 DEF Check
    <3>2. PICK pc \in {"markRead", "return"} : start' = [start EXCEPT ![s].pc = pc]
      BY <2>1 DEF Check
    <3>3. start' \in [Stream -> StartRecord] /\ SearchOK'
      BY <1>1, <3>2, CounterTyped DEF Running
    <3> QED BY <1>1, <3>1, <3>3 DEF Marked, Typed, TypeOK
  <2>2. CASE ~Usable(r)
    <3>1. start' = [start EXCEPT ![s] = AfterTry(s, r)] /\ UNCHANGED <<took, entry>>
      BY <2>2 DEF Check
    <3> QED BY <1>1, <3>1, AfterTryTyped, StartStepTyped
            DEF Moved, Running, Typed, TypeOK
  <2> QED BY <2>1, <2>2
<1>3. TypeOK'
  BY <1>2 DEF Check, Typed, TypeOK, issueVars, redisVars
<1> QED BY <1>2, <1>3 DEF Typed

\* The GET of markAuthorizationConsumed keeps the types ...
LEMMA MarkReadTyped ==
  ASSUME Typed, NEW s \in Stream, MarkRead(s)
  PROVE  Typed'
<1>1. start[s].pc # "idle" /\ start[s].target \in Auth
  BY DEF MarkRead, Typed, SearchOK
<1>2. PICK pc \in {"markWrite", "return"} : start' = [start EXCEPT ![s].pc = pc]
  BY DEF MarkRead
<1>3. start' \in [Stream -> StartRecord] /\ SearchOK'
  BY <1>1, <1>2, CounterTyped DEF Running
<1>4. TypeOK'
  BY <1>3 DEF MarkRead, Typed, TypeOK, issueVars, localVars, redisVars
<1> QED BY <1>3, <1>4 DEF Typed

\* ... and so does its SET.
LEMMA MarkWriteTyped ==
  ASSUME Typed, NEW s \in Stream, MarkWrite(s)
  PROVE  Typed'
<1>1. /\ start[s].pc # "idle" /\ start[s].target \in Auth
      /\ start' = [start EXCEPT ![s].pc = "return"]
  BY DEF MarkWrite, Typed, SearchOK
<1>2. start' \in [Stream -> StartRecord] /\ SearchOK'
  BY <1>1, CounterTyped DEF Running
<1>3. /\ redis' \in [Auth -> [present : BOOLEAN, sid : BOOLEAN, consumed : BOOLEAN]]
      /\ redisPhone' \in [Phone -> Seq(Auth)]
  <2>1. CASE UNCHANGED redisVars
    BY <2>1 DEF redisVars, Typed, TypeOK
  <2>2. CASE Store(start[s].target, FALSE, TRUE)
    BY <1>1, <2>2, StoreTyped
  <2> QED BY <2>1, <2>2 DEF MarkWrite
<1>4. TypeOK'
  BY <1>2, <1>3 DEF MarkWrite, Typed, TypeOK, issueVars, localVars
<1> QED BY <1>2, <1>4 DEF Typed

\* The return of authorizeStart keeps the types.
LEMMA ReturnTyped ==
  ASSUME Typed, NEW s \in Stream, Return(s)
  PROVE  Typed'
<1>1. start[s].pc # "idle" /\ start' = [start EXCEPT ![s].pc = "granted"]
  BY DEF Return
<1>2. start' \in [Stream -> StartRecord] /\ SearchOK'
  BY <1>1, CounterTyped DEF Decided
<1>3. reservation' \in [Process -> [Sid -> Auth \cup {None}]]
  BY DEF Return, Typed, TypeOK
<1>4. TypeOK'
  BY <1>2, <1>3 DEF Return, Typed, TypeOK, issueVars, redisVars
<1> QED BY <1>2, <1>4 DEF Typed

\* A rejected Redis command keeps the types.
LEMMA RedisErrorTyped ==
  ASSUME Typed, NEW s \in Stream, RedisError(s)
  PROVE  Typed'
<1>1. start[s].pc # "idle" /\ start' = [start EXCEPT ![s].pc = "failed"]
  BY DEF RedisError
<1>2. start' \in [Stream -> StartRecord] /\ SearchOK'
  BY <1>1, CounterTyped DEF Decided
<1>3. TypeOK'
  BY <1>2 DEF RedisError, Typed, TypeOK, issueVars, localVars, redisVars
<1> QED BY <1>2, <1>3 DEF Typed

\* A restart keeps the types.
LEMMA RestartTyped ==
  ASSUME Typed, NEW p \in Process, Restart(p)
  PROVE  Typed'
<1> USE DEF Restart
<1>1. ASSUME NEW s \in Stream
      PROVE  [start[s] EXCEPT !.pc = "dropped"] \in StartRecord
  <2>1. start[s] \in StartRecord
    BY DEF Typed, TypeOK
  <2> QED BY <2>1 DEF StartRecord, Decided
<1>2. start' \in [Stream -> StartRecord]
  BY <1>1 DEF Typed, TypeOK
<1>3. SearchOK'
  <2> SUFFICES ASSUME NEW s \in Stream
               PROVE  /\ start'[s].pc # "idle" => start'[s].proc \in Process
                      /\ start'[s].pc \in {"get", "check", "markRead", "markWrite", "return"}
                           => start'[s].target \in Auth
                      /\ start'[s].stage \in {"phoneExact", "redisPhone", "phoneSuffix"}
                           => start'[s].phone \in DOMAIN StreamPhones[s]
    BY DEF SearchOK
  <2>1. start[s] \in StartRecord
    BY DEF Typed, TypeOK
  <2> DEFINE x == [start[s] EXCEPT !.pc = "dropped"]
  <2>2. /\ x.pc = "dropped" /\ x.proc = start[s].proc /\ x.stage = start[s].stage
        /\ x.phone = start[s].phone
    BY <2>1 DEF StartRecord
  <2>3. \/ start'[s] = start[s]
        \/ start'[s] = x /\ start[s].pc \in Running
    OBVIOUS
  <2> HIDE DEF x
  <2> QED BY <2>2, <2>3 DEF Typed, SearchOK, Running
<1>4. <<>> \in Seq([id : Auth, sid : BOOLEAN, consumed : BOOLEAN])
  BY EmptySeq
<1>5. /\ pending' \in [Process -> SUBSET Auth]
      /\ reservation' \in [Process -> [Sid -> Auth \cup {None}]]
      /\ restarts' \in Nat
  BY DEF Typed, TypeOK
<1>6. outbox' \in [Process -> Seq([id : Auth, sid : BOOLEAN, consumed : BOOLEAN])]
  BY <1>4 DEF Typed, TypeOK
<1>7. TypeOK'
  BY <1>2, <1>5, <1>6 DEF Typed, TypeOK, issueVars, redisVars
<1> QED BY <1>3, <1>7 DEF Typed

\* A stuttering step keeps the types.
LEMMA StutterTyped ==
  ASSUME Typed, UNCHANGED vars
  PROVE  Typed'
BY DEF Typed, TypeOK, SearchOK, vars, issueVars, localVars, redisVars, startVars

\* Every step keeps the types.
LEMMA NextTyped ==
  ASSUME Typed, [Next]_vars
  PROVE  Typed'
<1>1. ASSUME NEW p \in Process, NEW a \in Auth, NEW hasSid \in BOOLEAN,
             Register(p, a, hasSid)
      PROVE  Typed'
  BY <1>1, RegisterTyped
<1>2. ASSUME NEW p \in Process, NEW a \in Auth, NEW field \in {"sid", "callId"},
             LinkProviderCallDetails(p, a, field)
      PROVE  Typed'
  BY <1>2, LinkTyped
<1>3. ASSUME NEW p \in Process, DeliverSave(p) \/ Restart(p)
      PROVE  Typed'
  BY <1>3, DeliverSaveTyped, RestartTyped
<1>4. ASSUME NEW a \in Auth, Expire(a) PROVE Typed'
  BY <1>4, ExpireTyped
<1>5. ASSUME NEW p \in Process, NEW s \in Stream, ResolveStreamUrl(p, s)
      PROVE  Typed'
  BY <1>5, ResolveTyped
<1>6. ASSUME NEW p \in Process, NEW s \in Stream, NEW o \in Offers(s),
             BeginStart(p, s, o)
      PROVE  Typed'
  BY <1>6, BeginStartTyped
<1>7. ASSUME NEW s \in Stream,
             \/ Lookup(s) \/ RedisGet(s) \/ Check(s) \/ MarkRead(s)
             \/ MarkWrite(s) \/ Return(s) \/ RedisError(s)
      PROVE  Typed'
  BY <1>7, LookupTyped, RedisGetTyped, CheckTyped, MarkReadTyped,
     MarkWriteTyped, ReturnTyped, RedisErrorTyped
<1>8. CASE UNCHANGED vars
  BY <1>8, StutterTyped
<1> QED BY <1>1, <1>2, <1>3, <1>4, <1>5, <1>6, <1>7, <1>8 DEF Next

\* The variables keep their types, and the records of the searches are well
\* formed, whatever the constants.
THEOREM TypeCorrect == Spec => []Typed
<1>1. Init => Typed
  BY InitTyped
<1>2. Typed /\ [Next]_vars => Typed'
  BY NextTyped
<1> QED BY <1>1, <1>2, PTL DEF Spec

\* The type invariant the runs check.
THEOREM TypesHold == Spec => []TypeOK
<1>1. Typed => TypeOK
  BY DEF Typed
<1> QED BY <1>1, TypeCorrect, PTL
=============================================================================
