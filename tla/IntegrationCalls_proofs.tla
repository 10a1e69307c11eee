----------------------- MODULE IntegrationCalls_proofs -----------------------
(***************************************************************************)
(* Theorems about IntegrationCalls, for any number of requests, references *)
(* and query failures: what a partner is told of was dialled, a re-sent    *)
(* request never dials, and the service implements OneCallPerRef.          *)
(***************************************************************************)
EXTENDS IntegrationCalls, TLAPS

\* A request dials before it writes, and only then.
Dialled ==
  \A r \in Request :
    /\ pc[r] \in {"customer", "newCustomer", "row", "event", "raced", "reload"}
         => r \in rang
    /\ pc[r] \in {"idle", "find", "dial"} => r \notin rang

\* A Call row is of a request with its ref that dialled; the request that goes
\* on after the insert is its creator.
Recorded ==
  /\ \A f \in Ref : row[f] # None => row[f] \in rang /\ RefOf[row[f]] = f
  /\ \A r \in Request : pc[r] \in {"event", "reload"} => row[RefOf[r]] = r

\* Answers are final and name the recorded call.
Answered ==
  \A r \in Request :
    /\ pc[r] # "done" => answer[r] = None
    /\ answer[r] \in Request => row[RefOf[r]] = answer[r]

\* A re-sent request finds the row.
Resent ==
  \A r \in resent : /\ pc[r] \in {"find", "done"} /\ r \notin rang
                    /\ row[RefOf[r]] # None

CallInv == TypeOK /\ Dialled /\ Recorded /\ Answered /\ Resent

-----------------------------------------------------------------------------
Authorization == [registered : BOOLEAN, sid : BOOLEAN, callId : BOOLEAN]

\* Before the first request nothing has been written.
LEMMA InitCalls == Init => CallInv
<1> SUFFICES ASSUME Init PROVE CallInv
  OBVIOUS
<1> USE IntegrationCallsAssumption
<1>1. auth \in [Request -> [registered : BOOLEAN, sid : BOOLEAN, callId : BOOLEAN]]
  BY DEF Init
<1>2. TypeOK
  BY <1>1 DEF Init, TypeOK
<1>3. Dialled /\ Recorded /\ Answered /\ Resent
  BY DEF Init, Dialled, Recorded, Answered, Resent
<1> QED BY <1>2, <1>3 DEF CallInv


\* A request moves to a step and the rest of the state stays.
LEMMA ReceiveStep ==
  ASSUME CallInv, NEW r \in Request, Receive(r)
  PROVE  CallInv'
<1> USE IntegrationCallsAssumption DEF Receive, Goto, CallInv
<1>1. TypeOK'
  BY DEF TypeOK, Steps, Querying
<1>2. Dialled' /\ Recorded' /\ Answered'
  BY DEF TypeOK, Dialled, Recorded, Answered
<1>3. Told(r) => row[RefOf[r]] # None
  BY DEF Told, Answered
<1>4. Resent'
  BY <1>3 DEF TypeOK, Dialled, Resent
<1> QED BY <1>1, <1>2, <1>4

\* The lookup answers with the recorded call or goes on to dial.
LEMMA FindExistingStep ==
  ASSUME CallInv, NEW r \in Request, FindExisting(r)
  PROVE  CallInv'
<1> USE IntegrationCallsAssumption DEF FindExisting, Existing, Order, Goto, Reply, CallInv
<1>1. auth' \in [Request -> [registered : BOOLEAN, sid : BOOLEAN, callId : BOOLEAN]]
  <2>1. auth \in [Request -> Authorization]
    BY DEF TypeOK, Authorization
  <2>2. [auth EXCEPT ![r].registered = TRUE] \in [Request -> Authorization]
    BY <2>1 DEF Authorization
  <2>3. auth' = auth \/ auth' = [auth EXCEPT ![r].registered = TRUE]
    OBVIOUS
  <2> QED BY <2>1, <2>2, <2>3 DEF Authorization
<1>2. row[RefOf[r]] \in Request \cup {None}
  BY DEF TypeOK
<1>3. TypeOK'
  BY <1>1, <1>2 DEF TypeOK, Steps, Querying
<1>4. Dialled' /\ Recorded'
  BY DEF TypeOK, Dialled, Recorded
<1>5. Answered'
  BY <1>2 DEF TypeOK, Answered
<1>6. Resent'
  BY DEF TypeOK, Resent
<1> QED BY <1>3, <1>4, <1>5, <1>6

\* An accepted dial: the phone of the request has rung.
LEMMA DialAcceptedStep ==
  ASSUME CallInv, NEW r \in Request, NEW hasSid \in BOOLEAN, DialAccepted(r, hasSid)
  PROVE  CallInv'
<1> USE IntegrationCallsAssumption DEF DialAccepted, Order, Goto, CallInv
<1>1. TypeOK'
  BY DEF TypeOK, Steps, Querying
<1>2. Dialled' /\ Recorded' /\ Answered'
  BY DEF TypeOK, Dialled, Recorded, Answered
<1>3. Resent'
  BY DEF TypeOK, Resent
<1> QED BY <1>1, <1>2, <1>3

\* A failed dial: the request ends, whether or not the phone has rung.
LEMMA DialFailedStep ==
  ASSUME CallInv, NEW r \in Request, DialFailed(r)
  PROVE  CallInv'
<1> USE IntegrationCallsAssumption DEF DialFailed, Goto, Reply, CallInv
<1>1. TypeOK'
  BY DEF TypeOK, Steps, Querying
<1>2. Dialled' /\ Recorded' /\ Answered'
  BY DEF TypeOK, Dialled, Recorded, Answered
<1>3. Resent'
  BY DEF TypeOK, Resent
<1> QED BY <1>1, <1>2, <1>3

\* The two customer queries.
LEMMA CustomerStep ==
  ASSUME CallInv, NEW r \in Request, FindCustomer(r) \/ CreateCustomer(r)
  PROVE  CallInv'
<1> USE IntegrationCallsAssumption DEF FindCustomer, CreateCustomer, Goto, CallInv
<1>1. TypeOK'
  BY DEF TypeOK, Steps, Querying
<1>2. Dialled' /\ Recorded' /\ Answered'
  BY DEF TypeOK, Dialled, Recorded, Answered
<1>3. Resent'
  BY DEF TypeOK, Resent
<1> QED BY <1>1, <1>2, <1>3

\* The insert succeeds for a free ref only.
LEMMA CreateRowStep ==
  ASSUME CallInv, NEW r \in Request, CreateRow(r)
  PROVE  CallInv'
<1> USE IntegrationCallsAssumption DEF CreateRow, Free, Collided, Order, Goto, CallInv
<1>1. RefOf[r] \in Ref /\ r \in rang /\ pc[r] = "row"
  BY DEF Dialled
<1>2. CASE row[RefOf[r]] = None
  <2>1. row' = [row EXCEPT ![RefOf[r]] = r] /\ pc' = [pc EXCEPT ![r] = "event"]
    BY <1>2
  <2>2. TypeOK'
    BY <1>1, <2>1 DEF TypeOK, Steps, Querying
  <2>3. Dialled'
    BY <1>1, <2>1 DEF TypeOK, Dialled
  <2>4. Recorded'
    BY <1>1, <1>2, <2>1 DEF TypeOK, Recorded
  <2>5. Answered'
    BY <1>1, <1>2, <2>1 DEF TypeOK, Answered
  <2>6. Resent'
    BY <1>1, <2>1 DEF TypeOK, Resent
  <2> QED BY <2>2, <2>3, <2>4, <2>5, <2>6
<1>3. CASE row[RefOf[r]] # None
  <2>1. row' = row /\ pc' = [pc EXCEPT ![r] = "raced"]
    BY <1>3
  <2>2. TypeOK'
    BY <2>1 DEF TypeOK, Steps, Querying
  <2>3. Dialled' /\ Recorded' /\ Answered'
    BY <1>1, <2>1 DEF TypeOK, Dialled, Recorded, Answered
  <2>4. Resent'
    BY <1>1, <2>1 DEF TypeOK, Resent
  <2> QED BY <2>2, <2>3, <2>4
<1> QED BY <1>2, <1>3

\* The event is written and the authorization linked.
LEMMA CreateEventStep ==
  ASSUME CallInv, NEW r \in Request, CreateEvent(r)
  PROVE  CallInv'
<1> USE IntegrationCallsAssumption DEF CreateEvent, Goto, CallInv
<1>1. Linked(r) \in [registered : BOOLEAN, sid : BOOLEAN, callId : BOOLEAN]
  <2>1. auth[r].sid \in BOOLEAN
    BY DEF TypeOK
  <2> QED BY <2>1 DEF Linked
<1>2. TypeOK'
  BY <1>1 DEF TypeOK, Steps, Querying
<1>3. Dialled' /\ Recorded' /\ Answered'
  BY DEF TypeOK, Dialled, Recorded, Answered
<1>4. Resent'
  BY DEF TypeOK, Resent
<1> QED BY <1>2, <1>3, <1>4

\* The three ways to end a request: after a collision, after the reload, and
\* when a query rejects.
LEMMA EndStep ==
  ASSUME CallInv, NEW r \in Request, FindRaced(r) \/ Reload(r) \/ QueryFails(r)
  PROVE  CallInv'
<1> USE IntegrationCallsAssumption
        DEF FindRaced, Reload, QueryFails, Existing, Goto, Reply, CallInv
<1>1. row[RefOf[r]] \in Request \cup {None}
  BY DEF TypeOK
<1>2. PICK c \in Request \cup {Error} :
        /\ answer' = [answer EXCEPT ![r] = c] /\ pc' = [pc EXCEPT ![r] = "done"]
        /\ c \in Request => c = row[RefOf[r]]
  BY <1>1 DEF Recorded
<1>3. UNCHANGED <<provider, resent, row, customers, events, rang, auth>>
  OBVIOUS
<1>4. /\ announce' \in [Request -> {"idle", "post", "sent", "failed"}]
      /\ faults' \in Nat
  BY DEF TypeOK
<1> USE DEF CallInv
<1>5. TypeOK'
  BY <1>2, <1>3, <1>4 DEF TypeOK, Steps, Querying
<1>6. pc[r] \in Querying
  BY DEF Querying
<1>7. Dialled' /\ Recorded' /\ Answered'
  BY <1>2, <1>3 DEF TypeOK, Dialled, Recorded, Answered
<1>8. Resent'
  BY <1>2, <1>3 DEF TypeOK, Resent
<1> QED BY <1>5, <1>7, <1>8

\* Every step keeps the invariant.
LEMMA CallsStep ==
  ASSUME CallInv, [Next]_vars
  PROVE  CallInv'
<1>1. ASSUME NEW r \in Request, NotifyStatusChange(r)
      PROVE  CallInv'
  BY <1>1 DEF NotifyStatusChange, CallInv, TypeOK, Dialled, Recorded, Answered, Resent
<1>2. CASE UNCHANGED vars
  BY <1>2 DEF vars, CallInv, TypeOK, Dialled, Recorded, Answered, Resent
<1>3. ASSUME NEW r \in Request, NEW hasSid \in BOOLEAN, DialAccepted(r, hasSid)
      PROVE  CallInv'
  BY <1>3, DialAcceptedStep
<1>4. ASSUME NEW r \in Request,
             \/ Receive(r) \/ FindExisting(r) \/ DialFailed(r) \/ FindCustomer(r)
             \/ CreateCustomer(r) \/ CreateRow(r) \/ CreateEvent(r)
      PROVE  CallInv'
  BY <1>4, ReceiveStep, FindExistingStep, DialFailedStep, CustomerStep, CreateRowStep,
     CreateEventStep
<1>5. ASSUME NEW r \in Request, FindRaced(r) \/ Reload(r) \/ QueryFails(r)
      PROVE  CallInv'
  BY <1>5, EndStep
<1> QED BY <1>1, <1>2, <1>3, <1>4, <1>5 DEF Next

\* The invariant holds throughout every behaviour.
THEOREM CallsInvariant == Spec => []CallInv
<1>1. CallInv /\ [Next]_vars => CallInv'
  BY CallsStep
<1> QED BY <1>1, InitCalls, PTL DEF Spec

\* A partner is only told of calls that were dialled.
THEOREM AnswersRang == Spec => []AnswerRang
<1>1. CallInv => AnswerRang
  BY IntegrationCallsAssumption
     DEF CallInv, TypeOK, Recorded, Answered, AnswerRang
<1> QED BY <1>1, CallsInvariant, PTL

\* A request sent after one with its ref was told of a call never dials.
THEOREM ResendsNeverDial == Spec => []ResendNeverDials
<1>1. CallInv => ResendNeverDials
  BY DEF CallInv, Resent, ResendNeverDials
<1> QED BY <1>1, CallsInvariant, PTL

-----------------------------------------------------------------------------
(* Answers and authorizations.                                             *)

\* A recorded call is linked to its row, or its creator is still to do it, or
\* the creator has failed.
LinkOwed(c) == pc[c] = "event" \/ auth[c].callId \/ answer[c] = Error

\* Every recorded call is linked, being linked, or of a request that failed.
RowsLinked == \A f \in Ref : row[f] # None => LinkOwed(row[f])

\* The same of every call a partner has been told of.
ToldAreLinked ==
  \A r \in Request : answer[r] \in Request => LinkOwed(answer[r])

\* Before the first request no call is recorded.
LEMMA LinksInit == Init => RowsLinked
  BY DEF Init, RowsLinked

\* No step takes a link away, and the step that leaves "event" makes it or
\* fails: whichever request moves.
LEMMA LinkStays ==
  ASSUME CallInv, [Next]_vars, NEW c \in Request, LinkOwed(c)
  PROVE  LinkOwed(c)'
<1> USE IntegrationCallsAssumption DEF LinkOwed, CallInv
<1>1. /\ pc \in [Request -> Steps \cup {"idle", "done"}]
      /\ auth \in [Request -> Authorization]
      /\ answer \in [Request -> Request \cup {None, Error}]
      /\ answer[c] = Error => pc[c] = "done"
  BY DEF TypeOK, Answered, Authorization
<1>2. ASSUME NEW r \in Request, Receive(r) \/ FindCustomer(r) \/ CreateCustomer(r) \/ CreateRow(r)
      PROVE  LinkOwed(c)'
  BY <1>1, <1>2 DEF Receive, FindCustomer, CreateCustomer, CreateRow, Goto
<1>3. ASSUME NEW r \in Request, FindExisting(r)
      PROVE  LinkOwed(c)'
  <2>1. auth'[c].callId = auth[c].callId
    BY <1>1, <1>3 DEF FindExisting, Authorization
  <2> QED BY <1>1, <1>3, <2>1 DEF FindExisting, Goto, Reply
<1>4. ASSUME NEW r \in Request, NEW hasSid \in BOOLEAN, DialAccepted(r, hasSid)
      PROVE  LinkOwed(c)'
  <2>1. auth'[c].callId = auth[c].callId
    BY <1>1, <1>4 DEF DialAccepted, Authorization
  <2> QED BY <1>1, <1>4, <2>1 DEF DialAccepted, Goto
<1>5. ASSUME NEW r \in Request, CreateEvent(r)
      PROVE  LinkOwed(c)'
  <2>1. auth' = [auth EXCEPT ![r] = Linked(r)] /\ Linked(r).callId = TRUE
    BY <1>5 DEF CreateEvent, Linked
  <2>2. auth'[c] = IF c = r THEN Linked(r) ELSE auth[c]
    BY <1>1, <2>1
  <2> QED BY <1>1, <1>5, <2>1, <2>2 DEF CreateEvent, Goto
<1>6. ASSUME NEW r \in Request, DialFailed(r) \/ FindRaced(r) \/ Reload(r)
      PROVE  LinkOwed(c)'
  BY <1>1, <1>6 DEF DialFailed, FindRaced, Reload, Goto, Reply
<1>7. ASSUME NEW r \in Request, QueryFails(r)
      PROVE  LinkOwed(c)'
  BY <1>1, <1>7 DEF QueryFails, Goto, Reply, Querying
<1>8. ASSUME NEW r \in Request, NotifyStatusChange(r)
      PROVE  LinkOwed(c)'
  BY <1>8 DEF NotifyStatusChange
<1>9. CASE UNCHANGED vars
  BY <1>9 DEF vars
<1> QED BY <1>2, <1>3, <1>4, <1>5, <1>6, <1>7, <1>8, <1>9 DEF Next

\* A row is inserted by a request that goes on to its event, which links it.
LEMMA LinksStep ==
  ASSUME CallInv, RowsLinked, [Next]_vars
  PROVE  RowsLinked'
<1> USE IntegrationCallsAssumption DEF CallInv
<1>1. ASSUME NEW f \in Ref, NEW c, row'[f] = c, c # None
      PROVE  LinkOwed(c)'
  <2>1. CASE row[f] = c
    <3>1. c \in Request /\ LinkOwed(c)
      BY <1>1, <2>1 DEF TypeOK, RowsLinked
    <3> QED BY <3>1, LinkStays
  <2>2. CASE row[f] # c
    <3>1. PICK r \in Request : CreateRow(r)
      BY <1>1, <2>2 DEF Next, vars, Receive, FindExisting, DialAccepted, DialFailed,
         FindCustomer, CreateCustomer, CreateEvent, FindRaced, Reload,
         NotifyStatusChange, QueryFails
    <3>2. c = r /\ pc'[r] = "event"
      BY <1>1, <2>2, <3>1 DEF CreateRow, Goto, Order, TypeOK
    <3> QED BY <3>2 DEF LinkOwed
  <2> QED BY <2>1, <2>2
<1> QED BY <1>1 DEF RowsLinked, LinkOwed

\* A partner is told of a call only when the row is linked to the authorization
\* its media stream will look up, or the very next query of the creator links
\* it, or the creator has failed: what AnsweredIsAuthorised waits for is never
\* more than that one step away.  createOnDemandCall answers a re-sent request
\* from the row as soon as it is inserted, before the link is made.
THEOREM ToldCallsAreLinked == Spec => []ToldAreLinked
<1>1. CallInv /\ RowsLinked /\ [Next]_vars => (CallInv /\ RowsLinked)'
  BY CallsStep, LinksStep
<1>2. CallInv /\ RowsLinked => ToldAreLinked
  BY IntegrationCallsAssumption DEF CallInv, TypeOK, Answered, RowsLinked, ToldAreLinked
<1> QED BY <1>1, <1>2, InitCalls, LinksInit, PTL DEF Spec

-----------------------------------------------------------------------------
\* A step records a call, answers with the recorded one, refuses, or stutters.
LEMMA StepRefines ==
  ASSUME CallInv, [Next]_vars
  PROVE  [Abstract!Next]_(Abstract!vars)
<1> USE IntegrationCallsAssumption DEF CallInv
<1>1. ASSUME UNCHANGED <<row, answer>> PROVE UNCHANGED Abstract!vars
  BY <1>1 DEF Abstract!vars
<1>2. ASSUME NEW r \in Request, NEW c \in Request \cup {Error}, Reply(r, c), row' = row,
             answer[r] = None, c \in Request => row[RefOf[r]] # None /\ c = row[RefOf[r]]
      PROVE  Abstract!Next
  BY <1>2 DEF Reply, Abstract!Next, Abstract!Answer, Abstract!Refuse
<1>3. ASSUME NEW r \in Request, FindExisting(r)
      PROVE  Abstract!Next \/ UNCHANGED Abstract!vars
  <2>1. row[RefOf[r]] \in Request \cup {None} /\ answer[r] = None
    BY <1>3 DEF FindExisting, TypeOK, Answered
  <2>2. CASE row[RefOf[r]] = None
    BY <1>1, <1>3, <2>2 DEF FindExisting, Existing
  <2>3. CASE row[RefOf[r]] # None
    <3>1. Reply(r, row[RefOf[r]]) /\ row' = row
      BY <1>3, <2>3 DEF FindExisting, Existing
    <3> QED BY <1>2, <2>1, <2>3, <3>1
  <2> QED BY <2>2, <2>3
<1>4. ASSUME NEW r \in Request, CreateRow(r)
      PROVE  Abstract!Next \/ UNCHANGED Abstract!vars
  <2>1. answer[r] = None /\ answer' = answer
    BY <1>4 DEF CreateRow, Answered
  <2>2. CASE row[RefOf[r]] = None
    <3>1. row' = [row EXCEPT ![RefOf[r]] = r]
      BY <1>4, <2>2 DEF CreateRow, Free
    <3> QED BY <2>1, <2>2, <3>1 DEF Abstract!Next, Abstract!Record
  <2>3. CASE row[RefOf[r]] # None
    BY <1>1, <1>4, <2>1, <2>3 DEF CreateRow, Free
  <2> QED BY <2>2, <2>3
<1>5. ASSUME NEW r \in Request, FindRaced(r)
      PROVE  Abstract!Next
  <2>1. row[RefOf[r]] \in Request \cup {None} /\ answer[r] = None /\ row' = row
    BY <1>5 DEF FindRaced, TypeOK, Answered
  <2>2. CASE row[RefOf[r]] = None
    <3>1. Reply(r, Error)
      BY <1>5, <2>2 DEF FindRaced, Existing
    <3> QED BY <1>2, <2>1, <3>1
  <2>3. CASE row[RefOf[r]] # None
    <3>1. Reply(r, row[RefOf[r]])
      BY <1>5, <2>3 DEF FindRaced, Existing
    <3> QED BY <1>2, <2>1, <2>3, <3>1
  <2> QED BY <2>2, <2>3
<1>6. ASSUME NEW r \in Request, Reload(r)
      PROVE  Abstract!Next
  <2>1. Reply(r, r) /\ answer[r] = None /\ row' = row /\ row[RefOf[r]] = r
    BY <1>6 DEF Reload, Answered, Recorded
  <2> QED BY <1>2, <2>1
<1>7. ASSUME NEW r \in Request, DialFailed(r) \/ QueryFails(r)
      PROVE  Abstract!Next
  <2>1. Reply(r, Error) /\ answer[r] = None /\ row' = row
    BY <1>7 DEF DialFailed, QueryFails, Querying, Answered
  <2> QED BY <1>2, <2>1
<1>8. ASSUME NEW r \in Request,
             \/ Receive(r) \/ FindCustomer(r) \/ CreateCustomer(r) \/ CreateEvent(r)
             \/ NotifyStatusChange(r) \/ (\E hasSid \in BOOLEAN : DialAccepted(r, hasSid))
      PROVE  UNCHANGED Abstract!vars
  BY <1>1, <1>8 DEF Receive, FindCustomer, CreateCustomer, CreateEvent,
                    NotifyStatusChange, DialAccepted
<1>9. CASE UNCHANGED vars
  BY <1>1, <1>9 DEF vars
<1> QED BY <1>3, <1>4, <1>5, <1>6, <1>7, <1>8, <1>9 DEF Next

\* The service implements OneCallPerRef: however requests with one ref race and
\* fail, the partner is only ever told of the one call that was recorded for it.
THEOREM ServiceImplementsOneCallPerRef == Spec => IdempotentCalls
<1>1. Init => Abstract!Init
  BY DEF Init, Abstract!Init
<1>2. CallInv /\ [Next]_vars => [Abstract!Next]_(Abstract!vars)
  BY StepRefines
<1> QED BY <1>1, <1>2, CallsInvariant, PTL DEF Spec, IdempotentCalls, Abstract!Spec
=============================================================================
