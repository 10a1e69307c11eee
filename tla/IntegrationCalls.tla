-------------------------- MODULE IntegrationCalls --------------------------
(***************************************************************************)
(* POST /integrations/v1/calls: IntegrationCallsService.createOnDemandCall *)
(* and the initiateCall of the provider it dials with.  Every await is a   *)
(* query or an HTTP request, so requests with one externalRef interleave   *)
(* at each of them; the unique index on (apiKeyId, externalRef) is what    *)
(* they meet at.  Smartflo registers the call authorization when all is    *)
(* written, Exotel before it dials.                                        *)
(***************************************************************************)
EXTENDS Naturals, FiniteSets

CONSTANTS
  Request,    \* requests received, of one API key
  Ref,        \* externalRef values
  Phone,      \* normalised customer numbers
  RefOf,      \* [Request -> Ref]
  PhoneOf,    \* [Request -> Phone]
  None, Error,
  MaxFaults   \* bound: queries that reject

ASSUME IntegrationCallsAssumption ==
  /\ RefOf \in [Request -> Ref]
  /\ PhoneOf \in [Request -> Phone]
  /\ None \notin Request /\ Error \notin Request /\ None # Error
  /\ MaxFaults \in Nat

VARIABLES
  provider,   \* TELEPHONY_PROVIDER
  pc,         \* [Request -> step]: the await it is at
  resent,     \* requests sent after one with their ref was told of a call
  row,        \* [Ref -> Request \cup {None}]: the Call row, by its creator
  customers,  \* requests that created a Customer row for their number
  events,     \* requests that created their call's first CallEvent
  rang,       \* requests the provider dialled for
  auth,       \* [Request -> record]: its call authorization, and whether the
              \* answer to the dial named a SID for it
  answer,     \* [Request -> Request \cup {None, Error}]: the call it was told
  announce,   \* [Request -> status]: `void notifyStatusChange`
  faults

vars == <<provider, pc, resent, row, customers, events, rang, auth, answer,
          announce, faults>>

Querying == {"find", "customer", "newCustomer", "row", "event", "raced", "reload"}
Steps == Querying \cup {"dial"}

Init ==
  /\ provider \in {"smartflo", "exotel"}
  /\ pc = [r \in Request |-> "idle"]
  /\ resent = {}
  /\ row = [f \in Ref |-> None]
  /\ customers = {}
  /\ events = {}
  /\ rang = {}
  /\ auth = [r \in Request |-> [registered |-> FALSE, sid |-> FALSE, callId |-> FALSE]]
  /\ answer = [r \in Request |-> None]
  /\ announce = [r \in Request |-> "idle"]
  /\ faults = 0

-----------------------------------------------------------------------------
Goto(r, step) == pc' = [pc EXCEPT ![r] = step]

\* The request is answered with call c, or Error.
Reply(r, c) ==
  /\ answer' = [answer EXCEPT ![r] = c]
  /\ Goto(r, "done")

\* Some request with the ref of r has been told of a call.
Told(r) == \E t \in Request : RefOf[t] = RefOf[r] /\ answer[t] \in Request

\* A request comes in.
Receive(r) ==
  /\ pc[r] = "idle"
  /\ Goto(r, "find")
  /\ resent' = IF Told(r) THEN resent \cup {r} ELSE resent
  /\ UNCHANGED <<provider, row, customers, events, rang, auth, answer, announce, faults>>

\* Mutant: calls are found by the SID the provider gave them, if it did.
ExistingWithSid(r) ==
  LET c == row[RefOf[r]] IN IF c # None /\ auth[c].sid THEN c ELSE None

\* findUnique on apiKeyId_externalRef
Existing(r) == row[RefOf[r]]

\* Mutant: the row is inserted before the provider is asked.
OrderRowFirst == [found |-> "customer", accepted |-> "event", inserted |-> "dial"]

\* Which await follows an empty lookup, an accepted dial and an insert.
Order == [found |-> "dial", accepted |-> "customer", inserted |-> "event"]

\* The lookup of createOnDemandCall: an idempotent replay, or the start of
\* initiateCall, which with Exotel registers the authorization.
FindExisting(r) ==
  /\ pc[r] = "find"
  /\ IF Existing(r) # None
       THEN Reply(r, Existing(r)) /\ UNCHANGED auth
       ELSE /\ Goto(r, Order.found)
            /\ auth' = IF provider = "exotel"
                         THEN [auth EXCEPT ![r].registered = TRUE] ELSE auth
            /\ UNCHANGED answer
  /\ UNCHANGED <<provider, resent, row, customers, events, rang, announce, faults>>

\* The provider dials the customer; the SID may be missing from its answer.
DialAccepted(r, hasSid) ==
  /\ pc[r] = "dial"
  /\ rang' = rang \cup {r}
  /\ Goto(r, Order.accepted)
  /\ auth' = [auth EXCEPT ![r].sid = hasSid]
  /\ UNCHANGED <<provider, resent, row, customers, events, answer, announce, faults>>

\* It refuses, or cannot be reached, or its answer is lost on the way.
DialFailed(r) ==
  /\ pc[r] = "dial"
  /\ rang' \in {rang, rang \cup {r}}
  /\ Reply(r, Error)
  /\ UNCHANGED <<provider, resent, row, customers, events, auth, announce, faults>>

\* createLiveAnalysisCallRecord: the customer is found ...
FindCustomer(r) ==
  /\ pc[r] = "customer"
  /\ Goto(r, IF \E c \in customers : PhoneOf[c] = PhoneOf[r] THEN "row" ELSE "newCustomer")
  /\ UNCHANGED <<provider, resent, row, customers, events, rang, auth, answer,
                 announce, faults>>

\* ... or created: nothing makes phone numbers unique.
CreateCustomer(r) ==
  /\ pc[r] = "newCustomer"
  /\ customers' = customers \cup {r}
  /\ Goto(r, "row")
  /\ UNCHANGED <<provider, resent, row, events, rang, auth, answer, announce, faults>>

\* Mutant: externalRef is indexed but not unique.
FreeAlways(f) == TRUE

\* The unique index on (apiKeyId, externalRef).
Free(f) == row[f] = None

\* Mutant: a rejected insert is tried again.
CollidedRetry == "row"

\* Where a unique-constraint error goes.
Collided == "raced"

\* prisma.call.create
CreateRow(r) ==
  /\ pc[r] = "row"
  /\ IF Free(RefOf[r])
       THEN row' = [row EXCEPT ![RefOf[r]] = r] /\ Goto(r, Order.inserted)
       ELSE Goto(r, Collided) /\ UNCHANGED row
  /\ UNCHANGED <<provider, resent, customers, events, rang, auth, answer, announce, faults>>

\* Mutant: the SID is linked, the row is not.
LinkedSidOnly(r) == [registered |-> TRUE, sid |-> auth[r].sid, callId |-> FALSE]

\* register with the SID and the row (Smartflo), linkProviderCallDetails (Exotel).
Linked(r) == [registered |-> TRUE, sid |-> auth[r].sid, callId |-> TRUE]

\* prisma.callEvent.create, after which initiateCall returns.
CreateEvent(r) ==
  /\ pc[r] = "event"
  /\ events' = events \cup {r}
  /\ auth' = [auth EXCEPT ![r] = Linked(r)]
  /\ Goto(r, "reload")
  /\ UNCHANGED <<provider, resent, row, customers, rang, answer, announce, faults>>

\* The catch block of createOnDemandCall looks for the row that was first.
FindRaced(r) ==
  /\ pc[r] = "raced"
  /\ Reply(r, IF Existing(r) # None THEN Existing(r) ELSE Error)
  /\ UNCHANGED <<provider, resent, row, customers, events, rang, auth, announce, faults>>

\* findUniqueOrThrow, then `void notifyStatusChange` and the reply.
Reload(r) ==
  /\ pc[r] = "reload"
  /\ Reply(r, r)
  /\ announce' = [announce EXCEPT ![r] = "post"]
  /\ UNCHANGED <<provider, resent, row, customers, events, rang, auth, faults>>

\* notifyStatusChange: the webhook is posted, or the failure logged.
NotifyStatusChange(r) ==
  /\ announce[r] = "post"
  /\ announce' \in {[announce EXCEPT ![r] = x] : x \in {"sent", "failed"}}
  /\ UNCHANGED <<provider, pc, resent, row, customers, events, rang, auth, answer, faults>>

\* A query rejects, and the request with it.
QueryFails(r) ==
  /\ pc[r] \in Querying
  /\ faults < MaxFaults
  /\ faults' = faults + 1
  /\ Reply(r, Error)
  /\ UNCHANGED <<provider, resent, row, customers, events, rang, auth, announce>>

-----------------------------------------------------------------------------
Advance(r) ==
  \/ FindExisting(r) \/ (\E hasSid \in BOOLEAN : DialAccepted(r, hasSid))
  \/ DialFailed(r) \/ FindCustomer(r) \/ CreateCustomer(r) \/ CreateRow(r)
  \/ CreateEvent(r) \/ FindRaced(r) \/ Reload(r)

Next ==
  \/ \E r \in Request : Receive(r)
  \/ \E r \in Request : FindExisting(r)
  \/ \E r \in Request : \E hasSid \in BOOLEAN : DialAccepted(r, hasSid)
  \/ \E r \in Request : DialFailed(r)
  \/ \E r \in Request : FindCustomer(r)
  \/ \E r \in Request : CreateCustomer(r)
  \/ \E r \in Request : CreateRow(r)
  \/ \E r \in Request : CreateEvent(r)
  \/ \E r \in Request : FindRaced(r)
  \/ \E r \in Request : Reload(r)
  \/ \E r \in Request : NotifyStatusChange(r)
  \/ \E r \in Request : QueryFails(r)

Spec == Init /\ [][Next]_vars

\* Queries and HTTP requests are answered or reject.
FairSpec == Spec /\ \A r \in Request : WF_vars(Advance(r))

-----------------------------------------------------------------------------
(* Properties.                                                             *)

\* Types of the variables.
TypeOK ==
  /\ provider \in {"smartflo", "exotel"}
  /\ pc \in [Request -> Steps \cup {"idle", "done"}]
  /\ resent \subseteq Request
  /\ row \in [Ref -> Request \cup {None}]
  /\ customers \subseteq Request /\ events \subseteq Request /\ rang \subseteq Request
  /\ auth \in [Request -> [registered : BOOLEAN, sid : BOOLEAN, callId : BOOLEAN]]
  /\ answer \in [Request -> Request \cup {None, Error}]
  /\ announce \in [Request -> {"idle", "post", "sent", "failed"}]
  /\ faults \in Nat

\* The call a partner is told of was dialled, although the request that dialled
\* it may be another one, still between its own awaits or already failed.
AnswerRang == \A r \in Request : answer[r] \in Request => answer[r] \in rang

\* "Re-sending the same externalRef ... returns the existing call": once any
\* request was told of a call, a later one with its ref never dials again, not
\* even when the first reply was lost or other requests failed in between.
ResendNeverDials == resent \cap rang = {}

\* A call a partner is told of gets an authorization that knows its row, unless
\* the request that made it fails; without one its media stream is rejected or
\* its transcript has no call to belong to.
AnsweredIsAuthorised ==
  \A c \in Request :
    (\E r \in Request : answer[r] = c) ~> (auth[c].callId \/ answer[c] = Error)

\* Every request is answered, also the one whose insert collides.
RequestAnswered == \A r \in Request : pc[r] = "find" ~> answer[r] # None

\* "externalRef: ... (idempotency key)": one phone call per ref.
DialledOnce == \A r, t \in rang : RefOf[r] = RefOf[t] => r = t

\* The promise of OneCallPerRef, with the Call row as the recorded call.
Abstract == INSTANCE OneCallPerRef WITH call <- row
IdempotentCalls == Abstract!Spec
=============================================================================
