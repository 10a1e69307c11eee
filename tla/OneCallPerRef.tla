---------------------------- MODULE OneCallPerRef ----------------------------
(***************************************************************************)
(* What the integration API promises about externalRef, the idempotency    *)
(* key: at most one call is ever recorded for it, and every request that   *)
(* is answered with a call is answered with that one.                      *)
(***************************************************************************)
CONSTANTS
  Request,   \* POST /integrations/v1/calls
  Ref,       \* externalRef values of one API key
  RefOf,     \* [Request -> Ref]
  None,      \* no call, no answer yet
  Error      \* an answer without a call

VARIABLES
  call,      \* [Ref -> Request \cup {None}]: the request that made the call
  answer     \* [Request -> Request \cup {None, Error}]: the call it was told

vars == <<call, answer>>

Init ==
  /\ call = [f \in Ref |-> None]
  /\ answer = [r \in Request |-> None]

Record(r) ==
  /\ call[RefOf[r]] = None
  /\ answer[r] = None
  /\ call' = [call EXCEPT ![RefOf[r]] = r]
  /\ UNCHANGED answer

Answer(r) ==
  /\ answer[r] = None
  /\ call[RefOf[r]] # None
  /\ answer' = [answer EXCEPT ![r] = call[RefOf[r]]]
  /\ UNCHANGED call

Refuse(r) ==
  /\ answer[r] = None
  /\ answer' = [answer EXCEPT ![r] = Error]
  /\ UNCHANGED call

Next == \E r \in Request : Record(r) \/ Answer(r) \/ Refuse(r)

Spec == Init /\ [][Next]_vars
=============================================================================
