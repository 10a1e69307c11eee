--------------------------- MODULE OneShotGrants ---------------------------
(***************************************************************************)
(* What the platform promises about call authorizations, with no mention   *)
(* of maps, Redis or matching rules: an authorization that was issued may  *)
(* be taken by one media stream, once, and a stream takes at most one.     *)
(***************************************************************************)
CONSTANTS
  Auth,     \* authorization ids (one per outbound call the app initiated)
  Stream,   \* media streams that ask to be authorised
  None      \* "no authorization"

VARIABLES
  issued,   \* authorizations registered so far
  took      \* took[s]: the authorization stream s consumed, or None

vars == <<issued, took>>

Init ==
  /\ issued = {}
  /\ took = [s \in Stream |-> None]

Issue(a) ==
  /\ a \in Auth \ issued
  /\ issued' = issued \cup {a}
  /\ UNCHANGED took

Take(s, a) ==
  /\ a \in issued
  /\ took[s] = None
  /\ \A t \in Stream : took[t] # a
  /\ took' = [took EXCEPT ![s] = a]
  /\ UNCHANGED issued

Next ==
  \/ \E a \in Auth : Issue(a)
  \/ \E s \in Stream, a \in Auth : Take(s, a)

Spec == Init /\ [][Next]_vars
=============================================================================
