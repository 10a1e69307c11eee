------------------------- MODULE MCIntegrationCalls -------------------------
(* A small instance of IntegrationCalls for TLC.                           *)
EXTENDS IntegrationCalls, TLC

CONSTANTS r1, r2, r3, x, y

\* Two requests with one ref, and a third call to the same customer.
MCRefOf == r1 :> x @@ r2 :> x @@ r3 :> y
MCPhoneOf == [r \in Request |-> 1]
TwinRefOf == [r \in Request |-> x]
=============================================================================
