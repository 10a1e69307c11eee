------------------------ MODULE MCCallAuthorization ------------------------
(* Small instances of CallAuthorization for TLC.                           *)
EXTENDS CallAuthorization, TLC

CONSTANTS a1, a2, s1, s2, d1, d2, n1, n2, n3, did

\* did is the number the calls come from; n2 is n1 spelled with another prefix.
MCSuffixOf == n1 :> 1 @@ n2 :> 1 @@ n3 :> 3 @@ did :> 4
MCSidOf == [a \in Auth |-> IF a = a1 THEN d1 ELSE d2]

\* Contended: both calls go to one number (a retry, two bookings of one
\* customer), and both streams carry the SID of call a1 (a reconnect).
ContendedPhoneOf == [a \in Auth |-> n1]
ContendedCall == [s \in Stream |-> a1]
ContendedSid == [s \in Stream |-> d1]
ContendedPhones == [s \in Stream |-> IF s = s1 THEN <<did, n1>> ELSE <<did, n2>>]

\* Distinct: each stream is of one call; s2 does not name its SID.
DistinctPhoneOf == [a \in Auth |-> IF a = a1 THEN n1 ELSE n3]
DistinctSid == [s \in Stream |-> IF s = s1 THEN d1 ELSE None]
DistinctPhones == [s \in Stream |-> IF s = s1 THEN <<did, n1>> ELSE <<n3>>]
DistinctCall == [s \in Stream |-> IF s = s1 THEN a1 ELSE a2]
=============================================================================
