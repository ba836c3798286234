--------------------------- MODULE MCHAAddresses ---------------------------
(* Three members and two addresses that are nobody's.                        *)
EXTENDS HAAddresses, TLC

CONSTANTS m1, m2, m3, s1, s2, s3, a, b

ThreeMembers == {m1, m2, m3}
MCStable     == (m1 :> s1 @@ m2 :> s2 @@ m3 :> s3)
MCOthers     == {a, b}
=============================================================================
