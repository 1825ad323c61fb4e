------------------------- MODULE MCReliableDelivery -------------------------
EXTENDS ReliableDelivery

CONSTANTS s1, s2, r1, r2

MCSenders == {s1, s2}
MCOneReplay == {r1}
MCPacketSize == [n \in 1..MaxClaims |-> IF n = 2 THEN 2 ELSE 1]
=============================================================================
