--------------------------- MODULE MCNegotiation ---------------------------
(* Instances of Negotiation for TLC. Requests are interchangeable, which a  *)
(* run may use that checks no liveness.                                     *)
EXTENDS Negotiation, TLC

AnyRequest == Permutations(Requests)
=============================================================================
