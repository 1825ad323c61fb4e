SPECIFICATION NegotiationSpec
CONSTANTS
  Requests = {r1, r2}
  MaxEvents = 2
  Nobody = Nobody
INVARIANTS
  RequestsAreSound
  ChangesAreNegotiated
PROPERTIES
  NegotiationSettles
CHECK_DEADLOCK FALSE
