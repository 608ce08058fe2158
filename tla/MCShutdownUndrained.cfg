CONSTANTS
  r1 = r1
  r2 = r2
  c1 = c1
  c2 = c2
  Receivers = {r1, r2}
  Connections <- MCConnections
  ConnectionOf <- MCConnectionOf
  Credits <- MCCredits
  MaxMessages = 1
SPECIFICATION Spec
INVARIANTS
  Drained
CHECK_DEADLOCK FALSE
