CONSTANTS
  k1 = k1
  k2 = k2
  q1 = q1
  q2 = q2
  q3 = q3
  App = App
  Callers <- MCCallers
  Queues = {q1, q2, q3}
  Connections = {k1, k2}
  ConnectionOf <- MCConnectionOf
  Listeners <- MCListeners
  MaxRetryAttempts = 1
  RetryDelay = 0
  MaxLinks = 11
  MaxClears = 2
  MaxAppCalls = 1
SPECIFICATION ReattachmentFairSpec
INVARIANTS
  ReattachmentTypeOK
  ReattachedIsListening
  DuplicatesBounded
PROPERTIES
  EventBringsListenersBack
CHECK_DEADLOCK FALSE
