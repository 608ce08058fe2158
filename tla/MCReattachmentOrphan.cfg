CONSTANTS
  k1 = k1
  k2 = k2
  q1 = q1
  q2 = q2
  q3 = q3
  App = App
  Callers <- MCCallers
  Queues = {q1, q2, q3}
  Connections = {k1, k2}
  ConnectionOf <- MCConnectionOf
  Listeners <- MCListeners
  MaxRetryAttempts = 1
  RetryDelay = 0
  MaxLinks = 4
  MaxClears = 1
  MaxAppCalls = 0
SPECIFICATION ReattachmentSpec
INVARIANTS
  OneReceiverPerListener
CHECK_DEADLOCK FALSE
