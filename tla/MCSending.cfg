CONSTANTS
  c1 = c1
  c2 = c2
  q1 = q1
  Callers = {c1, c2}
  Queues = {q1}
  MaxRetryAttempts = 2
  RetryDelay = 1
  MaxLinks = 3
  MaxClears = 1
  Missing = Missing
  Unset = Unset
  Divisions = {0, 1, 7, 12, 60, 1000, 100000}
  Delays = {0, 1, 10}
  MaxDelay = 5
SPECIFICATION SendingFairSpec
INVARIANTS
  SendingTypeOK
  OrphansNeedOverlap
  AllAttemptsMade
  RemovedAtMostOnce
  OneMessagePerSend
  SpreadOverMinute
  ScheduleKept
PROPERTIES
  EverySendReturns
  DeadSenderStays
