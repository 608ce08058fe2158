CONSTANTS
  MaxCloses = 3
SPECIFICATION FairSpec
INVARIANTS
  TypeOK
  OneReopeningAtATime
  EveryErrorCloseAccounted
  ClosedStaysClosed
PROPERTIES
  ErrorCloseIsAnswered
CHECK_DEADLOCK FALSE
