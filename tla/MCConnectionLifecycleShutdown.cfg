CONSTANTS
  MaxCloses = 2
SPECIFICATION Spec
INVARIANTS
  ClosedForGood
CHECK_DEADLOCK FALSE
