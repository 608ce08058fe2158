CONSTANTS
  d1 = d1
  d2 = d2
  d3 = d3
  Deliveries = {d1, d2, d3}
  Credits = 1
  MaxLosses = 1
SPECIFICATION MCSpec
INVARIANTS
  InFlightLimit
CHECK_DEADLOCK FALSE
