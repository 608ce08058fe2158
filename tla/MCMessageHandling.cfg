CONSTANTS
  d1 = d1
  d2 = d2
  d3 = d3
  Deliveries = {d1, d2, d3}
  Credits = 2
SPECIFICATION Spec
SYMMETRY DeliverySymmetry
INVARIANTS
  TypeOK
  SettledOnce
  CreditConserved
  FinishedIsSettled
  AutomaticSettlement
PROPERTIES
  FirstSettlementStands
  ImplementsSlots
CHECK_DEADLOCK FALSE
