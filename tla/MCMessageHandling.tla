------------------------- MODULE MCMessageHandling -------------------------
(* A small instance of MessageHandling: three deliveries, symmetric.       *)
EXTENDS MessageHandling, TLC

CONSTANTS d1, d2, d3

MCDeliveries == {d1, d2, d3}

DeliverySymmetry == Permutations(MCDeliveries)

=============================================================================
