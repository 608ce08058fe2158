------------------------- MODULE MCReceiverRecovery ------------------------
(* A small instance of ReceiverRecovery: three symmetric deliveries, all   *)
(* with a body that reaches the callback, or fails on arrival.             *)
EXTENDS ReceiverRecovery, TLC

CONSTANTS d1, d2, d3

MCDeliveries == {d1, d2, d3}

DeliverySymmetry == Permutations(MCDeliveries)

(* The listener of this instance: typed messages, so that all the ways of  *)
(* MessageHandling to a settlement are there; one setting of the options   *)
(* keeps the instance small, MCMessageHandling checks the others.          *)
OneListener ==
  /\ options = [typed |-> TRUE, skipValidation |-> FALSE, acceptNull |-> FALSE]
  /\ body \in [Deliveries -> {"unparsable", "object"}]

MCInit == RecoveryInit /\ OneListener

MCSpec == MCInit /\ [][RecoveryNext]_recovery

MCFairSpec == MCSpec /\ RecoveryFairness

=============================================================================
