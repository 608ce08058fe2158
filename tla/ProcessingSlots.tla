-------------------------- MODULE ProcessingSlots --------------------------
(***************************************************************************)
(* What one receiver of nest-amqp promises about its queue, without any of *)
(* its mechanism: it owns Slots processing slots, a message that is taken  *)
(* holds one of them until it is settled, a settled message is never taken *)
(* again, and a slot is neither lost nor invented.                         *)
(*                                                                         *)
(* MessageHandling implements this module: a free slot is a credit, a busy *)
(* message is a delivery the library has not settled yet.                  *)
(***************************************************************************)
EXTENDS Naturals, FiniteSets

CONSTANTS
  Messages,   (* the messages the queue holds                              *)
  Slots       (* a number: parallelMessageProcessing of the listener       *)

VARIABLES
  free,       (* number of free slots                                      *)
  busy,       (* messages that hold a slot                                 *)
  served      (* messages that have been settled                           *)

slotVars == <<free, busy, served>>

Init ==
  /\ free = Slots
  /\ busy = {}
  /\ served = {}

(* A message starts to be processed.                                       *)
Take(m) ==
  /\ m \notin busy \cup served
  /\ free > 0
  /\ free' = free - 1
  /\ busy' = busy \cup {m}
  /\ UNCHANGED served

(* A message is turned down on arrival: its slot is free again at once.    *)
Refuse(m) ==
  /\ m \notin busy \cup served
  /\ free > 0
  /\ served' = served \cup {m}
  /\ UNCHANGED <<free, busy>>

(* A message that is being processed is settled and gives its slot back.   *)
Finish(m) ==
  /\ m \in busy
  /\ free' = free + 1
  /\ busy' = busy \ {m}
  /\ served' = served \cup {m}

Next == \E m \in Messages : Take(m) \/ Refuse(m) \/ Finish(m)

Spec == Init /\ [][Next]_slotVars

=============================================================================
