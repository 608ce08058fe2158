-------------------------- MODULE ReceiverRecovery -------------------------
(***************************************************************************)
(* MessageHandling on a connection that breaks: rhea reconnects the        *)
(* transport and attaches the same Receiver object again, which fires its  *)
(* receiver_open event a second time.  The handler registered in           *)
(* AMQPService.createReceiver() then tops the credit of the link up.       *)
(*                                                                         *)
(* Deliveries that were in flight when the link broke are stale: the       *)
(* broker takes their messages back, but their controls still hold the     *)
(* receiver and add a credit when somebody settles them.                   *)
(***************************************************************************)
EXTENDS MessageHandling

CONSTANTS
  MaxLosses     (* bound: how often the connection breaks                  *)

ASSUME MaxLossesAssumption == MaxLosses \in Nat

VARIABLES
  link,         (* "open" or "lost": the attachment of the receiver        *)
  stale,        (* deliveries that were in flight when the link broke      *)
  losses        (* how often it has broken                                 *)

recovery == <<options, body, phase, callback, handled, dispositions, credit,
              link, stale, losses>>

RecoveryTypeOK ==
  /\ TypeOK
  /\ link \in {"open", "lost"}
  /\ stale \subseteq Deliveries
  /\ losses \in 0..MaxLosses

RecoveryInit ==
  /\ Init
  /\ link = "open"
  /\ stale = {}
  /\ losses = 0

-----------------------------------------------------------------------------
(* The connection breaks: what is unsettled belongs to an attachment that  *)
(* no longer exists.                                                       *)
LinkLost ==
  /\ link = "open"
  /\ losses < MaxLosses
  /\ link' = "lost"
  /\ stale' = stale \cup Unsettled
  /\ losses' = losses + 1
  /\ UNCHANGED handling

(* Two forms of the top-up that the specification does not use: without    *)
(* the addCredit() of the handler, and adding the configured credits       *)
(* without looking at what is there.                                       *)
NoTopUp(current) == current

TopUpInFull(current) == current + Credits

TopUp(current) ==
  IF current < Credits THEN current + (Credits - current) ELSE current

(* receiver_open: the new attachment starts with the credit the Receiver   *)
(* object still counts or with none, as rhea chooses.                      *)
ReceiverOpen ==
  /\ link = "lost"
  /\ link' = "open"
  /\ \E current \in {0, credit} : credit' = TopUp(current)
  /\ UNCHANGED <<options, body, phase, callback, handled, dispositions,
                 stale, losses>>

(* A message arrives only over an open link.                               *)
Receive(d) ==
  /\ link = "open"
  /\ OnMessage(d)
  /\ UNCHANGED <<link, stale, losses>>

(* Handlers and user code go on whether the link is there or not.          *)
Work(d) ==
  /\ Handle(d) \/ \E outcome \in Outcomes : UserSettles(d, outcome)
  /\ UNCHANGED <<link, stale, losses>>

RecoveryNext ==
  \/ LinkLost
  \/ ReceiverOpen
  \/ \E d \in Deliveries : Receive(d) \/ Work(d)

RecoverySpec == RecoveryInit /\ [][RecoveryNext]_recovery

(* As in MessageHandling, and rhea's reconnect succeeds in the end.        *)
RecoveryFairness ==
  /\ WF_recovery(ReceiverOpen)
  /\ \A d \in Deliveries :
       WF_recovery(Handle(d) /\ UNCHANGED <<link, stale, losses>>)
  /\ WF_recovery(\E d \in Deliveries : Receive(d))

RecoveryFairSpec == RecoverySpec /\ RecoveryFairness

-----------------------------------------------------------------------------
(* What is in flight over the present attachment of the link.              *)
InFlight == Unsettled \ stale

(* A broken connection costs the listener no capacity: once the link is    *)
(* open again, credit and the deliveries of this attachment add up to at   *)
(* least the configured number, however many credits rhea dropped.         *)
NoCreditLost ==
  link = "open" =>
    /\ IsFiniteSet(InFlight)
    /\ credit + Cardinality(InFlight) >= Credits

(* The surplus of credit is bounded by the deliveries that were in flight  *)
(* when the connection broke: each of them adds at most one extra credit.  *)
SurplusBounded ==
  /\ IsFiniteSet(stale) /\ IsFiniteSet(Unsettled)
  /\ credit + Cardinality(Unsettled) <= Credits + Cardinality(stale)

(* README "parallelMessageProcessing: the most number of messages that     *)
(* should be processed at the same time": at most Credits deliveries of    *)
(* the present attachment await their settlement.                          *)
InFlightLimit == Cardinality(InFlight) <= Credits

=============================================================================
