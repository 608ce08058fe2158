----------------------- MODULE ReceiverRecoveryProofs ----------------------
(***************************************************************************)
(* Proofs about ReceiverRecovery, for every number of deliveries, credits  *)
(* and connection losses.  The steps of MessageHandling keep its inductive *)
(* invariant here too, and move the slots as they do there; what is new is *)
(* which unsettled deliveries are stale.                                   *)
(***************************************************************************)
EXTENDS ReceiverRecovery, MessageHandlingProofs

(* Stale deliveries have been sent; while the link is lost every unsettled *)
(* delivery is stale.                                                      *)
StaleIsSent == \A d \in stale : d \in Deliveries /\ phase[d] # "queued"

LostIsStale == link = "lost" => Unsettled \subseteq stale

RecoveryInv ==
  /\ IInv
  /\ RecoveryTypeOK
  /\ StaleIsSent
  /\ LostIsStale
  /\ SurplusBounded
  /\ NoCreditLost

-----------------------------------------------------------------------------
LEMMA RecoveryInvInit == RecoveryInit => RecoveryInv
<1> SUFFICES ASSUME RecoveryInit PROVE RecoveryInv
  OBVIOUS
<1>1. IInv
  BY IInvInit DEF RecoveryInit
<1>2. RecoveryTypeOK
  BY <1>1, MaxLossesAssumption DEF RecoveryInit, RecoveryTypeOK, IInv
<1>3. Unsettled = {} /\ InFlight = {} /\ stale = {} /\ credit = Credits
  BY DEF RecoveryInit, Init, Unsettled, InFlight
<1>4. SurplusBounded /\ NoCreditLost
  BY <1>3, FS_EmptySet, CreditsAssumption DEF SurplusBounded, NoCreditLost
<1> QED
  BY <1>1, <1>2, <1>3, <1>4
     DEF RecoveryInv, StaleIsSent, LostIsStale

(* Topping up never leaves less than the configured credits, and never     *)
(* more than those or than what was there.                                 *)
LEMMA TopUpBounds ==
  ASSUME NEW current \in Nat
  PROVE  /\ TopUp(current) \in Nat
         /\ TopUp(current) >= Credits
         /\ TopUp(current) = Credits \/ TopUp(current) = current
  BY CreditsAssumption DEF TopUp

(* What a step of MessageHandling may do to the slots keeps the books.     *)
LEMMA SlotMoveKeepsBooks ==
  ASSUME RecoveryInv, TypeOK', NEW d \in Deliveries,
         UNCHANGED <<link, stale, losses>>,
         \/ /\ link = "open" /\ d \notin stale
            /\ Slots!Take(d) \/ Slots!Refuse(d)
         \/ Slots!Finish(d)
         \/ UNCHANGED Slots!slotVars
  PROVE  LostIsStale' /\ SurplusBounded' /\ NoCreditLost'
<1> DEFINE U == Cardinality(Unsettled)
           F == Cardinality(InFlight)
           S == Cardinality(stale)
<1>1. /\ IsFiniteSet(Unsettled) /\ IsFiniteSet(stale)
      /\ IsFiniteSet(InFlight)
  BY FS_Subset DEF RecoveryInv, SurplusBounded, InFlight
<1>2. U \in Nat /\ F \in Nat /\ S \in Nat /\ credit \in Nat /\ Credits \in Nat
  BY <1>1, FS_CardinalityType, CreditsAssumption DEF RecoveryInv, IInv, TypeOK
<1>3. credit + U <= Credits + S
  BY DEF RecoveryInv, SurplusBounded
<1>4. link = "open" => credit + F >= Credits
  BY DEF RecoveryInv, NoCreditLost
<1>5. CASE link = "open" /\ d \notin stale /\ Slots!Take(d)
  <2>1. /\ credit' = credit - 1
        /\ Unsettled' = Unsettled \cup {d}
        /\ d \notin Unsettled
    BY <1>5 DEF Slots!Take
  <2>2. InFlight' = InFlight \cup {d} /\ d \notin InFlight
    BY <1>5, <2>1 DEF InFlight
  <2>3. IsFiniteSet(Unsettled') /\ Cardinality(Unsettled') = U + 1
    BY <1>1, <2>1, FS_AddElement
  <2>4. IsFiniteSet(InFlight') /\ Cardinality(InFlight') = F + 1
    BY <1>1, <2>2, FS_AddElement
  <2>5. SurplusBounded' /\ NoCreditLost'
    BY <1>1, <1>2, <1>3, <1>4, <2>1, <2>3, <2>4
       DEF SurplusBounded, NoCreditLost
  <2> QED
    BY <1>5, <2>5 DEF LostIsStale
<1>6. CASE (link = "open" /\ Slots!Refuse(d)) \/ UNCHANGED Slots!slotVars
  <2>1. credit' = credit /\ Unsettled' = Unsettled
    BY <1>6 DEF Slots!Refuse, Slots!slotVars
  <2>2. InFlight' = InFlight
    BY <2>1 DEF InFlight
  <2> QED
    BY <2>1, <2>2 DEF RecoveryInv, LostIsStale, SurplusBounded, NoCreditLost
<1>7. CASE Slots!Finish(d)
  <2>1. /\ credit' = credit + 1
        /\ Unsettled' = Unsettled \ {d}
        /\ d \in Unsettled
    BY <1>7 DEF Slots!Finish
  <2>2. IsFiniteSet(Unsettled') /\ Cardinality(Unsettled') = U - 1
    BY <1>1, <2>1, FS_RemoveElement
  <2>3. /\ IsFiniteSet(InFlight')
        /\ Cardinality(InFlight') \in {F, F - 1}
    <3>1. CASE d \in stale
      <4>1. InFlight' = InFlight
        BY <2>1, <3>1 DEF InFlight
      <4> QED
        BY <1>1, <4>1
    <3>2. CASE d \notin stale
      <4>1. InFlight' = InFlight \ {d} /\ d \in InFlight
        BY <2>1, <3>2 DEF InFlight
      <4> QED
        BY <1>1, <4>1, FS_RemoveElement
    <3> QED
      BY <3>1, <3>2
  <2>4. SurplusBounded'
    BY <1>1, <1>2, <1>3, <2>1, <2>2 DEF SurplusBounded
  <2>5. NoCreditLost'
    BY <1>2, <1>4, <2>1, <2>3 DEF NoCreditLost
  <2>6. LostIsStale'
    BY <2>1 DEF RecoveryInv, LostIsStale
  <2> QED
    BY <2>4, <2>5, <2>6
<1> QED
  BY <1>5, <1>6, <1>7

(* Losing the link turns what is unsettled stale.                          *)
LEMMA LinkLostStep ==
  ASSUME RecoveryInv, LinkLost
  PROVE  RecoveryInv'
<1>1. /\ UNCHANGED <<credit, phase>>
      /\ Unsettled' = Unsettled
      /\ stale' = stale \cup Unsettled
      /\ link' = "lost"
  BY DEF LinkLost, handling, Unsettled
<1>2. IInv'
  BY IInvStep DEF LinkLost, RecoveryInv
<1>3. RecoveryTypeOK'
  BY <1>1, <1>2, MaxLossesAssumption
     DEF LinkLost, RecoveryInv, IInv, RecoveryTypeOK, Unsettled
<1>4. SurplusBounded'
  <2>1. IsFiniteSet(stale')
    BY <1>1, FS_Union DEF RecoveryInv, SurplusBounded
  <2>2. Cardinality(stale) <= Cardinality(stale')
    BY <1>1, <2>1, FS_Subset
  <2>3. /\ Cardinality(stale) \in Nat /\ Cardinality(stale') \in Nat
        /\ Cardinality(Unsettled) \in Nat
        /\ credit \in Nat
    BY <2>1, FS_CardinalityType
       DEF RecoveryInv, SurplusBounded, IInv, TypeOK
  <2> QED
    BY <1>1, <2>1, <2>2, <2>3, CreditsAssumption
       DEF RecoveryInv, SurplusBounded
<1>5. StaleIsSent'
  BY <1>1 DEF RecoveryInv, StaleIsSent, Unsettled
<1> QED
  BY <1>1, <1>2, <1>3, <1>4, <1>5 DEF RecoveryInv, LostIsStale, NoCreditLost

(* A new attachment has at least the configured credits.                   *)
LEMMA ReceiverOpenStep ==
  ASSUME RecoveryInv, ReceiverOpen
  PROVE  RecoveryInv'
<1>1. /\ UNCHANGED <<options, body, phase, callback, handled, dispositions,
                     stale, losses>>
      /\ link = "lost" /\ link' = "open"
      /\ Unsettled' = Unsettled /\ InFlight' = InFlight
  BY DEF ReceiverOpen, Unsettled, InFlight
<1>2. /\ credit' \in Nat
      /\ credit' >= Credits
      /\ credit' = Credits \/ credit' <= credit
  <2>1. PICK current \in {0, credit} : credit' = TopUp(current)
    BY DEF ReceiverOpen
  <2>2. current \in Nat /\ current <= credit
    BY DEF RecoveryInv, IInv, TypeOK
  <2> QED
    BY <2>1, <2>2, TopUpBounds, CreditsAssumption
<1>3. IInv' /\ RecoveryTypeOK' /\ StaleIsSent'
  BY <1>1, <1>2
     DEF RecoveryInv, IInv, RecoveryTypeOK, TypeOK, StaleIsSent,
         QueuedIsUntouched, SettledOnce, FinishedIsSettled
<1>4. /\ IsFiniteSet(Unsettled) /\ IsFiniteSet(stale) /\ IsFiniteSet(InFlight)
      /\ Cardinality(Unsettled) <= Cardinality(stale)
  BY <1>1, FS_Subset
     DEF RecoveryInv, LostIsStale, SurplusBounded, InFlight
<1>5. /\ Cardinality(Unsettled) \in Nat /\ Cardinality(stale) \in Nat
      /\ Cardinality(InFlight) \in Nat /\ credit \in Nat
  BY <1>4, FS_CardinalityType DEF RecoveryInv, IInv, TypeOK
<1>6. SurplusBounded'
  BY <1>1, <1>2, <1>4, <1>5, CreditsAssumption
     DEF RecoveryInv, SurplusBounded
<1>7. NoCreditLost'
  BY <1>1, <1>2, <1>4, <1>5, CreditsAssumption DEF NoCreditLost
<1> QED
  BY <1>1, <1>3, <1>6, <1>7 DEF RecoveryInv, LostIsStale

(* Steps of MessageHandling never send a delivery back to the queue.       *)
LEMMA SentStaysSent ==
  ASSUME TypeOK, Next
  PROVE  \A e \in Deliveries : phase[e] # "queued" => phase'[e] # "queued"
  BY DEF TypeOK, GoesTo, Next, OnMessage, Handle, ValidationSucceeds,
         NullObjectReceived, ValidationFails, ValidationThrowsNonError,
         CallbackReturns, CallbackThrows, CallbackThrowsNonError, SafetyNet,
         UserSettles

(* Every action keeps the invariant.                                       *)
LEMMA RecoveryInvStep == RecoveryInv /\ [RecoveryNext]_recovery => RecoveryInv'
<1> SUFFICES ASSUME RecoveryInv, [RecoveryNext]_recovery PROVE RecoveryInv'
  OBVIOUS
<1>1. CASE UNCHANGED recovery
  <2>1. /\ UNCHANGED <<handling, phase, credit, link, stale, losses>>
        /\ Unsettled' = Unsettled /\ InFlight' = InFlight
    BY <1>1 DEF recovery, handling, Unsettled, InFlight
  <2>2. IInv'
    BY <2>1, IInvStep DEF RecoveryInv
  <2> QED
    BY <2>1, <2>2
       DEF RecoveryInv, IInv, RecoveryTypeOK, StaleIsSent, LostIsStale,
           SurplusBounded, NoCreditLost
<1>2. CASE LinkLost
  BY <1>2, LinkLostStep
<1>3. CASE ReceiverOpen
  BY <1>3, ReceiverOpenStep
<1>4. ASSUME NEW d \in Deliveries, Receive(d) \/ Work(d) PROVE RecoveryInv'
  <2>1. Next /\ UNCHANGED <<link, stale, losses>>
    BY <1>4 DEF Next, Receive, Work
  <2>2. IInv'
    BY <2>1, IInvStep DEF RecoveryInv
  <2>3. RecoveryTypeOK' /\ StaleIsSent'
    BY <2>1, <2>2, SentStaysSent
       DEF RecoveryInv, IInv, RecoveryTypeOK, StaleIsSent
  <2>4. \/ /\ link = "open" /\ d \notin stale
           /\ Slots!Take(d) \/ Slots!Refuse(d)
        \/ Slots!Finish(d)
        \/ UNCHANGED Slots!slotVars
    <3>1. CASE Receive(d)
      BY <3>1, OnMessageIsTake
         DEF Receive, OnMessage, RecoveryInv, StaleIsSent
    <3>2. CASE Work(d)
      BY <3>2, HandleIsFinish, UserSettlesIsFinish DEF Work, RecoveryInv
    <3> QED
      BY <1>4, <3>1, <3>2
  <2>5. LostIsStale' /\ SurplusBounded' /\ NoCreditLost'
    BY <2>1, <2>2, <2>4, SlotMoveKeepsBooks DEF IInv
  <2> QED
    BY <2>2, <2>3, <2>5 DEF RecoveryInv
<1> QED
  BY <1>1, <1>2, <1>3, <1>4 DEF RecoveryNext

LEMMA RecoveryInvariance == RecoverySpec => []RecoveryInv
<1> QED
  BY RecoveryInvInit, RecoveryInvStep, PTL DEF RecoverySpec

(* Type correctness.                                                       *)
THEOREM RecoveryTypeCorrect == RecoverySpec => []RecoveryTypeOK
<1>1. RecoveryInv => RecoveryTypeOK
  BY DEF RecoveryInv
<1> QED
  BY <1>1, RecoveryInvariance, PTL

(* A broken connection never costs the listener a credit.                  *)
THEOREM CapacitySurvives == RecoverySpec => []NoCreditLost
<1>1. RecoveryInv => NoCreditLost
  BY DEF RecoveryInv
<1> QED
  BY <1>1, RecoveryInvariance, PTL

(* The surplus of credit never exceeds the number of deliveries that were  *)
(* in flight when a connection broke.                                      *)
THEOREM SurplusIsBounded == RecoverySpec => []SurplusBounded
<1>1. RecoveryInv => SurplusBounded
  BY DEF RecoveryInv
<1> QED
  BY <1>1, RecoveryInvariance, PTL

(* The broker still hears one outcome per delivery, reconnects or not.     *)
THEOREM RecoverySettlesOnce == RecoverySpec => []SettledOnce
<1>1. RecoveryInv => SettledOnce
  BY DEF RecoveryInv, IInv
<1> QED
  BY <1>1, RecoveryInvariance, PTL

=============================================================================
