----------------------- MODULE MessageHandlingProofs -----------------------
(***************************************************************************)
(* Proofs about MessageHandling, for every set of deliveries and every     *)
(* number of credits.  The inductive invariant adds to the checked         *)
(* properties what a delivery still in the queue looks like: its control   *)
(* does not exist yet, so nobody can have called it.                       *)
(***************************************************************************)
EXTENDS MessageHandling, FiniteSetTheorems, TLAPS

(* A delivery the broker has not sent has neither a callback nor a         *)
(* settlement.                                                             *)
QueuedIsUntouched ==
  \A d \in Deliveries :
    phase[d] = "queued" => callback[d] = "notCalled" /\ ~handled[d]

IInv ==
  /\ TypeOK
  /\ QueuedIsUntouched
  /\ SettledOnce
  /\ FinishedIsSettled

-----------------------------------------------------------------------------
(* Types.                                                                  *)

(* Reporting a disposition keeps the log of a delivery a sequence of       *)
(* dispositions, one longer than it was.                                   *)
LEMMA ReportType ==
  ASSUME TypeOK, NEW d \in Deliveries, NEW by \in {"user", "library"},
         NEW outcome \in Outcomes
  PROVE  /\ Report(d, by, outcome) \in Seq(Dispositions)
         /\ Len(Report(d, by, outcome)) = Len(dispositions[d]) + 1
<1>1. dispositions[d] \in Seq(Dispositions)
  BY DEF TypeOK
<1>2. [by |-> by, outcome |-> outcome] \in Dispositions
  BY DEF Dispositions
<1> QED
  BY <1>1, <1>2 DEF Report

(* A call on a control keeps the types of what it touches.                 *)
LEMMA SettleType ==
  ASSUME TypeOK, NEW d \in Deliveries, NEW by \in {"user", "library"},
         NEW outcome \in Outcomes, NEW available \in Nat,
         Settle(d, by, outcome, available)
  PROVE  /\ handled' \in [Deliveries -> BOOLEAN]
         /\ dispositions' \in [Deliveries -> Seq(Dispositions)]
         /\ credit' \in Nat
<1>1. Report(d, by, outcome) \in Seq(Dispositions)
  BY ReportType
<1>2. CASE handled[d]
  BY <1>2 DEF Settle, TypeOK
<1>3. CASE ~handled[d]
  <2>1. /\ dispositions' = [dispositions EXCEPT ![d] = Report(d, by, outcome)]
        /\ credit' = available + 1
        /\ handled' = [handled EXCEPT ![d] = TRUE]
    BY <1>3 DEF Settle
  <2>2. dispositions' \in [Deliveries -> Seq(Dispositions)]
    BY <1>1, <2>1 DEF TypeOK
  <2>3. handled' \in [Deliveries -> BOOLEAN]
    BY <2>1 DEF TypeOK
  <2> QED
    BY <2>1, <2>2, <2>3
<1> QED
  BY <1>2, <1>3

(* Every action keeps the types.                                           *)
LEMMA TypeStep == TypeOK /\ [Next]_handling => TypeOK'
<1> SUFFICES ASSUME TypeOK, [Next]_handling PROVE TypeOK'
  OBVIOUS
<1>1. CASE UNCHANGED handling
  BY <1>1 DEF handling, TypeOK
<1>2. ASSUME NEW d \in Deliveries, OnMessage(d) PROVE TypeOK'
  <2>1. credit - 1 \in Nat
    BY <1>2 DEF OnMessage, MaySend, TypeOK
  <2>2. CASE Settle(d, "library", "rejected", credit - 1)
             /\ GoesTo(d, "done") /\ UNCHANGED callback
    <3>1. /\ handled' \in [Deliveries -> BOOLEAN]
          /\ dispositions' \in [Deliveries -> Seq(Dispositions)]
          /\ credit' \in Nat
      BY <2>1, <2>2, SettleType DEF Outcomes
    <3> QED
      BY <1>2, <2>2, <3>1 DEF OnMessage, GoesTo, TypeOK, Phases
  <2>3. CASE credit' = credit - 1 /\ UNCHANGED <<handled, dispositions>>
    BY <1>2, <2>1, <2>3
       DEF OnMessage, GoesTo, CallbackIs, TypeOK, Phases
  <2> QED
    BY <1>2, <2>2, <2>3 DEF OnMessage
<1>3. ASSUME NEW d \in Deliveries, Handle(d) PROVE TypeOK'
  <2>1. /\ options' \in Options
        /\ body' \in [Deliveries -> Bodies]
        /\ phase' \in [Deliveries -> Phases]
        /\ callback' \in
             [Deliveries -> {"notCalled", "running", "returned", "threw"}]
    BY <1>3
       DEF TypeOK, Phases, GoesTo, CallbackIs, Handle, ValidationSucceeds,
           NullObjectReceived, ValidationFails, ValidationThrowsNonError,
           CallbackReturns, CallbackThrows, CallbackThrowsNonError, SafetyNet
  <2>2. \/ UNCHANGED <<handled, dispositions, credit>>
        \/ \E outcome \in Outcomes : Settle(d, "library", outcome, credit)
    BY <1>3
       DEF Outcomes, Handle, ValidationSucceeds, NullObjectReceived,
           ValidationFails, ValidationThrowsNonError, CallbackReturns,
           CallbackThrows, CallbackThrowsNonError, SafetyNet
  <2>3. /\ handled' \in [Deliveries -> BOOLEAN]
        /\ dispositions' \in [Deliveries -> Seq(Dispositions)]
        /\ credit' \in Nat
    <3>1. CASE UNCHANGED <<handled, dispositions, credit>>
      BY <3>1 DEF TypeOK
    <3>2. ASSUME NEW outcome \in Outcomes,
                 Settle(d, "library", outcome, credit)
          PROVE  /\ handled' \in [Deliveries -> BOOLEAN]
                 /\ dispositions' \in [Deliveries -> Seq(Dispositions)]
                 /\ credit' \in Nat
      BY <3>2, SettleType DEF TypeOK
    <3> QED
      BY <2>2, <3>1, <3>2
  <2> QED
    BY <2>1, <2>3 DEF TypeOK
<1>4. ASSUME NEW d \in Deliveries, NEW outcome \in Outcomes,
             UserSettles(d, outcome)
      PROVE  TypeOK'
  <2>1. /\ handled' \in [Deliveries -> BOOLEAN]
        /\ dispositions' \in [Deliveries -> Seq(Dispositions)]
        /\ credit' \in Nat
    BY <1>4, SettleType DEF UserSettles, TypeOK
  <2> QED
    BY <1>4, <2>1 DEF UserSettles, TypeOK
<1> QED
  BY <1>1, <1>2, <1>3, <1>4 DEF Next

LEMMA TypeInit == Init => TypeOK
  BY CreditsAssumption DEF Init, TypeOK, Phases, Options, Bodies, Dispositions

(* Type correctness.                                                       *)
THEOREM TypeCorrect == Spec => []TypeOK
<1> QED
  BY TypeInit, TypeStep, PTL DEF Spec

-----------------------------------------------------------------------------
(* The inductive invariant.                                                *)

(* A call on a control keeps log and flag together, sets the flag, and     *)
(* leaves the other deliveries alone.                                      *)
LEMMA SettleOnceStep ==
  ASSUME TypeOK, SettledOnce, NEW d \in Deliveries,
         NEW by \in {"user", "library"}, NEW outcome \in Outcomes,
         NEW available \in Nat, Settle(d, by, outcome, available)
  PROVE  /\ SettledOnce'
         /\ handled' = [handled EXCEPT ![d] = TRUE]
<1>1. CASE handled[d]
  <2>1. UNCHANGED <<handled, dispositions>>
    BY <1>1 DEF Settle
  <2>2. handled' = [handled EXCEPT ![d] = TRUE]
    BY <1>1, <2>1 DEF TypeOK
  <2> QED
    BY <2>1, <2>2 DEF SettledOnce
<1>2. CASE ~handled[d]
  <2>1. /\ dispositions' = [dispositions EXCEPT ![d] = Report(d, by, outcome)]
        /\ handled' = [handled EXCEPT ![d] = TRUE]
    BY <1>2 DEF Settle
  <2>2. Len(Report(d, by, outcome)) = 1
    <3>1. Len(dispositions[d]) = 0
      BY <1>2 DEF SettledOnce
    <3>2. Len(Report(d, by, outcome)) = Len(dispositions[d]) + 1
      BY ReportType
    <3> QED
      BY <3>1, <3>2
  <2>3. SettledOnce'
    BY <2>1, <2>2 DEF SettledOnce, TypeOK
  <2> QED
    BY <2>1, <2>3
<1> QED
  BY <1>1, <1>2

LEMMA IInvInit == Init => IInv
<1> SUFFICES ASSUME Init PROVE IInv
  OBVIOUS
<1>1. TypeOK
  BY TypeInit
<1>2. QueuedIsUntouched /\ SettledOnce /\ FinishedIsSettled
  BY DEF Init, QueuedIsUntouched, SettledOnce, FinishedIsSettled
<1> QED
  BY <1>1, <1>2 DEF IInv

(* Every action keeps the inductive invariant.                             *)
LEMMA IInvStep == IInv /\ [Next]_handling => IInv'
<1> SUFFICES ASSUME IInv, [Next]_handling PROVE IInv'
  OBVIOUS
<1> USE DEF IInv
<1>0. TypeOK'
  BY TypeStep
<1>1. CASE UNCHANGED handling
  BY <1>0, <1>1
     DEF handling, QueuedIsUntouched, SettledOnce, FinishedIsSettled
<1>2. ASSUME NEW d \in Deliveries, OnMessage(d) PROVE IInv'
  <2>1. credit - 1 \in Nat
    BY <1>2 DEF OnMessage, MaySend, TypeOK
  <2>2. CASE Settle(d, "library", "rejected", credit - 1)
             /\ GoesTo(d, "done") /\ UNCHANGED callback
    <3>1. SettledOnce' /\ handled' = [handled EXCEPT ![d] = TRUE]
      BY <2>1, <2>2, SettleOnceStep DEF Outcomes
    <3> QED
      BY <1>0, <2>2, <3>1
         DEF GoesTo, TypeOK, QueuedIsUntouched, FinishedIsSettled
  <2>3. CASE /\ GoesTo(d, "validating") \/ GoesTo(d, "calling")
             /\ UNCHANGED callback \/ CallbackIs(d, "running")
             /\ UNCHANGED <<handled, dispositions>>
    <3>1. phase' \in {[phase EXCEPT ![d] = "validating"],
                      [phase EXCEPT ![d] = "calling"]}
      BY <2>3 DEF GoesTo
    <3>2. \A e \in Deliveries \ {d} :
            phase'[e] = phase[e] /\ callback'[e] = callback[e]
      BY <2>3, <3>1 DEF CallbackIs, TypeOK
    <3>3. phase'[d] \notin {"queued", "done"}
      BY <3>1 DEF TypeOK
    <3> QED
      BY <1>0, <2>3, <3>2, <3>3
         DEF QueuedIsUntouched, SettledOnce, FinishedIsSettled
  <2> QED
    BY <1>2, <2>2, <2>3 DEF OnMessage
<1>3. ASSUME NEW d \in Deliveries, Handle(d) PROVE IInv'
  <2>1. /\ phase[d] # "queued"
        /\ \A e \in Deliveries \ {d} :
             phase'[e] = phase[e] /\ callback'[e] = callback[e]
        /\ phase'[d] # "queued"
    BY <1>3
       DEF TypeOK, GoesTo, CallbackIs, Handle, ValidationSucceeds,
           NullObjectReceived, ValidationFails, ValidationThrowsNonError,
           CallbackReturns, CallbackThrows, CallbackThrowsNonError, SafetyNet
  <2>2. \/ /\ UNCHANGED <<handled, dispositions>>
           /\ phase'[d] # "done"
        \/ \E outcome \in Outcomes : Settle(d, "library", outcome, credit)
    BY <1>3
       DEF Outcomes, TypeOK, GoesTo, Handle, ValidationSucceeds,
           NullObjectReceived, ValidationFails, ValidationThrowsNonError,
           CallbackReturns, CallbackThrows, CallbackThrowsNonError, SafetyNet
  <2>3. CASE UNCHANGED <<handled, dispositions>> /\ phase'[d] # "done"
    BY <1>0, <2>1, <2>3
       DEF QueuedIsUntouched, SettledOnce, FinishedIsSettled
  <2>4. ASSUME NEW outcome \in Outcomes, Settle(d, "library", outcome, credit)
        PROVE  IInv'
    <3>1. SettledOnce' /\ handled' = [handled EXCEPT ![d] = TRUE]
      BY <2>4, SettleOnceStep DEF TypeOK
    <3> QED
      BY <1>0, <2>1, <3>1 DEF TypeOK, QueuedIsUntouched, FinishedIsSettled
  <2> QED
    BY <2>2, <2>3, <2>4
<1>4. ASSUME NEW d \in Deliveries, NEW outcome \in Outcomes,
             UserSettles(d, outcome)
      PROVE  IInv'
  <2>1. SettledOnce' /\ handled' = [handled EXCEPT ![d] = TRUE]
    BY <1>4, SettleOnceStep DEF UserSettles, TypeOK
  <2>2. callback[d] # "notCalled" /\ UNCHANGED <<phase, callback>>
    BY <1>4 DEF UserSettles
  <2> QED
    BY <1>0, <2>1, <2>2 DEF TypeOK, QueuedIsUntouched, FinishedIsSettled
<1> QED
  BY <1>1, <1>2, <1>3, <1>4 DEF Next

LEMMA Invariance == Spec => []IInv
<1> QED
  BY IInvInit, IInvStep, PTL DEF Spec

(* Exactly one outcome of a delivery reaches the broker, and only once its *)
(* control says handled.                                                   *)
THEOREM SettlesOnce == Spec => []SettledOnce
<1>1. IInv => SettledOnce
  BY DEF IInv
<1> QED
  BY <1>1, Invariance, PTL

(* No handler ends without a settlement.                                   *)
THEOREM NeverForgotten == Spec => []FinishedIsSettled
<1>1. IInv => FinishedIsSettled
  BY DEF IInv
<1> QED
  BY <1>1, Invariance, PTL

-----------------------------------------------------------------------------
(* Automatic settlement.                                                   *)

(* How far the handler of a delivery has come tells what its callback may  *)
(* have done and what its body is like.                                    *)
PhaseTells(d) ==
  /\ phase[d] \in {"queued", "validating"} => callback[d] = "notCalled"
  /\ phase[d] = "validating" => NeedsValidation(d)
  /\ phase[d] = "calling" => callback[d] = "running"
  /\ phase[d] = "failed" =>
       \/ callback[d] = "threw"
       \/ callback[d] = "notCalled" /\ NeedsValidation(d) /\ body[d] # "null"
  /\ callback[d] = "returned" => phase[d] = "done"

Told(d) == PhaseTells(d) /\ SettledAsCalledFor(d)

(* The first call on a control is the only thing the broker hears of its   *)
(* delivery, and no call changes what it heard of another one.             *)
LEMMA SettleSays ==
  ASSUME TypeOK, SettledOnce, NEW d \in Deliveries,
         NEW by \in {"user", "library"}, NEW outcome \in Outcomes,
         NEW available \in Nat, Settle(d, by, outcome, available)
  PROVE  /\ \A e \in Deliveries \ {d} : dispositions'[e] = dispositions[e]
         /\ handled[d] => dispositions'[d] = dispositions[d]
         /\ ~handled[d] =>
              dispositions'[d] = << [by |-> by, outcome |-> outcome] >>
<1>1. CASE handled[d]
  BY <1>1 DEF Settle
<1>2. CASE ~handled[d]
  <2>1. dispositions' = [dispositions EXCEPT ![d] = Report(d, by, outcome)]
    BY <1>2 DEF Settle
  <2>2. Len(dispositions[d]) = 0 /\ dispositions[d] \in Seq(Dispositions)
    BY <1>2 DEF SettledOnce, TypeOK
  <2>3. dispositions[d] = << >>
    BY <2>2
  <2> QED
    BY <1>2, <2>1, <2>3 DEF Report, TypeOK
<1> QED
  BY <1>1, <1>2

(* A handled delivery was settled by user code or by the library.          *)
LEMMA HandledBySomebody ==
  ASSUME TypeOK, SettledOnce, NEW d \in Deliveries, handled[d]
  PROVE  SettledBy(d, "user") \/ SettledBy(d, "library")
<1>1. Len(dispositions[d]) = 1 /\ dispositions[d] \in Seq(Dispositions)
  BY DEF SettledOnce, TypeOK
<1>2. dispositions[d][1] \in Dispositions
  BY <1>1
<1>3. dispositions[d][1].by \in {"user", "library"}
  BY <1>2 DEF Dispositions
<1> QED
  BY <1>1, <1>3 DEF SettledBy

(* A settlement by the library that nobody's came before stands as it is.  *)
LEMMA LibrarySettles ==
  ASSUME TypeOK, SettledOnce, NEW d \in Deliveries, NEW outcome \in Outcomes,
         NEW available \in Nat, Settle(d, "library", outcome, available),
         ~SettledBy(d, "library")
  PROVE  \/ SettledBy(d, "user")'
         \/ dispositions'[d] = << [by |-> "library", outcome |-> outcome] >>
<1>1. CASE handled[d]
  <2>1. SettledBy(d, "user")
    BY <1>1, HandledBySomebody
  <2>2. dispositions'[d] = dispositions[d]
    BY <1>1, SettleSays
  <2> QED
    BY <2>1, <2>2 DEF SettledBy
<1>2. CASE ~handled[d]
  BY <1>2, SettleSays
<1> QED
  BY <1>1, <1>2

(* A handler that ends with a settlement by the library leaves the message *)
(* with the outcome called for, if that is the one it asked for.           *)
LEMMA HandlerEnds ==
  ASSUME IInv, NEW d \in Deliveries, Told(d), phase[d] # "done",
         NEW outcome \in Outcomes, NEW available \in Nat,
         Settle(d, "library", outcome, available),
         phase'[d] = "done", UNCHANGED <<options, body>>,
         outcome = CalledFor(d)',
         InvalidNull(d) => callback'[d] = "notCalled",
         callback'[d] = "notCalled" => RejectedOnArrival(d) \/ NeedsValidation(d)
  PROVE  Told(d)'
<1>1. ~SettledBy(d, "library")
  BY DEF Told, SettledAsCalledFor
<1>2. \/ SettledBy(d, "user")'
      \/ dispositions'[d] = << [by |-> "library", outcome |-> outcome] >>
  BY <1>1, LibrarySettles DEF IInv
<1>3. SettledAsCalledFor(d)'
  BY <1>2
     DEF SettledAsCalledFor, InvalidNull, RejectedOnArrival, NeedsValidation
<1>4. PhaseTells(d)'
  BY DEF PhaseTells
<1> QED
  BY <1>3, <1>4 DEF Told

(* A delivery that a step does not touch stays as it was.                  *)
LEMMA ToldUntouched ==
  ASSUME NEW e \in Deliveries, Told(e), UNCHANGED <<options, body>>,
         phase'[e] = phase[e], callback'[e] = callback[e],
         dispositions'[e] = dispositions[e]
  PROVE  Told(e)'
  BY DEF Told, PhaseTells, SettledAsCalledFor, SettledBy, CalledFor,
         InvalidNull, RejectedOnArrival, NeedsValidation

(* A step of a handler that settles nothing and does not end it.           *)
LEMMA HandlerGoesOn ==
  ASSUME NEW d \in Deliveries, Told(d), phase[d] # "done",
         UNCHANGED <<options, body, dispositions>>, phase'[d] # "done",
         PhaseTells(d)', InvalidNull(d) => callback'[d] = "notCalled"
  PROVE  Told(d)'
  BY DEF Told, SettledAsCalledFor, SettledBy, InvalidNull

(* The broker sends a message.                                             *)
LEMMA ArrivalTold ==
  ASSUME IInv, NEW d \in Deliveries, Told(d), OnMessage(d)
  PROVE  Told(d)'
<1> USE DEF OnMessage, GoesTo, CallbackIs, IInv, TypeOK
<1>1. credit - 1 \in Nat
  BY DEF MaySend
<1>2. phase[d] = "queued" /\ callback[d] = "notCalled"
  BY DEF Told, PhaseTells
<1>3. CASE RejectedOnArrival(d) /\ Settle(d, "library", "rejected", credit - 1)
           /\ GoesTo(d, "done") /\ UNCHANGED callback
  <2>1. "rejected" = CalledFor(d)' /\ "rejected" \in Outcomes
    BY <1>2, <1>3
       DEF CalledFor, InvalidNull, RejectedOnArrival, Outcomes
  <2>2. phase'[d] = "done" /\ callback'[d] = "notCalled"
    BY <1>2, <1>3
  <2> QED
    BY <1>1, <1>2, <1>3, <2>1, <2>2, HandlerEnds
<1>4. CASE NeedsValidation(d) /\ GoesTo(d, "validating")
           /\ UNCHANGED <<callback, handled, dispositions>>
  <2>1. phase'[d] = "validating" /\ callback'[d] = "notCalled"
    BY <1>2, <1>4
  <2>2. PhaseTells(d)'
    BY <1>4, <2>1 DEF PhaseTells, NeedsValidation
  <2> QED
    BY <1>2, <1>4, <2>1, <2>2, HandlerGoesOn
<1>5. CASE /\ ~RejectedOnArrival(d) /\ ~NeedsValidation(d)
           /\ GoesTo(d, "calling") /\ CallbackIs(d, "running")
           /\ UNCHANGED <<handled, dispositions>>
  <2>1. phase'[d] = "calling" /\ callback'[d] = "running"
    BY <1>5
  <2>2. PhaseTells(d)' /\ ~InvalidNull(d)
    BY <1>5, <2>1 DEF PhaseTells, NeedsValidation, InvalidNull
  <2> QED
    BY <1>2, <1>5, <2>1, <2>2, HandlerGoesOn
<1> QED
  BY <1>3, <1>4, <1>5

(* A step of the library's handler.                                        *)
LEMMA HandlerTold ==
  ASSUME IInv, NEW d \in Deliveries, Told(d), Handle(d)
  PROVE  Told(d)'
<1> USE DEF GoesTo, CallbackIs, IInv, TypeOK
<1> DEFINE Outcome(o) == o \in Outcomes /\ Settle(d, "library", o, credit)
<1>0. PhaseTells(d) /\ (InvalidNull(d) => callback[d] = "notCalled")
  BY DEF Told, SettledAsCalledFor
<1>1. CASE ValidationSucceeds(d)
  <2>1. phase'[d] = "calling" /\ callback'[d] = "running"
        /\ phase[d] # "done" /\ UNCHANGED <<options, body, dispositions>>
    BY <1>1 DEF ValidationSucceeds
  <2>2. PhaseTells(d)' /\ ~InvalidNull(d)
    BY <1>1, <2>1 DEF ValidationSucceeds, PhaseTells, InvalidNull
  <2> QED
    BY <2>1, <2>2, HandlerGoesOn
<1>2. CASE NullObjectReceived(d)
  <2>1. PICK o \in Outcomes :
          /\ o = IF options.acceptNull THEN "accepted" ELSE "rejected"
          /\ Settle(d, "library", o, credit)
    BY <1>2 DEF NullObjectReceived, Outcomes
  <2>2. /\ phase[d] = "validating" /\ phase'[d] = "done"
        /\ callback'[d] = "notCalled"
        /\ NeedsValidation(d) /\ InvalidNull(d)
        /\ UNCHANGED <<options, body>>
    BY <1>0, <1>2
       DEF NullObjectReceived, PhaseTells, NeedsValidation, InvalidNull
  <2>3. o = CalledFor(d)'
    BY <2>1, <2>2 DEF CalledFor, InvalidNull
  <2> QED
    BY <2>1, <2>2, <2>3, HandlerEnds
<1>3. CASE ValidationFails(d)
  <2>1. Outcome("rejected")
    BY <1>3 DEF ValidationFails, Outcomes
  <2>2. /\ phase[d] = "validating" /\ phase'[d] = "done"
        /\ callback'[d] = "notCalled"
        /\ NeedsValidation(d) /\ body[d] # "null"
        /\ UNCHANGED <<options, body>>
    BY <1>0, <1>3 DEF ValidationFails, PhaseTells
  <2>3. "rejected" = CalledFor(d)'
    BY <2>2 DEF CalledFor, InvalidNull
  <2> QED
    BY <2>1, <2>2, <2>3, HandlerEnds
<1>4. CASE ValidationThrowsNonError(d)
  <2>1. /\ phase[d] = "validating" /\ phase'[d] = "failed"
        /\ callback'[d] = "notCalled"
        /\ NeedsValidation(d) /\ body[d] # "null"
        /\ UNCHANGED <<options, body, dispositions>>
    BY <1>0, <1>4 DEF ValidationThrowsNonError, PhaseTells
  <2>2. PhaseTells(d)'
    BY <2>1 DEF PhaseTells, NeedsValidation
  <2> QED
    BY <2>1, <2>2, HandlerGoesOn
<1>5. CASE CallbackReturns(d)
  <2>1. Outcome("accepted")
    BY <1>5 DEF CallbackReturns, Outcomes
  <2>2. /\ phase[d] = "calling" /\ phase'[d] = "done"
        /\ callback'[d] = "returned" /\ ~InvalidNull(d)
        /\ UNCHANGED <<options, body>>
    BY <1>0, <1>5 DEF CallbackReturns, PhaseTells
  <2>3. "accepted" = CalledFor(d)'
    BY <2>2 DEF CalledFor
  <2> QED
    BY <2>1, <2>2, <2>3, HandlerEnds
<1>6. CASE CallbackThrows(d)
  <2>1. Outcome("rejected")
    BY <1>6 DEF CallbackThrows, Outcomes
  <2>2. /\ phase[d] = "calling" /\ phase'[d] = "done"
        /\ callback'[d] = "threw" /\ ~InvalidNull(d)
        /\ UNCHANGED <<options, body>>
    BY <1>0, <1>6 DEF CallbackThrows, PhaseTells
  <2>3. "rejected" = CalledFor(d)'
    BY <2>2 DEF CalledFor, InvalidNull
  <2> QED
    BY <2>1, <2>2, <2>3, HandlerEnds
<1>7. CASE CallbackThrowsNonError(d)
  <2>1. /\ phase[d] = "calling" /\ phase'[d] = "failed"
        /\ callback'[d] = "threw" /\ ~InvalidNull(d)
        /\ UNCHANGED <<options, body, dispositions>>
    BY <1>0, <1>7 DEF CallbackThrowsNonError, PhaseTells
  <2>2. PhaseTells(d)'
    BY <2>1 DEF PhaseTells
  <2> QED
    BY <2>1, <2>2, HandlerGoesOn
<1>8. CASE SafetyNet(d)
  <2>1. Outcome("rejected")
    BY <1>8 DEF SafetyNet, Outcomes
  <2>2. /\ phase[d] = "failed" /\ phase'[d] = "done"
        /\ callback'[d] = callback[d] /\ callback[d] # "returned"
        /\ UNCHANGED <<options, body>>
    BY <1>0, <1>8 DEF SafetyNet, PhaseTells
  <2>3. /\ ~InvalidNull(d)
        /\ callback[d] = "notCalled" => NeedsValidation(d)
    BY <1>0, <2>2 DEF PhaseTells, InvalidNull
  <2>4. "rejected" = CalledFor(d)'
    BY <2>2, <2>3 DEF CalledFor, InvalidNull
  <2> QED
    BY <2>1, <2>2, <2>3, <2>4, HandlerEnds
<1> QED
  BY <1>1, <1>2, <1>3, <1>4, <1>5, <1>6, <1>7, <1>8 DEF Handle

(* User code settles a message.                                            *)
LEMMA UserTold ==
  ASSUME IInv, NEW d \in Deliveries, Told(d), NEW outcome \in Outcomes,
         UserSettles(d, outcome)
  PROVE  Told(d)'
<1>1. /\ Settle(d, "user", outcome, credit) /\ credit \in Nat
      /\ UNCHANGED <<options, body, phase, callback>>
  BY DEF UserSettles, IInv, TypeOK
<1>2. CASE handled[d]
  <2>1. dispositions'[d] = dispositions[d]
    BY <1>1, <1>2, SettleSays DEF IInv
  <2> QED
    BY <1>1, <2>1, ToldUntouched
<1>3. CASE ~handled[d]
  <2>1. dispositions'[d] = << [by |-> "user", outcome |-> outcome] >>
    BY <1>1, <1>3, SettleSays DEF IInv
  <2>2. SettledBy(d, "user")' /\ ~SettledBy(d, "library")'
    BY <2>1 DEF SettledBy
  <2>3. PhaseTells(d)'
    BY <1>1 DEF Told, PhaseTells, NeedsValidation
  <2>4. SettledAsCalledFor(d)'
    BY <1>1, <2>2
       DEF Told, SettledAsCalledFor, InvalidNull, RejectedOnArrival,
           NeedsValidation
  <2> QED
    BY <2>3, <2>4 DEF Told
<1> QED
  BY <1>2, <1>3

(* A step on one delivery leaves the handlers of the others alone.         *)
LEMMA OthersTold ==
  ASSUME IInv, NEW d \in Deliveries, NEW e \in Deliveries, e # d, Told(e),
         \/ OnMessage(d)
         \/ Handle(d)
         \/ \E outcome \in Outcomes : UserSettles(d, outcome)
  PROVE  Told(e)'
<1>1. /\ UNCHANGED <<options, body>>
      /\ phase'[e] = phase[e] /\ callback'[e] = callback[e]
  BY DEF OnMessage, Handle, ValidationSucceeds, NullObjectReceived,
         ValidationFails, ValidationThrowsNonError, CallbackReturns,
         CallbackThrows, CallbackThrowsNonError, SafetyNet, UserSettles,
         GoesTo, CallbackIs, IInv, TypeOK
<1>2. \/ UNCHANGED dispositions
      \/ \E by \in {"user", "library"}, outcome \in Outcomes,
            available \in {credit, credit - 1} :
           available \in Nat /\ Settle(d, by, outcome, available)
  <2>1. credit \in Nat
    BY DEF IInv, TypeOK
  <2>2. CASE OnMessage(d)
    BY <2>1, <2>2 DEF OnMessage, MaySend, Outcomes
  <2>3. CASE Handle(d)
    BY <2>1, <2>3
       DEF Handle, ValidationSucceeds, NullObjectReceived, ValidationFails,
           ValidationThrowsNonError, CallbackReturns, CallbackThrows,
           CallbackThrowsNonError, SafetyNet, Outcomes
  <2>4. CASE \E outcome \in Outcomes : UserSettles(d, outcome)
    BY <2>1, <2>4 DEF UserSettles
  <2> QED
    BY <2>2, <2>3, <2>4
<1>3. dispositions'[e] = dispositions[e]
  BY <1>2, SettleSays DEF IInv
<1> QED
  BY <1>1, <1>3, ToldUntouched

(* Every action keeps what is told of every delivery.                      *)
LEMMA ToldStep ==
  ASSUME IInv, \A e \in Deliveries : Told(e), [Next]_handling
  PROVE  \A e \in Deliveries : Told(e)'
<1>1. CASE UNCHANGED handling
  <2>1. \A e \in Deliveries : UNCHANGED <<options, body, phase, callback,
                                          dispositions>>
    BY <1>1 DEF handling
  <2> QED
    BY <2>1, ToldUntouched
<1>2. ASSUME NEW d \in Deliveries,
             \/ OnMessage(d)
             \/ Handle(d)
             \/ \E outcome \in Outcomes : UserSettles(d, outcome)
      PROVE  \A e \in Deliveries : Told(e)'
  <2>1. Told(d)'
    BY <1>2, ArrivalTold, HandlerTold, UserTold
  <2>2. ASSUME NEW e \in Deliveries, e # d PROVE Told(e)'
    BY <1>2, <2>2, OthersTold
  <2> QED
    BY <2>1, <2>2
<1> QED
  BY <1>1, <1>2 DEF Next

(* A message that nobody settled by hand is accepted if its callback ended *)
(* well, or if it is a null body the listener accepts, and rejected in     *)
(* every other case, as soon as its handler is over and not before.        *)
THEOREM SettlesAutomatically == Spec => []AutomaticSettlement
<1> DEFINE AllTold == \A e \in Deliveries : Told(e)
<1>1. Init => AllTold
  BY DEF Init, Told, PhaseTells, SettledAsCalledFor, SettledBy
<1>2. IInv /\ AllTold /\ [Next]_handling => AllTold'
  BY ToldStep
<1>3. AllTold => AutomaticSettlement
  BY DEF Told, AutomaticSettlement
<1> HIDE DEF AllTold
<1> QED
  BY <1>1, <1>2, <1>3, Invariance, PTL DEF Spec

-----------------------------------------------------------------------------
(* Slots and credit.                                                       *)

Served == {d \in Deliveries : handled[d]}

(* A call on a control is, for the slots, the end of a message that holds  *)
(* one, or nothing.                                                        *)
LEMMA SettleIsFinish ==
  ASSUME IInv, NEW d \in Deliveries, phase[d] # "queued",
         NEW by \in {"user", "library"}, NEW outcome \in Outcomes,
         Settle(d, by, outcome, credit),
         \A e \in Deliveries : phase'[e] = "queued" <=> phase[e] = "queued"
  PROVE  Slots!Finish(d) \/ UNCHANGED Slots!slotVars
<1>1. handled' = [handled EXCEPT ![d] = TRUE]
  BY SettleOnceStep DEF IInv, TypeOK
<1>2. CASE handled[d]
  <2>1. UNCHANGED <<handled, credit>>
    BY <1>2 DEF Settle
  <2>2. Unsettled' = Unsettled /\ Served' = Served
    BY <2>1 DEF Unsettled, Served
  <2> QED
    BY <2>1, <2>2 DEF Slots!slotVars, Served
<1>3. CASE ~handled[d]
  <2>1. credit' = credit + 1
    BY <1>3 DEF Settle
  <2>2. d \in Unsettled
    BY <1>3 DEF Unsettled
  <2>3. Unsettled' = Unsettled \ {d}
    BY <1>1 DEF Unsettled, IInv, TypeOK
  <2>4. Served' = Served \cup {d}
    BY <1>1 DEF Served, IInv, TypeOK
  <2> QED
    BY <2>1, <2>2, <2>3, <2>4 DEF Slots!Finish, Served
<1> QED
  BY <1>2, <1>3

LEMMA SlotsInit == Init => Slots!Init
<1> SUFFICES ASSUME Init PROVE Slots!Init
  OBVIOUS
<1>1. Unsettled = {} /\ Served = {}
  BY DEF Init, Unsettled, Served
<1> QED
  BY <1>1 DEF Init, Slots!Init, Served

(* A message event takes a slot, or turns the message down.                *)
LEMMA OnMessageIsTake ==
  ASSUME IInv, NEW d \in Deliveries, OnMessage(d)
  PROVE  Slots!Take(d) \/ Slots!Refuse(d)
<1>1. /\ credit > 0
      /\ credit - 1 \in Nat
      /\ d \notin Unsettled /\ d \notin Served
  BY DEF OnMessage, MaySend, IInv, TypeOK, QueuedIsUntouched, Unsettled, Served
<1>2. CASE Settle(d, "library", "rejected", credit - 1) /\ GoesTo(d, "done")
  <2>1. handled' = [handled EXCEPT ![d] = TRUE]
    BY <1>1, <1>2, SettleOnceStep DEF Outcomes, IInv
  <2>2. credit' = (credit - 1) + 1
    <3>1. ~handled[d]
      BY <1>1 DEF Served
    <3> QED
      BY <1>2, <3>1 DEF Settle
  <2>3. credit' = credit
    BY <2>2 DEF IInv, TypeOK
  <2>4. Unsettled' = Unsettled
    BY <1>1, <1>2, <2>1 DEF GoesTo, Unsettled, IInv, TypeOK
  <2>5. Served' = Served \cup {d}
    BY <2>1 DEF Served, IInv, TypeOK
  <2> QED
    BY <1>1, <2>3, <2>4, <2>5 DEF Slots!Refuse, Served
<1>3. CASE /\ GoesTo(d, "validating") \/ GoesTo(d, "calling")
           /\ credit' = credit - 1
           /\ UNCHANGED handled
  <2>1. Unsettled' = Unsettled \cup {d}
    <3>1. \A e \in Deliveries \ {d} : phase'[e] = phase[e]
      BY <1>3 DEF GoesTo, IInv, TypeOK
    <3>2. phase'[d] # "queued"
      BY <1>3 DEF GoesTo, IInv, TypeOK
    <3>3. ~handled[d]
      BY <1>1 DEF Served
    <3> QED
      BY <1>3, <3>1, <3>2, <3>3 DEF Unsettled
  <2>2. Served' = Served
    BY <1>3 DEF Served
  <2> QED
    BY <1>1, <1>3, <2>1, <2>2 DEF Slots!Take, Served
<1> QED
  BY <1>2, <1>3 DEF OnMessage

(* A step of a handler frees the slot of its delivery, or leaves the slots *)
(* alone.                                                                  *)
LEMMA HandleIsFinish ==
  ASSUME IInv, NEW d \in Deliveries, Handle(d)
  PROVE  Slots!Finish(d) \/ UNCHANGED Slots!slotVars
<1>1. /\ phase[d] # "queued"
      /\ \A e \in Deliveries : phase'[e] = "queued" <=> phase[e] = "queued"
  BY DEF IInv, TypeOK, GoesTo, Handle, ValidationSucceeds,
         NullObjectReceived, ValidationFails, ValidationThrowsNonError,
         CallbackReturns, CallbackThrows, CallbackThrowsNonError, SafetyNet
<1>2. \/ UNCHANGED <<handled, credit>>
      \/ \E outcome \in Outcomes : Settle(d, "library", outcome, credit)
  BY DEF Outcomes, Handle, ValidationSucceeds, NullObjectReceived,
         ValidationFails, ValidationThrowsNonError, CallbackReturns,
         CallbackThrows, CallbackThrowsNonError, SafetyNet
<1>3. CASE UNCHANGED <<handled, credit>>
  <2>1. Unsettled' = Unsettled /\ Served' = Served
    BY <1>1, <1>3 DEF Unsettled, Served
  <2> QED
    BY <1>3, <2>1 DEF Slots!slotVars, Served
<1>4. CASE \E outcome \in Outcomes : Settle(d, "library", outcome, credit)
  BY <1>1, <1>4, SettleIsFinish
<1> QED
  BY <1>2, <1>3, <1>4

(* So does a call of user code on a control.                               *)
LEMMA UserSettlesIsFinish ==
  ASSUME IInv, NEW d \in Deliveries, NEW outcome \in Outcomes,
         UserSettles(d, outcome)
  PROVE  Slots!Finish(d) \/ UNCHANGED Slots!slotVars
<1>1. phase[d] # "queued" /\ UNCHANGED phase
  BY DEF UserSettles, IInv, QueuedIsUntouched
<1> QED
  BY <1>1, SettleIsFinish DEF UserSettles

(* Every step of the receiver takes a slot, turns a message down, frees a  *)
(* slot, or leaves the slots alone.                                        *)
LEMMA SlotsStep == IInv /\ [Next]_handling => [Slots!Next]_(Slots!slotVars)
<1> SUFFICES ASSUME IInv, [Next]_handling
             PROVE  Slots!Next \/ UNCHANGED Slots!slotVars
  OBVIOUS
<1>1. CASE UNCHANGED handling
  <2>1. UNCHANGED credit /\ Unsettled' = Unsettled /\ Served' = Served
    BY <1>1 DEF handling, Unsettled, Served
  <2> QED
    BY <2>1 DEF Slots!slotVars, Served
<1>2. CASE Next
  BY <1>2, OnMessageIsTake, HandleIsFinish, UserSettlesIsFinish
     DEF Next, Slots!Next
<1> QED
  BY <1>1, <1>2

(* The receiver implements the processing slots.                           *)
THEOREM Implementation == Spec => ImplementsSlots
<1> QED
  BY Invariance, SlotsInit, SlotsStep, PTL
     DEF Spec, ImplementsSlots, Slots!Spec

(* Taking a slot and giving it back keeps the sum of free and busy slots.  *)
LEMMA SlotsConserve ==
  ASSUME credit \in Nat, CreditConserved, [Slots!Next]_(Slots!slotVars)
  PROVE  CreditConserved'
<1>1. Cardinality(Unsettled) \in Nat
  BY FS_CardinalityType DEF CreditConserved
<1>2. CASE UNCHANGED Slots!slotVars
  BY <1>2 DEF Slots!slotVars, CreditConserved
<1>3. ASSUME NEW d \in Deliveries, Slots!Take(d) PROVE CreditConserved'
  <2>1. /\ credit' = credit - 1
        /\ Unsettled' = Unsettled \cup {d}
        /\ d \notin Unsettled
    BY <1>3 DEF Slots!Take
  <2>2. /\ IsFiniteSet(Unsettled')
        /\ Cardinality(Unsettled') = Cardinality(Unsettled) + 1
    BY <2>1, FS_AddElement DEF CreditConserved
  <2> QED
    BY <1>1, <2>1, <2>2, CreditsAssumption DEF CreditConserved
<1>4. ASSUME NEW d \in Deliveries, Slots!Refuse(d) PROVE CreditConserved'
  BY <1>4 DEF Slots!Refuse, CreditConserved
<1>5. ASSUME NEW d \in Deliveries, Slots!Finish(d) PROVE CreditConserved'
  <2>1. /\ credit' = credit + 1
        /\ Unsettled' = Unsettled \ {d}
        /\ d \in Unsettled
    BY <1>5 DEF Slots!Finish
  <2>2. /\ IsFiniteSet(Unsettled')
        /\ Cardinality(Unsettled') = Cardinality(Unsettled) - 1
    BY <2>1, FS_RemoveElement DEF CreditConserved
  <2> QED
    BY <1>1, <2>1, <2>2, CreditsAssumption DEF CreditConserved
<1> QED
  BY <1>2, <1>3, <1>4, <1>5 DEF Slots!Next

(* No credit is lost and none is invented, for any number of deliveries,   *)
(* finite or not: the sum of credit and unsettled deliveries stays what    *)
(* the listener was configured with.                                       *)
THEOREM CreditsConserved == Spec => []CreditConserved
<1>1. Init => CreditConserved
  <2> SUFFICES ASSUME Init PROVE CreditConserved
    OBVIOUS
  <2>1. Unsettled = {}
    BY DEF Init, Unsettled
  <2> QED
    BY <2>1, FS_EmptySet, CreditsAssumption DEF Init, CreditConserved
<1>2. IInv /\ CreditConserved /\ [Next]_handling => CreditConserved'
  BY SlotsStep, SlotsConserve DEF IInv, TypeOK
<1> QED
  BY <1>1, <1>2, Invariance, PTL DEF Spec

(* What the broker was told about a delivery never changes: a log that is  *)
(* not empty belongs to a handled control, and a call on such a control    *)
(* has no effect.                                                          *)
THEOREM FirstSettlementIsFinal == Spec => FirstSettlementStands
<1>1. ASSUME IInv, [Next]_handling, NEW d \in Deliveries,
             dispositions[d] # << >>
      PROVE  dispositions'[d] = dispositions[d]
  <2>1. handled[d]
    BY <1>1 DEF IInv, TypeOK, SettledOnce
  <2>2. ASSUME NEW e \in Deliveries, NEW by \in {"user", "library"},
               NEW outcome \in Outcomes, NEW available,
               Settle(e, by, outcome, available)
        PROVE  dispositions'[d] = dispositions[d]
    <3>1. CASE e = d
      BY <2>1, <2>2, <3>1 DEF Settle
    <3>2. CASE e # d /\ handled[e]
      BY <2>2, <3>2 DEF Settle
    <3>3. CASE e # d /\ ~handled[e]
      <4>1. dispositions' = [dispositions EXCEPT ![e] = Report(e, by, outcome)]
        BY <2>2, <3>3 DEF Settle
      <4> QED
        BY <3>3, <4>1 DEF IInv, TypeOK
    <3> QED
      BY <3>1, <3>2, <3>3
  <2>3. CASE UNCHANGED dispositions
    BY <2>3
  <2>4. CASE \E e \in Deliveries, by \in {"user", "library"},
                outcome \in Outcomes :
               \/ Settle(e, by, outcome, credit)
               \/ Settle(e, by, outcome, credit - 1)
    BY <2>2, <2>4
  <2>5. \/ UNCHANGED dispositions
        \/ \E e \in Deliveries, by \in {"user", "library"},
              outcome \in Outcomes :
             \/ Settle(e, by, outcome, credit)
             \/ Settle(e, by, outcome, credit - 1)
    BY <1>1
       DEF handling, Next, OnMessage, Outcomes, Handle, ValidationSucceeds,
           NullObjectReceived, ValidationFails, ValidationThrowsNonError,
           CallbackReturns, CallbackThrows, CallbackThrowsNonError, SafetyNet,
           UserSettles
  <2> QED
    BY <2>3, <2>4, <2>5
<1>2. IInv /\ [Next]_handling =>
        [\A d \in Deliveries :
           dispositions[d] # << >> =>
             dispositions'[d] = dispositions[d]]_handling
  BY <1>1
<1> QED
  BY <1>2, Invariance, PTL DEF Spec, FirstSettlementStands

=============================================================================
