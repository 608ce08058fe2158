-------------------------- MODULE MessageHandling --------------------------
(***************************************************************************)
(* One receiver of QueueService.listen(): how a delivery travels from the  *)
(* broker through decoding, validation and the user's callback to its      *)
(* settlement, and how its link credit travels back.                       *)
(*                                                                         *)
(* The broker may send as many messages as the receiver has credit (the    *)
(* receiver is created with credit_window 0, so the library alone renews   *)
(* credit).  Each delivery gets a MessageControl, whose flag `handled`     *)
(* makes the first accept / reject / release win; that call reports the    *)
(* outcome to the broker and adds one credit.  The handlers of different   *)
(* deliveries interleave at every await, and user code may keep a control  *)
(* and call it at any time after it received it.                           *)
(***************************************************************************)
EXTENDS Naturals, Sequences, FiniteSets

CONSTANTS
  Deliveries,   (* the deliveries the broker has for this receiver         *)
  Credits       (* options.parallelMessageProcessing (default 1)           *)

ASSUME CreditsAssumption == Credits \in Nat

VARIABLES
  options,      (* the ListenOptions the listener was registered with      *)
  body,         (* what each delivery carries, as far as decoding can tell *)
  phase,        (* where the library's handler of each delivery is         *)
  callback,     (* the user's callback for each delivery                   *)
  handled,      (* MessageControl.handled                                  *)
  dispositions, (* what the broker was told about each delivery, in order  *)
  credit        (* link credit of the receiver                             *)

handling == <<options, body, phase, callback, handled, dispositions, credit>>

-----------------------------------------------------------------------------
Options ==
  [typed : BOOLEAN, skipValidation : BOOLEAN, acceptNull : BOOLEAN]

(* "unparsable" fails JSON.parse, "null" is the JSON null, and             *)
(* "primitivePayload" has a type and a payload that is not an object, so   *)
(* that writing payload.type throws.                                       *)
Bodies == {"unparsable", "null", "primitivePayload", "object"}

(* "failed": an exception escaped the handler and is on its way to the     *)
(* .catch() of messageHandler.                                             *)
Phases == {"queued", "validating", "calling", "failed", "done"}

Outcomes == {"accepted", "rejected", "released"}

Dispositions == [by : {"user", "library"}, outcome : Outcomes]

TypeOK ==
  /\ options \in Options
  /\ body \in [Deliveries -> Bodies]
  /\ phase \in [Deliveries -> Phases]
  /\ callback \in [Deliveries -> {"notCalled", "running", "returned", "threw"}]
  /\ handled \in [Deliveries -> BOOLEAN]
  /\ dispositions \in [Deliveries -> Seq(Dispositions)]
  /\ credit \in Nat

Init ==
  /\ options \in Options
  /\ body \in [Deliveries -> Bodies]
  /\ phase = [d \in Deliveries |-> "queued"]
  /\ callback = [d \in Deliveries |-> "notCalled"]
  /\ handled = [d \in Deliveries |-> FALSE]
  /\ dispositions = [d \in Deliveries |-> << >>]
  /\ credit = Credits

-----------------------------------------------------------------------------
(* MessageControl.                                                         *)

Report(d, by, outcome) ==
  Append(dispositions[d], [by |-> by, outcome |-> outcome])

(* Forms of Settle that the specification does not use: without the check  *)
(* of `handled`, without the addCredit(1) of handleSettlement(), and with  *)
(* a wrong sign there.                                                     *)
SettleTakesCredit(d, by, outcome, available) ==
  /\ dispositions' = [dispositions EXCEPT ![d] = Report(d, by, outcome)]
  /\ credit' = available - 1
  /\ handled' = [handled EXCEPT ![d] = TRUE]

SettleUnguarded(d, by, outcome, available) ==
  /\ dispositions' = [dispositions EXCEPT ![d] = Report(d, by, outcome)]
  /\ credit' = available + 1
  /\ handled' = [handled EXCEPT ![d] = TRUE]

SettleWithoutCredit(d, by, outcome, available) ==
  /\ credit' = available
  /\ IF handled[d]
       THEN UNCHANGED <<handled, dispositions>>
       ELSE /\ dispositions' =
                 [dispositions EXCEPT ![d] = Report(d, by, outcome)]
            /\ handled' = [handled EXCEPT ![d] = TRUE]

(* accept(), reject() or release() on the control of d while the link has  *)
(* `available` credits: only the first call has an effect.                 *)
Settle(d, by, outcome, available) ==
  IF handled[d]
    THEN /\ credit' = available
         /\ UNCHANGED <<handled, dispositions>>
    ELSE /\ dispositions' = [dispositions EXCEPT ![d] = Report(d, by, outcome)]
         /\ credit' = available + 1
         /\ handled' = [handled EXCEPT ![d] = TRUE]

-----------------------------------------------------------------------------
(* The handler of a delivery.                                              *)

RejectedOnArrival(d) ==
  options.typed /\ body[d] \in {"unparsable", "primitivePayload"}

NeedsValidation(d) ==
  /\ options.typed
  /\ ~options.skipValidation
  /\ body[d] \in {"null", "object"}

GoesTo(d, p) == phase' = [phase EXCEPT ![d] = p]

CallbackIs(d, state) == callback' = [callback EXCEPT ![d] = state]

(* The flow control of AMQP: the broker sends only against credit.         *)
MaySend == credit > 0

(* The message event: the handler runs to its first await.  A body that    *)
(* cannot be decoded is rejected, one that needs no validation starts the  *)
(* callback at once.                                                       *)
OnMessage(d) ==
  /\ phase[d] = "queued"
  /\ MaySend
  /\ \/ /\ RejectedOnArrival(d)
        /\ Settle(d, "library", "rejected", credit - 1)
        /\ GoesTo(d, "done")
        /\ UNCHANGED callback
     \/ /\ NeedsValidation(d)
        /\ credit' = credit - 1
        /\ GoesTo(d, "validating")
        /\ UNCHANGED <<callback, handled, dispositions>>
     \/ /\ ~RejectedOnArrival(d) /\ ~NeedsValidation(d)
        /\ credit' = credit - 1
        /\ GoesTo(d, "calling")
        /\ CallbackIs(d, "running")
        /\ UNCHANGED <<handled, dispositions>>
  /\ UNCHANGED <<options, body>>

(* objectValidatorService.validate() resolved: the callback starts.        *)
ValidationSucceeds(d) ==
  /\ phase[d] = "validating"
  /\ body[d] # "null"
  /\ GoesTo(d, "calling")
  /\ CallbackIs(d, "running")
  /\ UNCHANGED <<options, body, handled, dispositions, credit>>

(* Not used: the option acceptValidationNullObjectException is forgotten.  *)
NullObjectAlwaysRejected(d) ==
  /\ phase[d] = "validating"
  /\ body[d] = "null"
  /\ Settle(d, "library", "rejected", credit)
  /\ GoesTo(d, "done")
  /\ UNCHANGED <<options, body, callback>>

(* validate() threw ValidationNullObjectException: the message is accepted *)
(* when the listener asked for that.                                       *)
NullObjectReceived(d) ==
  /\ phase[d] = "validating"
  /\ body[d] = "null"
  /\ LET outcome == IF options.acceptNull THEN "accepted" ELSE "rejected"
     IN  Settle(d, "library", outcome, credit)
  /\ GoesTo(d, "done")
  /\ UNCHANGED <<options, body, callback>>

(* validate() threw a ValidationException or another Error.                *)
ValidationFails(d) ==
  /\ phase[d] = "validating"
  /\ body[d] # "null"
  /\ Settle(d, "library", "rejected", credit)
  /\ GoesTo(d, "done")
  /\ UNCHANGED <<options, body, callback>>

(* A decorator or a transformer threw something without a message: the     *)
(* catch block itself throws at parsedError.toString().                    *)
ValidationThrowsNonError(d) ==
  /\ phase[d] = "validating"
  /\ body[d] # "null"
  /\ GoesTo(d, "failed")
  /\ UNCHANGED <<options, body, callback, handled, dispositions, credit>>

(* Not used: the auto-accept after the callback is missing.                *)
CallbackReturnsUnaccepted(d) ==
  /\ phase[d] = "calling"
  /\ GoesTo(d, "done")
  /\ CallbackIs(d, "returned")
  /\ UNCHANGED <<options, body, handled, dispositions, credit>>

(* The callback resolved: the message is accepted unless user code has     *)
(* settled it.                                                             *)
CallbackReturns(d) ==
  /\ phase[d] = "calling"
  /\ Settle(d, "library", "accepted", credit)
  /\ GoesTo(d, "done")
  /\ CallbackIs(d, "returned")
  /\ UNCHANGED <<options, body>>

(* The callback threw an Error: the message is rejected unless user code   *)
(* has settled it.                                                         *)
CallbackThrows(d) ==
  /\ phase[d] = "calling"
  /\ Settle(d, "library", "rejected", credit)
  /\ GoesTo(d, "done")
  /\ CallbackIs(d, "threw")
  /\ UNCHANGED <<options, body>>

(* The callback threw null, or a value without a message before anybody    *)
(* settled the delivery: the catch block throws a TypeError of its own,    *)
(* at error.message or in reject() at reason.toString().                   *)
CallbackThrowsNonError(d) ==
  /\ phase[d] = "calling"
  /\ GoesTo(d, "failed")
  /\ CallbackIs(d, "threw")
  /\ UNCHANGED <<options, body, handled, dispositions, credit>>

(* Not used: the safety net logs the error and rejects nothing.            *)
SafetyNetOnlyLogs(d) ==
  /\ phase[d] = "failed"
  /\ GoesTo(d, "done")
  /\ UNCHANGED <<options, body, callback, handled, dispositions, credit>>

(* The .catch() of messageHandler, the last resort of a failed handler.    *)
SafetyNet(d) ==
  /\ phase[d] = "failed"
  /\ Settle(d, "library", "rejected", credit)
  /\ GoesTo(d, "done")
  /\ UNCHANGED <<options, body, callback>>

(* User code calls the control, from the callback or at any later time.    *)
UserSettles(d, outcome) ==
  /\ callback[d] # "notCalled"
  /\ Settle(d, "user", outcome, credit)
  /\ UNCHANGED <<options, body, phase, callback>>

-----------------------------------------------------------------------------
(* The steps of the library once the broker has sent d.                    *)
Handle(d) ==
  \/ ValidationSucceeds(d)
  \/ NullObjectReceived(d)
  \/ ValidationFails(d)
  \/ ValidationThrowsNonError(d)
  \/ CallbackReturns(d)
  \/ CallbackThrows(d)
  \/ CallbackThrowsNonError(d)
  \/ SafetyNet(d)

Next ==
  \E d \in Deliveries :
    \/ OnMessage(d)
    \/ Handle(d)
    \/ \E outcome \in Outcomes : UserSettles(d, outcome)

Spec == Init /\ [][Next]_handling

(* Promises settle, callbacks come to an end, and a broker that has credit *)
(* sends what it holds.                                                    *)
Fairness ==
  /\ \A d \in Deliveries : WF_handling(Handle(d))
  /\ WF_handling(\E d \in Deliveries : OnMessage(d))

FairSpec == Spec /\ Fairness

-----------------------------------------------------------------------------
Unsettled == {d \in Deliveries : phase[d] # "queued" /\ ~handled[d]}

(* The broker hears exactly one outcome of a delivery, and only if its     *)
(* control says so: user code, the auto-accept, the catch blocks and the   *)
(* safety net race for the settlement of MessageControl.                   *)
SettledOnce ==
  \A d \in Deliveries : Len(dispositions[d]) = IF handled[d] THEN 1 ELSE 0

(* No credit is lost and none is invented: whatever path a delivery takes, *)
(* handleSettlement() gives its credit back exactly once.                  *)
CreditConserved ==
  /\ IsFiniteSet(Unsettled)
  /\ credit + Cardinality(Unsettled) = Credits

(* A handler of messageHandler never ends without a settlement, whatever   *)
(* decoding, the validator or the callback threw.                          *)
FinishedIsSettled == \A d \in Deliveries : phase[d] = "done" => handled[d]

SettledBy(d, who) ==
  \E i \in 1..Len(dispositions[d]) : dispositions[d][i].by = who

(* A null body that the validator of the listener has to reject.           *)
InvalidNull(d) ==
  options.typed /\ ~options.skipValidation /\ body[d] = "null"

(* The outcome that the documents promise for a message that user code     *)
(* leaves alone.                                                           *)
CalledFor(d) ==
  IF callback[d] = "returned" \/ (InvalidNull(d) /\ options.acceptNull)
    THEN "accepted" ELSE "rejected"

(* Before its handler is over the library settles nothing of a message.    *)
(* Then the message has the outcome that is called for, or user code has   *)
(* settled it.  The callback is passed over only for a body that cannot be *)
(* decoded or validated, and an invalid null never reaches it.             *)
SettledAsCalledFor(d) ==
  /\ SettledBy(d, "library") => phase[d] = "done"
  /\ phase[d] = "done" /\ ~SettledBy(d, "user") =>
       dispositions[d] = << [by |-> "library", outcome |-> CalledFor(d)] >>
  /\ phase[d] = "done" /\ callback[d] = "notCalled" =>
       RejectedOnArrival(d) \/ NeedsValidation(d)
  /\ InvalidNull(d) => callback[d] = "notCalled"

(* README "Message control" and acceptValidationNullObjectException: once  *)
(* the handler of a message is over, the message has, unless user code has *)
(* settled it, the very outcome that is called for: accepted if the        *)
(* callback ended well, or for an invalid null body if the listener asked  *)
(* for that, and rejected in every other case.                             *)
AutomaticSettlement == \A d \in Deliveries : SettledAsCalledFor(d)

(* The first settlement stands: later calls on the control of a delivery   *)
(* neither replace nor extend what the broker was told.                    *)
FirstSettlementStands ==
  [][\A d \in Deliveries :
       dispositions[d] # << >> => dispositions'[d] = dispositions[d]]_handling

(* Every message the broker holds is settled in the end: no failure on the *)
(* way of one delivery starves the ones behind it of credit.               *)
EveryMessageSettled == \A d \in Deliveries : <>handled[d]

(* The receiver implements the processing slots it was configured with.    *)
Slots ==
  INSTANCE ProcessingSlots WITH
    Messages <- Deliveries, Slots <- Credits,
    free <- credit, busy <- Unsettled,
    served <- {d \in Deliveries : handled[d]}

ImplementsSlots == Slots!Spec

=============================================================================
