---------------------- MODULE ConnectionLifecycleProofs ---------------------
(***************************************************************************)
(* For any number of closes and losses of a connection: the reopening      *)
(* timer and rhea's own reconnecting never meet, no close with an error is *)
(* forgotten or announced twice, and a connection that disconnect() closed *)
(* stays closed.                                                           *)
(***************************************************************************)
EXTENDS ConnectionLifecycle, TLAPS

(* Before the first open() is answered nothing can have been opened or     *)
(* closed, and disconnect() does not know the connection.                  *)
FirstOpenFirst ==
  creation \in {"notStarted", "opening"} =>
    /\ state = "idle" /\ timers = 0 /\ reopening = 0
    /\ stored = FALSE /\ shutdown = "no"

(* A lost connection is rhea's alone.                                      *)
LostIsRheas == state = "lost" => timers = 0 /\ reopening = 0

(* When disconnect() has closed a connection nothing is pending for it.    *)
ClosedIsQuiet ==
  shutdown = "closed" =>
    /\ creation \notin {"notStarted", "opening"}
    /\ state = "closed" /\ timers = 0 /\ reopening = 0

ConnectionInv ==
  /\ TypeOK
  /\ FirstOpenFirst
  /\ LostIsRheas
  /\ ClosedIsQuiet
  /\ OneReopeningAtATime
  /\ EveryErrorCloseAccounted

-----------------------------------------------------------------------------
LEMMA ConnectionInvInit == Init => ConnectionInv
<1> SUFFICES ASSUME Init PROVE ConnectionInv
  OBVIOUS
<1>1. TypeOK
  <2>1. /\ lastClose \in [error : {"none", "yes", "no"}, retried : BOOLEAN]
        /\ stored \in BOOLEAN
    BY DEF Init
  <2>2. /\ state = "idle" /\ creation = "notStarted"
        /\ timers = 0 /\ reopening = 0 /\ reconnects = 0 /\ abandoned = 0
        /\ errorCloses = 0 /\ faults = 0 /\ shutdown = "no"
    BY DEF Init
  <2> QED
    BY <2>1, <2>2, MaxClosesAssumption DEF TypeOK
<1>2. /\ FirstOpenFirst /\ LostIsRheas /\ ClosedIsQuiet
      /\ OneReopeningAtATime /\ EveryErrorCloseAccounted
  BY DEF Init, FirstOpenFirst, LostIsRheas, ClosedIsQuiet,
         OneReopeningAtATime, EveryErrorCloseAccounted
<1> QED
  BY <1>1, <1>2 DEF ConnectionInv

(* What a close with an error does to the counters, whoever reports it.    *)
LEMMA ErrorCloseCounts ==
  ASSUME TypeOK, ClosedWithError
  PROVE  /\ faults' = faults + 1 /\ faults' \in 0..MaxCloses
         /\ errorCloses' = errorCloses + 1 /\ errorCloses' \in 0..faults'
         /\ timers' = timers + 1
         /\ state' = "closed"
         /\ lastClose' \in [error : {"none", "yes", "no"}, retried : BOOLEAN]
  BY MaxClosesAssumption DEF TypeOK, ClosedWithError

(* Every action keeps the invariant.                                       *)
LEMMA ConnectionInvStep == ConnectionInv /\ [Next]_vars => ConnectionInv'
<1> SUFFICES ASSUME ConnectionInv, [Next]_vars PROVE ConnectionInv'
  OBVIOUS
<1> USE MaxClosesAssumption
    DEF ConnectionInv, FirstOpenFirst, LostIsRheas, ClosedIsQuiet,
        OneReopeningAtATime, EveryErrorCloseAccounted
<1>1. CASE UNCHANGED vars
  BY <1>1 DEF vars, TypeOK
<1>2. CASE CreateConnection
  BY <1>2 DEF CreateConnection, TypeOK
<1>3. CASE OpenSucceeds
  BY <1>3 DEF OpenSucceeds, Created, TypeOK
<1>4. CASE OpenFails
  <2>1. CASE /\ state' \in {state, "lost"}
             /\ UNCHANGED <<faults, errorCloses, timers, lastClose>>
    BY <1>4, <2>1 DEF OpenFails, OpenRejected, Created, TypeOK
  <2>2. CASE ClosedWithError
    <3>1. timers = 0 /\ reopening = 0 /\ faults < MaxCloses
      BY <1>4, <2>2 DEF OpenFails, ClosedWithError, TypeOK
    <3>2. /\ UNCHANGED <<reopening, reconnects, abandoned, shutdown>>
          /\ creation' \in {"created", "threw"} /\ stored' \in BOOLEAN
      BY <1>4 DEF OpenFails, OpenRejected, Created, TypeOK
    <3>3. /\ faults' = faults + 1 /\ faults' \in 0..MaxCloses
          /\ errorCloses' = errorCloses + 1 /\ errorCloses' \in 0..faults'
          /\ timers' = 1
          /\ state' = "closed"
          /\ lastClose' \in [error : {"none", "yes", "no"}, retried : BOOLEAN]
      BY <2>2, <3>1, ErrorCloseCounts
    <3>4. MaxCloses >= 1
      BY <3>1 DEF TypeOK
    <3>5. TypeOK'
      BY <3>1, <3>2, <3>3, <3>4 DEF TypeOK
    <3>6. /\ FirstOpenFirst' /\ LostIsRheas' /\ ClosedIsQuiet'
          /\ OneReopeningAtATime' /\ EveryErrorCloseAccounted'
      BY <1>4, <3>1, <3>2, <3>3 DEF OpenFails, TypeOK
    <3> QED
      BY <3>5, <3>6
  <2> QED
    BY <1>4, <2>1, <2>2 DEF OpenFails, OpenRefused
<1>5. CASE PeerCloses
  <2>1. CASE ClosedWithError
    <3>1. timers = 0 /\ reopening = 0 /\ faults < MaxCloses
      BY <1>5, <2>1 DEF PeerCloses, ClosedWithError, TypeOK
    <3>2. UNCHANGED <<creation, stored, reopening, reconnects, abandoned,
                      shutdown>>
      BY <1>5 DEF PeerCloses
    <3>3. /\ faults' = faults + 1 /\ faults' \in 0..MaxCloses
          /\ errorCloses' = errorCloses + 1 /\ errorCloses' \in 0..faults'
          /\ timers' = 1
          /\ state' = "closed"
          /\ lastClose' \in [error : {"none", "yes", "no"}, retried : BOOLEAN]
      BY <2>1, <3>1, ErrorCloseCounts
    <3>4. MaxCloses >= 1
      BY <3>1 DEF TypeOK
    <3>5. TypeOK'
      BY <3>1, <3>2, <3>3, <3>4 DEF TypeOK
    <3>6. /\ FirstOpenFirst' /\ LostIsRheas' /\ ClosedIsQuiet'
          /\ OneReopeningAtATime' /\ EveryErrorCloseAccounted'
      BY <1>5, <3>1, <3>2, <3>3 DEF PeerCloses, TypeOK
    <3> QED
      BY <3>5, <3>6
  <2>2. CASE ClosedCleanly
    BY <1>5, <2>2 DEF PeerCloses, ClosedCleanly, TypeOK
  <2> QED
    BY <1>5, <2>1, <2>2 DEF PeerCloses
<1>6. CASE TransportLost
  BY <1>6 DEF TransportLost, TypeOK
<1>7. CASE RheaReconnects
  BY <1>7 DEF RheaReconnects, TypeOK
<1>8. CASE TimerFires
  <2>1. lastClose' \in [error : {"none", "yes", "no"}, retried : BOOLEAN]
    BY <1>8 DEF TimerFires, TypeOK
  <2>2. timers = 1 /\ reopening = 0 /\ MaxCloses >= 1
    BY <1>8 DEF TimerFires, TypeOK
  <2>3. timers' = 0 /\ reopening' = 1
    BY <1>8, <2>2 DEF TimerFires
  <2>4. UNCHANGED <<state, creation, stored, reconnects, abandoned,
                    errorCloses, faults, shutdown>>
    BY <1>8 DEF TimerFires
  <2> QED
    BY <2>1, <2>2, <2>3, <2>4 DEF TypeOK
<1>9. CASE ReopenSucceeds
  BY <1>9 DEF ReopenSucceeds, TypeOK
<1>10. CASE ReopenFails
  <2>1. CASE /\ state' \in {state, "lost"}
             /\ UNCHANGED <<faults, errorCloses, timers, lastClose>>
    BY <1>10, <2>1 DEF ReopenFails, TypeOK
  <2>2. CASE ClosedWithError
    BY <1>10, <2>2, ErrorCloseCounts DEF ReopenFails, TypeOK
  <2> QED
    BY <1>10, <2>1, <2>2 DEF ReopenFails, OpenRefused
<1>11. CASE Disconnect
  BY <1>11 DEF Disconnect, TypeOK
<1>12. CASE CloseCompletes
  BY <1>12 DEF CloseCompletes, TypeOK
<1>13. CASE CloseFails
  BY <1>13 DEF CloseFails, TypeOK
<1> QED
  BY <1>1, <1>2, <1>3, <1>4, <1>5, <1>6, <1>7, <1>8, <1>9, <1>10, <1>11,
     <1>12, <1>13
     DEF Next, Service, Broker, Application

LEMMA ConnectionInvariance == Spec => []ConnectionInv
<1> QED
  BY ConnectionInvInit, ConnectionInvStep, PTL DEF Spec

(* At most one reopening is armed or pending, and never of an open         *)
(* connection: the service's timer and rhea never both bring it back.      *)
THEOREM ReopeningsNeverMeet == Spec => []OneReopeningAtATime
<1>1. ConnectionInv => OneReopeningAtATime
  BY DEF ConnectionInv
<1> QED
  BY <1>1, ConnectionInvariance, PTL

(* Every close with an error is pending, announced once, or logged as      *)
(* failed.                                                                 *)
THEOREM ErrorClosesAddUp == Spec => []EveryErrorCloseAccounted
<1>1. ConnectionInv => EveryErrorCloseAccounted
  BY DEF ConnectionInv
<1> QED
  BY <1>1, ConnectionInvariance, PTL

(* Type correctness.                                                       *)
THEOREM TypeCorrect == Spec => []TypeOK
<1>1. ConnectionInv => TypeOK
  BY DEF ConnectionInv
<1> QED
  BY <1>1, ConnectionInvariance, PTL

(* What disconnect() has closed stays closed: a connection that is open    *)
(* has no timer and no reopening, and a lost one is not closed but missed. *)
THEOREM ClosedConnectionsStayClosed == Spec => []ClosedStaysClosed
<1>1. ConnectionInv => ClosedStaysClosed
  BY DEF ConnectionInv, ClosedIsQuiet, ClosedStaysClosed
<1> QED
  BY <1>1, ConnectionInvariance, PTL

=============================================================================
