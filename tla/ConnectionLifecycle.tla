------------------------- MODULE ConnectionLifecycle -----------------------
(***************************************************************************)
(* One connection of AMQPService: its creation, the events rhea reports    *)
(* about it, the reopening one second after the broker closed it with an   *)
(* error, the RECONNECT event the rest of the module listens to, and the   *)
(* closing at shutdown.                                                    *)
(*                                                                         *)
(* Two mechanisms bring a connection back.  When the transport breaks, or  *)
(* cannot be built in the first place, rhea goes on trying by itself and   *)
(* the service only logs it.  When the broker closes the connection with   *)
(* an error, rhea does nothing and the service opens it again from a       *)
(* timer.  Neither is stopped by disconnect().                             *)
(***************************************************************************)
EXTENDS Naturals

CONSTANTS
  MaxCloses     (* bound: closes and losses by the broker's side           *)

ASSUME MaxClosesAssumption == MaxCloses \in Nat

VARIABLES
  state,        (* the rhea Connection                                     *)
  creation,     (* where createConnection() is                             *)
  stored,       (* is the connection in AMQConnectionStorage?              *)
  timers,       (* armed timers of the close handler                       *)
  reopening,    (* open() calls of those timers that are pending           *)
  reconnects,   (* RECONNECT events emitted                                *)
  abandoned,    (* reopenings that failed and were only logged             *)
  errorCloses,  (* closes with an error                                    *)
  faults,       (* all closes and losses, counted for the bound            *)
  lastClose,    (* the last close by the broker, and attempts to reopen    *)
  shutdown      (* where disconnect() is                                   *)

vars == <<state, creation, stored, timers, reopening,
          reconnects, abandoned, errorCloses, faults, lastClose, shutdown>>

TypeOK ==
  /\ state \in {"idle", "open", "lost", "closed"}
  /\ creation \in {"notStarted", "opening", "created", "threw"}
  /\ stored \in BOOLEAN
  /\ timers \in 0..MaxCloses /\ reopening \in 0..MaxCloses
  /\ reconnects \in Nat /\ abandoned \in Nat
  /\ faults \in 0..MaxCloses /\ errorCloses \in 0..faults
  /\ lastClose \in [error : {"none", "yes", "no"}, retried : BOOLEAN]
  /\ shutdown \in {"no", "closing", "closed", "notOpen", "threw"}

Init ==
  /\ state = "idle"
  /\ creation = "notStarted"
  /\ stored = FALSE
  /\ timers = 0 /\ reopening = 0
  /\ reconnects = 0 /\ abandoned = 0
  /\ errorCloses = 0 /\ faults = 0
  /\ lastClose = [error |-> "none", retried |-> FALSE]
  /\ shutdown = "no"

-----------------------------------------------------------------------------
(* createConnection().                                                     *)

CreateConnection ==
  /\ creation = "notStarted"
  /\ creation' = "opening"
  /\ UNCHANGED <<state, stored, timers, reopening, reconnects, abandoned,
                 errorCloses, faults, lastClose, shutdown>>

(* AMQConnectionStorage.add().                                             *)
Created == creation' = "created" /\ stored' = TRUE

OpenSucceeds ==
  /\ creation = "opening"
  /\ state' = "open"
  /\ Created
  /\ UNCHANGED <<timers, reopening, reconnects, abandoned, errorCloses, faults,
                 lastClose, shutdown>>

(* open() rejected: with throwExceptionOnConnectionError the error goes to *)
(* the caller, without it the connection is stored all the same.  This     *)
(* happens at most once, so the option is a free choice here.              *)
OpenRejected ==
  \/ creation' = "threw" /\ UNCHANGED stored
  \/ Created

-----------------------------------------------------------------------------
(* The handlers of connection events.                                      *)

(* Not used: the close handler takes an error for a clean close.           *)
ClosedWithErrorIgnored ==
  /\ faults < MaxCloses
  /\ faults' = faults + 1
  /\ errorCloses' = errorCloses + 1
  /\ state' = "closed"
  /\ lastClose' = [error |-> "yes", retried |-> FALSE]
  /\ UNCHANGED timers

(* connection_close with an error: the service will open the connection    *)
(* again in a second.                                                      *)
ClosedWithError ==
  /\ faults < MaxCloses
  /\ faults' = faults + 1
  /\ errorCloses' = errorCloses + 1
  /\ timers' = timers + 1
  /\ state' = "closed"
  /\ lastClose' = [error |-> "yes", retried |-> FALSE]

(* connection_close without an error is logged.                            *)
ClosedCleanly ==
  /\ faults < MaxCloses
  /\ faults' = faults + 1
  /\ state' = "closed"
  /\ lastClose' = [error |-> "no", retried |-> FALSE]
  /\ UNCHANGED <<errorCloses, timers>>

(* An open() failed: the broker was out of reach, and rhea may go on       *)
(* trying, or it answered with a close, which runs the close handler too.  *)
OpenRefused ==
  \/ /\ state' \in {state, "lost"}
     /\ UNCHANGED <<faults, errorCloses, timers, lastClose>>
  \/ ClosedWithError

OpenFails ==
  /\ creation = "opening"
  /\ OpenRejected
  /\ OpenRefused
  /\ UNCHANGED <<reopening, reconnects, abandoned, shutdown>>

PeerCloses ==
  /\ state = "open"
  /\ ClosedWithError \/ ClosedCleanly
  /\ UNCHANGED <<creation, stored, reopening, reconnects, abandoned, shutdown>>

(* Not used: the handler of `disconnected` arms the timer as well, though  *)
(* rhea reconnects by itself.                                              *)
TransportLostArmsTimer ==
  /\ state = "open"
  /\ faults < MaxCloses
  /\ faults' = faults + 1
  /\ state' = "lost"
  /\ timers' = timers + 1
  /\ UNCHANGED <<creation, stored, reopening, reconnects, abandoned,
                 errorCloses, lastClose, shutdown>>

(* The transport breaks: `disconnected` is logged.                         *)
TransportLost ==
  /\ state = "open"
  /\ faults < MaxCloses
  /\ faults' = faults + 1
  /\ state' = "lost"
  /\ UNCHANGED <<creation, stored, timers, reopening, reconnects, abandoned,
                 errorCloses, lastClose, shutdown>>

(* rhea has reconnected.  close() of a lost connection does not stop it.   *)
RheaReconnects ==
  /\ state = "lost"
  /\ state' = "open"
  /\ UNCHANGED <<creation, stored, timers, reopening, reconnects, abandoned,
                 errorCloses, faults, lastClose, shutdown>>

-----------------------------------------------------------------------------
(* timeoutHandler.                                                         *)

(* Not used: setInterval() in place of setTimeout().                       *)
TimerFiresAgainAndAgain ==
  /\ timers > 0
  /\ reopening' = reopening + 1
  /\ lastClose' = [lastClose EXCEPT !.retried = TRUE]
  /\ UNCHANGED <<state, creation, stored, timers, reconnects,
                 abandoned, errorCloses, faults, shutdown>>

TimerFires ==
  /\ timers > 0
  /\ timers' = timers - 1
  /\ reopening' = reopening + 1
  /\ lastClose' = [lastClose EXCEPT !.retried = TRUE]
  /\ UNCHANGED <<state, creation, stored, reconnects, abandoned, errorCloses,
                 faults, shutdown>>

(* Not used: the connection is reopened without telling anybody.           *)
ReopenSucceedsSilently ==
  /\ reopening > 0
  /\ reopening' = reopening - 1
  /\ state' = "open"
  /\ UNCHANGED <<creation, stored, timers, reconnects, abandoned, errorCloses,
                 faults, lastClose, shutdown>>

(* open() resolved: the RECONNECT event is emitted.                        *)
ReopenSucceeds ==
  /\ reopening > 0
  /\ reopening' = reopening - 1
  /\ state' = "open"
  /\ reconnects' = reconnects + 1
  /\ UNCHANGED <<creation, stored, timers, abandoned, errorCloses, faults,
                 lastClose, shutdown>>

(* open() rejected: that is only logged.  When the broker answered with a  *)
(* close, the close handler has armed the next timer.                      *)
ReopenFails ==
  /\ reopening > 0
  /\ reopening' = reopening - 1
  /\ abandoned' = abandoned + 1
  /\ OpenRefused
  /\ UNCHANGED <<creation, stored, reconnects, shutdown>>

-----------------------------------------------------------------------------
(* disconnect() of a stored connection: close() asks the broker when the   *)
(* connection is open and resolves at once when it is not.  The timers     *)
(* stay armed.                                                             *)
Disconnect ==
  /\ stored
  /\ shutdown = "no"
  /\ shutdown' = IF state = "open" THEN "closing" ELSE "notOpen"
  /\ UNCHANGED <<state, creation, stored, timers, reopening, reconnects,
                 abandoned, errorCloses, faults, lastClose>>

(* close() resolved: the connection is closed, or the broker, whose close  *)
(* may have had an error, was first.                                       *)
CloseCompletes ==
  /\ shutdown = "closing"
  /\ state # "lost"
  /\ shutdown' = IF state = "open" THEN "closed" ELSE "notOpen"
  /\ state' = "closed"
  /\ UNCHANGED <<creation, stored, timers, reopening, reconnects, abandoned,
                 errorCloses, faults, lastClose>>

(* close() rejected, since the transport broke or no answer came.          *)
CloseFails ==
  /\ shutdown = "closing"
  /\ shutdown' = "threw"
  /\ UNCHANGED <<state, creation, stored, timers, reopening, reconnects,
                 abandoned, errorCloses, faults, lastClose>>

-----------------------------------------------------------------------------
(* What the service does by itself once something has happened.            *)
Service ==
  \/ OpenSucceeds
  \/ OpenFails
  \/ TimerFires
  \/ ReopenSucceeds
  \/ ReopenFails
  \/ CloseCompletes
  \/ CloseFails

Broker ==
  \/ PeerCloses
  \/ TransportLost
  \/ RheaReconnects

Application ==
  \/ CreateConnection
  \/ Disconnect

Next == Service \/ Broker \/ Application

Spec == Init /\ [][Next]_vars

(* Timers fire and promises settle.                                        *)
FairSpec == Spec /\ WF_vars(Service)

-----------------------------------------------------------------------------
(* The service never reopens a connection that is open, nor twice at the   *)
(* same time: a second reopening would emit a second RECONNECT, on which   *)
(* QueueModule attaches every listener again.                              *)
OneReopeningAtATime ==
  /\ timers + reopening <= 1
  /\ timers + reopening = 1 => state # "open"

(* Every close with an error ends in exactly one of: a pending reopening,  *)
(* a RECONNECT event, or a failure that is logged.  None is forgotten and  *)
(* none is announced twice.                                                *)
EveryErrorCloseAccounted ==
  errorCloses = timers + reopening + reconnects + abandoned

(* A close with an error is always followed by an attempt to open the      *)
(* connection again.                                                       *)
ErrorCloseIsAnswered ==
  lastClose = [error |-> "yes", retried |-> FALSE] ~> lastClose.retried

(* A connection that disconnect() found open and closed stays closed: it   *)
(* leaves no timer behind, no reopening and no attempt of rhea, whatever   *)
(* had happened to it before.                                              *)
ClosedStaysClosed == shutdown = "closed" => state = "closed"

Disconnected == shutdown \in {"closed", "notOpen"}

(* shutdown(), "Closes the connection to the message broker": once         *)
(* disconnect() is over, a connection that the broker had closed with an   *)
(* error does not open again.                                              *)
ClosedForGood == Disconnected /\ lastClose.error = "yes" => state # "open"

=============================================================================
