---------------------------- MODULE Reattachment ---------------------------
(***************************************************************************)
(* QueueModule over LinkRegistry: onModuleInit() attaches every @Listen()  *)
(* method one after the other, and whenever a connection of AMQPService    *)
(* has been reopened after a close with an error, the handler of the       *)
(* RECONNECT event clears the Maps and attaches all of them again.         *)
(*                                                                         *)
(* A run of attachListeners() is a caller of LinkRegistry: run 0 is that   *)
(* of onModuleInit(), run n that of the n-th event.  Runs overlap when     *)
(* connections are reopened in quick succession.  There is one Map for all *)
(* connections, and the event does not say which of them it is about.  The *)
(* application is one more caller, which adds and removes listeners with   *)
(* listen() and removeListener() at any time after the start.              *)
(***************************************************************************)
EXTENDS LinkRegistry, SequencesExt

CONSTANTS
  Connections,    (* the connections of the module                         *)
  ConnectionOf,   (* the connection of each link token                     *)
  Listeners,      (* the tokens of the @Listen() methods, as explored      *)
  App,            (* the application                                       *)
  MaxAppCalls     (* bound: how many calls it makes                        *)

Runs == 0..MaxClears

ASSUME ReattachmentAssumption ==
  /\ ConnectionOf \in [Queues -> Connections]
  /\ Listeners \in Seq(Queues) /\ Listeners # << >>
  /\ App \notin Runs /\ Callers = Runs \cup {App}
  /\ MaxAppCalls \in Nat

VARIABLES
  up,         (* is the connection open?                                   *)
  closes,     (* closes with an error, at most MaxClears                   *)
  missed,     (* connections whose event came before its handler was there *)
  run,        (* state of each run of attachListeners()                    *)
  position,   (* the listener each run has come to                         *)
  touched,    (* queues of application calls since the last event          *)
  appCalls    (* how many calls the application has made                   *)

application == <<touched, appCalls>>

module == <<vars, up, closes, missed, run, position, application>>

ReattachmentTypeOK ==
  /\ TypeOK
  /\ up \in [Connections -> BOOLEAN]
  /\ closes \in 0..MaxClears
  /\ missed \subseteq Connections
  /\ run \in [Runs -> {"idle", "attaching", "attached", "failed"}]
  /\ position \in [Runs -> 0..Len(Listeners)]
  /\ touched \subseteq Queues
  /\ appCalls \in 0..MaxAppCalls

(* onModuleInit() has called attachListeners(), which runs to its first    *)
(* await: the request for the link of the first listener.                  *)
ReattachmentInit ==
  /\ registry = [k \in Kinds |-> [q \in Queues |-> NoLink]]
  /\ links = << >>
  /\ call = [r \in Callers |->
               IF r = 0 THEN Creating("listen", Listeners[1])
                        ELSE Idle(Listeners[1])]
  /\ removals = [q \in Queues |-> 0]
  /\ overlapped = {}
  /\ clears = 0
  /\ up = [k \in Connections |-> TRUE]
  /\ closes = 0
  /\ missed = {}
  /\ run = [r \in Runs |-> IF r = 0 THEN "attaching" ELSE "idle"]
  /\ position = [r \in Runs |-> IF r = 0 THEN 1 ELSE 0]
  /\ touched = {}
  /\ appCalls = 0

-----------------------------------------------------------------------------
(* attachListeners().                                                      *)

(* The broker answers a run, or the application, that is waiting for it.   *)
Answer(c) ==
  /\ \/ up[ConnectionOf[call[c].queue]] /\ CreateSucceeds(c)
     \/ CreateFails(c)
     \/ Wakes(c)
     \/ CloseSucceeds(c)
     \/ CloseFails(c)
  /\ UNCHANGED <<up, closes, missed, run, position, application>>

HasListened(r) ==
  run[r] = "attaching" /\ call[r].at = "returned" /\ call[r].outcome = "link"

(* Not used: the first listener is taken for the last one.                 *)
NoneLeft(r) == TRUE

LastListener(r) == position[r] = Len(Listeners)

(* listen() has resolved: on to the next listener.                         *)
NextListener(r) ==
  /\ HasListened(r)
  /\ ~LastListener(r)
  /\ GetReceiver(r, Listeners[position[r] + 1])
  /\ position' = [position EXCEPT ![r] = @ + 1]
  /\ UNCHANGED <<up, closes, missed, run, application>>

(* The last one is attached; onModuleInit() then registers the handler of  *)
(* the event, which stands in the model for run 0 being "attached".        *)
AllAttached(r) ==
  /\ HasListened(r)
  /\ LastListener(r)
  /\ run' = [run EXCEPT ![r] = "attached"]
  /\ UNCHANGED <<vars, up, closes, missed, position, application>>

(* listen() has rejected: the listeners behind this one are not tried.     *)
(* Run 0 makes the application fail to start, later ones log the error.    *)
Abort(r) ==
  /\ run[r] = "attaching"
  /\ call[r].at = "returned"
  /\ call[r].outcome # "link"
  /\ run' = [run EXCEPT ![r] = "failed"]
  /\ UNCHANGED <<vars, up, closes, missed, position, application>>

Proceed(r) == Answer(r) \/ NextListener(r) \/ AllAttached(r) \/ Abort(r)

-----------------------------------------------------------------------------
(* The application calls listen() or removeListener(), one after the other.*)
AppCalls(q) ==
  /\ run[0] = "attached"
  /\ appCalls < MaxAppCalls
  /\ GetReceiver(App, q) \/ RemoveListener(App, q)
  /\ touched' = touched \cup {q}
  /\ appCalls' = appCalls + 1
  /\ UNCHANGED <<up, closes, missed, run, position>>

-----------------------------------------------------------------------------
(* The connections.                                                        *)

(* The broker closes connection k with an error, and with it its links.    *)
ErrorClose(k) ==
  /\ up[k]
  /\ closes < MaxClears
  /\ up' = [up EXCEPT ![k] = FALSE]
  /\ closes' = closes + 1
  /\ links' = [l \in 1..Len(links) |->
                 IF ConnectionOf[links[l].queue] = k
                   THEN [links[l] EXCEPT !.open = FALSE] ELSE links[l]]
  /\ UNCHANGED <<registry, call, removals, overlapped, clears, missed, run,
                 position, application>>

(* At an event only a call that is pending counts from then on.            *)
ForgetTouched ==
  /\ touched' = IF call[App].at = "returned" THEN {} ELSE {call[App].queue}
  /\ UNCHANGED appCalls

(* The handler of the event: it clears the Maps and starts the next run,   *)
(* again up to the request for its first link.  The variant that does not  *)
(* clear them is not used.                                                 *)
ReattachUncleared ==
  LET r == clears + 1
  IN  /\ clears' = r
      /\ call' = [call EXCEPT ![r] =
           IF Has("receiver", Listeners[1])
             THEN [Idle(Listeners[1]) EXCEPT
                     !.op = "listen", !.outcome = "link",
                     !.link = registry["receiver"][Listeners[1]]]
             ELSE Creating("listen", Listeners[1])]
      /\ NoteOverlap(r, "receiver", Listeners[1])
      /\ run' = [run EXCEPT ![r] = "attaching"]
      /\ position' = [position EXCEPT ![r] = 1]
      /\ ForgetTouched
      /\ UNCHANGED <<registry, links, removals, missed>>

Reattach ==
  LET r == clears + 1
  IN  /\ EmptyMaps
      /\ call' = [call EXCEPT ![r] = Creating("listen", Listeners[1])]
      /\ NoteOverlap(r, "receiver", Listeners[1])
      /\ run' = [run EXCEPT ![r] = "attaching"]
      /\ position' = [position EXCEPT ![r] = 1]
      /\ ForgetTouched
      /\ UNCHANGED <<links, removals, missed>>

(* The service has opened connection k again and emits the event.  Before  *)
(* run 0 is over nobody listens.  What waited for a link on k has been     *)
(* rejected by then (the timer dispatches `disconnected` first).           *)
Reopened(k) ==
  /\ ~up[k]
  /\ \A r \in Callers :
       call[r].at = "creating" => ConnectionOf[call[r].queue] # k
  /\ up' = [up EXCEPT ![k] = TRUE]
  /\ \/ run[0] = "attached" /\ Reattach
     \/ /\ run[0] # "attached"
        /\ missed' = missed \cup {k}
        /\ UNCHANGED <<vars, run, position, application>>
  /\ UNCHANGED closes

-----------------------------------------------------------------------------
ReattachmentNext ==
  \/ \E r \in Runs : Proceed(r)
  \/ Answer(App)
  \/ \E q \in Queues : AppCalls(q)
  \/ \E k \in Connections : ErrorClose(k) \/ Reopened(k)

ReattachmentSpec == ReattachmentInit /\ [][ReattachmentNext]_module

(* Promises settle.  Nothing makes a connection come back.                 *)
ReattachmentFairSpec ==
  ReattachmentSpec /\ \A r \in Runs : WF_module(Proceed(r))

-----------------------------------------------------------------------------
(* The service knows a receiver for q that takes messages.                 *)
Listening(q) ==
  LET l == registry["receiver"][q] IN l # NoLink /\ links[l].open

Decorated == ToSet(Listeners)

(* "receivers reattached" (log of the RECONNECT handler) is the truth, and *)
(* the Map then has exactly the listeners that were found at the start:    *)
(* when the run of the last event is over and no connection is down, each  *)
(* of them has an open receiver that the Map knows, even when runs have    *)
(* overlapped and overwritten each other's entries -- and even when the    *)
(* application had removed it before the event -- while those it had added *)
(* are gone.  Queues the application has called about since the event are  *)
(* its own business.  The exception are connections that were reopened     *)
(* before the handler of the event was there: their listeners stay deaf    *)
(* until some other connection's event.                                    *)
ReattachedIsListening ==
  /\ run[clears] = "attached"
  /\ \A k \in Connections : up[k]
  /\ missed = {} \/ clears > 0
  => \A q \in Queues \ touched :
       IF q \in Decorated THEN Listening(q)
                          ELSE registry["receiver"][q] = NoLink

(* However runs and the application's calls overlap, a queue gets no more  *)
(* receivers than this: one from onModuleInit(), even if several @Listen() *)
(* methods name the queue, one from each of those methods for every event  *)
(* (a run opens a second one only if the next event has cleared the Map    *)
(* under it), and one for each listen() of the application.                *)
DuplicatesBounded ==
  \A q \in Queues :
    LET methods == {i \in 1..Len(Listeners) : Listeners[i] = q}
        first == IF methods = {} THEN 0 ELSE 1
    IN  Cardinality(OpenLinks("receiver", q)) <=
          first + clears * Cardinality(methods) + appCalls

(* An event brings all listeners back, unless one of them cannot be        *)
(* attached, the application interferes, another connection goes down, or  *)
(* a later event takes over.                                               *)
EventBringsListenersBack ==
  \A r \in Runs \ {0} :
    run[r] = "attaching" ~>
      \/ \A q \in Decorated \ touched : Listening(q)
      \/ run[r] = "failed"
      \/ clears > r
      \/ \E k \in Connections : ~up[k]

(* QueueService constructor, "this means only one sender and receiver /    *)
(* app / queue", for receivers that no two overlapping calls have asked    *)
(* for.                                                                    *)
OneReceiverPerListener ==
  \A q \in Queues :
    <<"receiver", q>> \notin overlapped =>
      Cardinality(OpenLinks("receiver", q)) <= 1

=============================================================================
