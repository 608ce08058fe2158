------------------------- MODULE ReattachmentProofs ------------------------
(***************************************************************************)
(* Proofs about Reattachment, for any connections, listeners, events and   *)
(* calls of the application.  Two invariants: what the runs and the Maps   *)
(* have to do with each other, and which answers of the broker the         *)
(* receivers that were ever opened go back to.                             *)
(***************************************************************************)
EXTENDS Reattachment, LinkRegistryProofs

(* A request for a link is out, or will be made again.                     *)
Waiting(c) == call[c].at \in {"creating", "sleeping"}

(* The types that ReattachmentTypeOK has over those of LinkRegistry.       *)
ModuleTypes ==
  /\ up \in [Connections -> BOOLEAN]
  /\ closes \in 0..MaxClears
  /\ missed \subseteq Connections
  /\ run \in [Runs -> {"idle", "attaching", "attached", "failed"}]
  /\ position \in [Runs -> 0..Len(Listeners)]
  /\ touched \subseteq Queues
  /\ appCalls \in 0..MaxAppCalls

(* A run listens for the listener it has come to, and for nothing after    *)
(* it is over.  Runs that no event has started yet have made no call.      *)
RunsListen ==
  \A r \in Runs :
    IF r <= clears
      THEN /\ run[r] # "idle"
           /\ position[r] \in 1..Len(Listeners)
           /\ call[r].op = "listen"
           /\ call[r].queue = Listeners[position[r]]
           /\ run[r] # "attaching" => call[r].at = "returned"
           /\ run[r] = "attached" =>
                call[r].outcome = "link" /\ position[r] = Len(Listeners)
      ELSE /\ run[r] = "idle" /\ position[r] = 0
           /\ call[r].op = "none" /\ call[r].at = "returned"

(* Nobody else uses the service before onModuleInit() is over.             *)
StartIsAlone ==
  run[0] # "attached" =>
    /\ clears = 0 /\ touched = {}
    /\ call[App].at = "returned"
    /\ Waiting(0) => registry["receiver"][call[0].queue] = NoLink

(* What the application is waiting for is its own business.                *)
AppTouches ==
  /\ call[App].op \in {"none", "listen", "remove"}
  /\ call[App].at # "returned" => call[App].queue \in touched /\ appCalls > 0
  /\ call[App].at = "closing" =>
       /\ call[App].link \in 1..Len(links)
       /\ links[call[App].link].queue = call[App].queue

(* An event of the connection has reached the handler, if it was down.     *)
Heard(k) == k \notin missed \/ clears > 0

(* The Map has receivers of the right queue, open ones unless their        *)
(* connection is down or the application has removed them.                 *)
MapIsSound ==
  \A q \in Queues :
    LET l == registry["receiver"][q]
    IN  l # NoLink =>
          /\ l \in 1..Len(links)
          /\ links[l].kind = "receiver" /\ links[l].queue = q
          /\ q \notin touched /\ up[ConnectionOf[q]] /\ Heard(ConnectionOf[q])
               => links[l].open

OnlyListeners ==
  \A q \in Queues \ touched :
    q \notin Decorated => registry["receiver"][q] = NoLink

(* Has run r got past the listener with index i?                           *)
Passed(r, i) ==
  \/ i < position[r]
  \/ i = position[r] /\ call[r].at = "returned" /\ call[r].outcome = "link"

LatestRunAttaches ==
  \A i \in 1..Len(Listeners) :
    Passed(clears, i) /\ Listeners[i] \notin touched =>
      registry["receiver"][Listeners[i]] # NoLink

MapsInv ==
  /\ CallInv /\ ModuleTypes
  /\ RunsListen /\ StartIsAlone /\ AppTouches
  /\ MapIsSound /\ OnlyListeners /\ LatestRunAttaches

-----------------------------------------------------------------------------
(* The constants.                                                          *)

LEMMA Constants ==
  /\ MaxClears \in Nat /\ MaxAppCalls \in Nat
  /\ 0 \in Runs /\ Runs \subseteq Callers
  /\ App \in Callers /\ App \notin Runs
  /\ \A c \in Callers : c \in Runs \/ c = App
  /\ Len(Listeners) \in Nat /\ 1 \in 1..Len(Listeners)
  /\ \A i \in 1..Len(Listeners) :
       Listeners[i] \in Queues /\ Listeners[i] \in Decorated
  /\ ConnectionOf \in [Queues -> Connections]
<1>1. Len(Listeners) \in Nat /\ Len(Listeners) # 0
  BY ReattachmentAssumption
<1>2. \A i \in 1..Len(Listeners) :
        Listeners[i] \in Queues /\ Listeners[i] \in Decorated
  BY ReattachmentAssumption DEF Decorated, ToSet
<1> QED
  BY <1>1, <1>2, ReattachmentAssumption, RegistryAssumption DEF Runs

(* What an answer of the broker does to the call that waits for it.        *)
LEMMA AnsweredCall ==
  ASSUME CallInv, NEW c \in Callers, Resume(c)
  PROVE  /\ \A d \in Callers \ {c} : call'[d] = call[d]
         /\ call[c].at # "returned"
         /\ call'[c].op = call[c].op /\ call'[c].queue = call[c].queue
         /\ \/ call'[c].at = "returned"
            \/ Waiting(c) /\ Waiting(c)'
         /\ call'[c].at = "returned" /\ call'[c].outcome = "link" =>
              CreateSucceeds(c)
         /\ CreateSucceeds(c) \/ CloseSucceeds(c) => call'[c].at = "returned"
         /\ \/ CreateSucceeds(c) \/ CloseSucceeds(c)
            \/ UNCHANGED <<registry, links>>
         /\ UNCHANGED clears
<1>1. call \in [Callers -> Calls] /\ call[c] \in Calls
  BY DEF CallInv, TypeOK, GoodCall
<1>2. ASSUME NEW outcome, NEW link, Returns(c, outcome, link)
      PROVE  /\ \A d \in Callers \ {c} : call'[d] = call[d]
             /\ call'[c].op = call[c].op /\ call'[c].queue = call[c].queue
             /\ call'[c].at = "returned" /\ call'[c].outcome = outcome
  BY <1>1, <1>2 DEF Returns, Idle
<1>3. CASE CreateSucceeds(c)
  BY <1>2, <1>3 DEF CreateSucceeds
<1>4. CASE CloseSucceeds(c)
  BY <1>2, <1>4 DEF CloseSucceeds
<1>5. CreateSucceeds(c) \/ CloseSucceeds(c) => call'[c].at = "returned"
  BY <1>2 DEF CreateSucceeds, CloseSucceeds
<1>6. CASE CloseFails(c)
  BY <1>2, <1>6 DEF CloseFails
<1>7. CASE CreateFails(c)
  <2>1. PICK new : /\ call' = [call EXCEPT ![c] = new]
                   /\ new.queue = call[c].queue /\ new.op = call[c].op
                   /\ new.at \in {"returned", "creating", "sleeping"}
    BY <1>7, CreateFailsCall
  <2>2. call'[c].at = "returned" => call'[c].outcome \in {"threw", "undefined"}
    BY <1>1, <1>7 DEF CreateFails, Calls
  <2> QED
    BY <1>1, <1>5, <1>7, <2>1, <2>2 DEF CreateFails, Waiting
<1>8. CASE Wakes(c)
  <2>1. PICK new : /\ call' = [call EXCEPT ![c] = new]
                   /\ new.queue = call[c].queue /\ new.op = call[c].op
                   /\ new.at = "creating"
    BY <1>8, WakesCall
  <2> QED
    BY <1>1, <1>5, <1>8, <2>1 DEF Wakes, Waiting
<1> QED
  BY <1>3, <1>4, <1>6, <1>7, <1>8 DEF Resume

(* What listen() does to the Maps and links, and what nothing else does.   *)
LEMMA NewReceiver ==
  ASSUME CallInv, NEW c \in Callers, call[c].op = "listen", CreateSucceeds(c)
  PROVE  LET new == Len(links) + 1
             q == call[c].queue
         IN  /\ q \in Queues /\ new \in Nat /\ new # NoLink
             /\ Len(links') = new
             /\ \A i \in 1..Len(links) : links'[i] = links[i]
             /\ links'[new] = [kind |-> "receiver", queue |-> q, open |-> TRUE]
             /\ \A p \in Queues : registry'["receiver"][p] =
                  IF p = q THEN new ELSE registry["receiver"][p]
<1> DEFINE new == Len(links) + 1
           q == call[c].queue
<1>1. KindOf(call[c].op) = "receiver"
  BY DEF KindOf
<1>2. Len(links) \in Nat /\ registry \in [Kinds -> [Queues -> 0..MaxLinks]]
  BY DEF CallInv, TypeOK
<1>3. /\ q \in Queues /\ Len(links') = new
      /\ \A i \in 1..Len(links) : links'[i] = links[i]
      /\ links'[new] = [kind |-> "receiver", queue |-> q, open |-> TRUE]
      /\ registry' = [registry EXCEPT !["receiver"][q] = new]
  BY <1>1, NewLink
<1>4. \A p \in Queues : registry'["receiver"][p] =
        IF p = q THEN new ELSE registry["receiver"][p]
  BY <1>2, <1>3 DEF Kinds
<1>5. new \in Nat /\ new # NoLink
  BY <1>2 DEF NoLink
<1> QED
  BY <1>3, <1>4, <1>5

LEMMA OldReceiver ==
  ASSUME CallInv, NEW c \in Callers, CloseSucceeds(c)
  PROVE  LET q == call[c].queue
         IN  /\ Len(links') = Len(links)
             /\ \A i \in 1..Len(links) :
                  /\ links'[i].kind = links[i].kind
                  /\ links'[i].queue = links[i].queue
                  /\ links'[i].open <=> links[i].open /\ i # call[c].link
             /\ \A p \in Queues : registry'["receiver"][p] =
                  IF p = q THEN NoLink ELSE registry["receiver"][p]
<1>1. registry \in [Kinds -> [Queues -> 0..MaxLinks]] /\ links \in Seq(Link)
  BY DEF CallInv, TypeOK, Link
<1> QED
  BY <1>1, ClosedLinks DEF CloseSucceeds, Kinds

-----------------------------------------------------------------------------
(* The calls are as good as LinkRegistry says.                             *)

LEMMA CallsAtStart == ReattachmentInit => CallInv
<1> SUFFICES ASSUME ReattachmentInit PROVE CallInv
  OBVIOUS
<1> DEFINE first == Listeners[1]
<1>1. first \in Queues
  BY Constants
<1>2. Idle(first) \in Calls /\ GoodCall(Idle(first))
  BY <1>1, IdleType DEF GoodCall, Idle
<1>3. GoodCall(Creating("listen", first))
  BY <1>2 DEF GoodCall, Creating, Idle, Calls
<1>4. /\ call = [r \in Callers |-> IF r = 0 THEN Creating("listen", first)
                                            ELSE Idle(first)]
      /\ registry = [k \in Kinds |-> [q \in Queues |-> NoLink]]
      /\ links = << >> /\ removals = [q \in Queues |-> 0]
      /\ overlapped = {} /\ clears = 0
  BY DEF ReattachmentInit
<1> HIDE DEF first
<1>5. \A c \in Callers : GoodCall(call[c])
  BY <1>2, <1>3, <1>4
<1>6. TypeOK
  BY <1>4, <1>5, RegistryAssumption DEF TypeOK, NoLink, GoodCall
<1> QED
  BY <1>5, <1>6 DEF CallInv

LEMMA CallsAfterErrorClose ==
  ASSUME CallInv, NEW k \in Connections, ErrorClose(k)
  PROVE  /\ CallInv'
         /\ Len(links') = Len(links)
         /\ \A i \in 1..Len(links) :
              /\ links'[i].kind = links[i].kind
              /\ links'[i].queue = links[i].queue
              /\ ConnectionOf[links[i].queue] # k =>
                   links'[i].open = links[i].open
<1>1. links \in Seq(Link) /\ Len(links) \in Nat
  BY DEF CallInv, TypeOK, Link
<1>2. links' = [l \in 1..Len(links) |->
                  IF ConnectionOf[links[l].queue] = k
                    THEN [links[l] EXCEPT !.open = FALSE] ELSE links[l]]
  BY DEF ErrorClose
<1>3. ASSUME NEW i \in 1..Len(links)
      PROVE  /\ links'[i] \in Link
             /\ links'[i].kind = links[i].kind
             /\ links'[i].queue = links[i].queue
             /\ ConnectionOf[links[i].queue] # k =>
                  links'[i].open = links[i].open
  <2>1. links[i] \in Link
    BY <1>1
  <2>2. links'[i] = IF ConnectionOf[links[i].queue] = k
                      THEN [links[i] EXCEPT !.open = FALSE] ELSE links[i]
    BY <1>2
  <2> QED
    BY <2>1, <2>2 DEF Link
<1>4. links' \in Seq(Link) /\ Len(links') = Len(links)
  <2>1. links' \in [1..Len(links) -> Link]
    BY <1>2, <1>3
  <2> QED
    BY <1>1, <2>1
<1>5. CallInv'
  BY <1>4 DEF ErrorClose, CallInv, TypeOK, Link
<1> QED
  BY <1>3, <1>4, <1>5

(* The handler of an event starts the next run.                            *)
LEMMA CallsAfterReattach ==
  ASSUME CallInv, Reattach
  PROVE  LET r == clears + 1
         IN  /\ CallInv'
             /\ r \in Runs /\ clears' = r
             /\ call'[r] = Creating("listen", Listeners[1])
             /\ \A c \in Callers \ {r} : call'[c] = call[c]
             /\ \A q \in Queues : registry'["receiver"][q] = NoLink
<1> DEFINE r == clears + 1
           new == Creating("listen", Listeners[1])
<1>1. /\ clears \in 0..MaxClears /\ clears < MaxClears /\ clears' = r
      /\ MaxClears \in Nat
  BY RegistryAssumption DEF Reattach, EmptyMaps, CallInv, TypeOK
<1>2. r \in Runs /\ r \in Callers /\ Listeners[1] \in Queues
  BY <1>1, Constants DEF Runs
<1>3. Idle(Listeners[1]) \in Calls
  BY <1>2, IdleType
<1>4. GoodCall(new)
  BY <1>3 DEF GoodCall, Creating, Idle, Calls
<1>5. call' = [call EXCEPT ![r] = new]
  BY DEF Reattach
<1>6. /\ call' \in [Callers -> Calls]
      /\ \A d \in Callers : GoodCall(call'[d])
      /\ call'[r] = new
      /\ \A d \in Callers \ {r} : call'[d] = call[d]
  BY <1>2, <1>4, <1>5, OneCall
<1>7. /\ registry' = [k \in Kinds |-> [q \in Queues |-> NoLink]]
      /\ UNCHANGED <<links, removals>>
  BY DEF Reattach, EmptyMaps
<1>8. registry' \in [Kinds -> [Queues -> 0..MaxLinks]]
  BY <1>7, RegistryAssumption DEF NoLink
<1>9. overlapped' \subseteq Kinds \X Queues
  BY <1>2 DEF Reattach, NoteOverlap, CallInv, TypeOK, Kinds
<1>10. clears' \in 0..MaxClears
  BY <1>1
<1>11. CallInv'
  BY <1>6, <1>7, <1>8, <1>9, <1>10 DEF CallInv, TypeOK
<1> QED
  BY <1>1, <1>2, <1>6, <1>7, <1>11 DEF Kinds

LEMMA TypesStay ==
  CallInv /\ ModuleTypes /\ [ReattachmentNext]_module => CallInv' /\ ModuleTypes'
<1> SUFFICES ASSUME CallInv, ModuleTypes, [ReattachmentNext]_module
             PROVE  CallInv' /\ ModuleTypes'
  OBVIOUS
<1>0. \A c \in Callers : call[c].queue \in Queues
  BY DEF CallInv, GoodCall, Calls
<1>1. CASE UNCHANGED module
  BY <1>1, CallStep DEF module, application, ModuleTypes
<1>2. ASSUME NEW c \in Callers, Answer(c) PROVE CallInv' /\ ModuleTypes'
  <2>1. Resume(c) /\ UNCHANGED <<up, closes, missed, run, position, application>>
    BY <1>2 DEF Answer, Resume
  <2> QED
    BY <2>1, CallStep DEF Next, ModuleTypes, application
<1>3. ASSUME NEW r \in Runs, NextListener(r) PROVE CallInv' /\ ModuleTypes'
  <2>1. position[r] \in 0..Len(Listeners) /\ position[r] # Len(Listeners)
    BY <1>3 DEF NextListener, LastListener, ModuleTypes
  <2>2. position[r] + 1 \in 1..Len(Listeners) /\ Len(Listeners) \in Nat
    BY <2>1, Constants
  <2>3. /\ r \in Callers /\ Listeners[position[r] + 1] \in Queues
        /\ GetReceiver(r, Listeners[position[r] + 1])
    BY <1>3, <2>2, Constants DEF NextListener
  <2>4. CallInv'
    BY <2>3, CallStep DEF Next
  <2>5. /\ position' = [position EXCEPT ![r] = position[r] + 1]
        /\ UNCHANGED <<up, closes, missed, run, application>>
    BY <1>3 DEF NextListener
  <2> QED
    BY <2>2, <2>4, <2>5 DEF ModuleTypes, application
<1>4. ASSUME NEW r \in Runs, AllAttached(r) \/ Abort(r)
      PROVE  CallInv' /\ ModuleTypes'
  <2>1. UNCHANGED vars
    BY <1>4 DEF AllAttached, Abort
  <2>2. CallInv'
    BY <2>1, CallStep
  <2> QED
    BY <1>4, <2>2 DEF AllAttached, Abort, ModuleTypes, application
<1>5. ASSUME NEW q \in Queues, AppCalls(q) PROVE CallInv' /\ ModuleTypes'
  <2>1. GetReceiver(App, q) \/ RemoveListener(App, q)
    BY <1>5 DEF AppCalls
  <2>2. CallInv'
    BY <2>1, CallStep, Constants DEF Next
  <2> QED
    BY <1>5, <2>2, Constants DEF AppCalls, ModuleTypes
<1>6. ASSUME NEW k \in Connections, ErrorClose(k) PROVE CallInv' /\ ModuleTypes'
  <2>1. CallInv'
    BY <1>6, CallsAfterErrorClose
  <2> QED
    BY <1>6, <2>1, Constants DEF ErrorClose, ModuleTypes, application
<1>7. ASSUME NEW k \in Connections, Reopened(k) PROVE CallInv' /\ ModuleTypes'
  <2>1. CASE Reattach
    <3>1. CallInv' /\ clears + 1 \in Runs
      BY <2>1, CallsAfterReattach
    <3>2. touched' \subseteq Queues
      BY <1>0, <2>1, Constants DEF Reattach, ForgetTouched
    <3> QED
      BY <1>7, <2>1, <3>1, <3>2, Constants
         DEF Reopened, Reattach, ForgetTouched, ModuleTypes
  <2>2. CASE ~Reattach
    <3>1. UNCHANGED vars /\ missed' = missed \cup {k}
          /\ UNCHANGED <<run, position, application, closes>>
          /\ up' = [up EXCEPT ![k] = TRUE]
      BY <1>7, <2>2 DEF Reopened
    <3>2. CallInv'
      BY <3>1, CallStep
    <3> QED
      BY <3>1, <3>2 DEF ModuleTypes, application
  <2> QED
    BY <2>1, <2>2
<1> QED
  BY <1>1, <1>2, <1>3, <1>4, <1>5, <1>6, <1>7, Constants
     DEF ReattachmentNext, Proceed

(* Type correctness.                                                       *)
THEOREM ReattachmentTypeCorrect == ReattachmentSpec => []ReattachmentTypeOK
<1>1. ReattachmentInit => CallInv /\ ModuleTypes
  <2> SUFFICES ASSUME ReattachmentInit PROVE ModuleTypes
    BY CallsAtStart
  <2> QED
    BY Constants DEF ReattachmentInit, ModuleTypes
<1>2. CallInv /\ ModuleTypes => ReattachmentTypeOK
  BY DEF CallInv, ModuleTypes, ReattachmentTypeOK
<1> QED
  BY <1>1, <1>2, TypesStay, PTL DEF ReattachmentSpec

-----------------------------------------------------------------------------
(* The runs and the Maps, one lemma per step.                              *)

(* The broker answers somebody.                                            *)
LEMMA AnswerKeepsMaps ==
  ASSUME MapsInv, CallInv', ModuleTypes', NEW c \in Callers, Answer(c)
  PROVE  MapsInv'
<1>0. /\ CallInv /\ ModuleTypes /\ RunsListen /\ StartIsAlone /\ AppTouches
      /\ MapIsSound /\ OnlyListeners /\ LatestRunAttaches
  BY DEF MapsInv
<1>1. /\ Resume(c)
      /\ UNCHANGED <<up, closes, missed, run, position, touched, appCalls>>
  BY DEF Answer, Resume, application
<1>2. /\ \A d \in Callers \ {c} : call'[d] = call[d]
      /\ call[c].at # "returned"
      /\ call'[c].op = call[c].op /\ call'[c].queue = call[c].queue
      /\ \/ call'[c].at = "returned"
         \/ Waiting(c) /\ Waiting(c)'
      /\ call'[c].at = "returned" /\ call'[c].outcome = "link" =>
           CreateSucceeds(c)
      /\ CreateSucceeds(c) \/ CloseSucceeds(c) => call'[c].at = "returned"
      /\ \/ CreateSucceeds(c) \/ CloseSucceeds(c)
         \/ UNCHANGED <<registry, links>>
      /\ UNCHANGED clears
  BY <1>0, <1>1, AnsweredCall
<1>3. /\ clears \in 0..MaxClears /\ Runs = 0..MaxClears /\ MaxClears \in Nat
      /\ Len(links) \in Nat
  BY <1>0, Constants DEF Runs, CallInv, TypeOK
<1>4. c \in Runs => c <= clears /\ run[c] = "attaching" /\ call[c].op = "listen"
  BY <1>0, <1>2 DEF RunsListen
<1>5. call[c].queue \in Queues /\ (CloseSucceeds(c) => c = App)
  BY <1>0, <1>4, Constants DEF CallInv, GoodCall, Calls, CloseSucceeds
<1>6. CreateSucceeds(c) => call[c].op = "listen"
  BY <1>0, <1>4, Constants
     DEF CallInv, GoodCall, CreateSucceeds, AppTouches
<1>7. RunsListen'
  BY <1>0, <1>1, <1>2, <1>4, Constants DEF RunsListen
<1>8. StartIsAlone'
  <2> SUFFICES ASSUME run[0] # "attached"
               PROVE  /\ clears' = 0 /\ touched' = {}
                      /\ call'[App].at = "returned"
                      /\ Waiting(0)' =>
                           registry'["receiver"][call'[0].queue] = NoLink
    BY <1>1 DEF StartIsAlone
  <2>1. /\ clears = 0 /\ touched = {} /\ call[App].at = "returned"
        /\ Waiting(0) => registry["receiver"][call[0].queue] = NoLink
    BY <1>0 DEF StartIsAlone
  <2>2. c = 0
    BY <1>2, <1>3, <1>4, <2>1, Constants
  <2> QED
    BY <1>1, <1>2, <2>1, <2>2, Constants DEF Waiting
<1>9. AppTouches'
  <2>1. call'[App].op = call[App].op /\ call'[App].queue = call[App].queue
    BY <1>2, Constants
  <2>2. call'[App].at # "returned" => call[App].at # "returned"
    BY <1>2, Constants
  <2>3. call'[App].at = "closing" =>
          /\ call[App].at = "closing" /\ call'[App].link = call[App].link
    BY <1>2, Constants DEF Waiting
  <2>4. /\ Len(links) <= Len(links')
        /\ \A i \in 1..Len(links) : links'[i].queue = links[i].queue
    <3>1. CASE CreateSucceeds(c)
      <4>1. /\ Len(links') = Len(links) + 1
            /\ \A i \in 1..Len(links) : links'[i] = links[i]
        BY <1>0, <1>6, <3>1, NewReceiver
      <4> QED
        BY <1>3, <4>1
    <3>2. CASE CloseSucceeds(c)
      BY <1>0, <1>3, <3>2, OldReceiver
    <3> QED
      BY <1>2, <1>3, <3>1, <3>2
  <2>5. Len(links') \in Nat
    BY DEF CallInv, TypeOK
  <2> QED
    BY <1>0, <1>1, <1>3, <2>1, <2>2, <2>3, <2>4, <2>5 DEF AppTouches
<1>10. CASE CreateSucceeds(c)
  <2> DEFINE new == Len(links) + 1
             p == call[c].queue
  <2>1. /\ new \in Nat /\ new # NoLink /\ Len(links') = new
        /\ \A i \in 1..Len(links) : links'[i] = links[i]
        /\ links'[new] = [kind |-> "receiver", queue |-> p, open |-> TRUE]
        /\ \A q \in Queues : registry'["receiver"][q] =
             IF q = p THEN new ELSE registry["receiver"][q]
    BY <1>0, <1>6, <1>10, NewReceiver
  <2>2. MapIsSound'
    BY <1>0, <1>1, <1>2, <1>3, <2>1 DEF MapIsSound, Heard
  <2>3. p \in Decorated \cup touched
    BY <1>0, <1>2, <1>4, Constants DEF RunsListen, AppTouches
  <2>4. OnlyListeners'
    BY <1>0, <1>1, <2>1, <2>3 DEF OnlyListeners
  <2>5. LatestRunAttaches'
    <3> SUFFICES ASSUME NEW i \in 1..Len(Listeners), Passed(clears, i)',
                        Listeners[i] \notin touched
                 PROVE  registry'["receiver"][Listeners[i]] # NoLink
      BY <1>1 DEF LatestRunAttaches
    <3>1. Listeners[i] \in Queues
      BY Constants
    <3>2. CASE Passed(clears, i)
      BY <1>0, <2>1, <3>1, <3>2 DEF LatestRunAttaches
    <3>3. CASE ~Passed(clears, i)
      <4>1. c = clears /\ i = position[c]
        BY <1>1, <1>2, <1>3, <3>3, Constants DEF Passed
      <4>2. Listeners[i] = p
        BY <1>0, <1>3, <1>4, <4>1 DEF RunsListen
      <4> QED
        BY <2>1, <3>1, <4>2
    <3> QED
      BY <3>2, <3>3
  <2> QED
    BY <1>7, <1>8, <1>9, <2>2, <2>4, <2>5 DEF MapsInv
<1>11. CASE ~CreateSucceeds(c)
  <2>1. \A i \in 1..Len(Listeners) :
          Passed(clears, i)' => Passed(clears, i)
    BY <1>1, <1>2, <1>3, <1>11, Constants DEF Passed
  <2>2. CASE CloseSucceeds(c)
    <3> DEFINE p == call[c].queue
    <3>1. /\ Len(links') = Len(links)
          /\ \A i \in 1..Len(links) :
               /\ links'[i].kind = links[i].kind
               /\ links'[i].queue = links[i].queue
               /\ links'[i].open <=> links[i].open /\ i # call[c].link
          /\ \A q \in Queues : registry'["receiver"][q] =
               IF q = p THEN NoLink ELSE registry["receiver"][q]
      BY <1>0, <2>2, OldReceiver
    <3>2. c = App /\ p \in touched /\ links[call[c].link].queue = p
      BY <1>0, <1>2, <1>5, <2>2 DEF AppTouches, CloseSucceeds
    <3>3. MapIsSound'
      BY <1>0, <1>1, <1>2, <3>1, <3>2 DEF MapIsSound, Heard
    <3>4. OnlyListeners'
      BY <1>0, <1>1, <3>1 DEF OnlyListeners
    <3>5. LatestRunAttaches'
      BY <1>0, <1>1, <2>1, <3>1, <3>2, Constants DEF LatestRunAttaches
    <3> QED
      BY <1>7, <1>8, <1>9, <3>3, <3>4, <3>5 DEF MapsInv
  <2>3. CASE ~CloseSucceeds(c)
    <3>1. UNCHANGED <<registry, links>>
      BY <1>2, <1>11, <2>3
    <3>2. MapIsSound'
      BY <1>0, <1>1, <1>2, <3>1 DEF MapIsSound, Heard
    <3>3. OnlyListeners'
      BY <1>0, <1>1, <3>1 DEF OnlyListeners
    <3>4. LatestRunAttaches'
      BY <1>0, <1>1, <2>1, <3>1 DEF LatestRunAttaches
    <3> QED
      BY <1>7, <1>8, <1>9, <3>2, <3>3, <3>4 DEF MapsInv
  <2> QED
    BY <2>2, <2>3
<1> QED
  BY <1>10, <1>11

(* listen() has resolved; the run asks for its next listener.              *)
LEMMA NextListenerKeepsMaps ==
  ASSUME MapsInv, CallInv', ModuleTypes', NEW r \in Runs, NextListener(r)
  PROVE  MapsInv'
<1> DEFINE i == position[r]
           q == Listeners[i + 1]
<1>0. /\ CallInv /\ ModuleTypes /\ RunsListen /\ StartIsAlone /\ AppTouches
      /\ MapIsSound /\ OnlyListeners /\ LatestRunAttaches
  BY DEF MapsInv
<1>1. /\ run[r] = "attaching" /\ call[r].at = "returned"
      /\ call[r].outcome = "link" /\ i # Len(Listeners)
      /\ GetLink(r, "listen", q)
      /\ position' = [position EXCEPT ![r] = i + 1]
      /\ UNCHANGED <<up, closes, missed, run, touched, appCalls>>
      /\ UNCHANGED <<registry, links, clears>>
  BY DEF NextListener, HasListened, LastListener, GetReceiver, GetLink,
         application
<1>2. /\ r <= clears /\ i \in 1..Len(Listeners) /\ i + 1 \in 1..Len(Listeners)
      /\ q \in Queues
  BY <1>0, <1>1, Constants DEF RunsListen
<1>3. r \in Callers /\ r # App /\ App \in Callers
  BY Constants
<1>4. PICK new : /\ call' = [call EXCEPT ![r] = new]
                 /\ new.queue = q /\ new.op = "listen"
                 /\ \/ new.at = "returned"
                    \/ /\ new.at = "creating"
                       /\ registry[KindOf("listen")][q] = NoLink
  BY <1>0, <1>1, <1>2, <1>3, GetLinkCall
<1>5. /\ call'[r] = new /\ \A d \in Callers \ {r} : call'[d] = call[d]
      /\ \A s \in Runs \ {r} : position'[s] = position[s]
      /\ position'[r] = i + 1
  BY <1>0, <1>1, <1>3, <1>4 DEF CallInv, TypeOK, ModuleTypes
<1>6. call'[r].at = "returned" => registry["receiver"][q] # NoLink
  BY <1>0, <1>1, <1>3 DEF GetLink, Has, KindOf, Creating, Idle, CallInv, TypeOK
<1>7. RunsListen'
  BY <1>0, <1>1, <1>2, <1>4, <1>5, Constants DEF RunsListen
<1>8. StartIsAlone'
  <2>1. Waiting(r)' => registry["receiver"][q] = NoLink
    BY <1>4, <1>5 DEF Waiting, KindOf
  <2>2. run[0] # "attached" => r = 0
    BY <1>0, <1>2, Constants DEF StartIsAlone, Runs
  <2> QED
    BY <1>0, <1>1, <1>3, <1>4, <1>5, <2>1, <2>2 DEF StartIsAlone
<1>9. AppTouches'
  BY <1>0, <1>1, <1>3, <1>5 DEF AppTouches
<1>10. MapIsSound'
  BY <1>0, <1>1 DEF MapIsSound, Heard
<1>11. OnlyListeners'
  BY <1>0, <1>1 DEF OnlyListeners
<1>12. LatestRunAttaches'
  <2> SUFFICES ASSUME NEW j \in 1..Len(Listeners), Passed(clears, j)',
                      Listeners[j] \notin touched
               PROVE  registry["receiver"][Listeners[j]] # NoLink
    BY <1>1 DEF LatestRunAttaches
  <2>1. clears \in Runs
    BY <1>0 DEF CallInv, TypeOK, Runs
  <2>2. CASE Passed(clears, j)
    BY <1>0, <2>2 DEF LatestRunAttaches
  <2>3. CASE ~Passed(clears, j)
    <3>1. clears = r
      BY <1>1, <1>5, <2>1, <2>3, Constants DEF Passed
    <3>2. j = i + 1 /\ call'[r].at = "returned"
      BY <1>1, <1>2, <1>5, <2>3, <3>1 DEF Passed
    <3> QED
      BY <1>6, <3>2
  <2> QED
    BY <2>2, <2>3
<1> QED
  BY <1>7, <1>8, <1>9, <1>10, <1>11, <1>12 DEF MapsInv

(* A run is over.                                                          *)
LEMMA RunEndsKeepsMaps ==
  ASSUME MapsInv, CallInv', ModuleTypes', NEW r \in Runs,
         AllAttached(r) \/ Abort(r)
  PROVE  MapsInv'
<1>0. /\ CallInv /\ ModuleTypes /\ RunsListen /\ StartIsAlone /\ AppTouches
      /\ MapIsSound /\ OnlyListeners /\ LatestRunAttaches
  BY DEF MapsInv
<1>1. /\ run[r] = "attaching" /\ call[r].at = "returned"
      /\ UNCHANGED <<registry, links, call, clears, up, missed, position,
                     touched, appCalls>>
  BY DEF AllAttached, Abort, HasListened, application, vars
<1>2. PICK over \in {"attached", "failed"} :
        /\ run' = [run EXCEPT ![r] = over]
        /\ over = "attached" =>
             call[r].outcome = "link" /\ position[r] = Len(Listeners)
  BY DEF AllAttached, Abort, HasListened, LastListener
<1>3. run'[r] = over /\ \A s \in Runs \ {r} : run'[s] = run[s]
  BY <1>0, <1>2 DEF ModuleTypes
<1>4. RunsListen'
  BY <1>0, <1>1, <1>2, <1>3 DEF RunsListen
<1>5. StartIsAlone'
  BY <1>0, <1>1, <1>2, <1>3, Constants DEF StartIsAlone, Waiting
<1>6. AppTouches' /\ MapIsSound' /\ OnlyListeners' /\ LatestRunAttaches'
  BY <1>0, <1>1
     DEF AppTouches, MapIsSound, Heard, OnlyListeners, LatestRunAttaches, Passed
<1> QED
  BY <1>4, <1>5, <1>6 DEF MapsInv

(* The application calls listen() or removeListener().                     *)
LEMMA AppCallsKeepsMaps ==
  ASSUME MapsInv, CallInv', ModuleTypes', NEW q \in Queues, AppCalls(q)
  PROVE  MapsInv'
<1>0. /\ CallInv /\ ModuleTypes /\ RunsListen /\ StartIsAlone /\ AppTouches
      /\ MapIsSound /\ OnlyListeners /\ LatestRunAttaches
  BY DEF MapsInv
<1>1. /\ run[0] = "attached"
      /\ GetLink(App, "listen", q) \/ RemoveListener(App, q)
      /\ touched' = touched \cup {q} /\ appCalls' = appCalls + 1
      /\ UNCHANGED <<up, missed, run, position, registry, links, clears>>
  BY DEF AppCalls, GetReceiver, GetLink, RemoveListener
<1>2. PICK new :
        /\ call' = [call EXCEPT ![App] = new]
        /\ new.queue = q /\ new.op \in {"listen", "remove"}
        /\ new.at \in {"returned", "creating", "closing"}
        /\ new.at = "closing" => new.link = registry["receiver"][q]
  BY <1>0, <1>1, GetLinkCall, RemoveCall, Constants
<1>3. call'[App] = new /\ \A d \in Callers \ {App} : call'[d] = call[d]
  BY <1>0, <1>2, Constants DEF CallInv, TypeOK
<1>4. \A r \in Runs : call'[r] = call[r]
  BY <1>3, Constants
<1>5. new.at = "closing" => registry["receiver"][q] # NoLink
  <2>1. CASE GetLink(App, "listen", q)
    <3>1. CallInv /\ App \in Callers
      BY <1>0, Constants
    <3>2. \/ call'[App].at = "returned"
          \/ call'[App].at = "creating"
      BY <2>1, <3>1, GetLinkCall DEF CallInv, TypeOK
    <3> QED
      BY <1>3, <3>2
  <2>2. CASE RemoveListener(App, q)
    BY <1>0, <1>3, <2>2, Constants
       DEF RemoveListener, Has, Idle, CallInv, TypeOK
  <2> QED
    BY <1>1, <2>1, <2>2
<1>6. RunsListen'
  BY <1>0, <1>1, <1>4 DEF RunsListen
<1>7. StartIsAlone'
  BY <1>1 DEF StartIsAlone
<1>8. AppTouches'
  BY <1>0, <1>1, <1>2, <1>3, <1>5, Constants
     DEF AppTouches, MapIsSound, ModuleTypes
<1>9. MapIsSound'
  BY <1>0, <1>1 DEF MapIsSound, Heard
<1>10. OnlyListeners'
  BY <1>0, <1>1 DEF OnlyListeners
<1>11. LatestRunAttaches'
  <2>1. clears \in Runs
    BY <1>0 DEF CallInv, TypeOK, Runs
  <2> QED
    BY <1>0, <1>1, <1>4, <2>1 DEF LatestRunAttaches, Passed
<1> QED
  BY <1>6, <1>7, <1>8, <1>9, <1>10, <1>11 DEF MapsInv

(* A connection is closed with an error, and its links with it.            *)
LEMMA ErrorCloseKeepsMaps ==
  ASSUME MapsInv, CallInv', ModuleTypes', NEW k \in Connections, ErrorClose(k)
  PROVE  MapsInv'
<1>0. /\ CallInv /\ ModuleTypes /\ RunsListen /\ StartIsAlone /\ AppTouches
      /\ MapIsSound /\ OnlyListeners /\ LatestRunAttaches
  BY DEF MapsInv
<1>1. /\ up' = [up EXCEPT ![k] = FALSE]
      /\ UNCHANGED <<registry, call, clears, missed, run, position, touched,
                     appCalls>>
  BY DEF ErrorClose, application
<1>2. /\ Len(links') = Len(links)
      /\ \A i \in 1..Len(links) :
           /\ links'[i].kind = links[i].kind
           /\ links'[i].queue = links[i].queue
           /\ ConnectionOf[links[i].queue] # k => links'[i].open = links[i].open
  BY <1>0, CallsAfterErrorClose
<1>3. RunsListen' /\ StartIsAlone' /\ OnlyListeners' /\ LatestRunAttaches'
  BY <1>0, <1>1
     DEF RunsListen, StartIsAlone, Waiting, OnlyListeners, LatestRunAttaches,
         Passed
<1>4. AppTouches'
  BY <1>0, <1>1, <1>2 DEF AppTouches
<1>5. MapIsSound'
  BY <1>0, <1>1, <1>2 DEF MapIsSound, Heard, ModuleTypes
<1> QED
  BY <1>3, <1>4, <1>5 DEF MapsInv

(* The handler of the event empties the Maps and starts a run.             *)
LEMMA ReattachKeepsMaps ==
  ASSUME MapsInv, CallInv', ModuleTypes', run[0] = "attached", Reattach
  PROVE  MapsInv'
<1> DEFINE r == clears + 1
<1>0. /\ CallInv /\ ModuleTypes /\ RunsListen /\ StartIsAlone /\ AppTouches
  BY DEF MapsInv
<1>1. /\ r \in Runs /\ clears' = r /\ clears \in Nat
      /\ call'[r] = Creating("listen", Listeners[1])
      /\ \A c \in Callers \ {r} : call'[c] = call[c]
      /\ \A q \in Queues : registry'["receiver"][q] = NoLink
  BY <1>0, CallsAfterReattach DEF CallInv, TypeOK
<1>2. /\ run' = [run EXCEPT ![r] = "attaching"]
      /\ position' = [position EXCEPT ![r] = 1]
      /\ touched' = IF call[App].at = "returned" THEN {} ELSE {call[App].queue}
      /\ UNCHANGED <<links, appCalls>>
  BY DEF Reattach, ForgetTouched
<1>3. /\ run'[r] = "attaching" /\ position'[r] = 1
      /\ \A s \in Runs \ {r} : run'[s] = run[s] /\ position'[s] = position[s]
  BY <1>0, <1>1, <1>2 DEF ModuleTypes
<1>4. /\ call'[r].op = "listen" /\ call'[r].queue = Listeners[1]
      /\ call'[r].at = "creating"
  BY <1>1 DEF Creating, Idle
<1>5. call'[App] = call[App]
  BY <1>1, Constants
<1>6. RunsListen'
  <2> SUFFICES ASSUME NEW s \in Runs
               PROVE  IF s <= r
                        THEN /\ run'[s] # "idle"
                             /\ position'[s] \in 1..Len(Listeners)
                             /\ call'[s].op = "listen"
                             /\ call'[s].queue = Listeners[position'[s]]
                             /\ run'[s] # "attaching" =>
                                  call'[s].at = "returned"
                             /\ run'[s] = "attached" =>
                                  /\ call'[s].outcome = "link"
                                  /\ position'[s] = Len(Listeners)
                        ELSE /\ run'[s] = "idle" /\ position'[s] = 0
                             /\ call'[s].op = "none"
                             /\ call'[s].at = "returned"
    BY <1>1 DEF RunsListen
  <2>1. CASE s = r
    <3>1. r <= r /\ position'[r] \in 1..Len(Listeners)
      BY <1>1, <1>3, Constants
    <3> QED
      BY <1>3, <1>4, <2>1, <3>1
  <2>2. CASE s # r
    <3>1. s <= r <=> s <= clears
      BY <1>1, <2>2 DEF Runs
    <3>2. call'[s] = call[s] /\ run'[s] = run[s] /\ position'[s] = position[s]
      BY <1>1, <1>3, <2>2, Constants
    <3> QED
      BY <1>0, <3>1, <3>2 DEF RunsListen
  <2> QED
    BY <2>1, <2>2
<1>7. run'[0] = "attached"
  BY <1>1, <1>3, Constants
<1>8. StartIsAlone'
  BY <1>7 DEF StartIsAlone
<1>9. AppTouches'
  BY <1>0, <1>2, <1>5 DEF AppTouches
<1>10. MapIsSound' /\ OnlyListeners'
  BY <1>1 DEF MapIsSound, OnlyListeners
<1>11. LatestRunAttaches'
  BY <1>1, <1>3, <1>4 DEF LatestRunAttaches, Passed
<1> QED
  BY <1>6, <1>8, <1>9, <1>10, <1>11 DEF MapsInv

(* The event comes before its handler is there.                            *)
LEMMA MissedKeepsMaps ==
  ASSUME MapsInv, CallInv', ModuleTypes', NEW k \in Connections,
         run[0] # "attached", up' = [up EXCEPT ![k] = TRUE],
         missed' = missed \cup {k}, UNCHANGED <<vars, run, position, application>>
  PROVE  MapsInv'
<1>0. /\ CallInv /\ ModuleTypes /\ RunsListen /\ StartIsAlone /\ AppTouches
      /\ MapIsSound /\ OnlyListeners /\ LatestRunAttaches
  BY DEF MapsInv
<1>1. UNCHANGED <<registry, links, call, clears, run, position, touched,
                  appCalls>>
  BY DEF vars, application
<1>2. clears = 0
  BY <1>0 DEF StartIsAlone
<1>3. /\ RunsListen' /\ StartIsAlone' /\ AppTouches' /\ OnlyListeners'
      /\ LatestRunAttaches'
  BY <1>0, <1>1
     DEF RunsListen, StartIsAlone, Waiting, AppTouches, OnlyListeners,
         LatestRunAttaches, Passed
<1>4. MapIsSound'
  BY <1>0, <1>1, <1>2 DEF MapIsSound, Heard, ModuleTypes
<1> QED
  BY <1>3, <1>4 DEF MapsInv

LEMMA MapsStay == MapsInv /\ [ReattachmentNext]_module => MapsInv'
<1> SUFFICES ASSUME MapsInv, [ReattachmentNext]_module PROVE MapsInv'
  OBVIOUS
<1>1. CallInv' /\ ModuleTypes'
  BY TypesStay DEF MapsInv
<1>2. CASE UNCHANGED module
  BY <1>2
     DEF module, vars, application, MapsInv, CallInv, TypeOK, GoodCall,
         ModuleTypes, RunsListen, StartIsAlone, Waiting, AppTouches,
         MapIsSound, Heard, OnlyListeners, LatestRunAttaches, Passed
<1>3. ASSUME NEW c \in Callers, Answer(c) PROVE MapsInv'
  BY <1>1, <1>3, AnswerKeepsMaps
<1>4. ASSUME NEW r \in Runs, NextListener(r) PROVE MapsInv'
  BY <1>1, <1>4, NextListenerKeepsMaps
<1>5. ASSUME NEW r \in Runs, AllAttached(r) \/ Abort(r) PROVE MapsInv'
  BY <1>1, <1>5, RunEndsKeepsMaps
<1>6. ASSUME NEW q \in Queues, AppCalls(q) PROVE MapsInv'
  BY <1>1, <1>6, AppCallsKeepsMaps
<1>7. ASSUME NEW k \in Connections, ErrorClose(k) PROVE MapsInv'
  BY <1>1, <1>7, ErrorCloseKeepsMaps
<1>8. ASSUME NEW k \in Connections, Reopened(k) PROVE MapsInv'
  BY <1>1, <1>8, ReattachKeepsMaps, MissedKeepsMaps DEF Reopened
<1> QED
  BY <1>2, <1>3, <1>4, <1>5, <1>6, <1>7, <1>8, Constants
     DEF ReattachmentNext, Proceed

LEMMA MapsAtStart == ReattachmentInit => MapsInv
<1> SUFFICES ASSUME ReattachmentInit PROVE MapsInv
  OBVIOUS
<1>1. CallInv /\ ModuleTypes
  BY CallsAtStart, Constants DEF ReattachmentInit, ModuleTypes
<1>2. /\ \A q \in Queues : registry["receiver"][q] = NoLink
      /\ clears = 0 /\ touched = {}
      /\ \A r \in Runs : /\ run[r] = IF r = 0 THEN "attaching" ELSE "idle"
                         /\ position[r] = IF r = 0 THEN 1 ELSE 0
  BY DEF ReattachmentInit, Kinds
<1>3. /\ call[0].op = "listen" /\ call[0].queue = Listeners[1]
      /\ call[0].at = "creating"
  BY Constants DEF ReattachmentInit, Creating, Idle
<1>4. \A c \in Callers \ {0} : call[c].op = "none" /\ call[c].at = "returned"
  BY DEF ReattachmentInit, Idle
<1>5. RunsListen
  <2>1. \A r \in Runs : r <= 0 <=> r = 0
    BY DEF Runs
  <2> QED
    BY <1>2, <1>3, <1>4, <2>1, Constants DEF RunsListen
<1>6. StartIsAlone /\ AppTouches /\ MapIsSound /\ OnlyListeners
  BY <1>2, <1>3, <1>4, Constants
     DEF StartIsAlone, AppTouches, MapIsSound, OnlyListeners
<1>7. LatestRunAttaches
  BY <1>2, <1>3, Constants DEF LatestRunAttaches, Passed
<1> QED
  BY <1>1, <1>5, <1>6, <1>7 DEF MapsInv

(* "receivers reattached" is the truth: when the run of the last event has *)
(* ended well and no connection is down, the Map knows an open receiver    *)
(* for every @Listen() method, and no others, but for what the application *)
(* has asked for since.                                                    *)
THEOREM ListenersComeBack == ReattachmentSpec => []ReattachedIsListening
<1>1. MapsInv => ReattachedIsListening
  <2> SUFFICES ASSUME MapsInv, run[clears] = "attached",
                      \A k \in Connections : up[k], missed = {} \/ clears > 0,
                      NEW q \in Queues \ touched
               PROVE  IF q \in Decorated THEN Listening(q)
                                         ELSE registry["receiver"][q] = NoLink
    BY DEF ReattachedIsListening
  <2>1. CASE q \in Decorated
    <3>1. PICK i \in 1..Len(Listeners) : Listeners[i] = q
      <4>1. DOMAIN Listeners = 1..Len(Listeners)
        BY ReattachmentAssumption
      <4> QED
        BY <2>1, <4>1 DEF Decorated, ToSet
    <3>2. clears \in Runs /\ clears <= clears
      BY DEF MapsInv, CallInv, TypeOK, Runs
    <3>3. /\ call[clears].outcome = "link" /\ call[clears].at = "returned"
          /\ position[clears] = Len(Listeners)
      BY <3>2 DEF MapsInv, RunsListen
    <3>4. Passed(clears, i)
      BY <3>1, <3>3, Constants DEF Passed
    <3>5. registry["receiver"][q] # NoLink
      BY <3>1, <3>4 DEF MapsInv, LatestRunAttaches
    <3>6. ConnectionOf[q] \in Connections /\ Heard(ConnectionOf[q])
      BY Constants DEF Heard
    <3> QED
      BY <2>1, <3>5, <3>6 DEF MapsInv, MapIsSound, Listening
  <2>2. CASE q \notin Decorated
    BY <2>2 DEF MapsInv, OnlyListeners
  <2> QED
    BY <2>1, <2>2
<1> QED
  BY <1>1, MapsAtStart, MapsStay, PTL DEF ReattachmentSpec

-----------------------------------------------------------------------------
(* How many receivers a queue can get.  Every receiver that was ever       *)
(* opened is paid for by a question the broker may answer only once:       *)
(* <<r, i>> is asked by run r for the method with index i, <<0, i>> by the *)
(* i-th call of the application, and <<0, 0>> by onModuleInit(), which     *)
(* asks once for a queue however many methods name it.                     *)

Methods(q) == {i \in 1..Len(Listeners) : Listeners[i] = q}

(* Has run r an answer for the listener with index i?                      *)
Answered(r, i) ==
  \/ i < position[r]
  \/ i = position[r] /\ ~Waiting(r)

StartSpent(q) ==
  {t \in {<<0, 0>>} : \E i \in Methods(q) : Answered(0, i)}

RunsSpent(q) == {t \in (1..clears) \X Methods(q) : Answered(t[1], t[2])}

AppSpent == {t \in {0} \X (1..appCalls) : t[2] < appCalls \/ ~Waiting(App)}

Spent(q) == StartSpent(q) \cup RunsSpent(q) \cup AppSpent

ReceiversArePaidFor ==
  \A q \in Queues : Cardinality(ReceiversOf(q)) <= Cardinality(Spent(q))

(* There are not more questions than DuplicatesBounded allows.             *)
LEMMA SpentBounded ==
  ASSUME CallInv, ModuleTypes, NEW q \in Queues
  PROVE  LET first == IF Methods(q) = {} THEN 0 ELSE 1
             bound == first + clears * Cardinality(Methods(q)) + appCalls
         IN  /\ IsFiniteSet(Spent(q))
             /\ Cardinality(Spent(q)) \in Nat
             /\ bound \in Nat /\ Cardinality(Spent(q)) <= bound
<1> DEFINE methods == Methods(q)
           first == IF methods = {} THEN 0 ELSE 1
           bound == first + clears * Cardinality(methods) + appCalls
           runs == (1..clears) \X methods
           calls == {0} \X (1..appCalls)
<1>1. clears \in Nat /\ appCalls \in Nat /\ Len(Listeners) \in Nat
  BY Constants DEF CallInv, TypeOK, ModuleTypes
<1>2. IsFiniteSet(methods) /\ Cardinality(methods) \in Nat
  <2>1. IsFiniteSet(1..Len(Listeners))
    BY <1>1, FS_Interval
  <2>2. methods \subseteq 1..Len(Listeners)
    BY DEF Methods
  <2> QED
    BY <2>1, <2>2, FS_Subset, FS_CardinalityType
<1>3. /\ IsFiniteSet(1..clears) /\ Cardinality(1..clears) = clears
      /\ IsFiniteSet(1..appCalls) /\ Cardinality(1..appCalls) = appCalls
  <2>1. ASSUME NEW n \in Nat PROVE IsFiniteSet(1..n) /\ Cardinality(1..n) = n
    <3>1. 1 \in Int /\ n \in Int
      OBVIOUS
    <3>2. IsFiniteSet(1..n) /\ Cardinality(1..n) = IF 1 > n THEN 0 ELSE n - 1 + 1
      BY <3>1, FS_Interval
    <3> QED
      BY <3>2
  <2> QED
    BY <1>1, <2>1
<1>4. IsFiniteSet(runs) /\ Cardinality(runs) = clears * Cardinality(methods)
  BY <1>2, <1>3, FS_Product
<1>5. IsFiniteSet(calls) /\ Cardinality(calls) = appCalls
  <2>1. IsFiniteSet({0}) /\ Cardinality({0}) = 1
    BY FS_Singleton
  <2>2. /\ IsFiniteSet(calls)
        /\ Cardinality(calls) = Cardinality({0}) * Cardinality(1..appCalls)
    BY <1>3, <2>1, FS_Product
  <2>3. Cardinality(calls) = 1 * appCalls
    BY <1>3, <2>1, <2>2
  <2> QED
    BY <1>1, <2>2, <2>3
<1>6. IsFiniteSet(StartSpent(q)) /\ Cardinality(StartSpent(q)) <= first
  <2>1. CASE methods = {}
    <3>1. StartSpent(q) = {}
      BY <2>1 DEF StartSpent
    <3> QED
      BY <2>1, <3>1, FS_EmptySet
  <2>2. CASE methods # {}
    <3>1. StartSpent(q) \subseteq {<<0, 0>>}
      BY DEF StartSpent
    <3>2. IsFiniteSet({<<0, 0>>}) /\ Cardinality({<<0, 0>>}) = 1
      BY FS_Singleton
    <3> QED
      BY <2>2, <3>1, <3>2, FS_Subset
  <2> QED
    BY <2>1, <2>2
<1>7. /\ IsFiniteSet(RunsSpent(q))
      /\ Cardinality(RunsSpent(q)) <= clears * Cardinality(methods)
  BY <1>4, FS_Subset DEF RunsSpent
<1>8. IsFiniteSet(AppSpent) /\ Cardinality(AppSpent) <= appCalls
  BY <1>5, FS_Subset DEF AppSpent
<1>9. ASSUME NEW S, NEW T, IsFiniteSet(S), IsFiniteSet(T)
      PROVE  /\ IsFiniteSet(S \cup T)
             /\ Cardinality(S) \in Nat /\ Cardinality(T) \in Nat
             /\ Cardinality(S \cup T) \in Nat
             /\ Cardinality(S \cup T) <= Cardinality(S) + Cardinality(T)
  <2>1. /\ IsFiniteSet(S \cup T) /\ IsFiniteSet(S \cap T)
        /\ Cardinality(S \cup T) =
             Cardinality(S) + Cardinality(T) - Cardinality(S \cap T)
    BY <1>9, FS_Union, FS_Intersection
  <2>2. /\ Cardinality(S) \in Nat /\ Cardinality(T) \in Nat
        /\ Cardinality(S \cup T) \in Nat /\ Cardinality(S \cap T) \in Nat
    BY <1>9, <2>1, FS_CardinalityType
  <2> QED
    BY <2>1, <2>2
<1>10. clears * Cardinality(methods) \in Nat
  BY <1>4, FS_CardinalityType
<1> DEFINE product == clears * Cardinality(methods)
           most == first + product
<1>11. first \in Nat
  OBVIOUS
<1> HIDE DEF methods, first, product
<1>12. /\ IsFiniteSet(StartSpent(q) \cup RunsSpent(q))
       /\ Cardinality(StartSpent(q) \cup RunsSpent(q)) \in Nat
       /\ Cardinality(StartSpent(q) \cup RunsSpent(q)) <= first + product
  <2>1. /\ IsFiniteSet(StartSpent(q) \cup RunsSpent(q))
        /\ Cardinality(StartSpent(q)) \in Nat /\ Cardinality(RunsSpent(q)) \in Nat
        /\ Cardinality(StartSpent(q) \cup RunsSpent(q)) \in Nat
        /\ Cardinality(StartSpent(q) \cup RunsSpent(q))
             <= Cardinality(StartSpent(q)) + Cardinality(RunsSpent(q))
    BY <1>6, <1>7, <1>9
  <2>2. Cardinality(RunsSpent(q)) <= product /\ product \in Nat
    BY <1>7, <1>10 DEF product
  <2> QED
    BY <1>6, <1>11, <2>1, <2>2
<1>13. /\ IsFiniteSet(Spent(q)) /\ Cardinality(Spent(q)) \in Nat
       /\ Cardinality(Spent(q)) <= first + product + appCalls
       /\ first + product + appCalls \in Nat
  <2>1. /\ IsFiniteSet(Spent(q)) /\ Cardinality(Spent(q)) \in Nat
        /\ Cardinality(AppSpent) \in Nat
        /\ Cardinality(Spent(q))
             <= Cardinality(StartSpent(q) \cup RunsSpent(q))
                  + Cardinality(AppSpent)
    BY <1>8, <1>9, <1>12 DEF Spent
  <2>2. product \in Nat
    BY <1>10 DEF product
  <2> QED
    BY <1>1, <1>8, <1>11, <1>12, <2>1, <2>2
<1> QED
  BY <1>13 DEF product, first, methods

LEMMA Counters ==
  ASSUME CallInv, ModuleTypes
  PROVE  /\ clears \in 0..MaxClears /\ clears \in Nat /\ clears \in Runs
         /\ appCalls \in Nat /\ MaxClears \in Nat /\ Runs = 0..MaxClears
         /\ position \in [Runs -> 0..Len(Listeners)]
         /\ \A r \in Runs : r \in Nat /\ position[r] \in Nat
<1>1. MaxClears \in Nat /\ MaxAppCalls \in Nat /\ Len(Listeners) \in Nat
  BY Constants
<1>2. /\ clears \in 0..MaxClears /\ appCalls \in 0..MaxAppCalls
      /\ position \in [Runs -> 0..Len(Listeners)]
  BY DEF CallInv, TypeOK, ModuleTypes
<1> QED
  BY <1>1, <1>2 DEF Runs

SpentIsFinite ==
  \A q \in Queues : IsFiniteSet(Spent(q)) /\ Cardinality(Spent(q)) \in Nat

LEMMA SpentFinite == CallInv /\ ModuleTypes => SpentIsFinite
  BY SpentBounded DEF SpentIsFinite

(* Whoever has his answer keeps it, and the counters grow.                 *)
AnswersStay ==
  /\ clears <= clears' /\ appCalls <= appCalls'
  /\ \A r \in Runs, i \in 1..Len(Listeners) :
       r <= clears /\ Answered(r, i) => Answered(r, i)'
  /\ \A j \in 1..appCalls :
       j < appCalls \/ ~Waiting(App) => j < appCalls' \/ ~Waiting(App)'

LEMMA AnswersKept ==
  ASSUME MapsInv, CallInv', ModuleTypes', [ReattachmentNext]_module
  PROVE  AnswersStay
<1>0. /\ CallInv /\ clears \in Nat /\ appCalls \in Nat
      /\ position \in [Runs -> 0..Len(Listeners)]
      /\ \A r \in Runs : r \in Nat /\ position[r] \in Nat
  BY Counters DEF MapsInv
<1>1. CASE UNCHANGED <<call, position, clears, appCalls>>
  BY <1>0, <1>1 DEF AnswersStay, Answered, Waiting
<1>2. ASSUME NEW c \in Callers, Answer(c) PROVE AnswersStay
  <2>1. Resume(c) /\ UNCHANGED <<position, appCalls>>
    BY <1>2 DEF Answer, Resume, application
  <2>2. /\ \A d \in Callers \ {c} : call'[d] = call[d]
        /\ Waiting(c)' => Waiting(c)
        /\ UNCHANGED clears
    BY <1>0, <2>1, AnsweredCall DEF Waiting
  <2>3. \A d \in Callers : Waiting(d)' => Waiting(d)
    BY <2>2 DEF Waiting
  <2> QED
    BY <1>0, <2>1, <2>2, <2>3, Constants DEF AnswersStay, Answered
<1>3. ASSUME NEW r \in Runs, NextListener(r) PROVE AnswersStay
  <2>1. /\ position' = [position EXCEPT ![r] = position[r] + 1]
        /\ GetLink(r, "listen", Listeners[position[r] + 1])
        /\ UNCHANGED <<clears, appCalls>>
    BY <1>3 DEF NextListener, GetReceiver, GetLink, application
  <2>2. \A d \in Callers \ {r} : call'[d] = call[d]
    BY <1>0, <2>1 DEF GetLink, CallInv, TypeOK
  <2>3. \A s \in Runs : IF s = r THEN position'[s] = position[s] + 1
                        ELSE position'[s] = position[s] /\ call'[s] = call[s]
    BY <1>0, <2>1, <2>2, Constants
  <2>4. call'[App] = call[App]
    BY <2>2, Constants
  <2> QED
    BY <1>0, <2>1, <2>3, <2>4 DEF AnswersStay, Answered, Waiting
<1>4. ASSUME NEW q \in Queues, AppCalls(q) PROVE AnswersStay
  <2>1. /\ appCalls' = appCalls + 1 /\ UNCHANGED <<position, clears>>
    BY <1>4 DEF AppCalls, GetReceiver, GetLink, RemoveListener
  <2>2. \A r \in Runs : call'[r] = call[r]
    BY <1>0, <1>4, Constants
       DEF AppCalls, GetReceiver, GetLink, RemoveListener, CallInv, TypeOK
  <2> QED
    BY <1>0, <2>1, <2>2 DEF AnswersStay, Answered, Waiting
<1>5. CASE Reattach
  <2>1. /\ clears' = clears + 1
        /\ position' = [position EXCEPT ![clears + 1] = 1]
        /\ \A c \in Callers \ {clears + 1} : call'[c] = call[c]
        /\ clears + 1 \in Runs
        /\ UNCHANGED appCalls
    BY <1>0, <1>5, CallsAfterReattach DEF Reattach, ForgetTouched
  <2>2. ASSUME NEW r \in Runs, r <= clears
        PROVE  call'[r] = call[r] /\ position'[r] = position[r]
    <3>1. r # clears + 1 /\ r \in Callers
      BY <1>0, <2>2, Constants
    <3> QED
      BY <1>0, <2>1, <3>1
  <2>3. call'[App] = call[App]
    BY <2>1, Constants
  <2> QED
    BY <1>0, <2>1, <2>2, <2>3 DEF AnswersStay, Answered, Waiting
<1>6. ASSUME NEW r \in Runs, AllAttached(r) \/ Abort(r) PROVE AnswersStay
  BY <1>1, <1>6 DEF AllAttached, Abort, vars, application
<1>7. ASSUME NEW k \in Connections, ErrorClose(k) PROVE AnswersStay
  BY <1>1, <1>7 DEF ErrorClose, application
<1>8. ASSUME NEW k \in Connections, Reopened(k) PROVE AnswersStay
  BY <1>1, <1>5, <1>8 DEF Reopened, vars, application
<1>9. CASE UNCHANGED module
  BY <1>1, <1>9 DEF module, vars, application
<1> QED
  BY <1>2, <1>3, <1>4, <1>6, <1>7, <1>8, <1>9, Constants
     DEF ReattachmentNext, Proceed

LEMMA SpentStays ==
  ASSUME MapsInv, CallInv', ModuleTypes', AnswersStay, NEW q \in Queues
  PROVE  Spent(q) \subseteq Spent(q)'
<1>1. /\ clears \in 0..MaxClears /\ appCalls \in Nat /\ Runs = 0..MaxClears
      /\ clears' \in 0..MaxClears /\ appCalls' \in Nat /\ MaxClears \in Nat
  <2>1. clears' \in 0..MaxClears /\ appCalls' \in 0..MaxAppCalls
    BY DEF CallInv, TypeOK, ModuleTypes
  <2> QED
    BY <2>1, Counters, Constants DEF MapsInv
<1>2. \A i \in Methods(q) : i \in 1..Len(Listeners)
  BY DEF Methods
<1>3. StartSpent(q) \subseteq StartSpent(q)'
  BY <1>1, <1>2 DEF StartSpent, Methods, AnswersStay
<1>4. RunsSpent(q) \subseteq RunsSpent(q)'
  BY <1>1, <1>2 DEF RunsSpent, Methods, AnswersStay
<1>5. AppSpent \subseteq AppSpent'
  BY <1>1 DEF AppSpent, AnswersStay
<1> QED
  BY <1>3, <1>4, <1>5 DEF Spent

(* A new receiver is the answer to a question of its own.                  *)
LEMMA NewReceiverSpends ==
  ASSUME MapsInv, CallInv', ModuleTypes', AnswersStay,
         NEW c \in Callers, Answer(c), CreateSucceeds(c),
         NEW q \in Queues, q = call[c].queue
  PROVE  \E t : t \notin Spent(q) /\ t \in Spent(q)'
<1>0. /\ CallInv /\ RunsListen /\ StartIsAlone /\ AppTouches /\ LatestRunAttaches
      /\ clears \in 0..MaxClears /\ MaxClears \in Nat /\ appCalls \in Nat
  BY Counters DEF MapsInv
<1>1. Resume(c) /\ UNCHANGED <<run, position, appCalls>>
  BY DEF Answer, Resume, application
<1>2. /\ call[c].at = "creating" /\ call'[c].at = "returned"
      /\ UNCHANGED clears
  BY <1>0, <1>1, AnsweredCall DEF CreateSucceeds
<1>3. Waiting(c) /\ ~Waiting(c)'
  BY <1>2 DEF Waiting
<1>4. CASE c = App
  <2> DEFINE t == <<0, appCalls>>
  <2>1. appCalls > 0
    BY <1>0, <1>2, <1>4 DEF AppTouches
  <2>2. t \in AppSpent'
    BY <1>0, <1>1, <1>3, <1>4, <2>1 DEF AppSpent
  <2>3. t \notin AppSpent
    BY <1>0, <1>3, <1>4 DEF AppSpent
  <2>4. t \notin StartSpent(q) /\ t \notin RunsSpent(q)
    BY <1>0, <2>1 DEF StartSpent, RunsSpent
  <2> QED
    BY <2>2, <2>3, <2>4 DEF Spent
<1>5. CASE c \in Runs /\ c # 0
  <2> DEFINE t == <<c, position[c]>>
  <2>1. /\ c <= clears /\ position[c] \in 1..Len(Listeners)
        /\ q = Listeners[position[c]]
    BY <1>0, <1>2, <1>5 DEF RunsListen
  <2>2. c \in 1..clears /\ position[c] \in Methods(q)
    BY <1>0, <1>5, <2>1 DEF Methods, Runs
  <2>3. t \in RunsSpent(q)'
    <3>1. Answered(c, position[c])'
      BY <1>3 DEF Answered
    <3>2. t \in (1..clears') \X Methods(q)'
      BY <1>2, <2>2 DEF Methods
    <3> QED
      BY <1>1, <3>1, <3>2 DEF RunsSpent
  <2>4. t \notin RunsSpent(q)
    BY <1>3, <2>1, Constants DEF RunsSpent, Answered
  <2>5. t \notin StartSpent(q) /\ t \notin AppSpent
    BY <1>5 DEF StartSpent, AppSpent
  <2> QED
    BY <2>3, <2>4, <2>5 DEF Spent
<1>6. CASE c = 0
  <2> DEFINE t == <<0, 0>>
  <2>1. /\ 0 <= clears /\ position[0] \in 1..Len(Listeners)
        /\ q = Listeners[position[0]] /\ run[0] = "attaching"
    BY <1>0, <1>2, <1>6, Constants DEF RunsListen
  <2>2. clears = 0 /\ touched = {} /\ registry["receiver"][q] = NoLink
    BY <1>0, <1>3, <1>6, <2>1 DEF StartIsAlone
  <2>3. ASSUME NEW i \in Methods(q) PROVE ~Answered(0, i)
    <3>1. i \in 1..Len(Listeners) /\ Listeners[i] = q
      BY DEF Methods
    <3>2. ~(i < position[0])
      BY <1>0, <2>2, <3>1 DEF LatestRunAttaches, Passed
    <3> QED
      BY <1>3, <1>6, <3>2 DEF Answered
  <2>4. t \notin StartSpent(q)
    BY <2>3 DEF StartSpent
  <2>5. position[0] \in Methods(q)
    BY <2>1 DEF Methods
  <2>6. t \in StartSpent(q)'
    <3>1. Answered(0, position[0])'
      BY <1>3, <1>6 DEF Answered
    <3> QED
      BY <1>1, <2>5, <3>1 DEF StartSpent, Methods
  <2>7. t \notin RunsSpent(q) /\ t \notin AppSpent
    BY DEF RunsSpent, AppSpent
  <2> QED
    BY <2>4, <2>6, <2>7 DEF Spent
<1> QED
  BY <1>4, <1>5, <1>6, Constants

LEMMA OnlyReceivers ==
  ASSUME MapsInv, NEW c \in Callers, call[c].at = "creating"
  PROVE  call[c].op = "listen" /\ call[c].queue \in Queues
<1>1. call[c].op \in {"listen", "send"} /\ call[c].queue \in Queues
  <2>1. GoodCall(call[c])
    BY DEF MapsInv, CallInv
  <2> QED
    BY <2>1 DEF GoodCall, Calls
<1>2. CASE c \in Runs
  BY <1>1, <1>2 DEF MapsInv, RunsListen
<1>3. CASE c = App
  BY <1>1, <1>3 DEF MapsInv, AppTouches
<1> QED
  BY <1>1, <1>2, <1>3, Constants

(* Nothing else opens a receiver.                                          *)
LEMMA NoOtherReceivers ==
  ASSUME MapsInv, [ReattachmentNext]_module,
         ~\E c \in Callers : Answer(c) /\ CreateSucceeds(c),
         NEW q \in Queues
  PROVE  ReceiversOf(q)' = ReceiversOf(q)
<1>0. CallInv
  BY DEF MapsInv
<1>1. SUFFICES /\ Len(links') = Len(links)
               /\ \A i \in 1..Len(links) : links'[i].kind = links[i].kind
               /\ \A i \in 1..Len(links) : links'[i].queue = links[i].queue
  BY DEF ReceiversOf
<1>2. CASE UNCHANGED links
  BY <1>2
<1>3. ASSUME NEW c \in Callers, Answer(c)
      PROVE  \/ UNCHANGED links
             \/ /\ Len(links') = Len(links)
                /\ \A i \in 1..Len(links) : /\ links'[i].kind = links[i].kind
                                            /\ links'[i].queue = links[i].queue
  <2>1. Resume(c) /\ ~CreateSucceeds(c)
    BY <1>3 DEF Answer, Resume
  <2> QED
    BY <1>0, <2>1, OldReceiver, AnsweredCall
<1>4. ASSUME NEW k \in Connections, ErrorClose(k)
      PROVE  /\ Len(links') = Len(links)
             /\ \A i \in 1..Len(links) : /\ links'[i].kind = links[i].kind
                                         /\ links'[i].queue = links[i].queue
  BY <1>0, <1>4, CallsAfterErrorClose
<1>5. ASSUME NEW r \in Runs, NextListener(r) \/ AllAttached(r) \/ Abort(r)
      PROVE  UNCHANGED links
  BY <1>5 DEF NextListener, GetReceiver, GetLink, AllAttached, Abort, vars
<1>6. ASSUME NEW q1 \in Queues, AppCalls(q1) PROVE UNCHANGED links
  BY <1>6 DEF AppCalls, GetReceiver, GetLink, RemoveListener
<1>7. ASSUME NEW k \in Connections, Reopened(k) PROVE UNCHANGED links
  BY <1>7 DEF Reopened, Reattach, vars
<1>8. CASE UNCHANGED module
  BY <1>2, <1>8 DEF module, vars
<1> QED
  BY <1>2, <1>3, <1>4, <1>5, <1>6, <1>7, <1>8, Constants
     DEF ReattachmentNext, Proceed

LEMMA PaidForStay ==
  MapsInv /\ ReceiversArePaidFor /\ [ReattachmentNext]_module
    => ReceiversArePaidFor'
<1> SUFFICES ASSUME MapsInv, ReceiversArePaidFor, [ReattachmentNext]_module
             PROVE  ReceiversArePaidFor'
  OBVIOUS
<1>1. CallInv' /\ ModuleTypes' /\ CallInv /\ ModuleTypes
  BY TypesStay DEF MapsInv
<1>2. SpentIsFinite' /\ SpentIsFinite
  BY <1>1, SpentFinite, PTL
<1>3. AnswersStay
  BY <1>1, AnswersKept
<1> SUFFICES ASSUME NEW q \in Queues
             PROVE  Cardinality(ReceiversOf(q)') <= Cardinality(Spent(q)')
  BY DEF ReceiversArePaidFor
<1>4. Spent(q) \subseteq Spent(q)'
  BY <1>1, <1>3, SpentStays
<1>5. /\ IsFiniteSet(Spent(q)) /\ Cardinality(Spent(q)) \in Nat
      /\ IsFiniteSet(Spent(q)') /\ Cardinality(Spent(q)') \in Nat
      /\ Cardinality(Spent(q)) <= Cardinality(Spent(q)')
  BY <1>2, <1>4, FS_Subset DEF SpentIsFinite
<1>6. /\ Cardinality(ReceiversOf(q)) <= Cardinality(Spent(q))
      /\ IsFiniteSet(ReceiversOf(q)) /\ Cardinality(ReceiversOf(q)) \in Nat
  BY <1>1, ReceiversFinite DEF ReceiversArePaidFor
<1>7. ASSUME NEW c \in Callers, Answer(c), CreateSucceeds(c)
      PROVE  Cardinality(ReceiversOf(q)') <= Cardinality(Spent(q)')
  <2> DEFINE new == Len(links) + 1
             p == call[c].queue
  <2>1. call[c].op = "listen"
    BY <1>7, OnlyReceivers DEF CreateSucceeds
  <2>2. /\ p \in Queues /\ new \in Nat /\ Len(links') = new
        /\ \A i \in 1..Len(links) : links'[i] = links[i]
        /\ links'[new] = [kind |-> "receiver", queue |-> p, open |-> TRUE]
    BY <1>1, <1>7, <2>1, NewReceiver
  <2>3. Len(links) \in Nat /\ new \notin 1..Len(links)
        /\ 1..new = (1..Len(links)) \cup {new}
    <3>1. Len(links) \in Nat
      BY <1>1 DEF CallInv, TypeOK
    <3>2. ASSUME NEW n \in Nat
          PROVE  n + 1 \notin 1..n /\ 1..(n + 1) = (1..n) \cup {n + 1}
      OBVIOUS
    <3> QED
      BY <3>1, <3>2
  <2>4. CASE q = p
    <3>1. ReceiversOf(q)' = ReceiversOf(q) \cup {new}
      BY <2>2, <2>3, <2>4 DEF ReceiversOf
    <3>2. new \notin ReceiversOf(q)
      BY <2>3 DEF ReceiversOf
    <3>3. Cardinality(ReceiversOf(q)') = Cardinality(ReceiversOf(q)) + 1
      BY <1>6, <3>1, <3>2, FS_AddElement
    <3>4. PICK t : t \notin Spent(q) /\ t \in Spent(q)'
      BY <1>1, <1>3, <1>7, <2>4, NewReceiverSpends
    <3>5. /\ IsFiniteSet(Spent(q) \cup {t})
          /\ Cardinality(Spent(q) \cup {t}) = Cardinality(Spent(q)) + 1
      BY <1>5, <3>4, FS_AddElement
    <3>6. Cardinality(Spent(q) \cup {t}) <= Cardinality(Spent(q)')
      BY <1>4, <1>5, <3>4, FS_Subset
    <3> QED
      BY <1>5, <1>6, <3>3, <3>5, <3>6
  <2>5. CASE q # p
    <3>1. ReceiversOf(q)' = ReceiversOf(q)
      BY <2>2, <2>3, <2>5 DEF ReceiversOf
    <3> QED
      BY <1>5, <1>6, <3>1
  <2> QED
    BY <2>4, <2>5
<1>8. CASE ~\E c \in Callers : Answer(c) /\ CreateSucceeds(c)
  <2>1. ReceiversOf(q)' = ReceiversOf(q)
    BY <1>8, NoOtherReceivers
  <2> QED
    BY <1>5, <1>6, <2>1
<1> QED
  BY <1>7, <1>8

(* However runs and the application's calls overlap, a queue gets at most  *)
(* one receiver from onModuleInit(), one from each of its methods for      *)
(* every event, and one for each call of the application.                  *)
THEOREM DuplicatesAreBounded == ReattachmentSpec => []DuplicatesBounded
<1>1. ReattachmentInit => ReceiversArePaidFor
  <2> SUFFICES ASSUME ReattachmentInit, NEW q \in Queues
               PROVE  Cardinality(ReceiversOf(q)) <= Cardinality(Spent(q))
    BY DEF ReceiversArePaidFor
  <2>1. ReceiversOf(q) = {}
    BY DEF ReattachmentInit, ReceiversOf
  <2>2. Cardinality(Spent(q)) \in Nat
    BY MapsAtStart, SpentFinite DEF MapsInv, SpentIsFinite
  <2> QED
    BY <2>1, <2>2, FS_EmptySet
<1>2. MapsInv /\ ReceiversArePaidFor => DuplicatesBounded
  <2> SUFFICES ASSUME MapsInv, ReceiversArePaidFor, NEW q \in Queues
               PROVE  LET methods == {i \in 1..Len(Listeners) : Listeners[i] = q}
                          first == IF methods = {} THEN 0 ELSE 1
                      IN  Cardinality(OpenLinks("receiver", q)) <=
                            first + clears * Cardinality(methods) + appCalls
    BY DEF DuplicatesBounded
  <2> DEFINE methods == {i \in 1..Len(Listeners) : Listeners[i] = q}
             first == IF methods = {} THEN 0 ELSE 1
             bound == first + clears * Cardinality(methods) + appCalls
  <2>1. /\ Cardinality(Spent(q)) \in Nat
        /\ bound \in Nat /\ Cardinality(Spent(q)) <= bound
    BY SpentBounded DEF MapsInv, Methods
  <2>2. OpenLinks("receiver", q) \subseteq ReceiversOf(q)
    BY DEF OpenLinks, ReceiversOf
  <2>3. /\ IsFiniteSet(ReceiversOf(q)) /\ Cardinality(ReceiversOf(q)) \in Nat
        /\ Cardinality(ReceiversOf(q)) <= Cardinality(Spent(q))
    BY ReceiversFinite DEF MapsInv, ReceiversArePaidFor
  <2>4. /\ Cardinality(OpenLinks("receiver", q)) \in Nat
        /\ Cardinality(OpenLinks("receiver", q)) <= Cardinality(ReceiversOf(q))
    BY <2>2, <2>3, FS_Subset, FS_CardinalityType
  <2> HIDE DEF bound
  <2>5. Cardinality(OpenLinks("receiver", q)) <= bound
    BY <2>1, <2>3, <2>4
  <2> QED
    BY <2>5 DEF bound
<1> QED
  BY <1>1, <1>2, MapsAtStart, MapsStay, PaidForStay, PTL DEF ReattachmentSpec

=============================================================================
