--------------------------- MODULE ShutdownProofs --------------------------
(***************************************************************************)
(* Proofs about Shutdown, for any number of receivers, connections and     *)
(* credits.                                                                *)
(***************************************************************************)
EXTENDS Shutdown, TLAPS

(* A receiver that shutdown() may leave.                                   *)
Left(r) ==
  ConnectionOf[r] \notin broken =>
    link[r] = "closed" /\ processing[r] < Credits[r]

(* The counts and the state of the links and connections: a receiver that  *)
(* was never attached has neither credit nor messages, and a connection    *)
(* that is down, or has lost its links, broke at some time.                *)
CountInv ==
  /\ TypeOK
  /\ \A r \in Receivers :
       link[r] = "none" => credit[r] = 0 /\ processing[r] = 0
  /\ \A r \in Receivers : link[r] = "dead" => ConnectionOf[r] \in broken
  /\ \A c \in Names : connection[c] = "down" => c \in broken

(* The receivers that shutdown() finds have been attached, and it closes   *)
(* no connection before it is through with them.                           *)
TargetInv ==
  /\ \A i \in 1..Len(registered) : link[registered[i]] # "none"
  /\ \A i \in 1..Len(targets) : link[targets[i]] # "none"
  /\ at \in {"running", "closing", "polling", "sleeping"} =>
       \A c \in Names : connection[c] # "closed"

(* Where the loop over the receivers is, and what lies behind it.          *)
LoopInv ==
  /\ at \in {"closing", "polling", "sleeping"} =>
       /\ index \in 1..Len(targets)
       /\ \A i \in 1..(index - 1) : Left(targets[i])
  /\ at \in {"polling", "sleeping"} =>
       (ConnectionOf[targets[index]] \notin broken =>
          link[targets[index]] = "closed")
  /\ at \in {"disconnecting", "done"} =>
       \A i \in 1..Len(targets) : Left(targets[i])

(* A connection that disconnect() has dealt with.                          *)
Dealt(c) == connection[c] = "closed" \/ c \in missed

(* Where the loop over the connections is, and what lies behind it.        *)
DisconnectInv ==
  /\ at = "disconnecting" =>
       /\ index \in 1..(Len(Connections) + 1)
       /\ \A j \in 1..(index - 1) : Dealt(Connections[j])
  /\ at = "done" => \A j \in 1..Len(Connections) : Dealt(Connections[j])

IInv == CountInv /\ TargetInv /\ LoopInv /\ DisconnectInv

-----------------------------------------------------------------------------
LEMMA Places ==
  /\ \A c \in DOMAIN Connections : Connections[c] \in Names
  /\ \A c \in Names : \E j \in 1..Len(Connections) : c = Connections[j]
  /\ \A r \in Receivers : ConnectionOf[r] \in Names
BY ShutdownAssumption DEF Names, ToSet

LEMMA InitInv == Init => IInv
<1> SUFFICES ASSUME Init PROVE IInv
  OBVIOUS
<1>1. CountInv
  BY ShutdownAssumption DEF Init, CountInv, TypeOK, Steps
<1>2. TargetInv /\ LoopInv /\ DisconnectInv
  BY DEF Init, TargetInv, LoopInv, DisconnectInv
<1> QED
  BY <1>1, <1>2 DEF IInv

-----------------------------------------------------------------------------
(* The world around shutdown().                                            *)

Around ==
  \/ \E r \in Receivers : Register(r) \/ Receive(r) \/ Settle(r)
  \/ \E c \in Names : ConnectionLost(c) \/ Resumed(c) \/ Reopened(c)

(* The links and the connections on their way.                             *)
LEMMA AroundLinks ==
  ASSUME CountInv, Around
  PROVE  /\ UNCHANGED <<at, targets, index, missed>>
         /\ broken \subseteq broken'
         /\ \A r \in Receivers : link[r] # "none" => link'[r] # "none"
         /\ \A r \in Receivers : link[r] = "closed" => link'[r] = "closed"
         /\ \A c \in Names : connection[c] = "closed" <=> connection'[c] = "closed"
<1>1. /\ link \in [Receivers -> {"none", "attached", "dead", "closed"}]
      /\ connection \in [Names -> {"open", "down", "closed"}]
  BY DEF CountInv, TypeOK
<1>2. ASSUME NEW r \in Receivers, Register(r) \/ Receive(r) \/ Settle(r)
      PROVE  /\ UNCHANGED <<at, targets, index, missed, broken, connection>>
             /\ \A p \in Receivers : link[p] # "none" => link'[p] = link[p]
  BY <1>1, <1>2 DEF Register, Receive, Settle, history
<1>3. ASSUME NEW c \in Names, ConnectionLost(c) \/ Resumed(c) \/ Reopened(c)
      PROVE  /\ UNCHANGED <<at, targets, index, missed>>
             /\ broken \subseteq broken'
             /\ connection[c] # "closed" /\ connection'[c] # "closed"
             /\ \A d \in Names \ {c} : connection'[d] = connection[d]
  BY <1>1, <1>3
     DEF ConnectionLost, Resumed, Reopened, ComesBack, IsOpen, history
<1>4. ASSUME NEW c \in Names, ConnectionLost(c) \/ Resumed(c) \/ Reopened(c),
             NEW p \in Receivers
      PROVE  link'[p] = link[p] \/ (link[p] = "attached" /\ link'[p] = "dead")
  BY <1>1, <1>4 DEF ConnectionLost, Resumed, Reopened
<1>5. CASE \E r \in Receivers : Register(r) \/ Receive(r) \/ Settle(r)
  BY <1>1, <1>2, <1>5
<1>6. CASE \E c \in Names : ConnectionLost(c) \/ Resumed(c) \/ Reopened(c)
  BY <1>1, <1>3, <1>4, <1>6
<1> QED
  BY <1>5, <1>6 DEF Around

(* What happens outside keeps a receiver that was left as it is: no        *)
(* message reaches a closed link.                                          *)
LEMMA AroundLeft ==
  ASSUME IInv, Around, NEW p \in Receivers, Left(p)
  PROVE  Left(p)'
<1>1. /\ processing \in [Receivers -> Nat]
      /\ Credits[p] \in Nat
      /\ broken \subseteq broken'
      /\ link[p] = "closed" => link'[p] = "closed"
  BY AroundLinks, ShutdownAssumption DEF IInv, CountInv, TypeOK
<1>2. ASSUME ConnectionOf[p] \notin broken
      PROVE  processing'[p] <= processing[p] /\ processing'[p] \in Nat
  <2>1. link[p] = "closed"
    BY <1>2 DEF Left
  <2>2. ASSUME NEW r \in Receivers, Register(r) \/ Receive(r) \/ Settle(r)
        PROVE  processing'[p] <= processing[p] /\ processing'[p] \in Nat
    <3>1. CASE Register(r)
      BY <1>1, <3>1 DEF Register
    <3>2. CASE Receive(r)
      BY <1>1, <2>1, <3>2 DEF Receive
    <3>3. CASE Settle(r)
      BY <1>1, <3>3 DEF Settle
    <3> QED
      BY <2>2, <3>1, <3>2, <3>3
  <2>3. ASSUME NEW c \in Names, ConnectionLost(c) \/ Resumed(c) \/ Reopened(c)
        PROVE  processing'[p] <= processing[p] /\ processing'[p] \in Nat
    BY <1>1, <2>3 DEF ConnectionLost, Resumed, Reopened, ComesBack
  <2> QED
    BY <2>2, <2>3 DEF Around
<1>3. ASSUME ConnectionOf[p] \notin broken'
      PROVE  link'[p] = "closed" /\ processing'[p] < Credits[p]
  <2>1. link[p] = "closed" /\ processing[p] < Credits[p]
    BY <1>1, <1>3 DEF Left
  <2>2. processing[p] \in Nat
    BY <1>1
  <2> QED
    BY <1>1, <1>2, <1>3, <2>1, <2>2
<1> QED
  BY <1>3 DEF Left

(* A message is received or settled: credit turns into processing, or      *)
(* back, and their sum stays.                                              *)
LEMMA MessageCounts ==
  ASSUME CountInv, NEW r \in Receivers, Receive(r) \/ Settle(r)
  PROVE  CountInv'
<1>0. /\ link[r] # "none" /\ UNCHANGED <<registered, link, connection, broken>>
      /\ UNCHANGED <<at, targets, index, missed>>
  BY DEF CountInv, Receive, Settle, history
<1>1. /\ credit \in [Receivers -> Nat] /\ processing \in [Receivers -> Nat]
      /\ sent \in [Receivers -> 0..MaxMessages] /\ MaxMessages \in Nat
      /\ \A p \in Receivers : Credits[p] \in Nat
  BY ShutdownAssumption DEF CountInv, TypeOK
<1>2. /\ credit' \in [Receivers -> Nat] /\ processing' \in [Receivers -> Nat]
      /\ sent' \in [Receivers -> 0..MaxMessages]
      /\ \A p \in Receivers \ {r} :
           credit'[p] = credit[p] /\ processing'[p] = processing[p]
      /\ credit'[r] + processing'[r] = credit[r] + processing[r]
  <2>1. CASE Receive(r)
    <3>1. credit[r] - 1 \in Nat /\ processing[r] + 1 \in Nat
      BY <1>1, <2>1 DEF Receive
    <3>2. sent[r] + 1 \in 0..MaxMessages
      BY <1>1, <2>1 DEF Receive
    <3>3. /\ credit'[r] = credit[r] - 1 /\ processing'[r] = processing[r] + 1
          /\ credit[r] \in Nat /\ processing[r] \in Nat
      BY <1>1, <2>1 DEF Receive
    <3>4. credit'[r] + processing'[r] = credit[r] + processing[r]
      BY <3>3
    <3>5. /\ credit' \in [Receivers -> Nat] /\ processing' \in [Receivers -> Nat]
          /\ sent' \in [Receivers -> 0..MaxMessages]
      BY <1>1, <2>1, <3>1, <3>2 DEF Receive
    <3>6. \A p \in Receivers \ {r} :
            credit'[p] = credit[p] /\ processing'[p] = processing[p]
      BY <1>1, <2>1 DEF Receive
    <3> QED
      BY <3>4, <3>5, <3>6
  <2>2. CASE Settle(r)
    <3>1. credit[r] + 1 \in Nat /\ processing[r] - 1 \in Nat
      BY <1>1, <2>2 DEF Settle
    <3>2. /\ credit'[r] = credit[r] + 1 /\ processing'[r] = processing[r] - 1
          /\ credit[r] \in Nat /\ processing[r] \in Nat
      BY <1>1, <2>2 DEF Settle
    <3>3. credit'[r] + processing'[r] = credit[r] + processing[r]
      BY <3>2
    <3>4. /\ credit' \in [Receivers -> Nat] /\ processing' \in [Receivers -> Nat]
          /\ sent' \in [Receivers -> 0..MaxMessages]
      BY <1>1, <2>2, <3>1 DEF Settle
    <3>5. \A p \in Receivers \ {r} :
            credit'[p] = credit[p] /\ processing'[p] = processing[p]
      BY <1>1, <2>2 DEF Settle
    <3> QED
      BY <3>3, <3>4, <3>5
  <2> QED
    BY <2>1, <2>2
<1>3. \A p \in Receivers :
        ConnectionOf[p] \notin broken => credit'[p] + processing'[p] <= Credits[p]
  <2>1. \A p \in Receivers :
          ConnectionOf[p] \notin broken => credit[p] + processing[p] <= Credits[p]
    BY DEF CountInv, TypeOK
  <2>2. \A p \in Receivers :
          credit'[p] + processing'[p] = credit[p] + processing[p]
    BY <1>2
  <2> QED
    BY <2>1, <2>2
<1>4. \A p \in Receivers :
        link'[p] = "none" => credit'[p] = 0 /\ processing'[p] = 0
  BY <1>0, <1>2 DEF CountInv
<1>5. TypeOK'
  BY <1>0, <1>2, <1>3 DEF CountInv, TypeOK
<1> QED
  BY <1>0, <1>4, <1>5 DEF CountInv

LEMMA RegisterCounts ==
  ASSUME CountInv, NEW r \in Receivers, Register(r)
  PROVE  CountInv'
<1>0. /\ UNCHANGED <<connection, processing, sent, broken>>
      /\ UNCHANGED <<at, targets, index, missed>>
  BY DEF Register, history
<1>1. /\ registered \in Seq(Receivers)
      /\ link \in [Receivers -> {"none", "attached", "dead", "closed"}]
      /\ credit \in [Receivers -> Nat] /\ processing \in [Receivers -> Nat]
      /\ \A p \in Receivers : Credits[p] \in Nat
  BY ShutdownAssumption DEF CountInv, TypeOK
<1>2. /\ registered' = Append(registered, r)
      /\ credit' = [credit EXCEPT ![r] = Credits[r]]
      /\ link' = [link EXCEPT ![r] = "attached"]
      /\ processing[r] = 0
  BY DEF Register, CountInv
<1>3. registered' \in Seq(Receivers)
  BY <1>1, <1>2
<1>4. /\ link' \in [Receivers -> {"none", "attached", "dead", "closed"}]
      /\ credit' \in [Receivers -> Nat]
  BY <1>1, <1>2
<1>5. \A p \in Receivers :
        ConnectionOf[p] \notin broken => credit'[p] + processing'[p] <= Credits[p]
  <2>1. credit'[r] + processing'[r] <= Credits[r]
    <3>1. credit'[r] = Credits[r] /\ processing'[r] = 0 /\ Credits[r] \in Nat
      BY <1>0, <1>1, <1>2
    <3> QED
      BY <3>1
  <2>2. \A p \in Receivers \ {r} :
          credit'[p] = credit[p] /\ processing'[p] = processing[p]
    BY <1>0, <1>1, <1>2
  <2>3. \A p \in Receivers :
          ConnectionOf[p] \notin broken => credit[p] + processing[p] <= Credits[p]
    BY DEF CountInv, TypeOK
  <2> QED
    BY <2>1, <2>2, <2>3
<1>6. TypeOK'
  BY <1>0, <1>3, <1>4, <1>5 DEF CountInv, TypeOK
<1>7. \A p \in Receivers :
        /\ link'[p] = "none" => credit'[p] = 0 /\ processing'[p] = 0
        /\ link'[p] = "dead" => ConnectionOf[p] \in broken
  BY <1>0, <1>1, <1>2 DEF CountInv
<1> QED
  BY <1>0, <1>6, <1>7 DEF CountInv

LEMMA ConnectionCounts ==
  ASSUME CountInv, NEW c \in Names,
         ConnectionLost(c) \/ Resumed(c) \/ Reopened(c)
  PROVE  CountInv'
<1>0. /\ UNCHANGED <<processing, sent, at, targets, index, missed>>
      /\ broken' = broken \cup {c}
  BY DEF ConnectionLost, Resumed, Reopened, ComesBack, history, CountInv
<1>1. /\ link \in [Receivers -> {"none", "attached", "dead", "closed"}]
      /\ connection \in [Names -> {"open", "down", "closed"}]
      /\ credit \in [Receivers -> Nat]
      /\ \A p \in Receivers : Credits[p] \in Nat
  BY ShutdownAssumption DEF CountInv, TypeOK
<1>2. /\ connection' \in [Names -> {"open", "down", "closed"}]
      /\ \A d \in Names : connection'[d] = "down" => d \in broken'
  BY <1>0, <1>1 DEF ConnectionLost, Resumed, Reopened, ComesBack, CountInv
<1>3. /\ link' \in [Receivers -> {"none", "attached", "dead", "closed"}]
      /\ \A p \in Receivers :
           /\ link'[p] = "none" => link[p] = "none"
           /\ link'[p] = "dead" => link[p] = "dead" \/ ConnectionOf[p] = c
  BY <1>1 DEF ConnectionLost, Resumed, Reopened
<1>4. /\ credit' \in [Receivers -> Nat]
      /\ \A p \in Receivers :
           credit'[p] = credit[p]
             \/ (ConnectionOf[p] = c /\ link[p] = "attached")
  BY <1>1 DEF ConnectionLost, Resumed, Reopened
<1>5. registered' \in Seq(Receivers)
  <2>1. registered' = registered \/ registered' = << >>
    BY DEF ConnectionLost, Resumed, Reopened
  <2>2. registered \in Seq(Receivers) /\ << >> \in Seq(Receivers)
    BY DEF CountInv, TypeOK
  <2> QED
    BY <2>1, <2>2
<1>6. \A p \in Receivers :
        ConnectionOf[p] \notin broken' => credit'[p] + processing'[p] <= Credits[p]
  BY <1>0, <1>4 DEF CountInv, TypeOK
<1>7. TypeOK'
  BY <1>0, <1>2, <1>3, <1>4, <1>5, <1>6 DEF CountInv, TypeOK
<1>8. \A p \in Receivers :
        /\ link'[p] = "none" => credit'[p] = 0 /\ processing'[p] = 0
        /\ link'[p] = "dead" => ConnectionOf[p] \in broken'
  BY <1>0, <1>3, <1>4 DEF CountInv
<1> QED
  BY <1>2, <1>7, <1>8 DEF CountInv

LEMMA AroundTargets == ASSUME IInv, Around PROVE TargetInv'
<1>1. /\ UNCHANGED <<at, targets, index, missed>>
      /\ \A r \in Receivers : link[r] # "none" => link'[r] # "none"
      /\ \A c \in Names : connection[c] = "closed" <=> connection'[c] = "closed"
  BY AroundLinks DEF IInv
<1>2. registered \in Seq(Receivers) /\ targets \in Seq(Receivers)
  BY DEF IInv, CountInv, TypeOK
<1>3. \A i \in 1..Len(registered)' : link'[registered'[i]] # "none"
  <2>1. ASSUME NEW r \in Receivers, Register(r)
        PROVE  \A i \in 1..Len(registered)' : link'[registered'[i]] # "none"
    <3>1. /\ registered' = Append(registered, r)
          /\ link' = [link EXCEPT ![r] = "attached"]
          /\ r \in DOMAIN link
      BY <2>1 DEF Register, IInv, CountInv, TypeOK
    <3>2. Len(registered)' = Len(registered) + 1 /\ Len(registered) \in Nat
      BY <1>2, <3>1
    <3>3. \A i \in 1..Len(registered) :
            registered'[i] = registered[i] /\ registered[i] \in Receivers
      BY <1>2, <3>1
    <3>4. registered'[Len(registered) + 1] = r
      BY <1>2, <3>1
    <3>5. link'[r] # "none"
      BY <3>1
    <3>6. \A i \in 1..Len(registered) : link'[registered'[i]] # "none"
      BY <1>1, <3>3 DEF IInv, TargetInv
    <3> QED
      BY <3>2, <3>4, <3>5, <3>6
  <2>2. ASSUME registered' = registered
        PROVE  \A i \in 1..Len(registered)' : link'[registered'[i]] # "none"
    BY <1>1, <1>2, <2>2 DEF IInv, TargetInv
  <2>3. ASSUME registered' = << >>
        PROVE  \A i \in 1..Len(registered)' : link'[registered'[i]] # "none"
    BY <2>3
  <2> QED
    BY <2>1, <2>2, <2>3
       DEF Around, Receive, Settle, ConnectionLost, Resumed, Reopened
<1>4. \A i \in 1..Len(targets)' : link'[targets'[i]] # "none"
  BY <1>1, <1>2 DEF IInv, TargetInv
<1> QED
  BY <1>1, <1>3, <1>4 DEF IInv, TargetInv

LEMMA AroundInv == ASSUME IInv, Around PROVE IInv'
<1>0. /\ UNCHANGED <<at, targets, index, missed>>
      /\ broken \subseteq broken'
      /\ \A r \in Receivers : link[r] = "closed" => link'[r] = "closed"
      /\ \A c \in Names : connection[c] = "closed" => connection'[c] = "closed"
  BY AroundLinks DEF IInv
<1>1. targets \in Seq(Receivers)
  BY DEF IInv, CountInv, TypeOK
<1>2. CountInv'
  BY MessageCounts, RegisterCounts, ConnectionCounts DEF Around, IInv
<1>3. LoopInv'
  <2>1. \A p \in Receivers : Left(p) => Left(p)'
    BY AroundLeft
  <2>2. ASSUME NEW i \in 1..Len(targets), Left(targets[i])
        PROVE  Left(targets[i])'
    <3>1. targets[i] \in Receivers /\ targets'[i] = targets[i]
      BY <1>0, <1>1
    <3> QED
      BY <2>1, <2>2, <3>1 DEF Left
  <2>3. index \in Nat /\ Len(targets) \in Nat
    BY <1>1 DEF IInv, CountInv, TypeOK
  <2>4. \A i \in 1..Len(targets) : targets[i] \in Receivers
    BY <1>1
  <2>5. LoopInv
    BY DEF IInv
  <2> QED
    BY <1>0, <2>2, <2>3, <2>4, <2>5 DEF LoopInv
<1>4. DisconnectInv'
  <2>1. \A j \in 1..Len(Connections) :
          Dealt(Connections[j]) => Dealt(Connections[j])'
    BY <1>0, Places, ShutdownAssumption DEF Dealt
  <2>2. Len(Connections) \in Nat
    BY ShutdownAssumption
  <2>3. DisconnectInv
    BY DEF IInv
  <2> QED
    BY <1>0, <2>1, <2>2, <2>3 DEF DisconnectInv
<1> QED
  BY <1>2, <1>3, <1>4, AroundTargets DEF IInv

-----------------------------------------------------------------------------
(* The steps of shutdown().                                                *)

LEMMA BeginInv == ASSUME IInv, Begin PROVE IInv'
<1>1. /\ registered \in Seq(Receivers) /\ targets' = registered
      /\ at = "running" /\ ContinueWith(1, registered)
      /\ UNCHANGED <<registered, link, connection, credit, processing, sent>>
      /\ UNCHANGED <<broken, missed>>
  BY DEF Begin, history, IInv, CountInv, TypeOK
<1>2. CASE Len(registered) >= 1
  <2>1. at' = "closing" /\ index' = 1
    BY <1>1, <1>2 DEF ContinueWith
  <2>2. CountInv' /\ TargetInv'
    BY <1>1, <2>1 DEF IInv, CountInv, TypeOK, TargetInv, Steps
  <2>3. LoopInv' /\ DisconnectInv'
    BY <1>1, <1>2, <2>1 DEF LoopInv, DisconnectInv
  <2> QED
    BY <2>2, <2>3 DEF IInv
<1>3. CASE ~(Len(registered) >= 1)
  <2>1. at' = "disconnecting" /\ index' = 1
    BY <1>1, <1>3 DEF ContinueWith
  <2>2. Len(targets') = 0
    BY <1>1, <1>3
  <2>3. Len(Connections) \in Nat
    BY ShutdownAssumption
  <2>4. CountInv' /\ TargetInv'
    BY <1>1, <2>1 DEF IInv, CountInv, TypeOK, TargetInv, Steps
  <2>5. LoopInv' /\ DisconnectInv'
    BY <2>1, <2>2, <2>3 DEF LoopInv, DisconnectInv
  <2> QED
    BY <2>4, <2>5 DEF IInv
<1> QED
  BY <1>2, <1>3

(* close() ends shutdown() when it rejects, and the link when it resolves  *)
(* with the connection open.                                               *)
LEMMA CloseInv == ASSUME IInv, CloseSucceeds \/ CloseFails PROVE IInv'
<1>1. CASE CloseSucceeds
  <2>1. /\ at = "closing" /\ at' = "polling"
        /\ link' = link \/ link' = [link EXCEPT ![targets[index]] = "closed"]
        /\ UNCHANGED <<registered, connection, credit, processing, sent>>
        /\ UNCHANGED <<targets, index, broken, missed>>
    BY <1>1 DEF CloseSucceeds, Current, history
  <2>2. /\ index \in 1..Len(targets) /\ Len(targets) \in Nat
        /\ \A i \in 1..Len(targets) : targets[i] \in Receivers
        /\ \A i \in 1..Len(registered) : registered[i] \in Receivers
        /\ \A i \in 1..(index - 1) : Left(targets[i])
        /\ link \in [Receivers -> {"none", "attached", "dead", "closed"}]
    BY <2>1 DEF IInv, LoopInv, CountInv, TypeOK
  <2>3. \A r \in Receivers : link'[r] = link[r] \/ link'[r] = "closed"
    BY <2>1, <2>2
  <2>4. link' \in [Receivers -> {"none", "attached", "dead", "closed"}]
    BY <2>1, <2>2
  <2>5. CountInv'
    BY <2>1, <2>3, <2>4 DEF IInv, CountInv, TypeOK, Steps
  <2>6. TargetInv'
    BY <2>1, <2>2, <2>3 DEF IInv, TargetInv
  <2>7. \A i \in 1..(index - 1) : Left(targets[i])'
    <3>1. \A i \in 1..(index - 1) :
            targets[i] \in Receivers /\ targets'[i] = targets[i]
      BY <2>1, <2>2
    <3> QED
      BY <2>1, <2>2, <2>3, <3>1 DEF Left
  <2>8. ConnectionOf[targets[index]] \notin broken =>
          link'[targets[index]] = "closed"
    <3> DEFINE r == targets[index]
    <3> SUFFICES ASSUME ConnectionOf[r] \notin broken
                 PROVE  link'[r] = "closed"
      OBVIOUS
    <3>1. r \in Receivers /\ ConnectionOf[r] \in Names
      BY <2>2, Places
    <3>2. IsOpen(ConnectionOf[r])
      BY <2>1, <3>1 DEF IInv, CountInv, TypeOK, TargetInv, IsOpen
    <3>3. link[r] \in {"attached", "closed"}
      BY <2>2, <3>1 DEF IInv, CountInv, TargetInv
    <3> QED
      BY <1>1, <2>2, <3>1, <3>2, <3>3 DEF CloseSucceeds, Current
  <2>9. LoopInv'
    BY <2>1, <2>2, <2>7, <2>8 DEF LoopInv
  <2> QED
    BY <2>1, <2>5, <2>6, <2>9 DEF IInv, DisconnectInv
<1>2. CASE CloseFails
  BY <1>2 DEF CloseFails, history, IInv, CountInv, TypeOK, TargetInv, LoopInv,
              DisconnectInv, Steps
<1> QED
  BY <1>1, <1>2

(* The loop moves on with a closed receiver that has a credit, or over a   *)
(* broken connection.                                                      *)
LEMMA PollInv == ASSUME IInv, Poll \/ Wake PROVE IInv'
<1>0. /\ UNCHANGED <<registered, link, connection, credit, processing, sent>>
      /\ UNCHANGED <<targets, broken, missed>>
  BY DEF Poll, Wake, history
<1>1. CASE Wake \/ (Poll /\ MustWait(Current))
  <2>1. at \in {"polling", "sleeping"} /\ at' \in {"polling", "sleeping"}
        /\ UNCHANGED index
    BY <1>1 DEF Poll, Wake
  <2>2. \A i \in 1..Len(targets) : Left(targets[i])' <=> Left(targets[i])
    BY <1>0 DEF Left
  <2>3. CountInv' /\ TargetInv' /\ DisconnectInv'
    BY <1>0, <2>1
       DEF IInv, CountInv, TypeOK, TargetInv, DisconnectInv, Steps
  <2>4. LoopInv'
    BY <1>0, <2>1, <2>2 DEF IInv, LoopInv, Left
  <2> QED
    BY <2>3, <2>4 DEF IInv
<1>2. CASE Poll /\ ~MustWait(Current)
  <2>1. at = "polling" /\ ContinueWith(index + 1, targets)
    BY <1>2 DEF Poll
  <2>2. /\ index \in 1..Len(targets) /\ Len(targets) \in Nat
        /\ targets[index] \in Receivers
        /\ ConnectionOf[targets[index]] \notin broken =>
             link[targets[index]] = "closed"
        /\ \A i \in 1..(index - 1) : Left(targets[i])
    BY <2>1 DEF IInv, LoopInv, CountInv, TypeOK
  <2>3. Left(targets[index])
    <3> DEFINE r == targets[index]
    <3> SUFFICES ASSUME ConnectionOf[r] \notin broken
                 PROVE  processing[r] < Credits[r]
      BY <2>2 DEF Left
    <3>1. ConnectionOf[r] \in Names
      BY <2>2, Places
    <3>2. connection[ConnectionOf[r]] = "open"
      BY <2>1, <3>1 DEF IInv, CountInv, TypeOK, TargetInv
    <3>3. credit[r] # 0
      BY <1>2, <3>2 DEF MustWait, Current, IsOpen
    <3>4. /\ credit[r] \in Nat /\ processing[r] \in Nat /\ Credits[r] \in Nat
          /\ credit[r] + processing[r] <= Credits[r]
      BY <2>2, ShutdownAssumption DEF IInv, CountInv, TypeOK
    <3> HIDE DEF r
    <3> QED
      BY <3>3, <3>4
  <2>4. \A i \in 1..index : Left(targets[i])
    BY <2>2, <2>3
  <2>5. \A i \in 1..index : Left(targets[i])'
    BY <1>0, <2>4 DEF Left
  <2>6. CASE index + 1 <= Len(targets)
    <3>1. at' = "closing" /\ index' = index + 1
      BY <2>1, <2>6 DEF ContinueWith
    <3>2. LoopInv'
      <4>1. index' - 1 = index /\ index + 1 \in 1..Len(targets)
        BY <2>2, <2>6, <3>1
      <4>2. Len(targets') = Len(targets)
        BY <1>0
      <4> QED
        BY <2>5, <3>1, <4>1, <4>2 DEF LoopInv
    <3>3. CountInv' /\ TargetInv' /\ DisconnectInv'
      BY <1>0, <2>1, <2>2, <3>1
         DEF IInv, CountInv, TypeOK, TargetInv, DisconnectInv, Steps
    <3> QED
      BY <3>2, <3>3 DEF IInv
  <2>7. CASE ~(index + 1 <= Len(targets))
    <3>1. at' = "disconnecting" /\ index' = 1 /\ index = Len(targets)
      BY <2>1, <2>2, <2>7 DEF ContinueWith
    <3>2. LoopInv'
      BY <1>0, <2>5, <3>1 DEF LoopInv
    <3>3. CountInv' /\ TargetInv'
      BY <1>0, <3>1 DEF IInv, CountInv, TypeOK, TargetInv, Steps
    <3>4. DisconnectInv'
      BY <3>1, ShutdownAssumption DEF DisconnectInv
    <3> QED
      BY <3>2, <3>3, <3>4 DEF IInv
  <2> QED
    BY <2>6, <2>7
<1> QED
  BY <1>1, <1>2

LEMMA DisconnectStepInv ==
  ASSUME IInv, Disconnect \/ DisconnectFails
  PROVE  IInv'
<1>1. CASE DisconnectFails
  BY <1>1 DEF DisconnectFails, history, IInv, CountInv, TypeOK, TargetInv,
              LoopInv, DisconnectInv, Steps
<1>2. CASE Disconnect /\ index <= Len(Connections)
  <2> DEFINE c == Connections[index]
  <2>1. /\ at = "disconnecting" /\ at' = "disconnecting" /\ index' = index + 1
        /\ Close(c)
        /\ UNCHANGED <<registered, link, credit, processing, sent, targets>>
        /\ UNCHANGED broken
    BY <1>2 DEF Disconnect
  <2>2. /\ index \in 1..Len(Connections) /\ Len(Connections) \in Nat
        /\ \A j \in 1..(index - 1) : Dealt(Connections[j])
        /\ \A j \in 1..Len(Connections) : Connections[j] \in Names
    BY <1>2, <2>1, Places, ShutdownAssumption DEF IInv, DisconnectInv
  <2>3. connection \in [Names -> {"open", "down", "closed"}] /\ c \in Names
    BY <2>2 DEF IInv, CountInv, TypeOK
  <2>4. /\ connection' \in [Names -> {"open", "down", "closed"}]
        /\ \A d \in Names :
             connection'[d] = connection[d] \/ connection'[d] = "closed"
        /\ missed \subseteq missed'
        /\ connection'[c] = "closed" \/ c \in missed'
    <3> HIDE DEF c
    <3>1. CASE connection[c] = "open"
      BY <2>1, <2>3, <3>1 DEF Close, IsOpen
    <3>2. CASE connection[c] # "open"
      BY <2>1, <2>3, <3>2 DEF Close, IsOpen
    <3> QED
      BY <3>1, <3>2
  <2>5. missed' \subseteq broken'
    BY <2>1, <2>3 DEF Close, IInv, CountInv, TypeOK
  <2>6. CountInv'
    BY <2>1, <2>2, <2>4, <2>5 DEF IInv, CountInv, TypeOK
  <2>7. \A j \in 1..index : Dealt(Connections[j])'
    <3> SUFFICES ASSUME NEW j \in 1..index PROVE Dealt(Connections[j])'
      OBVIOUS
    <3>1. CASE j = index
      BY <2>4, <3>1 DEF Dealt
    <3>2. CASE j # index
      <4>1. j \in 1..(index - 1) /\ Connections[j] \in Names
        BY <2>2, <3>2
      <4> QED
        BY <2>2, <2>4, <4>1 DEF Dealt
    <3> QED
      BY <3>1, <3>2
  <2>8. DisconnectInv'
    BY <2>1, <2>2, <2>7 DEF DisconnectInv
  <2>9. LoopInv' /\ TargetInv'
    BY <2>1 DEF IInv, LoopInv, TargetInv, Left
  <2> QED
    BY <2>6, <2>8, <2>9 DEF IInv
<1>3. CASE Disconnect /\ ~(index <= Len(Connections))
  <2>1. /\ at = "disconnecting" /\ at' = "done"
        /\ UNCHANGED <<registered, link, connection, credit, processing, sent>>
        /\ UNCHANGED <<targets, index, broken, missed>>
    BY <1>3 DEF Disconnect
  <2>2. index = Len(Connections) + 1 /\ Len(Connections) \in Nat
    BY <1>3, <2>1, ShutdownAssumption DEF IInv, DisconnectInv
  <2>3. \A j \in 1..Len(Connections) : Dealt(Connections[j])
    BY <2>1, <2>2 DEF IInv, DisconnectInv
  <2>4. DisconnectInv'
    BY <2>1, <2>3 DEF DisconnectInv, Dealt
  <2>5. CountInv' /\ TargetInv'
    BY <2>1 DEF IInv, CountInv, TypeOK, TargetInv, Steps
  <2>6. LoopInv'
    BY <2>1 DEF IInv, LoopInv, Left
  <2> QED
    BY <2>4, <2>5, <2>6 DEF IInv
<1> QED
  BY <1>1, <1>2, <1>3

LEMMA StepInv == IInv /\ [Next]_vars => IInv'
<1> SUFFICES ASSUME IInv, [Next]_vars PROVE IInv'
  OBVIOUS
<1>1. CASE UNCHANGED vars
  BY <1>1 DEF vars, history, IInv, CountInv, TypeOK, TargetInv, LoopInv,
              DisconnectInv, Dealt, Left
<1>2. CASE Around
  BY <1>2, AroundInv
<1>3. CASE Begin
  BY <1>3, BeginInv
<1>4. CASE Proceed
  BY <1>4, CloseInv, PollInv, DisconnectStepInv DEF Proceed
<1> QED
  BY <1>1, <1>2, <1>3, <1>4 DEF Next, Around

LEMMA Invariance == Spec => []IInv
BY InitInv, StepInv, PTL DEF Spec

-----------------------------------------------------------------------------
(* The variables have their types; on a connection that did not break,     *)
(* credit and messages in process never exceed what the listener was       *)
(* configured for.                                                         *)
THEOREM TypeCorrect == Spec => []TypeOK
<1>1. IInv => TypeOK
  BY DEF IInv, CountInv
<1> QED
  BY <1>1, Invariance, PTL

(* Whatever arrives, breaks, comes back or settles meanwhile, the loop of  *)
(* shutdown() leaves a receiver, unless its connection broke, only when it *)
(* is closed and not full.                                                 *)
THEOREM LeavesNoFullReceiver == Spec => []NeverLeavesFullReceiver
<1>1. IInv => NeverLeavesFullReceiver
  <2> SUFFICES ASSUME IInv, NEW r \in Receivers, Finished(r)
               PROVE  Left(r)
    BY DEF NeverLeavesFullReceiver, Left
  <2>1. CASE at \in {"disconnecting", "done"}
    <3>1. \E i \in 1..Len(targets) : r = targets[i]
      <4>1. r \in ToSet(targets)
        BY <2>1 DEF Finished
      <4>2. targets \in Seq(Receivers)
        BY DEF IInv, CountInv, TypeOK
      <4> QED
        BY <4>1, <4>2 DEF ToSet
    <3> QED
      BY <2>1, <3>1 DEF IInv, LoopInv
  <2>2. CASE at \in {"closing", "polling", "sleeping"}
    <3>1. \E i \in 1..(index - 1) : r = targets[i]
      BY <2>2 DEF Finished
    <3> QED
      BY <2>2, <3>1 DEF IInv, LoopInv
  <2> QED
    BY <2>1, <2>2 DEF Finished
<1> QED
  BY <1>1, Invariance, PTL

(* When shutdown() resolves, every connection that was not down when       *)
(* disconnect() came to it is closed, whatever happened to it before, and  *)
(* so are the receivers found whose connections did not break.             *)
THEOREM AllClosedWhenDone == Spec => []ClosedWhenDone
<1>1. IInv => ClosedWhenDone
  <2> SUFFICES ASSUME IInv, at = "done" PROVE ClosedWhenDone
    BY DEF ClosedWhenDone
  <2>1. \A c \in Names \ missed : connection[c] = "closed"
    BY Places DEF IInv, DisconnectInv, Dealt
  <2>2. \A i \in 1..Len(targets) :
          ConnectionOf[targets[i]] \notin broken => link[targets[i]] = "closed"
    BY DEF IInv, LoopInv, Left
  <2>3. \A r \in ToSet(targets) : \E i \in 1..Len(targets) : r = targets[i]
    BY DEF ToSet, IInv, CountInv, TypeOK
  <2> QED
    BY <2>1, <2>2, <2>3 DEF ClosedWhenDone
<1> QED
  BY <1>1, Invariance, PTL

=============================================================================
