------------------------------ MODULE Shutdown -----------------------------
(***************************************************************************)
(* QueueService.shutdown(), which QueueModule.onModuleDestroy() awaits:    *)
(* the registered receivers are closed one after the other, each time      *)
(* polling until the receiver looks idle, and then AMQPService             *)
(* .disconnect() closes the connections one after the other.  Messages     *)
(* keep arriving on receivers that are not closed yet, handlers keep       *)
(* settling what arrived before, and connections break and come back.      *)
(*                                                                         *)
(* A receiver is known here by its credit and the number of messages it is *)
(* processing: MessageHandling explains how one turns into the other.      *)
(***************************************************************************)
EXTENDS Naturals, Sequences, SequencesExt

CONSTANTS
  Receivers,      (* receivers the application may register                *)
  Connections,    (* the connections, in the order of their storage        *)
  ConnectionOf,   (* the connection each receiver is on                    *)
  Credits,        (* parallelMessageProcessing of each listener            *)
  MaxMessages     (* bound: messages a receiver is sent in total           *)

ASSUME ShutdownAssumption ==
  /\ Credits \in [Receivers -> Nat]
  /\ Connections \in Seq(ToSet(Connections))
  /\ MaxMessages \in Nat
  /\ ConnectionOf \in [Receivers -> ToSet(Connections)]

VARIABLES
  registered,   (* the Map of receivers, in insertion order                *)
  link,         (* the link of each receiver                               *)
  connection,   (* each connection                                         *)
  credit,       (* Receiver.credit                                         *)
  processing,   (* messages received and not settled yet                   *)
  sent,         (* messages the broker has sent, counted for the bound     *)
  at,           (* the statement of shutdown() that is next, or awaited    *)
  targets,      (* the receivers shutdown() found when it began            *)
  index,        (* position in `targets`, then in Connections              *)
  broken,       (* connections that were lost at some time                 *)
  missed        (* those that were down when disconnect() came to them     *)

history == <<broken, missed>>

vars == <<registered, link, connection, credit, processing, sent, at, targets,
          index, history>>

Names == ToSet(Connections)

Steps == {"running", "closing", "polling", "sleeping", "disconnecting", "done",
          "threw"}

TypeOK ==
  /\ registered \in Seq(Receivers)
  /\ link \in [Receivers -> {"none", "attached", "dead", "closed"}]
  /\ connection \in [Names -> {"open", "down", "closed"}]
  /\ credit \in [Receivers -> Nat]
  /\ processing \in [Receivers -> Nat]
  /\ \A r \in Receivers :
       ConnectionOf[r] \notin broken => credit[r] + processing[r] <= Credits[r]
  /\ sent \in [Receivers -> 0..MaxMessages]
  /\ at \in Steps
  /\ targets \in Seq(Receivers)
  /\ index \in Nat
  /\ missed \subseteq broken /\ broken \subseteq Names

Init ==
  /\ registered = << >>
  /\ link = [r \in Receivers |-> "none"]
  /\ connection = [c \in Names |-> "open"]
  /\ credit = [r \in Receivers |-> 0]
  /\ processing = [r \in Receivers |-> 0]
  /\ sent = [r \in Receivers |-> 0]
  /\ at = "running"
  /\ targets = << >>
  /\ index = 1
  /\ broken = {} /\ missed = {}

-----------------------------------------------------------------------------
(* What goes on around shutdown().                                         *)

IsOpen(c) == connection[c] = "open"

(* listen() has created a receiver: it is attached, gets its credits and   *)
(* goes into the Map.  Nothing stops that during a shutdown.               *)
Register(r) ==
  /\ link[r] = "none"
  /\ IsOpen(ConnectionOf[r])
  /\ link' = [link EXCEPT ![r] = "attached"]
  /\ credit' = [credit EXCEPT ![r] = Credits[r]]
  /\ registered' = Append(registered, r)
  /\ UNCHANGED <<connection, processing, sent, at, targets, index, history>>

Receive(r) ==
  /\ link[r] = "attached"
  /\ IsOpen(ConnectionOf[r])
  /\ credit[r] > 0
  /\ sent[r] < MaxMessages
  /\ credit' = [credit EXCEPT ![r] = @ - 1]
  /\ processing' = [processing EXCEPT ![r] = @ + 1]
  /\ sent' = [sent EXCEPT ![r] = @ + 1]
  /\ UNCHANGED <<registered, link, connection, at, targets, index, history>>

(* Not used: rhea's own credit window renews the credit as well.           *)
SettleAddsTwo(r) ==
  /\ processing[r] > 0
  /\ processing' = [processing EXCEPT ![r] = @ - 1]
  /\ credit' = [credit EXCEPT ![r] = @ + 2]
  /\ UNCHANGED <<registered, link, connection, sent, at, targets, index,
                 history>>

(* A message is settled, and addCredit(1) counts it also on a receiver     *)
(* that is closed.                                                         *)
Settle(r) ==
  /\ processing[r] > 0
  /\ processing' = [processing EXCEPT ![r] = @ - 1]
  /\ credit' = [credit EXCEPT ![r] = @ + 1]
  /\ UNCHANGED <<registered, link, connection, sent, at, targets, index,
                 history>>

(* A connection goes away: it breaks, or the broker closes it.             *)
ConnectionLost(c) ==
  /\ IsOpen(c)
  /\ connection' = [connection EXCEPT ![c] = "down"]
  /\ broken' = broken \cup {c}
  /\ UNCHANGED <<registered, link, credit, processing, sent, at, targets,
                 index, missed>>

ComesBack(c) ==
  /\ connection[c] = "down"
  /\ connection' = [connection EXCEPT ![c] = "open"]
  /\ UNCHANGED <<processing, sent, at, targets, index, history>>

(* rhea has reconnected: the links that nobody closed are attached again,  *)
(* and the receiver_open handler tops their credit up.                     *)
Resumed(c) ==
  /\ ComesBack(c)
  /\ credit' = [r \in Receivers |->
       IF ConnectionOf[r] = c /\ link[r] = "attached" /\ credit[r] < Credits[r]
         THEN Credits[r] ELSE credit[r]]
  /\ UNCHANGED <<registered, link>>

(* The timer of the service has reopened the connection: its links are     *)
(* gone, and the RECONNECT handler clears the Map of all connections.      *)
Reopened(c) ==
  /\ ComesBack(c)
  /\ link' = [r \in Receivers |->
       IF ConnectionOf[r] = c /\ link[r] = "attached" THEN "dead" ELSE link[r]]
  /\ registered' = << >>
  /\ UNCHANGED credit

-----------------------------------------------------------------------------
(* shutdown().                                                             *)

Current == targets[index]

(* Move on to the i-th receiver, or to the connections after the last one. *)
ContinueWith(i, receivers) ==
  IF i <= Len(receivers)
    THEN at' = "closing" /\ index' = i
    ELSE at' = "disconnecting" /\ index' = 1

(* shutdown() is called.                                                   *)
Begin ==
  /\ at = "running"
  /\ targets' = registered
  /\ ContinueWith(1, registered)
  /\ UNCHANGED <<registered, link, connection, credit, processing, sent,
                 history>>

(* receiver.close() resolved: the link is closed, or was not open: then    *)
(* close() does nothing, and rhea will attach the link again with its      *)
(* connection.                                                             *)
CloseSucceeds ==
  /\ at = "closing"
  /\ link' = IF IsOpen(ConnectionOf[Current]) /\ link[Current] = "attached"
                THEN [link EXCEPT ![Current] = "closed"] ELSE link
  /\ at' = "polling"
  /\ UNCHANGED <<registered, connection, credit, processing, sent, targets,
                 index, history>>

(* receiver.close() rejected: shutdown() ends there, with the other        *)
(* receivers and all the connections open.                                 *)
CloseFails ==
  /\ at = "closing"
  /\ at' = "threw"
  /\ UNCHANGED <<registered, link, connection, credit, processing, sent,
                 targets, index, history>>

(* Two forms of the condition that are not used: the receiver in place of  *)
(* its connection, which is never open here, and a negation too many.      *)
MustWaitForOpenLink(r) == link[r] = "attached" /\ credit[r] = 0

MustWaitWhileIdle(r) == IsOpen(ConnectionOf[r]) /\ credit[r] # 0

(* The condition of the while loop.                                        *)
MustWait(r) == IsOpen(ConnectionOf[r]) /\ credit[r] = 0

Poll ==
  /\ at = "polling"
  /\ IF MustWait(Current)
       THEN at' = "sleeping" /\ UNCHANGED index
       ELSE ContinueWith(index + 1, targets)
  /\ UNCHANGED <<registered, link, connection, credit, processing, sent,
                 targets, history>>

Wake ==
  /\ at = "sleeping"
  /\ at' = "polling"
  /\ UNCHANGED <<registered, link, connection, credit, processing, sent,
                 targets, index, history>>

(* close() of a connection: it resolves at once for one that is down.      *)
Close(c) ==
  /\ connection' = IF IsOpen(c) THEN [connection EXCEPT ![c] = "closed"]
                                ELSE connection
  /\ missed' = missed \cup {d \in {c} : connection[d] = "down"}

(* Not used: only the first connection is closed.                          *)
DisconnectFirst ==
  /\ at = "disconnecting"
  /\ Close(Connections[1])
  /\ at' = "done"
  /\ UNCHANGED <<registered, link, credit, processing, sent, targets, index,
                 broken>>

(* disconnect(): the next connection is closed, or all are.                *)
Disconnect ==
  /\ at = "disconnecting"
  /\ IF index <= Len(Connections)
       THEN /\ Close(Connections[index])
            /\ index' = index + 1
            /\ UNCHANGED at
       ELSE at' = "done" /\ UNCHANGED <<connection, index, missed>>
  /\ UNCHANGED <<registered, link, credit, processing, sent, targets, broken>>

(* connection.close() rejected: the connections behind it stay open.       *)
DisconnectFails ==
  /\ at = "disconnecting"
  /\ index <= Len(Connections)
  /\ at' = "threw"
  /\ UNCHANGED <<registered, link, connection, credit, processing, sent,
                 targets, index, history>>

Proceed ==
  \/ CloseSucceeds
  \/ CloseFails
  \/ Poll
  \/ Wake
  \/ Disconnect
  \/ DisconnectFails

Next ==
  \/ \E r \in Receivers : Register(r) \/ Receive(r) \/ Settle(r)
  \/ \E c \in Names : ConnectionLost(c) \/ Resumed(c) \/ Reopened(c)
  \/ Begin
  \/ Proceed

Spec == Init /\ [][Next]_vars

(* Promises settle, timers fire, and handlers come to an end.              *)
FairSpec ==
  /\ Spec
  /\ WF_vars(Proceed)
  /\ \A r \in Receivers : WF_vars(Settle(r))

-----------------------------------------------------------------------------
(* The receivers of the running loop that shutdown() has dealt with.       *)
Finished(r) ==
  CASE at \in {"disconnecting", "done"} -> r \in ToSet(targets)
    [] at \in {"closing", "polling", "sleeping"} ->
         \E i \in 1..(index - 1) : r = targets[i]
    [] OTHER -> FALSE

(* shutdown() "waits for all running processes to complete" (README: Nest  *)
(* "will exit after the processes finished"): once it has moved on from a  *)
(* receiver whose connection did not break, none of the messages that      *)
(* receiver had taken is still being processed, and none arrives any more. *)
Drained ==
  \A r \in Receivers :
    Finished(r) /\ ConnectionOf[r] \notin broken => processing[r] = 0

(* What the loop makes sure of, whatever the number of credits: it leaves  *)
(* a receiver only closed and with fewer messages than credits.  With the  *)
(* default of one credit that is Drained.                                  *)
NeverLeavesFullReceiver ==
  \A r \in Receivers :
    Finished(r) /\ ConnectionOf[r] \notin broken =>
      processing[r] < Credits[r] /\ link[r] = "closed"

(* When shutdown() resolves, every connection is closed, also one that     *)
(* broke and came back meanwhile, and so is every receiver it knew whose   *)
(* connection did not break.  The exception are connections that were down *)
(* when disconnect() came to them: close() does nothing there, and such a  *)
(* connection may be open by now.                                          *)
ClosedWhenDone ==
  at = "done" =>
    /\ \A c \in Names \ missed : connection[c] = "closed"
    /\ \A r \in ToSet(targets) :
         ConnectionOf[r] \notin broken => link[r] = "closed"

(* shutdown() comes to an end when the handlers and the messages do: a     *)
(* receiver that was closed gets none, but the close() of one whose        *)
(* connection was down does nothing, and messages arrive on it again once  *)
(* rhea has reconnected, any number of them but for the bound.             *)
ShutdownEnds == at # "running" ~> at \in {"done", "threw"}

=============================================================================
