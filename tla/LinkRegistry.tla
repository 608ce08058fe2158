---------------------------- MODULE LinkRegistry ---------------------------
(***************************************************************************)
(* The two Maps of QueueService, `receivers` and `senders`, and the calls  *)
(* that use them: listen() through getReceiver(), send() through           *)
(* getSender(), removeListener(), and the clearing of both Maps after a    *)
(* reconnect.                                                              *)
(*                                                                         *)
(* JavaScript runs one piece of a call at a time; calls interleave at the  *)
(* awaits.  Here every piece between two awaits is one action: a call is   *)
(* creating a link, sleeping before the next attempt, or closing one, and  *)
(* what it read from a Map before the await may be out of date after it.   *)
(***************************************************************************)
EXTENDS Naturals, Sequences, FiniteSets

CONSTANTS
  Callers,            (* concurrent users of the service                   *)
  Queues,             (* the link tokens `connection:queue`                *)
  MaxRetryAttempts,   (* retryConnection.*.maxRetryAttempts, default 1     *)
  RetryDelay,         (* retryConnection.*.retryDelay, default 0           *)
  MaxLinks,           (* bound: how many links the broker opens            *)
  MaxClears           (* bound: how many reconnects clear the Maps         *)

ASSUME RegistryAssumption ==
  /\ MaxRetryAttempts \in Nat
  /\ RetryDelay \in Nat
  /\ MaxLinks \in Nat
  /\ MaxClears \in Nat

VARIABLES
  registry,   (* registry["receiver"] and registry["sender"]: the Maps     *)
  links,      (* every link the broker has opened, in order                *)
  call,       (* the call each caller is in, or the last one it made       *)
  removals,   (* how often removeListener() returned true, per queue       *)
  overlapped, (* kinds and queues on which two calls were pending at once  *)
  clears      (* how often the Maps were cleared                           *)

vars == <<registry, links, call, removals, overlapped, clears>>

-----------------------------------------------------------------------------
Kinds == {"receiver", "sender"}

NoLink == 0     (* a Map has no entry for the queue                        *)

KindOf(op) == IF op = "send" THEN "sender" ELSE "receiver"

(* There is always one attempt.                                            *)
Attempts == {0, 1} \cup 0..MaxRetryAttempts

(* `attempt` is the counter of the code, `tries` counts the requests that  *)
(* really went out.                                                        *)
Calls ==
  [op : {"none", "listen", "send", "remove"}, queue : Queues,
   at : {"returned", "creating", "sleeping", "closing"},
   attempt : Attempts, tries : Attempts,
   link : 0..MaxLinks,
   outcome : {"pending", "link", "undefined", "threw", "true", "false"}]

TypeOK ==
  /\ registry \in [Kinds -> [Queues -> 0..MaxLinks]]
  /\ links \in Seq([kind : Kinds, queue : Queues, open : BOOLEAN])
  /\ Len(links) <= MaxLinks
  /\ call \in [Callers -> Calls]
  /\ removals \in [Queues -> Nat]
  /\ overlapped \subseteq Kinds \X Queues
  /\ clears \in 0..MaxClears

Idle(q) ==
  [op |-> "none", queue |-> q, at |-> "returned", attempt |-> 0, tries |-> 0,
   link |-> NoLink, outcome |-> "pending"]

Init ==
  /\ registry = [k \in Kinds |-> [q \in Queues |-> NoLink]]
  /\ links = << >>
  /\ \E q \in Queues : call = [c \in Callers |-> Idle(q)]
  /\ removals = [q \in Queues |-> 0]
  /\ overlapped = {}
  /\ clears = 0

-----------------------------------------------------------------------------
(* Map.has(), and a form that the specification does not use, in which the *)
(* look-up before the creation is forgotten.                               *)
HasForgotten(kind, q) == FALSE

Has(kind, q) == registry[kind][q] # NoLink

(* A call comes to its end, and its local variables with it.               *)
Returns(c, outcome, link) ==
  call' = [call EXCEPT ![c] =
             [Idle(@.queue) EXCEPT !.op = call[c].op, !.outcome = outcome,
                                   !.link = link]]

(* Bookkeeping for the properties: is another call on the same kind and    *)
(* queue waiting for the broker while c starts one?                        *)
NoteOverlap(c, kind, q) ==
  overlapped' =
    IF \E other \in Callers \ {c} :
         /\ call[other].at # "returned"
         /\ call[other].queue = q /\ KindOf(call[other].op) = kind
      THEN overlapped \cup {<<kind, q>>}
      ELSE overlapped

(* A call that found no entry and asks the broker for a link.              *)
Creating(op, q) == [Idle(q) EXCEPT !.op = op, !.at = "creating"]

(* listen() and send() look their link up and start to create it when the  *)
(* Map has none.                                                           *)
GetLink(c, op, q) ==
  /\ call[c].at = "returned"
  /\ call' = [call EXCEPT ![c] =
       IF Has(KindOf(op), q)
         THEN [Idle(q) EXCEPT !.op = op, !.link = registry[KindOf(op)][q],
                              !.outcome = "link"]
         ELSE Creating(op, q)]
  /\ NoteOverlap(c, KindOf(op), q)
  /\ UNCHANGED <<registry, links, removals, clears>>

GetReceiver(c, q) == GetLink(c, "listen", q)

GetSender(c, q) == GetLink(c, "send", q)

(* The broker opened the link: it goes into the Map, whatever the Map has  *)
(* become meanwhile.                                                       *)
CreateSucceeds(c) ==
  /\ call[c].at = "creating"
  /\ Len(links) < MaxLinks
  /\ LET new == Len(links) + 1
         q == call[c].queue
         kind == KindOf(call[c].op)
     IN  /\ links' = Append(links, [kind |-> kind, queue |-> q, open |-> TRUE])
         /\ registry' = [registry EXCEPT ![kind][q] = new]
         /\ Returns(c, "link", new)
  /\ UNCHANGED <<removals, overlapped, clears>>

(* When an attempt was the last one, and a form that is not used.          *)
GivesUpTooLate(attempt) == attempt > MaxRetryAttempts

GivesUp(attempt) == attempt >= MaxRetryAttempts

(* The condition of the do-while loop.  A function that leaves the loop    *)
(* this way returns undefined.                                             *)
Loops(attempt) == attempt < MaxRetryAttempts

(* Not used: the attempt is not counted.                                   *)
CreateFailsUncounted(c) ==
  /\ call[c].at = "creating"
  /\ call' = [call EXCEPT ![c].at =
                IF RetryDelay > 0 THEN "sleeping" ELSE "creating"]
  /\ UNCHANGED <<registry, links, removals, overlapped, clears>>

(* Not used: the loop has no limit.                                        *)
CreateFailsForever(c) ==
  /\ call[c].at = "creating"
  /\ call' = [call EXCEPT ![c].attempt = @ + 1, ![c].tries = @ + 1]
  /\ UNCHANGED <<registry, links, removals, overlapped, clears>>

(* The request failed, or there is no connection of that name: the error   *)
(* is thrown when the attempts are used up, else the loop goes round,      *)
(* after a sleep if a delay is configured.                                 *)
CreateFails(c) ==
  /\ call[c].at = "creating"
  /\ LET attempt == call[c].attempt + 1
         next == [call[c] EXCEPT !.attempt = attempt, !.tries = @ + 1]
     IN  call' = [call EXCEPT ![c] =
           IF GivesUp(attempt)
             THEN [next EXCEPT !.at = "returned", !.outcome = "threw"]
           ELSE IF RetryDelay > 0
             THEN [next EXCEPT !.at = "sleeping"]
           ELSE IF Loops(attempt)
             THEN next
             ELSE [next EXCEPT !.at = "returned", !.outcome = "undefined"]]
  /\ UNCHANGED <<registry, links, removals, overlapped, clears>>

(* The sleep is over.                                                      *)
Wakes(c) ==
  /\ call[c].at = "sleeping"
  /\ IF Loops(call[c].attempt)
       THEN call' = [call EXCEPT ![c].at = "creating"]
       ELSE Returns(c, "undefined", NoLink)
  /\ UNCHANGED <<registry, links, removals, overlapped, clears>>

(* removeListener() closes the receiver it finds.                          *)
RemoveListener(c, q) ==
  /\ call[c].at = "returned"
  /\ call' = [call EXCEPT ![c] =
       IF Has("receiver", q)
         THEN [Idle(q) EXCEPT !.op = "remove", !.at = "closing",
                              !.link = registry["receiver"][q]]
         ELSE [Idle(q) EXCEPT !.op = "remove", !.outcome = "false"]]
  /\ NoteOverlap(c, "receiver", q)
  /\ UNCHANGED <<registry, links, removals, clears>>

(* What Map.delete() returns, and the answer of a removeListener() that    *)
(* would not ask it, which is not used.                                    *)
DeletedAnyway(q) == TRUE

Deleted(q) == Has("receiver", q)

(* Not used: the sender of the queue is forgotten as well.                 *)
CloseSucceedsBothMaps(c) ==
  /\ call[c].at = "closing"
  /\ LET q == call[c].queue
     IN  /\ links' = [links EXCEPT ![call[c].link].open = FALSE]
         /\ registry' = [k \in Kinds |-> [registry[k] EXCEPT ![q] = NoLink]]
         /\ Returns(c, IF Deleted(q) THEN "true" ELSE "false", NoLink)
         /\ removals' =
              [removals EXCEPT ![q] = IF Deleted(q) THEN @ + 1 ELSE @]
  /\ UNCHANGED <<overlapped, clears>>

(* close() resolved: removeListener() deletes the entry of the queue,      *)
(* which may be another link's by now.                                     *)
CloseSucceeds(c) ==
  /\ call[c].at = "closing"
  /\ LET q == call[c].queue
     IN  /\ links' = [links EXCEPT ![call[c].link].open = FALSE]
         /\ registry' = [registry EXCEPT !["receiver"][q] = NoLink]
         /\ Returns(c, IF Deleted(q) THEN "true" ELSE "false", NoLink)
         /\ removals' =
              [removals EXCEPT ![q] = IF Deleted(q) THEN @ + 1 ELSE @]
  /\ UNCHANGED <<overlapped, clears>>

(* close() rejected: the entry stays.                                      *)
CloseFails(c) ==
  /\ call[c].at = "closing"
  /\ Returns(c, "threw", NoLink)
  /\ UNCHANGED <<registry, links, removals, overlapped, clears>>

(* The broker closes a link: the close events are only logged, so the Maps *)
(* keep their entry.                                                       *)
PeerCloses(l) ==
  /\ links[l].open
  /\ links' = [links EXCEPT ![l].open = FALSE]
  /\ UNCHANGED <<registry, call, removals, overlapped, clears>>

(* clearSenderAndReceiverLinks(): no link is closed.                       *)
EmptyMaps ==
  /\ clears < MaxClears
  /\ registry' = [k \in Kinds |-> [q \in Queues |-> NoLink]]
  /\ clears' = clears + 1

Clear == EmptyMaps /\ UNCHANGED <<links, call, removals, overlapped>>

-----------------------------------------------------------------------------
(* A pending request to the broker, or a timer, of c comes to an answer.   *)
Resume(c) ==
  \/ CreateSucceeds(c)
  \/ CreateFails(c)
  \/ Wakes(c)
  \/ CloseSucceeds(c)
  \/ CloseFails(c)

Next ==
  \/ \E c \in Callers :
       \/ \E q \in Queues :
            GetReceiver(c, q) \/ GetSender(c, q) \/ RemoveListener(c, q)
       \/ Resume(c)
  \/ \E l \in 1..Len(links) : PeerCloses(l)
  \/ Clear

Spec == Init /\ [][Next]_vars

-----------------------------------------------------------------------------
OpenLinks(kind, q) ==
  {l \in 1..Len(links) :
     links[l].kind = kind /\ links[l].queue = q /\ links[l].open}

(* An open link is one that the service can still find, and so close and   *)
(* reuse, unless calls for the same queue overlapped or a reconnect        *)
(* cleared the Maps: failing attempts, failing removals and links closed   *)
(* by the broker never leave an orphan, which would take messages from the *)
(* queue for ever, nor a second link.                                      *)
OrphansNeedOverlap ==
  \A k \in Kinds, q \in Queues :
    <<k, q>> \notin overlapped /\ clears = 0 =>
      OpenLinks(k, q) \subseteq {registry[k][q]}

(* An error of getReceiver() or getSender() reaches the caller only after  *)
(* exactly the configured number of requests (one, if 0 is configured),    *)
(* and the do-while loop never ends with `undefined`.                      *)
AllAttemptsMade ==
  \A c \in Callers :
    /\ call[c].outcome # "undefined"
    /\ call[c].op \in {"listen", "send"} /\ call[c].outcome = "threw" =>
         call[c].tries = IF MaxRetryAttempts = 0 THEN 1 ELSE MaxRetryAttempts

(* However many removals of a listener overlap, each receiver is reported  *)
(* as removed at most once.                                                *)
RemovedAtMostOnce ==
  \A q \in Queues :
    removals[q] <=
      Cardinality({l \in 1..Len(links) :
                     links[l].kind = "receiver" /\ links[l].queue = q})

=============================================================================
