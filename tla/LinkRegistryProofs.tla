------------------------- MODULE LinkRegistryProofs ------------------------
(***************************************************************************)
(* Proofs about LinkRegistry, for any number of callers, queues, attempts  *)
(* and links.  Three invariants, each on top of the one before: what a     *)
(* single call may look like, what a pending call may rely on in the Maps, *)
(* and how often a removal has been reported.                              *)
(***************************************************************************)
EXTENDS LinkRegistry, FiniteSetTheorems, TLAPS

(* One call: the counter of the loop has passed no limit while the call is *)
(* pending, and if it ended in an error all attempts were made.            *)
GoodCall(r) ==
  /\ r \in Calls
  /\ r.at \in {"creating", "sleeping"} =>
       r.op \in {"listen", "send"} /\ r.tries = r.attempt
  /\ r.at = "creating" => r.attempt = 0 \/ r.attempt < MaxRetryAttempts
  /\ r.at = "sleeping" => r.attempt < MaxRetryAttempts
  /\ r.at = "closing" => r.op = "remove"
  /\ r.outcome # "undefined"
  /\ r.op \in {"listen", "send"} /\ r.outcome = "threw" =>
       r.tries = IF MaxRetryAttempts = 0 THEN 1 ELSE MaxRetryAttempts

CallInv == TypeOK /\ \A c \in Callers : GoodCall(call[c])

-----------------------------------------------------------------------------
(* Types and single calls.                                                 *)

LEMMA IdleType == ASSUME NEW q \in Queues PROVE Idle(q) \in Calls
  BY RegistryAssumption DEF Idle, Calls, Attempts, NoLink

(* A step that replaces the call of one caller by a good one.              *)
LEMMA OneCall ==
  ASSUME CallInv, NEW c \in Callers, NEW new,
         GoodCall(new), call' = [call EXCEPT ![c] = new]
  PROVE  /\ call' \in [Callers -> Calls]
         /\ \A d \in Callers : GoodCall(call'[d])
         /\ call'[c] = new
         /\ \A d \in Callers \ {c} : call'[d] = call[d]
  BY DEF CallInv, TypeOK, GoodCall

(* What a call that has come to its end looks like.                        *)
LEMMA ReturnedCall ==
  ASSUME CallInv, NEW c \in Callers, NEW link \in 0..MaxLinks,
         NEW outcome \in {"link", "true", "false", "threw"},
         outcome = "threw" => call[c].op = "remove",
         Returns(c, outcome, link)
  PROVE  \E new : /\ call' = [call EXCEPT ![c] = new]
                  /\ GoodCall(new)
                  /\ new.at = "returned"
<1> DEFINE new == [Idle(call[c].queue) EXCEPT !.op = call[c].op,
                     !.outcome = outcome, !.link = link]
<1>1. call[c] \in Calls
  BY DEF CallInv, GoodCall
<1>2. Idle(call[c].queue) \in Calls
  BY <1>1, IdleType DEF Calls
<1>3. /\ new \in Calls /\ new.at = "returned"
      /\ new.op = call[c].op /\ new.outcome = outcome
  BY <1>1, <1>2 DEF Calls, Idle
<1>4. GoodCall(new)
  BY <1>3 DEF GoodCall
<1>5. call' = [call EXCEPT ![c] = new]
  BY DEF Returns, CallInv, TypeOK
<1> QED
  BY <1>3, <1>4, <1>5

LEMMA GetLinkCall ==
  ASSUME CallInv, NEW c \in Callers, NEW q \in Queues,
         NEW op \in {"listen", "send"}, GetLink(c, op, q)
  PROVE  \E new : /\ call' = [call EXCEPT ![c] = new]
                  /\ GoodCall(new)
                  /\ new.queue = q /\ new.op = op
                  /\ \/ new.at = "returned"
                     \/ /\ new.at = "creating"
                        /\ registry[KindOf(op)][q] = NoLink
<1>1. Idle(q) \in Calls
  BY IdleType
<1>2. CASE Has(KindOf(op), q)
  <2> DEFINE new == [Idle(q) EXCEPT !.op = op,
                       !.link = registry[KindOf(op)][q], !.outcome = "link"]
  <2>1. registry[KindOf(op)][q] \in 0..MaxLinks
    BY DEF CallInv, TypeOK, KindOf, Kinds
  <2>2. /\ new \in Calls /\ new.at = "returned" /\ new.op = op
        /\ new.queue = q /\ new.outcome = "link"
    BY <1>1, <2>1 DEF Idle, Calls
  <2>3. GoodCall(new)
    BY <2>2 DEF GoodCall
  <2>4. call' = [call EXCEPT ![c] = new]
    BY <1>2 DEF GetLink
  <2> QED
    BY <2>2, <2>3, <2>4
<1>3. CASE ~Has(KindOf(op), q)
  <2> DEFINE new == Creating(op, q)
  <2>1. /\ new \in Calls /\ new.at = "creating" /\ new.op = op
        /\ new.queue = q /\ new.outcome = "pending"
        /\ new.attempt = 0 /\ new.tries = 0
    BY <1>1 DEF Creating, Idle, Calls
  <2>2. GoodCall(new)
    BY <2>1 DEF GoodCall
  <2>3. call' = [call EXCEPT ![c] = new]
    BY <1>3 DEF GetLink
  <2> QED
    BY <1>3, <2>1, <2>2, <2>3 DEF Has
<1> QED
  BY <1>2, <1>3

LEMMA RemoveCall ==
  ASSUME CallInv, NEW c \in Callers, NEW q \in Queues, RemoveListener(c, q)
  PROVE  \E new : /\ call' = [call EXCEPT ![c] = new]
                  /\ GoodCall(new)
                  /\ new.queue = q /\ new.op = "remove"
                  /\ \/ new.at = "returned"
                     \/ /\ new.at = "closing"
                        /\ new.link = registry["receiver"][q]
<1>1. Idle(q) \in Calls
  BY IdleType
<1>2. CASE Has("receiver", q)
  <2> DEFINE new == [Idle(q) EXCEPT !.op = "remove", !.at = "closing",
                       !.link = registry["receiver"][q]]
  <2>1. registry["receiver"][q] \in 0..MaxLinks
    BY DEF CallInv, TypeOK, Kinds
  <2>2. /\ new \in Calls /\ new.at = "closing" /\ new.op = "remove"
        /\ new.queue = q /\ new.outcome = "pending"
        /\ new.link = registry["receiver"][q]
    BY <1>1, <2>1 DEF Idle, Calls
  <2>3. GoodCall(new)
    BY <2>2 DEF GoodCall
  <2>4. call' = [call EXCEPT ![c] = new]
    BY <1>2 DEF RemoveListener
  <2> QED
    BY <2>2, <2>3, <2>4
<1>3. CASE ~Has("receiver", q)
  <2> DEFINE new == [Idle(q) EXCEPT !.op = "remove", !.outcome = "false"]
  <2>1. /\ new \in Calls /\ new.at = "returned" /\ new.op = "remove"
        /\ new.queue = q /\ new.outcome = "false"
    BY <1>1 DEF Idle, Calls
  <2>2. GoodCall(new)
    BY <2>1 DEF GoodCall
  <2>3. call' = [call EXCEPT ![c] = new]
    BY <1>3 DEF RemoveListener
  <2> QED
    BY <2>1, <2>2, <2>3
<1> QED
  BY <1>2, <1>3

(* A failed attempt: the call goes on within its limit, or has used it up. *)
LEMMA CreateFailsCall ==
  ASSUME CallInv, NEW c \in Callers, CreateFails(c)
  PROVE  \E new : /\ call' = [call EXCEPT ![c] = new]
                  /\ GoodCall(new)
                  /\ new.queue = call[c].queue /\ new.op = call[c].op
                  /\ new.at \in {"returned", "creating", "sleeping"}
<1> DEFINE attempt == call[c].attempt + 1
           next == [call[c] EXCEPT !.attempt = attempt,
                                   !.tries = call[c].tries + 1]
<1>1. /\ call[c] \in Calls /\ call[c].at = "creating"
      /\ call[c].op \in {"listen", "send"}
      /\ call[c].tries = call[c].attempt
      /\ call[c].attempt = 0 \/ call[c].attempt < MaxRetryAttempts
      /\ call[c].outcome # "undefined"
  BY DEF CallInv, GoodCall, CreateFails
<1>2. call[c].attempt \in Nat /\ MaxRetryAttempts \in Nat
  BY <1>1, RegistryAssumption DEF Calls, Attempts
<1>3. attempt \in Attempts /\ call[c].tries + 1 = attempt
  BY <1>1, <1>2 DEF Attempts
<1>4. /\ next \in Calls /\ next.at = "creating" /\ next.op = call[c].op
      /\ next.queue = call[c].queue /\ next.outcome = call[c].outcome
      /\ next.attempt = attempt /\ next.tries = attempt
  BY <1>1, <1>3 DEF Calls
<1>5. CASE GivesUp(attempt)
  <2> DEFINE new == [next EXCEPT !.at = "returned", !.outcome = "threw"]
  <2>1. /\ new \in Calls /\ new.at = "returned" /\ new.op = call[c].op
        /\ new.queue = call[c].queue /\ new.outcome = "threw"
        /\ new.tries = attempt
    BY <1>4 DEF Calls
  <2>2. attempt = IF MaxRetryAttempts = 0 THEN 1 ELSE MaxRetryAttempts
    BY <1>1, <1>2, <1>5 DEF GivesUp
  <2>3. GoodCall(new)
    BY <2>1, <2>2 DEF GoodCall
  <2>4. call' = [call EXCEPT ![c] = new]
    BY <1>5 DEF CreateFails
  <2> QED
    BY <2>1, <2>3, <2>4
<1>6. CASE ~GivesUp(attempt)
  <2>1. attempt < MaxRetryAttempts
    BY <1>2, <1>6 DEF GivesUp
  <2>2. CASE RetryDelay > 0
    <3> DEFINE new == [next EXCEPT !.at = "sleeping"]
    <3>1. /\ new \in Calls /\ new.at = "sleeping" /\ new.op = call[c].op
          /\ new.queue = call[c].queue /\ new.outcome = call[c].outcome
          /\ new.attempt = attempt /\ new.tries = attempt
      BY <1>4 DEF Calls
    <3>2. call[c].outcome = "threw" => FALSE
      BY <1>1, <1>2 DEF CallInv, GoodCall
    <3>3. GoodCall(new)
      BY <1>1, <2>1, <3>1, <3>2 DEF GoodCall
    <3>4. call' = [call EXCEPT ![c] = new]
      BY <1>6, <2>2 DEF CreateFails
    <3> QED
      BY <3>1, <3>3, <3>4
  <2>3. CASE ~(RetryDelay > 0)
    <3>1. call' = [call EXCEPT ![c] = next]
      BY <1>6, <2>1, <2>3 DEF CreateFails, Loops
    <3>2. call[c].outcome = "threw" => FALSE
      BY <1>1, <1>2 DEF CallInv, GoodCall
    <3>3. GoodCall(next)
      BY <1>1, <1>4, <2>1, <3>2 DEF GoodCall
    <3> QED
      BY <1>4, <3>1, <3>3
  <2> QED
    BY <2>2, <2>3
<1> QED
  BY <1>5, <1>6

(* The sleep ends with the next attempt: there is one left.                *)
LEMMA WakesCall ==
  ASSUME CallInv, NEW c \in Callers, Wakes(c)
  PROVE  \E new : /\ call' = [call EXCEPT ![c] = new]
                  /\ GoodCall(new)
                  /\ new.queue = call[c].queue /\ new.op = call[c].op
                  /\ new.at = "creating"
<1> DEFINE new == [call[c] EXCEPT !.at = "creating"]
<1>1. /\ call[c] \in Calls /\ call[c].at = "sleeping"
      /\ call[c].op \in {"listen", "send"}
      /\ call[c].tries = call[c].attempt
      /\ call[c].attempt < MaxRetryAttempts
      /\ GoodCall(call[c])
  BY DEF CallInv, GoodCall, Wakes
<1>2. /\ new \in Calls /\ new.at = "creating" /\ new.op = call[c].op
      /\ new.queue = call[c].queue /\ new.outcome = call[c].outcome
      /\ new.attempt = call[c].attempt /\ new.tries = call[c].tries
  BY <1>1 DEF Calls
<1>3. GoodCall(new)
  BY <1>1, <1>2 DEF GoodCall
<1>4. call' = [call EXCEPT ![c] = new]
  BY <1>1 DEF Wakes, Loops
<1> QED
  BY <1>2, <1>3, <1>4

Link == [kind : Kinds, queue : Queues, open : BOOLEAN]

(* Closing a link changes nothing else about the links.                    *)
LEMMA ClosedLinks ==
  ASSUME links \in Seq(Link), NEW l,
         links' = [links EXCEPT ![l].open = FALSE]
  PROVE  /\ links' \in Seq(Link) /\ Len(links') = Len(links)
         /\ \A i \in 1..Len(links) :
              /\ links'[i].kind = links[i].kind
              /\ links'[i].queue = links[i].queue
              /\ links'[i].open <=> links[i].open /\ i # l
<1>1. CASE l \in 1..Len(links)
  <2>1. links[l] \in Link
    BY <1>1
  <2>2. [links[l] EXCEPT !.open = FALSE] \in Link
    BY <2>1 DEF Link
  <2>3. /\ [links[l] EXCEPT !.open = FALSE].kind = links[l].kind
        /\ [links[l] EXCEPT !.open = FALSE].queue = links[l].queue
        /\ [links[l] EXCEPT !.open = FALSE].open = FALSE
    BY <2>1 DEF Link
  <2> QED
    BY <1>1, <2>2, <2>3
<1>2. CASE l \notin 1..Len(links)
  <2>1. links' = links
    BY <1>2
  <2> QED
    BY <1>2, <2>1
<1> QED
  BY <1>1, <1>2

LEMMA CallInit == Init => CallInv
<1> SUFFICES ASSUME Init PROVE CallInv
  OBVIOUS
<1>1. PICK q \in Queues : call = [c \in Callers |-> Idle(q)]
  BY DEF Init
<1>2. Idle(q) \in Calls /\ GoodCall(Idle(q))
  BY IdleType DEF GoodCall, Idle
<1>3. TypeOK
  BY <1>1, <1>2, RegistryAssumption DEF Init, TypeOK, NoLink
<1> QED
  BY <1>1, <1>2, <1>3 DEF CallInv

(* A new link is known to its Map at once.                                 *)
LEMMA NewLink ==
  ASSUME CallInv, NEW c \in Callers, CreateSucceeds(c)
  PROVE  LET new == Len(links) + 1
             q == call[c].queue
             kind == KindOf(call[c].op)
         IN  /\ new \in 1..MaxLinks /\ q \in Queues /\ kind \in Kinds
             /\ links' \in Seq(Link) /\ Len(links') = new
             /\ \A i \in 1..Len(links) : links'[i] = links[i]
             /\ links'[new] = [kind |-> kind, queue |-> q, open |-> TRUE]
             /\ registry' = [registry EXCEPT ![kind][q] = new]
             /\ registry' \in [Kinds -> [Queues -> 0..MaxLinks]]
             /\ Returns(c, "link", new)
<1> DEFINE new == Len(links) + 1
           q == call[c].queue
           kind == KindOf(call[c].op)
<1>1. links \in Seq(Link) /\ Len(links) < MaxLinks /\ MaxLinks \in Nat
  BY RegistryAssumption DEF CallInv, TypeOK, Link, CreateSucceeds
<1>2. new \in 1..MaxLinks /\ q \in Queues /\ kind \in Kinds
  BY <1>1 DEF CallInv, GoodCall, Calls, KindOf, Kinds
<1>3. [kind |-> kind, queue |-> q, open |-> TRUE] \in Link
  BY <1>2 DEF Link
<1>4. links' = Append(links, [kind |-> kind, queue |-> q, open |-> TRUE])
  BY DEF CreateSucceeds
<1>5. /\ links' \in Seq(Link) /\ Len(links') = new
      /\ \A i \in 1..Len(links) : links'[i] = links[i]
      /\ links'[new] = [kind |-> kind, queue |-> q, open |-> TRUE]
  BY <1>1, <1>3, <1>4
<1>6. registry' = [registry EXCEPT ![kind][q] = new] /\ Returns(c, "link", new)
  BY DEF CreateSucceeds
<1>7. registry' \in [Kinds -> [Queues -> 0..MaxLinks]]
  BY <1>2, <1>6 DEF CallInv, TypeOK
<1> QED
  BY <1>2, <1>5, <1>6, <1>7

LEMMA CallStep == CallInv /\ [Next]_vars => CallInv'
<1> SUFFICES ASSUME CallInv, [Next]_vars PROVE CallInv'
  OBVIOUS
<1>0. TypeOK /\ \A c \in Callers : GoodCall(call[c])
  BY DEF CallInv
<1>1. CASE UNCHANGED vars
  BY <1>0, <1>1 DEF vars, CallInv, TypeOK
<1>2. ASSUME NEW c \in Callers, NEW q \in Queues,
             GetReceiver(c, q) \/ GetSender(c, q) \/ RemoveListener(c, q)
      PROVE  CallInv'
  <2>1. \E new : call' = [call EXCEPT ![c] = new] /\ GoodCall(new)
    BY <1>2, GetLinkCall, RemoveCall DEF GetReceiver, GetSender
  <2>2. call' \in [Callers -> Calls] /\ \A d \in Callers : GoodCall(call'[d])
    BY <2>1, OneCall
  <2>3. UNCHANGED <<registry, links, removals, clears>>
        /\ overlapped' \subseteq Kinds \X Queues
    BY <1>0, <1>2
       DEF GetReceiver, GetSender, GetLink, RemoveListener, NoteOverlap,
           KindOf, Kinds, TypeOK
  <2> QED
    BY <1>0, <2>2, <2>3 DEF CallInv, TypeOK
<1>3. ASSUME NEW c \in Callers, CreateSucceeds(c) PROVE CallInv'
  <2>1. /\ links' \in Seq(Link) /\ Len(links') = Len(links) + 1
        /\ Len(links) + 1 \in 1..MaxLinks
        /\ registry' \in [Kinds -> [Queues -> 0..MaxLinks]]
        /\ Returns(c, "link", Len(links) + 1)
    BY <1>3, NewLink
  <2>2. call' \in [Callers -> Calls] /\ \A d \in Callers : GoodCall(call'[d])
    BY <2>1, ReturnedCall, OneCall
  <2> QED
    BY <1>0, <1>3, <2>1, <2>2 DEF CreateSucceeds, CallInv, TypeOK, Link
<1>4. ASSUME NEW c \in Callers, CreateFails(c) \/ Wakes(c) PROVE CallInv'
  <2>1. call' \in [Callers -> Calls] /\ \A d \in Callers : GoodCall(call'[d])
    BY <1>4, CreateFailsCall, WakesCall, OneCall
  <2>2. UNCHANGED <<registry, links, removals, overlapped, clears>>
    BY <1>4 DEF CreateFails, Wakes
  <2> QED
    BY <1>0, <2>1, <2>2 DEF CallInv, TypeOK
<1>5. ASSUME NEW c \in Callers, CloseSucceeds(c) PROVE CallInv'
  <2>1. /\ links' \in Seq(Link) /\ Len(links') = Len(links)
    BY <1>0, <1>5, ClosedLinks DEF CloseSucceeds, TypeOK, Link
  <2>2. \E outcome \in {"true", "false"} : Returns(c, outcome, NoLink)
    BY <1>5 DEF CloseSucceeds
  <2>3. NoLink \in 0..MaxLinks
    BY RegistryAssumption DEF NoLink
  <2>4. call' \in [Callers -> Calls] /\ \A d \in Callers : GoodCall(call'[d])
    BY <2>2, <2>3, ReturnedCall, OneCall
  <2>5. registry' \in [Kinds -> [Queues -> 0..MaxLinks]]
    BY <1>0, <1>5, <2>3 DEF CloseSucceeds, TypeOK
  <2>6. removals' \in [Queues -> Nat]
    <3>1. \E n \in {removals[call[c].queue], removals[call[c].queue] + 1} :
            removals' = [removals EXCEPT ![call[c].queue] = n]
      BY <1>5 DEF CloseSucceeds
    <3>2. call[c].queue \in Queues
      BY <1>0 DEF GoodCall, Calls
    <3> QED
      BY <1>0, <3>1, <3>2 DEF TypeOK
  <2> QED
    BY <1>0, <1>5, <2>1, <2>4, <2>5, <2>6
       DEF CloseSucceeds, CallInv, TypeOK, Link
<1>6. ASSUME NEW c \in Callers, CloseFails(c) PROVE CallInv'
  <2>1. NoLink \in 0..MaxLinks /\ Returns(c, "threw", NoLink)
        /\ call[c].op = "remove"
    BY <1>0, <1>6, RegistryAssumption DEF CloseFails, GoodCall, NoLink
  <2>2. call' \in [Callers -> Calls] /\ \A d \in Callers : GoodCall(call'[d])
    BY <2>1, ReturnedCall, OneCall
  <2> QED
    BY <1>0, <1>6, <2>2 DEF CloseFails, CallInv, TypeOK
<1>7. ASSUME NEW l \in 1..Len(links), PeerCloses(l) PROVE CallInv'
  <2>1. /\ links' \in Seq(Link) /\ Len(links') = Len(links)
    BY <1>0, <1>7, ClosedLinks DEF PeerCloses, TypeOK, Link
  <2> QED
    BY <1>0, <1>7, <2>1 DEF PeerCloses, CallInv, TypeOK, Link
<1>8. CASE Clear
  <2>1. registry' \in [Kinds -> [Queues -> 0..MaxLinks]] /\ clears' \in 0..MaxClears
    BY <1>0, <1>8, RegistryAssumption DEF Clear, EmptyMaps, TypeOK, NoLink
  <2> QED
    BY <1>0, <1>8, <2>1 DEF Clear, CallInv, TypeOK
<1> QED
  BY <1>1, <1>2, <1>3, <1>4, <1>5, <1>6, <1>7, <1>8 DEF Next, Resume

(* Type correctness.                                                       *)
THEOREM TypeCorrect == Spec => []TypeOK
<1>1. CallInv => TypeOK
  BY DEF CallInv
<1> QED
  BY <1>1, CallInit, CallStep, PTL DEF Spec

(* An error reaches the caller after exactly the configured attempts, and  *)
(* no call ends without a result.                                          *)
THEOREM RetriesAreExact == Spec => []AllAttemptsMade
<1>1. CallInv => AllAttemptsMade
  BY DEF CallInv, GoodCall, AllAttemptsMade
<1> QED
  BY <1>1, CallInit, CallStep, PTL DEF Spec

-----------------------------------------------------------------------------
(* What a pending call may rely on.                                        *)

Pending(c) == call[c].at # "returned"

Subject(c) == <<KindOf(call[c].op), call[c].queue>>

(* Without overlaps the Map still is what the call found; for a removal,   *)
(* unless a reconnect has cleared it.                                      *)
MapAsFound ==
  \A c \in Callers :
    Pending(c) /\ Subject(c) \notin overlapped =>
      LET entry == registry[KindOf(call[c].op)][call[c].queue]
      IN  IF call[c].at = "closing" THEN clears = 0 => entry = call[c].link
                                    ELSE entry = NoLink

OverlapsNoted ==
  \A c, d \in Callers :
    c # d /\ Pending(c) /\ Pending(d) /\ Subject(c) = Subject(d) =>
      Subject(c) \in overlapped

MapInv == MapAsFound /\ OverlapsNoted /\ OrphansNeedOverlap

(* A step in which the call of one caller goes on, or ends, and nothing    *)
(* else changes but links that close.                                      *)
LEMMA CallGoesOn ==
  ASSUME CallInv, MapInv, NEW c \in Callers, NEW new,
         call' = [call EXCEPT ![c] = new],
         UNCHANGED <<registry, links, overlapped, clears>>,
         \/ new.at = "returned"
         \/ /\ new.at \in {"creating", "sleeping"}
            /\ call[c].at \in {"creating", "sleeping"}
            /\ new.op = call[c].op /\ new.queue = call[c].queue
  PROVE  MapInv'
<1>1. call'[c] = new /\ \A d \in Callers \ {c} : call'[d] = call[d]
  BY DEF CallInv, TypeOK
<1>2. MapAsFound'
  BY <1>1 DEF MapInv, MapAsFound, Pending, Subject
<1>3. OverlapsNoted'
  BY <1>1 DEF MapInv, OverlapsNoted, Pending, Subject
<1>4. OrphansNeedOverlap'
  BY DEF MapInv, OrphansNeedOverlap, OpenLinks
<1> QED
  BY <1>2, <1>3, <1>4 DEF MapInv

(* A call begins: if another one on the same kind and queue is pending,    *)
(* that is noted.                                                          *)
LEMMA CallBegins ==
  ASSUME CallInv, MapInv, NEW c \in Callers, NEW kind, NEW q, NEW new,
         call' = [call EXCEPT ![c] = new], NoteOverlap(c, kind, q),
         UNCHANGED <<registry, links, clears>>,
         new.queue = q, KindOf(new.op) = kind,
         \/ new.at = "returned"
         \/ new.at = "creating" /\ registry[kind][q] = NoLink
         \/ new.at = "closing" /\ registry[kind][q] = new.link
  PROVE  MapInv'
<1>1. call'[c] = new /\ \A d \in Callers \ {c} : call'[d] = call[d]
  BY DEF CallInv, TypeOK
<1>2. /\ overlapped \subseteq overlapped'
      /\ \A d \in Callers \ {c} :
           Pending(d) /\ Subject(d) = <<kind, q>> => <<kind, q>> \in overlapped'
  BY DEF NoteOverlap, Pending, Subject
<1>3. MapAsFound'
  BY <1>1, <1>2 DEF MapInv, MapAsFound, Pending, Subject
<1>4. OverlapsNoted'
  BY <1>1, <1>2 DEF MapInv, OverlapsNoted, Pending, Subject
<1>5. OrphansNeedOverlap'
  BY <1>2 DEF MapInv, OrphansNeedOverlap, OpenLinks
<1> QED
  BY <1>3, <1>4, <1>5 DEF MapInv

LEMMA CreateSucceedsKeepsMaps ==
  ASSUME CallInv, MapInv, NEW c \in Callers, CreateSucceeds(c)
  PROVE  MapInv'
<1> DEFINE fresh == Len(links) + 1
           q == call[c].queue
           kind == KindOf(call[c].op)
<1>0. /\ fresh \in 1..MaxLinks /\ q \in Queues /\ kind \in Kinds
      /\ Len(links') = fresh
      /\ \A i \in 1..Len(links) : links'[i] = links[i]
      /\ links'[fresh] = [kind |-> kind, queue |-> q, open |-> TRUE]
      /\ registry' = [registry EXCEPT ![kind][q] = fresh]
      /\ Returns(c, "link", fresh)
  BY NewLink
<1>1. Len(links) \in Nat /\ UNCHANGED <<overlapped, clears>>
  BY DEF CreateSucceeds, CallInv, TypeOK
<1>2. PICK new : call' = [call EXCEPT ![c] = new] /\ new.at = "returned"
  <2>1. fresh \in 0..MaxLinks
    BY <1>0
  <2> QED
    BY <1>0, <2>1, ReturnedCall
<1>3. call'[c] = new /\ \A d \in Callers \ {c} : call'[d] = call[d]
  BY <1>2 DEF CallInv, TypeOK
<1>4. Pending(c) /\ Subject(c) = <<kind, q>>
  BY DEF CreateSucceeds, Pending, Subject
<1>5. \A k \in Kinds, p \in Queues :
        registry'[k][p] = IF k = kind /\ p = q THEN fresh ELSE registry[k][p]
  BY <1>0 DEF CallInv, TypeOK
<1>6. OverlapsNoted'
  BY <1>1, <1>2, <1>3 DEF MapInv, OverlapsNoted, Pending, Subject
<1>7. MapAsFound'
  <2> SUFFICES ASSUME NEW d \in Callers, Pending(d)',
                      Subject(d)' \notin overlapped'
               PROVE  LET entry ==
                            registry'[KindOf(call'[d].op)][call'[d].queue]
                      IN  IF call'[d].at = "closing"
                            THEN clears' = 0 => entry = call'[d].link
                            ELSE entry = NoLink
    BY DEF MapAsFound, Pending, Subject
  <2>1. d # c /\ call'[d] = call[d]
    BY <1>2, <1>3 DEF Pending
  <2>2. Pending(d) /\ Subject(d) \notin overlapped
    BY <1>1, <2>1 DEF Pending, Subject
  <2>3. Subject(d) # <<kind, q>>
    BY <1>4, <2>1, <2>2 DEF MapInv, OverlapsNoted
  <2>4. KindOf(call[d].op) \in Kinds /\ call[d].queue \in Queues
    BY DEF CallInv, GoodCall, Calls, KindOf, Kinds
  <2>5. registry'[KindOf(call[d].op)][call[d].queue]
          = registry[KindOf(call[d].op)][call[d].queue]
    BY <1>5, <2>3, <2>4 DEF Subject
  <2> QED
    BY <1>1, <2>1, <2>2, <2>5 DEF MapInv, MapAsFound
<1>8. OrphansNeedOverlap'
  <2> SUFFICES ASSUME NEW k \in Kinds, NEW p \in Queues,
                      <<k, p>> \notin overlapped, clears = 0,
                      NEW l \in OpenLinks(k, p)'
               PROVE  l = registry'[k][p]
    BY <1>1 DEF OrphansNeedOverlap
  <2>1. /\ l \in 1..fresh /\ links'[l].kind = k /\ links'[l].queue = p
        /\ links'[l].open
    BY <1>0 DEF OpenLinks
  <2>2. CASE l = fresh
    BY <1>0, <1>5, <2>1, <2>2
  <2>3. CASE l # fresh
    <3>1. l \in OpenLinks(k, p)
      BY <1>0, <1>1, <2>1, <2>3 DEF OpenLinks
    <3>2. l = registry[k][p] /\ l # NoLink
      BY <1>0, <1>1, <2>1, <3>1 DEF MapInv, OrphansNeedOverlap, NoLink
    <3>3. ~(k = kind /\ p = q)
      BY <1>4, <3>2 DEF MapInv, MapAsFound, CreateSucceeds
    <3> QED
      BY <1>5, <3>2, <3>3
  <2> QED
    BY <2>2, <2>3
<1> QED
  BY <1>6, <1>7, <1>8 DEF MapInv

LEMMA CloseSucceedsKeepsMaps ==
  ASSUME CallInv, MapInv, NEW c \in Callers, CloseSucceeds(c)
  PROVE  MapInv'
<1> DEFINE q == call[c].queue
           gone == call[c].link
<1>1. /\ q \in Queues /\ call[c].op = "remove" /\ KindOf("remove") = "receiver"
      /\ Pending(c) /\ Subject(c) = <<"receiver", q>>
      /\ UNCHANGED <<overlapped, clears>>
  BY DEF CallInv, GoodCall, Calls, CloseSucceeds, KindOf, Pending, Subject
<1>2. /\ Len(links') = Len(links)
      /\ \A i \in 1..Len(links) :
           /\ links'[i].kind = links[i].kind /\ links'[i].queue = links[i].queue
           /\ links'[i].open <=> links[i].open /\ i # gone
  BY ClosedLinks DEF CloseSucceeds, CallInv, TypeOK, Link
<1>3. PICK new : call' = [call EXCEPT ![c] = new] /\ new.at = "returned"
  BY ReturnedCall, RegistryAssumption DEF CloseSucceeds, NoLink
<1>4. call'[c] = new /\ \A d \in Callers \ {c} : call'[d] = call[d]
  BY <1>3 DEF CallInv, TypeOK
<1>5. \A k \in Kinds, p \in Queues :
        registry'[k][p] = IF k = "receiver" /\ p = q THEN NoLink
                                                    ELSE registry[k][p]
  BY <1>1 DEF CloseSucceeds, CallInv, TypeOK
<1>6. OverlapsNoted'
  BY <1>1, <1>3, <1>4 DEF MapInv, OverlapsNoted, Pending, Subject
<1>7. MapAsFound'
  <2> SUFFICES ASSUME NEW d \in Callers, Pending(d)',
                      Subject(d)' \notin overlapped'
               PROVE  LET entry ==
                            registry'[KindOf(call'[d].op)][call'[d].queue]
                      IN  IF call'[d].at = "closing"
                            THEN clears' = 0 => entry = call'[d].link
                            ELSE entry = NoLink
    BY DEF MapAsFound, Pending, Subject
  <2>1. d # c /\ call'[d] = call[d]
    BY <1>3, <1>4 DEF Pending
  <2>2. Pending(d) /\ Subject(d) \notin overlapped
    BY <1>1, <2>1 DEF Pending, Subject
  <2>3. Subject(d) # <<"receiver", q>>
    BY <1>1, <2>1, <2>2 DEF MapInv, OverlapsNoted
  <2>4. KindOf(call[d].op) \in Kinds /\ call[d].queue \in Queues
    BY DEF CallInv, GoodCall, Calls, KindOf, Kinds
  <2>5. registry'[KindOf(call[d].op)][call[d].queue]
          = registry[KindOf(call[d].op)][call[d].queue]
    BY <1>5, <2>3, <2>4 DEF Subject
  <2> QED
    BY <1>1, <2>1, <2>2, <2>5 DEF MapInv, MapAsFound
<1>8. OrphansNeedOverlap'
  <2> SUFFICES ASSUME NEW k \in Kinds, NEW p \in Queues,
                      <<k, p>> \notin overlapped, clears = 0,
                      NEW l \in OpenLinks(k, p)'
               PROVE  l = registry'[k][p]
    BY <1>1 DEF OrphansNeedOverlap
  <2>1. l \in OpenLinks(k, p) /\ l # gone
    BY <1>2 DEF OpenLinks
  <2>2. l = registry[k][p]
    BY <2>1 DEF MapInv, OrphansNeedOverlap
  <2>3. ~(k = "receiver" /\ p = q)
    BY <1>1, <2>1, <2>2 DEF MapInv, MapAsFound, CloseSucceeds
  <2> QED
    BY <1>5, <2>2, <2>3
<1> QED
  BY <1>6, <1>7, <1>8 DEF MapInv

LEMMA MapStep == CallInv /\ MapInv /\ [Next]_vars => MapInv'
<1> SUFFICES ASSUME CallInv, MapInv, [Next]_vars PROVE MapInv'
  OBVIOUS
<1>1. CASE UNCHANGED vars
  BY <1>1
     DEF vars, MapInv, MapAsFound, OverlapsNoted, OrphansNeedOverlap,
         OpenLinks, Pending, Subject
<1>2. ASSUME NEW c \in Callers, NEW q \in Queues, NEW op \in {"listen", "send"},
             GetLink(c, op, q)
      PROVE  MapInv'
  <2>1. /\ NoteOverlap(c, KindOf(op), q)
        /\ UNCHANGED <<registry, links, clears>>
    BY <1>2 DEF GetLink
  <2> QED
    BY <1>2, <2>1, GetLinkCall, CallBegins
<1>3. ASSUME NEW c \in Callers, NEW q \in Queues, RemoveListener(c, q)
      PROVE  MapInv'
  <2>1. /\ NoteOverlap(c, "receiver", q) /\ KindOf("remove") = "receiver"
        /\ UNCHANGED <<registry, links, clears>>
    BY <1>3 DEF RemoveListener, KindOf
  <2> QED
    BY <1>3, <2>1, RemoveCall, CallBegins
<1>4. ASSUME NEW c \in Callers, CreateFails(c) \/ Wakes(c) PROVE MapInv'
  <2>1. /\ UNCHANGED <<registry, links, overlapped, clears>>
        /\ call[c].at \in {"creating", "sleeping"}
    BY <1>4 DEF CreateFails, Wakes
  <2> QED
    BY <1>4, <2>1, CreateFailsCall, WakesCall, CallGoesOn
<1>5. ASSUME NEW c \in Callers, CloseFails(c) PROVE MapInv'
  <2>1. /\ Returns(c, "threw", NoLink) /\ call[c].op = "remove"
        /\ NoLink \in 0..MaxLinks
        /\ UNCHANGED <<registry, links, overlapped, clears>>
    BY <1>5, RegistryAssumption DEF CloseFails, CallInv, GoodCall, NoLink
  <2> QED
    BY <2>1, ReturnedCall, CallGoesOn
<1>6. ASSUME NEW l \in 1..Len(links), PeerCloses(l) PROVE MapInv'
  <2>1. UNCHANGED <<registry, call, overlapped, clears>>
    BY <1>6 DEF PeerCloses
  <2>2. \A k \in Kinds, q \in Queues : OpenLinks(k, q)' \subseteq OpenLinks(k, q)
    BY <1>6, ClosedLinks DEF PeerCloses, OpenLinks, CallInv, TypeOK, Link
  <2> QED
    BY <2>1, <2>2
       DEF MapInv, MapAsFound, OverlapsNoted, OrphansNeedOverlap, Pending,
           Subject
<1>7. CASE Clear
  <2>1. clears' # 0 /\ UNCHANGED <<call, overlapped>>
    BY <1>7, RegistryAssumption DEF Clear, EmptyMaps, CallInv, TypeOK
  <2>2. \A c \in Callers :
          registry'[KindOf(call[c].op)][call[c].queue] = NoLink
    BY <1>7 DEF Clear, EmptyMaps, CallInv, GoodCall, Calls, KindOf, Kinds
  <2> QED
    BY <2>1, <2>2
       DEF MapInv, MapAsFound, OverlapsNoted, OrphansNeedOverlap, Pending,
           Subject
<1> QED
  BY <1>1, <1>2, <1>3, <1>4, <1>5, <1>6, <1>7, CreateSucceedsKeepsMaps,
     CloseSucceedsKeepsMaps DEF Next, Resume, GetReceiver, GetSender

LEMMA MapInvariance == Spec => [](CallInv /\ MapInv)
<1>1. Init => MapInv
  BY DEF Init, MapInv, MapAsFound, OverlapsNoted, OrphansNeedOverlap,
         OpenLinks, Pending, Idle
<1> QED
  BY <1>1, CallInit, CallStep, MapStep, PTL DEF Spec

(* Without overlapping calls and reconnects no open link is ever unknown   *)
(* to the service, and no queue has two of a kind.                         *)
THEOREM NoOrphansOtherwise == Spec => []OrphansNeedOverlap
<1>1. MapInv => OrphansNeedOverlap
  BY DEF MapInv
<1> QED
  BY <1>1, MapInvariance, PTL

-----------------------------------------------------------------------------
(* Removals.                                                               *)

ReceiversOf(q) ==
  {l \in 1..Len(links) : links[l].kind = "receiver" /\ links[l].queue = q}

Known(q) == IF registry["receiver"][q] = NoLink THEN 0 ELSE 1

(* A removal that is reported takes an entry out of the Map, and an entry  *)
(* gets there only with a new receiver.                                    *)
RemovalsCounted ==
  \A q \in Queues : removals[q] + Known(q) <= Cardinality(ReceiversOf(q))

LEMMA ReceiversFinite ==
  ASSUME CallInv, NEW q
  PROVE  IsFiniteSet(ReceiversOf(q)) /\ Cardinality(ReceiversOf(q)) \in Nat
<1>1. IsFiniteSet(1..Len(links))
  BY FS_Interval DEF CallInv, TypeOK
<1>2. ReceiversOf(q) \subseteq 1..Len(links)
  BY DEF ReceiversOf
<1>3. IsFiniteSet(ReceiversOf(q))
  BY <1>1, <1>2, FS_Subset
<1> QED
  BY <1>3, FS_CardinalityType

LEMMA RemovalStep == CallInv /\ RemovalsCounted /\ [Next]_vars => RemovalsCounted'
<1> SUFFICES ASSUME CallInv, RemovalsCounted, [Next]_vars
             PROVE  RemovalsCounted'
  OBVIOUS
<1>0. /\ removals \in [Queues -> Nat]
      /\ \A q \in Queues : Cardinality(ReceiversOf(q)) \in Nat
  BY ReceiversFinite DEF CallInv, TypeOK
<1>1. CASE UNCHANGED <<registry, links, removals>>
  BY <1>1 DEF RemovalsCounted, Known, ReceiversOf
<1>2. ASSUME NEW c \in Callers, CreateSucceeds(c) PROVE RemovalsCounted'
  <2> DEFINE fresh == Len(links) + 1
             p == call[c].queue
             kind == KindOf(call[c].op)
  <2>1. /\ kind \in Kinds /\ p \in Queues /\ fresh \in 1..MaxLinks
        /\ Len(links') = fresh
        /\ \A i \in 1..Len(links) : links'[i] = links[i]
        /\ links'[fresh] = [kind |-> kind, queue |-> p, open |-> TRUE]
        /\ registry' = [registry EXCEPT ![kind][p] = fresh]
    BY <1>2, NewLink
  <2>2. removals' = removals /\ Len(links) \in Nat
    BY <1>2 DEF CreateSucceeds, CallInv, TypeOK
  <2> SUFFICES ASSUME NEW q \in Queues
               PROVE  removals[q] + Known(q)' <= Cardinality(ReceiversOf(q)')
    BY <2>2 DEF RemovalsCounted
  <2>3. CASE kind = "receiver" /\ q = p
    <3>1. ReceiversOf(q)' = ReceiversOf(q) \cup {fresh}
      BY <2>1, <2>2, <2>3 DEF ReceiversOf
    <3>2. fresh \notin ReceiversOf(q)
      BY <2>2 DEF ReceiversOf
    <3>3. Cardinality(ReceiversOf(q)') = Cardinality(ReceiversOf(q)) + 1
      BY <3>1, <3>2, ReceiversFinite, FS_AddElement
    <3>4. Known(q) \in Nat /\ Known(q)' \in {0, 1}
      BY DEF Known
    <3> QED
      BY <1>0, <3>3, <3>4 DEF RemovalsCounted
  <2>4. CASE ~(kind = "receiver" /\ q = p)
    <3>1. ReceiversOf(q)' = ReceiversOf(q)
      BY <2>1, <2>2, <2>4 DEF ReceiversOf
    <3>2. registry'["receiver"][q] = registry["receiver"][q]
      BY <2>1, <2>4 DEF CallInv, TypeOK, Kinds
    <3> QED
      BY <3>1, <3>2 DEF RemovalsCounted, Known
  <2> QED
    BY <2>3, <2>4
<1>3. ASSUME NEW c \in Callers, CloseSucceeds(c) PROVE RemovalsCounted'
  <2> DEFINE p == call[c].queue
  <2>1. /\ Len(links') = Len(links)
        /\ \A i \in 1..Len(links) :
             links'[i].kind = links[i].kind /\ links'[i].queue = links[i].queue
    BY <1>3, ClosedLinks DEF CloseSucceeds, CallInv, TypeOK, Link
  <2>2. \A q \in Queues : ReceiversOf(q)' = ReceiversOf(q)
    BY <2>1 DEF ReceiversOf
  <2>3. \A q \in Queues :
          registry'["receiver"][q] =
            IF q = p THEN NoLink ELSE registry["receiver"][q]
    BY <1>3 DEF CloseSucceeds, CallInv, TypeOK, Kinds
  <2>4. removals' = [removals EXCEPT ![p] = removals[p] + Known(p)]
    <3>1. CASE registry["receiver"][p] = NoLink
      <4>1. ~Deleted(p)
        BY <3>1 DEF Deleted, Has
      <4>2. removals' = removals
        BY <1>0, <1>3, <4>1 DEF CloseSucceeds
      <4> QED
        BY <1>0, <3>1, <4>2 DEF Known
    <3>2. CASE registry["receiver"][p] # NoLink
      <4>1. Deleted(p)
        BY <3>2 DEF Deleted, Has
      <4> QED
        BY <1>3, <3>2, <4>1 DEF CloseSucceeds, Known
    <3> QED
      BY <3>1, <3>2
  <2>5. \A q \in Queues : Known(q) \in {0, 1}
    BY DEF Known
  <2>6. ASSUME NEW q \in Queues
        PROVE  removals'[q] + Known(q)' = removals[q] + Known(q)
    BY <1>0, <2>3, <2>4, <2>5 DEF Known
  <2> QED
    BY <2>2, <2>6 DEF RemovalsCounted
<1>4. ASSUME NEW l \in 1..Len(links), PeerCloses(l) PROVE RemovalsCounted'
  <2>1. /\ Len(links') = Len(links) /\ UNCHANGED <<registry, removals>>
        /\ \A i \in 1..Len(links) :
             links'[i].kind = links[i].kind /\ links'[i].queue = links[i].queue
    BY <1>4, ClosedLinks DEF PeerCloses, CallInv, TypeOK, Link
  <2>2. \A q \in Queues : ReceiversOf(q)' = ReceiversOf(q)
    BY <2>1 DEF ReceiversOf
  <2> QED
    BY <2>1, <2>2 DEF RemovalsCounted, Known
<1>5. CASE Clear
  <2>1. /\ UNCHANGED <<links, removals>>
        /\ \A q \in Queues : registry'["receiver"][q] = NoLink
    BY <1>5 DEF Clear, EmptyMaps, Kinds
  <2>2. \A q \in Queues : Known(q) \in {0, 1} /\ Known(q)' = 0
    BY <2>1 DEF Known
  <2> QED
    BY <1>0, <2>1, <2>2 DEF RemovalsCounted, ReceiversOf
<1>6. ASSUME NEW c \in Callers,
             CreateFails(c) \/ Wakes(c) \/ CloseFails(c)
      PROVE  RemovalsCounted'
  BY <1>1, <1>6 DEF CreateFails, Wakes, CloseFails
<1>7. ASSUME NEW c \in Callers, NEW q \in Queues,
             GetReceiver(c, q) \/ GetSender(c, q) \/ RemoveListener(c, q)
      PROVE  RemovalsCounted'
  BY <1>1, <1>7 DEF GetReceiver, GetSender, GetLink, RemoveListener
<1> QED
  BY <1>1, <1>2, <1>3, <1>4, <1>5, <1>6, <1>7 DEF Next, Resume, vars

(* No receiver is reported as removed twice, however removals overlap with *)
(* each other, with new listeners and with reconnects.                     *)
THEOREM RemovalsAreReal == Spec => []RemovedAtMostOnce
<1>1. Init => RemovalsCounted
  <2> SUFFICES ASSUME Init PROVE RemovalsCounted
    OBVIOUS
  <2>1. CallInv
    BY CallInit
  <2>2. \A q \in Queues :
          /\ removals[q] = 0 /\ Known(q) = 0
          /\ Cardinality(ReceiversOf(q)) \in Nat
    BY <2>1, ReceiversFinite DEF Init, Known, Kinds
  <2> QED
    BY <2>2 DEF RemovalsCounted
<1>2. CallInv /\ RemovalsCounted => RemovedAtMostOnce
  <2> SUFFICES ASSUME CallInv, RemovalsCounted, NEW q \in Queues
               PROVE  removals[q] <= Cardinality(ReceiversOf(q))
    BY DEF RemovedAtMostOnce, ReceiversOf
  <2>1. /\ removals[q] \in Nat /\ Known(q) \in {0, 1}
        /\ Cardinality(ReceiversOf(q)) \in Nat
    BY ReceiversFinite DEF CallInv, TypeOK, Known
  <2> QED
    BY <2>1 DEF RemovalsCounted
<1> QED
  BY <1>1, <1>2, CallInit, CallStep, RemovalStep, PTL DEF Spec

=============================================================================
