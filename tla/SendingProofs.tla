---------------------------- MODULE SendingProofs ---------------------------
(***************************************************************************)
(* Proofs about Sending and Scheduling: the message that a send() composes *)
(* has what its schedule and its caller ask for, and the deliveries of     *)
(* divideMinute are spread over the minute, for every number of them;      *)
(* Sending implements LinkRegistry, so that what is proved there holds     *)
(* under send() as well, a call puts its message on the wire at most once, *)
(* and a dead sender stays in its Map.                                     *)
(***************************************************************************)
EXTENDS Sending, LinkRegistryProofs, FiniteSetTheorems, FunctionTheorems, TLAPS

(* The schedule of a message.                                              *)

LEMMA Positive ==
  ASSUME NEW n \in Divisions, n # 0
  PROVE  n \in Nat /\ n >= 1
<1>1. n \in Nat
  BY SchedulingAssumption
<1> QED
  BY <1>1

-----------------------------------------------------------------------------
(* The deliveries of a minute.                                             *)

LEMMA Division ==
  ASSUME NEW m \in Nat, NEW n \in Nat, n >= 1
  PROVE  /\ m \div n \in Int
         /\ m % n \in 0..(n - 1)
         /\ m = n * (m \div n) + (m % n)
OBVIOUS

(* The period is a positive number of milliseconds, and what n of them     *)
(* leave of the minute is less than a millisecond for each.                *)
LEMMA PeriodBounds ==
  ASSUME NEW n \in 1..Minute
  PROVE  LET p == Minute \div n
         IN  /\ p \in Nat /\ p >= 1
             /\ n * p <= Minute
             /\ Minute - n * p \in 0..(n - 1)
<1> DEFINE p == Minute \div n
           r == Minute % n
<1>1. /\ Minute \in Nat /\ n \in Nat /\ n >= 1 /\ n <= Minute
  BY DEF Minute
<1>2. p \in Int /\ r \in 0..(n - 1) /\ Minute = n * p + r
  BY <1>1, Division
<1> HIDE DEF p, r
<1>3. p >= 1
  <2> SUFFICES ASSUME p <= 0 PROVE FALSE
    BY <1>2
  <2>1. n * p <= 0
    BY <1>1, <1>2
  <2> QED
    BY <1>1, <1>2, <2>1
<1>4. n * p \in Int /\ Minute - n * p = r
  BY <1>1, <1>2
<1>5. /\ p \in Nat /\ n * p <= Minute
      /\ Minute - n * p \in 0..(n - 1)
  BY <1>1, <1>2, <1>3, <1>4
<1> QED
  BY <1>3, <1>5 DEF p

(* The deliveries of a minute are n different times, one for each of       *)
(* 0 .. n - 1, and the last is over before the minute is.                  *)
LEMMA TimesOfAMinute ==
  ASSUME NEW n \in 1..Minute
  PROVE  /\ Cardinality(Times(Every(n))) = n
         /\ \A t \in Times(Every(n)) : t < Minute
<1> DEFINE p == Minute \div n
           T == {i * p : i \in 0..(n - 1)}
           f == [i \in 0..(n - 1) |-> i * p]
<1>1. /\ p \in Nat /\ p >= 1 /\ n * p <= Minute
      /\ n \in Nat /\ n >= 1 /\ Minute \in Nat
  <2>1. /\ n \in Nat /\ n >= 1 /\ Minute \in Nat
    BY DEF Minute
  <2>2. p \in Nat /\ p >= 1 /\ n * p <= Minute
    BY PeriodBounds
  <2> QED
    BY <2>1, <2>2
<1>2. Times(Every(n)) = T
  <2>1. \A i \in 0..(n - 1) : 0 + i * p = i * p
    BY <1>1
  <2>2. Times(Every(n)) = {0 + i * p : i \in 0..(n - 1)}
    BY DEF Times, Every
  <2> QED
    BY <2>1, <2>2
<1> HIDE DEF p
<1>3. \A i, j \in 0..(n - 1) : i < j => i * p < j * p
  <2> SUFFICES ASSUME NEW i \in 0..(n - 1), NEW j \in 0..(n - 1), i < j
               PROVE  i * p < j * p
    OBVIOUS
  <2>1. j * p = i * p + (j - i) * p
    BY <1>1
  <2>2. (j - i) * p >= 1
    BY <1>1
  <2> QED
    BY <1>1, <2>1, <2>2
<1>4. \A i, j \in 0..(n - 1) : i * p = j * p => i = j
  <2> SUFFICES ASSUME NEW i \in 0..(n - 1), NEW j \in 0..(n - 1),
                      i * p = j * p, i # j
               PROVE  FALSE
    OBVIOUS
  <2>1. i * p \in Int /\ (i < j \/ j < i)
    BY <1>1
  <2> QED
    BY <1>3, <2>1
<1>5. f \in Bijection(0..(n - 1), T)
  <2>1. f \in [0..(n - 1) -> T]
    OBVIOUS
  <2>2. \A i, j \in 0..(n - 1) : f[i] = f[j] => i = j
    BY <1>4
  <2>3. \A t \in T : \E i \in 0..(n - 1) : f[i] = t
    OBVIOUS
  <2> HIDE DEF f, T
  <2> QED
    BY <2>1, <2>2, <2>3
       DEF Bijection, Injection, Surjection, IsInjective
<1>6. Cardinality(T) = n
  <2>1. IsFiniteSet(0..(n - 1)) /\ Cardinality(0..(n - 1)) = n
    BY <1>1, FS_Interval
  <2>2. ExistsBijection(0..(n - 1), T)
    BY <1>5 DEF ExistsBijection
  <2> HIDE DEF T
  <2> QED
    BY <2>1, <2>2, FS_Bijection
<1>7. \A t \in T : t < Minute
  <2> SUFFICES ASSUME NEW i \in 0..(n - 1) PROVE i * p < Minute
    OBVIOUS
  <2>1. n * p = i * p + (n - i) * p
    BY <1>1
  <2>2. (n - i) * p >= 1
    BY <1>1
  <2> QED
    BY <1>1, <2>1, <2>2
<1> QED
  BY <1>2, <1>6, <1>7

(* divideMinute gives as many deliveries a minute as it asks for, spread   *)
(* over it as evenly as whole milliseconds allow.                          *)
LEMMA Spread == DivisionsSpread
<1> SUFFICES ASSUME NEW s \in SendSchedule, Divided(s),
                    s.divideMinute <= Minute
             PROVE  EvenlySpread(Message(s, Missing), s.divideMinute)
  BY DEF DivisionsSpread
<1> DEFINE n == s.divideMinute
           m == Message(s, Missing)
<1>1. n \in 1..Minute
  <2>1. n \in Divisions /\ n # 0
    BY DEF SendSchedule, Divided
  <2>2. n \in Nat /\ n >= 1
    BY <2>1, Positive
  <2>3. Minute \in Nat
    BY DEF Minute
  <2> HIDE DEF Minute, n
  <2> QED
    BY <2>2, <2>3 DEF n
<1>2. m = Every(n)
  <2>1. Annotations(s) = Every(n)
    BY DEF Annotations, Divided
  <2> QED
    BY <2>1, SchedulingAssumption DEF Message, Extended
<1>3. Every(n).period = Minute \div n
  BY DEF Every
<1>4. Minute - n * (Minute \div n) \in 0..(n - 1)
  BY <1>1, PeriodBounds
<1> QED
  BY <1>1, <1>2, <1>3, <1>4, TimesOfAMinute DEF EvenlySpread

-----------------------------------------------------------------------------
(* The entries of a schedule's annotations.                                *)
LEMMA AnnotationsGive ==
  ASSUME NEW s \in SendSchedule
  PROVE  /\ DOMAIN Annotations(s) = Entries
         /\ \A k \in Entries :
              Annotations(s)[k] # Missing <=> k \in AskedFor(s)
<1> DEFINE a == Annotations(s)
<1>0. /\ Missing \notin Int /\ Missing # "asGiven" /\ Missing # "everyMinute"
      /\ s.divideMinute \in Divisions \cup {Unset}
      /\ s.afterSeconds \in Delays \cup {Unset}
      /\ s.cron \in BOOLEAN
  BY SchedulingAssumption DEF SendSchedule
<1>1. CASE s.cron
  <2>1. a = [Unscheduled EXCEPT !.cron = "asGiven"] /\ AskedFor(s) = {"cron"}
    BY <1>0, <1>1 DEF Annotations, AskedFor, Divided
  <2>2. DOMAIN a = Entries /\ a["cron"] = "asGiven" /\ a["delay"] = Missing
        /\ a["period"] = Missing /\ a["repeat"] = Missing
    BY <2>1 DEF Unscheduled, Entries
  <2> HIDE DEF a
  <2>3. \A k \in Entries : a[k] # Missing <=> k \in {"cron"}
    BY <1>0, <2>2 DEF Entries
  <2> QED
    BY <2>1, <2>2, <2>3 DEF a
<1>2. CASE Divided(s)
  <2> DEFINE n == s.divideMinute
  <2>1. a = Every(n) /\ AskedFor(s) = Entries
    BY <1>2 DEF Annotations, AskedFor, Divided
  <2>2. n \in Nat /\ n >= 1
    <3>1. n \in Divisions /\ n # 0
      BY <1>0, <1>2 DEF Divided
    <3> QED
      BY <3>1, Positive
  <2>3. DOMAIN a = Entries /\ a["cron"] = "everyMinute" /\ a["delay"] = 0
        /\ a["period"] = Minute \div n /\ a["repeat"] = n - 1
    BY <2>1 DEF Every, Entries
  <2>4. Minute \div n \in Int /\ n - 1 \in Int /\ 0 \in Int
    BY <2>2 DEF Minute
  <2> HIDE DEF a, n
  <2>5. \A k \in Entries : a[k] # Missing
    BY <1>0, <2>3, <2>4 DEF Entries
  <2> QED
    BY <2>1, <2>3, <2>5 DEF a
<1>3. CASE ~s.cron /\ ~Divided(s) /\ s.afterSeconds # Unset
  <2>1. /\ a = [Unscheduled EXCEPT !.delay = 1000 * s.afterSeconds]
        /\ AskedFor(s) = {"delay"}
    BY <1>3 DEF Annotations, AskedFor, Divided
  <2>2. /\ DOMAIN a = Entries /\ a["delay"] = 1000 * s.afterSeconds
        /\ a["cron"] = Missing /\ a["period"] = Missing
        /\ a["repeat"] = Missing
    BY <2>1 DEF Unscheduled, Entries
  <2>3. \A d \in Delays : 1000 * d \in Int
    BY SchedulingAssumption
  <2>4. 1000 * s.afterSeconds \in Int
    <3> DEFINE d == s.afterSeconds
    <3>1. d \in Delays
      BY <1>0, <1>3
    <3> HIDE DEF d
    <3>2. 1000 * d \in Int
      BY <2>3, <3>1
    <3> QED
      BY <3>2 DEF d
  <2> HIDE DEF a
  <2>5. \A k \in Entries : a[k] # Missing <=> k \in {"delay"}
    BY <1>0, <2>2, <2>4 DEF Entries
  <2> QED
    BY <2>1, <2>2, <2>5 DEF a
<1>4. CASE ~s.cron /\ ~Divided(s) /\ s.afterSeconds = Unset
  <2>1. a = Unscheduled /\ AskedFor(s) = {}
    BY <1>4 DEF Annotations, AskedFor, Divided
  <2> QED
    BY <2>1 DEF Unscheduled
<1> QED
  BY <1>1, <1>2, <1>3, <1>4

(* The merge keeps what the schedule and the caller ask for.               *)
LEMMA Merges == MergesFaithful
<1> SUFFICES ASSUME NEW s \in SendSchedule,
                    NEW o \in OwnAnnotations \ {Unset}
             PROVE  Faithful(Message(s, o), s, o)
  BY DEF MergesFaithful
<1> DEFINE a == Annotations(s)
           m == Message(s, o)
<1>1. /\ DOMAIN a = Entries
      /\ \A k \in Entries : a[k] # Missing <=> k \in AskedFor(s)
  BY AnnotationsGive
<1>2. CASE o = Missing
  <2>1. m = a
    BY <1>2 DEF Message, Extended
  <2> HIDE DEF a, m
  <2>2. Faithful(m, s, o)
    BY <1>1, <1>2, <2>1 DEF Faithful, Names
  <2> QED
    BY <2>2 DEF m
<1>3. CASE o # Missing
  <2>1. m = [k \in Entries |-> IF o[k] = Missing THEN a[k] ELSE o[k]]
    BY <1>1, <1>3 DEF Message, Extended
  <2> HIDE DEF a, m
  <2>2. \A k \in Entries :
          IF Names(o, k) THEN m[k] = o[k] ELSE m[k] = a[k]
    BY <1>3, <2>1 DEF Names
  <2>3. Faithful(m, s, o)
    BY <1>1, <2>2 DEF Faithful
  <2> QED
    BY <2>3 DEF m
<1> QED
  BY <1>2, <1>3

-----------------------------------------------------------------------------
(* Whatever send() does is, for the Maps, a step of LinkRegistry or none.  *)
LEMMA SendingStep == [SendingNext]_sending => [Next]_vars
<1> SUFFICES ASSUME [SendingNext]_sending PROVE [Next]_vars
  OBVIOUS
<1>1. CASE UNCHANGED sending
  BY <1>1 DEF sending, vars
<1>2. ASSUME NEW c \in Callers, NEW q \in Queues, Send(c, q) \/ OtherCall(c, q)
      PROVE  [Next]_vars
  BY <1>2 DEF Send, OtherCall, Next
<1>3. ASSUME NEW c \in Callers, Proceed(c) PROVE [Next]_vars
  BY <1>3 DEF Proceed, HasSender, Resolves, SendFails, Next
<1>4. ASSUME NEW c \in Callers, Transfers(c) PROVE [Next]_vars
  BY <1>4 DEF Transfers
<1>5. ASSUME NEW l \in 1..Len(links), PeerCloses(l) PROVE [Next]_vars
  BY <1>5 DEF Next
<1>6. CASE Clear
  BY <1>6 DEF Next
<1> QED
  BY <1>1, <1>2, <1>3, <1>4, <1>5, <1>6 DEF SendingNext

(* send() over the Maps implements LinkRegistry.                           *)
THEOREM SendingImplementsRegistry == SendingSpec => Spec
<1>1. SendingInit => Init
  BY DEF SendingInit
<1> QED
  BY <1>1, SendingStep, PTL DEF SendingSpec, Spec

-----------------------------------------------------------------------------
(* Types, and how often a message goes to the broker.                      *)

SendTypes ==
  /\ stage \in [Callers ->
                  {"none", "linking", "sending", "Success", "Failed", "threw"}]
  /\ queued \in [Callers -> BOOLEAN]
  /\ copies \in [Callers -> Nat]

(* A delivery exists from the moment on at which a call has its sender,    *)
(* and it is in the sender or sent, once.                                  *)
Delivered(c) ==
  /\ queued[c] => copies[c] = 0
  /\ copies[c] <= 1
  /\ stage[c] \in {"none", "linking"} => copies[c] = 0 /\ ~queued[c]
  /\ stage[c] \notin {"none", "linking"} => call[c].at = "returned"
  /\ stage[c] = "sending" => copies[c] = 1 \/ queued[c]
  /\ stage[c] = "sending" => call[c].outcome = "link"
  /\ stage[c] = "Success" => copies[c] = 1
  /\ stage[c] = "threw" /\ call[c].outcome # "link" =>
       copies[c] = 0 /\ ~queued[c]

DeliveryInv == SendTypes /\ \A c \in Callers : Delivered(c)

(* The calls on the Maps answer only the caller that they belong to.       *)
LEMMA CallsApart ==
  ASSUME TypeOK, NEW c \in Callers, NEW e \in Callers \ {c},
         \/ Resume(c)
         \/ \E q \in Queues :
              GetReceiver(c, q) \/ GetSender(c, q) \/ RemoveListener(c, q)
  PROVE  call'[e] = call[e]
BY DEF TypeOK, GetReceiver, GetSender, GetLink, RemoveListener, Resume,
       CreateSucceeds, CreateFails, Wakes, CloseSucceeds, CloseFails, Returns

(* A delivery is not touched by what happens to other callers.             *)
LEMMA DeliveredUntouched ==
  ASSUME NEW e \in Callers, Delivered(e), stage'[e] = stage[e],
         queued'[e] = queued[e], copies'[e] = copies[e], call'[e] = call[e]
  PROVE  Delivered(e)'
BY DEF Delivered

LEMMA DeliveryStep ==
  TypeOK /\ DeliveryInv /\ [SendingNext]_sending => DeliveryInv'
<1> SUFFICES ASSUME TypeOK, DeliveryInv, [SendingNext]_sending
             PROVE  DeliveryInv'
  OBVIOUS
<1> USE DEF DeliveryInv, SendTypes
<1>1. CASE UNCHANGED <<stage, delivery, call>>
  BY <1>1 DEF delivery, Delivered
<1>2. ASSUME NEW c \in Callers, NEW q \in Queues, Send(c, q) \/ OtherCall(c, q)
      PROVE  DeliveryInv'
  <2>1. /\ stage' \in {[stage EXCEPT ![c] = "linking"],
                       [stage EXCEPT ![c] = "none"]}
        /\ queued' = [queued EXCEPT ![c] = FALSE]
        /\ copies' = [copies EXCEPT ![c] = 0]
    BY <1>2 DEF Send, OtherCall, GoesTo, Forgets
  <2>2. SendTypes' /\ Delivered(c)'
    BY <2>1 DEF Delivered
  <2>3. ASSUME NEW e \in Callers \ {c} PROVE Delivered(e)'
    <3>1. call'[e] = call[e]
      BY <1>2, CallsApart DEF Send, OtherCall
    <3> QED
      BY <2>1, <3>1, DeliveredUntouched
  <2> QED
    BY <2>2, <2>3
<1>3. ASSUME NEW c \in Callers, HasSender(c) PROVE DeliveryInv'
  <2>1. PICK sends \in BOOLEAN :
          /\ stage' = [stage EXCEPT ![c] = IF sends THEN "sending" ELSE "threw"]
          /\ queued' = [queued EXCEPT ![c] = sends]
          /\ sends => call[c].outcome = "link"
    BY <1>3 DEF HasSender, GoesTo
  <2>2. stage[c] = "linking" /\ call[c].at = "returned"
        /\ UNCHANGED <<call, copies>>
    BY <1>3 DEF HasSender, vars
  <2>3. SendTypes'
    BY <2>1, <2>2
  <2>4. Delivered(c)'
    BY <2>1, <2>2 DEF Delivered
  <2>5. \A e \in Callers \ {c} : Delivered(e)'
    BY <2>1, <2>2, DeliveredUntouched
  <2> QED
    BY <2>3, <2>4, <2>5
<1>4. ASSUME NEW c \in Callers, Resolves(c) \/ SendFails(c)
      PROVE  DeliveryInv'
  <2>1. /\ stage[c] = "sending"
        /\ UNCHANGED <<call, queued, copies>>
        /\ stage' \in {[stage EXCEPT ![c] = "Success"],
                       [stage EXCEPT ![c] = "Failed"],
                       [stage EXCEPT ![c] = "threw"]}
    BY <1>4 DEF Resolves, SendFails, SendState, GoesTo, vars, delivery
  <2>2. stage'[c] = "Success" => ~queued[c]
    BY <1>4 DEF Resolves, SendFails, SendState, GoesTo
  <2>3. SendTypes'
    BY <2>1
  <2>4. Delivered(c)'
    BY <2>1, <2>2 DEF Delivered
  <2>5. \A e \in Callers \ {c} : Delivered(e)'
    BY <2>1, DeliveredUntouched
  <2> QED
    BY <2>3, <2>4, <2>5
<1>5. ASSUME NEW c \in Callers, Transfers(c) PROVE DeliveryInv'
  <2>1. /\ queued[c] /\ UNCHANGED <<call, stage>>
        /\ queued' = [queued EXCEPT ![c] = FALSE]
        /\ copies' = [copies EXCEPT ![c] = copies[c] + 1]
    BY <1>5 DEF Transfers, vars
  <2>2. copies[c] = 0 /\ copies'[c] = 1
    BY <2>1 DEF Delivered
  <2>3. SendTypes'
    BY <2>1
  <2>4. Delivered(c)'
    BY <2>1, <2>2 DEF Delivered
  <2>5. \A e \in Callers \ {c} : Delivered(e)'
    BY <2>1, DeliveredUntouched
  <2> QED
    BY <2>3, <2>4, <2>5
<1>6. ASSUME NEW c \in Callers, Resume(c), UNCHANGED <<stage, delivery>>
      PROVE  DeliveryInv'
  <2>1. call[c].at # "returned"
    BY <1>6 DEF Resume, CreateSucceeds, CreateFails, Wakes, CloseSucceeds,
                CloseFails
  <2>2. SendTypes' /\ UNCHANGED <<stage, queued, copies>>
    BY <1>6 DEF delivery
  <2>3. Delivered(c)'
    BY <2>1, <2>2 DEF Delivered
  <2>4. ASSUME NEW e \in Callers \ {c} PROVE Delivered(e)'
    <3>1. call'[e] = call[e]
      BY <1>6, CallsApart
    <3> QED
      BY <2>2, <3>1, DeliveredUntouched
  <2> QED
    BY <2>2, <2>3, <2>4
<1>7. ASSUME NEW l \in 1..Len(links), PeerCloses(l) PROVE UNCHANGED call
  BY <1>7 DEF PeerCloses
<1>8. Clear => UNCHANGED call
  BY DEF Clear
<1> QED
  BY <1>1, <1>2, <1>3, <1>4, <1>5, <1>6, <1>7, <1>8
     DEF SendingNext, Proceed, sending, vars

LEMMA DeliveryInvariance == SendingSpec => []DeliveryInv
<1>1. SendingInit => DeliveryInv
  BY DEF SendingInit, DeliveryInv, SendTypes, Delivered
<1> QED
  BY <1>1, DeliveryStep, TypeCorrect, SendingImplementsRegistry, PTL
     DEF SendingSpec

(* Type correctness.                                                       *)
THEOREM SendingTypeCorrect == SendingSpec => []SendingTypeOK
<1>1. TypeOK /\ DeliveryInv => SendingTypeOK
  BY DEF DeliveryInv, SendTypes, SendingTypeOK
<1> QED
  BY <1>1, DeliveryInvariance, SendingImplementsRegistry, TypeCorrect, PTL

(* No retry, no dead sender and no overlap of calls makes a send() put its *)
(* message on the wire twice, or report as sent what was not.              *)
THEOREM SendsOnce == SendingSpec => []OneMessagePerSend
<1>1. DeliveryInv => OneMessagePerSend
  BY DEF DeliveryInv, SendTypes, Delivered, OneMessagePerSend
<1> QED
  BY <1>1, DeliveryInvariance, PTL

-----------------------------------------------------------------------------
(* A dead sender.                                                          *)

LEMMA SenderStaysStep ==
  ASSUME CallInv, MapInv, [Next]_vars, NEW q \in Queues,
         registry["sender"][q] # NoLink
  PROVE  \/ registry'["sender"][q] = registry["sender"][q]
         \/ clears' > clears
         \/ <<"sender", q>> \in overlapped
<1>1. CASE UNCHANGED registry
  BY <1>1
<1>2. ASSUME NEW c \in Callers, CreateSucceeds(c)
      PROVE  \/ registry'["sender"][q] = registry["sender"][q]
             \/ <<"sender", q>> \in overlapped
  <2> DEFINE kind == KindOf(call[c].op)
             p == call[c].queue
  <2>1. /\ kind \in Kinds /\ p \in Queues
        /\ registry' = [registry EXCEPT ![kind][p] = Len(links) + 1]
    BY <1>2, NewLink
  <2>2. CASE kind = "sender" /\ p = q
    <3>1. Pending(c) /\ Subject(c) = <<"sender", q>> /\ call[c].at # "closing"
      BY <1>2, <2>2 DEF CreateSucceeds, Pending, Subject
    <3> QED
      BY <2>2, <3>1 DEF MapInv, MapAsFound
  <2>3. CASE ~(kind = "sender" /\ p = q)
    BY <2>1, <2>3 DEF CallInv, TypeOK, Kinds
  <2> QED
    BY <2>2, <2>3
<1>3. ASSUME NEW c \in Callers, CloseSucceeds(c)
      PROVE  registry'["sender"][q] = registry["sender"][q]
  BY <1>3 DEF CloseSucceeds, CallInv, TypeOK, Kinds
<1>4. CASE Clear
  <2>1. clears' = clears + 1 /\ clears \in Nat
    BY <1>4, RegistryAssumption DEF Clear, EmptyMaps, CallInv, TypeOK
  <2> QED
    BY <2>1
<1> QED
  BY <1>1, <1>2, <1>3, <1>4
     DEF Next, Resume, GetReceiver, GetSender, GetLink, RemoveListener,
         CreateFails, Wakes, CloseFails, PeerCloses, vars

(* No failed send(), retry or removeListener() takes a dead sender out of  *)
(* its Map.                                                                *)
THEOREM DeadSendersStay == SendingSpec => DeadSenderStays
<1>1. CallInv /\ MapInv /\ [Next]_vars =>
        \A q \in Queues :
          LET sender == registry["sender"][q]
          IN  sender # NoLink /\ ~links[sender].open
                => \/ registry'["sender"][q] = sender
                   \/ clears' > clears
                   \/ <<"sender", q>> \in overlapped
  BY SenderStaysStep
<1> QED
  BY <1>1, MapInvariance, SendingImplementsRegistry, SendingStep, PTL
     DEF DeadSenderStays, SendingSpec, Spec

-----------------------------------------------------------------------------
(* divideMinute gives as many deliveries a minute as it asks for, spread   *)
(* over it as evenly as whole milliseconds allow.                          *)
THEOREM SchedulesSpread == SendingSpec => []SpreadOverMinute
<1>1. SpreadOverMinute
  BY Spread DEF SpreadOverMinute
<1> QED
  BY <1>1, PTL

(* No schedule gets lost, whatever annotations the caller adds: only an    *)
(* entry that the caller names is the caller's.                            *)
THEOREM SchedulesKept == SendingSpec => []ScheduleKept
<1>1. ScheduleKept
  BY Merges DEF ScheduleKept
<1> QED
  BY <1>1, PTL

=============================================================================
