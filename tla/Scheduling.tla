----------------------------- MODULE Scheduling ----------------------------
(***************************************************************************)
(* How QueueService.send() composes its message: the annotations by which  *)
(* the broker schedules the delivery, merged with those that the caller    *)
(* gives itself.  No state is kept here; Sending says where the sender     *)
(* comes from and what becomes of the message.                             *)
(***************************************************************************)
EXTENDS Integers, FiniteSets

CONSTANTS
  Missing,      (* the key is not there                                    *)
  Unset,        (* null or undefined                                       *)
  Divisions,    (* the values of schedule.divideMinute                     *)
  Delays,       (* the values of schedule.afterSeconds                     *)
  MaxDelay      (* seconds from now to the last date JavaScript has        *)

ASSUME SchedulingAssumption ==
  /\ Divisions \subseteq Nat /\ Delays \subseteq Nat /\ MaxDelay \in Nat
  /\ \A v \in {Missing, Unset} :
       v \notin Int \cup {"asGiven", "everyMinute", "own"}
  /\ Missing # Unset

Minute == 60000

SendSchedule ==
  [cron : BOOLEAN, divideMinute : Divisions \cup {Unset},
   afterSeconds : Delays \cup {Unset}]

(* The annotations that the scheduler of the broker reads.                 *)
Entries == {"cron", "delay", "period", "repeat"}

Unscheduled == [key \in Entries |-> Missing]

(* What the caller gives as message_annotations: nothing, a null or an     *)
(* undefined, or an object that has some of the entries.                   *)
OwnAnnotations == {Missing, Unset} \cup [Entries -> {Missing, Unset, "own"}]

(* Not used: the period is rounded up.                                     *)
EveryCeil(n) ==
  [cron |-> "everyMinute", delay |-> 0,
   period |-> (Minute + n - 1) \div n, repeat |-> n - 1]

Every(n) ==
  [cron |-> "everyMinute", delay |-> 0,
   period |-> Minute \div n, repeat |-> n - 1]

(* isDefined() accepts 0, the test of divideMinute does not.               *)
Annotations(s) ==
  CASE s.cron -> [Unscheduled EXCEPT !.cron = "asGiven"]
    [] ~s.cron /\ s.divideMinute \notin {Unset, 0} -> Every(s.divideMinute)
    [] ~s.cron /\ s.divideMinute \in {Unset, 0} /\ s.afterSeconds # Unset ->
         [Unscheduled EXCEPT !.delay = 1000 * s.afterSeconds]
    [] OTHER -> Unscheduled

(* Not used: the caller's annotations replace the computed ones as a whole,*)
(* which Object.assign() would do.                                         *)
Assigned(target, source) == IF source = Missing THEN target ELSE source

(* extendObject(): an object of the caller is merged key by key, anything  *)
(* else that is there, a null or an undefined too, replaces its target.    *)
Extended(target, source) ==
  CASE source = Missing -> target
    [] source = Unset -> Unset
    [] OTHER ->
         [key \in DOMAIN target |->
            IF source[key] = Missing THEN target[key] ELSE source[key]]

(* The debug output of afterSeconds converts a date, and throws when there *)
(* is no such date.                                                        *)
Composes(s) ==
  ~(/\ ~s.cron /\ s.divideMinute \in {Unset, 0}
    /\ s.afterSeconds # Unset /\ s.afterSeconds > MaxDelay)

(* Does composing succeed?  Some schedules compose, some may not.          *)
ComposeResults == {Composes(s) : s \in SendSchedule}

(* The annotations of the message of a send() with schedule s and the      *)
(* caller's annotations o.                                                 *)
Message(s, o) == Extended(Annotations(s), o)

-----------------------------------------------------------------------------
(* When the broker delivers, in milliseconds after the start of a minute.  *)
Times(a) == {a.delay + i * a.period : i \in 0..a.repeat}

(* n deliveries in a minute, all of them before the next minute, and the   *)
(* gap to the next minute less than one millisecond per delivery longer    *)
(* than the others.                                                        *)
EvenlySpread(a, n) ==
  /\ Cardinality(Times(a)) = n
  /\ \A t \in Times(a) : t < Minute
  /\ Minute - n * a.period \in 0..(n - 1)

Divided(s) == ~s.cron /\ s.divideMinute \notin {Unset, 0}

(* The annotations that a schedule asks for.                               *)
AskedFor(s) ==
  CASE s.cron -> {"cron"}
    [] Divided(s) -> Entries
    [] ~s.cron /\ ~Divided(s) /\ s.afterSeconds # Unset -> {"delay"}
    [] OTHER -> {}

(* The caller's annotations say something about an entry.                 *)
Names(o, k) == o # Missing /\ o[k] # Missing

(* A message for schedule s and annotations o has, of the entries that the *)
(* caller does not name, exactly those that the schedule asks for; those   *)
(* that the caller names stand.                                            *)
Faithful(m, s, o) ==
  \A k \in Entries :
    IF Names(o, k) THEN m[k] = o[k] ELSE m[k] # Missing <=> k \in AskedFor(s)

(* A minute has 60000 milliseconds to deliver in.                          *)
DivisionsSpread ==
  \A s \in SendSchedule :
    Divided(s) /\ s.divideMinute <= Minute =>
      EvenlySpread(Message(s, Missing), s.divideMinute)

(* Annotations that are null or undefined as a whole are left out: they    *)
(* replace the schedule.                                                   *)
MergesFaithful ==
  \A s \in SendSchedule, o \in OwnAnnotations \ {Unset} :
    Faithful(Message(s, o), s, o)

=============================================================================
