------------------------------ MODULE Sending -----------------------------
(***************************************************************************)
(* QueueService.send() over LinkRegistry: the sender comes from the Map or *)
(* is created, the message is composed (Scheduling looks inside), handed to*)
(* the sender, and the caller hears what became of it.  A caller that is   *)
(* inside send() makes no other call.                                      *)
(***************************************************************************)
EXTENDS LinkRegistry, Scheduling

VARIABLES
  stage,        (* where the last send() of each caller is, or its result  *)
  queued,       (* its delivery waits in the sender, not sent yet          *)
  copies        (* how often its message went to the broker                *)

delivery == <<queued, copies>>

sending == <<vars, stage, delivery>>

-----------------------------------------------------------------------------
SendingInit ==
  /\ Init
  /\ stage = [c \in Callers |-> "none"]
  /\ queued = [c \in Callers |-> FALSE]
  /\ copies = [c \in Callers |-> 0]

SendingTypeOK ==
  /\ TypeOK
  /\ stage \in [Callers ->
                  {"none", "linking", "sending", "Success", "Failed", "threw"}]
  /\ queued \in [Callers -> BOOLEAN]
  /\ copies \in [Callers -> Nat]

Free(c) == stage[c] \notin {"linking", "sending"}

GoesTo(c, s) == stage' = [stage EXCEPT ![c] = s]

(* A caller forgets its last send() when it makes another call.            *)
Forgets(c) ==
  /\ queued' = [queued EXCEPT ![c] = FALSE]
  /\ copies' = [copies EXCEPT ![c] = 0]

Send(c, q) ==
  /\ Free(c)
  /\ GetSender(c, q)
  /\ GoesTo(c, "linking")
  /\ Forgets(c)

(* getSender() is over: send() composes the message and hands it to the    *)
(* sender, or the error goes to the caller.  Composing may throw too.      *)
HasSender(c) ==
  /\ stage[c] = "linking"
  /\ call[c].at = "returned"
  /\ \E composes \in ComposeResults :
       LET sends == call[c].outcome = "link" /\ composes
       IN  /\ GoesTo(c, IF sends THEN "sending" ELSE "threw")
           /\ queued' = [queued EXCEPT ![c] = sends]
  /\ UNCHANGED <<vars, copies>>

Usable(c) == links[call[c].link].open

(* The client library transfers the delivery when the link has credit, be  *)
(* send() still waiting for it or not.                                     *)
Transfers(c) ==
  /\ queued[c] /\ Usable(c)
  /\ queued' = [queued EXCEPT ![c] = FALSE]
  /\ copies' = [copies EXCEPT ![c] = @ + 1]
  /\ UNCHANGED <<vars, stage>>

(* The answer of send() for the delivery it was given.                     *)
SendState(sent, settled) == IF sent \/ settled THEN "Success" ELSE "Failed"

(* The promise of sender.send() resolves.  Of the delivery no more is      *)
(* taken for granted than that nothing is settled before it was sent.      *)
Resolves(c) ==
  /\ stage[c] = "sending"
  /\ LET sent == ~queued[c]
     IN  \E settled \in {FALSE, sent} : GoesTo(c, SendState(sent, settled))
  /\ UNCHANGED <<vars, delivery>>

(* Not used: the message of a failed send() is handed over once more.      *)
SendRetried(c) ==
  /\ stage[c] = "sending"
  /\ queued' = [queued EXCEPT ![c] = TRUE]
  /\ UNCHANGED <<vars, stage, copies>>

(* It rejects when the message is refused, when the link closes and when   *)
(* no answer comes in time, also for a message that was sent or that still *)
(* will be.                                                                *)
SendFails(c) ==
  /\ stage[c] = "sending"
  /\ GoesTo(c, "threw")
  /\ UNCHANGED <<vars, delivery>>

(* The other calls.                                                        *)
OtherCall(c, q) ==
  /\ Free(c)
  /\ GetReceiver(c, q) \/ RemoveListener(c, q)
  /\ GoesTo(c, "none")
  /\ Forgets(c)

(* What the service does by itself for the call that c is in.              *)
Proceed(c) ==
  \/ HasSender(c)
  \/ Resolves(c)
  \/ SendFails(c)
  \/ Resume(c) /\ UNCHANGED <<stage, delivery>>

SendingNext ==
  \/ \E c \in Callers :
       \/ \E q \in Queues : Send(c, q) \/ OtherCall(c, q)
       \/ Proceed(c)
       \/ Transfers(c)
  \/ \E l \in 1..Len(links) : PeerCloses(l) /\ UNCHANGED <<stage, delivery>>
  \/ Clear /\ UNCHANGED <<stage, delivery>>

SendingSpec == SendingInit /\ [][SendingNext]_sending

(* Promises settle; rhea-promise gives up a send that is not answered.     *)
SendingFairSpec ==
  SendingSpec /\ \A c \in Callers : WF_sending(Proceed(c))

-----------------------------------------------------------------------------
(* A call of send() puts its message on the wire at most once, however its *)
(* sender was closed, replaced or shared meanwhile and however often the   *)
(* sender had to be created again: only the link is retried.  A message    *)
(* that is reported as sent went out exactly once; an error leaves it open *)
(* whether the message went out or still will, unless the call got no      *)
(* sender.                                                                 *)
OneMessagePerSend ==
  \A c \in Callers :
    /\ copies[c] + (IF queued[c] THEN 1 ELSE 0) <= 1
    /\ stage[c] = "Success" => copies[c] = 1
    /\ stage[c] = "threw" /\ call[c].outcome # "link" =>
         copies[c] = 0 /\ ~queued[c]

(* A sender that the broker has closed is never looked at: it stays in the *)
(* Map, and send() keeps using it, until a reconnect clears the Map (or an *)
(* overlapping call replaces it).  No failed send, and no removeListener() *)
(* for the same queue, takes it out.                                       *)
DeadSenderStays ==
  [][\A q \in Queues :
       LET sender == registry["sender"][q]
       IN  sender # NoLink /\ ~links[sender].open
             => \/ registry'["sender"][q] = sender
                \/ clears' > clears
                \/ <<"sender", q>> \in overlapped]_sending

(* Every call comes back to its caller: the retries are finite, and a      *)
(* send() over a dead sender ends as well.                                 *)
Busy(c) == call[c].at # "returned" \/ ~Free(c)

EverySendReturns == \A c \in Callers : Busy(c) ~> ~Busy(c)

(* SendSchedule, "Send the message multiple times in a minute given by     *)
(* this number": the deliveries of a message that is being sent are spread *)
(* over the minute, whichever schedule it has (the state does not tell).   *)
(* This needs a period, so at most one delivery per millisecond, and a     *)
(* caller who leaves the annotations alone.                                *)
SpreadOverMinute ==
  \A c \in Callers : stage[c] = "sending" => DivisionsSpread

(* A schedule is never lost by accident, neither when an entry of it is 0  *)
(* (divideMinute 0 counts as not set) nor to other annotations of the      *)
(* caller: a message that is being sent has every entry its schedule asks  *)
(* for and no other, except those that the caller's annotations name, if   *)
(* only as null or undefined, and unless they are null or undefined as a   *)
(* whole.                                                                  *)
ScheduleKept ==
  \A c \in Callers : stage[c] = "sending" => MergesFaithful

=============================================================================
