------------------------------ MODULE Webhooks ------------------------------
(***************************************************************************)
(* server/webhooks.go, for one target, and the part of server/audit.go     *)
(* that feeds it.  Requests number their event and then hand it to the     *)
(* target's bounded queue, without waiting; one worker per target takes    *)
(* events off the queue and posts each of them up to webhookAttempts       *)
(* times.  Targets share nothing but the events.                           *)
(***************************************************************************)
EXTENDS Integers, Sequences

CONSTANTS
    Loggers,            \* requests that log an event
    webhookQueueSize,
    webhookAttempts,
    MaxSeq,             \* bound: events numbered
    MaxUnnumbered       \* bound: events logged while the counter is unavailable

ASSUME WebhookConstants ==
    /\ webhookQueueSize \in Nat \ {0} /\ webhookAttempts \in Nat \ {0}
    /\ MaxSeq \in Nat /\ MaxUnnumbered \in Nat

Nothing == -1

VARIABLES
    seq,        \* the audit counter
    num,        \* num[w]: event of logger w that is not yet sent, or Nothing;
                \* 0 is an event that got no number
    queue,      \* the target's channel
    event,      \* the event the worker has, or Nothing
    attempt,    \* number of the attempt it makes next
    asleep,     \* is it waiting between two attempts?
    unnumbered, \* number of events 0
    line,       \* ghost: every event accepted, in order
    settled,    \* ghost: how many of them the worker is done with
    processed,  \* ghost: events the receiver has processed
    missed      \* ghost: wanted events that were dropped or given up

vars == <<seq, num, queue, event, attempt, asleep, unnumbered, line, settled,
          processed, missed>>
worker == <<event, attempt, asleep, settled, processed>>

Init ==
    /\ seq = 0 /\ num = [w \in Loggers |-> Nothing]
    /\ queue = <<>> /\ event = Nothing /\ attempt = 1 /\ asleep = FALSE
    /\ unnumbered = 0
    /\ line = <<>> /\ settled = 0 /\ processed = {} /\ missed = {}

(* Handle: record numbers the event, or fails to; it is sent all the same. *)
Record(w) ==
    /\ num[w] = Nothing
    /\ \/ /\ seq < MaxSeq /\ seq' = seq + 1
          /\ num' = [num EXCEPT ![w] = seq + 1]
          /\ UNCHANGED unnumbered
       \/ /\ unnumbered < MaxUnnumbered /\ unnumbered' = unnumbered + 1
          /\ num' = [num EXCEPT ![w] = 0]
          /\ UNCHANGED seq
    /\ UNCHANGED <<queue, worker, line, missed>>

(* send: an event the target does not want is skipped; a full queue drops  *)
(* the event.                                                              *)
Send(w) ==
    /\ num[w] # Nothing
    /\ num' = [num EXCEPT ![w] = Nothing]
    /\ \/ UNCHANGED <<queue, line, missed>>
       \/ /\ Len(queue) < webhookQueueSize
          /\ queue' = Append(queue, num[w]) /\ line' = Append(line, num[w])
          /\ UNCHANGED missed
       \/ /\ Len(queue) = webhookQueueSize
          /\ missed' = missed \cup {num[w]}
          /\ UNCHANGED <<queue, line>>
    /\ UNCHANGED <<seq, unnumbered, worker>>

(* run: take the next event.                                               *)
Take ==
    /\ event = Nothing /\ queue # <<>>
    /\ event' = Head(queue) /\ queue' = Tail(queue)
    /\ attempt' = 1
    /\ UNCHANGED <<seq, num, asleep, unnumbered, line, settled, processed, missed>>

Settle == event' = Nothing /\ attempt' = 1 /\ settled' = settled + 1

(* post answers 2xx.                                                       *)
PostOK ==
    /\ event # Nothing /\ ~asleep
    /\ processed' = processed \cup {event}
    /\ Settle
    /\ UNCHANGED <<seq, num, queue, asleep, unnumbered, line, missed>>

LastAttempt == attempt = webhookAttempts

(* Mutant: a failed event goes to the end of the queue.                    *)
PostFailsRequeue ==
    /\ event # Nothing /\ ~asleep
    /\ Len(queue) < webhookQueueSize
    /\ queue' = Append(queue, event)
    /\ event' = Nothing
    /\ UNCHANGED <<seq, num, attempt, asleep, unnumbered, line, settled, processed, missed>>

(* post fails: another status, no connection, or the timeout - after which *)
(* the receiver may have processed the event nevertheless.                 *)
PostFails ==
    /\ event # Nothing /\ ~asleep
    /\ processed' \in {processed, processed \cup {event}}
    /\ IF LastAttempt
         THEN /\ Settle
              /\ missed' = missed \cup {event}
              /\ UNCHANGED asleep
         ELSE /\ asleep' = TRUE
              /\ UNCHANGED <<event, attempt, settled, missed>>
    /\ UNCHANGED <<seq, num, queue, unnumbered, line>>

(* Mutant: the attempt is not counted.                                     *)
WakeSameAttempt ==
    /\ asleep /\ asleep' = FALSE
    /\ UNCHANGED <<seq, num, queue, event, attempt, unnumbered, line, settled, processed,
                   missed>>

(* The end of the backoff.                                                 *)
Wake ==
    /\ asleep /\ asleep' = FALSE
    /\ attempt' = attempt + 1
    /\ UNCHANGED <<seq, num, queue, event, unnumbered, line, settled, processed, missed>>

Run == Take \/ PostOK \/ PostFails \/ Wake

Next == (\E w \in Loggers : Record(w) \/ Send(w)) \/ Run

Spec == Init /\ [][Next]_vars

(* The worker goroutine is scheduled, a post ends after webhookTimeout at  *)
(* the latest, a backoff after at most two seconds.  Nothing is assumed    *)
(* about the receiver: every post may fail.                                *)
FairSpec == Spec /\ WF_vars(Run)

-----------------------------------------------------------------------------
Numbers == 0..MaxSeq

(* Types: the queue never exceeds webhookQueueSize, and attempts are       *)
(* counted from 1 to webhookAttempts (webhooks.go).                        *)
TypeOK ==
    /\ seq \in Numbers /\ num \in [Loggers -> Numbers \cup {Nothing}]
    /\ queue \in Seq(Numbers) /\ Len(queue) <= webhookQueueSize
    /\ event \in Numbers \cup {Nothing}
    /\ attempt \in 1..webhookAttempts /\ asleep \in BOOLEAN
    /\ unnumbered \in 0..MaxUnnumbered
    /\ line \in Seq(Numbers) /\ settled \in 0..Len(line)
    /\ processed \in SUBSET Numbers /\ missed \in SUBSET Numbers

(* The events still to be settled are, in order, the one in hand and those *)
(* queued: no retry lets an event overtake another or loses one.           *)
NoneLostOrOvertaken ==
    SubSeq(line, settled + 1, Len(line)) =
        (IF event = Nothing THEN <<>> ELSE <<event>>) \o queue

(* Every event accepted is settled at last, delivered or given up, however *)
(* the receiver behaves: a dead one does not stop the worker.              *)
EverySettled ==
    \A n \in 1..(MaxSeq + MaxUnnumbered) :
        Len(line) >= n ~> settled >= n

-----------------------------------------------------------------------------
(* What docs and comments say and the code does not keep; the README tells *)
(* how each statement fails.                                               *)

(* "to catch up on missed events, read the events API from the last `seq`  *)
(* you processed" (docs/guides/webhooks-api.md:52-53): an event that was   *)
(* not processed, and has a number, comes after the last one processed.    *)
CatchUpFindsMissed ==
    \A s \in missed \ (processed \cup {0}), t \in processed : s > t
=============================================================================
