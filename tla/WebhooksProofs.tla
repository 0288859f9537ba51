--------------------------- MODULE WebhooksProofs ---------------------------
(***************************************************************************)
(* Proofs about Webhooks, for any number of requests, any queue size and   *)
(* any number of attempts: the types, and that the worker neither loses an *)
(* accepted event nor lets one overtake another.                           *)
(*                                                                         *)
(* NoneLostOrOvertaken equates two sequences; the proof carries it         *)
(* position by position (LineInv), and goes back to the sequences at the   *)
(* end.  The types depend on it: that settled never exceeds the events     *)
(* accepted is known only because what the worker holds is one of them.    *)
(* AttemptInv is what keeps the attempts within webhookAttempts: a backoff *)
(* follows only an attempt that was not the last.                          *)
(*                                                                         *)
(* The second half of the module is about ExpiryReminders, the other       *)
(* background work: see there.                                             *)
(***************************************************************************)
EXTENDS Webhooks, ExpiryReminders, SequenceTheorems, FiniteSetTheorems,
        NaturalsInduction, WellFoundedInduction, TLAPS

(* How many events the worker has in hand.                                 *)
Hand == IF event = Nothing THEN 0 ELSE 1

LineInv ==
    /\ Len(line) = settled + Hand + Len(queue)
    /\ event # Nothing => line[settled + 1] = event
    /\ \A i \in 1..Len(queue) : line[settled + Hand + i] = queue[i]

AttemptInv == asleep => attempt < webhookAttempts /\ event # Nothing

WebhookInv == TypeOK /\ LineInv /\ AttemptInv
-----------------------------------------------------------------------------
(* The invariant holds at first.                                           *)
LEMMA WebhookInvInit == Init => WebhookInv
  <1> SUFFICES ASSUME Init PROVE WebhookInv
    OBVIOUS
  <1>1. Len(queue) = 0 /\ Len(line) = 0 /\ queue \in Seq(Numbers) /\ line \in Seq(Numbers)
    BY DEF Init
  <1>2. asleep \in BOOLEAN
    BY DEF Init
  <1>3. TypeOK
    BY <1>1, <1>2, WebhookConstants DEF Init, TypeOK, Numbers, Nothing
  <1>4. LineInv
    BY <1>1 DEF Init, LineInv, Hand, Nothing
  <1> QED
    BY <1>3, <1>4 DEF Init, WebhookInv, AttemptInv

(* Logging an event and numbering it: no event is queued yet.              *)
LEMMA RecordStep ==
  ASSUME WebhookInv, NEW w \in Loggers, Record(w)
  PROVE  WebhookInv'
  <1>1. /\ seq' \in Numbers /\ unnumbered' \in 0..MaxUnnumbered
        /\ num' \in [Loggers -> Numbers \cup {Nothing}]
    <2>1. CASE /\ seq < MaxSeq /\ seq' = seq + 1
               /\ num' = [num EXCEPT ![w] = seq + 1] /\ UNCHANGED unnumbered
      BY <2>1, WebhookConstants DEF WebhookInv, TypeOK, Numbers
    <2>2. CASE /\ unnumbered < MaxUnnumbered /\ unnumbered' = unnumbered + 1
               /\ num' = [num EXCEPT ![w] = 0] /\ UNCHANGED seq
      BY <2>2, WebhookConstants DEF WebhookInv, TypeOK, Numbers
    <2> QED
      BY <2>1, <2>2 DEF Record
  <1>2. UNCHANGED <<queue, event, attempt, asleep, settled, processed, line, missed>>
    BY DEF Record, worker
  <1> QED
    BY <1>1, <1>2 DEF WebhookInv, TypeOK, Numbers, LineInv, AttemptInv, Hand

(* A queue that is not full grows at the end, together with the line.      *)
LEMMA AcceptStep ==
  ASSUME WebhookInv, NEW n \in Numbers, Len(queue) < webhookQueueSize,
         queue' = Append(queue, n), line' = Append(line, n),
         UNCHANGED <<event, settled>>
  PROVE  /\ LineInv'
         /\ queue' \in Seq(Numbers) /\ Len(queue') <= webhookQueueSize
         /\ line' \in Seq(Numbers) /\ settled \in 0..Len(line')
  <1>1. /\ queue \in Seq(Numbers) /\ line \in Seq(Numbers)
        /\ Len(queue) \in Nat /\ Len(line) \in Nat /\ settled \in 0..Len(line)
        /\ webhookQueueSize \in Nat
    BY WebhookConstants DEF WebhookInv, TypeOK
  <1>2. /\ Len(queue') = Len(queue) + 1 /\ queue'[Len(queue) + 1] = n
        /\ \A i \in 1..Len(queue) : queue'[i] = queue[i]
        /\ queue' \in Seq(Numbers)
    BY <1>1
  <1>3. /\ Len(line') = Len(line) + 1 /\ line'[Len(line) + 1] = n
        /\ \A i \in 1..Len(line) : line'[i] = line[i]
        /\ line' \in Seq(Numbers)
    BY <1>1
  <1>4. Hand' = Hand /\ Hand \in {0, 1}
    BY DEF Hand
  <1>5. Len(line) = settled + Hand + Len(queue)
    BY DEF WebhookInv, LineInv
  <1>6. event' # Nothing => line'[settled' + 1] = event'
    BY <1>1, <1>3, <1>5 DEF WebhookInv, LineInv, Hand
  <1>7. \A i \in 1..Len(queue') : line'[settled' + Hand' + i] = queue'[i]
    <2>1. ASSUME NEW i \in 1..Len(queue)
          PROVE  line'[settled + Hand + i] = queue'[i]
      <3>1. settled + Hand + i \in 1..Len(line)
        BY <1>1, <1>4, <1>5
      <3> QED
        BY <3>1, <1>2, <1>3 DEF WebhookInv, LineInv
    <2>2. line'[settled + Hand + (Len(queue) + 1)] = queue'[Len(queue) + 1]
      BY <1>1, <1>2, <1>3, <1>4, <1>5
    <2>3. \A i \in 1..Len(queue') : i \in 1..Len(queue) \/ i = Len(queue) + 1
      BY <1>1, <1>2
    <2>4. settled' = settled
      OBVIOUS
    <2> QED
      BY <1>4, <2>1, <2>2, <2>3, <2>4
  <1>8. Len(line') = settled' + Hand' + Len(queue')
    BY <1>1, <1>2, <1>3, <1>4, <1>5
  <1>9. Len(queue') <= webhookQueueSize /\ settled \in 0..Len(line')
    BY <1>1, <1>2, <1>3
  <1>10. LineInv'
    BY <1>6, <1>7, <1>8 DEF LineInv
  <1> QED
    BY <1>2, <1>3, <1>9, <1>10

(* send puts the event on the channel, or drops it if the channel is full. *)
LEMMA SendStep ==
  ASSUME WebhookInv, NEW w \in Loggers, Send(w)
  PROVE  WebhookInv'
  <1>1. /\ UNCHANGED <<seq, unnumbered, event, attempt, asleep, settled, processed>>
        /\ num' \in [Loggers -> Numbers \cup {Nothing}]
        /\ num[w] \in Numbers
    BY DEF Send, worker, WebhookInv, TypeOK
  <1>2. missed' \in SUBSET Numbers
    BY <1>1 DEF Send, WebhookInv, TypeOK
  <1>3. CASE UNCHANGED <<queue, line>>
    BY <1>1, <1>2, <1>3 DEF WebhookInv, TypeOK, Numbers, LineInv, AttemptInv,
       Hand
  <1>4. CASE /\ Len(queue) < webhookQueueSize
             /\ queue' = Append(queue, num[w]) /\ line' = Append(line, num[w])
    <2>1. /\ LineInv'
          /\ queue' \in Seq(Numbers) /\ Len(queue') <= webhookQueueSize
          /\ line' \in Seq(Numbers) /\ settled \in 0..Len(line')
      BY <1>1, <1>4, AcceptStep
    <2> QED
      BY <1>1, <1>2, <2>1 DEF WebhookInv, TypeOK, Numbers, AttemptInv
  <1> QED
    BY <1>3, <1>4 DEF Send

(* The worker takes the first event of the channel.                        *)
LEMMA TakeStep ==
  ASSUME WebhookInv, Take
  PROVE  WebhookInv'
  <1>1. /\ queue \in Seq(Numbers) /\ queue # <<>> /\ Len(queue) \in Nat
        /\ settled \in Nat /\ webhookQueueSize \in Nat
        /\ Len(queue) <= webhookQueueSize
    BY WebhookConstants DEF Take, WebhookInv, TypeOK
  <1>2. /\ event = Nothing /\ event' = Head(queue) /\ queue' = Tail(queue)
        /\ attempt' = 1
        /\ UNCHANGED <<seq, num, asleep, unnumbered, line, settled, processed,
                       missed>>
    BY DEF Take
  <1>3. /\ event' = queue[1] /\ event' \in Numbers
        /\ queue' \in Seq(Numbers) /\ Len(queue') = Len(queue) - 1
        /\ \A i \in 1..Len(queue') : queue'[i] = queue[i + 1]
        /\ Len(queue) >= 1
    BY <1>1, <1>2, HeadTailProperties
  <1>4. event' # Nothing
    BY <1>3 DEF Numbers, Nothing
  <1>5. TypeOK'
    BY <1>1, <1>2, <1>3, WebhookConstants DEF WebhookInv, TypeOK, Numbers
  <1>6. Hand = 0 /\ Hand' = 1
    BY <1>2, <1>4 DEF Hand
  <1>7. LineInv'
    <2>1. \A i \in 1..Len(queue) : line[settled + i] = queue[i]
      BY <1>1, <1>6 DEF WebhookInv, LineInv
    <2>2. line'[settled' + 1] = event'
      BY <1>1, <1>2, <1>3, <2>1
    <2>3. ASSUME NEW i \in 1..Len(queue')
          PROVE  line'[settled' + Hand' + i] = queue'[i]
      <3>1. i + 1 \in 1..Len(queue) /\ settled + 1 + i = settled + (i + 1)
        BY <1>1, <1>3
      <3> QED
        BY <1>2, <1>3, <1>6, <2>1, <3>1
    <2>4. Len(line') = settled' + Hand' + Len(queue')
      BY <1>1, <1>2, <1>3, <1>6 DEF WebhookInv, LineInv
    <2> QED
      BY <2>2, <2>3, <2>4 DEF LineInv
  <1>8. AttemptInv'
    BY <1>2 DEF WebhookInv, AttemptInv
  <1> QED
    BY <1>5, <1>7, <1>8 DEF WebhookInv

(* The worker is done with the event in hand.                              *)
LEMMA SettleStep ==
  ASSUME WebhookInv, event # Nothing, ~asleep, Settle,
         UNCHANGED <<seq, num, queue, asleep, unnumbered, line>>,
         processed' \in SUBSET Numbers, missed' \in SUBSET Numbers
  PROVE  WebhookInv'
  <1>1. /\ Len(queue) \in Nat /\ settled \in Nat /\ Hand = 1 /\ Hand' = 0
        /\ settled' = settled + 1 /\ event' = Nothing /\ attempt' = 1
    BY DEF Settle, WebhookInv, TypeOK, Hand
  <1>2. Len(line) = settled + 1 + Len(queue)
    BY <1>1 DEF WebhookInv, LineInv
  <1>3. TypeOK'
    BY <1>1, <1>2, WebhookConstants DEF WebhookInv, TypeOK, Numbers
  <1>4. LineInv'
    BY <1>1, <1>2 DEF WebhookInv, LineInv
  <1> QED
    BY <1>1, <1>3, <1>4 DEF WebhookInv, AttemptInv

(* A post that succeeds settles the event, ...                             *)
LEMMA PostOKStep ==
  ASSUME WebhookInv, PostOK
  PROVE  WebhookInv'
  <1>1. processed' \in SUBSET Numbers /\ missed' \in SUBSET Numbers
    BY DEF PostOK, WebhookInv, TypeOK
  <1> QED
    BY <1>1, SettleStep DEF PostOK

(* ... one that fails is tried again later, up to webhookAttempts times.   *)
LEMMA PostFailsStep ==
  ASSUME WebhookInv, PostFails
  PROVE  WebhookInv'
  <1>1. processed' \in SUBSET Numbers
    BY DEF PostFails, WebhookInv, TypeOK
  <1>2. CASE LastAttempt
    <2>1. missed' \in SUBSET Numbers
      BY <1>2 DEF PostFails, WebhookInv, TypeOK
    <2> QED
      BY <1>1, <1>2, <2>1, SettleStep DEF PostFails
  <1>3. CASE ~LastAttempt
    <2>1. asleep' = TRUE /\ attempt < webhookAttempts /\ event # Nothing
      BY <1>3, WebhookConstants DEF PostFails, LastAttempt, WebhookInv, TypeOK
    <2>2. UNCHANGED <<seq, num, queue, unnumbered, line, event, attempt, settled, missed>>
      BY <1>3 DEF PostFails
    <2> QED
      BY <1>1, <2>1, <2>2 DEF WebhookInv, TypeOK, Numbers, LineInv, Hand,
         AttemptInv
  <1> QED
    BY <1>2, <1>3

(* The pause between two attempts ends.                                    *)
LEMMA WakeStep ==
  ASSUME WebhookInv, Wake
  PROVE  WebhookInv'
  <1>1. attempt' \in 1..webhookAttempts
    BY WebhookConstants DEF Wake, WebhookInv, AttemptInv, TypeOK
  <1>2. /\ asleep' = FALSE
        /\ UNCHANGED <<seq, num, queue, event, unnumbered, line, settled,
                       processed, missed>>
    BY DEF Wake
  <1> QED
    BY <1>1, <1>2 DEF WebhookInv, TypeOK, Numbers, LineInv, Hand, AttemptInv

(* Every step preserves the invariant.                                     *)
LEMMA WebhookInvStep == WebhookInv /\ [Next]_vars => WebhookInv'
  <1> SUFFICES ASSUME WebhookInv, [Next]_vars PROVE WebhookInv'
    OBVIOUS
  <1>1. CASE UNCHANGED vars
    BY <1>1 DEF vars, WebhookInv, TypeOK, Numbers, LineInv, Hand, AttemptInv
  <1> QED
    BY <1>1, RecordStep, SendStep, TakeStep, PostOKStep, PostFailsStep,
       WakeStep DEF Next, Run

(* The inductive invariant holds in every reachable state.                 *)
THEOREM WebhookInvHolds == Spec => []WebhookInv
  BY WebhookInvInit, WebhookInvStep, PTL DEF Spec

(* Types: in particular, the worker makes at most webhookAttempts attempts *)
(* and the channel never holds more than webhookQueueSize events.          *)
THEOREM TypeCorrect == Spec => []TypeOK
  <1>1. WebhookInv => TypeOK
    BY DEF WebhookInv
  <1> QED
    BY <1>1, WebhookInvHolds, PTL

(* However posts fail, time out and are retried while requests log more    *)
(* events, what the target's worker still has to settle is, in order, what *)
(* it holds and what is queued (webhooks.go: send, run, deliver).          *)
THEOREM NothingLostOrOvertaken == Spec => []NoneLostOrOvertaken
  <1>1. WebhookInv => NoneLostOrOvertaken
    <2> SUFFICES ASSUME WebhookInv PROVE NoneLostOrOvertaken
      OBVIOUS
    <2> DEFINE h == IF event = Nothing THEN <<>> ELSE <<event>>
               rest == SubSeq(line, settled + 1, Len(line))
    <2>1. /\ line \in Seq(Numbers) /\ queue \in Seq(Numbers)
          /\ Len(line) \in Nat /\ Len(queue) \in Nat
          /\ settled \in Nat
      BY DEF WebhookInv, TypeOK
    <2>2. h \in Seq(Numbers) /\ Len(h) = Hand /\ (event # Nothing => h[1] = event)
      BY DEF WebhookInv, TypeOK, Hand
    <2>3. Hand \in {0, 1} /\ Len(line) = settled + Hand + Len(queue)
      BY DEF Hand, WebhookInv, LineInv
    <2>4. \A i \in (settled + 1)..Len(line) : line[i] \in Numbers
      BY <2>1
    <2>5. /\ rest \in Seq(Numbers)
          /\ Len(rest) = IF settled + 1 <= Len(line)
                           THEN Len(line) - (settled + 1) + 1 ELSE 0
          /\ \A i \in 1..(Len(line) - (settled + 1) + 1) :
                rest[i] = line[settled + 1 + i - 1]
      BY <2>1, <2>4, SubSeqProperties
    <2> HIDE DEF h, rest
    <2>6. /\ h \o queue \in Seq(Numbers) /\ Len(h \o queue) = Hand + Len(queue)
          /\ \A i \in 1..(Hand + Len(queue)) :
               (h \o queue)[i] = IF i <= Hand THEN h[i] ELSE queue[i - Hand]
      BY <2>1, <2>2, ConcatProperties
    <2>7. Len(rest) = Hand + Len(queue)
      BY <2>1, <2>3, <2>5
    <2>8. ASSUME NEW i \in 1..(Hand + Len(queue))
          PROVE  rest[i] = (h \o queue)[i]
      <3>1. rest[i] = line[settled + i]
        <4>1. settled + 1 + i - 1 = settled + i /\ i \in 1..(Len(line) - (settled + 1) + 1)
          BY <2>1, <2>3
        <4> QED
          BY <4>1, <2>5
      <3>2. CASE i <= Hand
        <4>1. i = 1 /\ event # Nothing
          BY <2>1, <2>3, <3>2 DEF Hand
        <4> QED
          BY <2>2, <2>6, <3>1, <3>2, <4>1 DEF WebhookInv, LineInv
      <3>3. CASE ~(i <= Hand)
        <4>1. /\ i - Hand \in 1..Len(queue)
              /\ settled + Hand + (i - Hand) = settled + i
          BY <2>1, <2>3, <3>3
        <4> QED
          BY <2>6, <3>1, <3>3, <4>1 DEF WebhookInv, LineInv
      <3> QED
        BY <3>2, <3>3
    <2>9. rest = h \o queue
      BY <2>5, <2>6, <2>7, <2>8, SeqEqual
    <2> QED
      BY <2>9 DEF NoneLostOrOvertaken, h, rest
  <1> QED
    BY <1>1, WebhookInvHolds, PTL
-----------------------------------------------------------------------------
(***************************************************************************)
(* Password expiry reminders (ExpiryReminders.tla), the other thing mokey  *)
(* does in the background: for any number of replicas, any windows and     *)
(* times, with and without failures.                                       *)
(*                                                                         *)
(*   SweepInv    how old what a sweep listed is;                           *)
(*   MarkInv     a marker stands for a mail;                               *)
(*   CountInv    reminders sent and about to be sent are no more than the  *)
(*               replicas; while there is no marker, those sent are with   *)
(*               replicas about to set it;                                 *)
(*   TimeInv     each replica, asleep or at work, has reminded of what the *)
(*               password was in when it last listed, or something failed  *)
(*               or changed not long ago.                                  *)
(*                                                                         *)
(* OncePerWindow alone says nothing of the replicas that have looked and   *)
(* not sent yet; the second half of CountInv is why a replica that finds   *)
(* no marker has not sent itself. RemindedInTime is TimeInv at the end of  *)
(* the slack.                                                              *)
(***************************************************************************)

(* What is left of a password in some window.                              *)
Within == UNION {1..w : w \in Windows}

(* A sweep is no older than its timer says: what it listed was true        *)
(* SweepTime minus timer[r] ticks ago.                                     *)
SweepInv ==
    \A r \in Replicas :
      /\ pc[r] = "sleep" => timer[r] <= Interval
      /\ pc[r] # "sleep" =>
           /\ listed[r] \in Dates \X Within /\ timer[r] <= SweepTime
           /\ now + timer[r] = listed[r][1] - listed[r][2] + SweepTime

(* The types, with what they rest on.                                      *)
SweepType == ReminderTypeOK /\ SweepInv

(* The replicas at a step with this reminder.                              *)
AtKey(step, k) == {r \in Replicas : pc[r] = step /\ Key(r) = k}

(* A marker, and a replica about to set one, stand for a mail that was     *)
(* sent.                                                                   *)
MarkInv ==
    /\ \A k \in markers : mails[k] > 0
    /\ \A r \in Replicas : pc[r] = "mark" => mails[Key(r)] > 0

(* No replica sends the same reminder twice: those sent and those about to *)
(* be sent are at most as many as there are replicas; and while there is   *)
(* no marker, every one that was sent is with a replica that is about to   *)
(* set it.                                                                 *)
CountInv ==
    \A k \in Keys \ unmarked :
      /\ mails[k] + Cardinality(AtKey("send", k)) <= Cardinality(Replicas)
      /\ k \notin markers /\ MarkerAlive(k, now) =>
           mails[k] <= Cardinality(AtKey("mark", k))

(* There was a reminder for each window (or a tighter one) that a password *)
(* with so many ticks left is in.                                          *)
RemindedAt(left) ==
    \A w \in Windows : left <= w =>
        \E v \in Windows : v <= w /\ mails[<<expire, v>>] > 0

(* ... that it was in `age' ticks ago.                                     *)
Reminded(age) == RemindedAt(expire - now + age)

(* The longest a listing is old when its replica lists again.              *)
Round == Interval + SweepTime

(* Replica r keeps its pace. Asleep, it has swept since things became      *)
(* steady and reminded of every window the password was in when it last    *)
(* listed, or it will wake up soon. At work, what it listed still holds,   *)
(* and it had reminded of what it had listed the time before. An earlier   *)
(* failure is an alternative everywhere: steady counts from it.            *)
OnTime(r) ==
    /\ pc[r] = "sleep" => \/ steady + timer[r] <= Round
                          \/ Reminded(Round - timer[r])
    /\ pc[r] # "sleep" =>
         \/ steady + timer[r] <= SweepTime
         \/ /\ listed[r] = <<expire, expire - now + SweepTime - timer[r]>>
            /\ \/ steady + timer[r] <= Round + SweepTime
               \/ Reminded(Round + SweepTime - timer[r])

(* It matters as long as the password has not expired and the account is   *)
(* not blocked.                                                            *)
TimeInv == ~locked /\ expire > now => \A r \in Replicas : OnTime(r)

(* The inductive invariant.                                                *)
ReminderInv == SweepType /\ MarkInv /\ CountInv /\ TimeInv
-----------------------------------------------------------------------------
(* The times are natural numbers.                                          *)
LEMMA Sizes ==
  /\ {Lifetime, Interval, SweepTime, Grace, MaxTime} \subseteq Nat \ {0}
  /\ Round \in Nat /\ Slack \in Nat /\ Cardinality(Replicas) \in Nat
  /\ Dates \subseteq Nat \ {0} /\ Within \subseteq Nat \ {0} /\ Windows \subseteq Nat \ {0}
  BY ReminderConstants, FS_CardinalityType DEF Round, Slack, Dates, Within

(* Min is the least element.                                               *)
LEMMA LeastIn ==
  ASSUME NEW T \in SUBSET Nat, T # {}
  PROVE  Min(T) \in T /\ \A y \in T : Min(T) <= y
  <1>1. \E x \in T : \A y \in T : ~(<<y, x>> \in OpToRel(<, Nat))
    BY NatLessThanWellFounded, WFMin
  <1>2. PICK x \in T : \A y \in T : ~(<<y, x>> \in OpToRel(<, Nat))
    BY <1>1
  <1>3. \A y \in T : ~(y < x)
    BY <1>2 DEF OpToRel
  <1>4. \A y \in T : x <= y
    BY <1>3
  <1> QED
    BY <1>4 DEF Min

(* The tightest window is one, and none is tighter.                        *)
LEMMA TightestIs ==
  ASSUME NEW left \in Within
  PROVE  /\ Tightest(left) \in Windows
         /\ \A w \in Windows : left <= w => Tightest(left) <= w
  <1> DEFINE T == {w \in Windows : left <= w}
  <1>0. PICK w \in Windows : left \in 1..w
    BY DEF Within
  <1>1. T \in SUBSET Nat /\ T # {}
    <2>1. w \in T
      BY <1>0, Sizes
    <2> QED
      BY <2>1, Sizes
  <1>2. Min(T) \in T /\ \A y \in T : Min(T) <= y
    BY <1>1, LeastIn
  <1> QED
    BY <1>2 DEF Tightest

(* What a replica at work looks up is a marker, one that would still be    *)
(* alive.                                                                  *)
LEMMA KeyIs ==
  ASSUME SweepType, NEW r \in Replicas, pc[r] # "sleep"
  PROVE  /\ Key(r) \in Keys /\ MarkerAlive(Key(r), now)
         /\ listed[r][1] \in Dates /\ listed[r][2] \in Within
  <1>1. listed[r][1] \in Dates /\ listed[r][2] \in Within
    BY DEF SweepType, SweepInv
  <1>2. Key(r) \in Keys /\ Key(r)[1] = listed[r][1]
    BY <1>1, TightestIs DEF Key, Keys
  <1>3. now + timer[r] = listed[r][1] - listed[r][2] + SweepTime
    BY DEF SweepType, SweepInv
  <1>4. timer[r] \in Nat /\ now \in Nat
    BY Sizes DEF SweepType, ReminderTypeOK
  <1>5. SweepTime < Grace /\ SweepTime \in Nat /\ Grace \in Nat /\ listed[r][1] \in Nat /\ listed[r][2] \in Nat
    BY <1>1, Sizes, ReminderConstants
  <1>6. now < listed[r][1] + Grace
    BY <1>3, <1>4, <1>5
  <1> QED
    BY <1>1, <1>2, <1>6 DEF MarkerAlive

(* A sweep that ends changes nothing of the others.                        *)
LEMMA FinishFacts ==
  ASSUME SweepType, NEW r \in Replicas, Finish(r)
  PROVE  /\ pc'[r] = "sleep" /\ timer'[r] = Interval
         /\ \A q \in Replicas \ {r} : pc'[q] = pc[q] /\ timer'[q] = timer[q] /\ listed'[q] = listed[q]
         /\ pc' \in [Replicas -> {"sleep", "look", "send", "mark"}]
         /\ timer' \in [Replicas -> 0..(Interval + SweepTime)]
         /\ listed' \in [Replicas -> {None} \cup (Dates \X Within)]
  BY Sizes DEF SweepType, ReminderTypeOK, Finish, Within

(* The invariant holds at first.                                           *)
LEMMA ReminderInvInit == ReminderInit => ReminderInv
  <1> SUFFICES ASSUME ReminderInit PROVE ReminderInv
    OBVIOUS
  <1>1. ReminderTypeOK
    <2>0. MaxChanges \in Nat
      BY ReminderConstants
    <2>6. expire \in Dates /\ now \in 1..MaxTime /\ changes \in 0..MaxChanges
      BY <2>0, Sizes DEF ReminderInit, Dates
    <2>7. locked \in BOOLEAN
      BY Zenon DEF ReminderInit
    <2>2. timer \in [Replicas -> 0..(Interval + SweepTime)]
      <3>1. 0 \in 0..(Interval + SweepTime)
        BY Sizes
      <3> QED
        BY <3>1 DEF ReminderInit
    <2>3. mails \in [Keys -> 0..(Cardinality(Replicas) + 1)]
      <3>1. 0 \in 0..(Cardinality(Replicas) + 1)
        BY Sizes
      <3> QED
        BY <3>1 DEF ReminderInit
    <2>4. steady \in 0..Slack /\ markers \in SUBSET Keys /\ unmarked \in SUBSET Keys
      BY Sizes DEF ReminderInit
    <2>5. pc \in [Replicas -> {"sleep", "look", "send", "mark"}]
          /\ listed \in [Replicas -> {None} \cup (Dates \X UNION {1..w : w \in Windows})]
      BY DEF ReminderInit
    <2> QED
      BY <2>2, <2>3, <2>4, <2>5, <2>6, <2>7 DEF ReminderTypeOK
  <1>2. SweepInv /\ MarkInv /\ TimeInv
    BY Sizes DEF ReminderInit, SweepInv, MarkInv, TimeInv, OnTime
  <1>3. CountInv
    <2>1. ASSUME NEW k \in Keys PROVE mails[k] = 0 /\ AtKey("send", k) = {} /\ AtKey("mark", k) = {}
      BY <2>1 DEF ReminderInit, AtKey
    <2>2. Cardinality({}) = 0
      BY FS_EmptySet
    <2>3. Cardinality(Replicas) \in Nat
      BY Sizes
    <2> QED
      BY <2>1, <2>2, <2>3 DEF CountInv
  <1> QED
    BY <1>1, <1>2, <1>3 DEF ReminderInv, SweepType
-----------------------------------------------------------------------------
(* A mail counts one, for its own reminder only.                           *)
LEMMA MailedFacts ==
  ASSUME SweepType, NEW k \in Keys, Mailed(k)
  PROVE  /\ mails' \in [Keys -> 0..(Cardinality(Replicas) + 1)] /\ mails'[k] > 0
         /\ \A j \in Keys \ {k} : mails'[j] = mails[j]
         /\ mails[k] <= Cardinality(Replicas) => mails'[k] = mails[k] + 1
  BY Sizes DEF SweepType, ReminderTypeOK, Mailed

(* Every step keeps the types and the age of what sweeps listed.           *)
LEMMA SweepStep == SweepType /\ [ReminderNext]_reminderVars => SweepType'
  <1> SUFFICES ASSUME SweepType, [ReminderNext]_reminderVars PROVE SweepType'
    OBVIOUS
  <1>0. ReminderTypeOK /\ SweepInv
    BY DEF SweepType
  <1> USE DEF directory
  <1>1. ASSUME NEW r \in Replicas, Finish(r), UNCHANGED <<directory>>,
               markers' \in SUBSET Keys, unmarked' \in SUBSET Keys,
               mails' \in [Keys -> 0..(Cardinality(Replicas) + 1)], steady' \in 0..Slack
        PROVE  SweepType'
    <2>1. ReminderTypeOK'
      BY <1>0, <1>1, FinishFacts DEF ReminderTypeOK, Within
    <2>2. SweepInv'
      BY <1>0, <1>1, FinishFacts, Sizes DEF SweepInv
    <2> QED
      BY <2>1, <2>2 DEF SweepType
  <1>2. ASSUME NEW r \in Replicas, UserFind(r) PROVE SweepType'
    <2>1. CASE Finish(r)
      BY <1>0, <1>1, <1>2, <2>1, Sizes DEF UserFind, ReminderTypeOK
    <2>2. CASE /\ ~Skipped(expire - now) /\ UNCHANGED steady
               /\ pc' = [pc EXCEPT ![r] = "look"]
               /\ timer' = [timer EXCEPT ![r] = SweepTime]
               /\ listed' = [listed EXCEPT ![r] = <<expire, expire - now>>]
      <3>1. expire \in Dates /\ expire - now \in Within /\ now \in Nat /\ expire \in Nat
        BY <1>0, <2>2, Sizes DEF ReminderTypeOK, Skipped, Within
      <3>2. ReminderTypeOK'
        BY <1>0, <1>2, <2>2, <3>1, Sizes DEF ReminderTypeOK, UserFind, Within
      <3>3. SweepInv'
        BY <1>0, <1>2, <2>2, <3>1, Sizes DEF ReminderTypeOK, SweepInv, UserFind
      <3> QED
        BY <3>2, <3>3 DEF SweepType
    <2> QED
      BY <1>2, <2>1, <2>2 DEF UserFind
  <1>3. ASSUME NEW r \in Replicas, NEW s \in {"send", "mark"}, pc[r] # "sleep",
               pc' = [pc EXCEPT ![r] = s], UNCHANGED <<directory, timer, listed, markers, steady>>,
               unmarked' \in SUBSET Keys, mails' \in [Keys -> 0..(Cardinality(Replicas) + 1)]
        PROVE  SweepType'
    <2>1. ReminderTypeOK'
      BY <1>0, <1>3 DEF ReminderTypeOK
    <2>2. SweepInv'
      BY <1>0, <1>3 DEF ReminderTypeOK, SweepInv
    <2> QED
      BY <2>1, <2>2 DEF SweepType
  <1>4. ASSUME NEW r \in Replicas, Look(r) PROVE SweepType'
    <2>1. Key(r) \in Keys /\ unmarked' \in SUBSET Keys
      BY <1>0, <1>4, KeyIs DEF Look, ReminderTypeOK
    <2>2. CASE Finish(r)
      BY <1>0, <1>1, <1>4, <2>1, <2>2 DEF Look, ReminderTypeOK
    <2>3. CASE pc' = [pc EXCEPT ![r] = "send"] /\ UNCHANGED <<timer, listed>>
      BY <1>0, <1>3, <1>4, <2>1, <2>3 DEF Look, ReminderTypeOK
    <2> QED
      BY <1>4, <2>2, <2>3 DEF Look
  <1>5. ASSUME NEW r \in Replicas, SendPasswordExpiryReminderEmail(r) PROVE SweepType'
    <2>1. Key(r) \in Keys /\ unmarked' \in SUBSET Keys
      BY <1>0, <1>5, KeyIs DEF SendPasswordExpiryReminderEmail, ReminderTypeOK
    <2>2. mails' \in [Keys -> 0..(Cardinality(Replicas) + 1)]
      BY <1>0, <1>5, <2>1, MailedFacts DEF SendPasswordExpiryReminderEmail, ReminderTypeOK
    <2>3. CASE Finish(r) /\ steady' = 0
      BY <1>0, <1>1, <1>5, <2>1, <2>2, <2>3, Sizes DEF SendPasswordExpiryReminderEmail, ReminderTypeOK
    <2>4. CASE pc' = [pc EXCEPT ![r] = "mark"] /\ UNCHANGED <<timer, listed, steady>>
      BY <1>0, <1>3, <1>5, <2>1, <2>2, <2>4 DEF SendPasswordExpiryReminderEmail, ReminderTypeOK
    <2> QED
      BY <1>5, <2>3, <2>4 DEF SendPasswordExpiryReminderEmail
  <1>6. ASSUME NEW r \in Replicas, SetMarker(r) PROVE SweepType'
    <2>1. Key(r) \in Keys
      BY <1>0, <1>6, KeyIs DEF SetMarker
    <2> QED
      BY <1>0, <1>1, <1>6, <2>1 DEF SetMarker, ReminderTypeOK
  <1>7. ASSUME NEW r \in Replicas, Restart(r) PROVE SweepType'
    <2>1. (IF pc[r] = "mark" THEN {Key(r)} ELSE {}) \in SUBSET Keys
      BY <1>0, <1>7, KeyIs
    <2>4. unmarked' \in SUBSET Keys /\ markers' \in SUBSET Keys
      BY <1>0, <1>7, <2>1 DEF Restart, ReminderTypeOK
    <2>5. 0 \in 0..(Interval + SweepTime) /\ 0 \in 0..Slack
      BY Sizes
    <2>2. ReminderTypeOK'
      BY <1>0, <1>7, <2>4, <2>5 DEF Restart, ReminderTypeOK
    <2>3. SweepInv'
      BY <1>0, <1>7, Sizes DEF Restart, ReminderTypeOK, SweepInv
    <2> QED
      BY <2>2, <2>3 DEF SweepType
  <1>8. CASE DirectoryChange
    <2>0. MaxChanges \in Nat
      BY ReminderConstants
    <2>4. locked' \in BOOLEAN
      BY <1>0, <1>8, Zenon DEF DirectoryChange, ReminderTypeOK
    <2>5. changes' \in 0..MaxChanges /\ steady' \in 0..Slack
      BY <1>0, <1>8, <2>0, Sizes DEF DirectoryChange, ReminderTypeOK
    <2>6. expire' \in Dates
      BY <1>0, <1>8, Sizes DEF DirectoryChange, ReminderTypeOK, Dates
    <2>1. expire' \in Dates /\ locked' \in BOOLEAN /\ changes' \in 0..MaxChanges /\ steady' \in 0..Slack
      BY <2>4, <2>5, <2>6
    <2>2. ReminderTypeOK'
      BY <1>0, <1>8, <2>1 DEF DirectoryChange, ReminderTypeOK
    <2>3. SweepInv'
      BY <1>0, <1>8 DEF DirectoryChange, SweepInv
    <2> QED
      BY <2>2, <2>3 DEF SweepType
  <1>9. CASE Tick
    <2>1. Min({steady + 1, Slack}) \in {steady + 1, Slack} /\ Min({steady + 1, Slack}) <= Slack
      <3>1. {steady + 1, Slack} \in SUBSET Nat /\ {steady + 1, Slack} # {}
        BY <1>0, Sizes DEF ReminderTypeOK
      <3> QED
        BY <3>1, LeastIn
    <2>2. steady' \in 0..Slack
      BY <1>0, <1>9, <2>1, Sizes DEF Tick, ReminderTypeOK
    <2>3. ReminderTypeOK'
      BY <1>0, <1>9, <2>2, Sizes DEF Tick, ReminderTypeOK
    <2>4. SweepInv'
      BY <1>0, <1>9, Sizes DEF Tick, SweepInv, ReminderTypeOK
    <2> QED
      BY <2>3, <2>4 DEF SweepType
  <1>10. CASE UNCHANGED reminderVars
    BY <1>0, <1>10 DEF reminderVars, SweepType, ReminderTypeOK, SweepInv
  <1> QED
    BY <1>2, <1>4, <1>5, <1>6, <1>7, <1>8, <1>9, <1>10 DEF ReminderNext
-----------------------------------------------------------------------------
(* A step of one replica.                                                  *)
ReplicaStep(r) ==
    \/ UserFind(r) \/ Look(r) \/ SendPasswordExpiryReminderEmail(r)
    \/ SetMarker(r) \/ Restart(r)

(* Who takes a step.                                                       *)
LEMMA Steps ==
  ASSUME [ReminderNext]_reminderVars
  PROVE  (\E r \in Replicas : ReplicaStep(r)) \/ DirectoryChange \/ Tick \/ UNCHANGED reminderVars
  BY DEF ReminderNext, ReplicaStep

(* A replica changes nothing in FreeIPA and nothing of the others.         *)
LEMMA ReplicaFacts ==
  ASSUME SweepType, NEW r \in Replicas, ReplicaStep(r)
  PROVE  /\ UNCHANGED directory
         /\ \A q \in Replicas \ {r} : /\ pc'[q] = pc[q] /\ timer'[q] = timer[q]
                                      /\ listed'[q] = listed[q] /\ Key(q)' = Key(q)
  <1>1. pc \in [Replicas -> {"sleep", "look", "send", "mark"}]
        /\ DOMAIN timer = Replicas /\ DOMAIN listed = Replicas
    BY DEF SweepType, ReminderTypeOK
  <1>2. UNCHANGED directory
    BY DEF ReplicaStep, UserFind, Look, SendPasswordExpiryReminderEmail, SetMarker, Restart
  <1>3. ASSUME NEW q \in Replicas \ {r}
        PROVE  pc'[q] = pc[q] /\ timer'[q] = timer[q] /\ listed'[q] = listed[q]
    <2>1. CASE Finish(r)
      BY <1>1, <1>3, <2>1 DEF Finish
    <2>2. CASE ~Finish(r)
      BY <1>1, <1>3, <2>2 DEF ReplicaStep, UserFind, Look,
         SendPasswordExpiryReminderEmail, SetMarker, Restart
    <2> QED
      BY <2>1, <2>2
  <1> QED
    BY <1>2, <1>3 DEF Key

(* A mail that was sent stays sent.                                        *)
LEMMA MailsGrow ==
  ASSUME SweepType, [ReminderNext]_reminderVars
  PROVE  \A k \in Keys : mails[k] > 0 => mails'[k] > 0
  <1>1. ASSUME NEW r \in Replicas, SendPasswordExpiryReminderEmail(r)
        PROVE  \A k \in Keys : mails[k] > 0 => mails'[k] > 0
    <2>1. Key(r) \in Keys
      BY <1>1, KeyIs DEF SendPasswordExpiryReminderEmail
    <2>2. CASE Mailed(Key(r))
      BY <2>1, <2>2, MailedFacts
    <2>3. CASE UNCHANGED mails
      BY <2>3
    <2> QED
      BY <1>1, <2>2, <2>3 DEF SendPasswordExpiryReminderEmail
  <1>2. CASE ~ \E r \in Replicas : SendPasswordExpiryReminderEmail(r)
    <2>1. UNCHANGED mails
      BY <1>2 DEF ReminderNext, reminderVars, UserFind, Look, SetMarker, Restart, DirectoryChange, Tick
    <2> QED
      BY <2>1
  <1> QED
    BY <1>1, <1>2

(* Markers are set after the mail, and only then.                          *)
LEMMA MarkStep == SweepType /\ MarkInv /\ [ReminderNext]_reminderVars => MarkInv'
  <1> SUFFICES ASSUME SweepType, MarkInv, [ReminderNext]_reminderVars PROVE MarkInv'
    OBVIOUS
  <1>0. ReminderTypeOK /\ SweepType'
    BY SweepStep DEF SweepType
  <1>1. \A k \in Keys : mails[k] > 0 => mails'[k] > 0
    BY MailsGrow
  <1>2. ASSUME NEW r \in Replicas, ReplicaStep(r),
               \A k \in markers' : mails'[k] > 0,
               pc'[r] = "mark" => mails'[Key(r)'] > 0
        PROVE  MarkInv'
    <2>1. ASSUME NEW q \in Replicas, pc'[q] = "mark", q # r PROVE mails'[Key(q)'] > 0
      <3>1. pc[q] = "mark" /\ Key(q)' = Key(q)
        BY <1>2, <2>1, ReplicaFacts
      <3>2. Key(q) \in Keys /\ mails[Key(q)] > 0
        BY <2>1, <3>1, KeyIs DEF MarkInv
      <3> QED
        BY <1>1, <3>1, <3>2
    <2> QED
      BY <1>2, <2>1 DEF MarkInv
  <1>3. ASSUME markers' \subseteq markers PROVE \A k \in markers' : mails'[k] > 0
    BY <1>0, <1>1, <1>3 DEF MarkInv, ReminderTypeOK
  <1>4. ASSUME NEW r \in Replicas, Finish(r) PROVE pc'[r] = "sleep"
    BY <1>4, FinishFacts
  <1>5. ASSUME NEW r \in Replicas, ReplicaStep(r) PROVE MarkInv'
    <2>1. CASE UserFind(r)
      <3>1. pc'[r] # "mark" /\ markers' \subseteq markers
        BY <1>0, <1>4, <2>1 DEF UserFind, ReminderTypeOK
      <3> QED
        BY <1>2, <1>3, <1>5, <3>1
    <2>2. CASE Look(r)
      <3>1. pc'[r] # "mark" /\ markers' \subseteq markers
        BY <1>0, <1>4, <2>2 DEF Look, ReminderTypeOK
      <3> QED
        BY <1>2, <1>3, <1>5, <3>1
    <2>3. CASE SendPasswordExpiryReminderEmail(r)
      <3>1. markers' \subseteq markers
        BY <2>3 DEF SendPasswordExpiryReminderEmail
      <3>2. ASSUME pc'[r] = "mark" PROVE Mailed(Key(r)) /\ Key(r)' = Key(r)
        BY <1>4, <2>3, <3>2 DEF SendPasswordExpiryReminderEmail, Key
      <3>3. Key(r) \in Keys
        BY <2>3, KeyIs DEF SendPasswordExpiryReminderEmail
      <3>4. pc'[r] = "mark" => mails'[Key(r)'] > 0
        BY <3>2, <3>3, MailedFacts
      <3> QED
        BY <1>2, <1>3, <1>5, <3>1, <3>4
    <2>4. CASE SetMarker(r)
      <3>1. Key(r) \in Keys /\ mails[Key(r)] > 0 /\ pc'[r] = "sleep"
        BY <1>4, <2>4, KeyIs DEF SetMarker, MarkInv
      <3>2. \A k \in markers' : mails'[k] > 0
        BY <1>0, <1>1, <2>4, <3>1 DEF SetMarker, MarkInv, ReminderTypeOK
      <3> QED
        BY <1>2, <1>5, <3>1, <3>2
    <2>5. CASE Restart(r)
      <3>1. pc'[r] # "mark" /\ markers' \subseteq markers
        BY <1>0, <2>5 DEF Restart, ReminderTypeOK
      <3> QED
        BY <1>2, <1>3, <1>5, <3>1
    <2> QED
      BY <1>5, <2>1, <2>2, <2>3, <2>4, <2>5 DEF ReplicaStep
  <1>6. CASE DirectoryChange \/ Tick \/ UNCHANGED reminderVars
    <2>1. markers' \subseteq markers /\ UNCHANGED <<pc, listed, mails>>
      BY <1>6 DEF DirectoryChange, Tick, reminderVars
    <2> QED
      BY <2>1 DEF MarkInv, Key
  <1> QED
    BY <1>5, <1>6, Steps
-----------------------------------------------------------------------------
(* Sets of replicas are finite ...                                         *)
LEMMA SubsetSize ==
  ASSUME NEW A \in SUBSET Replicas, NEW B \in SUBSET A
  PROVE  Cardinality(A) \in Nat /\ Cardinality(B) \in Nat
         /\ Cardinality(B) <= Cardinality(A) /\ IsFiniteSet(A)
  BY ReminderConstants, FS_Subset, FS_CardinalityType

(* ... and two that have none in common are together no more than all.     *)
LEMMA DisjointSizes ==
  ASSUME NEW A \in SUBSET Replicas, NEW B \in SUBSET Replicas, A \cap B = {}
  PROVE  Cardinality(A) + Cardinality(B) <= Cardinality(Replicas)
  <1>1. IsFiniteSet(A) /\ IsFiniteSet(B)
        /\ Cardinality(A) \in Nat /\ Cardinality(B) \in Nat
    BY SubsetSize
  <1>2. Cardinality(A \cup B) = Cardinality(A) + Cardinality(B) - Cardinality(A \cap B)
    BY <1>1, FS_Union
  <1>3. Cardinality(A \cap B) = 0
    BY FS_EmptySet
  <1>4. Cardinality(A \cup B) <= Cardinality(Replicas)
    BY ReminderConstants, FS_Subset
  <1> QED
    BY <1>1, <1>2, <1>3, <1>4

(* The count is kept when no replica starts to send and the marker, if     *)
(* there is none after the step, was missing before with the same replicas *)
(* about to set it.                                                        *)
LEMMA CountFrom ==
  ASSUME SweepType, CountInv, NEW k \in Keys \ unmarked, mails'[k] = mails[k],
         AtKey("send", k)' \subseteq AtKey("send", k),
         k \notin markers' /\ MarkerAlive(k, now') =>
           /\ k \notin markers /\ MarkerAlive(k, now)
           /\ AtKey("mark", k)' = AtKey("mark", k)
  PROVE  /\ mails'[k] + Cardinality(AtKey("send", k)') <= Cardinality(Replicas)
         /\ k \notin markers' /\ MarkerAlive(k, now') =>
              mails'[k] <= Cardinality(AtKey("mark", k)')
  <1>1. AtKey("send", k) \in SUBSET Replicas
    BY DEF AtKey
  <1>2. /\ Cardinality(AtKey("send", k)) \in Nat /\ Cardinality(AtKey("send", k)') \in Nat
        /\ Cardinality(AtKey("send", k)') <= Cardinality(AtKey("send", k))
    BY <1>1, SubsetSize
  <1>3. mails[k] \in Nat /\ Cardinality(Replicas) \in Nat
    BY Sizes DEF SweepType, ReminderTypeOK
  <1> QED
    BY <1>2, <1>3 DEF CountInv

(* Every step keeps the count: a replica goes on to send only when it      *)
(* finds no marker, and then those that have sent are with their marker    *)
(* still to set, so that it is not one of them; a marker that time takes   *)
(* away is for a date so long past that nobody looks it up again.          *)
LEMMA CountStep == SweepType /\ CountInv /\ [ReminderNext]_reminderVars => CountInv'
  <1> SUFFICES ASSUME SweepType, CountInv, [ReminderNext]_reminderVars,
                      NEW k \in Keys, k \notin unmarked'
               PROVE  /\ mails'[k] + Cardinality(AtKey("send", k)') <= Cardinality(Replicas)
                      /\ k \notin markers' /\ MarkerAlive(k, now') =>
                           mails'[k] <= Cardinality(AtKey("mark", k)')
    BY DEF CountInv, Keys, Dates, MarkerAlive
  <1> DEFINE S == AtKey("send", k)
             M == AtKey("mark", k)
             Goal == /\ mails'[k] + Cardinality(AtKey("send", k)') <= Cardinality(Replicas)
                     /\ k \notin markers' /\ MarkerAlive(k, now') =>
                          mails'[k] <= Cardinality(AtKey("mark", k)')
  <1>0. /\ ReminderTypeOK /\ mails[k] \in Nat /\ Cardinality(Replicas) \in Nat
        /\ pc \in [Replicas -> {"sleep", "look", "send", "mark"}]
    BY Sizes DEF SweepType, ReminderTypeOK
  <1>1. /\ S \in SUBSET Replicas /\ M \in SUBSET Replicas /\ S \cap M = {}
        /\ IsFiniteSet(S) /\ IsFiniteSet(M) /\ Cardinality(S) \in Nat /\ Cardinality(M) \in Nat
    <2>1. S \in SUBSET Replicas /\ M \in SUBSET Replicas /\ S \cap M = {}
      BY DEF AtKey
    <2> QED
      BY <2>1, SubsetSize
  <1>2. k \notin unmarked
    BY DEF ReminderNext, reminderVars, UserFind, Look, SendPasswordExpiryReminderEmail, SetMarker,
           Restart, DirectoryChange, Tick
  <1>3. /\ mails[k] + Cardinality(S) <= Cardinality(Replicas)
        /\ k \notin markers /\ MarkerAlive(k, now) => mails[k] <= Cardinality(M)
    BY <1>2 DEF CountInv
  <1>4. ASSUME NEW r \in Replicas, ReplicaStep(r)
        PROVE  now' = now /\ (S \ {r})' = S \ {r} /\ (M \ {r})' = M \ {r}
    BY <1>4, ReplicaFacts DEF AtKey, directory
  <1>5. ASSUME NEW r \in Replicas, Finish(r) PROVE r \notin S' /\ r \notin M'
    BY <1>5, FinishFacts DEF AtKey
  <1>6. ASSUME NEW r \in Replicas, ReplicaStep(r) PROVE Goal
    <2>0. now' = now /\ S' \ {r} = S \ {r} /\ M' \ {r} = M \ {r}
      BY <1>4, <1>6
    <2>1. CASE UserFind(r)
      <3>1. r \notin S /\ r \notin M /\ r \notin S' /\ r \notin M'
        BY <1>0, <1>5, <2>1 DEF UserFind, AtKey
      <3>2. S' = S /\ M' = M
        BY <2>0, <3>1
      <3>3. UNCHANGED <<mails, markers>>
        BY <2>1 DEF UserFind
      <3> QED
        BY <1>2, <2>0, <3>2, <3>3, CountFrom
    <2>2. CASE Look(r)
      <3>1. r \notin S /\ r \notin M /\ r \notin M' /\ UNCHANGED <<mails, markers>>
        BY <1>0, <1>5, <2>2 DEF Look, AtKey
      <3>2. CASE r \notin S'
        <4>1. S' = S /\ M' = M
          BY <2>0, <3>1, <3>2
        <4> QED
          BY <1>2, <2>0, <3>1, <4>1, CountFrom
      <3>3. CASE r \in S'
        <4>1. pc'[r] = "send" /\ Key(r)' = k
          BY <3>3 DEF AtKey
        <4>2. UNCHANGED listed
          BY <1>5, <2>2, <3>3 DEF Look
        <4>3. Key(r) = k
          BY <4>1, <4>2 DEF Key
        <4>4. k \notin markers
          BY <2>2, <4>1, <4>3 DEF Look
        <4>5. MarkerAlive(k, now)
          BY <2>2, <4>3, KeyIs DEF Look
        <4>6. mails[k] <= Cardinality(M)
          BY <1>3, <4>4, <4>5
        <4>7. S' \in SUBSET Replicas /\ S' \cap M = {} /\ M' = M
          BY <1>1, <2>0, <3>1
        <4>8. Cardinality(S') + Cardinality(M) <= Cardinality(Replicas)
          BY <1>1, <4>7, DisjointSizes
        <4>9. Cardinality(S') \in Nat
          BY <4>7, SubsetSize
        <4> QED
          BY <1>0, <1>1, <3>1, <4>6, <4>7, <4>8, <4>9
      <3> QED
        BY <3>2, <3>3
    <2>3. CASE SendPasswordExpiryReminderEmail(r)
      <3>0. Key(r) \in Keys /\ pc[r] = "send" /\ UNCHANGED markers
        BY <2>3, KeyIs DEF SendPasswordExpiryReminderEmail
      <3>1. r \notin M /\ r \notin S'
        BY <1>0, <1>5, <2>3 DEF SendPasswordExpiryReminderEmail, AtKey
      <3>2. CASE Key(r) # k
        <4>1. mails'[k] = mails[k]
          BY <2>3, <3>0, <3>2, MailedFacts DEF SendPasswordExpiryReminderEmail
        <4>2. r \notin M'
          BY <1>5, <2>3, <3>2 DEF SendPasswordExpiryReminderEmail, AtKey, Key
        <4>3. S' \subseteq S /\ M' = M
          BY <2>0, <3>1, <4>2
        <4> QED
          BY <1>2, <2>0, <3>0, <4>1, <4>3, CountFrom
      <3>3. CASE Key(r) = k /\ Finish(r) /\ UNCHANGED mails
        <4>1. S' \subseteq S /\ M' = M /\ mails'[k] = mails[k]
          BY <1>5, <2>0, <3>1, <3>3
        <4> QED
          BY <1>2, <2>0, <3>0, <4>1, CountFrom
      <3>4. CASE /\ Key(r) = k /\ Mailed(Key(r)) /\ UNCHANGED listed
                 /\ pc' = [pc EXCEPT ![r] = "mark"]
        <4>1. r \in S /\ S' = S \ {r}
          BY <2>0, <3>0, <3>1, <3>4 DEF AtKey
        <4>2. r \in M' /\ M' = M \cup {r}
          <5>1. pc'[r] = "mark" /\ Key(r)' = k
            BY <1>0, <3>4 DEF Key
          <5>2. r \in M'
            BY <5>1 DEF AtKey
          <5> QED
            BY <2>0, <3>1, <5>2
        <4>3. Cardinality(S \ {r}) = Cardinality(S) - 1 /\ Cardinality(S) \in Nat
          BY <1>1, <4>1, FS_RemoveElement
        <4>4. Cardinality(M \cup {r}) = Cardinality(M) + 1
          BY <1>1, <3>1, FS_AddElement
        <4>5. Cardinality(S) # 0
          BY <1>1, <4>1, FS_EmptySet
        <4>6. mails[k] <= Cardinality(Replicas)
          BY <1>0, <1>1, <1>3
        <4>7. mails'[k] = mails[k] + 1
          BY <3>0, <3>4, <4>6, MailedFacts
        <4>8. MarkerAlive(k, now)
          BY <3>0, <3>4, KeyIs
        <4>9. mails'[k] + Cardinality(S') <= Cardinality(Replicas)
          <5>1. Cardinality(S') = Cardinality(S) - 1
            BY <4>1, <4>3
          <5> QED
            BY <1>0, <1>1, <1>3, <4>7, <5>1
        <4>10. k \notin markers' => mails'[k] <= Cardinality(M')
          <5>1. k \notin markers' => mails[k] <= Cardinality(M)
            BY <1>3, <3>0, <4>8
          <5>2. Cardinality(M') = Cardinality(M) + 1
            BY <4>2, <4>4
          <5> QED
            BY <1>0, <1>1, <4>7, <5>1, <5>2
        <4> QED
          BY <4>9, <4>10
      <3> QED
        BY <2>3, <3>2, <3>3, <3>4 DEF SendPasswordExpiryReminderEmail
    <2>4. CASE SetMarker(r)
      <3>1. r \notin S /\ r \notin S' /\ r \notin M' /\ mails'[k] = mails[k]
        BY <1>0, <1>5, <2>4 DEF SetMarker, AtKey
      <3>2. S' = S
        BY <2>0, <3>1
      <3>3. Key(r) = k => k \in markers'
        BY <2>4 DEF SetMarker
      <3>4. Key(r) # k => r \notin M
        BY DEF AtKey
      <3>5. k \notin markers' => k \notin markers
        BY <2>4 DEF SetMarker
      <3>6. k \notin markers' => M' = M
        BY <2>0, <3>1, <3>3, <3>4
      <3> QED
        BY <1>2, <2>0, <3>1, <3>2, <3>5, <3>6, CountFrom
    <2>5. CASE Restart(r)
      <3>1. r \notin S' /\ r \notin M' /\ mails'[k] = mails[k]
        BY <1>0, <2>5 DEF Restart, AtKey
      <3>2. S' \subseteq S
        BY <2>0, <3>1
      <3>3. r \notin M
        BY <2>5 DEF Restart, AtKey
      <3>4. k \notin markers' => k \notin markers
        BY <2>5 DEF Restart
      <3>5. M' = M
        BY <2>0, <3>1, <3>3
      <3> QED
        BY <1>2, <2>0, <3>1, <3>2, <3>4, <3>5, CountFrom
    <2> QED
      BY <1>6, <2>1, <2>2, <2>3, <2>4, <2>5 DEF ReplicaStep
  <1>7. CASE DirectoryChange \/ UNCHANGED reminderVars
    <2>1. UNCHANGED <<pc, listed, mails, markers, now>>
      BY <1>7 DEF DirectoryChange, reminderVars
    <2>2. S' = S /\ M' = M
      BY <2>1 DEF AtKey, Key
    <2> QED
      BY <1>2, <2>1, <2>2, CountFrom
  <1>8. CASE Tick
    <2>1. UNCHANGED <<pc, listed, mails>> /\ now \in Nat /\ now' = now + 1
      BY <1>0, <1>8, Sizes DEF Tick, ReminderTypeOK
    <2>2. S' = S /\ M' = M
      BY <2>1 DEF AtKey, Key
    <2>3. k[1] \in Nat /\ Grace \in Nat
      <3>1. k[1] \in Dates
        BY DEF Keys
      <3> QED
        BY <3>1, Sizes
    <2>4. MarkerAlive(k, now') => MarkerAlive(k, now)
      BY <2>1, <2>3 DEF MarkerAlive
    <2>5. MarkerAlive(k, now') /\ k \in markers => k \in markers'
      BY <1>8 DEF Tick
    <2> QED
      BY <1>2, <2>1, <2>2, <2>4, <2>5, CountFrom
  <1> QED
    BY <1>6, <1>7, <1>8, Steps
-----------------------------------------------------------------------------
(* Reminders stay sent as long as the date does not change.                *)
LEMMA RemindedStays ==
  ASSUME SweepType, [ReminderNext]_reminderVars, expire' = expire, NEW left \in Int, RemindedAt(left)
  PROVE  \A w \in Windows : left <= w =>
            \E v \in Windows : v <= w /\ mails'[<<expire', v>>] > 0
  <1>1. expire \in Dates
    BY DEF SweepType, ReminderTypeOK
  <1>2. ASSUME NEW w \in Windows, left <= w
        PROVE  \E v \in Windows : v <= w /\ mails'[<<expire', v>>] > 0
    <2>3. PICK v \in Windows : v <= w /\ mails[<<expire, v>>] > 0
      BY <1>2 DEF RemindedAt
    <2>4. <<expire, v>> \in Keys
      BY <1>1 DEF Keys
    <2>5. mails'[<<expire, v>>] > 0
      BY <2>3, <2>4, MailsGrow
    <2> QED
      BY <2>3, <2>5
  <1> QED
    BY <1>2

(* A replica that finds a marker, or has sent the mail, has reminded of    *)
(* all windows the listed time was in: the tightest counts for the others. *)
LEMMA RemindedNow ==
  ASSUME SweepType, [ReminderNext]_reminderVars, NEW r \in Replicas, pc[r] # "sleep", UNCHANGED directory,
         mails[Key(r)] > 0, OnTime(r), steady \in Nat
  PROVE  steady + Interval <= Round \/ Reminded(SweepTime)'
  <1>0. /\ now \in Int /\ expire \in Int /\ SweepTime \in Nat /\ Interval \in Nat
        /\ timer[r] \in Nat /\ UNCHANGED <<now, expire>>
    BY Sizes DEF SweepType, ReminderTypeOK, directory
  <1>1. CASE steady + timer[r] <= SweepTime
    BY <1>0, <1>1 DEF Round
  <1>2. CASE listed[r] = <<expire, expire - now + SweepTime - timer[r]>>
    <2>1. /\ Key(r) \in Keys /\ listed[r][2] \in Within
          /\ Key(r) = <<expire, Tightest(listed[r][2])>>
          /\ listed[r][2] = expire - now + SweepTime - timer[r]
      BY <1>2, KeyIs DEF Key
    <2>2. ASSUME NEW w \in Windows, expire - now + SweepTime <= w
          PROVE  \E v \in Windows : v <= w /\ mails'[<<expire, v>>] > 0
      <3>1. w \in Int /\ listed[r][2] <= w
        BY <1>0, <2>1, <2>2, Sizes
      <3>2. Tightest(listed[r][2]) \in Windows /\ Tightest(listed[r][2]) <= w
        BY <2>1, <3>1, TightestIs
      <3>3. mails'[Key(r)] > 0
        BY <2>1, MailsGrow
      <3> QED
        BY <2>1, <3>2, <3>3
    <2>3. Reminded(SweepTime)'
      BY <1>0, <2>2 DEF Reminded, RemindedAt
    <2> QED
      BY <2>3
  <1> QED
    BY <1>1, <1>2 DEF OnTime

(* Every step keeps the pace: listing starts a new round, a marker or a    *)
(* mail ends it, a failure or a change in FreeIPA resets steady, and a     *)
(* tick makes everything one tick older.                                   *)
LEMMA TimeStep == SweepType /\ MarkInv /\ TimeInv /\ [ReminderNext]_reminderVars => TimeInv'
  <1> SUFFICES ASSUME SweepType, MarkInv, TimeInv, [ReminderNext]_reminderVars, ~locked', expire' > now',
                      NEW q \in Replicas
               PROVE  OnTime(q)'
    BY DEF TimeInv
  <1>0. SweepType'
    BY SweepStep
  <1>1. /\ Interval \in Nat /\ SweepTime \in Nat /\ Round \in Nat /\ Round = Interval + SweepTime
        /\ Slack \in Nat /\ now \in Nat /\ expire \in Nat /\ steady \in Nat /\ timer[q] \in Nat
        /\ now' \in Nat /\ expire' \in Nat /\ steady' \in Nat /\ timer'[q] \in Nat
        /\ timer \in [Replicas -> Nat]
    BY <1>0, Sizes DEF SweepType, ReminderTypeOK, Round
  <1>2. CASE steady' = 0
    BY <1>0, <1>1, <1>2 DEF SweepType, SweepInv, OnTime
  <1>3. ASSUME UNCHANGED directory, steady' = steady PROVE OnTime(q) /\ UNCHANGED <<now, expire>>
    BY <1>3 DEF TimeInv, directory
  <1>4. ASSUME UNCHANGED directory, steady' = steady, timer'[q] = timer[q], listed'[q] = listed[q],
               pc'[q] = "sleep" <=> pc[q] = "sleep"
        PROVE  OnTime(q)'
    <2>1. OnTime(q) /\ UNCHANGED <<now, expire>>
      BY <1>3, <1>4
    <2>2. ASSUME NEW a \in Int, Reminded(a)
          PROVE  \A w \in Windows : expire' - now' + a <= w =>
                    \E v \in Windows : v <= w /\ mails'[<<expire', v>>] > 0
      <3>1. RemindedAt(expire - now + a)
        BY <2>2 DEF Reminded, RemindedAt
      <3>2. expire - now + a \in Int
        BY <1>1
      <3> QED
        BY <2>1, <3>1, <3>2, RemindedStays
    <2>3. CASE pc[q] = "sleep"
      <3>1. Round - timer[q] \in Int
        BY <1>1
      <3>2. CASE Reminded(Round - timer[q])
        BY <1>4, <2>2, <2>3, <3>1, <3>2 DEF OnTime, Reminded, RemindedAt
      <3>3. CASE steady + timer[q] <= Round
        BY <1>4, <2>3, <3>3 DEF OnTime
      <3> QED
        BY <2>1, <2>3, <3>2, <3>3 DEF OnTime
    <2>4. CASE pc[q] # "sleep"
      <3>1. Round + SweepTime - timer[q] \in Int
        BY <1>1
      <3>2. CASE steady + timer[q] <= SweepTime
        BY <1>4, <2>4, <3>2 DEF OnTime
      <3>3. CASE /\ listed[q] = <<expire, expire - now + SweepTime - timer[q]>>
                 /\ steady + timer[q] <= Round + SweepTime
        BY <1>4, <2>1, <2>4, <3>3 DEF OnTime
      <3>4. CASE /\ listed[q] = <<expire, expire - now + SweepTime - timer[q]>>
                 /\ Reminded(Round + SweepTime - timer[q])
        BY <1>4, <2>1, <2>2, <2>4, <3>1, <3>4 DEF OnTime, Reminded, RemindedAt
      <3> QED
        BY <2>1, <2>4, <3>2, <3>3, <3>4 DEF OnTime
    <2> QED
      BY <2>3, <2>4
  <1>5. ASSUME UNCHANGED directory, steady' = steady, Finish(q),
               steady + Interval <= Round \/ Reminded(SweepTime)'
        PROVE  OnTime(q)'
    <2>1. pc'[q] = "sleep" /\ timer'[q] = Interval /\ Round - Interval = SweepTime
      BY <1>1, <1>5, FinishFacts
    <2>2. Reminded(Round - timer[q])' <=> Reminded(SweepTime)'
      BY <2>1 DEF Reminded, RemindedAt
    <2> QED
      BY <1>5, <2>1, <2>2 DEF OnTime
  <1>6. ASSUME NEW r \in Replicas, ReplicaStep(r), steady' = steady, steady' # 0 PROVE OnTime(q)'
    <2>0. UNCHANGED directory
      BY <1>6, ReplicaFacts
    <2>1. CASE q # r
      BY <1>4, <1>6, <2>0, <2>1, ReplicaFacts
    <2>2. CASE q = r
      <3>0. OnTime(q) /\ UNCHANGED <<now, expire, locked>> /\ ~locked /\ expire > now
        BY <1>3, <1>6, <2>0 DEF directory
      <3>0a. /\ pc \in [Replicas -> {"sleep", "look", "send", "mark"}]
             /\ DOMAIN timer = Replicas /\ DOMAIN listed = Replicas
        BY DEF SweepType, ReminderTypeOK
      <3>1. CASE UserFind(q)
        <4>1. CASE Skipped(expire - now) /\ Finish(q)
          <5>1. \A w \in Windows : expire - now > w
            BY <1>1, <3>0, <4>1 DEF Skipped
          <5>2. ASSUME NEW w \in Windows PROVE ~(expire - now + SweepTime <= w)
            BY <1>1, <5>1, Sizes
          <5>3. Reminded(SweepTime)'
            BY <3>0, <5>2 DEF Reminded, RemindedAt
          <5> QED
            BY <1>5, <1>6, <2>0, <4>1, <5>3
        <4>2. CASE /\ pc' = [pc EXCEPT ![q] = "look"]
                   /\ timer' = [timer EXCEPT ![q] = SweepTime]
                   /\ listed' = [listed EXCEPT ![q] = <<expire, expire - now>>]
          <5>1. pc'[q] = "look" /\ timer'[q] = SweepTime /\ listed'[q] = <<expire, expire - now>>
            BY <3>0a, <4>2
          <5>2. pc[q] = "sleep" /\ timer[q] = 0
            BY <3>1 DEF UserFind
          <5>3. steady <= Round \/ Reminded(Round)
            BY <1>1, <3>0, <5>2 DEF OnTime
          <5>4. CASE steady <= Round
            BY <1>1, <1>6, <3>0, <5>1, <5>4 DEF OnTime
          <5>5. CASE Reminded(Round)
            <6>1. \A w \in Windows : expire' - now' + Round <= w =>
                    \E v \in Windows : v <= w /\ mails'[<<expire', v>>] > 0
              <7>1. RemindedAt(expire - now + Round)
                BY <5>5 DEF Reminded, RemindedAt
              <7>2. expire - now + Round \in Int
                BY <1>1
              <7> QED
                BY <3>0, <7>1, <7>2, RemindedStays
            <6>2. Round + SweepTime - timer'[q] = Round
                  /\ expire' - now' + SweepTime - timer'[q] = expire - now
              BY <1>1, <3>0, <5>1
            <6>3. Reminded(Round + SweepTime - timer[q])'
              BY <6>1, <6>2 DEF Reminded, RemindedAt
            <6> QED
              BY <3>0, <5>1, <6>2, <6>3 DEF OnTime
          <5> QED
            BY <5>3, <5>4, <5>5
        <4> QED
          BY <1>6, <3>1, <4>1, <4>2 DEF UserFind
      <3>2. CASE Look(q)
        <4>1. CASE Finish(q) /\ Key(q) \in markers
          <5>1. mails[Key(q)] > 0
            BY <4>1 DEF MarkInv
          <5>2. pc[q] # "sleep"
            BY <3>2 DEF Look
          <5>3. steady + Interval <= Round \/ Reminded(SweepTime)'
            BY <1>1, <2>0, <3>0, <5>1, <5>2, RemindedNow
          <5> QED
            BY <1>5, <1>6, <2>0, <4>1, <5>3
        <4>2. CASE pc' = [pc EXCEPT ![q] = "send"] /\ UNCHANGED <<timer, listed>>
          <5>1. pc'[q] = "send" /\ pc[q] = "look"
            BY <3>0a, <3>2, <4>2 DEF Look
          <5> QED
            BY <1>4, <1>6, <2>0, <4>2, <5>1
        <4> QED
          BY <3>2, <4>1, <4>2 DEF Look
      <3>3. CASE SendPasswordExpiryReminderEmail(q)
        <4>1. pc[q] = "send" /\ pc'[q] = "mark" /\ UNCHANGED <<timer, listed>>
          BY <1>6, <3>0a, <3>3 DEF SendPasswordExpiryReminderEmail
        <4> QED
          BY <1>4, <1>6, <2>0, <4>1
      <3>4. CASE SetMarker(q)
        <4>1. pc[q] # "sleep" /\ mails[Key(q)] > 0 /\ Finish(q)
          BY <3>4 DEF SetMarker, MarkInv
        <4>2. steady + Interval <= Round \/ Reminded(SweepTime)'
          BY <1>1, <2>0, <3>0, <4>1, RemindedNow
        <4> QED
          BY <1>5, <1>6, <2>0, <4>1, <4>2
      <3>5. CASE Restart(q)
        BY <1>6, <3>5 DEF Restart
      <3> QED
        BY <1>6, <2>2, <3>1, <3>2, <3>3, <3>4, <3>5 DEF ReplicaStep
    <2> QED
      BY <2>1, <2>2
  <1>7. ASSUME NEW r \in Replicas, ReplicaStep(r) PROVE steady' \in {0, steady}
    BY <1>7 DEF ReplicaStep, UserFind, Look, SendPasswordExpiryReminderEmail, SetMarker, Restart
  <1>8. CASE DirectoryChange
    BY <1>2, <1>8 DEF DirectoryChange
  <1>9. CASE UNCHANGED reminderVars
    BY <1>4, <1>9 DEF reminderVars, directory
  <1>10. CASE Tick
    <2>1. /\ UNCHANGED <<expire, locked, pc, listed>> /\ now' = now + 1
          /\ timer[q] > 0 /\ timer'[q] = timer[q] - 1
      BY <1>10 DEF Tick
    <2>2. OnTime(q)
      BY <1>1, <2>1 DEF TimeInv
    <2>3. steady' <= steady + 1
      <3>1. {steady + 1, Slack} \in SUBSET Nat /\ {steady + 1, Slack} # {}
        BY <1>1
      <3>2. steady' = Min({steady + 1, Slack})
        BY <1>10 DEF Tick
      <3> QED
        BY <3>1, <3>2, LeastIn
    <2>4. ASSUME NEW a \in Int, Reminded(a)
          PROVE  \A w \in Windows : expire' - now' + (a + 1) <= w =>
                    \E v \in Windows : v <= w /\ mails'[<<expire', v>>] > 0
      <3>1. RemindedAt(expire - now + a)
        BY <2>4 DEF Reminded, RemindedAt
      <3>2. expire - now + a \in Int /\ expire' - now' + (a + 1) = expire - now + a
        BY <1>1, <2>1
      <3> QED
        BY <2>1, <3>1, <3>2, RemindedStays
    <2>5. CASE pc[q] = "sleep"
      <3>1. Round - timer[q] \in Int /\ (Round - timer[q]) + 1 = Round - timer'[q]
        BY <1>1, <2>1
      <3>2. CASE Reminded(Round - timer[q])
        <4>1. Reminded(Round - timer[q])'
          BY <2>4, <3>1, <3>2 DEF Reminded, RemindedAt
        <4> QED
          BY <2>1, <2>5, <4>1 DEF OnTime
      <3>3. CASE steady + timer[q] <= Round
        <4>1. steady' + timer'[q] <= Round
          BY <1>1, <2>1, <2>3, <3>3
        <4> QED
          BY <2>1, <2>5, <4>1 DEF OnTime
      <3> QED
        BY <2>2, <2>5, <3>2, <3>3 DEF OnTime
    <2>6. CASE pc[q] # "sleep"
      <3>1. /\ Round + SweepTime - timer[q] \in Int
            /\ (Round + SweepTime - timer[q]) + 1 = Round + SweepTime - timer'[q]
            /\ expire' - now' + SweepTime - timer'[q] = expire - now + SweepTime - timer[q]
        BY <1>1, <2>1
      <3>2. CASE steady + timer[q] <= SweepTime
        <4>1. steady' + timer'[q] <= SweepTime
          BY <1>1, <2>1, <2>3, <3>2
        <4> QED
          BY <2>1, <2>6, <4>1 DEF OnTime
      <3>3. CASE /\ listed[q] = <<expire, expire - now + SweepTime - timer[q]>>
                 /\ steady + timer[q] <= Round + SweepTime
        <4>1. steady' + timer'[q] <= Round + SweepTime
          BY <1>1, <2>1, <2>3, <3>3
        <4>2. listed'[q] = <<expire', expire' - now' + SweepTime - timer'[q]>>
          BY <2>1, <3>1, <3>3
        <4> QED
          BY <2>1, <2>6, <4>1, <4>2 DEF OnTime
      <3>4. CASE /\ listed[q] = <<expire, expire - now + SweepTime - timer[q]>>
                 /\ Reminded(Round + SweepTime - timer[q])
        <4>1. Reminded(Round + SweepTime - timer[q])'
          BY <2>4, <3>1, <3>4 DEF Reminded, RemindedAt
        <4>2. listed'[q] = <<expire', expire' - now' + SweepTime - timer'[q]>>
          BY <2>1, <3>1, <3>4
        <4> QED
          BY <2>1, <2>6, <4>1, <4>2 DEF OnTime
      <3> QED
        BY <2>2, <2>6, <3>2, <3>3, <3>4 DEF OnTime
    <2> QED
      BY <2>5, <2>6
  <1> QED
    BY <1>2, <1>6, <1>7, <1>8, <1>9, <1>10, Steps
-----------------------------------------------------------------------------
(* Every step keeps the invariant.                                         *)
LEMMA ReminderInvStep == ReminderInv /\ [ReminderNext]_reminderVars => ReminderInv'
  BY SweepStep, MarkStep, CountStep, TimeStep DEF ReminderInv

(* It is stronger than the three statements about the reminders.           *)
LEMMA ReminderInvImplies == ReminderInv => ReminderTypeOK /\ OncePerWindow /\ RemindedInTime
  <1> SUFFICES ASSUME ReminderInv PROVE ReminderTypeOK /\ OncePerWindow /\ RemindedInTime
    OBVIOUS
  <1>1. ReminderTypeOK /\ SweepType
    BY DEF ReminderInv, SweepType
  <1>2. OncePerWindow
    <2>1. ASSUME NEW k \in Keys, k \notin unmarked PROVE mails[k] <= Cardinality(Replicas)
      <3>1. AtKey("send", k) \in SUBSET Replicas
        BY DEF AtKey
      <3>2. Cardinality(AtKey("send", k)) \in Nat
        BY <3>1, SubsetSize
      <3>3. mails[k] + Cardinality(AtKey("send", k)) <= Cardinality(Replicas)
        BY <2>1 DEF ReminderInv, CountInv
      <3>4. mails[k] \in Nat /\ Cardinality(Replicas) \in Nat
        BY <1>1, Sizes DEF ReminderTypeOK
      <3> QED
        BY <3>2, <3>3, <3>4
    <2> QED
      BY <2>1 DEF OncePerWindow
  <1>3. RemindedInTime
    <2> SUFFICES ASSUME ~locked, expire > now, steady = Slack,
                        NEW w \in Windows, expire - now + Slack <= w
                 PROVE  \E v \in Windows : v <= w /\ mails[<<expire, v>>] > 0
      BY DEF RemindedInTime
    <2>1. PICK r \in Replicas : TRUE
      BY ReminderConstants
    <2>2. OnTime(r)
      BY DEF ReminderInv, TimeInv
    <2>3. /\ Interval \in Nat /\ SweepTime \in Nat /\ Slack = Interval + 2 * SweepTime + 1
          /\ Round = Interval + SweepTime
          /\ now \in Nat /\ expire \in Nat /\ timer[r] \in Nat /\ w \in Nat
      BY <1>1, Sizes DEF ReminderTypeOK, Round, Slack
    <2>4. Reminded(Round - timer[r]) \/ Reminded(Round + SweepTime - timer[r])
      BY <2>2, <2>3 DEF OnTime
    <2>5. /\ expire - now + (Round - timer[r]) <= w
          /\ expire - now + (Round + SweepTime - timer[r]) <= w
      BY <2>3
    <2> QED
      BY <2>4, <2>5 DEF Reminded, RemindedAt
  <1> QED
    BY <1>1, <1>2, <1>3

(* The invariant holds throughout: replicas that share nothing but the     *)
(* markers of expiry.go keep count and pace.                               *)
THEOREM ReminderInvHolds == ReminderSpec => []ReminderInv
  BY ReminderInvInit, ReminderInvStep, PTL DEF ReminderSpec

(* The types, for any replicas, windows and times (expiry.go).             *)
THEOREM ReminderTypeCorrect == ReminderSpec => []ReminderTypeOK
  BY ReminderInvHolds, ReminderInvImplies, PTL

(* Sweeps of several replicas look, send and mark without a lock, and a    *)
(* user still gets no more reminders for a window than there are replicas, *)
(* unless a marker could not be set, read or kept.                         *)
THEOREM OneReminderPerReplica == ReminderSpec => []OncePerWindow
  BY ReminderInvHolds, ReminderInvImplies, PTL

(* Once nothing has failed or changed for two sweeps, a password in a      *)
(* window has been reminded of, whatever happened before (expiry.go        *)
(* retries in the next sweep).                                             *)
THEOREM RemindersComeInTime == ReminderSpec => []RemindedInTime
  BY ReminderInvHolds, ReminderInvImplies, PTL
=============================================================================
