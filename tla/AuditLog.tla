------------------------------ MODULE AuditLog ------------------------------
(***************************************************************************)
(* The audit trail: server/audit.go, incr of server/storelock.go and the   *)
(* events endpoint of server/api.go.  Events are kept in a ring of storage *)
(* keys: a writer takes the next sequence number and then, in a second     *)
(* storage call, writes the slot the number falls on.  Two readers go      *)
(* through the ring one Get at a time while writers go on: the events API, *)
(* polled with a cursor, and the "most recent" lists of the admin and the  *)
(* Security page.  An event is identified with its sequence number.        *)
(***************************************************************************)
EXTENDS Integers, Sequences

CONSTANTS
    Writers,        \* requests logging AUDIT events at the same time
    auditRingSize,
    Limit,          \* page size of the API, length of the recent list
    Legacy,         \* events written before v2.8: their entries carry no seq
    MaxSeq,         \* bound: events per run of the server
    MaxRestarts,    \* bound: restarts that lose the storage
    faults          \* do single storage calls fail?

ASSUME AuditConstants ==
    /\ auditRingSize \in Nat \ {0} /\ Limit \in Nat \ {0}
    /\ MaxSeq \in Nat /\ MaxRestarts \in Nat /\ Legacy \in 0..MaxSeq
    /\ faults \in BOOLEAN

VARIABLES
    seq,        \* the counter auditSeqKey
    slot,       \* slot[k]: number of the event stored there, 0 if none
    num,        \* num[w]: number w has taken and not yet stored, 0 if none
    reader,     \* "idle", "after" (the API) or "recent"
    top, at,    \* reader: counter it read, number it looks at next
    got,        \* reader: events collected so far
    cursor,     \* the API client's cursor
    restarts,
    delivered,  \* ghost: events the API client has received
    late,       \* ghost: events it cannot be shown: stored when the cursor or
                \* the reader was past them, or hidden by a failed Get or by
                \* an entry without a number
    holes,      \* ghost: numbers whose event was never stored, or replaced
                \* by an older one whose writer was a whole round slower
    quiet       \* ghost: no number outstanding since the reader started

vars == <<seq, slot, num, reader, top, at, got, cursor, restarts, delivered,
          late, holes, quiet>>
scan == <<reader, top, at, got>>

Slots == 0..(auditRingSize - 1)
Outstanding == \E w \in Writers : num[w] # 0
Max2(a, b) == IF a > b THEN a ELSE b

(* In the ring's reach of a reader that read the counter as n, nothing is  *)
(* missing.                                                                *)
Complete(n) == ~\E s \in holes : s > n - auditRingSize

(* Was event e stored without its number?                                  *)
Unnumbered(e) == restarts = 0 /\ e \in 1..Legacy

(* The ring holds what an earlier version left there.                      *)
Init ==
    /\ seq = Legacy
    /\ slot \in [Slots -> 0..Legacy]
    /\ \A k \in Slots : slot[k] # 0 => slot[k] % auditRingSize = k
    /\ \A s \in 1..Legacy : s > Legacy - auditRingSize => slot[s % auditRingSize] = s
    /\ num = [w \in Writers |-> 0]
    /\ reader = "idle" /\ top = 0 /\ at = 0 /\ got = <<>>
    /\ cursor = 0 /\ restarts = 0
    /\ delivered = {} /\ late = {} /\ holes = {}
    /\ quiet = FALSE

-----------------------------------------------------------------------------
(* record: take a number.  (incr is atomic: INCR, or under the lock; see   *)
(* StoreLock.tla.  An error of incr loses the event and nothing else.)     *)
Incr(w) ==
    /\ num[w] = 0 /\ seq < MaxSeq
    /\ seq' = seq + 1
    /\ num' = [num EXCEPT ![w] = seq + 1]
    /\ quiet' = FALSE
    /\ UNCHANGED <<slot, scan, cursor, restarts, delivered, late, holes>>

Passed(s) == s <= cursor \/ (reader = "after" /\ s < at)

(* record: store the event in its slot, or fail to.                        *)
Store(w) ==
    /\ num[w] # 0
    /\ num' = [num EXCEPT ![w] = 0]
    /\ \/ /\ slot' = [slot EXCEPT ![num[w] % auditRingSize] = num[w]]
          /\ late' = IF Passed(num[w]) THEN late \cup {num[w]} ELSE late
          /\ holes' = LET old == slot[num[w] % auditRingSize]
                      IN IF old > num[w] THEN holes \cup {old} ELSE holes
       \/ /\ faults
          /\ holes' = holes \cup {num[w]}
          /\ UNCHANGED <<slot, late>>
    /\ UNCHANGED <<seq, scan, cursor, restarts, delivered, quiet>>

-----------------------------------------------------------------------------
(* The counter as a reader sees it: a failed Get reads as 0.               *)
Counter == {seq} \cup (IF faults THEN {0} ELSE {})

(* auditAfter: the counter, and where to begin: after the cursor (a cursor *)
(* ahead of the counter counts as 0), but not further back than the ring.  *)
FirstAfter(n) == Max2(IF cursor > n THEN 0 ELSE cursor, n - auditRingSize) + 1

AuditAfter ==
    /\ reader = "idle"
    /\ \E n \in Counter : top' = n /\ at' = FirstAfter(n)
    /\ reader' = "after" /\ got' = <<>>
    /\ UNCHANGED <<seq, slot, num, cursor, restarts, delivered, late, holes, quiet>>

(* Mutant: the entry's own number is not compared.                         *)
AuditAfterGetAny ==
    /\ reader = "after" /\ at <= top /\ Len(got) < Limit
    /\ LET e == slot[at % auditRingSize]
       IN got' = IF e # 0 THEN Append(got, e) ELSE got
    /\ at' = at + 1
    /\ UNCHANGED <<seq, slot, num, reader, top, cursor, restarts, delivered, late,
                   holes, quiet>>

(* One Get: an event is taken only if the slot holds that very number.  An *)
(* entry without a number is taken for the one looked at, which it is not  *)
(* when that event's writer has not stored it yet; a failed Get is taken   *)
(* for an empty slot.                                                      *)
AuditAfterGet ==
    /\ reader = "after" /\ at <= top /\ Len(got) < Limit
    /\ LET e == slot[at % auditRingSize]
       IN \/ /\ got' = IF e = at \/ Unnumbered(e) THEN Append(got, at) ELSE got
             /\ late' = IF e # at /\ Unnumbered(e) THEN late \cup {at} ELSE late
          \/ faults /\ late' = late \cup {at} /\ UNCHANGED got
    /\ at' = at + 1
    /\ UNCHANGED <<seq, slot, num, reader, top, cursor, restarts, delivered, holes,
                   quiet>>

(* Mutant: "next" is the counter, even when the page was cut off.          *)
APIEventsNextIsTop ==
    /\ reader = "after" /\ (at > top \/ Len(got) = Limit)
    /\ cursor' = IF got = <<>> THEN cursor ELSE top
    /\ delivered' = delivered \cup {got[k] : k \in 1..Len(got)}
    /\ reader' = "idle" /\ top' = 0 /\ at' = 0 /\ got' = <<>>
    /\ UNCHANGED <<seq, slot, num, restarts, late, holes, quiet>>

(* APIEvents answers; "next" is the last event's number.  If the answer is *)
(* lost the client asks again with the cursor it had.                      *)
APIEvents ==
    /\ reader = "after" /\ (at > top \/ Len(got) = Limit)
    /\ \/ /\ cursor' = IF got = <<>> THEN cursor ELSE got[Len(got)]
          /\ delivered' = delivered \cup {got[k] : k \in 1..Len(got)}
       \/ UNCHANGED <<cursor, delivered>>
    /\ reader' = "idle" /\ top' = 0 /\ at' = 0 /\ got' = <<>>
    /\ UNCHANGED <<seq, slot, num, restarts, late, holes, quiet>>

-----------------------------------------------------------------------------
(* auditRecent: the counter, then downwards at most once around the ring.  *)
AuditRecent ==
    /\ reader = "idle"
    /\ \E n \in Counter : top' = n /\ at' = n
    /\ reader' = "recent" /\ got' = <<>>
    /\ quiet' = ~Outstanding
    /\ UNCHANGED <<seq, slot, num, cursor, restarts, delivered, late, holes>>

MoreRecent == at > 0 /\ at > top - auditRingSize /\ Len(got) < Limit

(* Mutant: the slots are read upwards.                                     *)
AuditRecentGetUp ==
    /\ reader = "recent" /\ MoreRecent
    /\ LET e == slot[(top - at) % auditRingSize]
       IN got' = IF e # 0 THEN Append(got, e) ELSE got
    /\ at' = at - 1
    /\ UNCHANGED <<seq, slot, num, reader, top, cursor, restarts, delivered, late,
                   holes, quiet>>

(* One Get: whatever the slot holds is taken.                              *)
AuditRecentGet ==
    /\ reader = "recent" /\ MoreRecent
    /\ LET e == slot[at % auditRingSize]
       IN \/ got' = IF e # 0 THEN Append(got, e) ELSE got
          \/ faults /\ UNCHANGED got
    /\ at' = at - 1
    /\ UNCHANGED <<seq, slot, num, reader, top, cursor, restarts, delivered, late,
                   holes, quiet>>

AdminAuditList ==
    /\ reader = "recent" /\ ~MoreRecent
    /\ reader' = "idle" /\ top' = 0 /\ at' = 0 /\ got' = <<>>
    /\ UNCHANGED <<seq, slot, num, cursor, restarts, delivered, late, holes, quiet>>

(* The server restarts and the storage is lost (it was in memory): counter *)
(* and ring are gone, the client's cursor is not.                          *)
Restart ==
    /\ restarts < MaxRestarts /\ restarts' = restarts + 1
    /\ seq' = 0 /\ slot' = [k \in Slots |-> 0]
    /\ num' = [w \in Writers |-> 0]
    /\ reader' = "idle" /\ top' = 0 /\ at' = 0 /\ got' = <<>>
    /\ delivered' = {} /\ late' = {} /\ holes' = {} /\ quiet' = FALSE
    /\ UNCHANGED cursor

Next ==
    \/ \E w \in Writers : Incr(w) \/ Store(w)
    \/ AuditAfter \/ AuditAfterGet \/ APIEvents
    \/ AuditRecent \/ AuditRecentGet \/ AdminAuditList
    \/ Restart

Spec == Init /\ [][Next]_vars

-----------------------------------------------------------------------------
Numbers == 0..MaxSeq

(* Types: slots and cursor hold event numbers, and a page is never longer  *)
(* than the limit (auditAfter, auditRecent).                               *)
TypeOK ==
    /\ seq \in Numbers /\ slot \in [Slots -> Numbers] /\ num \in [Writers -> Numbers]
    /\ reader \in {"idle", "after", "recent"}
    /\ top \in Numbers /\ at \in 0..(MaxSeq + 1)
    /\ got \in Seq(Numbers) /\ Len(got) <= Limit
    /\ cursor \in Numbers /\ restarts \in 0..MaxRestarts
    /\ delivered \in SUBSET Numbers /\ late \in SUBSET Numbers
    /\ holes \in SUBSET Numbers /\ quiet \in BOOLEAN

(* The events that are stored and among the last auditRingSize.            *)
Kept == {s \in {slot[k] : k \in Slots} : s > 0 /\ s > seq - auditRingSize}

(* The client gets every number once and in order (audit.go:180: "oldest   *)
(* first"), while writers wrap around the ring under the reader: a page    *)
(* goes up, and starts after the cursor unless the sequence restarted.     *)
EachOnceInOrder ==
    reader = "after" =>
      /\ \A j, k \in 1..Len(got) : j < k => got[j] < got[k]
      /\ \A k \in 1..Len(got) : got[k] \notin delivered
      /\ cursor <= top => \A k \in 1..Len(got) : got[k] > cursor

(* The cursor never moves past an event that the log keeps and that was    *)
(* not handed over, unless that event was stored after it was passed, a    *)
(* Get failed or an old entry without a number was taken for it: not when  *)
(* pages are cut off at the limit, answers are lost or the ring wraps      *)
(* under the reader.                                                       *)
NothingSkippedInTime ==
    \A s \in Kept : s <= cursor => s \in delivered \cup late

(* Without a writer between its two calls, and with no event missing, the  *)
(* recent list is newest first (audit.go:132).                             *)
NewestFirstWhenQuiet ==
    reader = "recent" /\ quiet /\ Complete(top) =>
        \A j, k \in 1..Len(got) : j < k => got[j] > got[k]

-----------------------------------------------------------------------------
(* What docs and comments say and the code does not keep; the README tells *)
(* how each statement fails.                                               *)

(* "Pass `next` as `after` on the next call; [...] a poller that falls     *)
(* further behind [than 1000 events] skips the oldest ones"                *)
(* (docs/guides/webhooks-api.md:141-143): a poller skips nothing that the  *)
(* log still keeps.                                                        *)
PollerSkipsNothing == \A s \in Kept : s <= cursor => s \in delivered

(* "auditRecent returns up to n most recent audit events, newest first"    *)
(* (audit.go:132).                                                         *)
NewestFirst ==
    reader = "recent" => \A j, k \in 1..Len(got) : j < k => got[j] > got[k]
=============================================================================
