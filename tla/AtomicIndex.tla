---------------------------- MODULE AtomicIndex ----------------------------
(***************************************************************************)
(* What mokey's guarded storage lists promise to their users: the session  *)
(* index of a user, the request queue of a group and the OTP recovery      *)
(* queue are lists that every operation edits in ONE step, until the lock  *)
(* in front of them is degraded (a lock error or timeout, a lock that      *)
(* outlived its TTL, a failed read).  After that an edit may replace the   *)
(* list by one made from an older copy of it.                              *)
(*                                                                         *)
(* The edits are described by what they must leave alone, not by how the   *)
(* code computes them.  StoreLock.tla is shown to implement this.          *)
(***************************************************************************)
EXTENDS Naturals, Filter

CONSTANTS Entries,      \* what the list can hold
          Max           \* how many sessions are remembered

VARIABLES queue,        \* is the list a request queue (or a session index)?
          list,         \* the stored list
          degraded      \* has the lock ever failed to protect an edit?

In(e, s) == \E i \in 1..Len(s) : s[i] = e

AInit == list \in Seq(Entries) /\ degraded = FALSE

(* A session is recorded: it becomes the newest, and the others are the    *)
(* newest of those that were there before, in their order - all of them    *)
(* unless the index is full, else the Max - 1 newest.                      *)
Record(e) ==
    LET others == Keep(list, Entries \ {e})
    IN /\ ~queue
       /\ \E kept \in 0..Len(others) :
            /\ kept = Len(others) \/ (kept < Len(others) /\ kept = Max - 1)
            /\ kept < Max
            /\ Len(list') = kept + 1
            /\ list'[kept + 1] = e
            /\ \A i \in 1..kept : list'[i] = others[Len(others) - kept + i]

(* Sessions leave the index: those that stay keep their order.             *)
Forget(S) == ~queue /\ list' = Keep(list, Entries \ S)

(* A request is queued once, behind the others ...                         *)
Enqueue(e) == queue /\ ~In(e, list) /\ list' = Append(list, e)

(* ... and leaves the queue without taking another one with it.            *)
Answer(e) == queue /\ list' = Keep(list, Entries \ {e})

Edit == /\ list' # list
        /\ \/ \E e \in Entries : Record(e) \/ Enqueue(e) \/ Answer(e)
           \/ \E S \in SUBSET Entries : Forget(S)
        /\ UNCHANGED <<queue, degraded>>

(* The lock stops protecting somebody's edit.                              *)
ADegrade == degraded' = TRUE /\ UNCHANGED <<queue, list>>

(* An edit based on a stale (or failed) read of the list.                  *)
StaleEdit == /\ degraded
             /\ list' \in Seq(Entries)
             /\ UNCHANGED <<queue, degraded>>

ANext == Edit \/ ADegrade \/ StaleEdit

ASpec == AInit /\ [][ANext]_<<queue, list, degraded>>
=============================================================================
