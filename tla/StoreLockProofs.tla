-------------------------- MODULE StoreLockProofs --------------------------
(***************************************************************************)
(* The storage lock, for any number of replicas and requests, any TTL and  *)
(* any mix of guarded functions.                                           *)
(*                                                                         *)
(* The four safety invariants of StoreLock are not inductive.  They follow *)
(* from LockInv, which ties the ghosts to the redis key and the mutexes:   *)
(*   LeaseInv    a holder with time left owns the key, and its remaining   *)
(*               time is the key's remaining time;                         *)
(*   MutexInv    an active request holds its replica's mutex;              *)
(*   EditInv     until something degrades, an editing request has its lock *)
(*               and what it is about to save is its call's edit of the    *)
(*               stored list;                                              *)
(*   PatienceInv until a rival gets the key, the key a waiter is waiting   *)
(*               for dies at least one tick before its patience does.      *)
(*                                                                         *)
(* The second half of the module is about GroupRequests, whose queue is    *)
(* kept under this lock: see there.                                        *)
(***************************************************************************)
EXTENDS StoreLock, GroupRequests, FiniteSetTheorems, SequenceTheorems, TLAPS

LeaseInv == \A w \in Requests : lease[w] > 0 => owner = w /\ ttl = lease[w]

MutexInv == \A w \in Requests : Active(w) => mutex[Home[w]] = w

ModeInv == \A w \in Requests : /\ mode[w] = "locked" => redis
                               /\ mode[w] = "mutex" => ~redis
                               /\ pc[w] = "acquire" => redis

EditInv ==
    ~degraded =>
      /\ list = ideal
      /\ \A w \in Requests :
           /\ Editing(w) => mode[w] = "mutex" \/ (mode[w] = "locked" /\ lease[w] > 0)
           /\ pc[w] = "save" =>
                /\ call[w] \in CallsHere /\ Saves(call[w], list)
                /\ edited[w] = Apply(call[w], list)

PatienceInv ==
    \A w \in Requests :
      /\ pc[w] = "acquire" /\ w \notin beaten /\ ttl > 0
           => ttl + storeLockWait =< storeLockTTL + wait[w]
      /\ mode[w] = "timeout" => w \in beaten

LockInv == LeaseInv /\ MutexInv /\ ModeInv /\ EditInv /\ PatienceInv
-----------------------------------------------------------------------------
(* Every set of numbers has a least one.                                   *)
LEMMA LeastOf ==
  ASSUME NEW T \in SUBSET Nat, T # {}
  PROVE  \E x \in T : \A y \in T : x <= y
  <1>1. \E x \in T : \A y \in T : ~(<<y, x>> \in OpToRel(<, Nat))
    BY NatLessThanWellFounded, WFMin
  <1>2. PICK x \in T : \A y \in T : ~(<<y, x>> \in OpToRel(<, Nat))
    BY <1>1
  <1>3. \A y \in T : ~(y < x)
    BY <1>2 DEF OpToRel
  <1> QED
    BY <1>3

(* Nth is defined: a finite set of numbers has an n-th smallest for every  *)
(* n up to its size.                                                       *)
LEMMA NthExists ==
  ASSUME NEW P \in SUBSET Nat, IsFiniteSet(P), NEW m \in 1..Cardinality(P)
  PROVE  \E p \in P : Cardinality({r \in P : r <= p}) = m
  <1> DEFINE Below(p) == {r \in P : r <= p}
             Bad == {n \in 1..Cardinality(P) : ~ \E p \in P : Cardinality(Below(p)) = n}
  <1>0. Cardinality(P) \in Nat
    BY FS_CardinalityType
  <1> SUFFICES ASSUME Bad # {} PROVE FALSE
    OBVIOUS
  <1>1. PICK n \in Bad : \A y \in Bad : n <= y
    <2>1. Bad \in SUBSET Nat
      BY <1>0
    <2> QED
      BY <2>1, LeastOf
  <1>2. n \in 1..Cardinality(P) /\ n \in Nat
    BY <1>0
  <1>3. CASE n = 1
    <2>1. P # {}
      BY <1>2, <1>0, FS_EmptySet
    <2>2. PICK p \in P : \A y \in P : p <= y
      BY <2>1, LeastOf
    <2>3. Below(p) = {p}
      <3>1. \A r \in P : r <= p => r = p
        BY <2>2
      <3> QED
        BY <3>1, <2>2
    <2>4. Cardinality({p}) = 1
      BY FS_Singleton
    <2> QED
      BY <2>3, <2>4, <1>3
  <1>4. CASE n > 1
    <2>1. n - 1 \in 1..Cardinality(P) /\ n - 1 \notin Bad
      BY <1>1, <1>2, <1>4, <1>0
    <2>2. PICK p \in P : Cardinality(Below(p)) = n - 1
      BY <2>1
    <2> DEFINE Above == P \ Below(p)
    <2>3. IsFiniteSet(Below(p)) /\ Above # {}
      <3>1. Below(p) \in SUBSET P
        OBVIOUS
      <3>2. IsFiniteSet(Below(p))
        BY <3>1, FS_Subset
      <3>3. Cardinality(Below(p)) # Cardinality(P)
        BY <2>2, <1>2, <1>0
      <3> QED
        BY <3>1, <3>2, <3>3
    <2>4. PICK s \in Above : \A y \in Above : s <= y
      <3>1. Above \in SUBSET Nat
        OBVIOUS
      <3> QED
        BY <3>1, <2>3, LeastOf
    <2>5. Below(s) = Below(p) \cup {s}
      <3>1. p < s
        BY <2>4
      <3>2. \A r \in P : r <= s <=> r <= p \/ r = s
        BY <2>4, <3>1
      <3> QED
        BY <3>2
    <2>6. Cardinality(Below(s)) = n
      <3>1. s \notin Below(p)
        BY <2>4
      <3>2. Cardinality(Below(p) \cup {s}) = Cardinality(Below(p)) + 1
        BY <2>3, <3>1, FS_AddElement
      <3>3. (n - 1) + 1 = n
        BY <1>2
      <3> QED
        BY <3>2, <3>3, <2>5, <2>2
    <2> QED
      BY <2>6, <2>4
  <1> QED
    BY <1>2, <1>3, <1>4, <1>0

(* Filtering yields a sequence of entries, not longer than the one loaded  *)
(* (the loops of sessions.go, group_requests.go and otprecovery.go).       *)
LEMMA KeepType ==
  ASSUME NEW A, NEW seq \in Seq(A), NEW S
  PROVE  /\ Keep(seq, S) \in Seq(A)
         /\ \A n \in 1..Len(Keep(seq, S)) :
              \E i \in 1..Len(seq) : Keep(seq, S)[n] = seq[i]
         /\ Len(Keep(seq, S)) =< Len(seq)
  <1> DEFINE P == Positions(seq, S)
  <1>1. IsFiniteSet(P) /\ P \in SUBSET Nat /\ Cardinality(P) \in Nat /\ P \subseteq 1..Len(seq)
        /\ Cardinality(P) =< Len(seq)
    <2>1. P \in SUBSET (1..Len(seq)) /\ Len(seq) \in Nat
      BY DEF Positions
    <2>2. IsFiniteSet(1..Len(seq))
      BY <2>1, FS_Interval
    <2>3. IsFiniteSet(P) /\ Cardinality(P) =< Cardinality(1..Len(seq))
      BY <2>1, <2>2, FS_Subset
    <2>4. Cardinality(1..Len(seq)) = Len(seq)
      BY <2>1, FS_Interval
    <2> QED
      BY <2>1, <2>3, <2>4, FS_CardinalityType
  <1>2. ASSUME NEW n \in 1..Cardinality(P) PROVE Nth(P, n) \in P
    BY <1>1, NthExists DEF Nth
  <1>3. Keep(seq, S) = [n \in 1..Cardinality(P) |-> seq[Nth(P, n)]]
    BY DEF Keep
  <1>4. ASSUME NEW n \in 1..Cardinality(P)
        PROVE seq[Nth(P, n)] \in A /\ \E i \in 1..Len(seq) : seq[Nth(P, n)] = seq[i]
    BY <1>1, <1>2
  <1> HIDE DEF P
  <1>5. Keep(seq, S) \in Seq(A) /\ Len(Keep(seq, S)) = Cardinality(P)
    <2>1. Keep(seq, S) \in [1..Cardinality(P) -> A]
      BY <1>3, <1>4
    <2>2. Keep(seq, S) \in Seq(A)
      BY <2>1, <1>1, SeqDef
    <2> QED
      BY <2>1, <2>2, <1>1, LenProperties
  <1> QED
    BY <1>1, <1>3, <1>4, <1>5

(* What a guarded call makes of a list may be stored: the cap of a session *)
(* index is kept, whatever was loaded.                                     *)
LEMMA ApplyType ==
  ASSUME site \in {"index", "queue"}, NEW c \in CallsHere, NEW s \in Lists
  PROVE  Apply(c, s) \in Lists
  <1> USE ConstantsOK
  <1>0. /\ c.kind \in IndexKinds \cup QueueKinds /\ c.entry \in Entries
        /\ site = "index" => c.kind \in IndexKinds
        /\ site = "queue" => c.kind \in QueueKinds
    BY DEF CallsHere, Call
  <1>1. s \in Seq(Entries) /\ (site = "index" => Len(s) =< userSessionsMax)
    BY DEF Lists
  <1>2. \A S : Keep(s, S) \in Seq(Entries) /\ Len(Keep(s, S)) =< Len(s)
    BY <1>1, KeepType
  <1>3. \A S : Keep(s, S) \in Lists
    BY <1>1, <1>2 DEF Lists
  <1>4. CASE site = "queue"
    <2>1. EditQueue(c, s) \in Seq(Entries)
      BY <1>0, <1>1, <1>2 DEF EditQueue
    <2> QED
      BY <1>0, <1>4, <2>1 DEF Apply, Lists
  <1>5. CASE site = "index"
    <2>1. c.kind \in IndexKinds /\ c.kind \notin QueueKinds
      BY <1>0, <1>5 DEF IndexKinds, QueueKinds
    <2>2. CASE c.kind = "record"
      <3> DEFINE q == Append(Keep(s, Entries \ {c.entry}), c.entry)
      <3>1. q \in Seq(Entries) /\ Len(q) \in Nat
        BY <1>0, <1>2
      <3>2. Apply(c, s) = Capped(q)
        BY <2>1, <2>2 DEF Apply, EditIndex
      <3> HIDE DEF q
      <3>3. Capped(q) \in Seq(Entries) /\ Len(Capped(q)) =< userSessionsMax
        BY <3>1 DEF Capped
      <3> QED
        BY <3>2, <3>3 DEF Lists
    <2>3. CASE c.kind # "record"
      BY <2>1, <2>3, <1>3 DEF Apply, EditIndex
    <2> QED
      BY <2>2, <2>3
  <1> QED
    BY <1>4, <1>5

(* The control part of the type invariant, and its data part.              *)
ControlOK ==
    /\ site \in {"index", "queue"}
    /\ pc \in [Requests -> {"idle", "lock", "acquire", "load", "save",
                            "release", "unlock"}]
    /\ mode \in [Requests -> {"none", "mutex", "locked", "unlocked", "timeout"}]
    /\ mutex \in [Replicas -> Requests \cup {NoRequest}]
    /\ owner \in Requests \cup {NoRequest}
    /\ ttl \in 0..storeLockTTL
    /\ wait \in [Requests -> 0..storeLockWait]
    /\ lease \in [Requests -> 0..storeLockTTL]
    /\ beaten \in SUBSET Requests

DataOK ==
    /\ list \in Lists
    /\ edited \in [Requests -> Lists]
    /\ degraded \in BOOLEAN
    /\ call \in [Requests -> CallsHere \cup {NoCall}]
    /\ \A w \in Requests : pc[w] = "save" /\ ~degraded => call[w] \in CallsHere
    /\ ideal \in Lists

LEMMA TypeParts == TypeOK <=> ControlOK /\ DataOK
  BY DEF TypeOK, ControlOK, DataOK

LEMMA SameSite == ASSUME site' = site PROVE Lists' = Lists /\ CallsHere' = CallsHere
  BY DEF Lists, CallsHere

LEMMA EmptyList == <<>> \in Lists
  BY ConstantsOK DEF Lists

(* A degradation empties the ghosts.                                       *)
LEMMA DegradeType ==
  ASSUME DataOK, Degrade, UNCHANGED <<site, list, edited>>
  PROVE  DataOK'
  BY SameSite, EmptyList DEF DataOK, Degrade

(* Every variable of the storage lock model keeps its type: in particular  *)
(* the countdowns stay within storeLockTTL and storeLockWait, and a stored *)
(* session index within userSessionsMax (storelock.go, guarded sites).     *)
THEOREM TypeCorrect == Spec => []TypeOK
  <1>1. Init => TypeOK
    <2> SUFFICES ASSUME Init PROVE ControlOK /\ DataOK
      BY TypeParts
    <2>1. 0 \in 0..storeLockTTL /\ 0 \in 0..storeLockWait
      BY ConstantsOK DEF storeLockWait
    <2>2. ControlOK
      BY <2>1 DEF Init, ControlOK
    <2>3. OldList[site] \in Lists
      BY ConstantsOK DEF Init, Lists
    <2>4. DataOK
      BY <2>3, EmptyList DEF Init, DataOK
    <2> QED
      BY <2>2, <2>4
  <1>2. TypeOK /\ [Next]_vars => TypeOK'
    <2> SUFFICES ASSUME ControlOK, DataOK, [Next]_vars PROVE ControlOK' /\ DataOK'
      BY DEF TypeOK, ControlOK, DataOK
    <2> USE ConstantsOK
    <2>1. ASSUME NEW w \in Requests, Arrive(w) PROVE ControlOK' /\ DataOK'
      <3>1. ControlOK'
        BY <2>1 DEF ControlOK, Arrive
      <3>2. DataOK'
        BY <2>1, SameSite DEF DataOK, ControlOK, Arrive, ghosts
      <3> QED
        BY <3>1, <3>2
    <2>2. ASSUME NEW w \in Requests, Hold(w) PROVE ControlOK' /\ DataOK'
      <3>1. ControlOK'
        <4>1. CASE redis
          <5>1. storeLockWait \in 0..storeLockWait
            BY DEF storeLockWait
          <5>2. wait' \in [Requests -> 0..storeLockWait]
            BY <2>2, <4>1, <5>1 DEF ControlOK, Hold, Locked
          <5>3. /\ pc' \in [Requests -> {"idle", "lock", "acquire", "load", "save",
                                         "release", "unlock"}]
                /\ mutex' \in [Replicas -> Requests \cup {NoRequest}]
            BY <2>2, <4>1 DEF ControlOK, Hold, Locked
          <5> QED
            BY <2>2, <4>1, <5>2, <5>3 DEF ControlOK, Hold, Locked
        <4>2. CASE ~redis
          BY <2>2, <4>2 DEF ControlOK, Hold, Locked, storeLockWait
        <4> QED
          BY <4>1, <4>2
      <3>2. DataOK'
        BY <2>2, SameSite DEF DataOK, ControlOK, Hold, Locked, ghosts
      <3> QED
        BY <3>1, <3>2
    <2>3. ASSUME NEW w \in Requests, SetNX(w) PROVE ControlOK' /\ DataOK'
      <3>1. ControlOK'
        BY <2>3 DEF ControlOK, SetNX, Enter, SetKey, storeLockWait
      <3>2. DataOK'
        BY <2>3, SameSite DEF DataOK, ControlOK, SetNX, Enter, ghosts
      <3> QED
        BY <3>1, <3>2
    <2>4. ASSUME NEW w \in Requests, AcquireError(w) PROVE ControlOK' /\ DataOK'
      <3>1. ControlOK'
        BY <2>4 DEF ControlOK, AcquireError, Enter, SetKey, storeLockWait
      <3>2. DataOK'
        BY <2>4, DegradeType DEF AcquireError
      <3> QED
        BY <3>1, <3>2
    <2>5. ASSUME NEW w \in Requests, AcquireTimeout(w) PROVE ControlOK' /\ DataOK'
      <3>1. ControlOK'
        BY <2>5 DEF ControlOK, AcquireTimeout, Enter, storeLockWait
      <3>2. DataOK'
        BY <2>5, DegradeType DEF AcquireTimeout
      <3> QED
        BY <3>1, <3>2
    <2>6. ASSUME NEW w \in Requests, Load(w) PROVE ControlOK' /\ DataOK'
      <3>1. PICK c \in CallsHere, s \in {list, <<>>} :
              /\ pc' = [pc EXCEPT ![w] = IF Saves(c, s) THEN "save" ELSE AfterEdit(w)]
              /\ edited' = [edited EXCEPT ![w] = IF Saves(c, s) THEN Apply(c, s) ELSE <<>>]
              /\ \/ /\ UNCHANGED <<degraded, ideal>>
                    /\ call' = [call EXCEPT ![w] = IF Saves(c, s) THEN c ELSE NoCall]
                 \/ Degrade
        BY <2>6 DEF Load
      <3>2. UNCHANGED <<site, mode, mutex, owner, ttl, wait, lease, beaten, list>>
        BY <2>6 DEF Load
      <3>3. ControlOK'
        BY <3>1, <3>2 DEF ControlOK, AfterEdit
      <3>4. s \in Lists /\ Apply(c, s) \in Lists /\ <<>> \in Lists
        BY EmptyList, ApplyType DEF DataOK, ControlOK
      <3>5. AfterEdit(w) # "save"
        BY DEF AfterEdit
      <3>6. DataOK'
        <4>1. Lists' = Lists /\ CallsHere' = CallsHere
          BY <3>2, SameSite
        <4>2. edited' \in [Requests -> Lists] /\ list' \in Lists
          BY <3>1, <3>2, <3>4 DEF DataOK
        <4>3. CASE Degrade
          BY <3>4, <4>1, <4>2, <4>3 DEF DataOK, Degrade
        <4>4. CASE /\ UNCHANGED <<degraded, ideal>>
                   /\ call' = [call EXCEPT ![w] = IF Saves(c, s) THEN c ELSE NoCall]
          <5>1. call' \in [Requests -> CallsHere \cup {NoCall}]
            BY <4>4 DEF DataOK
          <5>2. ASSUME NEW v \in Requests, pc'[v] = "save", ~degraded' PROVE call'[v] \in CallsHere
            BY <3>1, <3>5, <4>4, <5>2 DEF DataOK, ControlOK
          <5> QED
            BY <4>1, <4>2, <4>4, <5>1, <5>2 DEF DataOK
        <4> QED
          BY <3>1, <4>3, <4>4
      <3> QED
        BY <3>3, <3>6
    <2>7. ASSUME NEW w \in Requests, Save(w) PROVE ControlOK' /\ DataOK'
      <3>1. ControlOK'
        BY <2>7 DEF ControlOK, Save, AfterEdit
      <3>2. /\ list' \in Lists /\ edited' \in [Requests -> Lists] /\ degraded' = degraded
            /\ call' = [call EXCEPT ![w] = NoCall] /\ pc' = [pc EXCEPT ![w] = AfterEdit(w)]
        BY <2>7, EmptyList DEF Save, DataOK
      <3>3. ideal' \in Lists
        <4>1. CASE degraded
          BY <2>7, <4>1, EmptyList DEF Save, DataOK
        <4>2. CASE ~degraded
          <5>1. call[w] \in CallsHere
            BY <2>7, <4>2 DEF Save, DataOK
          <5>2. Apply(call[w], ideal) \in Lists
            BY <5>1, ApplyType DEF DataOK, ControlOK
          <5> QED
            BY <2>7, <4>2, <5>2 DEF Save, DataOK
        <4> QED
          BY <4>1, <4>2
      <3>4. AfterEdit(w) # "save" /\ site' = site
        BY <2>7 DEF AfterEdit, Save
      <3>5. DataOK'
        BY <3>2, <3>3, <3>4, SameSite DEF DataOK, ControlOK
      <3> QED
        BY <3>1, <3>5
    <2>8. ASSUME NEW w \in Requests, Release(w) PROVE ControlOK' /\ DataOK'
      <3>1. ControlOK'
        BY <2>8 DEF ControlOK, Release
      <3>2. DataOK'
        BY <2>8, SameSite DEF DataOK, ControlOK, Release, ghosts
      <3> QED
        BY <3>1, <3>2
    <2>9. ASSUME NEW w \in Requests, Unlock(w) PROVE ControlOK' /\ DataOK'
      <3>1. ControlOK'
        BY <2>9 DEF ControlOK, Unlock
      <3>2. DataOK'
        BY <2>9, SameSite DEF DataOK, ControlOK, Unlock, ghosts
      <3> QED
        BY <3>1, <3>2
    <2>10. ASSUME NEW r \in Replicas, Crash(r) PROVE ControlOK' /\ DataOK'
      <3>1. ControlOK'
        BY <2>10 DEF ControlOK, Crash, storeLockWait
      <3>2. DataOK'
        BY <2>10, SameSite, EmptyList DEF DataOK, ControlOK, Crash
      <3> QED
        BY <3>1, <3>2
    <2>11. ASSUME Tick PROVE ControlOK' /\ DataOK'
      <3>1. ControlOK'
        BY <2>11 DEF ControlOK, Tick, Minus1, storeLockWait
      <3>2. DataOK'
        BY <2>11, DegradeType, SameSite DEF DataOK, Tick, ghosts
      <3> QED
        BY <3>1, <3>2
    <2>12. CASE UNCHANGED vars
      BY <2>12, SameSite DEF ControlOK, DataOK, vars
    <2> QED
      BY <2>1, <2>2, <2>3, <2>4, <2>5, <2>6, <2>7, <2>8, <2>9, <2>10, <2>11, <2>12
         DEF Next, Step, Proceed
  <1> QED
    BY <1>1, <1>2, PTL DEF Spec
-----------------------------------------------------------------------------
(* While nothing has degraded, at most one request edits the list: with    *)
(* redis because of the lock, without it because of the one mutex.         *)
LEMMA SoleEditor ==
    ASSUME TypeOK, LockInv, ~degraded,
           NEW v \in Requests, Editing(v), NEW w \in Requests, Editing(w)
    PROVE  v = w
  <1>1. CASE mode[v] = "mutex" \/ mode[w] = "mutex"
    <2>1. ~redis
      BY <1>1 DEF LockInv, ModeInv
    <2>2. mutex[Home[v]] = v /\ mutex[Home[w]] = w
      BY DEF LockInv, MutexInv, Active, Editing
    <2> QED
      BY <2>1, <2>2, OneProcessWithoutRedis
  <1>2. CASE mode[v] # "mutex" /\ mode[w] # "mutex"
    BY <1>2 DEF LockInv, EditInv, LeaseInv
  <1> QED
    BY <1>1, <1>2

LEMMA LockInvInit == Init => LockInv
  BY DEF Init, LockInv, LeaseInv, MutexInv, ModeInv, EditInv, PatienceInv,
         Active, Editing

(* What a call makes of the list depends on the list alone.                *)
LEMMA SameEdits ==
  ASSUME UNCHANGED <<site, list>>
  PROVE  /\ CallsHere' = CallsHere
         /\ \A w \in Requests : call'[w] = call[w] =>
              /\ Saves(call[w], list)' = Saves(call[w], list)
              /\ Apply(call[w], list)' = Apply(call[w], list)
  <1>1. \A w \in Requests : /\ Saves(call[w], list)' = Saves(call'[w], list')
                            /\ Apply(call[w], list)' = Apply(call'[w], list')
    BY DEF Saves, Holds, Apply, EditIndex, EditQueue, Capped, Keep, Positions
  <1> QED
    BY <1>1, SameSite

LEMMA LockInvStep == TypeOK /\ LockInv /\ [Next]_vars => LockInv'
  <1> SUFFICES ASSUME TypeOK, LockInv, [Next]_vars PROVE LockInv'
    OBVIOUS
  <1> USE ConstantsOK
  <1>1. ASSUME NEW w \in Requests, Arrive(w) PROVE LockInv'
    <2>1. LeaseInv'
      BY <1>1 DEF TypeOK, LockInv, LeaseInv, Arrive, ghosts
    <2>2. MutexInv'
      BY <1>1 DEF TypeOK, LockInv, MutexInv, Active, Arrive, ghosts
    <2>3. ModeInv'
      BY <1>1 DEF TypeOK, LockInv, ModeInv, Arrive, ghosts
    <2>4. EditInv'
      BY <1>1, SoleEditor, SameEdits DEF TypeOK, LockInv, EditInv, Editing, Arrive, ghosts
    <2>5. PatienceInv'
      BY <1>1 DEF TypeOK, LockInv, PatienceInv, Arrive, ghosts
    <2> QED
      BY <2>1, <2>2, <2>3, <2>4, <2>5 DEF LockInv
  <1>2. ASSUME NEW w \in Requests, Hold(w) PROVE LockInv'
    <2>1. /\ pc' = [pc EXCEPT ![w] = IF redis THEN "acquire" ELSE "load"]
          /\ wait' = [wait EXCEPT ![w] = IF redis THEN storeLockWait ELSE wait[w]]
          /\ mode' = [mode EXCEPT ![w] = IF redis THEN mode[w] ELSE "mutex"]
      <3>1. CASE redis
        BY <1>2, <3>1 DEF Hold, Locked, TypeOK
      <3>2. CASE ~redis
        BY <1>2, <3>2 DEF Hold, Locked, TypeOK
      <3> QED
        BY <3>1, <3>2
    <2>2. /\ pc[w] = "lock" /\ mutex[Home[w]] = NoRequest
          /\ mutex' = [mutex EXCEPT ![Home[w]] = w]
          /\ UNCHANGED <<site, owner, ttl, lease, beaten, list, edited, degraded, call, ideal>>
      BY <1>2 DEF Hold, Locked, ghosts
    <2>3. LeaseInv'
      BY <2>2 DEF LockInv, LeaseInv
    <2>4. MutexInv'
      BY <2>1, <2>2 DEF TypeOK, LockInv, MutexInv, Active
    <2>5. ModeInv'
      BY <2>1, <2>2 DEF TypeOK, LockInv, ModeInv
    <2>6. EditInv'
      <3>1. \A v \in Requests \ {w} : pc'[v] = pc[v] /\ mode'[v] = mode[v]
        BY <2>1 DEF TypeOK
      <3>2. pc'[w] # "save" /\ (Editing(w)' => mode'[w] = "mutex")
        BY <2>1 DEF TypeOK, Editing
      <3> QED
        BY <2>2, <3>1, <3>2, SameEdits DEF LockInv, EditInv, Editing
    <2>7. PatienceInv'
      <3>1. \A v \in Requests \ {w} : pc'[v] = pc[v] /\ mode'[v] = mode[v] /\ wait'[v] = wait[v]
        BY <2>1 DEF TypeOK
      <3>2. pc'[w] = "acquire" => wait'[w] = storeLockWait
        BY <2>1 DEF TypeOK
      <3>3. mode'[w] = "timeout" => mode[w] = "timeout"
        BY <2>1 DEF TypeOK
      <3> QED
        BY <2>2, <3>1, <3>2, <3>3 DEF TypeOK, LockInv, PatienceInv, storeLockWait
    <2> QED
      BY <2>3, <2>4, <2>5, <2>6, <2>7 DEF LockInv
  <1>3. ASSUME NEW w \in Requests, SetNX(w) PROVE LockInv'
    <2>1. LeaseInv'
      BY <1>3 DEF TypeOK, LockInv, LeaseInv, SetNX, Enter, SetKey, storeLockWait, ghosts
    <2>2. MutexInv'
      BY <1>3 DEF TypeOK, LockInv, MutexInv, Active, SetNX, Enter, SetKey, storeLockWait, ghosts
    <2>3. ModeInv'
      BY <1>3 DEF TypeOK, LockInv, ModeInv, SetNX, Enter, SetKey, storeLockWait, ghosts
    <2>4. EditInv'
      BY <1>3, SoleEditor, SameEdits DEF TypeOK, LockInv, EditInv, Editing, SetNX, Enter, SetKey, storeLockWait, ghosts
    <2>5. PatienceInv'
      BY <1>3 DEF TypeOK, LockInv, PatienceInv, SetNX, Enter, SetKey, storeLockWait, ghosts
    <2> QED
      BY <2>1, <2>2, <2>3, <2>4, <2>5 DEF LockInv
  <1>4. ASSUME NEW w \in Requests, AcquireError(w) PROVE LockInv'
    <2>1. LeaseInv'
      BY <1>4 DEF TypeOK, LockInv, LeaseInv, AcquireError, Enter, SetKey, Degrade, storeLockWait
    <2>2. MutexInv'
      BY <1>4 DEF TypeOK, LockInv, MutexInv, Active, AcquireError, Enter, SetKey, Degrade, storeLockWait
    <2>3. ModeInv'
      BY <1>4 DEF TypeOK, LockInv, ModeInv, AcquireError, Enter, SetKey, Degrade, storeLockWait
    <2>4. EditInv'
      BY <1>4, SoleEditor, SameEdits DEF TypeOK, LockInv, EditInv, Editing, AcquireError, Enter, SetKey, Degrade, storeLockWait
    <2>5. PatienceInv'
      BY <1>4 DEF TypeOK, LockInv, PatienceInv, AcquireError, Enter, SetKey, Degrade, storeLockWait
    <2> QED
      BY <2>1, <2>2, <2>3, <2>4, <2>5 DEF LockInv
  <1>5. ASSUME NEW w \in Requests, AcquireTimeout(w) PROVE LockInv'
    <2>1. LeaseInv'
      BY <1>5 DEF TypeOK, LockInv, LeaseInv, AcquireTimeout, Enter, Degrade, storeLockWait
    <2>2. MutexInv'
      BY <1>5 DEF TypeOK, LockInv, MutexInv, Active, AcquireTimeout, Enter, Degrade, storeLockWait
    <2>3. ModeInv'
      BY <1>5 DEF TypeOK, LockInv, ModeInv, AcquireTimeout, Enter, Degrade, storeLockWait
    <2>4. EditInv'
      BY <1>5, SoleEditor, SameEdits DEF TypeOK, LockInv, EditInv, Editing, AcquireTimeout, Enter, Degrade, storeLockWait
    <2>5. PatienceInv'
      BY <1>5 DEF TypeOK, LockInv, PatienceInv, AcquireTimeout, Enter, Degrade, storeLockWait
    <2> QED
      BY <2>1, <2>2, <2>3, <2>4, <2>5 DEF LockInv
  <1>6. ASSUME NEW w \in Requests, Load(w) PROVE LockInv'
    <2>1. PICK c \in CallsHere, s \in {list, <<>>} :
            /\ pc' = [pc EXCEPT ![w] = IF Saves(c, s) THEN "save" ELSE AfterEdit(w)]
            /\ edited' = [edited EXCEPT ![w] = IF Saves(c, s) THEN Apply(c, s) ELSE <<>>]
            /\ \/ /\ s = list /\ UNCHANGED <<degraded, ideal>>
                  /\ call' = [call EXCEPT ![w] = IF Saves(c, s) THEN c ELSE NoCall]
               \/ Degrade
      BY <1>6 DEF Load
    <2>2. /\ pc[w] = "load" /\ AfterEdit(w) \in {"release", "unlock"}
          /\ UNCHANGED <<site, mode, mutex, owner, ttl, wait, lease, beaten, list>>
      BY <1>6 DEF Load, AfterEdit
    <2>3. LeaseInv' /\ ModeInv' /\ MutexInv' /\ PatienceInv'
      BY <2>1, <2>2 DEF TypeOK, LockInv, LeaseInv, MutexInv, ModeInv, PatienceInv, Active
    <2>4. EditInv'
      <3> SUFFICES ASSUME ~degraded' PROVE EditInv'
        BY DEF EditInv
      <3>1. /\ s = list /\ UNCHANGED <<degraded, ideal>>
            /\ call' = [call EXCEPT ![w] = IF Saves(c, s) THEN c ELSE NoCall]
        BY <2>1 DEF Degrade
      <3>2. \A v \in Requests \ {w} : pc'[v] = pc[v] /\ call'[v] = call[v] /\ edited'[v] = edited[v]
        BY <2>1, <3>1 DEF TypeOK
      <3>3. pc'[w] = "save" => Saves(c, list) /\ call'[w] = c /\ edited'[w] = Apply(c, list)
        BY <2>1, <2>2, <3>1 DEF TypeOK
      <3>4. pc'[w] \in {"save", "release", "unlock"}
        BY <2>1, <2>2 DEF TypeOK
      <3>5. CallsHere' = CallsHere
        BY <2>2, SameSite
      <3>6. \A v \in Requests : pc'[v] = "save" => Saves(call[v], list)' = Saves(call'[v], list)
                              /\ Apply(call[v], list)' = Apply(call'[v], list)
        BY <2>2 DEF Saves, Holds, Apply, EditIndex, EditQueue, Capped, Keep, Positions
      <3> QED
        BY <2>2, <3>1, <3>2, <3>3, <3>4, <3>5, <3>6 DEF LockInv, EditInv, Editing
    <2> QED
      BY <2>3, <2>4 DEF LockInv
  <1>7. ASSUME NEW w \in Requests, Save(w) PROVE LockInv'
    <2>1. LeaseInv' /\ ModeInv' /\ MutexInv' /\ PatienceInv'
      BY <1>7 DEF TypeOK, LockInv, LeaseInv, MutexInv, ModeInv, PatienceInv, Active, Save, AfterEdit
    <2>2. EditInv'
      <3> SUFFICES ASSUME ~degraded' PROVE EditInv'
        BY DEF EditInv
      <3>1. ~degraded /\ list = ideal /\ edited[w] = Apply(call[w], list)
        BY <1>7 DEF Save, LockInv, EditInv
      <3>2. list' = ideal'
        BY <1>7, <3>1 DEF Save
      <3>3. \A v \in Requests : Editing(v)' => v # w /\ Editing(v)
        BY <1>7 DEF Save, AfterEdit, Editing, TypeOK
      <3>4. \A v \in Requests : ~Editing(v)'
        BY <1>7, <3>1, <3>3, SoleEditor DEF Save, Editing
      <3> QED
        BY <3>2, <3>4 DEF EditInv, Editing
    <2> QED
      BY <2>1, <2>2 DEF LockInv
  <1>8. ASSUME NEW w \in Requests, Release(w) PROVE LockInv'
    <2>1. LeaseInv'
      BY <1>8 DEF TypeOK, LockInv, LeaseInv, Release, ghosts
    <2>2. MutexInv'
      BY <1>8 DEF TypeOK, LockInv, MutexInv, Active, Release, ghosts
    <2>3. ModeInv'
      BY <1>8 DEF TypeOK, LockInv, ModeInv, Release, ghosts
    <2>4. EditInv'
      BY <1>8, SoleEditor, SameEdits DEF TypeOK, LockInv, EditInv, Editing, Release, ghosts
    <2>5. PatienceInv'
      BY <1>8 DEF TypeOK, LockInv, PatienceInv, Release, ghosts
    <2> QED
      BY <2>1, <2>2, <2>3, <2>4, <2>5 DEF LockInv
  <1>9. ASSUME NEW w \in Requests, Unlock(w) PROVE LockInv'
    <2>1. LeaseInv'
      BY <1>9 DEF TypeOK, LockInv, LeaseInv, Unlock, ghosts
    <2>2. MutexInv'
      BY <1>9 DEF TypeOK, LockInv, MutexInv, Active, Unlock, ghosts
    <2>3. ModeInv'
      BY <1>9 DEF TypeOK, LockInv, ModeInv, Unlock, ghosts
    <2>4. EditInv'
      BY <1>9, SoleEditor, SameEdits DEF TypeOK, LockInv, EditInv, Editing, Unlock, ghosts
    <2>5. PatienceInv'
      BY <1>9 DEF TypeOK, LockInv, PatienceInv, Unlock, ghosts
    <2> QED
      BY <2>1, <2>2, <2>3, <2>4, <2>5 DEF LockInv
  <1>10. ASSUME NEW r \in Replicas, Crash(r) PROVE LockInv'
    <2>1. LeaseInv'
      BY <1>10 DEF TypeOK, LockInv, LeaseInv, Crash
    <2>2. MutexInv'
      BY <1>10 DEF TypeOK, LockInv, MutexInv, Active, Crash
    <2>3. ModeInv'
      BY <1>10 DEF TypeOK, LockInv, ModeInv, Crash
    <2>4. EditInv'
      BY <1>10, SameEdits DEF TypeOK, LockInv, EditInv, Editing, Crash
    <2>5. PatienceInv'
      BY <1>10 DEF TypeOK, LockInv, PatienceInv, Crash
    <2> QED
      BY <2>1, <2>2, <2>3, <2>4, <2>5 DEF LockInv
  <1>11. ASSUME Tick PROVE LockInv'
    <2>1. LeaseInv'
      BY <1>11 DEF TypeOK, LockInv, LeaseInv, Tick, Minus1
    <2>2. MutexInv'
      BY <1>11 DEF TypeOK, LockInv, MutexInv, Active, Tick
    <2>3. ModeInv'
      BY <1>11 DEF TypeOK, LockInv, ModeInv, Tick
    <2>4. EditInv'
      <3> SUFFICES ASSUME ~degraded' PROVE EditInv'
        BY DEF EditInv
      <3>1. ~Overrun /\ UNCHANGED <<degraded, call, ideal>>
        BY <1>11 DEF Tick, Degrade, ghosts
      <3>2. \A w \in Requests : lease[w] > 0 /\ Editing(w) => lease'[w] > 0
        BY <1>11, <3>1 DEF TypeOK, Tick, Minus1, Overrun
      <3> QED
        BY <1>11, <3>1, <3>2, SameEdits DEF LockInv, EditInv, Editing, Tick
    <2>5. PatienceInv'
      BY <1>11 DEF TypeOK, LockInv, PatienceInv, Tick, Minus1, storeLockWait
    <2> QED
      BY <2>1, <2>2, <2>3, <2>4, <2>5 DEF LockInv
  <1>12. CASE UNCHANGED vars
    BY <1>12, SameEdits DEF vars, LockInv, LeaseInv, MutexInv, ModeInv, EditInv,
                 PatienceInv, Active, Editing
  <1> QED
    BY <1>1, <1>2, <1>3, <1>4, <1>5, <1>6, <1>7, <1>8, <1>9, <1>10, <1>11, <1>12
       DEF Next, Step, Proceed

LEMMA LockInvariant == Spec => [](TypeOK /\ LockInv)
  BY TypeCorrect, LockInvInit, LockInvStep, PTL DEF Spec
-----------------------------------------------------------------------------
(* No two requests, on any replicas, edit the list at the same time while  *)
(* both have time left on their lock (acquire and release, storelock.go).  *)
THEOREM MutexTheorem == Spec => []MutualExclusion
  <1>1. TypeOK /\ LockInv => MutualExclusion
    BY DEF TypeOK, LockInv, LeaseInv, MutualExclusion, Protected
  <1> QED
    BY <1>1, LockInvariant, PTL

(* Requests of one replica never edit at the same time, with or without    *)
(* the redis lock (hold, storelock.go).                                    *)
THEOREM LocalTheorem == Spec => []LocalExclusion
  <1>1. LockInv => LocalExclusion
    BY DEF LockInv, MutexInv, LocalExclusion, Active, Editing
  <1> QED
    BY <1>1, LockInvariant, PTL

(* Until the lock is degraded the stored list is the result of applying    *)
(* every saved edit in turn: no update is lost (guarded sites).            *)
THEOREM NoLostUpdateTheorem == Spec => []NoLostUpdate
  <1>1. LockInv => NoLostUpdate
    BY DEF LockInv, EditInv, NoLostUpdate
  <1> QED
    BY <1>1, LockInvariant, PTL

(* Giving up on the lock means a rival had it during the wait: a lock left *)
(* by a dead replica never makes a request proceed unlocked by itself      *)
(* (storeLockWait > storeLockTTL, storelock.go).                           *)
THEOREM TimeoutTheorem == Spec => []TimeoutMeansContention
  <1>1. LockInv => TimeoutMeansContention
    BY DEF LockInv, PatienceInv, TimeoutMeansContention
  <1> QED
    BY <1>1, LockInvariant, PTL

(* Recording a session at or below the cap makes it the newest and costs   *)
(* the index at most its oldest entries.                                   *)
LEMMA RecordedLast ==
  ASSUME NEW others \in Seq(Entries), NEW e \in Entries
  PROVE  LET new == Capped(Append(others, e))
         IN \E kept \in 0..Len(others) :
              /\ kept = Len(others) \/ (kept < Len(others) /\ kept = userSessionsMax - 1)
              /\ kept < userSessionsMax
              /\ Len(new) = kept + 1
              /\ new[kept + 1] = e
              /\ \A i \in 1..kept : new[i] = others[Len(others) - kept + i]
  <1> DEFINE q == Append(others, e)
             n == Len(others)
  <1>1. /\ n \in Nat /\ q \in Seq(Entries) /\ Len(q) = n + 1 /\ q[n + 1] = e
        /\ \A i \in 1..n : q[i] = others[i]
    OBVIOUS
  <1>2. userSessionsMax \in Nat \ {0}
    BY ConstantsOK
  <1>3. CASE n + 1 =< userSessionsMax
    <2>1. Capped(q) = q
      BY <1>1, <1>2, <1>3 DEF Capped
    <2> QED
      BY <1>1, <1>2, <1>3, <2>1
  <1>4. CASE n + 1 > userSessionsMax
    <2>1. Capped(q) = SubSeq(q, (n + 1) - userSessionsMax + 1, n + 1)
      BY <1>1, <1>2, <1>4 DEF Capped
    <2> DEFINE k == userSessionsMax - 1
    <2>2. k \in 0..n /\ k < userSessionsMax /\ (k = n \/ k < n)
      BY <1>1, <1>2, <1>4
    <2>3. Len(Capped(q)) = k + 1 /\ \A i \in 1..(k + 1) : Capped(q)[i] = q[(n - k) + i]
      <3>1. (n + 1) - userSessionsMax + 1 \in Int /\ (n + 1) - userSessionsMax + 1 = (n - k) + 1
        BY <1>1, <1>2
      <3> HIDE DEF q
      <3> QED
        BY <1>1, <1>2, <1>4, <2>1, <3>1
    <2>4. Capped(q)[k + 1] = e
      BY <1>1, <1>2, <2>2, <2>3
    <2>5. \A i \in 1..k : Capped(q)[i] = others[n - k + i]
      BY <1>1, <1>2, <2>2, <2>3
    <2> QED
      BY <2>2, <2>3, <2>4, <2>5
  <1> QED
    BY <1>1, <1>2, <1>3, <1>4

(* AtomicIndex filters as the code does.                                   *)
LEMMA SameKeep == \A s, S : Index!Keep(s, S) = Keep(s, S)
  <1>1. ASSUME NEW s, NEW S PROVE Index!Positions(s, S) = Positions(s, S)
    BY DEF Positions, Index!Positions
  <1>0. ASSUME NEW S PROVE Index!Cardinality(S) = Cardinality(S)
    BY Zenon DEF Cardinality, Index!Cardinality
  <1>2. ASSUME NEW P, NEW n PROVE Index!Nth(P, n) = Nth(P, n)
    BY Zenon DEF Nth, Index!Nth, Cardinality, Index!Cardinality
  <1>3. ASSUME NEW s, NEW S PROVE Index!Keep(s, S) = Keep(s, S)
    <2> DEFINE P == Positions(s, S)
    <2>1. Index!Keep(s, S) = [n \in 1..Cardinality(P) |-> s[Index!Nth(P, n)]]
      BY <1>0, <1>1, Zenon DEF Index!Keep
    <2>2. [n \in 1..Cardinality(P) |-> s[Index!Nth(P, n)]] = [n \in 1..Cardinality(P) |-> s[Nth(P, n)]]
      BY <1>2, Zenon
    <2> QED
      BY <2>1, <2>2, Zenon DEF Keep
  <1> QED
    BY <1>3, Zenon

(* What a call makes of the stored list is one of the abstract edits.      *)
LEMMA EditIsAtomic ==
  ASSUME TypeOK, NEW c \in CallsHere, Saves(c, list), list' = Apply(c, list)
  PROVE  \/ \E e \in Entries : Index!Record(e) \/ Index!Enqueue(e) \/ Index!Answer(e)
         \/ \E S \in SUBSET Entries : Index!Forget(S)
  <1> USE ConstantsOK
  <1>0. /\ c.kind \in IndexKinds \cup QueueKinds /\ c.entry \in Entries
        /\ site = "index" => c.kind \in IndexKinds
        /\ site = "queue" => c.kind \in QueueKinds
        /\ site \in {"index", "queue"} /\ list \in Seq(Entries) /\ c.live \in SUBSET Entries
    BY DEF CallsHere, Call, TypeOK, Lists
  <1>1. CASE site = "queue"
    <2>1. CASE c.kind = "queue"
      <3>1. list' = Append(list, c.entry) /\ ~Holds(list, c.entry)
        BY <2>1 DEF Apply, EditQueue, QueueKinds, Saves
      <3> QED
        BY <1>0, <1>1, <3>1 DEF Index!Enqueue, Index!In, Holds
    <2>2. CASE c.kind = "unqueue"
      <3>1. list' = Keep(list, Entries \ {c.entry})
        BY <2>2 DEF Apply, EditQueue, QueueKinds
      <3> QED
        BY <1>0, <1>1, <3>1, SameKeep DEF Index!Answer
    <2> QED
      BY <1>0, <1>1, <2>1, <2>2 DEF QueueKinds
  <1>2. CASE site = "index"
    <2>0. c.kind \in IndexKinds /\ c.kind \notin QueueKinds /\ site # "queue"
      BY <1>0, <1>2 DEF IndexKinds, QueueKinds
    <2>1. CASE c.kind = "record"
      <3>1. list' = Capped(Append(Keep(list, Entries \ {c.entry}), c.entry))
        BY <2>0, <2>1 DEF Apply, EditIndex
      <3>2. Keep(list, Entries \ {c.entry}) \in Seq(Entries)
        BY <1>0, KeepType
      <3>3. Index!Record(c.entry)
        <4> DEFINE others == Keep(list, Entries \ {c.entry})
        <4>1. others = Index!Keep(list, Entries \ {c.entry})
          BY SameKeep
        <4> HIDE DEF others
        <4>2. \E kept \in 0..Len(others) :
                /\ kept = Len(others) \/ (kept < Len(others) /\ kept = userSessionsMax - 1)
                /\ kept < userSessionsMax
                /\ Len(list') = kept + 1
                /\ list'[kept + 1] = c.entry
                /\ \A i \in 1..kept : list'[i] = others[Len(others) - kept + i]
          <5>1. others \in Seq(Entries) /\ list' = Capped(Append(others, c.entry))
            BY <3>1, <3>2 DEF others
          <5>2. c.entry \in Entries
            BY <1>0
          <5>3. LET new == Capped(Append(others, c.entry))
                IN \E kept \in 0..Len(others) :
                     /\ kept = Len(others) \/ (kept < Len(others) /\ kept = userSessionsMax - 1)
                     /\ kept < userSessionsMax
                     /\ Len(new) = kept + 1
                     /\ new[kept + 1] = c.entry
                     /\ \A i \in 1..kept : new[i] = others[Len(others) - kept + i]
            BY <5>1, <5>2, RecordedLast, Zenon
          <5> QED
            BY <5>1, <5>3, Zenon
        <4> QED
          BY <2>0, <4>1, <4>2 DEF Index!Record
      <3> QED
        BY <1>0, <3>3
    <2>2. CASE c.kind \in {"drop", "revoke"}
      <3>1. list' = Keep(list, Entries \ {c.entry})
        BY <2>0, <2>2 DEF Apply, EditIndex
      <3> QED
        BY <1>0, <2>0, <3>1, SameKeep DEF Index!Forget
    <2>3. CASE c.kind = "others"
      <3>1. list' = Keep(list, {c.entry}) /\ {c.entry} = Entries \ (Entries \ {c.entry})
        BY <1>0, <2>0, <2>3 DEF Apply, EditIndex
      <3>2. Index!Forget(Entries \ {c.entry})
        BY <2>0, <3>1, SameKeep DEF Index!Forget
      <3> QED
        BY <3>2
    <2>4. CASE c.kind = "list"
      <3>1. list' = Keep(list, c.live) /\ c.live = Entries \ (Entries \ c.live)
        BY <1>0, <2>0, <2>4 DEF Apply, EditIndex
      <3>2. Index!Forget(Entries \ c.live)
        BY <2>0, <3>1, SameKeep DEF Index!Forget
      <3> QED
        BY <3>2
    <2> QED
      BY <2>0, <2>1, <2>2, <2>3, <2>4 DEF IndexKinds
  <1> QED
    BY <1>0, <1>1, <1>2

(* The lock protocol implements atomic edits: every step of it is an edit  *)
(* that leaves the rest of the list alone (but for the oldest sessions, at *)
(* the cap), a degradation, or (only once degraded) a stale edit.          *)
THEOREM RefinementTheorem == Spec => ImplementsAtomicIndex
  <1>1. Init => Index!AInit
    BY ConstantsOK DEF Init, Index!AInit
  <1>2. TypeOK /\ LockInv /\ [Next]_vars
          => [Index!ANext]_<<site = "queue", list, degraded>>
    <2> SUFFICES ASSUME TypeOK, LockInv, [Next]_vars
                 PROVE  [Index!ANext]_<<site = "queue", list, degraded>>
      OBVIOUS
    <2>0. site' = site
      BY DEF Next, Step, Proceed, Arrive, Hold, Locked, SetNX, AcquireError, AcquireTimeout,
             Load, Save, Release, Unlock, Crash, Tick, vars
    <2>1. ASSUME NEW w \in Requests, Save(w), list' # list
          PROVE  Index!ANext
      <3>1. list' = edited[w] /\ degraded' = degraded /\ pc[w] = "save"
        BY <2>1 DEF Save
      <3>2. CASE degraded
        <4>1. list' \in Seq(Entries)
          BY <3>1 DEF TypeOK, Lists
        <4> QED
          BY <2>0, <3>1, <3>2, <4>1 DEF Index!ANext, Index!StaleEdit
      <3>3. CASE ~degraded
        <4>1. call[w] \in CallsHere /\ Saves(call[w], list) /\ list' = Apply(call[w], list)
          BY <3>1, <3>3 DEF LockInv, EditInv
        <4>2. \/ \E e \in Entries : Index!Record(e) \/ Index!Enqueue(e) \/ Index!Answer(e)
              \/ \E S \in SUBSET Entries : Index!Forget(S)
          BY <4>1, EditIsAtomic
        <4> QED
          BY <2>0, <2>1, <3>1, <4>2 DEF Index!ANext, Index!Edit
      <3> QED
        BY <3>2, <3>3
    <2>2. ASSUME list' = list, degraded' = TRUE
          PROVE  Index!ANext
      BY <2>0, <2>2 DEF Index!ANext, Index!ADegrade
    <2>3. ASSUME NEW w \in Requests, Step(w), ~Save(w)
          PROVE  list' = list /\ (degraded' = degraded \/ degraded' = TRUE)
      BY <2>3 DEF Step, Proceed, Arrive, Hold, Locked, SetNX, AcquireError, AcquireTimeout,
                  Load, Release, Unlock, Degrade, ghosts
    <2>4. ASSUME NEW w \in Requests, Save(w)
          PROVE  degraded' = degraded
      BY <2>4 DEF Save
    <2>5. ASSUME NEW r \in Replicas, Crash(r)
          PROVE  list' = list /\ degraded' = degraded
      BY <2>5 DEF Crash
    <2>6. ASSUME Tick
          PROVE  list' = list /\ (degraded' = degraded \/ degraded' = TRUE)
      BY <2>6 DEF Tick, Degrade, ghosts
    <2>7. CASE UNCHANGED vars
      BY <2>7 DEF vars
    <2> QED
      BY <2>0, <2>1, <2>2, <2>3, <2>4, <2>5, <2>6, <2>7 DEF Next
  <1> QED
    BY <1>1, <1>2, LockInvariant, PTL DEF Spec, ImplementsAtomicIndex, Index!ASpec

-----------------------------------------------------------------------------
(***************************************************************************)
(* Group requests (GroupRequests.tla), the queue of which is one of the    *)
(* lists kept under the lock, for any number of users and handlers and any *)
(* bounds.                                                                 *)
(*                                                                         *)
(*   WordInv     an approval that was carried out and not yet mailed will  *)
(*               say what is so;                                           *)
(*   LookInv     what a handler has looked at is still so of every user    *)
(*               nobody else has touched meanwhile.                        *)
(*                                                                         *)
(* AnswerHolds is about mails already sent: it is WordInv that makes it    *)
(* last until the next one. LookInv carries the first look of a handler to *)
(* the step where removeGroupRequest drops an entry by name.               *)
(***************************************************************************)

(* What a handler of groups.go knows at each step: an approval is under    *)
(* way only after the approve button, and a decision goes with a request.  *)
HandlerInv ==
    \A p \in Handlers :
      /\ at[p] \in {"add", "mutate", "remove", "mail"} => who[p] \in Users
      /\ at[p] = "add" => req[p].type \in {"join", "leave"}
      /\ at[p] = "mutate" => verdict[p] = "approve"
      /\ at[p] = "mail" => verdict[p] # "remove"
      /\ at[p] \in {"mutate", "remove", "mail"} /\ verdict[p] # "remove" =>
           req[p] \in GroupRequest

(* The types, with what they rest on.                                      *)
RequestType == GroupTypeOK /\ HandlerInv

(* A sponsor who has changed the membership and not yet sent the mail will *)
(* say what is so, unless somebody crossed it or the change came from      *)
(* outside.                                                                *)
WordInv ==
    \A p \in Handlers \ crossed :
      at[p] \in {"remove", "mail"} /\ verdict[p] = "approve" /\ who[p] \notin outside =>
        (who[p] \in members <=> req[p].type = "join")

(* What p has looked at is still so of every user nobody else has touched  *)
(* meanwhile: the entry a decision looked at is the one in the queue, the  *)
(* reply of group_find is right, and what the page is about to drop is     *)
(* stale.                                                                  *)
EntryOf(p) ==
    at[p] \in {"mutate", "remove"} /\ who[p] \notin moved[p] => queue[who[p]] = req[p]

FindOf(p) ==
    at[p] \in {"load", "drop"} =>
        \A u \in Users \ moved[p] : u \in found[p] <=> u \in members

DropOf(p) ==
    at[p] = "drop" => \A u \in drop[p] \ moved[p] : Stale(u, queue[u], found[p])

LookInv == \A p \in Handlers : EntryOf(p) /\ FindOf(p) /\ DropOf(p)

(* The inductive invariant.                                                *)
RequestInv == RequestType /\ WordInv /\ AnswerHolds /\ LookInv
-----------------------------------------------------------------------------
(* What the queue can hold: requests, and the empty entry, which is none.  *)
LEMMA EntryType ==
  /\ NotQueued \notin GroupRequest /\ NotQueued \in QueueEntries
  /\ \A r \in QueueEntries :
       /\ r \in [id : 0..MaxRequests, type : {"none", "join", "leave"}]
       /\ r # NotQueued => r \in GroupRequest
  BY GroupConstants DEF QueueEntries, GroupRequest, NotQueued

(* The invariant holds at first.                                           *)
LEMMA RequestInvInit == GroupInit => RequestInv
  <1> SUFFICES ASSUME GroupInit PROVE RequestInv
    OBVIOUS
  <1>1. GroupTypeOK
    BY EntryType, GroupConstants DEF GroupInit, GroupTypeOK
  <1>2. HandlerInv /\ WordInv /\ AnswerHolds /\ LookInv
    BY DEF GroupInit, HandlerInv, WordInv, AnswerHolds, LookInv, EntryOf, FindOf, DropOf
  <1> QED
    BY <1>1, <1>2 DEF RequestInv, RequestType

(* A handler that is done with its business knows nothing of it any more.  *)
LEMMA SettleType ==
  ASSUME GroupTypeOK, NEW p \in Handlers, Settle(p)
  PROVE  /\ who' \in [Handlers -> Users \cup {NoUser}]
         /\ req' \in [Handlers -> [id : 0..MaxRequests, type : {"none", "join", "leave"}]]
         /\ verdict' \in [Handlers -> {"none", "approve", "deny", "remove"}]
  BY EntryType DEF GroupTypeOK, Settle

(* A handler that answers is idle and keeps nothing.                       *)
LEMMA RespondType ==
  ASSUME GroupTypeOK, NEW p \in Handlers, Respond(p)
  PROVE  /\ at' = [at EXCEPT ![p] = "idle"] /\ at'[p] = "idle"
         /\ at' \in [Handlers -> {"idle", "add", "mutate", "remove", "mail", "find", "load", "drop"}]
         /\ who' \in [Handlers -> Users \cup {NoUser}]
         /\ req' \in [Handlers -> [id : 0..MaxRequests, type : {"none", "join", "leave"}]]
         /\ verdict' \in [Handlers -> {"none", "approve", "deny", "remove"}]
         /\ found' \in [Handlers -> SUBSET Users] /\ drop' \in [Handlers -> SUBSET Users]
  BY SettleType DEF GroupTypeOK, Respond, Goto

(* Marking users as moved keeps the types.                                 *)
LEMMA TouchType ==
  ASSUME GroupTypeOK, NEW p \in Handlers, NEW S \in SUBSET Users, TouchAll(p, S)
  PROVE  moved' \in [Handlers -> SUBSET Users]
  BY DEF GroupTypeOK, TouchAll

(* What marking does: whoever still relies on a look has the touched users *)
(* marked, except the one who touches them.                                *)
LEMMA TouchMarks ==
  ASSUME GroupTypeOK, NEW p \in Handlers, NEW S \in SUBSET Users, TouchAll(p, S),
         NEW q \in Handlers, Relying(q)'
  PROVE  moved[q] \subseteq moved'[q] /\ (q # p => S \subseteq moved'[q])
  BY DEF GroupTypeOK, TouchAll

(* Changing a membership, likewise.                                        *)
LEMMA ChangeType ==
  ASSUME GroupTypeOK, NEW p \in Handlers, NEW u \in Users, NEW in, Change(p, u, in)
  PROVE  /\ members' \in SUBSET Users /\ crossed' \in SUBSET Handlers
         /\ told' \in [Users -> {"unknown", "in", "out"}]
         /\ moved' \in [Handlers -> SUBSET Users]
  <1>1. (IF members' = members THEN {} ELSE {u}) \in SUBSET Users
    OBVIOUS
  <1> QED
    BY <1>1, TouchType DEF GroupTypeOK, Change, Cross

(* Dropping an entry, likewise.                                            *)
LEMMA DropType ==
  ASSUME GroupTypeOK, NEW p \in Handlers, NEW u \in Users, Drop(p, u)
  PROVE  queue' \in [Users -> QueueEntries] /\ moved' \in [Handlers -> SUBSET Users]
  <1>1. (IF queue[u] = NotQueued THEN {} ELSE {u}) \in SUBSET Users
    OBVIOUS
  <1> QED
    BY <1>1, TouchType, EntryType DEF GroupTypeOK, Drop

(* Every step keeps the types ...                                          *)
LEMMA TypeStep == RequestType /\ [GroupNext]_groupVars => GroupTypeOK'
  <1> SUFFICES ASSUME RequestType, [GroupNext]_groupVars PROVE GroupTypeOK'
    OBVIOUS
  <1> USE DEF Goto, NoTouch, Touch
  <1>0. GroupTypeOK /\ HandlerInv
    BY DEF RequestType
  <1>1. ASSUME NEW p \in Handlers, NEW u \in Users, RequestJoinOrLeave(p, u) PROVE GroupTypeOK'
    BY <1>0, <1>1, GroupConstants DEF GroupTypeOK, RequestJoinOrLeave, mails
  <1>2. ASSUME NEW p \in Handlers, NEW u \in Users, GroupRemoveMember(p, u) PROVE GroupTypeOK'
    <2>1. queue[u] \in [id : 0..MaxRequests, type : {"none", "join", "leave"}]
      BY <1>0, EntryType DEF GroupTypeOK
    <2>2. Change(p, u, FALSE)
      BY <1>2 DEF GroupRemoveMember
    <2> QED
      BY <1>0, <1>2, <2>1, <2>2, ChangeType DEF GroupTypeOK, GroupRemoveMember
  <1>3. ASSUME NEW p \in Handlers, NEW u \in Users, DropStale(p, u) PROVE GroupTypeOK'
    <2>1. queue' \in [Users -> QueueEntries] /\ moved' \in [Handlers -> SUBSET Users]
      BY <1>0, <1>3, DropType, TouchType DEF DropStale, GroupTypeOK
    <2>2. CASE drop[p] = {u}
      BY <1>0, <1>3, <2>1, <2>2, RespondType DEF GroupTypeOK, DropStale, mails
    <2>3. CASE drop[p] # {u}
      <3>1. drop' \in [Handlers -> SUBSET Users] /\ UNCHANGED <<at, who, req, verdict, found>>
        BY <1>0, <1>3, <2>3 DEF GroupTypeOK, DropStale
      <3> QED
        BY <1>0, <1>3, <2>1, <3>1 DEF GroupTypeOK, DropStale, mails
    <2> QED
      BY <2>2, <2>3
  <1>4. ASSUME NEW p \in Handlers, NEW u \in Users, NEW v \in {"approve", "deny"},
               GroupDecision(p, u, v)
        PROVE  GroupTypeOK'
    <2>1. queue[u] \in [id : 0..MaxRequests, type : {"none", "join", "leave"}]
      BY <1>0, EntryType DEF GroupTypeOK
    <2> QED
      BY <1>0, <1>4, <2>1, TouchType DEF GroupTypeOK, GroupDecision, mails
  <1>5. ASSUME NEW p \in Handlers, AddGroupRequest(p) PROVE GroupTypeOK'
    <2>1. who[p] \in Users /\ req[p].type \in {"join", "leave"}
      BY <1>0, <1>5 DEF HandlerInv, AddGroupRequest
    <2>2. queue' \in [Users -> QueueEntries]
      <3>1. ids < MaxRequests => [id |-> ids + 1, type |-> req[p].type] \in QueueEntries
        BY <1>0, <2>1, GroupConstants DEF GroupTypeOK, QueueEntries, GroupRequest
      <3> QED
        BY <1>0, <1>5, <2>1, <3>1, EntryType DEF GroupTypeOK, AddGroupRequest
    <2>5. ids' \in 0..MaxRequests /\ blind' \in SUBSET (1..ids')
      <3>1. ids \in 0..MaxRequests /\ blind \in SUBSET (1..ids)
        BY <1>0 DEF GroupTypeOK
      <3>2. \/ ids' = ids /\ blind' = blind
            \/ ids < MaxRequests /\ ids' = ids + 1 /\ blind' = blind
            \/ ids < MaxRequests /\ ids' = ids + 1 /\ blind' = blind \cup {ids + 1}
        BY <1>5 DEF AddGroupRequest
      <3>3. ids' \in 0..MaxRequests /\ ids <= ids'
        BY <3>1, <3>2, GroupConstants
      <3>4. \A n \in blind' : n \in 1..ids \/ (n = ids + 1 /\ ids' = ids + 1)
        BY <3>1, <3>2
      <3>5. \A n \in blind' : n \in 1..ids'
        BY <3>1, <3>3, <3>4
      <3> QED
        BY <3>3, <3>5
    <2>3. moved' \in [Handlers -> SUBSET Users]
      BY <1>0, <1>5, <2>1, TouchType DEF AddGroupRequest
    <2>4. Settle(p) /\ at' = [at EXCEPT ![p] = "find"]
      BY <1>5 DEF AddGroupRequest
    <2> QED
      BY <1>0, <1>5, <2>2, <2>3, <2>4, <2>5, SettleType DEF GroupTypeOK, AddGroupRequest, mails
  <1>6. ASSUME NEW p \in Handlers, GroupApprove(p) PROVE GroupTypeOK'
    <2>1. who[p] \in Users
      BY <1>0, <1>6 DEF HandlerInv, GroupApprove
    <2>2. CASE Change(p, who[p], req[p].type = "join") /\ at' = [at EXCEPT ![p] = "remove"]
                 /\ UNCHANGED local
      BY <1>0, <1>6, <2>1, <2>2, ChangeType DEF GroupTypeOK, GroupApprove, local
    <2>3. CASE Respond(p) /\ NoTouch(p) /\ UNCHANGED <<members, told, crossed>>
      BY <1>0, <1>6, <2>3, RespondType, TouchType DEF GroupTypeOK, GroupApprove
    <2> QED
      BY <1>6, <2>2, <2>3 DEF GroupApprove
  <1>7. ASSUME NEW p \in Handlers, RemoveGroupRequest(p) PROVE GroupTypeOK'
    <2>1. who[p] \in Users
      BY <1>0, <1>7 DEF HandlerInv, RemoveGroupRequest
    <2>2. queue' \in [Users -> QueueEntries] /\ moved' \in [Handlers -> SUBSET Users]
      BY <1>0, <1>7, <2>1, DropType, TouchType DEF RemoveGroupRequest, GroupTypeOK
    <2>3. /\ Settle(p) \/ UNCHANGED <<who, req, verdict>>
          /\ \E a \in {"mail", "find"} : at' = [at EXCEPT ![p] = a]
      BY <1>7 DEF RemoveGroupRequest
    <2> QED
      BY <1>0, <1>7, <2>2, <2>3, SettleType DEF GroupTypeOK, RemoveGroupRequest, mails
  <1>13. ASSUME NEW p \in Handlers, SendGroupDecision(p) PROVE GroupTypeOK'
    <2>1. told' \in [Users -> {"unknown", "in", "out"}]
      BY <1>0, <1>13 DEF GroupTypeOK, SendGroupDecision
    <2>2. Settle(p) /\ at' = [at EXCEPT ![p] = "find"]
      BY <1>13 DEF SendGroupDecision
    <2> QED
      BY <1>0, <1>13, <2>1, <2>2, SettleType DEF GroupTypeOK, SendGroupDecision
  <1>8. ASSUME NEW p \in Handlers, GroupsPage(p) PROVE GroupTypeOK'
    BY <1>0, <1>8 DEF GroupTypeOK, GroupsPage, mails, local
  <1>9. ASSUME NEW p \in Handlers, FindManaged(p) PROVE GroupTypeOK'
    BY <1>0, <1>9, RespondType, TouchType DEF GroupTypeOK, FindManaged, mails
  <1>10. ASSUME NEW p \in Handlers, LoadGroupRequests(p) PROVE GroupTypeOK'
    <2>1. CASE Respond(p)
      BY <1>0, <1>10, <2>1, RespondType, TouchType DEF GroupTypeOK, LoadGroupRequests, mails
    <2>2. CASE /\ drop' = [drop EXCEPT ![p] = {u \in Users : Stale(u, queue[u], found[p])}]
               /\ at' = [at EXCEPT ![p] = "drop"] /\ UNCHANGED <<who, req, verdict, found>>
      BY <1>0, <1>10, <2>2, TouchType DEF GroupTypeOK, LoadGroupRequests, mails
    <2> QED
      BY <1>10, <2>1, <2>2 DEF LoadGroupRequests
  <1>11. ASSUME NEW u \in Users, OutsideChange(u) PROVE GroupTypeOK'
    BY <1>0, <1>11, GroupConstants DEF GroupTypeOK, OutsideChange, local
  <1>12. CASE UNCHANGED groupVars
    BY <1>0, <1>12 DEF GroupTypeOK, groupVars
  <1> QED
    BY <1>1, <1>2, <1>3, <1>4, <1>5, <1>6, <1>7, <1>8, <1>9, <1>10, <1>11, <1>12, <1>13 DEF GroupNext

(* ... and what handlers know.                                             *)
LEMMA HandlerStep == RequestType /\ [GroupNext]_groupVars => HandlerInv'
  <1> SUFFICES ASSUME RequestType, [GroupNext]_groupVars PROVE HandlerInv'
    OBVIOUS
  <1> USE DEF Goto
  <1>0. GroupTypeOK /\ HandlerInv
    BY DEF RequestType
  <1>1. ASSUME NEW p \in Handlers, NEW u \in Users, RequestJoinOrLeave(p, u) PROVE HandlerInv'
    BY <1>0, <1>1 DEF GroupTypeOK, HandlerInv, RequestJoinOrLeave
  <1>2. ASSUME NEW p \in Handlers, NEW u \in Users, GroupRemoveMember(p, u) PROVE HandlerInv'
    BY <1>0, <1>2 DEF GroupTypeOK, HandlerInv, GroupRemoveMember
  <1>3. ASSUME NEW p \in Handlers, NEW u \in Users, DropStale(p, u) PROVE HandlerInv'
    <2>1. CASE drop[p] = {u}
      BY <1>0, <1>3, <2>1 DEF GroupTypeOK, HandlerInv, DropStale, Respond, Settle
    <2>2. CASE drop[p] # {u}
      BY <1>0, <1>3, <2>2 DEF GroupTypeOK, HandlerInv, DropStale
    <2> QED
      BY <2>1, <2>2
  <1>4. ASSUME NEW p \in Handlers, NEW u \in Users, NEW v \in {"approve", "deny"},
               GroupDecision(p, u, v)
        PROVE  HandlerInv'
    <2>1. queue[u] \in GroupRequest
      BY <1>0, <1>4, EntryType DEF GroupTypeOK, GroupDecision
    <2> QED
      BY <1>0, <1>4, <2>1 DEF GroupTypeOK, HandlerInv, GroupDecision
  <1>5. ASSUME NEW p \in Handlers, AddGroupRequest(p) PROVE HandlerInv'
    BY <1>0, <1>5 DEF GroupTypeOK, HandlerInv, AddGroupRequest, Settle
  <1>6. ASSUME NEW p \in Handlers, GroupApprove(p) PROVE HandlerInv'
    BY <1>0, <1>6 DEF GroupTypeOK, HandlerInv, GroupApprove, Respond, Settle, local
  <1>7. ASSUME NEW p \in Handlers, RemoveGroupRequest(p) PROVE HandlerInv'
    BY <1>0, <1>7 DEF GroupTypeOK, HandlerInv, RemoveGroupRequest, Settle
  <1>8. ASSUME NEW p \in Handlers, GroupsPage(p) PROVE HandlerInv'
    BY <1>0, <1>8 DEF GroupTypeOK, HandlerInv, GroupsPage, local
  <1>9. ASSUME NEW p \in Handlers, FindManaged(p) PROVE HandlerInv'
    BY <1>0, <1>9 DEF GroupTypeOK, HandlerInv, FindManaged, Respond, Settle
  <1>10. ASSUME NEW p \in Handlers, LoadGroupRequests(p) PROVE HandlerInv'
    BY <1>0, <1>10 DEF GroupTypeOK, HandlerInv, LoadGroupRequests, Respond, Settle
  <1>13. ASSUME NEW p \in Handlers, SendGroupDecision(p) PROVE HandlerInv'
    BY <1>0, <1>13 DEF GroupTypeOK, HandlerInv, SendGroupDecision, Settle
  <1>11. ASSUME NEW u \in Users, OutsideChange(u) PROVE HandlerInv'
    BY <1>0, <1>11 DEF HandlerInv, OutsideChange, local
  <1>12. CASE UNCHANGED groupVars
    BY <1>0, <1>12 DEF HandlerInv, groupVars
  <1> QED
    BY <1>1, <1>2, <1>3, <1>4, <1>5, <1>6, <1>7, <1>8, <1>9, <1>10, <1>11, <1>12, <1>13 DEF GroupNext

(* Every step keeps what a sponsor is about to say true, and what was      *)
(* said. A change of the membership makes whatever was told about that     *)
(* user unknown, and crosses the approvals of it that are waiting; the     *)
(* mail repeats what WordInv holds true.                                   *)
LEMMA WordStep == RequestInv /\ [GroupNext]_groupVars => WordInv' /\ AnswerHolds'
  <1> DEFINE Word == WordInv /\ AnswerHolds
  <1> SUFFICES ASSUME RequestInv, [GroupNext]_groupVars PROVE Word'
    OBVIOUS
  <1> USE DEF Goto
  <1>0. GroupTypeOK /\ HandlerInv /\ WordInv /\ AnswerHolds
    BY DEF RequestType, RequestInv
  <1>1. ASSUME NEW p \in Handlers, NEW u \in Users, RequestJoinOrLeave(p, u) PROVE Word'
    BY <1>0, <1>1 DEF GroupTypeOK, WordInv, AnswerHolds, RequestJoinOrLeave, mails
  <1>2. ASSUME NEW p \in Handlers, NEW u \in Users, GroupRemoveMember(p, u) PROVE Word'
    <2>1. WordInv'
      BY <1>0, <1>2 DEF GroupTypeOK, WordInv, GroupRemoveMember, Change, Cross
    <2>2. AnswerHolds'
      BY <1>0, <1>2 DEF GroupTypeOK, AnswerHolds, GroupRemoveMember, Change
    <2> QED
      BY <2>1, <2>2
  <1>3. ASSUME NEW p \in Handlers, NEW u \in Users, DropStale(p, u) PROVE Word'
    <2>1. CASE drop[p] = {u}
      BY <1>0, <1>3, <2>1 DEF GroupTypeOK, WordInv, AnswerHolds, DropStale, Respond, Settle, mails
    <2>2. CASE drop[p] # {u}
      BY <1>0, <1>3, <2>2 DEF GroupTypeOK, WordInv, AnswerHolds, DropStale, mails
    <2> QED
      BY <2>1, <2>2
  <1>4. ASSUME NEW p \in Handlers, NEW u \in Users, NEW v \in {"approve", "deny"},
               GroupDecision(p, u, v)
        PROVE  Word'
    BY <1>0, <1>4 DEF GroupTypeOK, WordInv, AnswerHolds, GroupDecision, mails
  <1>5. ASSUME NEW p \in Handlers, AddGroupRequest(p) PROVE Word'
    BY <1>0, <1>5 DEF GroupTypeOK, WordInv, AnswerHolds, AddGroupRequest, Settle, mails
  <1>6. ASSUME NEW p \in Handlers, GroupApprove(p) PROVE Word'
    <2>1. CASE Change(p, who[p], req[p].type = "join") /\ at' = [at EXCEPT ![p] = "remove"]
                 /\ UNCHANGED local
      <3>1. WordInv'
        BY <1>0, <1>6, <2>1 DEF GroupTypeOK, HandlerInv, WordInv, GroupApprove, Change, Cross, local
      <3>2. AnswerHolds'
        BY <1>0, <1>6, <2>1 DEF GroupTypeOK, AnswerHolds, GroupApprove, Change
      <3> QED
        BY <3>1, <3>2
    <2>2. CASE Respond(p) /\ UNCHANGED <<members, told, crossed>>
      BY <1>0, <1>6, <2>2 DEF GroupTypeOK, WordInv, AnswerHolds, GroupApprove, Respond, Settle
    <2> QED
      BY <1>6, <2>1, <2>2 DEF GroupApprove
  <1>7. ASSUME NEW p \in Handlers, RemoveGroupRequest(p) PROVE Word'
    <2>1. CASE verdict[p] = "remove"
      BY <1>0, <1>7, <2>1 DEF GroupTypeOK, WordInv, AnswerHolds, RemoveGroupRequest, Settle, mails
    <2>2. CASE verdict[p] # "remove"
      BY <1>0, <1>7, <2>2 DEF GroupTypeOK, WordInv, AnswerHolds, RemoveGroupRequest, mails
    <2> QED
      BY <2>1, <2>2
  <1>13. ASSUME NEW p \in Handlers, SendGroupDecision(p) PROVE Word'
    <2>1. WordInv'
      BY <1>0, <1>13 DEF GroupTypeOK, WordInv, SendGroupDecision, Settle
    <2>2. AnswerHolds'
      <3>1. CASE UNCHANGED told
        BY <1>0, <1>13, <3>1 DEF AnswerHolds, SendGroupDecision
      <3>2. CASE /\ verdict[p] = "approve"
                 /\ told' = [told EXCEPT ![who[p]] =
                       IF p \in crossed THEN "unknown"
                       ELSE IF req[p].type = "join" THEN "in" ELSE "out"]
        BY <1>0, <1>13, <3>2 DEF GroupTypeOK, HandlerInv, WordInv, AnswerHolds, SendGroupDecision
      <3> QED
        BY <1>13, <3>1, <3>2 DEF SendGroupDecision
    <2> QED
      BY <2>1, <2>2
  <1>8. ASSUME NEW p \in Handlers, GroupsPage(p) PROVE Word'
    BY <1>0, <1>8 DEF GroupTypeOK, WordInv, AnswerHolds, GroupsPage, mails, local
  <1>9. ASSUME NEW p \in Handlers, FindManaged(p) PROVE Word'
    BY <1>0, <1>9 DEF GroupTypeOK, WordInv, AnswerHolds, FindManaged, Respond, Settle, mails
  <1>10. ASSUME NEW p \in Handlers, LoadGroupRequests(p) PROVE Word'
    BY <1>0, <1>10 DEF GroupTypeOK, WordInv, AnswerHolds, LoadGroupRequests, Respond, Settle, mails
  <1>11. ASSUME NEW u \in Users, OutsideChange(u) PROVE Word'
    BY <1>0, <1>11 DEF GroupTypeOK, WordInv, AnswerHolds, OutsideChange, local
  <1>12. CASE UNCHANGED groupVars
    BY <1>0, <1>12 DEF WordInv, AnswerHolds, groupVars
  <1> QED
    BY <1>1, <1>2, <1>3, <1>4, <1>5, <1>6, <1>7, <1>8, <1>9, <1>10, <1>11, <1>12, <1>13 DEF GroupNext

(* A step of p leaves the others' own variables alone, and whatever it     *)
(* changes about a user it marks as moved for those who rely on a look.    *)
Others(p) ==
    \A q \in Handlers \ {p} :
      /\ at'[q] = at[q] /\ who'[q] = who[q] /\ req'[q] = req[q]
      /\ found'[q] = found[q] /\ drop'[q] = drop[q]
      /\ Relying(q) =>
           /\ moved[q] \subseteq moved'[q]
           /\ \A u \in Users : queue'[u] # queue[u] => u \in moved'[q]
           /\ \A u \in Users \ moved'[q] : u \in members' <=> u \in members

(* So what the others have looked at stays so.                             *)
LEMMA OthersKnow ==
  ASSUME GroupTypeOK, HandlerInv, LookInv, NEW p \in Handlers, Others(p),
         NEW q \in Handlers, q # p
  PROVE  EntryOf(q)' /\ FindOf(q)' /\ DropOf(q)'
  <1>1. EntryOf(q) /\ FindOf(q) /\ DropOf(q)
    BY DEF LookInv
  <1>2. EntryOf(q)'
    BY <1>1 DEF EntryOf, Others, Relying, HandlerInv
  <1>3. FindOf(q)'
    BY <1>1 DEF FindOf, Others, Relying
  <1>4. DropOf(q)'
    BY <1>1 DEF DropOf, Others, Relying, GroupTypeOK
  <1> QED
    BY <1>2, <1>3, <1>4

(* A step that only touches what it marks is such a step.                  *)
LEMMA OthersTouched ==
  ASSUME GroupTypeOK, NEW p \in Handlers, NEW S \in SUBSET Users, TouchAll(p, S),
         \A q \in Handlers \ {p} :
            /\ at'[q] = at[q] /\ who'[q] = who[q] /\ req'[q] = req[q]
            /\ found'[q] = found[q] /\ drop'[q] = drop[q],
         \A u \in Users \ S : queue'[u] = queue[u] /\ (u \in members' <=> u \in members)
  PROVE  Others(p)
  <1> SUFFICES ASSUME NEW q \in Handlers \ {p}, Relying(q)
               PROVE  /\ moved[q] \subseteq moved'[q]
                      /\ \A u \in Users : queue'[u] # queue[u] => u \in moved'[q]
                      /\ \A u \in Users \ moved'[q] : u \in members' <=> u \in members
    BY DEF Others
  <1>1. Relying(q)'
    BY DEF Relying
  <1> QED
    BY <1>1, TouchMarks

(* Every step keeps what handlers have looked at: the others' by the marks *)
(* and the handler's own because it looks afresh or changes nothing of it. *)
LEMMA LookStep == RequestInv /\ [GroupNext]_groupVars => LookInv'
  <1> SUFFICES ASSUME RequestInv, [GroupNext]_groupVars PROVE LookInv'
    OBVIOUS
  <1> USE DEF Goto, NoTouch, Touch
  <1>0. GroupTypeOK /\ HandlerInv /\ LookInv
    BY DEF RequestType, RequestInv
  <1> DEFINE Own(p) == EntryOf(p) /\ FindOf(p) /\ DropOf(p)
  <1>a. ASSUME NEW p \in Handlers, Others(p), Own(p)' PROVE LookInv'
    BY <1>0, <1>a, OthersKnow DEF LookInv
  <1>1. ASSUME NEW p \in Handlers, NEW u \in Users, RequestJoinOrLeave(p, u) PROVE LookInv'
    <2>1. Others(p)
      BY <1>0, <1>1 DEF GroupTypeOK, RequestJoinOrLeave, Others
    <2>2. Own(p)'
      BY <1>0, <1>1 DEF GroupTypeOK, RequestJoinOrLeave, EntryOf, FindOf, DropOf
    <2> QED
      BY <1>a, <2>1, <2>2
  <1>2. ASSUME NEW p \in Handlers, NEW u \in Users, GroupRemoveMember(p, u) PROVE LookInv'
    <2> DEFINE S == IF members' = members THEN {} ELSE {u}
    <2>1. TouchAll(p, S) /\ S \in SUBSET Users
      BY <1>2 DEF GroupRemoveMember, Change
    <2>2. /\ \A q \in Handlers \ {p} :
               /\ at'[q] = at[q] /\ who'[q] = who[q] /\ req'[q] = req[q]
               /\ found'[q] = found[q] /\ drop'[q] = drop[q]
          /\ \A x \in Users \ S : queue'[x] = queue[x] /\ (x \in members' <=> x \in members)
      BY <1>0, <1>2 DEF GroupTypeOK, GroupRemoveMember, Change
    <2>3. Others(p)
      BY <1>0, <2>1, <2>2, OthersTouched
    <2>4. Own(p)'
      BY <1>0, <1>2 DEF GroupTypeOK, GroupRemoveMember, EntryOf, FindOf, DropOf
    <2> QED
      BY <1>a, <2>3, <2>4
  <1>3. ASSUME NEW p \in Handlers, NEW u \in Users, DropStale(p, u) PROVE LookInv'
    <2>1. PICK S \in SUBSET Users : TouchAll(p, S)
            /\ \A x \in Users \ S : queue'[x] = queue[x]
      <3>1. CASE Drop(p, u)
        BY <1>0, <3>1 DEF GroupTypeOK, Drop
      <3>2. CASE UNCHANGED queue /\ NoTouch(p)
        BY <3>2
      <3> QED
        BY <1>3, <3>1, <3>2 DEF DropStale
    <2>2. /\ \A q \in Handlers \ {p} :
               /\ at'[q] = at[q] /\ who'[q] = who[q] /\ req'[q] = req[q]
               /\ found'[q] = found[q] /\ drop'[q] = drop[q]
          /\ members' = members
      BY <1>0, <1>3 DEF GroupTypeOK, DropStale, Respond, Settle
    <2>3. Others(p)
      BY <1>0, <2>1, <2>2, OthersTouched
    <2>4. Own(p)'
      <3>1. CASE drop[p] = {u}
        BY <1>0, <1>3, <3>1 DEF GroupTypeOK, DropStale, Respond, EntryOf, FindOf, DropOf
      <3>2. CASE drop[p] # {u}
        <4>1. /\ at[p] = "drop" /\ at'[p] = "drop" /\ found'[p] = found[p]
              /\ drop'[p] = drop[p] \ {u}
              /\ \A x \in Users \ {u} : queue'[x] = queue[x]
          BY <1>0, <1>3, <3>2 DEF GroupTypeOK, DropStale, Drop
        <4>2. moved[p] \subseteq moved'[p]
          BY <1>0, <2>1, <4>1, TouchMarks DEF Relying
        <4>3. FindOf(p) /\ DropOf(p) /\ drop[p] \subseteq Users
          BY <1>0 DEF LookInv, GroupTypeOK
        <4> QED
          BY <2>2, <4>1, <4>2, <4>3 DEF EntryOf, FindOf, DropOf
      <3> QED
        BY <3>1, <3>2
    <2> QED
      BY <1>a, <2>3, <2>4
  <1>4. ASSUME NEW p \in Handlers, NEW u \in Users, NEW v \in {"approve", "deny"},
               GroupDecision(p, u, v)
        PROVE  LookInv'
    <2>1. /\ \A q \in Handlers \ {p} :
               /\ at'[q] = at[q] /\ who'[q] = who[q] /\ req'[q] = req[q]
               /\ found'[q] = found[q] /\ drop'[q] = drop[q]
          /\ UNCHANGED <<members, queue>> /\ TouchAll(p, {})
      BY <1>0, <1>4 DEF GroupTypeOK, GroupDecision
    <2>2. Others(p)
      BY <1>0, <2>1, OthersTouched
    <2>3. Own(p)'
      BY <1>0, <1>4 DEF GroupTypeOK, GroupDecision, EntryOf, FindOf, DropOf
    <2> QED
      BY <1>a, <2>2, <2>3
  <1>5. ASSUME NEW p \in Handlers, AddGroupRequest(p) PROVE LookInv'
    <2>1. PICK S \in SUBSET Users : TouchAll(p, S)
            /\ \A x \in Users \ S : queue'[x] = queue[x]
      <3>1. who[p] \in Users
        BY <1>0, <1>5 DEF HandlerInv, AddGroupRequest
      <3>2. CASE queue' = [queue EXCEPT ![who[p]] = [id |-> ids + 1, type |-> req[p].type]]
                 /\ Touch(p, who[p])
        BY <1>0, <3>1, <3>2 DEF GroupTypeOK
      <3>3. CASE TouchAll(p, Users)
        BY <3>3
      <3>4. CASE UNCHANGED queue /\ NoTouch(p)
        BY <3>4
      <3> QED
        BY <1>5, <3>2, <3>3, <3>4 DEF AddGroupRequest
    <2>2. /\ \A q \in Handlers \ {p} :
               /\ at'[q] = at[q] /\ who'[q] = who[q] /\ req'[q] = req[q]
               /\ found'[q] = found[q] /\ drop'[q] = drop[q]
          /\ members' = members /\ at'[p] = "find"
      BY <1>0, <1>5 DEF GroupTypeOK, AddGroupRequest, Settle
    <2>3. Others(p)
      BY <1>0, <2>1, <2>2, OthersTouched
    <2> QED
      BY <1>a, <2>2, <2>3 DEF EntryOf, FindOf, DropOf
  <1>6. ASSUME NEW p \in Handlers, GroupApprove(p) PROVE LookInv'
    <2>1. CASE Change(p, who[p], req[p].type = "join") /\ at' = [at EXCEPT ![p] = "remove"]
                 /\ UNCHANGED local
      <3> DEFINE S == IF members' = members THEN {} ELSE {who[p]}
      <3>1. TouchAll(p, S) /\ S \in SUBSET Users
        BY <1>0, <1>6, <2>1 DEF Change, HandlerInv, GroupApprove
      <3>2. /\ \A q \in Handlers \ {p} :
                 /\ at'[q] = at[q] /\ who'[q] = who[q] /\ req'[q] = req[q]
                 /\ found'[q] = found[q] /\ drop'[q] = drop[q]
            /\ \A x \in Users \ S : queue'[x] = queue[x] /\ (x \in members' <=> x \in members)
        BY <1>0, <1>6, <2>1 DEF GroupTypeOK, GroupApprove, Change, local
      <3>3. Others(p)
        BY <1>0, <3>1, <3>2, OthersTouched
      <3>4. moved[p] \subseteq moved'[p]
        <4>1. Relying(p)'
          BY <1>0, <2>1 DEF GroupTypeOK, Relying
        <4> QED
          BY <1>0, <3>1, <4>1, TouchMarks
      <3>5. /\ EntryOf(p) /\ at[p] = "mutate" /\ at'[p] = "remove"
            /\ UNCHANGED <<who, req, queue>>
        BY <1>0, <1>6, <2>1 DEF GroupTypeOK, LookInv, GroupApprove, local
      <3>6. Own(p)'
        BY <3>4, <3>5 DEF EntryOf, FindOf, DropOf
      <3> QED
        BY <1>a, <3>3, <3>6
    <2>2. CASE Respond(p) /\ NoTouch(p) /\ UNCHANGED <<members, told, crossed>>
      <3>1. /\ \A q \in Handlers \ {p} :
                 /\ at'[q] = at[q] /\ who'[q] = who[q] /\ req'[q] = req[q]
                 /\ found'[q] = found[q] /\ drop'[q] = drop[q]
            /\ UNCHANGED <<members, queue>> /\ TouchAll(p, {}) /\ at'[p] = "idle"
        BY <1>0, <1>6, <2>2 DEF GroupTypeOK, GroupApprove, Respond, Settle
      <3>2. Others(p)
        BY <1>0, <3>1, OthersTouched
      <3> QED
        BY <1>a, <3>1, <3>2 DEF EntryOf, FindOf, DropOf
    <2> QED
      BY <1>6, <2>1, <2>2 DEF GroupApprove
  <1>7. ASSUME NEW p \in Handlers, RemoveGroupRequest(p) PROVE LookInv'
    <2>1. PICK S \in SUBSET Users : TouchAll(p, S)
            /\ \A x \in Users \ S : queue'[x] = queue[x]
      <3>1. CASE Drop(p, who[p])
        BY <1>0, <1>7, <3>1 DEF GroupTypeOK, HandlerInv, RemoveGroupRequest, Drop
      <3>2. CASE UNCHANGED queue /\ NoTouch(p)
        BY <3>2
      <3> QED
        BY <1>7, <3>1, <3>2 DEF RemoveGroupRequest
    <2>2. /\ \A q \in Handlers \ {p} :
               /\ at'[q] = at[q] /\ who'[q] = who[q] /\ req'[q] = req[q]
               /\ found'[q] = found[q] /\ drop'[q] = drop[q]
          /\ members' = members /\ at'[p] \in {"mail", "find"}
      BY <1>0, <1>7 DEF GroupTypeOK, RemoveGroupRequest, Settle
    <2>3. Others(p)
      BY <1>0, <2>1, <2>2, OthersTouched
    <2> QED
      BY <1>a, <2>2, <2>3 DEF EntryOf, FindOf, DropOf
  <1>8. ASSUME NEW p \in Handlers, GroupsPage(p) PROVE LookInv'
    <2>1. Others(p) /\ at'[p] = "find"
      BY <1>0, <1>8 DEF GroupTypeOK, GroupsPage, Others, local
    <2> QED
      BY <1>a, <2>1 DEF EntryOf, FindOf, DropOf
  <1>9. ASSUME NEW p \in Handlers, FindManaged(p) PROVE LookInv'
    <2>1. /\ \A q \in Handlers \ {p} :
               /\ at'[q] = at[q] /\ who'[q] = who[q] /\ req'[q] = req[q]
               /\ found'[q] = found[q] /\ drop'[q] = drop[q]
          /\ UNCHANGED <<members, queue>> /\ TouchAll(p, {})
          /\ at'[p] = "idle" \/ (at'[p] = "load" /\ found'[p] = members)
      BY <1>0, <1>9 DEF GroupTypeOK, FindManaged, Respond, Settle
    <2>2. Others(p)
      BY <1>0, <2>1, OthersTouched
    <2> QED
      BY <1>a, <2>1, <2>2 DEF EntryOf, FindOf, DropOf
  <1>10. ASSUME NEW p \in Handlers, LoadGroupRequests(p) PROVE LookInv'
    <2>1. /\ \A q \in Handlers \ {p} :
               /\ at'[q] = at[q] /\ who'[q] = who[q] /\ req'[q] = req[q]
               /\ found'[q] = found[q] /\ drop'[q] = drop[q]
          /\ UNCHANGED <<members, queue>> /\ TouchAll(p, {})
      BY <1>0, <1>10 DEF GroupTypeOK, LoadGroupRequests, Respond, Settle
    <2>2. Others(p)
      BY <1>0, <2>1, OthersTouched
    <2>3. CASE at'[p] = "idle"
      BY <1>a, <2>2, <2>3 DEF EntryOf, FindOf, DropOf
    <2>4. CASE /\ drop' = [drop EXCEPT ![p] = {u \in Users : Stale(u, queue[u], found[p])}]
               /\ at' = [at EXCEPT ![p] = "drop"] /\ UNCHANGED found
      <3>1. /\ at[p] = "load" /\ at'[p] = "drop" /\ found'[p] = found[p] /\ FindOf(p)
            /\ drop'[p] = {u \in Users : Stale(u, queue[u], found[p])}
        BY <1>0, <1>10, <2>4 DEF GroupTypeOK, LoadGroupRequests, LookInv
      <3>2. moved[p] \subseteq moved'[p]
        BY <1>0, <2>1, <3>1, TouchMarks DEF Relying
      <3>3. FindOf(p)'
        BY <2>1, <3>1, <3>2 DEF FindOf
      <3>4. EntryOf(p)' /\ DropOf(p)'
        BY <2>1, <3>1 DEF EntryOf, DropOf
      <3> QED
        BY <1>a, <2>2, <3>3, <3>4
    <2> QED
      BY <1>0, <1>10, <2>3, <2>4 DEF LoadGroupRequests, Respond, GroupTypeOK
  <1>11. ASSUME NEW u \in Users, OutsideChange(u) PROVE LookInv'
    <2> SUFFICES ASSUME NEW p \in Handlers PROVE Own(p)'
      BY DEF LookInv
    <2>1. /\ at'[p] = at[p] /\ who'[p] = who[p] /\ req'[p] = req[p]
          /\ found'[p] = found[p] /\ drop'[p] = drop[p] /\ queue' = queue
          /\ Relying(p) => moved[p] \subseteq moved'[p] /\ u \in moved'[p]
          /\ \A x \in Users \ {u} : x \in members' <=> x \in members
      BY <1>0, <1>11 DEF GroupTypeOK, OutsideChange, local
    <2>2. EntryOf(p) /\ FindOf(p) /\ DropOf(p)
      BY <1>0 DEF LookInv
    <2>3. EntryOf(p)' /\ DropOf(p)'
      BY <2>1, <2>2 DEF EntryOf, DropOf, Relying
    <2>4. FindOf(p)'
      BY <2>1, <2>2 DEF FindOf, Relying
    <2> QED
      BY <2>3, <2>4
  <1>12. CASE UNCHANGED groupVars
    BY <1>0, <1>12 DEF LookInv, EntryOf, FindOf, DropOf, Stale, groupVars
  <1>13. ASSUME NEW p \in Handlers, SendGroupDecision(p) PROVE LookInv'
    <2>1. Others(p) /\ at'[p] = "find"
      BY <1>0, <1>13 DEF GroupTypeOK, SendGroupDecision, Settle, Others
    <2> QED
      BY <1>a, <2>1 DEF EntryOf, FindOf, DropOf
  <1> QED
    BY <1>1, <1>2, <1>3, <1>4, <1>5, <1>6, <1>7, <1>8, <1>9, <1>10, <1>11, <1>12, <1>13 DEF GroupNext

(* The invariant holds throughout: what the handlers of groups.go have     *)
(* looked at stays true of every user nobody else has touched.             *)
LEMMA RequestInvHolds == GroupSpec => []RequestInv
  <1>1. RequestInv /\ [GroupNext]_groupVars => RequestInv'
    BY TypeStep, HandlerStep, WordStep, LookStep DEF RequestInv, RequestType
  <1> QED
    BY <1>1, RequestInvInit, PTL DEF GroupSpec

(* The types, for any users, sponsors and numbers of requests (groups.go,  *)
(* group_requests.go).                                                     *)
THEOREM GroupTypeCorrect == GroupSpec => []GroupTypeOK
  BY RequestInvHolds, PTL DEF RequestInv, RequestType

(* After the mail of GroupApprove the user is in the group (or out of it), *)
(* until somebody moves that user again or unless another sponsor did so   *)
(* before the mail.                                                        *)
THEOREM ApprovalsAreTrue == GroupSpec => []AnswerHolds
  BY RequestInvHolds, PTL DEF RequestInv

(* A step that takes an entry out of the queue takes the one that was      *)
(* decided or one that is fulfilled, or one about which something changed  *)
(* meanwhile, or it is the one that queues a request after a failed Get.   *)
LEMMA OnlyDecidedOrFulfilled ==
  ASSUME RequestInv, GroupNext, NEW u \in Users, queue[u] # NotQueued, queue'[u] # queue[u]
  PROVE  (\E p \in Handlers : Decided(p, u) \/ Cleared(p, u)) \/ blind' # blind
  <1> USE DEF Goto
  <1>0. GroupTypeOK /\ HandlerInv /\ LookInv
    BY DEF RequestInv, RequestType
  <1>1. ASSUME NEW p \in Handlers, RemoveGroupRequest(p) PROVE Decided(p, u)
    <2>1. u = who[p] /\ at[p] = "remove" /\ at'[p] # "remove"
      BY <1>0, <1>1 DEF RemoveGroupRequest, Drop, GroupTypeOK
    <2> QED
      BY <1>0, <2>1 DEF LookInv, EntryOf, Decided
  <1>2. ASSUME NEW p \in Handlers, NEW x \in Users, DropStale(p, x) PROVE Cleared(p, u)
    <2>1. u = x /\ at[p] = "drop" /\ u \in drop[p] /\ u \notin drop'[p]
      BY <1>0, <1>2 DEF DropStale, Drop, Respond, GroupTypeOK
    <2>2. FindOf(p) /\ DropOf(p)
      BY <1>0 DEF LookInv
    <2>3. u \in moved[p] \/ Stale(u, queue[u], members)
      BY <2>1, <2>2 DEF FindOf, DropOf, Stale
    <2>4. queue[u].type \in {"join", "leave"}
      BY <1>0, EntryType DEF GroupTypeOK, GroupRequest
    <2> QED
      BY <2>1, <2>3, <2>4 DEF Stale, Fulfilled, Cleared
  <1>3. ASSUME NEW p \in Handlers, AddGroupRequest(p) PROVE blind' # blind
    <2>1. CASE queue[who[p]] = NotQueued /\ queue' = [queue EXCEPT ![who[p]] =
                 [id |-> ids + 1, type |-> req[p].type]]
      BY <1>0, <2>1 DEF GroupTypeOK
    <2>2. CASE ids < MaxRequests /\ blind' = blind \cup {ids + 1} /\ ids' = ids + 1
      BY <1>0, <2>2 DEF GroupTypeOK
    <2> QED
      BY <1>3, <2>1, <2>2 DEF AddGroupRequest
  <1>4. CASE UNCHANGED queue
    BY <1>4
  <1> QED
    BY <1>1, <1>2, <1>3, <1>4 DEF GroupNext, RequestJoinOrLeave, GroupRemoveMember, GroupDecision,
       GroupApprove, SendGroupDecision, GroupsPage, FindManaged, LoadGroupRequests, OutsideChange

(* removeGroupRequest goes by name; even so a request leaves the queue     *)
(* only when it was decided, or is fulfilled, or its user was moved while  *)
(* the handler was at work, or because a Get failed under another request. *)
THEOREM UndecidedRequestsStay == GroupSpec => OpenRequestsStay
  <1>1. RequestInv /\ [GroupNext]_groupVars =>
          [\A u \in Users : queue[u] # NotQueued /\ queue'[u] # queue[u] =>
             \/ \E p \in Handlers : Decided(p, u) \/ Cleared(p, u)
             \/ blind' # blind]_groupVars
    BY OnlyDecidedOrFulfilled
  <1> QED
    BY <1>1, RequestInvHolds, PTL DEF GroupSpec, OpenRequestsStay
=============================================================================
