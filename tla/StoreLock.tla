----------------------------- MODULE StoreLock -----------------------------
(***************************************************************************)
(* server/storelock.go: the lock in front of mokey's read-modify-write     *)
(* cycles on JSON lists, together with the cycle it guards.  Several       *)
(* replicas of the server share one storage backend.  A request on a       *)
(* replica first takes the replica's mutex for the key; with a redis       *)
(* backend it then polls a SET NX key with a TTL and, when it cannot have  *)
(* it, proceeds WITHOUT the lock.                                          *)
(*                                                                         *)
(* One storage key is modelled (locks of different keys share nothing):    *)
(* a user's session index or a request queue (a group's, or the OTP        *)
(* recovery queue); Init picks which.  A request serves one guarded call   *)
(* after another: which function it calls shows when the list is loaded.   *)
(* Time is counted in ticks by three countdowns: the TTL of the redis key, *)
(* the time a waiter is still prepared to wait and, as a ghost, the part   *)
(* of its TTL a holder has left.  A request may be paused for any number   *)
(* of ticks at any point, except between the SET NX reply and the look at  *)
(* the deadline that follows it.  The token of a lock is fresh for every   *)
(* call; here it is the request, which is as good: a request has never     *)
(* more than the one call under way, and sets the key only when it is free.*)
(***************************************************************************)
EXTENDS Integers, Filter

CONSTANTS
    Replicas,       \* server processes sharing the backend
    Requests,       \* goroutines that serve requests
    Home,           \* Home[w]: the replica request w runs on
    Entries,        \* sids, or users with a request
    Calls,          \* guarded calls that are made
    OldList,        \* OldList[site]: what earlier calls have left there
    userSessionsMax,
    redis,          \* is the storage driver redis (l.rdb # nil)?
    storeLockTTL,   \* ticks until redis drops the lock key
    NoRequest,      \* nobody
    NoCall

(* The functions under the lock, with the entry each is about:             *)
(*   record   recordUserSession          drop     dropSessionFromIndex     *)
(*   revoke   revokeUserSession          others   revokeOtherUserSessions  *)
(*   list     userSessions; "live" are the sids sessionAlive finds         *)
(*   queue    addGroupRequest, addOTPRecoveryRequest                       *)
(*   unqueue  removeGroupRequest, removeOTPRecoveryRequest                 *)
IndexKinds == {"record", "drop", "revoke", "others", "list"}
QueueKinds == {"queue", "unqueue"}
Call == [kind : IndexKinds \cup QueueKinds, entry : Entries, live : SUBSET Entries]

ASSUME ConstantsOK ==
    /\ Home \in [Requests -> Replicas]
    /\ Calls \subseteq Call
    /\ userSessionsMax \in Nat \ {0}
    /\ OldList \in [{"index", "queue"} -> Seq(Entries)]
    /\ Len(OldList["index"]) =< userSessionsMax
    /\ redis \in BOOLEAN
    /\ storeLockTTL \in Nat \ {0}
    /\ NoRequest \notin Requests
    /\ NoCall \notin Calls

(* Memory and sqlite3 storage belong to one process (storelock.go:10).     *)
ASSUME OneProcessWithoutRedis ==
    ~redis => \A v, w \in Requests : Home[v] = Home[w]

VARIABLES
    site,       \* what the key holds: "index" or "queue"
    pc,         \* where request w is in its cycle
    mode,       \* how hold() returned: "none" (not yet), "mutex", "locked",
                \* "unlocked" (acquire failed), "timeout" (acquire gave up)
    mutex,      \* mutex[r]: holder of replica r's sync.Mutex for the key
    owner,      \* token stored in the redis lock key, NoRequest if absent
    ttl,        \* remaining life of the lock key
    wait,       \* wait[w]: remaining patience of a polling request
    lease,      \* ghost: remaining life of the key as set by request w
    beaten,     \* ghost: requests that lost the key to another while polling
    list,       \* the stored JSON list
    edited,     \* edited[w]: what request w has made of the list it loaded
    degraded,   \* ghost: has an edit ever run without protection?
    call,       \* ghost: the guarded call behind edited[w], and
    ideal       \* ghost: the list with every saved call applied in turn;
                \* both are kept until an edit runs without protection

vars == <<site, pc, mode, mutex, owner, ttl, wait, lease, beaten, list, edited,
          degraded, call, ideal>>
ghosts == <<degraded, call, ideal>>

(* Mutant: a waiter gives up before a lock left behind can have expired.   *)
storeLockWaitShort == storeLockTTL - 1

(* How long a waiter polls: one second more than the TTL.                  *)
storeLockWait == storeLockTTL + 1

Active(w)  == pc[w] \notin {"idle", "lock"}
Editing(w) == pc[w] \in {"load", "save"}

(* Mutant: the cap is forgotten.                                           *)
CappedNot(s) == s

(* Mutant: the cap is off by one, one session too many falls off.          *)
CappedTight(s) == IF Len(s) > userSessionsMax
                    THEN SubSeq(s, Len(s) - userSessionsMax + 2, Len(s)) ELSE s

(* kept[len(kept)-userSessionsMax:] - the newest sessions stay.            *)
Capped(s) == IF Len(s) > userSessionsMax
               THEN SubSeq(s, Len(s) - userSessionsMax + 1, Len(s)) ELSE s

(* What recordUserSession, userSessions and the revocations make of a      *)
(* loaded index.                                                           *)
EditIndex(c, s) ==
    CASE c.kind = "record" ->
           Capped(Append(Keep(s, Entries \ {c.entry}), c.entry))
      [] c.kind \in {"drop", "revoke"} -> Keep(s, Entries \ {c.entry})
      [] c.kind = "others" -> Keep(s, {c.entry})
      [] OTHER -> Keep(s, c.live)

(* What the request queues make of a loaded queue.                         *)
EditQueue(c, s) == IF c.kind = "queue" THEN Append(s, c.entry)
                                       ELSE Keep(s, Entries \ {c.entry})

Apply(c, s) == IF c.kind \in QueueKinds THEN EditQueue(c, s) ELSE EditIndex(c, s)

Holds(s, e) == \E i \in 1..Len(s) : s[i] = e

(* Early returns: revokeUserSession and the removals when the entry is not *)
(* there, the additions when it is, userSessions when there is nothing.    *)
Saves(c, s) ==
    CASE c.kind \in {"revoke", "unqueue"} -> Holds(s, c.entry)
      [] c.kind = "queue" -> ~Holds(s, c.entry)
      [] c.kind = "list" -> s # <<>>
      [] OTHER -> TRUE

CallsHere == {c \in Calls : c.kind \in (IF site = "index" THEN IndexKinds
                                                         ELSE QueueKinds)}

(* What the deferred release does first.                                   *)
AfterEdit(w) == IF mode[w] = "locked" THEN "release" ELSE "unlock"

(* An edit runs without protection: from here on there is no ideal list.   *)
Degrade == /\ degraded' = TRUE
           /\ call' = [w \in Requests |-> NoCall]
           /\ ideal' = <<>>

-----------------------------------------------------------------------------
Init ==
    /\ site \in {"index", "queue"}
    /\ pc = [w \in Requests |-> "idle"]
    /\ mode = [w \in Requests |-> "none"]
    /\ mutex = [r \in Replicas |-> NoRequest]
    /\ owner = NoRequest
    /\ ttl = 0
    /\ wait = [w \in Requests |-> 0]
    /\ lease = [w \in Requests |-> 0]
    /\ beaten = {}
    /\ list = OldList[site]
    /\ edited = [w \in Requests |-> <<>>]
    /\ degraded = FALSE
    /\ call = [w \in Requests |-> NoCall]
    /\ ideal = OldList[site]

(* A guarded function is called and comes to mu.Lock().                    *)
Arrive(w) ==
    /\ pc[w] = "idle"
    /\ pc' = [pc EXCEPT ![w] = "lock"]
    /\ UNCHANGED <<site, mode, mutex, owner, ttl, wait, lease, beaten, list,
                   edited, ghosts>>

(* Past mu.Lock(): straight into the cycle unless there is a redis.        *)
Locked(w) ==
    /\ IF redis
         THEN /\ pc' = [pc EXCEPT ![w] = "acquire"]
              /\ wait' = [wait EXCEPT ![w] = storeLockWait]
              /\ UNCHANGED mode
         ELSE /\ pc' = [pc EXCEPT ![w] = "load"]
              /\ mode' = [mode EXCEPT ![w] = "mutex"]
              /\ UNCHANGED wait
    /\ UNCHANGED <<site, owner, ttl, lease, beaten, list, edited, ghosts>>

(* Mutant: hold() does not wait for the replica's mutex.                   *)
HoldNoMutex(w) ==
    /\ pc[w] = "lock"
    /\ mutex' = [mutex EXCEPT ![Home[w]] = w]
    /\ Locked(w)

(* hold: mu.Lock() returns.                                                *)
Hold(w) ==
    /\ pc[w] = "lock"
    /\ mutex[Home[w]] = NoRequest
    /\ mutex' = [mutex EXCEPT ![Home[w]] = w]
    /\ Locked(w)

Enter(w, m) ==
    /\ pc[w] = "acquire"
    /\ pc' = [pc EXCEPT ![w] = "load"]
    /\ mode' = [mode EXCEPT ![w] = m]
    /\ wait' = [wait EXCEPT ![w] = 0]

(* Mutant: SET without NX.                                                 *)
SetKeyNoNX(w) ==
    /\ owner' = w
    /\ ttl' = storeLockTTL
    /\ beaten' = beaten \cup {v \in Requests \ {w} : pc[v] = "acquire"}

(* The lock key is written with w's token: w's rivals have been beaten.    *)
SetKey(w) ==
    /\ ttl = 0
    /\ owner' = w
    /\ ttl' = storeLockTTL
    /\ beaten' = beaten \cup {v \in Requests \ {w} : pc[v] = "acquire"}

(* acquire: SET NX succeeds.  (A poll that fails before the deadline       *)
(* changes nothing: the request sleeps and polls again.)                   *)
SetNX(w) ==
    /\ Enter(w, "locked")
    /\ SetKey(w)
    /\ lease' = [lease EXCEPT ![w] = storeLockTTL]
    /\ UNCHANGED <<site, mutex, list, edited, ghosts>>

(* acquire: no randomness, or redis answers with an error - which does not *)
(* say whether the key was set.  hold() logs and proceeds unlocked.        *)
AcquireError(w) ==
    /\ Enter(w, "unlocked")
    /\ SetKey(w) \/ UNCHANGED <<owner, ttl, beaten>>
    /\ Degrade
    /\ UNCHANGED <<site, mutex, lease, list, edited>>

(* acquire: the poll fails past the deadline; hold() proceeds unlocked.    *)
AcquireTimeout(w) ==
    /\ Enter(w, "timeout")
    /\ ttl > 0 /\ wait[w] = 0
    /\ Degrade
    /\ UNCHANGED <<site, mutex, owner, ttl, lease, beaten, list, edited>>

(* The guarded function, whichever it is, reads the list; a failed Get     *)
(* counts as an empty list, and the edit goes on from there.               *)
Load(w) ==
    /\ pc[w] = "load"
    /\ \E c \in CallsHere, s \in {list, <<>>} :
         /\ pc' = [pc EXCEPT ![w] = IF Saves(c, s) THEN "save" ELSE AfterEdit(w)]
         /\ edited' = [edited EXCEPT ![w] = IF Saves(c, s) THEN Apply(c, s) ELSE <<>>]
         /\ \/ s = list /\ ~degraded /\ UNCHANGED <<degraded, ideal>>
               /\ call' = [call EXCEPT ![w] = IF Saves(c, s) THEN c ELSE NoCall]
            \/ (s # list \/ degraded) /\ Degrade
    /\ UNCHANGED <<site, mode, mutex, owner, ttl, wait, lease, beaten, list>>

(* ... and writes the edited copy back; a failed Set is only logged.       *)
Save(w) ==
    /\ pc[w] = "save"
    /\ pc' = [pc EXCEPT ![w] = AfterEdit(w)]
    /\ \/ /\ list' = edited[w]
          /\ ideal' = IF degraded THEN <<>> ELSE Apply(call[w], ideal)
       \/ UNCHANGED <<list, ideal>>
    /\ edited' = [edited EXCEPT ![w] = <<>>]
    /\ call' = [call EXCEPT ![w] = NoCall]
    /\ UNCHANGED <<site, mode, mutex, owner, ttl, wait, lease, beaten, degraded>>

(* Mutant: a plain DEL instead of compare-and-delete.                      *)
ReleaseAny(w) ==
    /\ pc[w] = "release"
    /\ pc' = [pc EXCEPT ![w] = "unlock"]
    /\ owner' = NoRequest /\ ttl' = 0
    /\ lease' = [lease EXCEPT ![w] = 0]
    /\ UNCHANGED <<site, mode, mutex, wait, beaten, list, edited, ghosts>>

(* release: the script deletes the key only if it still holds w's token;   *)
(* when redis cannot be reached the key is left to its TTL.                *)
Release(w) ==
    /\ pc[w] = "release"
    /\ pc' = [pc EXCEPT ![w] = "unlock"]
    /\ \/ /\ owner = w
          /\ owner' = NoRequest /\ ttl' = 0
       \/ UNCHANGED <<owner, ttl>>
    /\ lease' = [lease EXCEPT ![w] = 0]
    /\ UNCHANGED <<site, mode, mutex, wait, beaten, list, edited, ghosts>>

(* mu.Unlock(): the call is over, the goroutine may serve another one.     *)
Unlock(w) ==
    /\ pc[w] = "unlock"
    /\ pc' = [pc EXCEPT ![w] = "idle"]
    /\ mode' = [mode EXCEPT ![w] = "none"]
    /\ mutex' = [mutex EXCEPT ![Home[w]] = NoRequest]
    /\ beaten' = beaten \ {w}
    /\ UNCHANGED <<site, owner, ttl, wait, lease, list, edited, ghosts>>

(* A replica dies and comes back: its requests are gone where they are,    *)
(* its mutexes are free, the redis key stays.                              *)
Crash(r) ==
    LET dying == {w \in Requests : Home[w] = r /\ pc[w] # "idle"}
    IN /\ dying # {}
       /\ pc' = [w \in Requests |-> IF w \in dying THEN "idle" ELSE pc[w]]
       /\ mode' = [w \in Requests |-> IF w \in dying THEN "none" ELSE mode[w]]
       /\ mutex' = [mutex EXCEPT ![r] = NoRequest]
       /\ wait' = [w \in Requests |-> IF w \in dying THEN 0 ELSE wait[w]]
       /\ lease' = [w \in Requests |-> IF w \in dying THEN 0 ELSE lease[w]]
       /\ beaten' = beaten \ dying
       /\ edited' = [w \in Requests |-> IF w \in dying THEN <<>> ELSE edited[w]]
       /\ call' = [w \in Requests |-> IF w \in dying THEN NoCall ELSE call[w]]
       /\ UNCHANGED <<site, owner, ttl, list, degraded, ideal>>

Minus1(n) == IF n > 0 THEN n - 1 ELSE 0

(* A holder outlives its key in the middle of its edit.                    *)
Overrun == \E w \in Requests : lease[w] = 1 /\ Editing(w)

(* Mutant: the lock key is set without a TTL.                              *)
TickNoExpiry ==
    /\ wait' = [w \in Requests |-> Minus1(wait[w])]
    /\ lease' = [w \in Requests |-> Minus1(lease[w])]
    /\ UNCHANGED <<site, pc, mode, mutex, owner, ttl, beaten, list, edited, ghosts>>

(* Mutant: the deadline is computed inside the loop, anew for every poll.  *)
TickDeadlineMoves ==
    /\ ttl' = Minus1(ttl)
    /\ owner' = IF ttl' = 0 THEN NoRequest ELSE owner
    /\ lease' = [w \in Requests |-> Minus1(lease[w])]
    /\ IF Overrun THEN Degrade ELSE UNCHANGED ghosts
    /\ UNCHANGED <<site, pc, mode, mutex, wait, beaten, list, edited>>

(* Time passes; redis expires the key.                                     *)
Tick ==
    /\ ttl' = Minus1(ttl)
    /\ owner' = IF ttl' = 0 THEN NoRequest ELSE owner
    /\ wait' = [w \in Requests |-> Minus1(wait[w])]
    /\ lease' = [w \in Requests |-> Minus1(lease[w])]
    /\ IF Overrun THEN Degrade ELSE UNCHANGED ghosts
    /\ UNCHANGED <<site, pc, mode, mutex, beaten, list, edited>>

(* A call that has the mutex goes on; redis and the storage do not fail    *)
(* the way AcquireError tells.                                             *)
Proceed(w) == \/ SetNX(w) \/ AcquireTimeout(w)
              \/ Load(w) \/ Save(w) \/ Release(w) \/ Unlock(w)

Step(w) == Arrive(w) \/ Hold(w) \/ AcquireError(w) \/ Proceed(w)

Next == (\E w \in Requests : Step(w)) \/ (\E r \in Replicas : Crash(r)) \/ Tick

Spec == Init /\ [][Next]_vars

(* Goroutines are scheduled, storage calls return and clocks advance.  A   *)
(* sync.Mutex starves nobody: a waiter it has passed over for 1 ms is next *)
(* (Go's starvation mode), so mu.Lock() returns if it can again and again. *)
(* Nobody has to arrive, and redis does not have to fail: a poll goes on   *)
(* until the key is free or the deadline has passed.                       *)
Fairness == /\ \A w \in Requests : WF_vars(Proceed(w)) /\ SF_vars(Hold(w))
            /\ WF_vars(Tick)

FairSpec == Spec /\ Fairness

-----------------------------------------------------------------------------
(* What the key may hold: entries, and of sessions no more than the cap.   *)
Lists == {s \in Seq(Entries) : site = "index" => Len(s) =< userSessionsMax}

(* Types: the countdowns stay within storeLockTTL and storeLockWait, the   *)
(* stored list and every loaded copy hold nothing but entries, and a       *)
(* session index never more than userSessionsMax of them.                  *)
TypeOK ==
    /\ site \in {"index", "queue"}
    /\ pc \in [Requests -> {"idle", "lock", "acquire", "load", "save",
                            "release", "unlock"}]
    /\ mode \in [Requests -> {"none", "mutex", "locked", "unlocked", "timeout"}]
    /\ mutex \in [Replicas -> Requests \cup {NoRequest}]
    /\ owner \in Requests \cup {NoRequest}
    /\ ttl \in 0..storeLockTTL
    /\ wait \in [Requests -> 0..storeLockWait]
    /\ lease \in [Requests -> 0..storeLockTTL]
    /\ beaten \in SUBSET Requests
    /\ list \in Lists
    /\ edited \in [Requests -> Lists]
    /\ degraded \in BOOLEAN
    /\ call \in [Requests -> CallsHere \cup {NoCall}]
    /\ \A w \in Requests : pc[w] = "save" /\ ~degraded => call[w] \in CallsHere
    /\ ideal \in Lists

(* Editing under the redis lock, with time left on it.                     *)
Protected(w) == Editing(w) /\ mode[w] = "locked" /\ lease[w] > 0

(* Two requests never edit at the same time while both still have time     *)
(* left on the lock they were given, on whatever replicas they run and     *)
(* whatever locks expired, were released late or belonged to dead replicas *)
(* (storelock.go: SET NX, and a release that compares the token).          *)
MutualExclusion ==
    \A v, w \in Requests : Protected(v) /\ Protected(w) => v = w

(* Requests of one replica never edit at the same time, not even when they *)
(* proceed without the redis lock: hold() returns with the mutex held.     *)
LocalExclusion ==
    \A v, w \in Requests :
        Editing(v) /\ Editing(w) /\ Home[v] = Home[w] => v = w

(* No saved edit is lost: as long as every cycle had its lock in time and  *)
(* read the list, the list is what the saved edits make of it one by one - *)
(* failed saves, crashes between load and save, locks left by dead         *)
(* replicas and failed releases included.                                  *)
NoLostUpdate == ~degraded => list = ideal

(* A request gives up waiting only if another request got the lock during  *)
(* its wait: the one lock a dead replica left behind has expired before    *)
(* then, because storeLockWait is longer than storeLockTTL.                *)
TimeoutMeansContention ==
    \A w \in Requests : mode[w] = "timeout" => w \in beaten

(* Every guarded call comes to its end, on a busy key too: mu.Lock() and   *)
(* the poll of redis are over some time, whoever dies with the lock, fails *)
(* to release it or takes it again and again (acquire: the deadline).      *)
HoldReturns == \A w \in Requests : pc[w] = "lock" ~> pc[w] = "idle"

(* No lock stays, also when its holder is gone or cannot reach redis to    *)
(* release it (the TTL's purpose).                                         *)
StaleLockFreed == owner # NoRequest ~> owner = NoRequest

(* The refinement mapping: the stored list is the abstract one.            *)
Index == INSTANCE AtomicIndex
             WITH Max <- userSessionsMax, queue <- (site = "queue")

(* The guarded cycles (hold, load, edit, save, release) implement edits of *)
(* the list in one step that cost it nothing else, unless the lock was     *)
(* degraded: a new session is the newest and only the oldest falls off, at *)
(* the cap; a removal keeps the order of the rest.                         *)
ImplementsAtomicIndex == Index!ASpec

-----------------------------------------------------------------------------
(* What docs and comments say and the code does not keep; the README tells *)
(* how each statement fails.                                               *)

(* A write never costs a queue more than one request: "every guarded site  *)
(* rewrites an index whose worst lost update is a stale or missing list    *)
(* entry" (comment of hold, storelock.go:57-59).                           *)
WorstIsOneEntry ==
    [][site = "queue" =>
         \A d, e \in Entries : /\ Holds(list, d) /\ ~Holds(list', d)
                               /\ Holds(list, e) /\ ~Holds(list', e) => d = e]_vars
=============================================================================
