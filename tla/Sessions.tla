------------------------------ MODULE Sessions ------------------------------
(***************************************************************************)
(* The sessions of one user: server/auth.go, server/sessions.go and the    *)
(* session handling of server/password.go.  Browsers send requests that    *)
(* run concurrently on one or more replicas; what they share is the        *)
(* storage backend:                                                        *)
(*   - the session data under each session id (it expires when idle),      *)
(*   - the user's session index, a capped list of session ids,             *)
(*   - the password-change marker that invalidates older sessions.         *)
(*                                                                         *)
(* A request is a worker.  isLoggedIn is two steps (check, then save after *)
(* the FreeIPA round trip) because it writes back, whole, the session data *)
(* it read; so do the passkey handlers and the password change.  Index     *)
(* edits are one step each: StoreLock.tla shows when that is so.           *)
(* Anonymous sessions hold nothing of interest and count as absent.        *)
(***************************************************************************)
EXTENDS Integers, Filter

CONSTANTS
    Workers,            \* requests that can be in flight at the same time
    Sids,               \* session ids; each is generated at most once
    NoSid,
    idleTimeout,        \* server.session_idle_timeout, in ticks
    MaxInFlight,        \* ticks a request may take from check to last save
    userSessionsTTL,    \* life of the index, in ticks
    MaxTime, MaxPw,     \* bounds: clock, number of password changes
    Settings            \* index cap; may storage calls fail?; and for how
                        \* many ticks it is watched

(* The marker's life exceeds the idle timeout by a minute, and no request  *)
(* takes longer than that between its check and its save.                  *)
ASSUME SessionConstants ==
    /\ NoSid \notin Sids /\ Workers \cap Sids = {}
    /\ idleTimeout \in Nat \ {0} /\ MaxInFlight \in Nat
    /\ userSessionsTTL \in Nat \ {0}
    /\ MaxTime \in Nat /\ MaxPw \in Nat
    /\ Settings \subseteq [cap : Nat \ {0}, fails : BOOLEAN, ticks : 0..MaxTime]

VARIABLES
    setting,    \* the setting this deployment has
    now,        \* time.Now().Unix()
    pw,         \* FreeIPA: how often the password has been changed
    store,      \* store[s]: session data, Absent when deleted or expired
    index,      \* the user's session index, oldest first
    indexTTL,
    marker,     \* password-change marker: time of the change and TTL left
    used,       \* session ids generated so far
    pc, sid, copy, left,    \* per worker: step, session id, data it read,
                            \* ticks left between check and save
    changedAt,  \* ghost: time of the last marker that was stored
    orphaned,   \* ghost: sessions that some event has cost their entry
    revoked,    \* ghost: sessions deleted from the Security page ...
    quiet,      \* ... while no request on them was about to save
    signedOut,  \* ghost: sessions of passwords before this one are signed out
    overtaken,  \* ghost: requests that had a password accepted, or set one,
                \* which a marker has signed out since; and the sessions
                \* they saved
    raced       \* ghost: sessions that a password change saved while another
                \* request was about to save them too

vars == <<setting, now, pw, store, index, indexTTL, marker, used, pc, sid,
          copy, left, changedAt, orphaned, revoked, quiet, signedOut,
          overtaken, raced>>
ghosts == <<changedAt, orphaned, revoked, quiet, signedOut, overtaken, raced>>

userSessionsMax == setting.cap
storageFails == setting.fails

(* Session data: is the login complete, when was it, with which password,  *)
(* and how long the data lives.                                            *)
Data == [auth : {"none", "half", "full"}, lt : 0..MaxTime, gen : 0..MaxPw,
         ttl : 0..idleTimeout]
Absent == [auth |-> "none", lt |-> 0, gen |-> 0, ttl |-> 0]
NoMarker == [at |-> 0, ttl |-> 0]

Live(s) == store[s].auth # "none"
Ids(seq) == {seq[i] : i \in 1..Len(seq)}
Indexed == Ids(index)

(* The index without a session id.                                         *)
Without(seq, s) == Keep(seq, Sids \ {s})

(* Mutant: the newest entries fall off.                                    *)
CappedNewest(seq) == IF Len(seq) > userSessionsMax
                       THEN SubSeq(seq, 1, userSessionsMax) ELSE seq

(* Oldest entries fall off the index.                                      *)
Capped(seq) == IF Len(seq) > userSessionsMax
                 THEN SubSeq(seq, Len(seq) - userSessionsMax + 1, Len(seq))
                 ELSE seq

(* sessionInvalidatedByPasswordChange                                      *)
Outdated(d, m) == m.ttl > 0 /\ d.lt < m.at

(* loadSessionIndex: an error reads as an empty index.                     *)
loadSessionIndex == IF storageFails THEN {index, <<>>} ELSE {index}

(* saveSessionIndex: a failure is only logged.  Ghost: the sessions that   *)
(* an event before the save costs their entry, and the ones that lack one  *)
(* when the save fails.                                                    *)
saveSessionIndex(seq, lost, unsaved) ==
    \/ /\ index' = seq
       /\ indexTTL' = IF seq = <<>> THEN 0 ELSE userSessionsTTL
       /\ orphaned' = orphaned \cup lost
    \/ /\ storageFails
       /\ orphaned' = orphaned \cup unsaved
       /\ UNCHANGED <<index, indexTTL>>

(* Ghost: the first such event is a failed read of the index, the second   *)
(* one entry too many for the cap.                                         *)
Forgotten(sessions) == Indexed \ Ids(sessions)
Overflow(seq) == {seq[i] : i \in 1..(Len(seq) - userSessionsMax)}

-----------------------------------------------------------------------------
Init ==
    /\ setting \in Settings
    /\ now = 0 /\ pw = 0
    /\ store = [s \in Sids |-> Absent]
    /\ index = <<>> /\ indexTTL = 0
    /\ marker = NoMarker
    /\ used = {}
    /\ pc = [q \in Workers |-> "idle"]
    /\ sid = [q \in Workers |-> NoSid]
    /\ copy = [q \in Workers |-> Absent]
    /\ left = [q \in Workers |-> 0]
    /\ changedAt = 0 /\ orphaned = {} /\ revoked = {} /\ quiet = {}
    /\ signedOut = 0
    /\ overtaken = {} /\ raced = {}

Goto(q, step) == pc' = [pc EXCEPT ![q] = step]

(* Ghost: what request q, if overtaken, passes on to the session it saves. *)
Handed(q, s) ==
    IF q \in overtaken THEN (overtaken \ {q}) \cup {s} ELSE overtaken

(* The request is answered.                                                *)
Done(q) == /\ Goto(q, "idle")
           /\ sid' = [sid EXCEPT ![q] = NoSid]
           /\ copy' = [copy EXCEPT ![q] = Absent]
           /\ left' = [left EXCEPT ![q] = 0]

(* isLoggedIn, first half, on a page that needs a login: read the session  *)
(* and the marker.  An error reading the marker counts as no marker.  A    *)
(* request without a valid login is logged out.                            *)
RequireLogin(q, s) ==
    /\ pc[q] = "idle"
    /\ Live(s)
    /\ sid' = [sid EXCEPT ![q] = s]
    /\ \/ /\ store[s].auth = "full"
          /\ ~Outdated(store[s], marker) \/ storageFails
          /\ Goto(q, "check")
          /\ copy' = [copy EXCEPT ![q] = store[s]]
          /\ left' = [left EXCEPT ![q] = MaxInFlight]
       \/ /\ store[s].auth = "half" \/ Outdated(store[s], marker)
          /\ Goto(q, "logout")
          /\ UNCHANGED <<copy, left>>
    /\ UNCHANGED <<setting, now, pw, store, index, indexTTL, marker, used,
                   ghosts>>

(* The data a request read is stored, whole, with a fresh idle timeout; a  *)
(* session that ended meanwhile is back.                                   *)
SaveCopy(q) ==
    /\ store' = [store EXCEPT ![sid[q]] = [copy[q] EXCEPT !.ttl = idleTimeout]]
    /\ orphaned' = IF Live(sid[q]) THEN orphaned ELSE orphaned \cup {sid[q]}

(* Mutant: every request moves the login time on.                          *)
IsLoggedInNow(q) ==
    /\ pc[q] = "check"
    /\ Goto(q, "handler")
    /\ store' = [store EXCEPT ![sid[q]] = [copy[q] EXCEPT !.lt = now,
                                                         !.ttl = idleTimeout]]
    /\ orphaned' = IF Live(sid[q]) THEN orphaned ELSE orphaned \cup {sid[q]}
    /\ copy' = [copy EXCEPT ![q] = Absent]
    /\ left' = [left EXCEPT ![q] = 0]
    /\ UNCHANGED <<setting, now, pw, index, indexTTL, marker, used, sid,
                   changedAt, revoked, quiet, signedOut, overtaken, raced>>

(* isLoggedIn, second half: FreeIPA knows the user (else: log out), and    *)
(* the data read before is saved with a fresh idle timeout (a failure is   *)
(* ignored).  Then the page's handler runs.                                *)
IsLoggedIn(q) ==
    /\ pc[q] = "check"
    /\ \/ /\ \/ SaveCopy(q)
             \/ storageFails /\ UNCHANGED <<store, orphaned>>
          /\ \/ Goto(q, "handler") /\ left' = [left EXCEPT ![q] = 0]
             \/ Goto(q, "enrol") /\ UNCHANGED left
       \/ /\ Goto(q, "logout")
          /\ left' = [left EXCEPT ![q] = 0]
          /\ UNCHANGED <<store, orphaned>>
    /\ copy' = [copy EXCEPT ![q] = Absent]
    /\ UNCHANGED <<setting, now, pw, index, indexTTL, marker, used, sid,
                   changedAt, revoked, quiet, signedOut, overtaken, raced>>

(* PasskeyBegin and PasskeyFinish read the session again (one that is gone *)
(* comes as an anonymous one) ...                                          *)
PasskeySession(q) ==
    /\ pc[q] = "enrol"
    /\ \/ /\ Live(sid[q])
          /\ copy' = [copy EXCEPT ![q] = store[sid[q]]]
          /\ Goto(q, "passkey")
          /\ UNCHANGED <<sid, left>>
       \/ Done(q)
    /\ UNCHANGED <<setting, now, pw, store, index, indexTTL, marker, used,
                   ghosts>>

(* ... and save it, whole, with the challenge set or taken out of it.      *)
PasskeySave(q) ==
    /\ pc[q] = "passkey"
    /\ \/ SaveCopy(q)
       \/ storageFails /\ UNCHANGED <<store, orphaned>>
    /\ Done(q)
    /\ UNCHANGED <<setting, now, pw, index, indexTTL, marker, used, changedAt,
                   revoked, quiet, signedOut, overtaken, raced>>

(* A page that changes nothing here.                                       *)
Page(q) ==
    /\ pc[q] = "handler"
    /\ Done(q)
    /\ UNCHANGED <<setting, now, pw, store, index, indexTTL, marker, used,
                   ghosts>>

(* POST /auth/logout                                                       *)
Logout(q, s) ==
    /\ pc[q] = "idle"
    /\ Live(s)
    /\ Goto(q, "logout")
    /\ sid' = [sid EXCEPT ![q] = s]
    /\ UNCHANGED <<setting, now, pw, store, index, indexTTL, marker, used,
                   copy, left, ghosts>>

(* logout: read the session again; if it still names a user, drop it from  *)
(* the index ...                                                           *)
DropSessionFromIndex(q) ==
    /\ pc[q] = "logout"
    /\ Goto(q, "destroy")
    /\ IF Live(sid[q])
         THEN \E sessions \in loadSessionIndex :
                saveSessionIndex(Without(sessions, sid[q]),
                                 Forgotten(sessions), {})
         ELSE UNCHANGED <<index, indexTTL, orphaned>>
    /\ UNCHANGED <<setting, now, pw, store, marker, used, sid, copy, left,
                   changedAt, revoked, quiet, signedOut, overtaken, raced>>

(* ... and destroy the data; a failure is only logged.                     *)
Destroy(q) ==
    /\ pc[q] = "destroy"
    /\ Done(q)
    /\ \/ store' = [store EXCEPT ![sid[q]] = Absent] /\ UNCHANGED orphaned
       \/ /\ storageFails
          /\ orphaned' = orphaned \cup {sid[q]}
          /\ UNCHANGED store
    /\ UNCHANGED <<setting, now, pw, index, indexTTL, marker, used, changedAt,
                   revoked, quiet, signedOut, overtaken, raced>>

(* Requests that hold data they are going to save.                         *)
Saving(q) == pc[q] \in {"check", "keep", "passkey"}
AboutToSave == {sid[p] : p \in {p \in Workers : Saving(p)}}

(* Session data is deleted, where that does not fail.  Ghost: with no      *)
(* request about to save it the deletion should be final.                  *)
EndSessions(gone, failed) ==
    /\ store' = [s \in Sids |-> IF s \in gone \ failed THEN Absent ELSE store[s]]
    /\ revoked' = revoked \cup (gone \ failed)
    /\ quiet' = quiet \cup (gone \ (failed \cup AboutToSave))

(* SessionRevoke: only an id in the index, never the current one; it       *)
(* leaves the index even when the deletion failed.                         *)
SessionRevoke(q, s) ==
    /\ pc[q] = "handler"
    /\ s # sid[q]
    /\ Goto(q, "security")
    /\ \/ /\ s \in Indexed
          /\ \E failed \in SUBSET {s} :
               /\ failed # {} => storageFails
               /\ EndSessions({s}, failed)
               /\ saveSessionIndex(Without(index, s), failed, {})
       \/ /\ s \notin Indexed \/ storageFails
          /\ UNCHANGED <<store, index, indexTTL, orphaned, revoked, quiet>>
    /\ UNCHANGED <<setting, now, pw, marker, used, sid, copy, left, changedAt,
                   signedOut, overtaken, raced>>

(* SessionRevokeOthers: every indexed session but the current one.         *)
SessionRevokeOthers(q) ==
    /\ pc[q] = "handler"
    /\ Goto(q, "security")
    /\ \E sessions \in loadSessionIndex :
         LET gone == Ids(sessions) \ {sid[q]}
         IN \E failed \in SUBSET gone :
              /\ failed # {} => storageFails
              /\ EndSessions(gone, failed)
              /\ saveSessionIndex(Keep(sessions, {sid[q]}),
                                  Forgotten(sessions) \cup failed, {})
    /\ UNCHANGED <<setting, now, pw, marker, used, sid, copy, left, changedAt,
                   signedOut, overtaken, raced>>

(* The Security page, also shown after a revocation, lists the sessions:   *)
(* userSessions drops the ids that are dead or cannot be read.  An index   *)
(* that is empty, or cannot be read, is left alone.                        *)
UserSessions(q) ==
    /\ pc[q] \in {"handler", "security"}
    /\ \/ \E unread \in SUBSET Indexed :
            /\ unread # {} => storageFails
            /\ saveSessionIndex(Keep(index, {s \in Sids \ unread : Live(s)}),
                                unread, {})
       \/ storageFails /\ UNCHANGED <<index, indexTTL, orphaned>>
    /\ Done(q)
    /\ UNCHANGED <<setting, now, pw, store, marker, used, changedAt, revoked,
                   quiet, signedOut, overtaken, raced>>

-----------------------------------------------------------------------------
(* Mutant: the id is taken before Regenerate, when there is none yet.      *)
RecordOldSession(q) ==
    /\ pc[q] = "record"
    /\ saveSessionIndex(Append(index, NoSid), {}, {})
    /\ Done(q)
    /\ UNCHANGED <<setting, now, pw, store, marker, used, changedAt, revoked,
                   quiet, signedOut, overtaken, raced>>

(* Authenticate: FreeIPA accepts the password ...                          *)
RemoteLogin(q) ==
    /\ pc[q] = "idle"
    /\ Goto(q, "authenticated")
    /\ copy' = [copy EXCEPT ![q].gen = pw]
    /\ UNCHANGED <<setting, now, pw, store, index, indexTTL, marker, used, sid,
                   left, ghosts>>

(* ... or says it has expired: a session that is not logged in is started. *)
RemoteLoginExpired(q, s) ==
    /\ pc[q] = "idle"
    /\ s \notin used
    /\ used' = used \cup {s}
    /\ store' = [store EXCEPT ![s] = [auth |-> "half", lt |-> 0, gen |-> pw,
                                      ttl |-> idleTimeout]]
    /\ UNCHANGED <<setting, now, pw, index, indexTTL, marker, pc, sid, copy,
                   left, ghosts>>

(* Regenerate the session id, store the login (a failure fails the login). *)
LoginSave(q, s) ==
    /\ pc[q] = "authenticated"
    /\ s \notin used
    /\ used' = used \cup {s}
    /\ \/ /\ store' = [t \in Sids |->
                 CASE t = s -> [auth |-> "full", lt |-> now, gen |-> copy[q].gen,
                                ttl |-> idleTimeout]
                   [] t = sid[q] -> Absent
                   [] OTHER -> store[t]]
          /\ Goto(q, "record")
          /\ sid' = [sid EXCEPT ![q] = s]
          /\ copy' = [copy EXCEPT ![q] = Absent]
          /\ UNCHANGED left
       \/ /\ storageFails
          /\ store' = [t \in Sids |-> IF t = sid[q] THEN Absent ELSE store[t]]
          /\ Done(q)
    /\ overtaken' = Handed(q, s)
    /\ UNCHANGED <<setting, now, pw, index, indexTTL, marker, changedAt,
                   orphaned, revoked, quiet, signedOut, raced>>

(* recordUserSession: the oldest entries make room.                        *)
RecordUserSession(q) ==
    /\ pc[q] = "record"
    /\ \E sessions \in loadSessionIndex :
         LET kept == Append(Without(sessions, sid[q]), sid[q])
         IN saveSessionIndex(Capped(kept),
                             Forgotten(sessions) \cup Overflow(kept), {sid[q]})
    /\ Done(q)
    /\ UNCHANGED <<setting, now, pw, store, marker, used, changedAt, revoked,
                   quiet, signedOut, overtaken, raced>>

-----------------------------------------------------------------------------
(* PasswordChange, PasswordReset and PasswordExpired set the password in   *)
(* FreeIPA first ...                                                       *)
ChangePassword(q) ==
    /\ pc[q] = "handler"
    /\ pw < MaxPw /\ pw' = pw + 1
    /\ copy' = [copy EXCEPT ![q].gen = pw + 1]
    /\ Goto(q, "changed")
    /\ UNCHANGED <<setting, now, store, index, indexTTL, marker, used, sid,
                   left, ghosts>>

PasswordReset(q) ==
    /\ pc[q] = "idle"
    /\ pw < MaxPw /\ pw' = pw + 1
    /\ Goto(q, "reset")
    /\ UNCHANGED <<setting, now, store, index, indexTTL, marker, used, sid,
                   copy, left, ghosts>>

PasswordExpired(q, s) ==
    /\ pc[q] = "idle"
    /\ store[s].auth = "half"
    /\ pw < MaxPw /\ pw' = pw + 1
    /\ sid' = [sid EXCEPT ![q] = s]
    /\ copy' = [copy EXCEPT ![q].gen = pw + 1]
    /\ Goto(q, "expired")
    /\ UNCHANGED <<setting, now, store, index, indexTTL, marker, used, left,
                   ghosts>>

(* Mutant: the marker lives as long as a session, without the extra minute. *)
markerTTLTight == idleTimeout

(* The marker: when it was set, and a life that exceeds the idle timeout.  *)
markerTTL == idleTimeout + MaxInFlight

(* ... then invalidate the user's sessions (a failure is only logged).     *)
(* What follows: a password change refreshes its own session, a reset is   *)
(* done, an expired password logs in anew unless the user has OTP (or the  *)
(* password has changed again meanwhile).                                  *)
InvalidateUserSessions(q) ==
    /\ pc[q] \in {"changed", "reset", "expired"}
    /\ \/ /\ marker' = [at |-> now, ttl |-> markerTTL]
          /\ changedAt' = now
          /\ signedOut' = pw
          /\ overtaken' = overtaken \cup {p \in Workers : copy[p].gen < pw /\
                 pc[p] \in {"authenticated", "changed", "refresh", "keep"}}
       \/ /\ storageFails
          /\ UNCHANGED <<marker, changedAt, signedOut, overtaken>>
    /\ \/ /\ pc[q] = "changed"
          /\ Goto(q, "refresh")
          /\ UNCHANGED <<sid, copy, left>>
       \/ /\ pc[q] = "expired" /\ copy[q].gen = pw
          /\ Goto(q, "authenticated")
          /\ UNCHANGED <<sid, copy, left>>
       \/ /\ pc[q] \in {"reset", "expired"}
          /\ Done(q)
    /\ UNCHANGED <<setting, now, pw, store, index, indexTTL, used, orphaned,
                   revoked, quiet, raced>>

(* Mutant: the change keeps the session it read when it started.           *)
RefreshStaleSession(q) ==
    /\ pc[q] = "refresh"
    /\ copy' = [copy EXCEPT ![q] = [@ EXCEPT !.auth = "full", !.lt = now]]
    /\ left' = [left EXCEPT ![q] = MaxInFlight]
    /\ Goto(q, "keep")
    /\ UNCHANGED <<setting, now, pw, store, index, indexTTL, marker, used, sid,
                   ghosts>>

(* PasswordChange keeps its own session by moving its login time past the  *)
(* marker: it reads the session again (if it is gone meanwhile, the new    *)
(* one is anonymous) ...                                                   *)
RefreshOwnSession(q) ==
    /\ pc[q] = "refresh"
    /\ \/ /\ Live(sid[q])
          /\ copy' = [copy EXCEPT ![q] = [store[sid[q]] EXCEPT !.lt = now,
                                                      !.gen = copy[q].gen]]
          /\ left' = [left EXCEPT ![q] = MaxInFlight]
          /\ Goto(q, "keep")
          /\ UNCHANGED sid
          /\ UNCHANGED overtaken
       \/ /\ ~Live(sid[q]) \/ storageFails
          /\ Done(q)
          /\ overtaken' = overtaken \ {q}
    /\ UNCHANGED <<setting, now, pw, store, index, indexTTL, marker, used,
                   changedAt, orphaned, revoked, quiet, signedOut, raced>>

(* ... and saves it (a failure is only logged).                            *)
SaveOwnSession(q) ==
    /\ pc[q] = "keep"
    /\ Done(q)
    /\ \/ /\ SaveCopy(q)
          /\ overtaken' = Handed(q, sid[q])
          /\ raced' = raced \cup {t \in {sid[q]} : \E p \in Workers \ {q} :
                                    Saving(p) /\ sid[p] = t}
       \/ /\ storageFails
          /\ UNCHANGED <<store, orphaned, overtaken, raced>>
    /\ UNCHANGED <<setting, now, pw, index, indexTTL, marker, used, changedAt,
                   revoked, quiet, signedOut>>

-----------------------------------------------------------------------------
Less(n) == IF n > 0 THEN n - 1 ELSE 0
Age(d) == IF d.ttl > 1 THEN [d EXCEPT !.ttl = d.ttl - 1] ELSE Absent

(* A second passes: idle sessions, the index and the marker expire.  No    *)
(* request is left between check and save for more than MaxInFlight.       *)
Tick ==
    /\ now < setting.ticks
    /\ \A q \in Workers : Saving(q) \/ pc[q] = "enrol" => left[q] > 0
    /\ now' = now + 1
    /\ store' = [s \in Sids |-> Age(store[s])]
    /\ marker' = IF marker.ttl > 1 THEN [marker EXCEPT !.ttl = marker.ttl - 1]
                                   ELSE NoMarker
    /\ indexTTL' = Less(indexTTL)
    /\ index' = IF indexTTL' = 0 THEN <<>> ELSE index
    /\ orphaned' = {s \in orphaned \cup (IF indexTTL' = 0 THEN Indexed ELSE {})
                      : Live(s)'}
    /\ left' = [q \in Workers |-> Less(left[q])]
    /\ UNCHANGED <<setting, pw, used, pc, sid, copy, changedAt, revoked, quiet,
                   signedOut, overtaken, raced>>

Next ==
    \/ \E q \in Workers :
         \/ IsLoggedIn(q) \/ PasskeySession(q) \/ PasskeySave(q)
         \/ Page(q) \/ DropSessionFromIndex(q) \/ Destroy(q)
         \/ UserSessions(q) \/ SessionRevokeOthers(q) \/ RemoteLogin(q)
         \/ RecordUserSession(q) \/ ChangePassword(q) \/ PasswordReset(q)
         \/ InvalidateUserSessions(q) \/ RefreshOwnSession(q) \/ SaveOwnSession(q)
    \/ \E q \in Workers, s \in Sids :
         \/ RequireLogin(q, s) \/ Logout(q, s) \/ SessionRevoke(q, s)
         \/ RemoteLoginExpired(q, s) \/ LoginSave(q, s) \/ PasswordExpired(q, s)
    \/ Tick

Spec == Init /\ [][Next]_vars

-----------------------------------------------------------------------------
(* Types: the index holds session ids, the lives of index and marker stay  *)
(* within their TTLs, and handlers take the steps of the code.             *)
TypeOK ==
    /\ setting \in Settings
    /\ now \in 0..MaxTime /\ pw \in 0..MaxPw
    /\ store \in [Sids -> Data]
    /\ index \in Seq(Sids) /\ indexTTL \in 0..userSessionsTTL
    /\ marker \in [at : 0..MaxTime, ttl : 0..markerTTL]
    /\ used \in SUBSET Sids
    /\ pc \in [Workers -> {"idle", "check", "handler", "enrol", "passkey",
                           "security", "logout", "destroy", "authenticated",
                           "record", "changed", "reset", "expired", "refresh",
                           "keep"}]
    /\ sid \in [Workers -> Sids \cup {NoSid}]
    /\ copy \in [Workers -> Data]
    /\ left \in [Workers -> 0..MaxInFlight]
    /\ changedAt \in 0..MaxTime
    /\ orphaned \in SUBSET Sids /\ revoked \in SUBSET Sids /\ quiet \in SUBSET Sids
    /\ signedOut \in 0..MaxPw
    /\ overtaken \in SUBSET (Workers \cup Sids) /\ raced \in SUBSET Sids

(* "Any older session either hits the marker on its next request or        *)
(* expires" (auth.go:85-86): when the marker is gone, so is every login    *)
(* older than the password change, requests that were in flight at the     *)
(* time of the change and saved their session afterwards included (when no *)
(* storage call fails).  Not so the session that made a change while       *)
(* another request was about to save it: that one takes the login time     *)
(* back, and a passkey request let in meanwhile may save it, later still.  *)
MarkerOutlivesOldSessions ==
    marker.ttl = 0 /\ ~storageFails =>
      /\ \A s \in Sids \ raced :
           store[s].auth = "full" => store[s].lt >= changedAt
      /\ \A q \in Workers :
           Saving(q) /\ sid[q] \notin raced => copy[q].lt >= changedAt

(* Every logged-in session can be revoked from the Security page (it is in *)
(* the index), except a login that is just being recorded and the sessions *)
(* that an event has cost their entry: the oldest at the cap, those saved  *)
(* again after they ended, those in the index when it expired or when a    *)
(* failing read of it was taken for an empty one (sessions.go:38-45), and  *)
(* those whose own deletion, reading or recording failed.                  *)
IndexComplete ==
    \A s \in Sids :
      store[s].auth = "full" =>
        \/ s \in Indexed \cup orphaned
        \/ \E q \in Workers : sid[q] = s /\ pc[q] \in {"record", "destroy"}

(* A session revoked while no request on it was between its check and its  *)
(* save stays dead, whatever other requests of that session go on to do    *)
(* (a password change re-reads its session before refreshing it).          *)
QuietRevocationIsFinal == \A s \in quiet : ~Live(s)

(* A session of an older password that a request would be let in with      *)
(* (auth.go:56-58) was saved by a request that had that password accepted  *)
(* (or had set it) before the marker, or dates from the marker's second;   *)
(* when no storage call fails, nothing else survives a password change,    *)
(* but for the sessions excepted in MarkerOutlivesOldSessions.             *)
OldPasswordSignedOut ==
    ~storageFails =>
      \A s \in Sids \ raced :
        /\ store[s].auth = "full" /\ store[s].gen < signedOut
        /\ ~Outdated(store[s], marker)
        => store[s].lt = changedAt \/ s \in overtaken

-----------------------------------------------------------------------------
(* What docs and comments say and the code does not keep; the README tells *)
(* how each statement fails.                                               *)

(* "Revocation deletes the session data itself, so the next request on     *)
(* that session id is anonymous" (sessions.go:6-7).                        *)
RevocationIsFinal == \A s \in revoked : ~Live(s)

(* "SessionRevokeOthers signs the user out everywhere except this device"  *)
(* (sessions.go:227).                                                      *)
RevokeOthersIsComplete ==
    [][\A q \in Workers :
         SessionRevokeOthers(q) => \A s \in Sids \ {sid[q]} : store'[s].auth # "full"]_vars

(* "After the reset, every mokey session of that user is signed out"       *)
(* (docs/guides/password-reset.md:21): no later request is accepted on a   *)
(* session of an older password, leaving aside logins in the very second   *)
(* of the change, which the code's own comment exempts (auth.go:52-53).    *)
ResetSignsOut ==
    [][\A q \in Workers :
         pc[q] = "idle" /\ pc'[q] = "check" =>
           copy'[q].gen >= signedOut \/ copy'[q].lt = changedAt]_vars
=============================================================================
