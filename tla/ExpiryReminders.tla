-------------------------- MODULE ExpiryReminders --------------------------
(***************************************************************************)
(* The password-expiry reminders of server/expiry.go, for one user.  Each  *)
(* replica sweeps: it lists the users, mails those whose password expires  *)
(* within a reminder window and who have no marker for that window, sets   *)
(* the marker and sleeps.  Nothing but the markers in the shared storage   *)
(* keeps the replicas apart.  The other users of a sweep only cost time:   *)
(* what was listed may be old when the mail goes out.                      *)
(***************************************************************************)
EXTENDS Integers, FiniteSets, FiniteSetsExt

CONSTANTS
    Replicas,
    Windows,        \* email.password_expiry_reminders, in ticks
    Lifetime,       \* how long a new password lasts
    Interval,       \* expirySweepInterval
    SweepTime,      \* bound on the ticks a sweep takes
    Grace,          \* the 24 hours a marker lives on
    faults,         \* do calls fail and replicas restart?
    MaxTime,        \* bound on the clock
    MaxChanges      \* bound on what happens to the account

ASSUME ReminderConstants ==
    /\ IsFiniteSet(Replicas) /\ Replicas # {} /\ IsFiniteSet(Windows)
    /\ Windows \subseteq Nat \ {0} /\ Windows # {}
    /\ {Lifetime, Interval, SweepTime, Grace, MaxTime} \subseteq Nat \ {0}
    /\ MaxChanges \in Nat /\ SweepTime < Grace
    /\ faults \in BOOLEAN

Dates == 1..(MaxTime + Lifetime)
Keys == Dates \X Windows
None == <<>>

VARIABLES
    now,
    expire, locked, \* FreeIPA: expiry date of the password, account blocked
    changes,        \* how often the account changed
    markers,        \* the keys with a marker in storage
    pc, timer,      \* per replica: step; ticks until the sweep starts or is over
    listed,         \* per replica: <<date, left>> as listed, or None
    mails,          \* ghost: mails[k]: reminders sent for k, one beyond all replicas
    unmarked,       \* ghost: keys of mails without a marker, for a failure
    steady          \* ghost: ticks since FreeIPA last changed or a call failed

reminderVars ==
    <<now, expire, locked, changes, markers, pc, timer, listed, mails, unmarked,
      steady>>

(* No reminder is later than this: a sweep listed the user just before,    *)
(* the next one starts Interval after its end, takes its time too, and is  *)
(* over before the next tick.                                              *)
Slack == Interval + 2 * SweepTime + 1

(* The windows that `left' fits into, smallest first: the first counts.    *)
Tightest(left) == Min({w \in Windows : left <= w})

Key(r) == <<listed[r][1], Tightest(listed[r][2])>>

ReminderInit ==
    /\ now = 1 /\ expire = 1 + Lifetime /\ locked = FALSE /\ changes = 0
    /\ markers = {}
    /\ pc = [r \in Replicas |-> "sleep"]
    /\ timer = [r \in Replicas |-> 0]
    /\ listed = [r \in Replicas |-> None]
    /\ mails = [k \in Keys |-> 0] /\ unmarked = {} /\ steady = 0

directory == <<now, expire, locked, changes>>

(* The rest of the list, then time.Sleep.                                  *)
Finish(r) ==
    /\ pc' = [pc EXCEPT ![r] = "sleep"]
    /\ timer' = [timer EXCEPT ![r] = Interval]
    /\ listed' = [listed EXCEPT ![r] = None]

(* The user needs no reminder: blocked, expired, or in no window yet.      *)
Skipped(left) == locked \/ left <= 0 \/ \A w \in Windows : left > w

(* expiryReminderSweep lists the users.                                    *)
UserFind(r) ==
    /\ pc[r] = "sleep" /\ timer[r] = 0
    /\ \/ Skipped(expire - now) /\ Finish(r) /\ UNCHANGED steady
       \/ /\ ~Skipped(expire - now)
          /\ pc' = [pc EXCEPT ![r] = "look"]
          /\ timer' = [timer EXCEPT ![r] = SweepTime]
          /\ listed' = [listed EXCEPT ![r] = <<expire, expire - now>>]
          /\ UNCHANGED steady
       \/ faults /\ Finish(r) /\ steady' = 0
    /\ UNCHANGED <<directory, markers, mails, unmarked>>

(* Mutant: the marker is set at once, so that no other replica mails.      *)
LookAndMark(r) ==
    /\ pc[r] = "look"
    /\ \/ Key(r) \in markers /\ Finish(r) /\ UNCHANGED markers
       \/ /\ Key(r) \notin markers
          /\ pc' = [pc EXCEPT ![r] = "send"]
          /\ markers' = markers \cup {Key(r)}
          /\ UNCHANGED <<timer, listed>>
    /\ UNCHANGED <<directory, mails, unmarked, steady>>

(* Is there a marker for the window?  An error is taken for none.          *)
Look(r) ==
    /\ pc[r] = "look"
    /\ \/ Key(r) \in markers /\ Finish(r)
       \/ /\ Key(r) \notin markers \/ faults
          /\ pc' = [pc EXCEPT ![r] = "send"]
          /\ UNCHANGED <<timer, listed>>
    /\ unmarked' = IF Key(r) \in markers /\ pc'[r] = "send"
                     THEN unmarked \cup {Key(r)} ELSE unmarked
    /\ UNCHANGED <<directory, markers, mails, steady>>

Mailed(k) ==
    mails' = [mails EXCEPT ![k] = IF @ <= Cardinality(Replicas) THEN @ + 1 ELSE @]

(* SendPasswordExpiryReminderEmail; after an error, which the mail may     *)
(* have survived, there is no marker and the next sweep tries again.       *)
SendPasswordExpiryReminderEmail(r) ==
    /\ pc[r] = "send"
    /\ \/ /\ Mailed(Key(r))
          /\ pc' = [pc EXCEPT ![r] = "mark"]
          /\ UNCHANGED <<timer, listed, unmarked, steady>>
       \/ /\ faults /\ Finish(r) /\ steady' = 0
          /\ \/ Mailed(Key(r)) /\ unmarked' = unmarked \cup {Key(r)}
             \/ UNCHANGED <<mails, unmarked>>
    /\ UNCHANGED <<directory, markers>>

(* The marker is set; a failure is only logged.                            *)
SetMarker(r) ==
    /\ pc[r] = "mark"
    /\ Finish(r)
    /\ \/ markers' = markers \cup {Key(r)} /\ UNCHANGED unmarked
       \/ faults /\ unmarked' = unmarked \cup {Key(r)} /\ UNCHANGED markers
    /\ UNCHANGED <<directory, mails, steady>>

(* A replica restarts and sweeps at once.  A storage that is not           *)
(* persistent may have lost the markers.                                   *)
Restart(r) ==
    /\ faults
    /\ pc' = [pc EXCEPT ![r] = "sleep"]
    /\ timer' = [timer EXCEPT ![r] = 0]
    /\ listed' = [listed EXCEPT ![r] = None]
    /\ markers' \in {markers, {}}
    /\ unmarked' = unmarked \cup (markers \ markers')
                            \cup (IF pc[r] = "mark" THEN {Key(r)} ELSE {})
    /\ steady' = 0
    /\ UNCHANGED <<directory, mails>>

-----------------------------------------------------------------------------
(* The user changes the password, or an admin resets it (it is then        *)
(* expired), or the account is blocked or unblocked.                       *)
DirectoryChange ==
    /\ changes < MaxChanges /\ changes' = changes + 1
    /\ \/ expire' \in {now, now + Lifetime} \ {expire} /\ UNCHANGED locked
       \/ locked' = ~locked /\ UNCHANGED expire
    /\ steady' = 0
    /\ UNCHANGED <<now, markers, pc, timer, listed, mails, unmarked>>

(* Mutant: a marker lives for one sweep interval only.                     *)
MarkerAliveShort(k, t) == t < k[1] - k[2] + Interval

(* A marker lives until the day after the expiry date.                     *)
MarkerAlive(k, t) == t < k[1] + Grace

(* A tick passes; sweeps start on time and take no longer than SweepTime.  *)
Tick ==
    /\ now < MaxTime /\ \A r \in Replicas : timer[r] > 0
    /\ now' = now + 1
    /\ timer' = [r \in Replicas |-> timer[r] - 1]
    /\ markers' = {k \in markers : MarkerAlive(k, now')}
    /\ steady' = Min({steady + 1, Slack})
    /\ UNCHANGED <<expire, locked, changes, pc, listed, mails, unmarked>>

ReminderNext ==
    \/ \E r \in Replicas :
         \/ UserFind(r) \/ Look(r) \/ SendPasswordExpiryReminderEmail(r)
         \/ SetMarker(r) \/ Restart(r)
    \/ DirectoryChange \/ Tick

ReminderSpec == ReminderInit /\ [][ReminderNext]_reminderVars

-----------------------------------------------------------------------------
(* Types: what a sweep goes on with expires in the future and within a     *)
(* window (expiry.go:68-87); markers are for dates and windows.            *)
ReminderTypeOK ==
    /\ now \in 1..MaxTime /\ expire \in Dates /\ locked \in BOOLEAN
    /\ changes \in 0..MaxChanges
    /\ markers \in SUBSET Keys /\ unmarked \in SUBSET Keys
    /\ pc \in [Replicas -> {"sleep", "look", "send", "mark"}]
    /\ timer \in [Replicas -> 0..(Interval + SweepTime)]
    /\ listed \in [Replicas -> {None} \cup (Dates \X UNION {1..w : w \in Windows})]
    /\ mails \in [Keys -> 0..(Cardinality(Replicas) + 1)]
    /\ steady \in 0..Slack

(* "emails each user once per threshold" (docs/configuration.md:148): for  *)
(* an expiry date and a window a user gets at most one reminder from each  *)
(* replica, over all sweeps up to that date, unless a marker was not set,  *)
(* read or kept (expiry.go:90-108).                                        *)
OncePerWindow ==
    \A k \in Keys : mails[k] <= Cardinality(Replicas) \/ k \in unmarked

(* "no marker - retried next sweep" (expiry.go:99): once nothing has       *)
(* failed for two sweeps, a user in a window has been reminded for it or   *)
(* for a tighter one, whatever failed before, and after a password change  *)
(* for the new date ("a password change re-arms every window",             *)
(* expiry.go:82-83).                                                       *)
RemindedInTime ==
    ~locked /\ expire > now /\ steady = Slack =>
        \A w \in Windows : expire - now + Slack <= w =>
            \E v \in Windows : v <= w /\ mails[<<expire, v>>] > 0

-----------------------------------------------------------------------------
(* What docs and comments say and the code does not keep; the README tells *)
(* how each statement fails.                                               *)

(* "multi-replica deployments send at most one duplicate per window"       *)
(* (expiry.go:44-45), when nothing fails.                                  *)
AtMostOneDuplicate == \A k \in Keys : mails[k] <= 2
=============================================================================
