# mokey: TLA+ models, checks and proofs

mokey is a self-service portal in front of FreeIPA: people sign up, sign in,
change and reset passwords, manage their second factor and group memberships;
admins approve registrations, answer requests and read the audit trail. FreeIPA
holds users and groups. mokey's own state is a key-value storage (memory,
sqlite3 or redis) with sessions, JSON lists, markers with a lifetime, and a ring
of audit events. Every request runs in its own goroutine; with redis, several
replicas of the server share the storage. Nothing spans a FreeIPA call and a
storage call, or two calls of either, as a transaction. That is where the
properties below come from.

## 1. Inventory

| Component (src/server) | State | Operations | Correct when |
| --- | --- | --- | --- |
| Storage lock (`storelock.go`) | a mutex per key and process, a redis key with a TTL | hold, acquire, release, incr | guarded edits exclude each other; a waiter never waits for ever |
| Guarded lists (`sessions.go`, `group_requests.go`, `otprecovery.go`) | JSON lists in storage | load, edit, save under hold | no edit is lost |
| Sessions (`auth.go`, `sessions.go`, `session.go`, parts of `password.go`) | session data, index per user, password-change marker | login, check and refresh, logout, list, revoke, invalidate | old logins end with the password, every session can be found and revoked, what was revoked stays dead |
| Email links (`token.go`, `email.go`, `password.go`, `account.go`, `otprecovery.go`) | issued and used markers | issue, mail, roll back, confirm, mark | a link is spent once, a failed mail or reset can be retried |
| Registration and approval (`account.go`, `ipa_stageuser.go`, `admin.go`) | FreeIPA's active and staging trees, user class | sign up, invite, verify, resend, approve, deny, block | only proven and approved accounts can be used |
| Audit trail, events API (`audit.go`, `api.go`) | a counter and a ring of slots | record, poll with a cursor, list recent | each event once and in order, none passed by |
| Webhooks (`webhooks.go`) | a bounded queue and a worker per target | send, post, retry, give up | none lost or overtaken silently, the worker never stops |
| Group requests (`groups.go`, `group_requests.go`, `ipa_group.go`) | a queue per group, members in FreeIPA | ask, approve, deny, remove, drop stale ones | answers are true, open requests stay |
| Expiry reminders (`expiry.go`) | a marker per user, date and window | sweep | each window once, and in time |
| Two-factor (`otp.go`, `passkey.go`, `ipa_passkey.go`, `security.go`, the queue of `otprecovery.go`) | tokens, auth types and passkeys in FreeIPA, a challenge in the session, the recovery queue | add, verify, remove, enable, disable, register, recover, approve, deny | nobody needs a token without having one, a challenge is good for one passkey, a request for recovery gets one answer |
| Hydra login and consent (`hydra.go`, `hydra_consent.go`) | consents and the remembered login in Hydra | log in, accept, reject, revoke, sweep, log out | consents follow the groups, and only the groups |
| The user's entry (`account.go`, `sshpubkey.go`) | names, phone, email and SSH keys in FreeIPA | save settings, confirm an email, add and remove keys | what was saved stays, an email is proven before it is stored |
| Phone numbers (`phone.go`) | none | split, check, join | a number survives the form |
| Usernames, durations; helpdesk, access, apps, subids; server, templates, mail rendering | none of their own | - | - |

How they interact: every request passes the session check (`isLoggedIn`);
password handlers write the marker that the check reads; links are confirmed by
handlers of passwords, accounts and recovery; lists are edited under the storage
lock; taking somebody from a group revokes consents, and signing out makes Hydra
forget the login; whatever is logged as `AUDIT` goes through the audit handler,
which numbers it, stores it and hands it to the webhooks.

What is hard to test: steps of two requests between two storage or FreeIPA
calls; a replica that dies or a call that fails between two steps; locks,
markers, links and sessions that expire at the wrong moment; full queues and
rings; data read before a FreeIPA call and written after it. `PROJECT.json`
lists each such place under "hazards", with its line.

## 2. Modules

Variables and actions carry the names of the code; every definition's source
lines are in `PROJECT.json` ("map"). Definitions introduced by "Mutant:" are
wrong variants, each used to see that a property notices that mistake; no
specification uses them. Ghost variables (marked so) record history for the
properties and never guard a step. The theorems about a module `M`, and the
inductive invariant they rest on, are in `MProofs`; eight modules have one. The
proofs about GroupRequests, ExpiryReminders and Profile stand in the second
halves of StoreLockProofs, WebhooksProofs and AuditLogProofs (section 4).

**AtomicIndex, StoreLock, StoreLockProofs.** StoreLock is `storelock.go` with
the load-edit-save cycle it guards. A request makes one guarded call after
another: the process mutex, polling SET NX until `storeLockWait`, load, edit,
save, the token-comparing release, unlock; redis calls fail, leases expire while
their holder is paused, replicas die. The list under the lock is a sequence, and
`site` says of what: a user's session index or a request queue. A call is of the
kind of the function that makes it: `record` (recordUserSession, which cuts the
index to the `userSessionsMax` newest), `drop`, `revoke`, `others` and `list` on
an index (the last two take several entries out at once), `queue` and `unqueue`
on a queue, with the early returns of each. AtomicIndex is the abstract
specification: one-step edits (Record, Forget, Enqueue, Answer), described by
what they must leave in place and not by how the code computes them, until
protection was lost once (`degraded`), which is when hold() went on without the
lock, a lease ran out under an edit, or a failed Get was read as an empty list.
`ImplementsAtomicIndex` says StoreLock implements it. The ghosts `call` and
`ideal` hold the call behind a loaded copy and the list with every saved call
applied in turn.

**Sessions.** One user: session data with idle timeout and login time, the
capped index, the marker, and the password as a generation number. isLoggedIn is
two steps, because it saves after its FreeIPA call what it read before it; so
are the refresh by which a password change keeps its own session, and the
passkey handlers, which read the session again and save it with the challenge
set or deleted (`PasskeySession`, `PasskeySave`). The CSRF middleware saves a
session only to give it its token, before there is a login in it. Logins, expired
logins, logout, listing, revoking one or all others, password change, reset and
expiry are actions; index edits are single steps, which StoreLock justifies. The
variable `setting` is the deployment: the cap of the index, and whether storage
calls fail, in which case an index that cannot be read is taken for an empty one
and saved back. The ghost `orphaned` names the sessions that an event has cost
their entry, and it is set where the event happens, from what went in and never
from what came out: the oldest at the cap, all at a failed read or at the expiry
of the index, those whose deletion, reading or recording failed, and those a
request saved back after they had ended. The ghost `raced` names sessions that a
password change saved while another request was about to save them as well. The
ghost `overtaken` names the requests that had a password
accepted or set before a later marker was stored, and the sessions they saved.
`Keep`, which takes entries out of the index, filters by position; it is in a
module of its own, **Filter**, which Phone uses too. MCSessions and MCProfile
compare it with SelectSeq.

**Tokens.** The links of one user and one kind (reset, email change, OTP
recovery): request, issued marker, mail (sent, refused, or unknown), rollback,
parse, the change itself, used marker. Calls fail, FreeIPA's answers get lost,
replicas die, the account is blocked or moved in between. The ghosts `crowded`
and `wiped` record requests that overlapped between the look at the issued
marker and its setting, and markers deleted on account of another mail.

**Accounts.** One username through signup (active or staged), invitation,
verification, resend, approval, denial, block and unblock. Each FreeIPA call is
a step and a request may break off after any of them. A later step writes the
user as it was read before, address included (`UserMod`, `addr`). Two people
want the name, one after the other or at the same time - also because a staged
signup takes any error of user_show for a free name (`account.go:290`). Ghosts
record the events the statements except: `recycled`, that the name was taken
while somebody else had it or links to it; `spared`, that disabling a new
account was left out; `halfway`, the trees where an approval stopped halfway or
a verification followed it, and a verification that crosses an approval between
its two calls.

**AuditLog.** Writers number an event (`incr`) and store it in a second call;
one reader polls the events API with a cursor or lists recent events, slot by
slot, while the ring wraps; calls fail, answers get lost, memory storage is
emptied by a restart. At the start the ring holds `Legacy` events of a version
that stored none of its numbers: a reader takes such an entry for the number it
is looking for (`audit.go:202-205`), which may be a later one of that slot.

**GroupRequests.** One group and its users: requests, decisions in three
FreeIPA, storage and mail steps, removals, and the page that drops what looks
stale from a member list read earlier; failing calls and changes made outside
mokey. A failed Get of the queue reads as no requests: the new one is then saved
without the others' (ghost `blind`). Sponsors decide side by side: the ghost
`crossed` names the approvals whose user another sponsor has moved between the
change and the mail, `moved` the users that somebody else has changed since a
handler looked.

**Webhooks.** One target: loggers numbering and enqueueing events, the bounded
queue, and the worker with attempts, backoff and giving up. A post that failed
may have been processed by the receiver.

**ExpiryReminders.** One user, several replicas: list, look for the marker,
mail, set the marker, sleep. A sweep may be slow, so what it listed may be old.

**TwoFactor.** One user: OTP tokens and the auth type in FreeIPA, the switch of
the security page, passkey registration with its challenge in the session, and
the recovery queue with its admins. Each FreeIPA call and each save of the
session is a step; the whole session is saved back by every request, so a
challenge that was consumed may return (ghost `raced`). The admin page loads the
queue, asks for each user and drops one who is gone or not OTP only any more.
The user may be deleted in FreeIPA (`UserVanishes`). The queue may be lost as a
whole (ghost `wiped`): to another user's confirmation that failed to read it, or
to its lifetime. The ghost `shaky` names the requests that are about to make the
user OTP only although a token went since they listed them, or although all they
listed were disabled; it says nothing of one that listed none, which is for the
code to stop.

**Consent.** One user, some OAuth clients and one `[hydra]` section of several:
login (remembered by Hydra or not), consent, revocation after a group change or
by the user, the periodic sweep, logout. The client rules (`clientAllowed`,
`clientGroupsEnforced`) are operators over the section's entries, invalid
sections included. Workers and the sweep read the groups first, list the
consents next and revoke them one by one.

**Phone, Profile.** Phone is `phone.go` as operators on texts over a small
alphabet (three digits, plus, blank, another sign, a letter); Profile is the
user's entry with the four pages that read it, edit one part and write it back
whole, using Phone for the number.

Each MC module extends its specification with the symmetry set and, for
StoreLock, with three concrete requests and seven calls; for Sessions, Consent
and Profile with the settings, sections and numbers considered.

## 3. Runs

| Run | Instance | States | Shows |
| --- | --- | --- | --- |
| MCStoreLock | redis, 2 replicas, 3 requests (two on one replica) that keep calling, an index of 2 and 3 sessions, or a queue; lease of 1 tick, fair | 122 k | exclusion under leases and in a process, no lost update, timeouts only under contention, refinement of AtomicIndex; every call ends, stale locks go |
| MCSessions | 2 requests, 2 sessions, 1 password change; cap 2 and working storage, or cap 1 and failing storage | 3.3 M | the marker outlives older logins; only logins under way survive a password change; index complete; revocation final when no request is about to save |
| MCSessionsRevoke | as MCSessions, idle timeout 2, working storage | - | violated: `RevocationIsFinal` |
| MCTokens | 2 requests, 2 links, cooldown 1, age 2, all faults | 0.9 M | single use in turn, cooldown in turn, refusals only after a mail, failed resets can be retried |
| MCAccounts | 2 requests, 2 owners, 2 links, both settings of require_admin_verify and staged_signup, broken-off requests, lookups that fail | 5.1 M | usable only if proven, usable only if approved, the pending queue tells the truth |
| MCAuditLog | 2 writers, ring of 3, page of 2, 5 events, 2 of them old ones, 1 restart, failing calls | 1.4 M | each event once and in order, none skipped that was there in time, recent list ordered when no writer is busy |
| MCGroupRequests | 2 users, 2 handlers, 2 requests, 1 outside change, failing calls | 0.8 M | answers hold, open requests stay |
| MCWebhooks | 2 loggers, queue of 2, 3 attempts, 3 numbered events and 1 unnumbered, fair | 30 k | none lost or overtaken, every event is settled |
| MCExpiryReminders | 2 replicas, windows 2 and 5, passwords that last 5 ticks, 1 change, failing calls, restarts | 0.9 M | each window once per replica, reminders in time after any failure |
| MCTwoFactor | 2 requests, 2 tokens, 2 challenges, 2 recovery requests, failing calls, deletion of the user | 4.0 M | an active token behind two-factor, one passkey per challenge and none lost, one answer per recovery request |
| MCConsent | 2 requests and the sweep, 2 clients, 1 group, 4 sections, 1 failure, fair | 0.5 M | steady members keep consents, lapses caused by mokey are followed up, Hydra forgets who has signed out, lapsed consents end |
| MCProfile | 2 requests, 2 addresses, 2 keys, 3 old numbers and 8 ways to fill in the form | 0.2 M | saved edits stay, the address is proven, accepted numbers survive the form |

Every specification has a type invariant (`TypeOK`, `GroupTypeOK`, ...). The
runs of StoreLock and Sessions check it; it is proved for every specification
(section 4).

**Bounds.** Two concurrent requests are enough for every race of the form "read,
other writes, write"; two sessions exceed a cap of one; a ring of three wraps
with five events and leaves room for one slow writer and one current; two links
allow a resend; a queue of two is full while a third event waits. Clocks are
bounded (`MaxTime`) so that each lifetime can end once and its successor begins;
one client with a rule and one without, and a single group, tell every outcome
of the rules apart; two challenges allow two first passkeys at the same time;
the forms take every branch of `joinPhone` but that of a malformed dial code.
Phone's limits (`MaxE164` and `MaxCode`, 15 and 4 in the code) are 3 and 2. The
counts of password changes, restarts, outside changes and events are named
constants used in guards. `CHECK_DEADLOCK FALSE` stands where these bounds end
the behaviour (Sessions, AuditLog, GroupRequests, Webhooks, ExpiryReminders).
Symmetry is used over requests, replicas, sessions or links that are
interchangeable, never with liveness.

**Fairness.** StoreLock: weak fairness of what a call does once it has the mutex
(`Proceed`: SET NX, giving up at the deadline, load, save, release, unlock) and
of the clock: goroutines are scheduled, redis calls return or fail, TTLs run
out. Strong fairness of `Hold`: Go's mutex hands itself to a waiter it has
passed over for a millisecond, so nobody is overtaken for ever. `AcquireError`
is not in `Proceed`: redis need not fail, so a waiter gets through because the
key becomes free or the deadline passes. Nothing is assumed about arrivals.
Webhooks: weak fairness of the worker: a post ends after its timeout of 5 s and
a backoff after at most 2 s. Consent: weak fairness of the sweep's own three
steps (StartConsentSweep loops for the life of the process, and calls to Hydra
and FreeIPA return or fail); `MaxFailures` makes failures finitely many, without
which no sweep could promise anything. Nothing is assumed about requests. The
others state safety only; `RemindedInTime` bounds the delay instead (sweeps
start on time and take at most `SweepTime`).

## 4. Proofs

The theorems hold for every value of the constants that the module's ASSUME
allows: any number of requests, replicas, sessions, links, clients or events,
any lifetimes and sizes. What is assumed is the kind of each constant, that
lifetimes and sizes are positive, and that model values standing for "none" are
not members of the sets they stand beside. The bounds of section 3 (`MaxTime`,
`MaxPw`, `MaxSeq`, `MaxRestarts`, ...) are arbitrary natural numbers here. Three
assumptions say more: `OneProcessWithoutRedis` (memory and sqlite3 belong to one
process), `ConsentConstants` makes the sweep a task of its own, and in
`ReminderConstants` a sweep takes less than the 24 hours that a marker outlives
the expiry date.

GroupRequests, ExpiryReminders and Profile have no proof module of their own:
StoreLockProofs, WebhooksProofs and AuditLogProofs extend two specifications
each and prove about either. That is why these three prefix the usual names
(`GroupSpec`, `ReminderInit`, `ProfileTypeOK`, ...).

| Theorem | Property, for every instance |
| --- | --- |
| StoreLockProofs: `TypeCorrect`, `MutexTheorem`, `LocalTheorem`, `NoLostUpdateTheorem`, `TimeoutTheorem` | TypeOK, MutualExclusion, LocalExclusion, NoLostUpdate, TimeoutMeansContention |
| StoreLockProofs: `RefinementTheorem` | StoreLock implements AtomicIndex |
| SessionsProofs: `TypeCorrect`, `IndexIsComplete`, `RevocationHolds`, `MarkerLivesLongEnough`, `PasswordChangeSignsOut` | TypeOK, IndexComplete, QuietRevocationIsFinal, MarkerOutlivesOldSessions, OldPasswordSignedOut |
| TokensProofs: `LinksWorkOnceInTurn`, `RefusalHasAReason`, `ResetCanBeRetried` | SingleUseInTurn, RefusedOnlyAfterMail, FailedResetCanBeRetried |
| TokensProofs: `CooldownIsKept` | the action property CooldownInTurn |
| AccountsProofs: `ApprovalIsNeeded`, `ProofOfAddressIsNeeded`, `QueueIsTruthful` | UsableOnlyIfApproved, UsableOnlyIfProven, QueueTellsTheTruth |
| StoreLockProofs: `ApprovalsAreTrue`; `UndecidedRequestsStay` | GroupRequests: AnswerHolds; the action property OpenRequestsStay |
| WebhooksProofs: `OneReminderPerReplica`, `RemindersComeInTime` | ExpiryReminders: OncePerWindow, RemindedInTime |
| AuditLogProofs: `SavedEditsStay`, `AddressesAreProven`, `NumbersRoundTrip` | Profile: EditsPersist, EmailIsProven, AcceptedNumberReturns |
| AuditLogProofs: `PollsAreInOrder`, `CursorSkipsNothing`, `RecentIsNewestFirst` | EachOnceInOrder, NothingSkippedInTime, NewestFirstWhenQuiet |
| WebhooksProofs: `NothingLostOrOvertaken` | NoneLostOrOvertaken |
| TwoFactorProofs: `OTPUsersHaveAToken`, `ChallengesAreSingleUse`, `PasskeysAreStored`, `RequestsAreAnsweredOnce` | ActiveTokenBehindOTP, ChallengeSpentOnce, VerifiedPasskeyIsStored, EachRequestAnsweredOnce |
| ConsentProofs: `RemovalIsFollowedUp`, `SignOutReachesHydra` | LapseIsFollowedUp, SignedOutIsForgotten |
| ConsentProofs: `AllowedConsentsStay` | the action property SteadyMembersKeepConsent |

The types of each specification are proved as well (`TypeCorrect`,
`GroupTypeCorrect`, `ReminderTypeCorrect`, `ProfileTypeCorrect`). All have the
same shape: the invariant holds in Init, each action preserves each of its
parts, the property follows. Where an action is long, a lemma first says what it
does to each variable (`...Facts`), so that the parts of the invariant are
carried without expanding it again. Hardly any of the properties is inductive;
every strengthening was checked with TLC on the run's instance before it was
proved. They are:

- **StoreLock**, `LockInv`: *LeaseInv* (who has lease left owns the redis key,
  and the key lives exactly as long as that lease), *MutexInv* (a request past
  mu.Lock() and before unlock owns its replica's mutex), *ModeInv* (how a request
  got through agrees with its step and with redis), *EditInv* (unless degraded,
  the list is the ideal one, an
  editing request is protected, and its copy is what its call makes of the list)
  and *PatienceInv* (a waiter nobody has beaten has more patience left than the
  key in its way has life). `SoleEditor`, that there is one editor at a time
  unless degraded, carries Save and the refinement. What the calls make of a
  list is a matter of lemmas about Keep, Append and SubSeq.
- **Sessions**, `SessionInv`: the marker has to outlive not only the stored old
  sessions but also what a request in flight would make of one by saving it once
  more (*MarkerInv*, over login times ordered by *ClockInv* and *LtInv*; its part
  *EnrolInv* is about passkey requests that have yet to read the session again);
  a request about to save has the login state that is stored (*AuthInv*) and,
  for a session revoked in peace, there is no such request (*QuietInv*); an id
  handed out is not handed out again (*UsedInv*); each session or copy of an
  older password is no younger than the change or was overtaken (*PasswordInv*).
- **Tokens**, `TokenInv`: a link that did not race takes effect once and is
  marked from then on, or its one request is about to mark it (*UseInv*, from
  *RaceInv* and *MarkInv*); the cooldown runs out no sooner than it should for
  any living link (*CoolInv*); *StatusInv* and *KindInv* tie steps to links.
- **Accounts**, `AccountInv`: with require_admin_verify no request is at a step
  that enables on its own (*RoadInv*); without it, as long as the name was free
  each time it was taken, every link and request that can still prove an unproven
  owner's address is that owner's (*ClaimInv*), the entries of one name in the
  two trees have one owner (*TreeInv*), and an address that a request writes back
  was proven (*EmailInv*); an approval between its two calls has been crossed if
  the entry is pending again (*CrossInv*).
- **AuditLog**, `AuditInv`: each of the last auditRingSize numbers is in its
  slot, with its writer, or a hole (*RingInv*); what the log keeps below the
  reader's position is on the page, delivered or late (*ScanInv*); *PageInv* and
  *RecentInv* order the two readers' pages. The arithmetic of the ring is in a
  few lemmas (`SameSlot`: two numbers on one slot are at least a round apart).
- **Webhooks**, `WebhookInv`: the property equates sequences; *LineInv* says it
  position by position. The types depend on it, and *AttemptInv* keeps the
  attempts within webhookAttempts.
- **TwoFactor**, `TwoFactorInv`: a challenge that did not race has one request
  spending it, or was spent and is gone (*SpendInv*, *FreshInv*); a request that
  turns two-factor on and is not shaky finds an active token (*SwitchInv*); an
  uncontested recovery request has one admin request at it, or went with the
  list (*QueueInv*, *FreedInv*); *ClassInv* says when a passkey is stored again.
- **Consent**, `ConsentInv`: what is barred now, or about to be revoked by some
  task, has lapsed since the user consented (*LapseInv*), which needs that an
  invalid section is never enforced by revoking everything; a login accepted for
  somebody who signed out meanwhile is known to linger (*PostInv*).
- **GroupRequests**, `RequestInv`: an approval that was carried out and not yet
  mailed will say what is so unless it was crossed (*WordInv*), which makes
  AnswerHolds last from one mail to the next. For users nobody else has touched,
  what a handler has looked at is still so (*LookInv*): the entry a decision
  read is the one in the queue, group_find's reply is right, and what the page
  takes for stale is. That carries the first look to the drop by name.
- **ExpiryReminders**, `ReminderInv`: *SweepInv* says how old a listing is,
  *MarkInv* that a marker stands for a mail. *CountInv*: the reminders sent and
  about to be sent are no more than the replicas, and as long as a marker is
  missing, every one that was sent is with a replica about to set it - so a
  replica that finds none has not sent yet itself. It needs that a marker
  outlives every sweep that could look for it (SweepTime < Grace). *TimeInv*
  follows each replica through its round: it has reminded of the windows the
  password was in when it last listed, or `steady` is still small.
- **Profile**, `ProfileInv`: a request's copy is the entry but for what was
  changed since it read (*CopyInv*), so a part that is written back unedited is
  either unchanged or counts as overwritten; the numbers in the entry and in all
  copies return (*PhoneInv*). That joinPhone and splitPhone fit together is a
  statement about texts of any length and needs no induction, because Trim, Keep
  and the first blank are defined by positions: `TrimBetween`, `AllDigits`,
  `StoredIs`, `SplitStored`, `JoinReturns`.

What the attempts found:

- OldPasswordSignedOut was false for two password changes: while one request
  changes the password, a reset sets another and a marker is stored; if the first
  one refreshes its own session a second later, that session outlives the marker
  although its password is gone (`password.go:384-385`). The run allows one
  change and could not see it. Such requests now count as `overtaken`, and the
  proof shows that they and the logins under way are the only ones.
- Two guards of a CASE in Accounts' verification overlapped; the value is then
  not specified, although TLC takes the first. The order is now explicit, as in
  the code.
- A filter defined by recursion says nothing to the provers, hence `Keep`, which
  `digitsOnly` now uses too.
- AnswerHolds was false for two sponsors: one approves a join and has not sent
  the mail yet when another removes the same user; the mail then tells the user
  what is no longer so (`groups.go:223-241`). The run had one sponsor. It has
  two now, such approvals count as `crossed`, and the proof shows that there is
  no other way.
- Passkey handlers read and save the session a second time. That makes one more
  way for an old login time to come back: a password change saves its own
  session with a new login time while a passkey request, let in before, has read
  the old one. Such sessions count as `raced`; the marker outlives all others,
  but only if the minute that it has to spare covers the whole passkey request.
- With `account.go:290` a signup can be staged beside somebody else's locked
  account of the same name, and the link for the one then enables the other. The
  statement about proven addresses speaks of the address as well as of the owner
  because verification and approval write back the address they read.
- The slack of RemindedInTime was one tick short: a sweep may mail in the very
  tick in which it must be over. It showed only when the first listing falls into
  a window already, as with a password that lasts no longer than the widest
  window, which the run now has. The statement also needs at least one replica.
- A dial code of one digit has to be allowed (`MaxCode` is at least 1, 4 in the
  code): splitCompact makes one.

Only model-checked: liveness (HoldReturns, StaleLockFreed, EverySettled,
LapsedConsentEnds), because fairness and ENABLED are beyond the prover used;
and that `Keep` is Go's filtering loop (SelectSeq), which takes induction over
sequences. Every safety property of a passing run is proved.

## 5. Statements that do not hold

One run keeps a counterexample:

- `RevocationIsFinal` (`sessions.go:6-7`, `auth.go:77`): a request that was
  between reading and saving its session brings a revoked session back, and the
  index no longer lists it. `QuietRevocationIsFinal` is what does hold.

The modules state more sentences of the docs that the code does not keep. They
are not part of a run; TLC refutes each when it replaces the properties of the
run named, with the constants given.

| Statement | Run, constants | How it fails |
| --- | --- | --- |
| `WorstIsOneEntry` (`storelock.go:57-59`) | MCStoreLock, redis = FALSE | a failed Get is read as an empty list, and the next request queued is saved without all the others (session indexes, and entries that fall off at the cap, are left out of the statement; `IndexComplete` tells what that does to sessions) |
| `RevokeOthersIsComplete` (`sessions.go:227`) | MCSessions | a session pushed off the capped index is not deleted |
| `ResetSignsOut` (`password-reset.md:21`) | MCSessions, idleTimeout = 2 | a login accepted with the old password is saved after the marker, with a later time (`auth.go:421`); `OldPasswordSignedOut` says that nothing else survives |
| `LinkWorksOnce` (`password-reset.md:35`, `token.go:103`) | MCTokens, faults = FALSE | two POSTs of one link pass the look at the used marker before either sets it; `SingleUseInTurn` is what does hold |
| `OneMailPerCooldown` (`password-reset.md:37`) | MCTokens, faults = FALSE | two requests see no issued marker before either sets it (`token.go:54`); `CooldownInTurn` is what does hold |
| `EnablesOnlyUnverified` (`account.go:375-376`) | MCAccounts, 1 request, faults = FALSE | verification enables a locked account before it looks at the category, so a second, unused link re-enables an account that was verified and then blocked (without require_admin_verify) |
| `VerifiedMeansProven` (`account.go:400-401`) | MCAccounts | a link mailed to a denied owner of the name verifies the next owner's registration (`account.go:378`) |
| `ApprovedLeavesQueue` (`signup.md:56-57`) | MCAccounts | approving an enabled account ends with "already enabled", reported as success, before the category is cleared (`admin.go:314`); or a second verification marks it pending between the two calls (`admin.go:230`) |
| `VerifiedIsInQueue` (`signup.md:56-57`) | MCAccounts | the category is cleared and then the activation fails (`admin.go:230`); `QueueTellsTheTruth` says these are the only ways |
| `PollerSkipsNothing` (`webhooks-api.md:141-143`) | MCAuditLog, faults = FALSE | an event numbered earlier is stored after a later one was polled (`audit.go:119`) |
| `NewestFirst` (`audit.go:132`) | MCAuditLog, faults = FALSE | a slot not stored yet shows the event of the previous round |
| `PageDropsOnlyStale` (`groups.go:64-65`) | MCGroupRequests, faults = FALSE | a request made after the page listed the members is dropped by name (`groups.go:83`) |
| `OneAnswerPerRequest` (`groups.md:25-26`) | MCGroupRequests | two sponsors decide the same request (`groups.go:233`) |
| `CatchUpFindsMissed` (`webhooks-api.md:52-53`) | MCWebhooks | an event given up has a lower number than the next one delivered |
| `AtMostOneDuplicate` (`expiry.go:44-45`) | MCExpiryReminders, 3 replicas, faults = FALSE | n replicas that sweep at the same time send n reminders |
| `BadEntryDeniesEveryClient` (`oidc-hydra.md:91-92`) | MCConsent | an entry without client_id denies only the clients without an entry before it (`hydra.go:69-100`) |
| `RefusedAtLogin` (`oidc-hydra.md:45`) | MCConsent | `LoginOAuthPost` has Hydra remember the login of a user without a second factor (`hydra.go:282-307`); the consent is refused then |
| `ForeignNumberAccepted` (`phone.go:17-19`) | MCProfile | a value written outside of mokey that is no phone number is refused, and the whole form with it, until it is corrected |

## 6. Assumptions and what is left out

FreeIPA calls are atomic and do what their names say; adding a member that is
there or removing one that is not is no error (`memberRefusal`); enabling an
enabled account is one. Storage keys expire on time. Replicas share one clock: a
skew of s seconds widens the same-second exemption of the marker to s seconds. A
request takes no longer than `MaxInFlight` between reading a session and its
last save of it, which is the minute the marker's life has to spare. Branca
links cannot be forged.

Hydra's calls are atomic as well. TOTP codes and WebAuthn answers are valid or
not. FreeIPA refuses to take the last active token of a user who needs one, and
answers the addition of an object class that is there with an error, as the
handlers that deal with these answers say.

Not modelled: rendering, mail formatting and SMTP details, webhook signatures,
ID-token claims, the 30-day life of group-request lists, rate limits and
captchas, HTTP routing and configuration; read-only pages (user search, access
overview, apps). `incr` without redis is one step: a failing read would restart
the counter (`storelock.go:129`), and telling what readers make of that needs
events with an identity besides their number. Session data of older releases is
left out: `migrateFiberV2Session` (`session.go:37-54`) reads the raw data and
writes it back in the new encoding, so on the first request after that upgrade
it could bring a session back that is revoked in between, as every other request
can. Sending invitations has no state besides the link, which InviteAccept
stands for. Username generation, durations and password rules are functions of
one argument that the repository tests by table. Single FreeIPA calls behind a
permission check (subids, helpdesk) have no state of mokey's own; the server's
wiring, the templates and the command line have none at all.

## 7. Plan

The modules are complete as far as section 6 says, and what they state is proved
but for liveness and Keep's agreement with SelectSeq. Worth adding when the code
changes:

1. `incr` without redis, with events that have an identity besides their number,
   so that the restart of the counter at `storelock.go:129` can be stated.
2. The liveness proofs, with a prover that knows fairness. What they would rest
   on is there: `PatienceInv` for HoldReturns, `LineInv` and `AttemptInv` for
   EverySettled, `LapseInv` for LapsedConsentEnds.
3. The password-quality checks and the sending of invitations, the parts of the
   two components that are partly modelled.
