------------------------------- MODULE Tokens -------------------------------
(***************************************************************************)
(* The emailed single-use links of one user and one kind: server/token.go, *)
(* sendTokenEmail and its callers in server/email.go, and the handlers     *)
(* that confirm a link: PasswordReset (password.go), EmailChangeConfirm    *)
(* (account.go) and OTPRecoveryConfirm (otprecovery.go).                   *)
(*                                                                         *)
(* Storage keeps two markers: "issued" per user, which holds back another  *)
(* mail for the resend cooldown, and "used" per link.  Markers of          *)
(* different kinds have different prefixes and share nothing, so the kind  *)
(* is chosen once.  Requests are workers; they interleave at every storage *)
(* call and every call to FreeIPA, and their replica may die at any point. *)
(* Signing the user's sessions out after a reset is in Sessions.tla.       *)
(***************************************************************************)
EXTENDS Integers

CONSTANTS
    Workers,            \* requests that can be in flight at the same time
    Links,              \* the branca tokens that get generated
    NoLink,
    resendCooldown,     \* email.resend_cooldown, in ticks
    tokenMaxAge,        \* email.token_max_age, in ticks
    faults              \* do storage, FreeIPA, mail and replicas fail?

Kinds == {"reset", "email", "otp"}

ASSUME TokenConstants ==
    /\ NoLink \notin Links
    /\ resendCooldown \in Nat \ {0} /\ tokenMaxAge \in Nat \ {0}
    /\ faults \in BOOLEAN

VARIABLES
    kind,       \* which link this is about
    account,    \* FreeIPA: "ok", "locked", or password managed "elsewhere"
    password,   \* FreeIPA: NoLink when the user knows the password, else the
                \* worker whose ResetPassword made the present random one
    queued,     \* is an OTP recovery request of the user in the queue?
    issuedTTL,  \* life of the issued marker, 0 when there is none
    usedTTL,    \* usedTTL[l]: life of l's used marker
    life,       \* life[l]: ticks until the link is too old, 0 also before
    status,     \* status[l]: "new", "sending", "mailed" or "lost"
    pc, link,   \* per worker: step, and the link it sends or confirms
    setter,     \* ghost: the link the issued marker was set for
    resetBy,    \* ghost: the link that made the present random password
    crowded,    \* ghost: requests that found no marker, before another
                \* request set it
    wiped,      \* ghost: was the marker deleted since it was last set?
    stuck,      \* ghost: did the mail for setter fail without a rollback?
    effects,    \* ghost: effects[l]: 0, 1 or 2 (more than one) effects of l
    marked,     \* ghost: links that were marked used
    unmarked,   \* ghost: links that took effect without being marked
    raced       \* ghost: links accepted by two requests at the same time

vars == <<kind, account, password, queued, issuedTTL, usedTTL, life, status,
          pc, link, setter, resetBy, crowded, wiped, stuck, effects, marked,
          unmarked, raced>>

mail == <<issuedTTL, life, status, setter, crowded, wiped, stuck>>
directory == <<account, password, queued, resetBy>>
usage == <<usedTTL, effects, marked, unmarked, raced>>

Confirming(q) == pc[q] \in {"parsed", "checked", "random", "mark"}
Twice(n) == IF n = 0 THEN 1 ELSE 2

Goto(q, step) == pc' = [pc EXCEPT ![q] = step]
Done(q) == Goto(q, "idle") /\ link' = [link EXCEPT ![q] = NoLink]
ClearIssued ==
    /\ issuedTTL' = 0 /\ setter' = NoLink
    /\ wiped' = TRUE
    /\ stuck' = FALSE

(* The mail for link l failed, and its marker stays.                       *)
NoRollback(l) == stuck' = (stuck \/ setter = l)

-----------------------------------------------------------------------------
Init ==
    /\ kind \in Kinds
    /\ account = "ok" /\ password = NoLink /\ queued = FALSE
    /\ issuedTTL = 0
    /\ usedTTL = [l \in Links |-> 0]
    /\ life = [l \in Links |-> 0]
    /\ status = [l \in Links |-> "new"]
    /\ pc = [q \in Workers |-> "idle"]
    /\ link = [q \in Workers |-> NoLink]
    /\ setter = NoLink /\ resetBy = NoLink
    /\ crowded = {} /\ wiped = FALSE
    /\ stuck = FALSE /\ marked = {} /\ unmarked = {} /\ raced = {}
    /\ effects = [l \in Links |-> 0]

(* What asks for a mail.  PasswordForgot: not for a locked account, and    *)
(* when the password is managed elsewhere the mail says so and has no      *)
(* link, ...                                                               *)
PasswordElsewhere == account = "elsewhere"

PasswordForgot(q) ==
    /\ kind = "reset" /\ account # "locked"
    /\ Goto(q, IF PasswordElsewhere THEN "elsewhere" ELSE "issue")

(* ... an admin's "reset" sends a link to any account, ...                 *)
AdminReset(q) == kind = "reset" /\ Goto(q, "issue")

(* ... OTPRecoveryRequest to accounts that are not locked, ...             *)
OTPRecoveryRequest(q) == kind = "otp" /\ account = "ok" /\ Goto(q, "issue")

(* ... AccountSettings, in a session, to a new address.                    *)
AccountSettings(q) == kind = "email" /\ Goto(q, "issue")

(* Mutant: nobody looks for the marker.                                    *)
NewTokenAnyway(q) ==
    /\ pc[q] = "idle"
    /\ \/ PasswordForgot(q) \/ AdminReset(q)
       \/ OTPRecoveryRequest(q) \/ AccountSettings(q)
    /\ UNCHANGED <<kind, link, mail, directory, usage>>

(* NewToken and SendPasswordElsewhereEmail, first half: there is no issued *)
(* marker (an error counts as one).                                        *)
NewToken(q) ==
    /\ pc[q] = "idle"
    /\ issuedTTL = 0
    /\ \/ PasswordForgot(q) \/ AdminReset(q)
       \/ OTPRecoveryRequest(q) \/ AccountSettings(q)
    /\ UNCHANGED <<kind, link, mail, directory, usage>>

(* NewToken, second half: generate the link, then set the marker; without  *)
(* the marker there is no link.                                            *)
SetIssued(q, l) ==
    /\ pc[q] = "issue"
    /\ \/ /\ status[l] = "new"
          /\ status' = [status EXCEPT ![l] = "sending"]
          /\ life' = [life EXCEPT ![l] = tokenMaxAge]
          /\ issuedTTL' = resendCooldown
          /\ setter' = l
          /\ crowded' = {p \in Workers \ {q} : pc[p] = "issue"}
          /\ wiped' = FALSE /\ stuck' = FALSE
          /\ Goto(q, "send")
          /\ link' = [link EXCEPT ![q] = l]
       \/ /\ faults
          /\ Done(q)
          /\ crowded' = crowded \ {q}
          /\ UNCHANGED <<status, life, issuedTTL, setter, wiped, stuck>>
    /\ UNCHANGED <<kind, directory, usage>>

(* SendPasswordElsewhereEmail holds on to the same marker, sends no link   *)
(* and does not roll back.                                                 *)
SendPasswordElsewhere(q) ==
    /\ pc[q] = "elsewhere"
    /\ \/ issuedTTL' = resendCooldown /\ setter' = NoLink /\ stuck' = FALSE
       \/ faults /\ UNCHANGED <<issuedTTL, setter, stuck>>
    /\ Done(q)
    /\ UNCHANGED <<kind, life, status, crowded, wiped, directory, usage>>

(* sendEmail: accepted by the mail server or, also when it reports an      *)
(* error or the connection breaks, one or the other.                       *)
SendEmail(l, outcomes) ==
    \E outcome \in outcomes : status' = [status EXCEPT ![l] = outcome]

(* Mutant: a failed delivery leaves the marker alone.                      *)
SendNoRollback(q) ==
    /\ pc[q] = "send"
    /\ Done(q)
    /\ SendEmail(link[q], {"mailed", "lost"})
    /\ UNCHANGED <<kind, issuedTTL, life, setter, crowded, wiped, stuck,
                   directory, usage>>

(* sendTokenEmail: the mail goes out, or the mail server reports an error, *)
(* which does not prove that nothing was delivered, and the issued marker  *)
(* is deleted - whoever set it.                                            *)
SendTokenEmail(q) ==
    /\ pc[q] = "send"
    /\ Done(q)
    /\ \/ /\ SendEmail(link[q], {"mailed"})
          /\ UNCHANGED <<issuedTTL, setter, wiped, stuck>>
       \/ /\ faults
          /\ SendEmail(link[q], {"mailed", "lost"})
          /\ \/ ClearIssued
             \/ NoRollback(link[q]) /\ UNCHANGED <<issuedTTL, setter, wiped>>
    /\ UNCHANGED <<kind, life, crowded, directory, usage>>

-----------------------------------------------------------------------------
(* ParseToken on a POST: neither used nor too old (an error counts as      *)
(* used).                                                                  *)
ParseToken(q, l) ==
    /\ pc[q] = "idle"
    /\ status[l] = "mailed"
    /\ usedTTL[l] = 0
    /\ life[l] > 0
    /\ Goto(q, "parsed")
    /\ link' = [link EXCEPT ![q] = l]
    /\ raced' = IF \E p \in Workers : Confirming(p) /\ link[p] = l
                  THEN raced \cup {l} ELSE raced
    /\ UNCHANGED <<kind, mail, directory, usedTTL, effects, marked, unmarked>>

(* Mutant: the used marker lives for the resend cooldown.                  *)
usedMarkerTTLShort(l) == resendCooldown

(* A used marker lives for as long as the link would.                      *)
usedMarkerTTL(l) == life[l]

(* MarkTokenUsed: a failure is only logged.                                *)
MarkTokenUsed(l) ==
    \/ /\ usedTTL' = [usedTTL EXCEPT ![l] = usedMarkerTTL(l)]
       /\ marked' = marked \cup {l}
       /\ UNCHANGED unmarked
    \/ /\ faults
       /\ unmarked' = unmarked \cup {l}
       /\ UNCHANGED <<usedTTL, marked>>

(* The request's change is made.  When FreeIPA's answer is lost the        *)
(* handler takes it for a failure and does not mark the link.              *)
TakeEffect(q, next) ==
    /\ effects' = [effects EXCEPT ![link[q]] = Twice(effects[link[q]])]
    /\ \/ /\ Goto(q, next)
          /\ UNCHANGED <<link, unmarked>>
       \/ /\ faults
          /\ Done(q)
          /\ unmarked' = unmarked \cup {link[q]}

(* A handler that answers with an error before it changed anything.        *)
GiveUp(q) ==
    /\ pc[q] \in {"parsed", "checked", "random"}
    /\ kind # "otp"
    /\ Done(q)
    /\ UNCHANGED <<kind, mail, directory, usage>>

(* PasswordReset: the account must exist, be enabled and have its password *)
(* in FreeIPA, and the new password must satisfy the policy.               *)
PasswordReset(q) ==
    /\ kind = "reset" /\ pc[q] = "parsed"
    /\ account = "ok"
    /\ Goto(q, "checked")
    /\ UNCHANGED <<kind, link, mail, directory, usage>>

(* Mutant: the link is marked used as soon as the old password is gone.    *)
ResetPasswordAndMark(q) ==
    /\ kind = "reset" /\ pc[q] = "checked"
    /\ password' = q
    /\ resetBy' = link[q]
    /\ Goto(q, "random")
    /\ MarkTokenUsed(link[q])
    /\ UNCHANGED <<kind, link, mail, account, queued, effects, raced>>

(* ResetPassword replaces the password by a random one ...                 *)
ResetPassword(q) ==
    /\ kind = "reset" /\ pc[q] = "checked"
    /\ password' = q
    /\ resetBy' = link[q]
    /\ \/ Goto(q, "random") /\ UNCHANGED link
       \/ faults /\ Done(q)
    /\ UNCHANGED <<kind, mail, account, queued, usage>>

(* ... and SetPassword that one by the user's choice, if it is still the   *)
(* password and FreeIPA accepts the choice.                                *)
SetPassword(q) ==
    /\ pc[q] = "random"
    /\ password = q
    /\ password' = NoLink /\ resetBy' = NoLink
    /\ TakeEffect(q, "mark")
    /\ UNCHANGED <<kind, mail, account, queued, usedTTL, marked, raced>>

(* EmailChangeConfirm: show the user, then write the new address.          *)
UserMod(q) ==
    /\ kind = "email" /\ pc[q] = "parsed"
    /\ TakeEffect(q, "mark")
    /\ UNCHANGED <<kind, mail, directory, usedTTL, marked, raced>>

(* PasswordReset and EmailChangeConfirm mark the link last, ...            *)
MarkLast(q) ==
    /\ pc[q] = "mark" /\ kind # "otp"
    /\ MarkTokenUsed(link[q])
    /\ Done(q)
    /\ UNCHANGED <<kind, mail, directory, effects, raced>>

(* ... OTPRecoveryConfirm first.                                           *)
MarkFirst(q) ==
    /\ kind = "otp" /\ pc[q] = "parsed"
    /\ MarkTokenUsed(link[q])
    /\ Goto(q, "release")
    /\ UNCHANGED <<kind, link, mail, directory, effects, raced>>

(* OTPRecoveryConfirm lets the user ask for another link, ...              *)
ReleaseIssued(q) ==
    /\ pc[q] = "release"
    /\ ClearIssued \/ (faults /\ UNCHANGED <<issuedTTL, setter, wiped, stuck>>)
    /\ Goto(q, "queue")
    /\ UNCHANGED <<kind, link, life, status, crowded, directory, usage>>

(* ... and queues the request, once per user (addOTPRecoveryRequest).      *)
AddOTPRecoveryRequest(q) ==
    /\ pc[q] = "queue"
    /\ \/ /\ queued' = TRUE
          /\ effects' = IF queued THEN effects
                                  ELSE [effects EXCEPT ![link[q]] = Twice(@)]
       \/ faults /\ UNCHANGED <<queued, effects>>
    /\ Done(q)
    /\ UNCHANGED <<kind, mail, account, password, resetBy, usedTTL, marked,
                   unmarked, raced>>

(* An admin approves or denies the queued request.                         *)
RemoveOTPRecoveryRequest ==
    /\ queued /\ queued' = FALSE
    /\ UNCHANGED <<kind, account, password, resetBy, pc, link, mail, usage>>

-----------------------------------------------------------------------------
(* The directory changes: the account is blocked or unblocked; whether its *)
(* password is in FreeIPA matters to a reset only.                         *)
DirectoryChange ==
    /\ \/ kind = "reset" /\ account' \in {"ok", "locked", "elsewhere"} \ {account}
       \/ kind = "otp" /\ account' \in {"ok", "locked"} \ {account}
    /\ UNCHANGED <<kind, password, queued, resetBy, pc, link, mail, usage>>

(* The replica dies in the middle of a request.                            *)
Crash(q) ==
    /\ faults /\ pc[q] # "idle"
    /\ Done(q)
    /\ \/ /\ pc[q] = "send"
          /\ SendEmail(link[q], {"mailed", "lost"})
          /\ NoRollback(link[q])
       \/ /\ pc[q] # "send"
          /\ UNCHANGED <<status, stuck>>
    /\ unmarked' = IF pc[q] = "mark" THEN unmarked \cup {link[q]} ELSE unmarked
    /\ crowded' = crowded \ {q}
    /\ UNCHANGED <<kind, issuedTTL, life, setter, wiped, directory, usedTTL,
                   effects, marked, raced>>

Less(n) == IF n > 0 THEN n - 1 ELSE 0

(* Links that have not been out for the resend cooldown.                   *)
Recent(ages) ==
    {l \in Links : ages[l] > 0 /\ tokenMaxAge - ages[l] < resendCooldown}

(* A tick passes.  (The ghosts are forgotten once no link is recent.)      *)
Tick ==
    /\ issuedTTL' = Less(issuedTTL)
    /\ setter' = IF issuedTTL' = 0 THEN NoLink ELSE setter
    /\ usedTTL' = [l \in Links |-> Less(usedTTL[l])]
    /\ life' = [l \in Links |-> Less(life[l])]
    /\ stuck' = (stuck /\ setter' # NoLink)
    /\ crowded' = IF Recent(life') = {} THEN {} ELSE crowded
    /\ wiped' = (wiped /\ Recent(life') # {})
    /\ UNCHANGED <<kind, directory, status, pc, link, effects, marked,
                   unmarked, raced>>

Step(q) ==
    \/ NewToken(q) \/ SendPasswordElsewhere(q) \/ SendTokenEmail(q)
    \/ GiveUp(q) \/ PasswordReset(q) \/ ResetPassword(q) \/ SetPassword(q)
    \/ UserMod(q) \/ MarkLast(q) \/ MarkFirst(q) \/ ReleaseIssued(q)
    \/ AddOTPRecoveryRequest(q) \/ Crash(q)
    \/ \E l \in Links : SetIssued(q, l) \/ ParseToken(q, l)

Next == (\E q \in Workers : Step(q)) \/ RemoveOTPRecoveryRequest
        \/ DirectoryChange \/ Tick

Spec == Init /\ [][Next]_vars

-----------------------------------------------------------------------------
(* Types: markers and links never live longer than resend_cooldown and     *)
(* token_max_age allow (token.go).                                         *)
TypeOK ==
    /\ kind \in Kinds
    /\ account \in {"ok", "locked", "elsewhere"}
    /\ password \in Workers \cup {NoLink}
    /\ queued \in BOOLEAN
    /\ issuedTTL \in 0..resendCooldown
    /\ usedTTL \in [Links -> 0..tokenMaxAge]
    /\ life \in [Links -> 0..tokenMaxAge]
    /\ status \in [Links -> {"new", "sending", "mailed", "lost"}]
    /\ pc \in [Workers -> {"idle", "issue", "elsewhere", "send", "parsed",
                           "checked", "random", "mark", "release", "queue"}]
    /\ link \in [Workers -> Links \cup {NoLink}]
    /\ setter \in Links \cup {NoLink} /\ resetBy \in Links \cup {NoLink}
    /\ crowded \in SUBSET Workers /\ wiped \in BOOLEAN
    /\ stuck \in BOOLEAN /\ marked \in SUBSET Links
    /\ unmarked \in SUBSET Links /\ raced \in SUBSET Links
    /\ effects \in [Links -> 0..2]

(* A link takes effect at most once, over its whole life, unless two       *)
(* requests had it accepted before either marked it, or an effect went     *)
(* unmarked (a lost answer, a crash, a failed Set).  In particular a used  *)
(* marker never expires before its link (token.go:144-153).                *)
SingleUseInTurn ==
    \A l \in Links : effects[l] = 2 => l \in raced \cup unmarked

(* The user is refused another mail only on account of a link that was     *)
(* mailed or is on its way (or whose rollback failed): "without the        *)
(* rollback a rejected or undeliverable address locks the user out"        *)
(* (email.go:105-108).                                                     *)
RefusedOnlyAfterMail ==
    issuedTTL > 0 /\ setter # NoLink =>
        status[setter] \in {"sending", "mailed"} \/ stuck

(* A second link is generated within the resend cooldown of one that was   *)
(* or may still be mailed only if its request had found no marker before   *)
(* that one's was set (NewToken checks it first and sets it last,          *)
(* token.go:53-83), or if the marker was deleted: a mail was reported as   *)
(* failed (email.go:105-117) or an OTP recovery link confirmed.            *)
CooldownInTurn ==
    [][\A q \in Workers :
         pc[q] = "issue" /\ pc'[q] = "send" /\ q \notin crowded /\ ~wiped =>
           \A l \in Recent(life) : status[l] = "lost"]_vars

(* A reset that fails half way, with a random password in place, leaves    *)
(* its link unspent, so that the user can try again - unless the link was  *)
(* being used twice at the same time (password.go:558-587).                *)
FailedResetCanBeRetried ==
    LET InHand == \E q \in Workers : pc[q] = "random" /\ password = q
    IN kind = "reset" /\ password # NoLink /\ ~InHand =>
           resetBy \notin marked \/ resetBy \in raced

-----------------------------------------------------------------------------
(* What docs and comments say and the code does not keep; the README tells *)
(* how each statement fails.                                               *)

(* "A link works once." (docs/guides/password-reset.md:35; "each is        *)
(* single-use", token.go:90), when nothing fails.                          *)
LinkWorksOnce == \A l \in Links : effects[l] # 2

(* resend_cooldown is the "Seconds before the same user can be sent        *)
(* another reset email" (docs/guides/password-reset.md:37), when nothing   *)
(* fails.                                                                  *)
OneMailPerCooldown ==
    \A l, m \in Links :
        /\ l # m /\ kind = "reset"
        /\ status[l] = "mailed" /\ status[m] = "mailed"
        /\ life[m] > 0 /\ life[m] <= life[l]
        => life[l] - life[m] >= resendCooldown
=============================================================================
