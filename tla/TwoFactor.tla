----------------------------- MODULE TwoFactor -----------------------------
(***************************************************************************)
(* The second factor of one user: server/otp.go, passkey.go,               *)
(* ipa_passkey.go, the two-factor switch of security.go, and the recovery  *)
(* of a lost token in otprecovery.go and admin.go.                         *)
(*                                                                         *)
(* FreeIPA keeps the tokens, the authentication type and the passkeys; the *)
(* session keeps the challenge of a passkey registration; storage keeps    *)
(* the recovery request.  Requests are workers and interleave at every     *)
(* call.  A request of the user reads the session, asks FreeIPA for the    *)
(* user and saves the whole session back (isLoggedIn) before its handler   *)
(* runs.  The recovery link itself is in Tokens.tla, the guarded edit of   *)
(* the queue in StoreLock.tla: here each is one step.  Tokens and passkeys *)
(* share nothing but the login check, so which of them the user's requests *)
(* are about is chosen once.                                               *)
(***************************************************************************)
EXTENDS Integers

CONSTANTS
    Workers,        \* requests that can be in flight at the same time
    Tokens,         \* OTP tokens that get added
    Challenges,     \* WebAuthn challenges that get generated
    NoChallenge,
    MaxRequests,    \* bound: recovery requests that get queued
    faults          \* do calls to FreeIPA and storage fail?

Requests == 1..MaxRequests

ASSUME TwoFactorConstants ==
    /\ NoChallenge \notin Challenges
    /\ MaxRequests \in Nat
    /\ faults \in BOOLEAN

VARIABLES
    tab,        \* what the user's requests are about: "otp" or "passkey"
    requireMFA, \* accounts.require_mfa
    readonly,   \* is the user in one of accounts.otp_readonly_groups?
    exists,     \* FreeIPA: is there such a user?
    token,      \* FreeIPA: token[t]: "new" (not added yet), "on", "off", "gone"
    auth,       \* FreeIPA: the user's authentication type
    hasClass,   \* FreeIPA: has the entry the class ipapasskeyuser?
    passkeys,   \* FreeIPA: passkeys of the user, named by their challenge
    challenge,  \* session: the challenge of a registration under way
    begun,      \* challenges generated so far
    linkOut,    \* has a recovery link been mailed and not been confirmed?
    queue,      \* the user's recovery request, 0 when there is none
    pc, copy, seenOTP,  \* per worker: step, challenge in its copy of the
                        \* session, was the user OTP only at UserShow
                        \* (kept if require_mfa makes it matter)
    asked,      \* ghost: recovery requests queued so far
    saw,        \* ghost: per admin request, the recovery request it found
    answers,    \* ghost: answers[n]: 0, 1 or 2 (more than one) answers to n
    dropped,    \* ghost: requests dropped by the admin page
    wiped,      \* ghost: requests that went with the whole list
    freed,      \* ghost: requests during which the user was not OTP only
    contested,  \* ghost: requests two admin requests were at, or whose
                \* removal failed
    shaky,      \* ghost: workers who listed disabled tokens only, or whose
                \* list has lost a token since
    firm,       \* ghost: was OTP, if it is on, not turned on by a shaky worker?
    spent,      \* ghost: spent[k]: 0, 1 or 2 credentials created from k
    raced,      \* ghost: challenges read twice or saved back by others
    failed,     \* ghost: challenges whose passkey a failed call prevented
    removed     \* ghost: passkeys removed

config == <<tab, requireMFA, readonly, exists>>
otp == <<token, auth, shaky, firm>>
passkey == <<hasClass, passkeys, begun, spent, raced, failed, removed>>
recovery == <<linkOut, queue, asked, saw, answers, dropped, wiped, contested>>
request == <<copy, seenOTP>>
vars == <<config, otp, passkey, challenge, recovery, freed, pc, request>>

Owned == {t \in Tokens : token[t] \in {"on", "off"}}
Active == {t \in Tokens : token[t] = "on"}
OTPOnly == exists /\ auth = "otp"
Twice(n) == IF n = 0 THEN 1 ELSE 2

Goto(q, step) == pc' = [pc EXCEPT ![q] = step]
Done(q) == /\ Goto(q, "idle")
           /\ copy' = [copy EXCEPT ![q] = NoChallenge]
           /\ seenOTP' = [seenOTP EXCEPT ![q] = FALSE]

-----------------------------------------------------------------------------
Init ==
    /\ tab \in {"otp", "passkey"}
    /\ requireMFA \in BOOLEAN /\ readonly \in BOOLEAN
    /\ token \in [Tokens -> {"new", "on"}]
    /\ tab = "passkey" =>      \* what these requests do not look at
         ~requireMFA /\ ~readonly /\ \A t \in Tokens : token[t] = "new"
    /\ readonly => ~requireMFA \* asked for after the self-service check only
    /\ exists = TRUE /\ auth = "default"
    /\ hasClass = FALSE /\ passkeys = {}
    /\ challenge = NoChallenge /\ begun = {}
    /\ linkOut = FALSE /\ queue = 0
    /\ pc = [q \in Workers |-> "idle"]
    /\ copy = [q \in Workers |-> NoChallenge]
    /\ seenOTP = [q \in Workers |-> FALSE]
    /\ asked = 0
    /\ saw = [q \in Workers |-> 0]
    /\ answers = [n \in Requests |-> 0]
    /\ dropped = {} /\ wiped = {} /\ freed = {} /\ contested = {}
    /\ shaky = {} /\ firm = TRUE
    /\ spent = [k \in Challenges |-> 0]
    /\ raced = {} /\ failed = {} /\ removed = {}

(* isLoggedIn, first half: read the session.                               *)
RequireLogin(q) ==
    /\ pc[q] = "idle"
    /\ Goto(q, "check")
    /\ copy' = [copy EXCEPT ![q] = challenge]
    /\ UNCHANGED <<config, otp, passkey, challenge, recovery, freed, seenOTP>>

(* isLoggedIn, second half: ask FreeIPA for the user, save what was read   *)
(* (a failure is ignored).  When FreeIPA does not answer, or knows no such *)
(* user, the session is destroyed.                                         *)
IsLoggedIn(q) ==
    /\ pc[q] = "check"
    /\ \/ /\ exists
          /\ Goto(q, "handler")
          /\ copy' = [copy EXCEPT ![q] = NoChallenge]
          /\ seenOTP' = [seenOTP EXCEPT ![q] = requireMFA /\ OTPOnly]
          /\ \/ /\ challenge' = copy[q]
                /\ raced' = IF copy[q] \in {challenge, NoChallenge}
                              THEN raced ELSE raced \cup {copy[q]}
             \/ faults /\ UNCHANGED <<challenge, raced>>
       \/ /\ faults \/ ~exists
          /\ Done(q)
          /\ challenge' = NoChallenge
          /\ UNCHANGED raced
    /\ UNCHANGED <<config, otp, hasClass, passkeys, begun, spent, failed,
                   removed, recovery, freed>>

(* The request is past the login check.                                    *)
Handler(q, about) == pc[q] = "handler" /\ tab = about

(* A page that changes nothing here, or a handler that returns early.      *)
Page(q) ==
    /\ pc[q] = "handler"
    /\ Done(q)
    /\ UNCHANGED <<config, otp, passkey, challenge, recovery, freed>>

-----------------------------------------------------------------------------
(* FreeIPA takes no call for a user who is gone: the handler returns.      *)
TokenHandler(q) == Handler(q, "otp") /\ exists

(* RequireOTPSelfService                                                   *)
SelfService(q) == TokenHandler(q) /\ ~readonly

(* A token goes or is switched off: whoever listed the tokens and is about *)
(* to set the authentication type acts on an old list.                     *)
TokenLost(t, state) ==
    /\ token' = [token EXCEPT ![t] = state]
    /\ shaky' = shaky \cup {p \in Workers : pc[p] = "switch"}

(* FreeIPA refuses to take the last active token of an OTP-only user       *)
(* (error 4203).                                                           *)
LastActive(t) == OTPOnly /\ Active = {t}

(* OTPTokenAdd: the token is active before it has been verified.           *)
OTPTokenAdd(q, t) ==
    /\ SelfService(q)
    /\ token[t] = "new"
    /\ token' = [token EXCEPT ![t] = "on"]
    /\ Done(q)
    /\ UNCHANGED <<config, auth, shaky, firm, passkey, challenge, recovery,
                   freed>>

(* OTPTokenRemove, and OTPTokenVerify when the user cancels or the URI     *)
(* cannot be parsed.                                                       *)
OTPTokenRemove(q, t) ==
    /\ SelfService(q)
    /\ t \in Owned /\ ~LastActive(t)
    /\ TokenLost(t, "gone")
    /\ Done(q)
    /\ UNCHANGED <<config, auth, firm, passkey, challenge, recovery, freed>>

OTPTokenEnable(q, t) ==
    /\ SelfService(q)
    /\ token[t] = "off"
    /\ token' = [token EXCEPT ![t] = "on"]
    /\ Done(q)
    /\ UNCHANGED <<config, auth, shaky, firm, passkey, challenge, recovery,
                   freed>>

OTPTokenDisable(q, t) ==
    /\ SelfService(q)
    /\ token[t] = "on" /\ ~LastActive(t)
    /\ TokenLost(t, "off")
    /\ Done(q)
    /\ UNCHANGED <<config, auth, firm, passkey, challenge, recovery, freed>>

(* The tokens have been listed; SetAuthTypes is next.  Whether a listed    *)
(* token is active is not looked at.                                       *)
ToSwitch(q) ==
    /\ Goto(q, "switch")
    /\ shaky' = IF Owned # {} /\ Active = {} THEN shaky \cup {q} ELSE shaky \ {q}
    /\ UNCHANGED request

(* Mutant: the number of tokens is not looked at.                          *)
TwoFactorEnableAnyway(q) ==
    /\ TokenHandler(q)
    /\ ToSwitch(q)
    /\ UNCHANGED <<config, token, auth, firm, passkey, challenge, recovery,
                   freed>>

(* OTPTokenVerify with a valid code - the URI comes with the form, FreeIPA *)
(* is not asked about the token - turns two-factor on for a user who was   *)
(* not OTP only and has one token, whichever it is and whatever its state. *)
OTPTokenVerify(q) ==
    /\ SelfService(q)
    /\ requireMFA /\ ~seenOTP[q]
    /\ \E t \in Tokens : Owned = {t}
    /\ ToSwitch(q)
    /\ UNCHANGED <<config, token, auth, firm, passkey, challenge, recovery,
                   freed>>

(* TwoFactorEnable: the user has a token, active or not.                   *)
TwoFactorEnable(q) ==
    /\ TokenHandler(q)
    /\ Owned # {}
    /\ ToSwitch(q)
    /\ UNCHANGED <<config, token, auth, firm, passkey, challenge, recovery,
                   freed>>

(* FreeIPA stores the authentication type worker q asks for.               *)
StoreAuthTypes(q, type) ==
    /\ exists
    /\ auth' = type
    /\ firm' = (type = "otp" => q \notin shaky)
    /\ freed' = IF queue # 0 /\ type # "otp" THEN freed \cup {queue} ELSE freed

(* SetAuthTypes of either: on an error too the handler just ends.          *)
SwitchToOTP(q) ==
    /\ pc[q] = "switch"
    /\ \/ StoreAuthTypes(q, "otp")
       \/ (faults \/ ~exists) /\ UNCHANGED <<auth, freed, firm>>
    /\ shaky' = shaky \ {q}
    /\ Done(q)
    /\ UNCHANGED <<config, token, passkey, challenge, recovery>>

(* TwoFactorDisable: the server's default applies again.                   *)
TwoFactorDisable(q) ==
    /\ Handler(q, "otp")
    /\ StoreAuthTypes(q, "default")
    /\ Done(q)
    /\ UNCHANGED <<config, token, shaky, passkey, challenge, recovery>>

-----------------------------------------------------------------------------
(* PasskeyBegin: generate a challenge and save it in the session.          *)
PasskeyBegin(q, k) ==
    /\ Handler(q, "passkey")
    /\ k \notin begun
    /\ begun' = begun \cup {k}
    /\ challenge' = k \/ (faults /\ UNCHANGED challenge)
    /\ Done(q)
    /\ UNCHANGED <<config, otp, hasClass, passkeys, spent, raced, failed,
                   removed, recovery, freed>>

(* PasskeyFinish: read the session again, with its challenge.              *)
PasskeyFinish(q) ==
    /\ Handler(q, "passkey")
    /\ challenge # NoChallenge
    /\ copy' = [copy EXCEPT ![q] = challenge]
    /\ raced' = IF \E p \in Workers : pc[p] = "consume" /\ copy[p] = challenge
                  THEN raced \cup {challenge} ELSE raced
    /\ Goto(q, "consume")
    /\ UNCHANGED <<config, otp, hasClass, passkeys, begun, spent, failed,
                   removed, challenge, recovery, freed, seenOTP>>

(* Mutant: a failure to save the session is ignored.                       *)
ConsumeOrNot(q) ==
    /\ pc[q] = "consume"
    /\ challenge' = NoChallenge \/ (faults /\ UNCHANGED challenge)
    /\ Goto(q, "create")
    /\ UNCHANGED <<config, otp, passkey, recovery, freed, request>>

(* "The challenge is single use: stop if consuming it cannot be persisted" *)
Consume(q) ==
    /\ pc[q] = "consume"
    /\ \/ challenge' = NoChallenge /\ Goto(q, "create") /\ UNCHANGED request
       \/ faults /\ Done(q) /\ UNCHANGED challenge
    /\ UNCHANGED <<config, otp, passkey, recovery, freed>>

(* CreateCredential: the authenticator's answer is verified, or refused;   *)
(* a verified one may have a key that passkeyMapping cannot write down.    *)
CreateCredential(q) ==
    /\ pc[q] = "create"
    /\ \/ /\ spent' = [spent EXCEPT ![copy[q]] = Twice(@)]
          /\ \/ Goto(q, "add") /\ UNCHANGED <<request, failed>>
             \/ Done(q) /\ failed' = failed \cup {copy[q]}
       \/ Done(q) /\ UNCHANGED <<spent, failed>>
    /\ UNCHANGED <<config, otp, hasClass, passkeys, begun, raced, removed,
                   challenge, recovery, freed>>

(* A call of addPasskey failed: the registration is given up.              *)
PasskeyFailed(q) ==
    /\ faults \/ ~exists
    /\ failed' = failed \cup {copy[q]}
    /\ Done(q)

(* userAddPasskey: FreeIPA's self-service rule lets the user add the       *)
(* mapping, not the object class (ErrACI).  The first call comes back for  *)
(* the class, an error of the second is final.                             *)
AddPasskey(q) ==
    /\ pc[q] \in {"add", "retry"}
    /\ \/ /\ exists /\ hasClass
          /\ passkeys' = passkeys \cup {copy[q]}
          /\ Done(q)
          /\ UNCHANGED failed
       \/ /\ exists /\ ~hasClass
          /\ IF pc[q] = "add" THEN Goto(q, "class") /\ UNCHANGED request ELSE Done(q)
          /\ UNCHANGED <<passkeys, failed>>
       \/ PasskeyFailed(q) /\ UNCHANGED passkeys
    /\ UNCHANGED <<config, otp, hasClass, begun, spent, raced, removed,
                   challenge, recovery, freed>>

(* Mutant: "no modifications to be performed" is an error as any other.    *)
AddClassOnce(q) ==
    /\ pc[q] = "class"
    /\ \/ /\ exists /\ hasClass' = TRUE
          /\ IF hasClass THEN Done(q) ELSE Goto(q, "retry") /\ UNCHANGED request
          /\ UNCHANGED failed
       \/ PasskeyFailed(q) /\ UNCHANGED hasClass
    /\ UNCHANGED <<config, otp, passkeys, begun, spent, raced, removed,
                   challenge, recovery, freed>>

(* The service account adds the class; that it is there already            *)
(* (ErrEmptyModlist) is no error.                                          *)
AddClass(q) ==
    /\ pc[q] = "class"
    /\ \/ /\ exists
          /\ hasClass' = TRUE
          /\ Goto(q, "retry")
          /\ UNCHANGED <<request, failed>>
       \/ PasskeyFailed(q) /\ UNCHANGED hasClass
    /\ UNCHANGED <<config, otp, passkeys, begun, spent, raced, removed,
                   challenge, recovery, freed>>

PasskeyRemove(q, k) ==
    /\ Handler(q, "passkey")
    /\ k \in passkeys
    /\ passkeys' = passkeys \ {k}
    /\ removed' = removed \cup {k}
    /\ Done(q)
    /\ UNCHANGED <<config, otp, hasClass, begun, spent, raced, failed,
                   challenge, recovery, freed>>

-----------------------------------------------------------------------------
(* OTPRecoveryRequest: a confirmation link is mailed to an OTP-only user.  *)
OTPRecoveryRequest ==
    /\ OTPOnly /\ ~linkOut
    /\ linkOut' = TRUE
    /\ UNCHANGED <<config, otp, passkey, challenge, queue, asked, saw, answers,
                   dropped, wiped, contested, freed, pc, request>>

AtQueue(q) == pc[q] \in {"approve", "approved", "stale"}

(* OTPRecoveryConfirm: the request is queued, once per user; whether the   *)
(* user still is OTP only is not looked at.  A list that cannot be read is *)
(* taken for an empty one and saved back with the new entry alone.         *)
OTPRecoveryConfirm ==
    /\ linkOut /\ linkOut' = FALSE
    /\ \/ /\ queue = 0 \/ faults
          /\ asked < MaxRequests
          /\ asked' = asked + 1
          /\ queue' = asked + 1
          /\ wiped' = wiped \cup ({queue} \ {0})
          /\ contested' = IF \E p \in Workers : AtQueue(p)
                            THEN contested \cup {asked + 1} ELSE contested
          /\ freed' = IF OTPOnly THEN freed ELSE freed \cup {asked + 1}
       \/ /\ queue # 0 \/ faults
          /\ UNCHANGED <<queue, asked, wiped, contested, freed>>
    /\ UNCHANGED <<config, otp, passkey, challenge, saw, answers, dropped, pc,
                   request>>

(* The request goes with the whole list: another user's confirmation could *)
(* not read it, or nobody has saved it for otpRecoveryTTL (30 days).       *)
QueueWiped ==
    /\ queue # 0
    /\ queue' = 0
    /\ wiped' = wiped \cup {queue}
    /\ UNCHANGED <<config, otp, passkey, challenge, linkOut, asked, saw, answers,
                   dropped, contested, freed, pc, request>>

(* An admin request is at the user's recovery request, if there is one     *)
(* still.  That is contested when another one is at it.                    *)
Find(q, step) ==
    /\ saw' = [saw EXCEPT ![q] = queue]
    /\ contested' = IF queue # 0 /\ \E p \in Workers : AtQueue(p) /\ saw[p] = queue
                      THEN contested \cup {queue} ELSE contested
    /\ Goto(q, step)

Answer(n) == answers' = [answers EXCEPT ![n] = Twice(@)]

(* "otprecovery-approve": a request is queued, ...                         *)
Approve(q) ==
    /\ pc[q] = "idle"
    /\ queue # 0
    /\ Find(q, "approve")
    /\ UNCHANGED <<config, otp, passkey, challenge, linkOut, queue, asked,
                   answers, dropped, wiped, freed, request>>

(* ... the account is switched to password only (an error ends it), ...    *)
SwitchToPassword(q) ==
    /\ pc[q] = "approve"
    /\ \/ /\ StoreAuthTypes(q, "password")
          /\ Goto(q, "approved")
          /\ UNCHANGED saw
       \/ /\ faults \/ ~exists
          /\ StoreAuthTypes(q, "password") \/ UNCHANGED <<auth, firm, freed>>
          /\ Goto(q, "idle")
          /\ saw' = [saw EXCEPT ![q] = 0]
    /\ UNCHANGED <<config, token, shaky, passkey, challenge, linkOut, queue,
                   asked, answers, dropped, wiped, contested, request>>

(* Mutant: an approved request stays in the queue.                         *)
FinishApprovalOnly(q) ==
    /\ pc[q] = "approved"
    /\ Answer(saw[q])
    /\ saw' = [saw EXCEPT ![q] = 0]
    /\ Goto(q, "idle")
    /\ UNCHANGED <<config, otp, passkey, challenge, linkOut, queue, asked,
                   dropped, wiped, contested, freed, request>>

(* ... the request removed, whichever of the user's is queued by now - or  *)
(* the list cannot be read or saved and it stays - and the user told.      *)
FinishApproval(q) ==
    /\ pc[q] = "approved"
    /\ \/ queue' = 0 /\ UNCHANGED contested
       \/ faults /\ contested' = contested \cup {saw[q]} /\ UNCHANGED queue
    /\ Answer(saw[q])
    /\ saw' = [saw EXCEPT ![q] = 0]
    /\ Goto(q, "idle")
    /\ UNCHANGED <<config, otp, passkey, challenge, linkOut, asked, dropped,
                   wiped, freed, request>>

(* "otprecovery-deny": what is removed is answered.  A list that cannot be *)
(* read has nothing to remove, one that cannot be saved has.               *)
Deny ==
    /\ queue # 0
    /\ \/ queue' = 0 /\ contested' = contested \cup
                ({saw[p] : p \in {p \in Workers : AtQueue(p)}} \ {0})
       \/ faults /\ contested' = contested \cup {queue} /\ UNCHANGED queue
    /\ Answer(queue)
    /\ UNCHANGED <<config, otp, passkey, challenge, linkOut, asked, saw,
                   dropped, wiped, freed, pc, request>>

(* AdminOTPRecoveryList: the queue is loaded, ...                          *)
AdminOTPRecoveryList(q) ==
    /\ pc[q] = "idle"
    /\ queue # 0
    /\ Goto(q, "look")
    /\ UNCHANGED <<config, otp, passkey, challenge, recovery, freed, request>>

(* ... FreeIPA asked about each user.  One who is gone, or not OTP only    *)
(* any more, needs no recovery; an error keeps the request, ...            *)
ListUserShow(q) ==
    /\ pc[q] = "look"
    /\ \/ ~OTPOnly /\ Find(q, "stale")
       \/ /\ OTPOnly \/ faults
          /\ Goto(q, "idle")
          /\ UNCHANGED <<saw, contested>>
    /\ UNCHANGED <<config, otp, passkey, challenge, linkOut, queue, asked,
                   answers, dropped, wiped, freed, request>>

(* ... and what is queued for such a user is dropped.                      *)
DropStale(q) ==
    /\ pc[q] = "stale"
    /\ \/ queue' = 0 /\ dropped' = dropped \cup ({queue} \ {0})
       \/ faults /\ UNCHANGED <<queue, dropped>>
    /\ saw' = [saw EXCEPT ![q] = 0]
    /\ Goto(q, "idle")
    /\ UNCHANGED <<config, otp, passkey, challenge, linkOut, asked, answers,
                   wiped, contested, freed, request>>

(* The user is deleted in FreeIPA, with tokens and passkeys.               *)
UserVanishes ==
    /\ exists /\ exists' = FALSE
    /\ auth' = "default" /\ firm' = TRUE
    /\ token' = [t \in Tokens |-> "gone"]
    /\ passkeys' = {}
    /\ removed' = removed \cup passkeys
    /\ freed' = freed \cup ({queue} \ {0})
    /\ UNCHANGED <<tab, requireMFA, readonly, shaky, hasClass, begun, spent,
                   raced, failed, challenge, recovery, pc, request>>

-----------------------------------------------------------------------------
Next ==
    \/ \E q \in Workers :
         \/ RequireLogin(q) \/ IsLoggedIn(q) \/ Page(q)
         \/ OTPTokenVerify(q) \/ TwoFactorEnable(q) \/ SwitchToOTP(q)
         \/ TwoFactorDisable(q)
         \/ PasskeyFinish(q) \/ Consume(q) \/ CreateCredential(q)
         \/ AddPasskey(q) \/ AddClass(q)
         \/ Approve(q) \/ SwitchToPassword(q) \/ FinishApproval(q)
         \/ AdminOTPRecoveryList(q) \/ ListUserShow(q) \/ DropStale(q)
    \/ \E q \in Workers, t \in Tokens :
         \/ OTPTokenAdd(q, t) \/ OTPTokenRemove(q, t)
         \/ OTPTokenEnable(q, t) \/ OTPTokenDisable(q, t)
    \/ \E q \in Workers, k \in Challenges :
         PasskeyBegin(q, k) \/ PasskeyRemove(q, k)
    \/ OTPRecoveryRequest \/ OTPRecoveryConfirm \/ QueueWiped \/ Deny
    \/ UserVanishes

Spec == Init /\ [][Next]_vars

-----------------------------------------------------------------------------
(* Types: handlers take the steps of the code, and a request that is not   *)
(* in flight holds nothing.                                                *)
TypeOK ==
    /\ tab \in {"otp", "passkey"}
    /\ requireMFA \in BOOLEAN /\ readonly \in BOOLEAN /\ exists \in BOOLEAN
    /\ token \in [Tokens -> {"new", "on", "off", "gone"}]
    /\ auth \in {"default", "otp", "password"}
    /\ hasClass \in BOOLEAN /\ passkeys \in SUBSET Challenges
    /\ challenge \in Challenges \cup {NoChallenge}
    /\ begun \in SUBSET Challenges
    /\ linkOut \in BOOLEAN /\ queue \in 0..MaxRequests
    /\ pc \in [Workers -> {"idle", "check", "handler", "switch", "consume",
                           "create", "add", "class", "retry", "approve",
                           "approved", "look", "stale"}]
    /\ copy \in [Workers -> Challenges \cup {NoChallenge}]
    /\ seenOTP \in [Workers -> BOOLEAN]
    /\ asked \in 0..MaxRequests
    /\ saw \in [Workers -> 0..MaxRequests]
    /\ answers \in [Requests -> 0..2]
    /\ dropped \in SUBSET Requests /\ freed \in SUBSET Requests
    /\ wiped \in SUBSET Requests /\ contested \in SUBSET Requests
    /\ shaky \in SUBSET Workers /\ firm \in BOOLEAN
    /\ spent \in [Challenges -> 0..2]
    /\ raced \in SUBSET Challenges /\ failed \in SUBSET Challenges
    /\ removed \in SUBSET Challenges
    /\ \A q \in Workers : pc[q] = "idle" => copy[q] = NoChallenge /\ saw[q] = 0

(* Nobody is asked for a code without having an active token, whatever     *)
(* requests run side by side - but for the two ways in that the code       *)
(* leaves open: a token went or was disabled between the listing and the   *)
(* switch, or the tokens listed were all disabled (security.go:131-154,    *)
(* otp.go:214-220).                                                        *)
ActiveTokenBehindOTP == OTPOnly /\ firm => Active # {}

(* "The challenge is single use" (passkey.go:142): two credentials come    *)
(* from one challenge only if two requests read it before either saved the *)
(* session, or another request of the session saved it back.               *)
ChallengeSpentOnce == \A k \in Challenges : spent[k] = 2 => k \in raced

(* A verified passkey ends up in FreeIPA unless its key cannot be written  *)
(* down or a call fails: also when two first passkeys are registered at    *)
(* the same time and both find the object class missing                    *)
(* (ipa_passkey.go:28-42).                                                 *)
VerifiedPasskeyIsStored ==
    \A k \in Challenges :
        spent[k] > 0 =>
            \/ k \in passkeys \cup removed \cup failed
            \/ \E q \in Workers : copy[q] = k /\ pc[q] \in {"add", "class", "retry"}

(* A recovery request stays queued until it gets its one answer, or is     *)
(* dropped by the admin page because the user was gone or not OTP only     *)
(* while it was open, or goes with the whole list - unless two admin       *)
(* requests dealt with it at the same time, or its removal failed          *)
(* (admin.go:286-309, 410-440, otprecovery.go:29-86).                      *)
EachRequestAnsweredOnce ==
    \A n \in Requests : n <= asked /\ n \notin contested =>
        \/ queue = n /\ answers[n] = 0 /\ n \notin dropped
        \/ queue # n /\ answers[n] = 1 /\ n \notin dropped
        \/ queue # n /\ answers[n] = 0 /\ n \in dropped \cap freed
        \/ queue # n /\ answers[n] = 0 /\ n \in wiped \ dropped
=============================================================================
