------------------------------ MODULE Accounts ------------------------------
(***************************************************************************)
(* The life of one username, from signup to approval: server/account.go,   *)
(* server/ipa_stageuser.go and the account actions of server/admin.go.     *)
(* A signup is a disabled account in FreeIPA's active tree or, with        *)
(* accounts.staged_signup, an entry of the staging tree; its user class    *)
(* ("category") says what it waits for.  A username can be used again once *)
(* its registration was denied, by somebody else.                          *)
(*                                                                         *)
(* Every call to FreeIPA is a step of its own.  Workers are requests of    *)
(* visitors and admins; a request may end after any step, because the next *)
(* call fails or the replica dies.  Links stand for verification links;    *)
(* their markers and expiry are the subject of Tokens.tla.                 *)
(***************************************************************************)
EXTENDS Integers

CONSTANTS
    Workers,                \* requests in flight at the same time
    Owners,                 \* people (email addresses) wanting the username
    NoOwner,
    Links,                  \* verification links
    faults                  \* do requests break off between two calls?

ASSUME AccountConstants ==
    /\ NoOwner \notin Owners \cup Links /\ Owners \cap Links = {}
    /\ faults \in BOOLEAN

VARIABLES
    staged_signup,  \* accounts.staged_signup; may be turned on by a restart
    require_admin_verify,   \* accounts.require_admin_verify
    user,           \* the account in the active tree
    stage,          \* the entry in the staging tree
    sentTo, spent,  \* links: whom each was mailed to; marked used
    pc, about,      \* per worker: step, owner or link
    cat, addr,      \* per worker: category and address in the user it read
    proven,         \* ghost: owners of addresses that were proven
    word,           \* ghost: what admins last said about the present account
    spared,         \* ghost: was disabling the new account left out?
    recycled,       \* ghost: was the name taken while somebody else had it,
                    \* or links to it?
    decided,        \* ghost: has an approval been reported as successful?
    halfway         \* ghost: the trees where an approval of the present
                    \* entry stopped halfway or a verification followed it;
                    \* "crossed" when one crosses an approval under way

vars == <<staged_signup, require_admin_verify, user, stage, sentTo, spent, pc,
          about, cat, addr, proven, word, spared, recycled, decided, halfway>>
config == <<staged_signup, require_admin_verify>>
links == <<sentTo, spent>>
ghosts == <<proven, word, spared, recycled, decided, halfway>>

Categories == {"unverified", "pending", "clear"}
NoUser == [owner |-> NoOwner, email |-> NoOwner, locked |-> FALSE,
           category |-> "clear", own |-> FALSE]
NoStage == [owner |-> NoOwner, category |-> "clear"]

InUse == user.owner # NoOwner
Staged == stage.owner # NoOwner

(* AdminPendingList: the registrations that wait for a decision, in the    *)
(* staging tree (stageUserFindPending) and in the active one.              *)
StagePending == Staged /\ stage.category = "pending"
UserPending == InUse /\ user.category = "pending"

(* Can the owner sign in?  (own: the password is the one they chose.)      *)
Usable == InUse /\ ~user.locked /\ user.own

Goto(q, step) == pc' = [pc EXCEPT ![q] = step]
(* The user as read is kept for a later step, or done with.                *)
Read(q) == /\ cat' = [cat EXCEPT ![q] = user.category]
           /\ addr' = [addr EXCEPT ![q] = user.email]
Drop(q) == /\ cat' = [cat EXCEPT ![q] = "clear"]
           /\ addr' = [addr EXCEPT ![q] = NoOwner]

Done(q) == /\ Goto(q, "idle")
           /\ about' = [about EXCEPT ![q] = NoOwner]
           /\ Drop(q)
Stop(q) == Done(q) /\ UNCHANGED <<config, user, stage, links, ghosts>>

Init ==
    /\ staged_signup \in BOOLEAN /\ require_admin_verify \in BOOLEAN
    /\ user = NoUser /\ stage = NoStage
    /\ sentTo = [l \in Links |-> NoOwner] /\ spent = {}
    /\ pc = [q \in Workers |-> "idle"]
    /\ about = [q \in Workers |-> NoOwner]
    /\ cat = [q \in Workers |-> "clear"]
    /\ addr = [q \in Workers |-> NoOwner]
    /\ proven = {} /\ word = "none"
    /\ spared = FALSE /\ recycled = FALSE /\ decided = FALSE
    /\ halfway = {}

-----------------------------------------------------------------------------
(* The username is taken by o, while somebody else has an account of that  *)
(* name, or links to another owner are out or being sent or used.          *)
NameTaken(o) ==
    recycled' = \/ recycled
                \/ InUse /\ user.owner # o
                \/ \E l \in Links \ spent : sentTo[l] \notin {o, NoOwner}
                \/ \E p \in Workers :
                      \/ about[p] \in Owners \ {o}
                      \/ about[p] \in Links /\ sentTo[about[p]] # o

(* What was said about an earlier account of that name is history.         *)
NewAccount(w) ==
    /\ word' = w /\ decided' = FALSE /\ spared' = FALSE
    /\ halfway' = halfway \ {"active"}

(* UserAddWithPassword adds the user with a random password first.  When   *)
(* FreeIPA then rejects the password the account is deleted again; other   *)
(* errors leave it behind.                                                 *)
AddUser(o, category, chosen) ==
    /\ ~InUse
    /\ user' = [owner |-> o, email |-> o, locked |-> FALSE,
                category |-> category, own |-> chosen]
    /\ UNCHANGED <<config, stage, links, cat, addr>>

Begin(q, o, step) == Goto(q, step) /\ about' = [about EXCEPT ![q] = o]

(* AccountCreate without staging: the account starts enabled, ...          *)
AccountCreate(q, o) ==
    /\ ~staged_signup /\ pc[q] = "idle"
    /\ \/ AddUser(o, "unverified", TRUE) /\ Begin(q, o, "disable")
       \/ AddUser(o, "unverified", FALSE) /\ Begin(q, o, "reject")
    /\ NameTaken(o) /\ NewAccount("none")
    /\ UNCHANGED proven

(* ... InviteAccept: ... and stays so when an invitation proved the email  *)
(* address (the invitation is marked used in Tokens.tla).                  *)
InviteAccept(q, o) ==
    /\ pc[q] = "idle"
    /\ \/ AddUser(o, "clear", TRUE) /\ UNCHANGED <<pc, about>>
       \/ AddUser(o, "clear", FALSE) /\ Begin(q, o, "reject")
    /\ NameTaken(o) /\ NewAccount("enable")
    /\ proven' = proven \cup {o}

UserDelete(q) ==
    /\ pc[q] = "reject"
    /\ user' = NoUser
    /\ NewAccount("none")
    /\ Done(q)
    /\ UNCHANGED <<config, stage, links, proven, recycled>>

(* Mutant: the new account is left enabled.                                *)
UserDisableForgotten(q) ==
    /\ pc[q] = "disable"
    /\ Goto(q, "mail")
    /\ UNCHANGED <<config, user, stage, links, about, cat, addr, ghosts>>

(* ... and is disabled next; a failure is only logged.                     *)
UserDisable(q) ==
    /\ pc[q] = "disable"
    /\ Goto(q, "mail")
    /\ \/ InUse /\ user' = [user EXCEPT !.locked = TRUE] /\ UNCHANGED spared
       \/ faults /\ spared' = TRUE /\ UNCHANGED user
    /\ UNCHANGED <<config, stage, links, about, cat, addr, proven, word,
                   recycled, decided, halfway>>

(* stagedAccountCreate: the name must be free in the active tree, and any  *)
(* error of user_show says that it is, ...                                 *)
StagedAccountCreate(q, o) ==
    /\ staged_signup /\ pc[q] = "idle"
    /\ ~InUse \/ faults
    /\ Begin(q, o, "stage")
    /\ UNCHANGED <<config, user, stage, links, cat, addr, ghosts>>

(* ... and in the staging tree.                                            *)
StageUserAdd(q) ==
    /\ pc[q] = "stage"
    /\ \/ /\ Staged /\ Stop(q)
       \/ /\ ~Staged
          /\ stage' = [owner |-> about[q], category |-> "unverified"]
          /\ NameTaken(about[q])
          /\ Goto(q, "mail")
          /\ UNCHANGED <<config, user, links, about, cat, addr, proven, word,
                         spared, decided, halfway>>

(* sendVerifyResendEmail: a link goes out, or not.                         *)
SendAccountVerifyEmail(q, l) ==
    /\ pc[q] = "mail" /\ sentTo[l] = NoOwner
    /\ sentTo' = [sentTo EXCEPT ![l] = about[q]]
    /\ Done(q)
    /\ UNCHANGED <<config, user, stage, spent, ghosts>>

MailFails(q) == pc[q] = "mail" /\ Stop(q)

(* AccountVerifyResend: for unverified registrations only; the staging     *)
(* tree is asked when user_show returns an error.                          *)
AccountVerifyResend(q) ==
    /\ pc[q] = "idle"
    /\ \/ /\ InUse /\ user.category = "unverified"
          /\ user.locked \/ require_admin_verify
          /\ Begin(q, user.email, "mail")
       \/ /\ staged_signup /\ (~InUse \/ faults)
          /\ Staged /\ stage.category = "unverified"
          /\ Begin(q, stage.owner, "mail")
    /\ UNCHANGED <<config, user, stage, links, cat, addr, ghosts>>

-----------------------------------------------------------------------------
(* AccountVerify (POST): the link was mailed and is not used.              *)
AccountVerify(q, l) ==
    /\ pc[q] = "idle" /\ sentTo[l] # NoOwner /\ l \notin spent
    /\ proven' = proven \cup {sentTo[l]}
    /\ Begin(q, l, "verify")
    /\ UNCHANGED <<config, user, stage, links, cat, addr, word, spared,
                   recycled, decided, halfway>>

(* The account is enabled or stays as it is.                               *)
Mark(q) == Goto(q, "mark") /\ Drop(q)

(* Mutant: verification enables the account, approval or not.              *)
VerifyShowEager(q) ==
    /\ pc[q] = "verify"
    /\ \/ /\ InUse
          /\ \/ user.locked /\ Goto(q, "enable") /\ Read(q)
             \/ ~user.locked /\ Mark(q)
          /\ UNCHANGED about
       \/ ~InUse /\ Done(q)
    /\ UNCHANGED <<config, user, stage, links, ghosts>>

(* verifyStagedUser or verifyLegacyUser, by the username of the link: look *)
(* up the registration.  An error of stageuser_show is taken for "not      *)
(* there".                                                                 *)
VerifyShow(q) ==
    /\ pc[q] = "verify"
    /\ \/ /\ staged_signup /\ Staged
          /\ Goto(q, IF ~require_admin_verify THEN "clear"
                       ELSE IF stage.category = "unverified" THEN "pend"
                       ELSE "mark")
          /\ UNCHANGED <<about, cat, addr>>
       \/ /\ ~(staged_signup /\ Staged) \/ faults
          /\ InUse
          /\ \/ /\ user.locked /\ ~require_admin_verify
                /\ Goto(q, "enable") /\ Read(q)
             \/ /\ ~user.locked \/ require_admin_verify
                /\ \/ user.category = "unverified" /\ Goto(q, "modify") /\ Read(q)
                   \/ user.category # "unverified" /\ Mark(q)
          /\ UNCHANGED about
       \/ ~(staged_signup /\ Staged) /\ ~InUse /\ Done(q)
    /\ UNCHANGED <<config, user, stage, links, ghosts>>

(* stageUserSetCategory: a verification marks the entry pending, perhaps   *)
(* between the two calls of an approval; ...                               *)
StageUserPend(q) ==
    /\ pc[q] = "pend"
    /\ \/ ~Staged /\ Stop(q)
       \/ /\ Staged
          /\ stage' = [stage EXCEPT !.category = "pending"]
          /\ Goto(q, "mark")
          /\ halfway' = halfway \cup {t \in {"crossed"} :
                           \E p \in Workers : pc[p] = "approve-activate"}
          /\ UNCHANGED <<config, user, links, about, cat, addr, proven, word,
                         spared, recycled, decided>>

(* ... without approvals, or by an approval, its category is cleared.      *)
StageUserClear(q) ==
    /\ pc[q] \in {"clear", "approve-clear"}
    /\ \/ ~Staged /\ Stop(q)
       \/ /\ Staged
          /\ stage' = [stage EXCEPT !.category = "clear"]
          /\ Goto(q, IF pc[q] = "clear" THEN "activate" ELSE "approve-activate")
          /\ halfway' = halfway \ {"crossed"}
          /\ UNCHANGED <<config, user, links, about, cat, addr, proven, word,
                         spared, recycled, decided>>

(* stageUserActivate moves the entry to the active tree, if the name is    *)
(* free there.                                                             *)
StageUserActivate(q) ==
    /\ pc[q] \in {"activate", "approve-activate"}
    /\ \/ /\ ~Staged \/ InUse
          /\ Done(q)
          /\ halfway' = IF Staged THEN halfway \cup {"staging"} ELSE halfway
          /\ UNCHANGED <<config, user, stage, links, proven, word, spared,
                         recycled, decided>>
       \/ /\ Staged /\ ~InUse
          /\ user' = [owner |-> stage.owner, email |-> stage.owner,
                      locked |-> FALSE, category |-> stage.category,
                      own |-> TRUE]
          /\ stage' = NoStage /\ spared' = FALSE
          /\ \/ /\ pc[q] = "activate"
                /\ word' = "none" /\ decided' = FALSE
                /\ halfway' = {}
                /\ Goto(q, "mark") /\ UNCHANGED <<about, cat, addr>>
             \/ /\ pc[q] = "approve-activate"
                /\ word' = "enable" /\ decided' = TRUE
                /\ halfway' = {t \in {"active"} : "crossed" \in halfway}
                /\ Done(q)
          /\ UNCHANGED <<config, links, proven, recycled>>

(* UserEnable in verifyLegacyUser; an account that is enabled already is   *)
(* an error.                                                               *)
VerifyEnable(q) ==
    /\ pc[q] = "enable"
    /\ \/ (~InUse \/ ~user.locked) /\ Stop(q)
       \/ /\ InUse /\ user.locked
          /\ user' = [user EXCEPT !.locked = FALSE]
          /\ \/ /\ cat[q] = "unverified" /\ Goto(q, "modify")
                /\ UNCHANGED <<cat, addr>>
             \/ cat[q] # "unverified" /\ Mark(q)
          /\ UNCHANGED <<config, stage, links, about, ghosts>>

(* UserMod writes the user that was read, its address and the rest of the  *)
(* profile, with a new category; neither the lock nor the password.        *)
UserMod(q, category) ==
    user' = [user EXCEPT !.email = addr[q], !.category = category]

(* UserMod in verifyLegacyUser, decided on the category read before.       *)
VerifyModify(q) ==
    /\ pc[q] = "modify"
    /\ \/ ~InUse /\ Stop(q)
       \/ /\ InUse
          /\ UserMod(q, IF require_admin_verify THEN "pending" ELSE "clear")
          /\ Mark(q)
          /\ halfway' = IF decided THEN halfway \cup {"active"} ELSE halfway
          /\ UNCHANGED <<config, stage, links, about, proven, word, spared,
                         recycled, decided>>

(* finishAccountVerify marks the link used.                                *)
FinishAccountVerify(q) ==
    /\ pc[q] = "mark"
    /\ spent' = spent \cup {about[q]}
    /\ Done(q)
    /\ UNCHANGED <<config, user, stage, sentTo, ghosts>>

-----------------------------------------------------------------------------
(* AdminUserAction: block and unblock; being so already is no error.       *)
Block ==
    /\ InUse
    /\ user' = [user EXCEPT !.locked = TRUE] /\ word' = "block"
    /\ UNCHANGED <<config, stage, links, pc, about, cat, addr, proven, spared,
                   recycled, decided, halfway>>

Unblock ==
    /\ InUse
    /\ user' = [user EXCEPT !.locked = FALSE] /\ word' = "enable"
    /\ UNCHANGED <<config, stage, links, pc, about, cat, addr, proven, spared,
                   recycled, decided, halfway>>

(* approve and deny: the registration must be pending ...                  *)
Decide(q, onStage, onUser) ==
    /\ pc[q] = "idle"
    /\ \/ /\ staged_signup /\ StagePending
          /\ Goto(q, onStage)
          /\ UNCHANGED addr
       \/ /\ ~(staged_signup /\ Staged) \/ faults
          /\ UserPending
          /\ Goto(q, onUser)
          /\ addr' = [addr EXCEPT ![q] = user.email]
    /\ UNCHANGED <<config, user, stage, links, about, cat, ghosts>>

(* Mutant: the pending marker is copied over by the activation.            *)
ApproveUncleared(q) == Decide(q, "approve-activate", "approve-enable")

Approve(q) == Decide(q, "approve-clear", "approve-enable")
Deny(q) == Decide(q, "deny-stage", "deny-user")

(* ... approve enables the account; if it is enabled already FreeIPA's     *)
(* error skips the rest and is reported as success.                        *)
ApproveEnable(q) ==
    /\ pc[q] = "approve-enable"
    /\ \/ ~InUse /\ Stop(q)
       \/ /\ InUse /\ user.locked
          /\ user' = [user EXCEPT !.locked = FALSE]
          /\ word' = "enable"
          /\ Goto(q, "approve-modify")
          /\ UNCHANGED <<config, stage, links, about, cat, addr, proven, spared,
                         recycled, decided, halfway>>
       \/ /\ InUse /\ ~user.locked
          /\ decided' = TRUE /\ halfway' = halfway \cup {"active"}
          /\ Done(q)
          /\ UNCHANGED <<config, user, stage, links, proven, word, spared,
                         recycled>>

(* ... and clears its category.                                            *)
ApproveModify(q) ==
    /\ pc[q] = "approve-modify"
    /\ \/ ~InUse /\ Stop(q)
       \/ /\ InUse
          /\ UserMod(q, "clear")
          /\ decided' = TRUE
          /\ Done(q)
          /\ UNCHANGED <<config, stage, links, proven, word, spared, recycled,
                         halfway>>

(* deny deletes it.                                                        *)
DenyDelete(q) ==
    /\ \/ /\ pc[q] = "deny-stage" /\ stage' = NoStage
          /\ halfway' = halfway \ {"staging", "crossed"}
          /\ UNCHANGED <<user, word, spared, decided>>
       \/ /\ pc[q] = "deny-user" /\ user' = NoUser
          /\ NewAccount("none")
          /\ UNCHANGED stage
    /\ Done(q)
    /\ UNCHANGED <<config, links, proven, recycled>>

(* The next call fails or the replica dies: the request ends here.         *)
BreakOff(q) ==
    /\ faults /\ pc[q] \notin {"idle", "mail"}
    /\ Done(q)
    /\ spared' = (spared \/ pc[q] = "disable")
    /\ halfway' = IF pc[q] = "approve-activate" /\ Staged
                    THEN halfway \cup {"staging"} ELSE halfway
    /\ UNCHANGED <<config, user, stage, links, proven, word, recycled,
                   decided>>

(* A restart with staged_signup turned on.                                 *)
TurnOnStaging ==
    /\ ~staged_signup /\ \A q \in Workers : pc[q] = "idle"
    /\ staged_signup' = TRUE
    /\ UNCHANGED <<require_admin_verify, user, stage, links, pc, about, cat,
                   addr, ghosts>>

Step(q) ==
    \/ UserDelete(q) \/ UserDisable(q) \/ StageUserAdd(q)
    \/ MailFails(q) \/ AccountVerifyResend(q) \/ VerifyShow(q)
    \/ StageUserPend(q) \/ StageUserClear(q) \/ StageUserActivate(q)
    \/ VerifyEnable(q) \/ VerifyModify(q) \/ FinishAccountVerify(q)
    \/ Approve(q) \/ Deny(q)
    \/ ApproveEnable(q) \/ ApproveModify(q) \/ DenyDelete(q) \/ BreakOff(q)
    \/ \E o \in Owners :
         AccountCreate(q, o) \/ InviteAccept(q, o) \/ StagedAccountCreate(q, o)
    \/ \E l \in Links :
         SendAccountVerifyEmail(q, l) \/ AccountVerify(q, l)

Next == (\E q \in Workers : Step(q)) \/ Block \/ Unblock \/ TurnOnStaging

Spec == Init /\ [][Next]_vars

-----------------------------------------------------------------------------
(* Types: categories are those of const.go, links are spent as links, and  *)
(* requests are at a step of one of the handlers.                          *)
TypeOK ==
    /\ staged_signup \in BOOLEAN /\ require_admin_verify \in BOOLEAN
    /\ user \in [owner : Owners \cup {NoOwner}, email : Owners \cup {NoOwner},
                 locked : BOOLEAN, category : Categories, own : BOOLEAN]
    /\ stage \in [owner : Owners \cup {NoOwner}, category : Categories]
    /\ sentTo \in [Links -> Owners \cup {NoOwner}] /\ spent \in SUBSET Links
    /\ pc \in [Workers -> {"idle", "disable", "reject", "stage",
                 "mail", "verify", "pend", "clear", "activate", "enable",
                 "modify", "mark", "approve-clear", "approve-activate",
                 "approve-enable", "approve-modify", "deny-stage", "deny-user"}]
    /\ about \in [Workers -> Owners \cup Links \cup {NoOwner}]
    /\ cat \in [Workers -> Categories]
    /\ addr \in [Workers -> Owners \cup {NoOwner}]
    /\ proven \in SUBSET Owners /\ word \in {"none", "enable", "block"}
    /\ spared \in BOOLEAN /\ recycled \in BOOLEAN /\ decided \in BOOLEAN
    /\ halfway \in SUBSET {"active", "staging", "crossed"}

(* A signup is being created and about to be disabled.                     *)
BeingDisabled == \E q \in Workers : pc[q] = "disable"

(* "Disable new users until they have verified their email address"        *)
(* (account.go:271): nobody signs in to an account whose owner has not     *)
(* proven the address, or whose address is nobody's who has, unless an     *)
(* admin enabled it, disabling it failed, or the name was taken while      *)
(* somebody else had it or links to it (as when a failed lookup passes for *)
(* a free name, account.go:290) - however verifications, approvals,        *)
(* blocks, broken-off requests and late writes of what was read before     *)
(* are interleaved.                                                        *)
UsableOnlyIfProven ==
    Usable => \/ {user.owner, user.email} \subseteq proven
              \/ word = "enable" \/ BeingDisabled \/ spared \/ recycled

(* "After email verification the account stays locked until an admin       *)
(* approves it" (docs/guides/signup.md:31): with require_admin_verify no   *)
(* link, resend, retry or staged signup makes an account usable on which   *)
(* the last word of an admin was not to enable it.                         *)
UsableOnlyIfApproved ==
    require_admin_verify /\ Usable => word = "enable" \/ BeingDisabled \/ spared

(* The queue of pending registrations (docs/guides/signup.md:56-57) tells  *)
(* the truth but for approvals that stopped halfway: a verified staged     *)
(* registration stays in it while it is not being activated, and an        *)
(* account whose approval was reported has left it, whatever denials, new  *)
(* signups of the name and further links come in between (admin.go:229-233 *)
(* and 250-256).                                                           *)
QueueTellsTheTruth ==
    require_admin_verify =>
      /\ Staged /\ stage.category = "clear" =>
            \/ "staging" \in halfway
            \/ \E q \in Workers : pc[q] = "approve-activate"
      /\ InUse /\ decided => ~UserPending \/ "active" \in halfway

-----------------------------------------------------------------------------
(* What docs and comments say and the code does not keep; the README tells *)
(* how each statement fails.                                               *)

(* "verifyLegacyUser finishes email verification for a disabled-until-     *)
(* verified signup" (account.go:375-376): what it enables is unverified.   *)
EnablesOnlyUnverified ==
    [][\A q \in Workers :
         VerifyEnable(q) /\ user # user' => user.category = "unverified"]_vars

(* "Email is verified: clear the category, or mark the account pending     *)
(* admin approval" (account.go:400-401): a registration leaves             *)
(* "unverified" only when its own owner's address was proven.              *)
VerifiedMeansProven ==
    /\ InUse /\ user.category # "unverified" => user.owner \in proven
    /\ Staged /\ stage.category # "unverified" => stage.owner \in proven

(* "The admin panel's Pending approval queue shows verified registrations  *)
(* waiting for a decision" (docs/guides/signup.md:56-57): what was         *)
(* approved is not in it ...                                               *)
ApprovedLeavesQueue == InUse /\ decided => ~UserPending

(* ... and what is verified and not activated is.                          *)
VerifiedIsInQueue ==
    /\ require_admin_verify /\ Staged /\ stage.category # "unverified"
    /\ \A q \in Workers : pc[q] = "idle"
    => StagePending
=============================================================================
