--------------------------- MODULE AccountsProofs ---------------------------
(***************************************************************************)
(* Registration, verification and approval, for any number of concurrent   *)
(* requests, owners and links, with and without staged signups and admin   *)
(* approval.                                                               *)
(*                                                                         *)
(* The three safety invariants follow from TypeInv and AccountInv:         *)
(*                                                                         *)
(*   AboutInv  a signup knows its owner, and a verification its link,      *)
(*             whose address is thereby proven;                            *)
(*   RoadInv   with admin approval no request is at a step that makes an   *)
(*             account usable on its own, and without it none is at a step *)
(*             of a decision;                                              *)
(*   TreeInv   without approval, an unverified account beside a staged one *)
(*             of the same name belongs to the same owner;                 *)
(*   ClaimInv  without approval and as long as the name was not taken from *)
(*             anybody, every link and request that can still prove an     *)
(*             address for an account nobody has proven is its own         *)
(*             owner's;                                                    *)
(*   EmailInv  under the same conditions, the address of a proven account  *)
(*             is proven, and so is the one a request is about to write    *)
(*             back;                                                       *)
(*   CrossInv  a staged entry that is pending while its approval is under  *)
(*             way became so by a verification that crossed the approval.  *)
(*                                                                         *)
(* UsableOnlyIfApproved needs RoadInv only; UsableOnlyIfProven needs all   *)
(* but CrossInv; QueueTellsTheTruth needs RoadInv and CrossInv.            *)
(***************************************************************************)
EXTENDS Accounts, TLAPS

(* Steps of a signup, and of a verification.                               *)
SigningUp(q) == pc[q] \in {"disable", "reject", "stage", "mail"}
Verifying(q) == pc[q] \in {"verify", "pend", "clear", "activate", "enable",
                           "modify", "mark"}

(* What a request is about.                                                *)
AboutInv ==
    \A q \in Workers :
      /\ SigningUp(q) => about[q] \in Owners
      /\ Verifying(q) => about[q] \in Links /\ sentTo[about[q]] \in proven

(* The types, inductively.                                                 *)
TypeInv == TypeOK /\ AboutInv

(* TypeOK by groups of variables.                                          *)
FlagType ==
    /\ staged_signup \in BOOLEAN /\ require_admin_verify \in BOOLEAN
    /\ spared \in BOOLEAN /\ recycled \in BOOLEAN /\ decided \in BOOLEAN
UserType ==
    user \in [owner : Owners \cup {NoOwner}, email : Owners \cup {NoOwner},
              locked : BOOLEAN, category : Categories, own : BOOLEAN]
StageType == stage \in [owner : Owners \cup {NoOwner}, category : Categories]
LinkType ==
    /\ sentTo \in [Links -> Owners \cup {NoOwner}] /\ spent \in SUBSET Links
    /\ proven \in SUBSET Owners /\ word \in {"none", "enable", "block"}
    /\ halfway \in SUBSET {"active", "staging", "crossed"}
StepType ==
    /\ pc \in [Workers -> {"idle", "disable", "reject", "stage",
            "mail", "verify", "pend", "clear", "activate", "enable",
            "modify", "mark", "approve-clear", "approve-activate",
            "approve-enable", "approve-modify", "deny-stage", "deny-user"}]
    /\ about \in [Workers -> Owners \cup Links \cup {NoOwner}]
    /\ cat \in [Workers -> Categories]
    /\ addr \in [Workers -> Owners \cup {NoOwner}]

(* Which steps there are with require_admin_verify, and which without.     *)
RoadInv ==
    IF require_admin_verify
      THEN \A q \in Workers : pc[q] \notin {"clear", "activate", "enable"}
      ELSE /\ \A q \in Workers :
                pc[q] \notin {"pend", "approve-clear", "approve-activate",
                              "approve-enable", "approve-modify", "deny-stage",
                              "deny-user"}
           /\ user.category # "pending" /\ stage.category # "pending"

(* Nobody but the owner can have the address proven.                       *)
Unsure == ~require_admin_verify /\ ~recycled
(* c has a link, or a request under way that creates or follows one.       *)
Claims(c) ==
    \/ \E l \in Links \ spent : sentTo[l] = c /\ c # NoOwner
    \/ \E q \in Workers : pc[q] \in {"disable", "mail"} /\ about[q] = c
    \/ \E q \in Workers : Verifying(q) /\ sentTo[about[q]] = c
(* The name is staged, or about to be.                                     *)
Staging == Staged \/ \E q \in Workers : pc[q] = "stage"

(* An account nobody has proven belongs to whoever has claims to it.       *)
ClaimInv ==
    Unsure =>
      /\ InUse /\ user.owner \notin proven =>
           /\ Staged => stage.owner = user.owner
           /\ \A c \in Owners : Claims(c) => c = user.owner
      /\ Staged /\ stage.owner \notin proven =>
           \A c \in Owners : Claims(c) => c = stage.owner

(* The active and the staged entry of a name, side by side.                *)
TreeInv ==
    ~require_admin_verify =>
      /\ Staging => staged_signup
      /\ Staged /\ InUse /\ user.category = "unverified" =>
           recycled \/ user.owner = stage.owner

(* Addresses, in the account and in what requests have read of it.         *)
EmailInv ==
    /\ InUse /\ user.category = "unverified" => user.email = user.owner
    /\ Unsure =>
         /\ InUse => user.email \in proven \cup {user.owner}
         /\ \A q \in Workers : pc[q] \in {"enable", "modify"} => addr[q] \in proven

(* A verification between the two calls of an approval.                    *)
CrossInv ==
    Staged /\ stage.category = "pending"
      /\ (\E q \in Workers : pc[q] = "approve-activate")
    => "crossed" \in halfway

(* The inductive invariant.                                                *)
AccountInv == /\ RoadInv /\ TreeInv /\ ClaimInv /\ EmailInv /\ CrossInv
              /\ UsableOnlyIfApproved /\ UsableOnlyIfProven
              /\ QueueTellsTheTruth
-----------------------------------------------------------------------------
(* A signup that is staged takes a free name.                              *)
LEMMA StageUserAddFacts ==
  ASSUME TypeInv, NEW q \in Workers, StageUserAdd(q), ~Staged
  PROVE  /\ stage' = [owner |-> about[q], category |-> "unverified"]
         /\ stage'.owner = about[q] /\ stage'.category = "unverified"
         /\ about[q] \in Owners
         /\ pc[q] = "stage" /\ pc' = [pc EXCEPT ![q] = "mail"]
         /\ UNCHANGED <<staged_signup, require_admin_verify, user, sentTo,
                         spent, about, cat, addr, proven, word, spared,
                         decided, halfway>>
         /\ recycled' \in BOOLEAN
         /\ ~recycled' =>
              /\ ~recycled
              /\ InUse => user.owner = about[q]
              /\ \A l \in Links \ spent : sentTo[l] \in {about[q], NoOwner}
              /\ \A p \in Workers :
                   /\ about[p] \in Owners => about[p] = about[q]
                   /\ about[p] \in Links => sentTo[about[p]] = about[q]
  <1>1. /\ stage' = [owner |-> about[q], category |-> "unverified"]
        /\ pc[q] = "stage" /\ pc' = [pc EXCEPT ![q] = "mail"]
        /\ UNCHANGED <<staged_signup, require_admin_verify, user, sentTo,
                        spent, about, cat, addr, proven, word, spared,
                        decided, halfway>>
    BY DEF StageUserAdd, Goto, config, links
  <1>2. about[q] \in Owners
    BY <1>1 DEF TypeInv, AboutInv, SigningUp
  <1>3. NameTaken(about[q])
    BY DEF StageUserAdd
  <1>4. recycled' \in BOOLEAN
    BY <1>3 DEF NameTaken
  <1>5. ASSUME ~recycled'
        PROVE  /\ ~recycled
               /\ InUse => user.owner = about[q]
               /\ \A l \in Links \ spent : sentTo[l] \in {about[q], NoOwner}
               /\ \A p \in Workers :
                    /\ about[p] \in Owners => about[p] = about[q]
                    /\ about[p] \in Links => sentTo[about[p]] = about[q]
    BY <1>3, <1>5 DEF NameTaken
  <1> QED
    BY <1>1, <1>2, <1>4, <1>5

(* The empty entries are entries.                                          *)
LEMMA NoEntries ==
  /\ NoUser \in [owner : Owners \cup {NoOwner}, email : Owners \cup {NoOwner},
                 locked : BOOLEAN, category : Categories, own : BOOLEAN]
  /\ NoStage \in [owner : Owners \cup {NoOwner}, category : Categories]
  BY DEF NoUser, NoStage, Categories

(* Activation moves the staged entry over, or changes nothing but the note *)
(* that it failed.                                                         *)
LEMMA StageUserActivateFacts ==
  ASSUME TypeInv, NEW q \in Workers, StageUserActivate(q)
  PROVE  /\ UNCHANGED require_admin_verify
         /\ \A p \in Workers : pc[p] = "disable" => pc'[p] = "disable"
         /\ \/ /\ UNCHANGED <<user, stage, word, spared, decided>>
               /\ halfway' = IF Staged THEN halfway \cup {"staging"} ELSE halfway
            \/ /\ Staged /\ ~InUse /\ stage' = NoStage
               /\ user' = [owner |-> stage.owner, email |-> stage.owner,
                           locked |-> FALSE, category |-> stage.category,
                           own |-> TRUE]
               /\ user'.category = stage.category
               /\ pc[q] \in {"activate", "approve-activate"}
               /\ pc[q] = "approve-activate" =>
                    /\ word' = "enable"
                    /\ "crossed" \in halfway => "active" \in halfway'
  BY DEF StageUserActivate, NewAccount, Goto, Done, Drop, config, TypeInv,
     TypeOK

(* UserMod changes the address and the category.                           *)
LEMMA UserModFacts ==
  ASSUME TypeInv, NEW q \in Workers, NEW c \in Categories, UserMod(q, c)
  PROVE  /\ UserType'
         /\ user'.owner = user.owner /\ user'.locked = user.locked
         /\ user'.own = user.own
         /\ user'.category = c /\ user'.email = addr[q]
  BY DEF UserMod, UserType, TypeInv, TypeOK

(* A verification writes the user it read, or finds no account.            *)
LEMMA VerifyModifyFacts ==
  ASSUME TypeInv, NEW q \in Workers, VerifyModify(q)
  PROVE  /\ pc[q] = "modify" /\ UserType'
         /\ UNCHANGED <<staged_signup, require_admin_verify, stage, sentTo,
                        spent, proven, word, spared, recycled, decided>>
         /\ cat' = [cat EXCEPT ![q] = "clear"]
         /\ addr' = [addr EXCEPT ![q] = NoOwner]
         /\ user'.owner = user.owner /\ user'.locked = user.locked
         /\ user'.own = user.own
         /\ \/ /\ ~InUse /\ UNCHANGED <<user, halfway>>
               /\ pc' = [pc EXCEPT ![q] = "idle"]
               /\ about' = [about EXCEPT ![q] = NoOwner]
            \/ /\ InUse /\ user'.email = addr[q]
               /\ user'.category =
                    IF require_admin_verify THEN "pending" ELSE "clear"
               /\ pc' = [pc EXCEPT ![q] = "mark"] /\ about' = about
               /\ halfway' = IF decided THEN halfway \cup {"active"} ELSE halfway
  <1>1. CASE ~InUse
    BY <1>1 DEF VerifyModify, Stop, Done, Drop, Goto, config, links, ghosts,
       UserType, TypeInv, TypeOK
  <1>2. CASE InUse
    <2>1. /\ UserMod(q, IF require_admin_verify THEN "pending" ELSE "clear")
          /\ Mark(q) /\ pc[q] = "modify"
          /\ halfway' = IF decided THEN halfway \cup {"active"} ELSE halfway
          /\ UNCHANGED <<config, stage, links, about, proven, word, spared,
                         recycled, decided>>
      BY <1>2 DEF VerifyModify, Stop, Done, Drop, Goto
    <2>2. (IF require_admin_verify THEN "pending" ELSE "clear") \in Categories
      BY DEF Categories
    <2> QED
      BY <1>2, <2>1, <2>2, UserModFacts DEF Mark, Goto, Drop, config, links
  <1> QED
    BY <1>1, <1>2

(* The types are inductive.                                                *)
LEMMA TypeStep ==
  ASSUME TypeInv, EmailInv, [Next]_vars
  PROVE  TypeInv'
  <1>1. ASSUME NEW q \in Workers, UserDelete(q) PROVE TypeInv'
    BY <1>1, AccountConstants DEF UserDelete, NewAccount, Done, Drop, Goto,
       config, links, ghosts, NoUser, TypeInv, TypeOK, AboutInv, SigningUp,
       Verifying, Categories
  <1>2. ASSUME NEW q \in Workers, StageUserPend(q) PROVE TypeInv'
    <2>1. FlagType'
      BY <1>2 DEF TypeInv, TypeOK, StageUserPend, Goto, Stop, Done, Drop,
         Staged, config, links, ghosts, FlagType
    <2>2. UserType'
      BY <1>2 DEF TypeInv, TypeOK, AboutInv, SigningUp, Categories,
         StageUserPend, Goto, Stop, Done, Drop, Staged, config, links, ghosts,
         UserType
    <2>3. StageType'
      BY <1>2 DEF TypeInv, TypeOK, AboutInv, SigningUp, Categories,
         StageUserPend, Goto, Stop, Done, Drop, Staged, config, links, ghosts,
         StageType
    <2>4. LinkType'
      BY <1>2 DEF TypeInv, TypeOK, StageUserPend, Goto, Stop, Done, Drop,
         Staged, config, links, ghosts, LinkType
    <2>5. StepType'
      BY <1>2 DEF TypeInv, TypeOK, Categories, StageUserPend, Goto, Stop,
         Done, Drop, Staged, config, links, ghosts, StepType
    <2>6. AboutInv'
      BY <1>2 DEF TypeInv, TypeOK, AboutInv, SigningUp, Verifying,
         StageUserPend, Goto, Stop, Done, Drop, Staged, config, links, ghosts
    <2> QED
      BY <2>1, <2>2, <2>3, <2>4, <2>5, <2>6 DEF TypeInv, TypeOK, FlagType,
         UserType, StageType, LinkType, StepType
  <1>3. ASSUME NEW q \in Workers, UserDisable(q) PROVE TypeInv'
    <2>1. FlagType'
      BY <1>3 DEF TypeInv, TypeOK, UserDisable, Goto, InUse, config, links,
         FlagType
    <2>2. UserType'
      BY <1>3 DEF TypeInv, TypeOK, AboutInv, SigningUp, Categories,
         UserDisable, Goto, InUse, config, links, UserType
    <2>3. StageType'
      BY <1>3 DEF TypeInv, TypeOK, AboutInv, SigningUp, Categories,
         UserDisable, Goto, InUse, config, links, StageType
    <2>4. LinkType'
      BY <1>3 DEF TypeInv, TypeOK, UserDisable, Goto, InUse, config, links,
         LinkType
    <2>5. StepType'
      BY <1>3 DEF TypeInv, TypeOK, Categories, UserDisable, Goto, InUse,
         config, links, StepType
    <2>6. AboutInv'
      BY <1>3 DEF TypeInv, TypeOK, AboutInv, SigningUp, Verifying,
         UserDisable, Goto, InUse, config, links
    <2> QED
      BY <2>1, <2>2, <2>3, <2>4, <2>5, <2>6 DEF TypeInv, TypeOK, FlagType,
         UserType, StageType, LinkType, StepType
  <1>4. ASSUME NEW q \in Workers, StageUserAdd(q) PROVE TypeInv'
    <2>1. CASE Staged
      <3>1. Stop(q)
        BY <1>4, <2>1 DEF StageUserAdd, FlagType
      <3>2. /\ UNCHANGED <<config, user, stage, links, ghosts>>
            /\ pc' = [pc EXCEPT ![q] = "idle"]
            /\ about' = [about EXCEPT ![q] = NoOwner]
            /\ cat' = [cat EXCEPT ![q] = "clear"]
            /\ addr' = [addr EXCEPT ![q] = NoOwner]
        BY <3>1 DEF Stop, Done, Drop, Goto
      <3>3. TypeOK'
        BY <3>2 DEF TypeInv, TypeOK, Categories, config, links, ghosts
      <3>4. AboutInv'
        BY <3>2 DEF TypeInv, TypeOK, AboutInv, SigningUp, Verifying, links,
           ghosts
      <3> QED
        BY <3>3, <3>4 DEF TypeInv
    <2>2. CASE ~Staged
      <3>1. StageType'
        BY <1>4, <2>2, StageUserAddFacts DEF Categories, UserType, StageType
      <3>2. recycled' \in BOOLEAN
        BY <1>4, <2>2, StageUserAddFacts DEF TypeInv, TypeOK, UserType
      <3>3. StepType'
        BY <1>4, <2>2, StageUserAddFacts DEF TypeInv, TypeOK, StepType
      <3>4. FlagType' /\ LinkType' /\ UserType'
        BY <1>4, <2>2, <3>2, StageUserAddFacts
           DEF TypeInv, TypeOK, FlagType, LinkType, UserType
      <3>5. TypeOK'
        BY <3>1, <3>3, <3>4 DEF TypeOK, FlagType, LinkType, UserType,
           StageType, StepType
      <3>6. AboutInv'
        BY <1>4, <2>2, StageUserAddFacts DEF TypeInv, TypeOK, AboutInv,
           SigningUp, Verifying, UserType
      <3> QED
        BY <3>6, <3>5 DEF TypeInv
    <2> QED
      BY <2>1, <2>2
  <1>5. ASSUME NEW q \in Workers, MailFails(q) PROVE TypeInv'
    BY <1>5, AccountConstants DEF MailFails, Stop, Done, Drop, Goto,
       config, links, ghosts, TypeInv, TypeOK, AboutInv, SigningUp, Verifying,
       Categories
  <1>6. ASSUME NEW q \in Workers, AccountVerifyResend(q) PROVE TypeInv'
    <2>1. \/ Begin(q, user.email, "mail") /\ InUse /\ user.category = "unverified"
          \/ Begin(q, stage.owner, "mail") /\ Staged
      BY <1>6 DEF AccountVerifyResend
    <2>2. PICK o \in Owners : Begin(q, o, "mail")
      BY <2>1 DEF EmailInv, InUse, Staged, TypeInv, TypeOK
    <2>3. UNCHANGED <<config, user, stage, links, cat, addr, ghosts>>
      BY <1>6 DEF AccountVerifyResend
    <2>4. TypeOK'
      BY <2>3, <2>2 DEF Begin, Goto, config, links, ghosts, TypeInv, TypeOK
    <2>5. AboutInv'
      BY <2>3, <2>2 DEF Begin, Goto, links, ghosts, TypeInv, TypeOK,
         AboutInv, SigningUp, Verifying
    <2> QED
      BY <2>4, <2>5 DEF TypeInv
  <1>7. ASSUME NEW q \in Workers, VerifyShow(q) PROVE TypeInv'
    BY <1>7, AccountConstants DEF VerifyShow, Goto, Done, Drop, InUse,
       Staged, Read, Mark, config, links, ghosts, TypeInv, TypeOK, AboutInv,
       SigningUp, Verifying, Categories
  <1>8. ASSUME NEW q \in Workers, StageUserClear(q) PROVE TypeInv'
    <2>1. FlagType'
      BY <1>8 DEF TypeInv, TypeOK, StageUserClear, Goto, Stop, Done, Drop,
         Staged, config, links, ghosts, FlagType
    <2>2. UserType'
      BY <1>8 DEF TypeInv, TypeOK, AboutInv, SigningUp, Categories,
         StageUserClear, Goto, Stop, Done, Drop, Staged, config, links,
         ghosts, UserType
    <2>3. StageType'
      BY <1>8 DEF TypeInv, TypeOK, AboutInv, SigningUp, Categories,
         StageUserClear, Goto, Stop, Done, Drop, Staged, config, links,
         ghosts, StageType
    <2>4. LinkType'
      BY <1>8 DEF TypeInv, TypeOK, StageUserClear, Goto, Stop, Done, Drop,
         Staged, config, links, ghosts, LinkType
    <2>5. StepType'
      BY <1>8 DEF TypeInv, TypeOK, Categories, StageUserClear, Goto, Stop,
         Done, Drop, Staged, config, links, ghosts, StepType
    <2>6. AboutInv'
      BY <1>8 DEF TypeInv, TypeOK, AboutInv, SigningUp, Verifying,
         StageUserClear, Goto, Stop, Done, Drop, Staged, config, links, ghosts
    <2> QED
      BY <2>1, <2>2, <2>3, <2>4, <2>5, <2>6 DEF TypeInv, TypeOK, FlagType,
         UserType, StageType, LinkType, StepType
  <1>9. ASSUME NEW q \in Workers, StageUserActivate(q) PROVE TypeInv'
    <2>1. FlagType'
      BY <1>9 DEF TypeInv, TypeOK, StageUserActivate, Goto, Done, Drop,
         Staged, InUse, NewAccount, NoStage, config, links, FlagType
    <2>2. UserType'
      <3>1. /\ stage.owner \in Owners \cup {NoOwner}
            /\ stage.category \in Categories
        BY DEF TypeInv, TypeOK, UserType
      <3>2. CASE user' = user
        BY <3>2 DEF TypeInv, TypeOK, UserType
      <3>3. CASE user' = [owner |-> stage.owner, email |-> stage.owner,
                          locked |-> FALSE, category |-> stage.category,
                          own |-> TRUE]
        BY <3>1, <3>3 DEF UserType, StageType
      <3> QED
        BY <1>9, <3>2, <3>3, StageUserActivateFacts
           DEF UserType
    <2>3. StageType'
      BY <1>9, StageUserActivateFacts, NoEntries DEF TypeInv, TypeOK, StageType
    <2>4. LinkType'
      BY <1>9 DEF TypeInv, TypeOK, StageUserActivate, Goto, Done, Drop,
         Staged, InUse, NewAccount, NoStage, config, links, LinkType
    <2>5. StepType'
      BY <1>9 DEF TypeInv, TypeOK, Categories, StageUserActivate, Goto,
         Done, Drop, Staged, InUse, NewAccount, NoStage, config, links,
         StepType
    <2>6. AboutInv'
      BY <1>9 DEF TypeInv, TypeOK, AboutInv, SigningUp, Verifying,
         StageUserActivate, Goto, Done, Drop, Staged, InUse, NewAccount,
         NoStage, config, links
    <2> QED
      BY <2>1, <2>2, <2>3, <2>4, <2>5, <2>6 DEF TypeInv, TypeOK, FlagType,
         UserType, StageType, LinkType, StepType
  <1>10. ASSUME NEW q \in Workers, VerifyEnable(q) PROVE TypeInv'
    <2>1. FlagType'
      BY <1>10 DEF TypeInv, TypeOK, VerifyEnable, Goto, Stop, Done, Drop,
         InUse, Read, Mark, config, links, ghosts, FlagType
    <2>2. UserType'
      BY <1>10 DEF TypeInv, TypeOK, AboutInv, SigningUp, Categories,
         VerifyEnable, Goto, Stop, Done, Drop, InUse, Read, Mark, config,
         links, ghosts, UserType
    <2>3. StageType'
      BY <1>10 DEF TypeInv, TypeOK, AboutInv, SigningUp, Categories,
         VerifyEnable, Goto, Stop, Done, Drop, InUse, Read, Mark, config,
         links, ghosts, StageType
    <2>4. LinkType'
      BY <1>10 DEF TypeInv, TypeOK, VerifyEnable, Goto, Stop, Done, Drop,
         InUse, Read, Mark, config, links, ghosts, LinkType
    <2>5. StepType'
      BY <1>10 DEF TypeInv, TypeOK, Categories, VerifyEnable, Goto, Stop,
         Done, Drop, InUse, Read, Mark, config, links, ghosts, StepType
    <2>6. AboutInv'
      BY <1>10 DEF TypeInv, TypeOK, AboutInv, SigningUp, Verifying,
         VerifyEnable, Goto, Stop, Done, Drop, InUse, Read, Mark, config,
         links, ghosts
    <2> QED
      BY <2>1, <2>2, <2>3, <2>4, <2>5, <2>6 DEF TypeInv, TypeOK, FlagType,
         UserType, StageType, LinkType, StepType
  <1>11. ASSUME NEW q \in Workers, VerifyModify(q) PROVE TypeInv'
    <2>1. StepType'
      BY <1>11, VerifyModifyFacts DEF StepType, TypeInv, TypeOK, Categories
    <2>2. FlagType' /\ LinkType' /\ StageType'
      BY <1>11, VerifyModifyFacts DEF TypeInv, TypeOK, FlagType, LinkType,
         StageType
    <2>3. TypeOK'
      BY <1>11, <2>1, <2>2, VerifyModifyFacts DEF TypeOK, FlagType, LinkType,
         UserType, StageType, StepType
    <2>4. AboutInv'
      BY <1>11, VerifyModifyFacts DEF TypeInv, TypeOK, AboutInv, SigningUp,
         Verifying
    <2> QED
      BY <2>3, <2>4 DEF TypeInv
  <1>12. ASSUME NEW q \in Workers, FinishAccountVerify(q) PROVE TypeInv'
    BY <1>12, AccountConstants DEF FinishAccountVerify, Done, Drop, Goto,
       config, ghosts, TypeInv, TypeOK, AboutInv, SigningUp, Verifying,
       Categories
  <1>13. ASSUME NEW q \in Workers, Approve(q) PROVE TypeInv'
    BY <1>13, AccountConstants DEF Approve, Decide, Goto, StagePending,
       UserPending, InUse, Staged, config, links, ghosts, TypeInv, TypeOK,
       AboutInv, SigningUp, Verifying, Categories
  <1>14. ASSUME NEW q \in Workers, Deny(q) PROVE TypeInv'
    BY <1>14, AccountConstants DEF Deny, Decide, Goto, StagePending,
       UserPending, InUse, Staged, config, links, ghosts, TypeInv, TypeOK,
       AboutInv, SigningUp, Verifying, Categories
  <1>15. ASSUME NEW q \in Workers, ApproveEnable(q) PROVE TypeInv'
    <2>1. FlagType'
      BY <1>15 DEF TypeInv, TypeOK, ApproveEnable, Stop, Done, Drop, Goto,
         InUse, config, links, ghosts, FlagType
    <2>2. UserType'
      BY <1>15 DEF TypeInv, TypeOK, AboutInv, SigningUp, Categories,
         ApproveEnable, Stop, Done, Drop, Goto, InUse, config, links, ghosts,
         UserType
    <2>3. StageType'
      BY <1>15 DEF TypeInv, TypeOK, AboutInv, SigningUp, Categories,
         ApproveEnable, Stop, Done, Drop, Goto, InUse, config, links, ghosts,
         StageType
    <2>4. LinkType'
      BY <1>15 DEF TypeInv, TypeOK, ApproveEnable, Stop, Done, Drop, Goto,
         InUse, config, links, ghosts, LinkType
    <2>5. StepType'
      BY <1>15 DEF TypeInv, TypeOK, Categories, ApproveEnable, Stop, Done,
         Drop, Goto, InUse, config, links, ghosts, StepType
    <2>6. AboutInv'
      BY <1>15 DEF TypeInv, TypeOK, AboutInv, SigningUp, Verifying,
         ApproveEnable, Stop, Done, Drop, Goto, InUse, config, links, ghosts
    <2> QED
      BY <2>1, <2>2, <2>3, <2>4, <2>5, <2>6 DEF TypeInv, TypeOK, FlagType,
         UserType, StageType, LinkType, StepType
  <1>16. ASSUME NEW q \in Workers, ApproveModify(q) PROVE TypeInv'
    <2>1. FlagType'
      BY <1>16 DEF TypeInv, TypeOK, ApproveModify, UserMod, Stop, Done,
         Drop, Goto, InUse, config, links, ghosts, FlagType
    <2>2. UserType'
      <3>1. UserMod(q, "clear") \/ user' = user
        BY <1>16 DEF ApproveModify, Stop
      <3> QED
        BY <3>1, UserModFacts DEF Categories, UserType, TypeInv, TypeOK
    <2>3. StageType'
      BY <1>16 DEF TypeInv, TypeOK, AboutInv, SigningUp, Categories,
         ApproveModify, UserMod, Stop, Done, Drop, Goto, InUse, config, links,
         ghosts, StageType
    <2>4. LinkType'
      BY <1>16 DEF TypeInv, TypeOK, ApproveModify, UserMod, Stop, Done,
         Drop, Goto, InUse, config, links, ghosts, LinkType
    <2>5. StepType'
      BY <1>16 DEF TypeInv, TypeOK, Categories, ApproveModify, UserMod,
         Stop, Done, Drop, Goto, InUse, config, links, ghosts, StepType
    <2>6. AboutInv'
      BY <1>16 DEF TypeInv, TypeOK, AboutInv, SigningUp, Verifying,
         ApproveModify, UserMod, Stop, Done, Drop, Goto, InUse, config, links,
         ghosts
    <2> QED
      BY <2>1, <2>2, <2>3, <2>4, <2>5, <2>6 DEF TypeInv, TypeOK, FlagType,
         UserType, StageType, LinkType, StepType
  <1>17. ASSUME NEW q \in Workers, DenyDelete(q) PROVE TypeInv'
    <2>1. FlagType'
      BY <1>17 DEF TypeInv, TypeOK, DenyDelete, NewAccount, Done, Drop,
         Goto, NoStage, NoUser, config, links, ghosts, FlagType
    <2>2. UserType'
      BY <1>17, NoEntries DEF TypeInv, TypeOK, DenyDelete, NewAccount, UserType
    <2>3. StageType'
      BY <1>17, NoEntries DEF TypeInv, TypeOK, DenyDelete, NewAccount, StageType
    <2>4. LinkType'
      BY <1>17 DEF TypeInv, TypeOK, DenyDelete, NewAccount, Done, Drop,
         Goto, NoStage, NoUser, config, links, ghosts, LinkType
    <2>5. StepType'
      BY <1>17 DEF TypeInv, TypeOK, Categories, DenyDelete, NewAccount,
         Done, Drop, Goto, NoStage, NoUser, config, links, ghosts, StepType
    <2>6. AboutInv'
      BY <1>17 DEF TypeInv, TypeOK, AboutInv, SigningUp, Verifying,
         DenyDelete, NewAccount, Done, Drop, Goto, NoStage, NoUser, config,
         links, ghosts
    <2> QED
      BY <2>1, <2>2, <2>3, <2>4, <2>5, <2>6 DEF TypeInv, TypeOK, FlagType,
         UserType, StageType, LinkType, StepType
  <1>18. ASSUME NEW q \in Workers, BreakOff(q) PROVE TypeInv'
    BY <1>18, AccountConstants DEF BreakOff, Done, Drop, Goto, Staged,
       config, links, TypeInv, TypeOK, AboutInv, SigningUp, Verifying,
       Categories
  <1>19. ASSUME NEW q \in Workers, NEW o \in Owners, AccountCreate(q, o)
         PROVE  TypeInv'
    <2>1. FlagType'
      BY <1>19 DEF TypeInv, TypeOK, AccountCreate, AddUser, Begin, Goto,
         InUse, NameTaken, NewAccount, config, links, FlagType
    <2>2. UserType'
      <3>1. PICK c \in Categories, b \in BOOLEAN :
              user' = [owner |-> o, email |-> o, locked |-> FALSE,
                       category |-> c, own |-> b]
        BY <1>19 DEF AccountCreate, AddUser, Categories
      <3> QED
        BY <3>1 DEF UserType
    <2>3. StageType'
      BY <1>19 DEF TypeInv, TypeOK, AboutInv, SigningUp, Categories,
         AccountCreate, AddUser, Begin, Goto, InUse, NameTaken, NewAccount,
         config, links, StageType
    <2>4. LinkType'
      BY <1>19 DEF TypeInv, TypeOK, AccountCreate, AddUser, Begin, Goto,
         InUse, NameTaken, NewAccount, config, links, LinkType
    <2>5. StepType'
      BY <1>19 DEF TypeInv, TypeOK, Categories, AccountCreate, AddUser,
         Begin, Goto, InUse, NameTaken, NewAccount, config, links, StepType
    <2>6. AboutInv'
      BY <1>19 DEF TypeInv, TypeOK, AboutInv, SigningUp, Verifying,
         AccountCreate, AddUser, Begin, Goto, InUse, NameTaken, NewAccount,
         config, links
    <2> QED
      BY <2>1, <2>2, <2>3, <2>4, <2>5, <2>6 DEF TypeInv, TypeOK, FlagType,
         UserType, StageType, LinkType, StepType
  <1>20. ASSUME NEW q \in Workers, NEW o \in Owners, InviteAccept(q, o)
         PROVE  TypeInv'
    <2>1. FlagType'
      BY <1>20 DEF TypeInv, TypeOK, InviteAccept, AddUser, Begin, Goto,
         InUse, NameTaken, NewAccount, config, links, FlagType
    <2>2. UserType'
      <3>1. PICK c \in Categories, b \in BOOLEAN :
              user' = [owner |-> o, email |-> o, locked |-> FALSE,
                       category |-> c, own |-> b]
        BY <1>20 DEF InviteAccept, AddUser, Categories
      <3> QED
        BY <3>1 DEF UserType
    <2>3. StageType'
      BY <1>20 DEF TypeInv, TypeOK, AboutInv, SigningUp, Categories,
         InviteAccept, AddUser, Begin, Goto, InUse, NameTaken, NewAccount,
         config, links, StageType
    <2>4. LinkType'
      BY <1>20 DEF TypeInv, TypeOK, InviteAccept, AddUser, Begin, Goto,
         InUse, NameTaken, NewAccount, config, links, LinkType
    <2>5. StepType'
      BY <1>20 DEF TypeInv, TypeOK, Categories, InviteAccept, AddUser,
         Begin, Goto, InUse, NameTaken, NewAccount, config, links, StepType
    <2>6. AboutInv'
      BY <1>20 DEF TypeInv, TypeOK, AboutInv, SigningUp, Verifying,
         InviteAccept, AddUser, Begin, Goto, InUse, NameTaken, NewAccount,
         config, links
    <2> QED
      BY <2>1, <2>2, <2>3, <2>4, <2>5, <2>6 DEF TypeInv, TypeOK, FlagType,
         UserType, StageType, LinkType, StepType
  <1>21. ASSUME NEW q \in Workers, NEW o \in Owners, StagedAccountCreate(q, o)
         PROVE  TypeInv'
    BY <1>21, AccountConstants DEF StagedAccountCreate, Begin, Goto, InUse,
       config, links, ghosts, TypeInv, TypeOK, AboutInv, SigningUp, Verifying,
       Categories
  <1>22. ASSUME NEW q \in Workers, NEW l \in Links, SendAccountVerifyEmail(q, l)
         PROVE  TypeInv'
    BY <1>22, AccountConstants DEF SendAccountVerifyEmail, Done, Drop,
       Goto, config, ghosts, TypeInv, TypeOK, AboutInv, SigningUp, Verifying,
       Categories
  <1>23. ASSUME NEW q \in Workers, NEW l \in Links, AccountVerify(q, l)
         PROVE  TypeInv'
    BY <1>23, AccountConstants DEF AccountVerify, Begin, Goto, config,
       links, TypeInv, TypeOK, AboutInv, SigningUp, Verifying, Categories
  <1>24. ASSUME Block PROVE TypeInv'
    BY <1>24, AccountConstants DEF Block, InUse, config, links, TypeInv,
       TypeOK, AboutInv, SigningUp, Verifying, Categories
  <1>25. ASSUME Unblock PROVE TypeInv'
    BY <1>25, AccountConstants DEF Unblock, InUse, config, links, TypeInv,
       TypeOK, AboutInv, SigningUp, Verifying, Categories
  <1>26. ASSUME TurnOnStaging PROVE TypeInv'
    BY <1>26, AccountConstants DEF TurnOnStaging, links, ghosts, TypeInv,
       TypeOK, AboutInv, SigningUp, Verifying, Categories
  <1>27. CASE UNCHANGED vars
    BY <1>27, AccountConstants DEF vars, TypeInv, TypeOK, AboutInv,
       SigningUp, Verifying, Categories
  <1> QED
    BY <1>1, <1>2, <1>3, <1>4, <1>5, <1>6, <1>7, <1>8, <1>9, <1>10, <1>11,
       <1>12, <1>13, <1>14, <1>15, <1>16, <1>17, <1>18, <1>19, <1>20, <1>21,
       <1>22, <1>23, <1>24, <1>25, <1>26, <1>27 DEF Next, Step

(* Every step preserves RoadInv, ...                                       *)
LEMMA RoadStep ==
  ASSUME TypeInv, RoadInv, [Next]_vars
  PROVE  RoadInv'
  <1>1. ASSUME NEW q \in Workers, UserDelete(q) PROVE RoadInv'
    BY <1>1 DEF UserDelete, NewAccount, Done, Drop, Goto, config, links,
       ghosts, NoUser, RoadInv, TypeInv, TypeOK
  <1>2. ASSUME NEW q \in Workers, StageUserPend(q) PROVE RoadInv'
    BY <1>2 DEF StageUserPend, Goto, Stop, Done, Drop, Staged, config,
       links, ghosts, RoadInv, TypeInv, TypeOK
  <1>3. ASSUME NEW q \in Workers, UserDisable(q) PROVE RoadInv'
    BY <1>3 DEF UserDisable, Goto, InUse, config, links, RoadInv, TypeInv,
       TypeOK
  <1>4. ASSUME NEW q \in Workers, StageUserAdd(q) PROVE RoadInv'
    <2>1. CASE Staged
      BY <1>4, <2>1 DEF StageUserAdd, Stop, Done, Drop, Goto, Staged,
         config, links, ghosts, RoadInv, TypeInv, TypeOK
    <2>2. CASE ~Staged
      BY <1>4, <2>2, StageUserAddFacts DEF Staged, RoadInv, TypeInv, TypeOK
    <2> QED
      BY <2>1, <2>2
  <1>5. ASSUME NEW q \in Workers, MailFails(q) PROVE RoadInv'
    BY <1>5 DEF MailFails, Stop, Done, Drop, Goto, config, links, ghosts,
       RoadInv, TypeInv, TypeOK
  <1>6. ASSUME NEW q \in Workers, AccountVerifyResend(q) PROVE RoadInv'
    BY <1>6 DEF AccountVerifyResend, Begin, Goto, InUse, Staged, config,
       links, ghosts, RoadInv, TypeInv, TypeOK
  <1>7. ASSUME NEW q \in Workers, VerifyShow(q) PROVE RoadInv'
    BY <1>7 DEF VerifyShow, Goto, Done, Drop, InUse, Staged, Read, Mark,
       config, links, ghosts, RoadInv, TypeInv, TypeOK
  <1>8. ASSUME NEW q \in Workers, StageUserClear(q) PROVE RoadInv'
    BY <1>8 DEF StageUserClear, Goto, Stop, Done, Drop, Staged, config,
       links, ghosts, RoadInv, TypeInv, TypeOK
  <1>9. ASSUME NEW q \in Workers, StageUserActivate(q) PROVE RoadInv'
    BY <1>9 DEF StageUserActivate, Goto, Done, Drop, Staged, InUse,
       NewAccount, NoStage, config, links, RoadInv, TypeInv, TypeOK
  <1>10. ASSUME NEW q \in Workers, VerifyEnable(q) PROVE RoadInv'
    BY <1>10 DEF VerifyEnable, Goto, Stop, Done, Drop, InUse, Read, Mark,
       config, links, ghosts, RoadInv, TypeInv, TypeOK
  <1>11. ASSUME NEW q \in Workers, VerifyModify(q) PROVE RoadInv'
    BY <1>11, VerifyModifyFacts DEF RoadInv, TypeInv, TypeOK
  <1>12. ASSUME NEW q \in Workers, FinishAccountVerify(q) PROVE RoadInv'
    BY <1>12 DEF FinishAccountVerify, Done, Drop, Goto, config, ghosts,
       RoadInv, TypeInv, TypeOK
  <1>13. ASSUME NEW q \in Workers, Approve(q) PROVE RoadInv'
    BY <1>13 DEF Approve, Decide, Goto, StagePending, UserPending, InUse,
       Staged, config, links, ghosts, RoadInv, TypeInv, TypeOK
  <1>14. ASSUME NEW q \in Workers, Deny(q) PROVE RoadInv'
    BY <1>14 DEF Deny, Decide, Goto, StagePending, UserPending, InUse,
       Staged, config, links, ghosts, RoadInv, TypeInv, TypeOK
  <1>15. ASSUME NEW q \in Workers, ApproveEnable(q) PROVE RoadInv'
    BY <1>15 DEF ApproveEnable, Stop, Done, Drop, Goto, InUse, config,
       links, ghosts, RoadInv, TypeInv, TypeOK
  <1>16. ASSUME NEW q \in Workers, ApproveModify(q) PROVE RoadInv'
    BY <1>16 DEF ApproveModify, UserMod, Stop, Done, Drop, Goto, InUse,
       config, links, ghosts, RoadInv, TypeInv, TypeOK
  <1>17. ASSUME NEW q \in Workers, DenyDelete(q) PROVE RoadInv'
    BY <1>17 DEF DenyDelete, NewAccount, Done, Drop, Goto, NoStage, NoUser,
       config, links, ghosts, RoadInv, TypeInv, TypeOK
  <1>18. ASSUME NEW q \in Workers, BreakOff(q) PROVE RoadInv'
    BY <1>18 DEF BreakOff, Done, Drop, Goto, Staged, config, links,
       RoadInv, TypeInv, TypeOK
  <1>19. ASSUME NEW q \in Workers, NEW o \in Owners, AccountCreate(q, o)
         PROVE  RoadInv'
    BY <1>19 DEF AccountCreate, AddUser, Begin, Goto, InUse, NameTaken,
       NewAccount, config, links, RoadInv, TypeInv, TypeOK
  <1>20. ASSUME NEW q \in Workers, NEW o \in Owners, InviteAccept(q, o)
         PROVE  RoadInv'
    BY <1>20 DEF InviteAccept, AddUser, Begin, Goto, InUse, NameTaken,
       NewAccount, config, links, RoadInv, TypeInv, TypeOK
  <1>21. ASSUME NEW q \in Workers, NEW o \in Owners, StagedAccountCreate(q, o)
         PROVE  RoadInv'
    BY <1>21 DEF StagedAccountCreate, Begin, Goto, InUse, config, links,
       ghosts, RoadInv, TypeInv, TypeOK
  <1>22. ASSUME NEW q \in Workers, NEW l \in Links, SendAccountVerifyEmail(q, l)
         PROVE  RoadInv'
    BY <1>22 DEF SendAccountVerifyEmail, Done, Drop, Goto, config, ghosts,
       RoadInv, TypeInv, TypeOK
  <1>23. ASSUME NEW q \in Workers, NEW l \in Links, AccountVerify(q, l)
         PROVE  RoadInv'
    BY <1>23 DEF AccountVerify, Begin, Goto, config, links, RoadInv,
       TypeInv, TypeOK
  <1>24. ASSUME Block PROVE RoadInv'
    BY <1>24 DEF Block, InUse, config, links, RoadInv, TypeInv, TypeOK
  <1>25. ASSUME Unblock PROVE RoadInv'
    BY <1>25 DEF Unblock, InUse, config, links, RoadInv, TypeInv, TypeOK
  <1>26. ASSUME TurnOnStaging PROVE RoadInv'
    BY <1>26 DEF TurnOnStaging, links, ghosts, RoadInv, TypeInv, TypeOK
  <1>27. CASE UNCHANGED vars
    BY <1>27 DEF vars, RoadInv, TypeInv, TypeOK
  <1> QED
    BY <1>1, <1>2, <1>3, <1>4, <1>5, <1>6, <1>7, <1>8, <1>9, <1>10, <1>11,
       <1>12, <1>13, <1>14, <1>15, <1>16, <1>17, <1>18, <1>19, <1>20, <1>21,
       <1>22, <1>23, <1>24, <1>25, <1>26, <1>27 DEF Next, Step

(* ... UsableOnlyIfApproved, ...                                           *)
LEMMA ApprovedStep ==
  ASSUME TypeInv, RoadInv, UsableOnlyIfApproved, [Next]_vars
  PROVE  UsableOnlyIfApproved'
  <1>1. ASSUME NEW q \in Workers, UserDelete(q) PROVE UsableOnlyIfApproved'
    BY <1>1 DEF UserDelete, NewAccount, Done, Drop, Goto, config, links,
       ghosts, NoUser, RoadInv, UsableOnlyIfApproved, Usable, InUse,
       BeingDisabled, TypeInv, TypeOK
  <1>2. ASSUME NEW q \in Workers, StageUserPend(q)
        PROVE  UsableOnlyIfApproved'
    <2>1. /\ UNCHANGED <<user, require_admin_verify, word, spared>>
          /\ \A p \in Workers : pc[p] = "disable" => pc'[p] = "disable"
      BY <1>2 DEF StageUserPend, Goto, Stop, Done, Drop, config, ghosts,
         TypeInv, TypeOK
    <2> QED
      BY <2>1 DEF UsableOnlyIfApproved, Usable, InUse, BeingDisabled
  <1>3. ASSUME NEW q \in Workers, UserDisable(q) PROVE UsableOnlyIfApproved'
    BY <1>3 DEF UserDisable, Goto, InUse, config, links, RoadInv,
       UsableOnlyIfApproved, Usable, BeingDisabled, TypeInv, TypeOK
  <1>4. ASSUME NEW q \in Workers, StageUserAdd(q) PROVE UsableOnlyIfApproved'
    <2>1. CASE Staged
      BY <1>4, <2>1 DEF StageUserAdd, Stop, Done, Drop, Goto, Staged,
         config, links, ghosts, RoadInv, UsableOnlyIfApproved, Usable, InUse,
         BeingDisabled, TypeInv, TypeOK
    <2>2. CASE ~Staged
      <3>1. /\ UNCHANGED <<require_admin_verify, user, word, spared>>
            /\ pc[q] = "stage" /\ pc' = [pc EXCEPT ![q] = "mail"]
        BY <1>4, <2>2, StageUserAddFacts
      <3>2. BeingDisabled => BeingDisabled'
        BY <3>1 DEF BeingDisabled, TypeInv, TypeOK
      <3> QED
        BY <3>1, <3>2 DEF UsableOnlyIfApproved, Usable, InUse
    <2> QED
      BY <2>1, <2>2
  <1>5. ASSUME NEW q \in Workers, MailFails(q) PROVE UsableOnlyIfApproved'
    BY <1>5 DEF MailFails, Stop, Done, Drop, Goto, config, links, ghosts,
       RoadInv, UsableOnlyIfApproved, Usable, InUse, BeingDisabled, TypeInv,
       TypeOK
  <1>6. ASSUME NEW q \in Workers, AccountVerifyResend(q)
        PROVE  UsableOnlyIfApproved'
    BY <1>6 DEF AccountVerifyResend, Begin, Goto, InUse, Staged, config,
       links, ghosts, RoadInv, UsableOnlyIfApproved, Usable, BeingDisabled,
       TypeInv, TypeOK
  <1>7. ASSUME NEW q \in Workers, VerifyShow(q) PROVE UsableOnlyIfApproved'
    BY <1>7 DEF VerifyShow, Goto, Done, Drop, InUse, Staged, Read, Mark,
       config, links, ghosts, RoadInv, UsableOnlyIfApproved, Usable,
       BeingDisabled, TypeInv, TypeOK
  <1>8. ASSUME NEW q \in Workers, StageUserClear(q)
        PROVE  UsableOnlyIfApproved'
    <2>1. /\ UNCHANGED <<user, require_admin_verify, word, spared>>
          /\ \A p \in Workers : pc[p] = "disable" => pc'[p] = "disable"
      BY <1>8 DEF StageUserClear, Goto, Stop, Done, Drop, config, ghosts,
         TypeInv, TypeOK
    <2> QED
      BY <2>1 DEF UsableOnlyIfApproved, Usable, InUse, BeingDisabled
  <1>9. ASSUME NEW q \in Workers, StageUserActivate(q)
        PROVE  UsableOnlyIfApproved'
    <2>1. CASE UNCHANGED <<user, stage, word, spared, decided>>
      BY <1>9, <2>1, StageUserActivateFacts DEF UsableOnlyIfApproved,
         Usable, InUse, BeingDisabled
    <2>2. CASE pc[q] = "approve-activate" /\ word' = "enable"
      BY <2>2 DEF UsableOnlyIfApproved
    <2>3. CASE ~require_admin_verify
      BY <1>9, <2>3, StageUserActivateFacts DEF UsableOnlyIfApproved
    <2> QED
      BY <1>9, <2>1, <2>2, <2>3, StageUserActivateFacts
         DEF RoadInv
  <1>10. ASSUME NEW q \in Workers, VerifyEnable(q) PROVE UsableOnlyIfApproved'
    BY <1>10 DEF VerifyEnable, Goto, Stop, Done, Drop, InUse, Read, Mark,
       config, links, ghosts, RoadInv, UsableOnlyIfApproved, Usable,
       BeingDisabled, TypeInv, TypeOK
  <1>11. ASSUME NEW q \in Workers, VerifyModify(q) PROVE UsableOnlyIfApproved'
    BY <1>11 DEF VerifyModify, UserMod, Mark, Drop, Goto, Stop, Done,
       InUse, config, links, ghosts, RoadInv, UsableOnlyIfApproved, Usable,
       BeingDisabled, TypeInv, TypeOK
  <1>12. ASSUME NEW q \in Workers, FinishAccountVerify(q)
         PROVE  UsableOnlyIfApproved'
    BY <1>12 DEF FinishAccountVerify, Done, Drop, Goto, config, ghosts,
       RoadInv, UsableOnlyIfApproved, Usable, InUse, BeingDisabled, TypeInv,
       TypeOK
  <1>13. ASSUME NEW q \in Workers, Approve(q) PROVE UsableOnlyIfApproved'
    BY <1>13 DEF Approve, Decide, Goto, StagePending, UserPending, InUse,
       Staged, config, links, ghosts, RoadInv, UsableOnlyIfApproved, Usable,
       BeingDisabled, TypeInv, TypeOK
  <1>14. ASSUME NEW q \in Workers, Deny(q) PROVE UsableOnlyIfApproved'
    BY <1>14 DEF Deny, Decide, Goto, StagePending, UserPending, InUse,
       Staged, config, links, ghosts, RoadInv, UsableOnlyIfApproved, Usable,
       BeingDisabled, TypeInv, TypeOK
  <1>15. ASSUME NEW q \in Workers, ApproveEnable(q) PROVE UsableOnlyIfApproved'
    BY <1>15 DEF ApproveEnable, Stop, Done, Drop, Goto, InUse, config,
       links, ghosts, RoadInv, UsableOnlyIfApproved, Usable, BeingDisabled,
       TypeInv, TypeOK
  <1>16. ASSUME NEW q \in Workers, ApproveModify(q) PROVE UsableOnlyIfApproved'
    BY <1>16 DEF ApproveModify, UserMod, Stop, Done, Drop, Goto, InUse,
       config, links, ghosts, RoadInv, UsableOnlyIfApproved, Usable,
       BeingDisabled, TypeInv, TypeOK
  <1>17. ASSUME NEW q \in Workers, DenyDelete(q) PROVE UsableOnlyIfApproved'
    BY <1>17 DEF DenyDelete, NewAccount, Done, Drop, Goto, NoStage, NoUser,
       config, links, ghosts, RoadInv, UsableOnlyIfApproved, Usable, InUse,
       BeingDisabled, TypeInv, TypeOK
  <1>18. ASSUME NEW q \in Workers, BreakOff(q) PROVE UsableOnlyIfApproved'
    BY <1>18 DEF BreakOff, Done, Drop, Goto, Staged, config, links,
       RoadInv, UsableOnlyIfApproved, Usable, InUse, BeingDisabled, TypeInv,
       TypeOK
  <1>19. ASSUME NEW q \in Workers, NEW o \in Owners, AccountCreate(q, o)
         PROVE  UsableOnlyIfApproved'
    <2>1. CASE AddUser(o, "unverified", FALSE)
      BY <2>1 DEF AddUser, UsableOnlyIfApproved, Usable
    <2>2. CASE Begin(q, o, "disable")
      BY <2>2 DEF Begin, Goto, UsableOnlyIfApproved, BeingDisabled, TypeInv,
         TypeOK
    <2> QED
      BY <1>19, <2>1, <2>2 DEF AccountCreate
  <1>20. ASSUME NEW q \in Workers, NEW o \in Owners, InviteAccept(q, o)
         PROVE  UsableOnlyIfApproved'
    BY <1>20 DEF InviteAccept, AddUser, Begin, Goto, InUse, NameTaken,
       NewAccount, config, links, RoadInv, UsableOnlyIfApproved, Usable,
       BeingDisabled, TypeInv, TypeOK
  <1>21. ASSUME NEW q \in Workers, NEW o \in Owners, StagedAccountCreate(q, o)
         PROVE  UsableOnlyIfApproved'
    BY <1>21 DEF StagedAccountCreate, Begin, Goto, InUse, config, links,
       ghosts, RoadInv, UsableOnlyIfApproved, Usable, BeingDisabled, TypeInv,
       TypeOK
  <1>22. ASSUME NEW q \in Workers, NEW l \in Links, SendAccountVerifyEmail(q, l)
         PROVE  UsableOnlyIfApproved'
    BY <1>22 DEF SendAccountVerifyEmail, Done, Drop, Goto, config, ghosts,
       RoadInv, UsableOnlyIfApproved, Usable, InUse, BeingDisabled, TypeInv,
       TypeOK
  <1>23. ASSUME NEW q \in Workers, NEW l \in Links, AccountVerify(q, l)
         PROVE  UsableOnlyIfApproved'
    BY <1>23 DEF AccountVerify, Begin, Goto, config, links, RoadInv,
       UsableOnlyIfApproved, Usable, InUse, BeingDisabled, TypeInv, TypeOK
  <1>24. ASSUME Block PROVE UsableOnlyIfApproved'
    BY <1>24 DEF Block, InUse, config, links, RoadInv,
       UsableOnlyIfApproved, Usable, BeingDisabled, TypeInv, TypeOK
  <1>25. ASSUME Unblock PROVE UsableOnlyIfApproved'
    BY <1>25 DEF Unblock, InUse, config, links, RoadInv,
       UsableOnlyIfApproved, Usable, BeingDisabled, TypeInv, TypeOK
  <1>26. ASSUME TurnOnStaging PROVE UsableOnlyIfApproved'
    BY <1>26 DEF TurnOnStaging, links, ghosts, RoadInv,
       UsableOnlyIfApproved, Usable, InUse, BeingDisabled, TypeInv, TypeOK
  <1>27. CASE UNCHANGED vars
    BY <1>27 DEF vars, RoadInv, UsableOnlyIfApproved, Usable, InUse,
       BeingDisabled, TypeInv, TypeOK
  <1> QED
    BY <1>1, <1>2, <1>3, <1>4, <1>5, <1>6, <1>7, <1>8, <1>9, <1>10, <1>11,
       <1>12, <1>13, <1>14, <1>15, <1>16, <1>17, <1>18, <1>19, <1>20, <1>21,
       <1>22, <1>23, <1>24, <1>25, <1>26, <1>27 DEF Next, Step

(* ... CrossInv, ...                                                       *)
LEMMA CrossStep ==
  ASSUME TypeInv, CrossInv, [Next]_vars
  PROVE  CrossInv'
  <1>1. ASSUME NEW q \in Workers, UserDelete(q) PROVE CrossInv'
    BY <1>1, AccountConstants DEF UserDelete, NewAccount, Done, Drop, Goto,
       config, links, ghosts, NoUser, CrossInv, InUse, Staged, TypeInv, TypeOK
  <1>2. ASSUME NEW q \in Workers, StageUserPend(q) PROVE CrossInv'
    BY <1>2, AccountConstants DEF StageUserPend, Goto, Stop, Done, Drop,
       Staged, config, links, ghosts, CrossInv, InUse, TypeInv, TypeOK
  <1>3. ASSUME NEW q \in Workers, UserDisable(q) PROVE CrossInv'
    BY <1>3, AccountConstants DEF UserDisable, Goto, InUse, config, links,
       CrossInv, Staged, TypeInv, TypeOK
  <1>4. ASSUME NEW q \in Workers, StageUserAdd(q) PROVE CrossInv'
    <2>1. CASE Staged
      BY <1>4, <2>1, AccountConstants DEF StageUserAdd, Stop, Done, Drop,
         Goto, Staged, config, links, ghosts, CrossInv, InUse, TypeInv, TypeOK
    <2>2. CASE ~Staged
      BY <1>4, <2>2, StageUserAddFacts, AccountConstants
         DEF Staged, CrossInv, InUse, TypeInv, TypeOK
    <2> QED
      BY <2>1, <2>2
  <1>5. ASSUME NEW q \in Workers, MailFails(q) PROVE CrossInv'
    BY <1>5, AccountConstants DEF MailFails, Stop, Done, Drop, Goto,
       config, links, ghosts, CrossInv, InUse, Staged, TypeInv, TypeOK
  <1>6. ASSUME NEW q \in Workers, AccountVerifyResend(q) PROVE CrossInv'
    BY <1>6, AccountConstants DEF AccountVerifyResend, Begin, Goto, InUse,
       Staged, config, links, ghosts, CrossInv, TypeInv, TypeOK
  <1>7. ASSUME NEW q \in Workers, VerifyShow(q) PROVE CrossInv'
    BY <1>7, AccountConstants DEF VerifyShow, Goto, Done, Drop, InUse,
       Staged, Read, Mark, config, links, ghosts, CrossInv, TypeInv, TypeOK
  <1>8. ASSUME NEW q \in Workers, StageUserClear(q) PROVE CrossInv'
    BY <1>8, AccountConstants DEF StageUserClear, Goto, Stop, Done, Drop,
       Staged, config, links, ghosts, CrossInv, InUse, TypeInv, TypeOK
  <1>9. ASSUME NEW q \in Workers, StageUserActivate(q) PROVE CrossInv'
    BY <1>9, AccountConstants DEF StageUserActivate, Goto, Done, Drop,
       Staged, InUse, NewAccount, NoStage, config, links, CrossInv, TypeInv,
       TypeOK
  <1>10. ASSUME NEW q \in Workers, VerifyEnable(q) PROVE CrossInv'
    BY <1>10, AccountConstants DEF VerifyEnable, Goto, Stop, Done, Drop,
       InUse, Read, Mark, config, links, ghosts, CrossInv, Staged, TypeInv,
       TypeOK
  <1>11. ASSUME NEW q \in Workers, VerifyModify(q) PROVE CrossInv'
    BY <1>11, AccountConstants DEF VerifyModify, UserMod, Mark, Drop, Goto,
       Stop, Done, InUse, config, links, ghosts, CrossInv, Staged, TypeInv,
       TypeOK
  <1>12. ASSUME NEW q \in Workers, FinishAccountVerify(q) PROVE CrossInv'
    BY <1>12, AccountConstants DEF FinishAccountVerify, Done, Drop, Goto,
       config, ghosts, CrossInv, InUse, Staged, TypeInv, TypeOK
  <1>13. ASSUME NEW q \in Workers, Approve(q) PROVE CrossInv'
    BY <1>13, AccountConstants DEF Approve, Decide, Goto, StagePending,
       UserPending, InUse, Staged, config, links, ghosts, CrossInv, TypeInv,
       TypeOK
  <1>14. ASSUME NEW q \in Workers, Deny(q) PROVE CrossInv'
    BY <1>14, AccountConstants DEF Deny, Decide, Goto, StagePending,
       UserPending, InUse, Staged, config, links, ghosts, CrossInv, TypeInv,
       TypeOK
  <1>15. ASSUME NEW q \in Workers, ApproveEnable(q) PROVE CrossInv'
    BY <1>15, AccountConstants DEF ApproveEnable, Stop, Done, Drop, Goto,
       InUse, config, links, ghosts, CrossInv, Staged, TypeInv, TypeOK
  <1>16. ASSUME NEW q \in Workers, ApproveModify(q) PROVE CrossInv'
    BY <1>16, AccountConstants DEF ApproveModify, UserMod, Stop, Done,
       Drop, Goto, InUse, config, links, ghosts, CrossInv, Staged, TypeInv,
       TypeOK
  <1>17. ASSUME NEW q \in Workers, DenyDelete(q) PROVE CrossInv'
    BY <1>17, AccountConstants DEF DenyDelete, NewAccount, Done, Drop,
       Goto, NoStage, NoUser, config, links, ghosts, CrossInv, InUse, Staged,
       TypeInv, TypeOK
  <1>18. ASSUME NEW q \in Workers, BreakOff(q) PROVE CrossInv'
    BY <1>18, AccountConstants DEF BreakOff, Done, Drop, Goto, Staged,
       config, links, CrossInv, InUse, TypeInv, TypeOK
  <1>19. ASSUME NEW q \in Workers, NEW o \in Owners, AccountCreate(q, o)
         PROVE  CrossInv'
    BY <1>19, AccountConstants DEF AccountCreate, AddUser, Begin, Goto,
       InUse, NameTaken, NewAccount, config, links, CrossInv, Staged, TypeInv,
       TypeOK
  <1>20. ASSUME NEW q \in Workers, NEW o \in Owners, InviteAccept(q, o)
         PROVE  CrossInv'
    BY <1>20, AccountConstants DEF InviteAccept, AddUser, Begin, Goto,
       InUse, NameTaken, NewAccount, config, links, CrossInv, Staged, TypeInv,
       TypeOK
  <1>21. ASSUME NEW q \in Workers, NEW o \in Owners, StagedAccountCreate(q, o)
         PROVE  CrossInv'
    BY <1>21, AccountConstants DEF StagedAccountCreate, Begin, Goto, InUse,
       config, links, ghosts, CrossInv, Staged, TypeInv, TypeOK
  <1>22. ASSUME NEW q \in Workers, NEW l \in Links, SendAccountVerifyEmail(q, l)
         PROVE  CrossInv'
    BY <1>22, AccountConstants DEF SendAccountVerifyEmail, Done, Drop,
       Goto, config, ghosts, CrossInv, InUse, Staged, TypeInv, TypeOK
  <1>23. ASSUME NEW q \in Workers, NEW l \in Links, AccountVerify(q, l)
         PROVE  CrossInv'
    BY <1>23, AccountConstants DEF AccountVerify, Begin, Goto, config,
       links, CrossInv, InUse, Staged, TypeInv, TypeOK
  <1>24. ASSUME Block PROVE CrossInv'
    BY <1>24, AccountConstants DEF Block, InUse, config, links, CrossInv,
       Staged, TypeInv, TypeOK
  <1>25. ASSUME Unblock PROVE CrossInv'
    BY <1>25, AccountConstants DEF Unblock, InUse, config, links, CrossInv,
       Staged, TypeInv, TypeOK
  <1>26. ASSUME TurnOnStaging PROVE CrossInv'
    BY <1>26, AccountConstants DEF TurnOnStaging, links, ghosts, CrossInv,
       InUse, Staged, TypeInv, TypeOK
  <1>27. CASE UNCHANGED vars
    BY <1>27, AccountConstants DEF vars, CrossInv, InUse, Staged, TypeInv,
       TypeOK
  <1> QED
    BY <1>1, <1>2, <1>3, <1>4, <1>5, <1>6, <1>7, <1>8, <1>9, <1>10, <1>11,
       <1>12, <1>13, <1>14, <1>15, <1>16, <1>17, <1>18, <1>19, <1>20, <1>21,
       <1>22, <1>23, <1>24, <1>25, <1>26, <1>27 DEF Next, Step

(* ... QueueTellsTheTruth, ...                                             *)
LEMMA QueueStep ==
  ASSUME TypeInv, RoadInv, CrossInv, QueueTellsTheTruth, [Next]_vars
  PROVE  QueueTellsTheTruth'
  <1>1. ASSUME NEW q \in Workers, UserDelete(q) PROVE QueueTellsTheTruth'
    BY <1>1 DEF UserDelete, NewAccount, Done, Drop, Goto, config, links,
       ghosts, NoUser, RoadInv, QueueTellsTheTruth, InUse, Staged,
       UserPending, TypeInv, TypeOK
  <1>2. ASSUME NEW q \in Workers, StageUserPend(q)
        PROVE  QueueTellsTheTruth'
    BY <1>2 DEF StageUserPend, Goto, Stop, Done, Drop, Staged, config,
       links, ghosts, RoadInv, QueueTellsTheTruth, InUse, UserPending,
       TypeInv, TypeOK
  <1>3. ASSUME NEW q \in Workers, UserDisable(q) PROVE QueueTellsTheTruth'
    BY <1>3 DEF UserDisable, Goto, InUse, config, links, RoadInv,
       QueueTellsTheTruth, Staged, UserPending, TypeInv, TypeOK
  <1>4. ASSUME NEW q \in Workers, StageUserAdd(q) PROVE QueueTellsTheTruth'
    <2>1. CASE Staged
      BY <1>4, <2>1 DEF StageUserAdd, Stop, Done, Drop, Goto, Staged,
         config, links, ghosts, RoadInv, QueueTellsTheTruth, InUse,
         UserPending, TypeInv, TypeOK
    <2>2. CASE ~Staged
      BY <1>4, <2>2, StageUserAddFacts DEF Staged, RoadInv,
         QueueTellsTheTruth, InUse, UserPending, TypeInv, TypeOK
    <2> QED
      BY <2>1, <2>2
  <1>5. ASSUME NEW q \in Workers, MailFails(q) PROVE QueueTellsTheTruth'
    BY <1>5 DEF MailFails, Stop, Done, Drop, Goto, config, links, ghosts,
       RoadInv, QueueTellsTheTruth, InUse, Staged, UserPending, TypeInv,
       TypeOK
  <1>6. ASSUME NEW q \in Workers, AccountVerifyResend(q)
        PROVE  QueueTellsTheTruth'
    BY <1>6 DEF AccountVerifyResend, Begin, Goto, InUse, Staged, config,
       links, ghosts, RoadInv, QueueTellsTheTruth, UserPending, TypeInv,
       TypeOK
  <1>7. ASSUME NEW q \in Workers, VerifyShow(q) PROVE QueueTellsTheTruth'
    BY <1>7 DEF VerifyShow, Goto, Done, Drop, InUse, Staged, Read, Mark,
       config, links, ghosts, RoadInv, QueueTellsTheTruth, UserPending,
       TypeInv, TypeOK
  <1>8. ASSUME NEW q \in Workers, StageUserClear(q)
        PROVE  QueueTellsTheTruth'
    BY <1>8 DEF StageUserClear, Goto, Stop, Done, Drop, Staged, config,
       links, ghosts, RoadInv, QueueTellsTheTruth, InUse, UserPending,
       TypeInv, TypeOK
  <1>9. ASSUME NEW q \in Workers, StageUserActivate(q)
        PROVE  QueueTellsTheTruth'
    <2>1. \A p \in Workers : p # q => pc'[p] = pc[p]
      BY <1>9 DEF StageUserActivate, Done, Drop, Goto, TypeInv, TypeOK
    <2> DEFINE Nothing ==
          /\ UNCHANGED <<user, stage, word, spared, decided>>
          /\ halfway' = IF Staged THEN halfway \cup {"staging"} ELSE halfway
    <2>2. CASE Nothing
      BY <1>9, <2>1, <2>2, StageUserActivateFacts DEF QueueTellsTheTruth,
         InUse, UserPending, Staged, RoadInv, TypeInv, TypeOK
    <2>3. CASE ~Nothing
      <3>1. stage' = NoStage
        BY <1>9, <2>3, StageUserActivateFacts
      <3>2. ~Staged'
        BY <3>1 DEF Staged, NoStage
      <3>3. CASE pc[q] = "approve-activate"
        <4>1. /\ user'.category = stage.category
              /\ stage.category = "pending" => "active" \in halfway'
          BY <1>9, <2>3, <3>3, StageUserActivateFacts DEF CrossInv
        <4> QED
          BY <3>2, <4>1 DEF QueueTellsTheTruth, UserPending
      <3>4. CASE pc[q] # "approve-activate"
        BY <1>9, <2>3, <3>2, <3>4, StageUserActivateFacts
           DEF RoadInv, QueueTellsTheTruth
      <3> QED
        BY <3>3, <3>4
    <2> QED
      BY <2>2, <2>3
  <1>10. ASSUME NEW q \in Workers, VerifyEnable(q) PROVE QueueTellsTheTruth'
    BY <1>10 DEF VerifyEnable, Goto, Stop, Done, Drop, InUse, Read, Mark,
       config, links, ghosts, RoadInv, QueueTellsTheTruth, Staged,
       UserPending, TypeInv, TypeOK
  <1>11. ASSUME NEW q \in Workers, VerifyModify(q) PROVE QueueTellsTheTruth'
    <2>1. CASE ~InUse
      BY <1>11, <2>1 DEF VerifyModify, UserMod, Mark, Drop, Stop, Done,
         Goto, InUse, config, links, ghosts, QueueTellsTheTruth, Staged,
         UserPending, TypeInv, TypeOK
    <2>2. CASE InUse
      <3>1. /\ pc[q] = "modify" /\ pc' = [pc EXCEPT ![q] = "mark"]
            /\ UNCHANGED <<require_admin_verify, stage, decided>>
            /\ halfway' = IF decided THEN halfway \cup {"active"} ELSE halfway
        BY <1>11, <2>2 DEF VerifyModify, UserMod, Mark, Drop, Goto, Stop, config
      <3> QED
        BY <3>1 DEF QueueTellsTheTruth, Staged, TypeInv, TypeOK
    <2> QED
      BY <2>1, <2>2
  <1>12. ASSUME NEW q \in Workers, FinishAccountVerify(q)
         PROVE  QueueTellsTheTruth'
    BY <1>12 DEF FinishAccountVerify, Done, Drop, Goto, config, ghosts,
       RoadInv, QueueTellsTheTruth, InUse, Staged, UserPending, TypeInv,
       TypeOK
  <1>13. ASSUME NEW q \in Workers, Approve(q) PROVE QueueTellsTheTruth'
    BY <1>13 DEF Approve, Decide, Goto, StagePending, UserPending, InUse,
       Staged, config, links, ghosts, RoadInv, QueueTellsTheTruth, TypeInv,
       TypeOK
  <1>14. ASSUME NEW q \in Workers, Deny(q) PROVE QueueTellsTheTruth'
    BY <1>14 DEF Deny, Decide, Goto, StagePending, UserPending, InUse,
       Staged, config, links, ghosts, RoadInv, QueueTellsTheTruth, TypeInv,
       TypeOK
  <1>15. ASSUME NEW q \in Workers, ApproveEnable(q) PROVE QueueTellsTheTruth'
    BY <1>15 DEF ApproveEnable, Stop, Done, Drop, Goto, InUse, config,
       links, ghosts, RoadInv, QueueTellsTheTruth, Staged, UserPending,
       TypeInv, TypeOK
  <1>16. ASSUME NEW q \in Workers, ApproveModify(q) PROVE QueueTellsTheTruth'
    BY <1>16 DEF ApproveModify, UserMod, Stop, Done, Drop, Goto, InUse,
       config, links, ghosts, RoadInv, QueueTellsTheTruth, Staged,
       UserPending, TypeInv, TypeOK
  <1>17. ASSUME NEW q \in Workers, DenyDelete(q) PROVE QueueTellsTheTruth'
    BY <1>17 DEF DenyDelete, NewAccount, Done, Drop, Goto, NoStage, NoUser,
       config, links, ghosts, RoadInv, QueueTellsTheTruth, InUse, Staged,
       UserPending, TypeInv, TypeOK
  <1>18. ASSUME NEW q \in Workers, BreakOff(q) PROVE QueueTellsTheTruth'
    BY <1>18 DEF BreakOff, Done, Drop, Goto, Staged, config, links,
       RoadInv, QueueTellsTheTruth, InUse, UserPending, TypeInv, TypeOK
  <1>19. ASSUME NEW q \in Workers, NEW o \in Owners, AccountCreate(q, o)
         PROVE  QueueTellsTheTruth'
    BY <1>19 DEF AccountCreate, AddUser, Begin, Goto, InUse, NameTaken,
       NewAccount, config, links, RoadInv, QueueTellsTheTruth, Staged,
       UserPending, TypeInv, TypeOK
  <1>20. ASSUME NEW q \in Workers, NEW o \in Owners, InviteAccept(q, o)
         PROVE  QueueTellsTheTruth'
    BY <1>20 DEF InviteAccept, AddUser, Begin, Goto, InUse, NameTaken,
       NewAccount, config, links, RoadInv, QueueTellsTheTruth, Staged,
       UserPending, TypeInv, TypeOK
  <1>21. ASSUME NEW q \in Workers, NEW o \in Owners, StagedAccountCreate(q, o)
         PROVE  QueueTellsTheTruth'
    BY <1>21 DEF StagedAccountCreate, Begin, Goto, InUse, config, links,
       ghosts, RoadInv, QueueTellsTheTruth, Staged, UserPending, TypeInv,
       TypeOK
  <1>22. ASSUME NEW q \in Workers, NEW l \in Links, SendAccountVerifyEmail(q, l)
         PROVE  QueueTellsTheTruth'
    BY <1>22 DEF SendAccountVerifyEmail, Done, Drop, Goto, config, ghosts,
       RoadInv, QueueTellsTheTruth, InUse, Staged, UserPending, TypeInv,
       TypeOK
  <1>23. ASSUME NEW q \in Workers, NEW l \in Links, AccountVerify(q, l)
         PROVE  QueueTellsTheTruth'
    BY <1>23 DEF AccountVerify, Begin, Goto, config, links, RoadInv,
       QueueTellsTheTruth, InUse, Staged, UserPending, TypeInv, TypeOK
  <1>24. ASSUME Block PROVE QueueTellsTheTruth'
    BY <1>24 DEF Block, InUse, config, links, RoadInv, QueueTellsTheTruth,
       Staged, UserPending, TypeInv, TypeOK
  <1>25. ASSUME Unblock PROVE QueueTellsTheTruth'
    BY <1>25 DEF Unblock, InUse, config, links, RoadInv,
       QueueTellsTheTruth, Staged, UserPending, TypeInv, TypeOK
  <1>26. ASSUME TurnOnStaging PROVE QueueTellsTheTruth'
    BY <1>26 DEF TurnOnStaging, links, ghosts, RoadInv, QueueTellsTheTruth,
       InUse, Staged, UserPending, TypeInv, TypeOK
  <1>27. CASE UNCHANGED vars
    BY <1>27 DEF vars, RoadInv, QueueTellsTheTruth, InUse, Staged,
       UserPending, TypeInv, TypeOK
  <1> QED
    BY <1>1, <1>2, <1>3, <1>4, <1>5, <1>6, <1>7, <1>8, <1>9, <1>10, <1>11,
       <1>12, <1>13, <1>14, <1>15, <1>16, <1>17, <1>18, <1>19, <1>20, <1>21,
       <1>22, <1>23, <1>24, <1>25, <1>26, <1>27 DEF Next, Step

(* ... TreeInv, ...                                                        *)
LEMMA TreeStep ==
  ASSUME TypeInv, RoadInv, TreeInv, [Next]_vars
  PROVE  TreeInv'
  <1>1. ASSUME NEW q \in Workers, UserDelete(q) PROVE TreeInv'
    BY <1>1, AccountConstants DEF UserDelete, NewAccount, Done, Drop, Goto,
       config, links, ghosts, NoUser, RoadInv, TreeInv, Staging, InUse,
       Staged, TypeInv, TypeOK
  <1>2. ASSUME NEW q \in Workers, StageUserPend(q) PROVE TreeInv'
    BY <1>2, AccountConstants DEF StageUserPend, Goto, Stop, Done, Drop,
       Staged, config, links, ghosts, RoadInv, TreeInv, Staging, InUse,
       TypeInv, TypeOK
  <1>3. ASSUME NEW q \in Workers, UserDisable(q) PROVE TreeInv'
    BY <1>3, AccountConstants DEF UserDisable, Goto, InUse, config, links,
       RoadInv, TreeInv, Staging, Staged, TypeInv, TypeOK
  <1>4. ASSUME NEW q \in Workers, StageUserAdd(q) PROVE TreeInv'
    <2>1. CASE Staged
      BY <1>4, <2>1, AccountConstants DEF StageUserAdd, Stop, Done, Drop,
         Goto, Staged, config, links, ghosts, RoadInv, TreeInv, Staging,
         InUse, TypeInv, TypeOK
    <2>2. CASE ~Staged
      BY <1>4, <2>2, StageUserAddFacts, AccountConstants
         DEF Staged, RoadInv, TreeInv, Staging, InUse, TypeInv, TypeOK
    <2> QED
      BY <2>1, <2>2
  <1>5. ASSUME NEW q \in Workers, MailFails(q) PROVE TreeInv'
    BY <1>5, AccountConstants DEF MailFails, Stop, Done, Drop, Goto,
       config, links, ghosts, RoadInv, TreeInv, Staging, InUse, Staged,
       TypeInv, TypeOK
  <1>6. ASSUME NEW q \in Workers, AccountVerifyResend(q) PROVE TreeInv'
    BY <1>6, AccountConstants DEF AccountVerifyResend, Begin, Goto, InUse,
       Staged, config, links, ghosts, RoadInv, TreeInv, Staging, TypeInv,
       TypeOK
  <1>7. ASSUME NEW q \in Workers, VerifyShow(q) PROVE TreeInv'
    BY <1>7, AccountConstants DEF VerifyShow, Goto, Done, Drop, InUse,
       Staged, Read, Mark, config, links, ghosts, RoadInv, TreeInv, Staging,
       TypeInv, TypeOK
  <1>8. ASSUME NEW q \in Workers, StageUserClear(q) PROVE TreeInv'
    BY <1>8, AccountConstants DEF StageUserClear, Goto, Stop, Done, Drop,
       Staged, config, links, ghosts, RoadInv, TreeInv, Staging, InUse,
       TypeInv, TypeOK
  <1>9. ASSUME NEW q \in Workers, StageUserActivate(q) PROVE TreeInv'
    BY <1>9, AccountConstants DEF StageUserActivate, Goto, Done, Drop,
       Staged, InUse, NewAccount, NoStage, config, links, RoadInv, TreeInv,
       Staging, TypeInv, TypeOK
  <1>10. ASSUME NEW q \in Workers, VerifyEnable(q) PROVE TreeInv'
    BY <1>10, AccountConstants DEF VerifyEnable, Goto, Stop, Done, Drop,
       InUse, Read, Mark, config, links, ghosts, RoadInv, TreeInv, Staging,
       Staged, TypeInv, TypeOK
  <1>11. ASSUME NEW q \in Workers, VerifyModify(q) PROVE TreeInv'
    BY <1>11, VerifyModifyFacts DEF TreeInv, Staging, Staged, InUse, TypeInv,
       TypeOK
  <1>12. ASSUME NEW q \in Workers, FinishAccountVerify(q) PROVE TreeInv'
    BY <1>12, AccountConstants DEF FinishAccountVerify, Done, Drop, Goto,
       config, ghosts, RoadInv, TreeInv, Staging, InUse, Staged, TypeInv,
       TypeOK
  <1>13. ASSUME NEW q \in Workers, Approve(q) PROVE TreeInv'
    BY <1>13, AccountConstants DEF Approve, Decide, Goto, StagePending,
       UserPending, InUse, Staged, config, links, ghosts, RoadInv, TreeInv,
       Staging, TypeInv, TypeOK
  <1>14. ASSUME NEW q \in Workers, Deny(q) PROVE TreeInv'
    BY <1>14, AccountConstants DEF Deny, Decide, Goto, StagePending,
       UserPending, InUse, Staged, config, links, ghosts, RoadInv, TreeInv,
       Staging, TypeInv, TypeOK
  <1>15. ASSUME NEW q \in Workers, ApproveEnable(q) PROVE TreeInv'
    BY <1>15, AccountConstants DEF ApproveEnable, Stop, Done, Drop, Goto,
       InUse, config, links, ghosts, RoadInv, TreeInv, Staging, Staged,
       TypeInv, TypeOK
  <1>16. ASSUME NEW q \in Workers, ApproveModify(q) PROVE TreeInv'
    BY <1>16, AccountConstants DEF ApproveModify, UserMod, Stop, Done,
       Drop, Goto, InUse, config, links, ghosts, RoadInv, TreeInv, Staging,
       Staged, TypeInv, TypeOK
  <1>17. ASSUME NEW q \in Workers, DenyDelete(q) PROVE TreeInv'
    BY <1>17, AccountConstants DEF DenyDelete, NewAccount, Done, Drop,
       Goto, NoStage, NoUser, config, links, ghosts, RoadInv, TreeInv,
       Staging, InUse, Staged, TypeInv, TypeOK
  <1>18. ASSUME NEW q \in Workers, BreakOff(q) PROVE TreeInv'
    BY <1>18, AccountConstants DEF BreakOff, Done, Drop, Goto, Staged,
       config, links, RoadInv, TreeInv, Staging, InUse, TypeInv, TypeOK
  <1>19. ASSUME NEW q \in Workers, NEW o \in Owners, AccountCreate(q, o)
         PROVE  TreeInv'
    BY <1>19, AccountConstants DEF AccountCreate, AddUser, Begin, Goto,
       InUse, NameTaken, NewAccount, config, links, RoadInv, TreeInv, Staging,
       Staged, TypeInv, TypeOK
  <1>20. ASSUME NEW q \in Workers, NEW o \in Owners, InviteAccept(q, o)
         PROVE  TreeInv'
    BY <1>20, AccountConstants DEF InviteAccept, AddUser, Begin, Goto,
       InUse, NameTaken, NewAccount, config, links, RoadInv, TreeInv, Staging,
       Staged, TypeInv, TypeOK
  <1>21. ASSUME NEW q \in Workers, NEW o \in Owners, StagedAccountCreate(q, o)
         PROVE  TreeInv'
    BY <1>21, AccountConstants DEF StagedAccountCreate, Begin, Goto, InUse,
       config, links, ghosts, RoadInv, TreeInv, Staging, Staged, TypeInv,
       TypeOK
  <1>22. ASSUME NEW q \in Workers, NEW l \in Links, SendAccountVerifyEmail(q, l)
         PROVE  TreeInv'
    BY <1>22, AccountConstants DEF SendAccountVerifyEmail, Done, Drop,
       Goto, config, ghosts, RoadInv, TreeInv, Staging, InUse, Staged,
       TypeInv, TypeOK
  <1>23. ASSUME NEW q \in Workers, NEW l \in Links, AccountVerify(q, l)
         PROVE  TreeInv'
    BY <1>23, AccountConstants DEF AccountVerify, Begin, Goto, config,
       links, RoadInv, TreeInv, Staging, InUse, Staged, TypeInv, TypeOK
  <1>24. ASSUME Block PROVE TreeInv'
    BY <1>24, AccountConstants DEF Block, InUse, config, links, RoadInv,
       TreeInv, Staging, Staged, TypeInv, TypeOK
  <1>25. ASSUME Unblock PROVE TreeInv'
    BY <1>25, AccountConstants DEF Unblock, InUse, config, links, RoadInv,
       TreeInv, Staging, Staged, TypeInv, TypeOK
  <1>26. ASSUME TurnOnStaging PROVE TreeInv'
    BY <1>26, AccountConstants DEF TurnOnStaging, links, ghosts, RoadInv,
       TreeInv, Staging, InUse, Staged, TypeInv, TypeOK
  <1>27. CASE UNCHANGED vars
    BY <1>27, AccountConstants DEF vars, RoadInv, TreeInv, Staging, InUse,
       Staged, TypeInv, TypeOK
  <1> QED
    BY <1>1, <1>2, <1>3, <1>4, <1>5, <1>6, <1>7, <1>8, <1>9, <1>10, <1>11,
       <1>12, <1>13, <1>14, <1>15, <1>16, <1>17, <1>18, <1>19, <1>20, <1>21,
       <1>22, <1>23, <1>24, <1>25, <1>26, <1>27 DEF Next, Step

(* ... ClaimInv, ...                                                       *)
LEMMA ClaimStep ==
  ASSUME TypeInv, RoadInv, TreeInv, EmailInv, ClaimInv, [Next]_vars
  PROVE  ClaimInv'
  <1>1. ASSUME NEW q \in Workers, UserDelete(q) PROVE ClaimInv'
    BY <1>1, AccountConstants DEF UserDelete, NewAccount, Done, Drop, Goto,
       config, links, ghosts, NoUser, RoadInv, TreeInv, ClaimInv, Unsure,
       Claims, Staging, InUse, Staged, TypeInv, TypeOK, AboutInv, SigningUp,
       Verifying
  <1>2. ASSUME NEW q \in Workers, StageUserPend(q) PROVE ClaimInv'
    BY <1>2, AccountConstants DEF StageUserPend, Goto, Stop, Done, Drop,
       Staged, config, links, ghosts, RoadInv, TreeInv, ClaimInv, Unsure,
       Claims, Staging, InUse, TypeInv, TypeOK, AboutInv, SigningUp, Verifying
  <1>3. ASSUME NEW q \in Workers, UserDisable(q) PROVE ClaimInv'
    BY <1>3, AccountConstants DEF UserDisable, Goto, InUse, config, links,
       RoadInv, TreeInv, ClaimInv, Unsure, Claims, Staging, Staged, TypeInv,
       TypeOK, AboutInv, SigningUp, Verifying
  <1>4. ASSUME NEW q \in Workers, StageUserAdd(q) PROVE ClaimInv'
    <2>1. CASE Staged
      BY <1>4, <2>1, AccountConstants DEF StageUserAdd, Stop, Done, Drop,
         Goto, Staged, config, links, ghosts, RoadInv, TreeInv, ClaimInv,
         Unsure, Claims, Staging, InUse, TypeInv, TypeOK, AboutInv, SigningUp,
         Verifying
    <2>2. CASE ~Staged
      BY <1>4, <2>2, StageUserAddFacts, AccountConstants
         DEF Staged, RoadInv, TreeInv, ClaimInv, Unsure, Claims, Staging,
            InUse, TypeInv, TypeOK, AboutInv, SigningUp, Verifying
    <2> QED
      BY <2>1, <2>2
  <1>5. ASSUME NEW q \in Workers, MailFails(q) PROVE ClaimInv'
    BY <1>5, AccountConstants DEF MailFails, Stop, Done, Drop, Goto,
       config, links, ghosts, RoadInv, TreeInv, ClaimInv, Unsure, Claims,
       Staging, InUse, Staged, TypeInv, TypeOK, AboutInv, SigningUp, Verifying
  <1>6. ASSUME NEW q \in Workers, AccountVerifyResend(q) PROVE ClaimInv'
    <2>1. PICK o : /\ pc' = [pc EXCEPT ![q] = "mail"]
                   /\ about' = [about EXCEPT ![q] = o]
                   /\ \/ InUse /\ user.category = "unverified" /\ o = user.owner
                      \/ Staged /\ o = stage.owner
      BY <1>6 DEF AccountVerifyResend, Begin, Goto, EmailInv
    <2>2. /\ UNCHANGED <<require_admin_verify, user, stage, sentTo, spent,
                         proven, recycled>>
          /\ pc[q] = "idle"
      BY <1>6 DEF AccountVerifyResend, config, links, ghosts
    <2>3. \A c \in Owners : Claims(c)' => Claims(c) \/ c = o
      BY <2>1, <2>2 DEF Claims, Verifying, TypeInv, TypeOK
    <2>4. Unsure /\ InUse /\ user.owner \notin proven =>
            /\ Staged => stage.owner = user.owner
            /\ o = user.owner
      BY <2>1, <2>2 DEF ClaimInv
    <2>5. Unsure /\ Staged /\ stage.owner \notin proven => o = stage.owner
      BY <2>1 DEF TreeInv, Unsure, TypeInv, TypeOK
    <2> QED
      BY <2>2, <2>3, <2>4, <2>5 DEF ClaimInv, Unsure, InUse, Staged
  <1>7. ASSUME NEW q \in Workers, VerifyShow(q) PROVE ClaimInv'
    BY <1>7, AccountConstants DEF VerifyShow, Goto, Done, Drop, InUse,
       Staged, Read, Mark, config, links, ghosts, RoadInv, TreeInv, ClaimInv,
       Unsure, Claims, Staging, TypeInv, TypeOK, AboutInv, SigningUp,
       Verifying
  <1>8. ASSUME NEW q \in Workers, StageUserClear(q) PROVE ClaimInv'
    BY <1>8, AccountConstants DEF StageUserClear, Goto, Stop, Done, Drop,
       Staged, config, links, ghosts, RoadInv, TreeInv, ClaimInv, Unsure,
       Claims, Staging, InUse, TypeInv, TypeOK, AboutInv, SigningUp, Verifying
  <1>9. ASSUME NEW q \in Workers, StageUserActivate(q) PROVE ClaimInv'
    BY <1>9, AccountConstants DEF StageUserActivate, Goto, Done, Drop,
       Staged, InUse, NewAccount, NoStage, config, links, RoadInv, TreeInv,
       ClaimInv, Unsure, Claims, Staging, TypeInv, TypeOK, AboutInv,
       SigningUp, Verifying
  <1>10. ASSUME NEW q \in Workers, VerifyEnable(q) PROVE ClaimInv'
    BY <1>10, AccountConstants DEF VerifyEnable, Goto, Stop, Done, Drop,
       InUse, Read, Mark, config, links, ghosts, RoadInv, TreeInv, ClaimInv,
       Unsure, Claims, Staging, Staged, TypeInv, TypeOK, AboutInv, SigningUp,
       Verifying
  <1>11. ASSUME NEW q \in Workers, VerifyModify(q) PROVE ClaimInv'
    <2>1. Staged' = Staged /\ InUse' = InUse
      BY <1>11, VerifyModifyFacts DEF Staged, InUse
    <2>2. \A c \in Owners : Claims(c)' => Claims(c)
      BY <1>11, VerifyModifyFacts DEF Claims, Verifying, TypeInv, TypeOK
    <2> QED
      BY <1>11, <2>1, <2>2, VerifyModifyFacts DEF ClaimInv, Unsure
  <1>12. ASSUME NEW q \in Workers, FinishAccountVerify(q) PROVE ClaimInv'
    BY <1>12, AccountConstants DEF FinishAccountVerify, Done, Drop, Goto,
       config, ghosts, RoadInv, TreeInv, ClaimInv, Unsure, Claims, Staging,
       InUse, Staged, TypeInv, TypeOK, AboutInv, SigningUp, Verifying
  <1>13. ASSUME NEW q \in Workers, Approve(q) PROVE ClaimInv'
    BY <1>13, AccountConstants DEF Approve, Decide, Goto, StagePending,
       UserPending, InUse, Staged, config, links, ghosts, RoadInv, TreeInv,
       ClaimInv, Unsure, Claims, Staging, TypeInv, TypeOK, AboutInv,
       SigningUp, Verifying
  <1>14. ASSUME NEW q \in Workers, Deny(q) PROVE ClaimInv'
    BY <1>14, AccountConstants DEF Deny, Decide, Goto, StagePending,
       UserPending, InUse, Staged, config, links, ghosts, RoadInv, TreeInv,
       ClaimInv, Unsure, Claims, Staging, TypeInv, TypeOK, AboutInv,
       SigningUp, Verifying
  <1>15. ASSUME NEW q \in Workers, ApproveEnable(q) PROVE ClaimInv'
    BY <1>15, AccountConstants DEF ApproveEnable, Stop, Done, Drop, Goto,
       InUse, config, links, ghosts, RoadInv, TreeInv, ClaimInv, Unsure,
       Claims, Staging, Staged, TypeInv, TypeOK, AboutInv, SigningUp,
       Verifying
  <1>16. ASSUME NEW q \in Workers, ApproveModify(q) PROVE ClaimInv'
    BY <1>16, AccountConstants DEF ApproveModify, UserMod, Stop, Done,
       Drop, Goto, InUse, config, links, ghosts, RoadInv, TreeInv, ClaimInv,
       Unsure, Claims, Staging, Staged, TypeInv, TypeOK, AboutInv, SigningUp,
       Verifying
  <1>17. ASSUME NEW q \in Workers, DenyDelete(q) PROVE ClaimInv'
    BY <1>17, AccountConstants DEF DenyDelete, NewAccount, Done, Drop,
       Goto, NoStage, NoUser, config, links, ghosts, RoadInv, TreeInv,
       ClaimInv, Unsure, Claims, Staging, InUse, Staged, TypeInv, TypeOK,
       AboutInv, SigningUp, Verifying
  <1>18. ASSUME NEW q \in Workers, BreakOff(q) PROVE ClaimInv'
    BY <1>18, AccountConstants DEF BreakOff, Done, Drop, Goto, Staged,
       config, links, RoadInv, TreeInv, ClaimInv, Unsure, Claims, Staging,
       InUse, TypeInv, TypeOK, AboutInv, SigningUp, Verifying
  <1>19. ASSUME NEW q \in Workers, NEW o \in Owners, AccountCreate(q, o)
         PROVE  ClaimInv'
    BY <1>19, AccountConstants DEF AccountCreate, AddUser, Begin, Goto,
       InUse, NameTaken, NewAccount, config, links, RoadInv, TreeInv,
       ClaimInv, Unsure, Claims, Staging, Staged, TypeInv, TypeOK, AboutInv,
       SigningUp, Verifying
  <1>20. ASSUME NEW q \in Workers, NEW o \in Owners, InviteAccept(q, o)
         PROVE  ClaimInv'
    BY <1>20, AccountConstants DEF InviteAccept, AddUser, Begin, Goto,
       InUse, NameTaken, NewAccount, config, links, RoadInv, TreeInv,
       ClaimInv, Unsure, Claims, Staging, Staged, TypeInv, TypeOK, AboutInv,
       SigningUp, Verifying
  <1>21. ASSUME NEW q \in Workers, NEW o \in Owners, StagedAccountCreate(q, o)
         PROVE  ClaimInv'
    BY <1>21, AccountConstants DEF StagedAccountCreate, Begin, Goto, InUse,
       config, links, ghosts, RoadInv, TreeInv, ClaimInv, Unsure, Claims,
       Staging, Staged, TypeInv, TypeOK, AboutInv, SigningUp, Verifying
  <1>22. ASSUME NEW q \in Workers, NEW l \in Links, SendAccountVerifyEmail(q, l)
         PROVE  ClaimInv'
    BY <1>22, AccountConstants DEF SendAccountVerifyEmail, Done, Drop,
       Goto, config, ghosts, RoadInv, TreeInv, ClaimInv, Unsure, Claims,
       Staging, InUse, Staged, TypeInv, TypeOK, AboutInv, SigningUp, Verifying
  <1>23. ASSUME NEW q \in Workers, NEW l \in Links, AccountVerify(q, l)
         PROVE  ClaimInv'
    BY <1>23, AccountConstants DEF AccountVerify, Begin, Goto, config,
       links, RoadInv, TreeInv, ClaimInv, Unsure, Claims, Staging, InUse,
       Staged, TypeInv, TypeOK, AboutInv, SigningUp, Verifying
  <1>24. ASSUME Block PROVE ClaimInv'
    BY <1>24, AccountConstants DEF Block, InUse, config, links, RoadInv,
       TreeInv, ClaimInv, Unsure, Claims, Staging, Staged, TypeInv, TypeOK,
       AboutInv, SigningUp, Verifying
  <1>25. ASSUME Unblock PROVE ClaimInv'
    BY <1>25, AccountConstants DEF Unblock, InUse, config, links, RoadInv,
       TreeInv, ClaimInv, Unsure, Claims, Staging, Staged, TypeInv, TypeOK,
       AboutInv, SigningUp, Verifying
  <1>26. ASSUME TurnOnStaging PROVE ClaimInv'
    BY <1>26, AccountConstants DEF TurnOnStaging, links, ghosts, RoadInv,
       TreeInv, ClaimInv, Unsure, Claims, Staging, InUse, Staged, TypeInv,
       TypeOK, AboutInv, SigningUp, Verifying
  <1>27. CASE UNCHANGED vars
    BY <1>27, AccountConstants DEF vars, RoadInv, TreeInv, ClaimInv,
       Unsure, Claims, Staging, InUse, Staged, TypeInv, TypeOK, AboutInv,
       SigningUp, Verifying
  <1> QED
    BY <1>1, <1>2, <1>3, <1>4, <1>5, <1>6, <1>7, <1>8, <1>9, <1>10, <1>11,
       <1>12, <1>13, <1>14, <1>15, <1>16, <1>17, <1>18, <1>19, <1>20, <1>21,
       <1>22, <1>23, <1>24, <1>25, <1>26, <1>27 DEF Next, Step

(* ... EmailInv, ...                                                       *)
LEMMA EmailStep ==
  ASSUME TypeInv, RoadInv, ClaimInv, EmailInv, [Next]_vars
  PROVE  EmailInv'
  <1>1. ASSUME NEW q \in Workers, UserDelete(q) PROVE EmailInv'
    BY <1>1, AccountConstants DEF UserDelete, NewAccount, Done, Drop, Goto,
       config, links, ghosts, NoUser, RoadInv, EmailInv, Unsure, InUse,
       Staged, TypeInv, TypeOK
  <1>2. ASSUME NEW q \in Workers, StageUserPend(q) PROVE EmailInv'
    BY <1>2, AccountConstants DEF StageUserPend, Goto, Stop, Done, Drop,
       Staged, config, links, ghosts, RoadInv, EmailInv, Unsure, InUse,
       TypeInv, TypeOK
  <1>3. ASSUME NEW q \in Workers, UserDisable(q) PROVE EmailInv'
    BY <1>3, AccountConstants DEF UserDisable, Goto, InUse, config, links,
       RoadInv, EmailInv, Unsure, Staged, TypeInv, TypeOK
  <1>4. ASSUME NEW q \in Workers, StageUserAdd(q) PROVE EmailInv'
    <2>1. CASE Staged
      BY <1>4, <2>1, AccountConstants DEF StageUserAdd, Stop, Done, Drop,
         Goto, Staged, config, links, ghosts, RoadInv, EmailInv, Unsure,
         InUse, TypeInv, TypeOK
    <2>2. CASE ~Staged
      BY <1>4, <2>2, StageUserAddFacts, AccountConstants
         DEF Staged, RoadInv, EmailInv, Unsure, InUse, TypeInv, TypeOK
    <2> QED
      BY <2>1, <2>2
  <1>5. ASSUME NEW q \in Workers, MailFails(q) PROVE EmailInv'
    BY <1>5, AccountConstants DEF MailFails, Stop, Done, Drop, Goto,
       config, links, ghosts, RoadInv, EmailInv, Unsure, InUse, Staged,
       TypeInv, TypeOK
  <1>6. ASSUME NEW q \in Workers, AccountVerifyResend(q) PROVE EmailInv'
    BY <1>6, AccountConstants DEF AccountVerifyResend, Begin, Goto, InUse,
       Staged, config, links, ghosts, RoadInv, EmailInv, Unsure, TypeInv,
       TypeOK
  <1>7. ASSUME NEW q \in Workers, VerifyShow(q) PROVE EmailInv'
    BY <1>7, AccountConstants DEF VerifyShow, Goto, Done, Drop, Read, Mark,
       InUse, Staged, config, links, ghosts, RoadInv, ClaimInv, Claims,
       EmailInv, Unsure, TypeInv, TypeOK, AboutInv, Verifying
  <1>8. ASSUME NEW q \in Workers, StageUserClear(q) PROVE EmailInv'
    BY <1>8, AccountConstants DEF StageUserClear, Goto, Stop, Done, Drop,
       Staged, config, links, ghosts, RoadInv, EmailInv, Unsure, InUse,
       TypeInv, TypeOK
  <1>9. ASSUME NEW q \in Workers, StageUserActivate(q) PROVE EmailInv'
    BY <1>9, AccountConstants DEF StageUserActivate, Goto, Done, Drop,
       Staged, InUse, NewAccount, NoStage, config, links, RoadInv, EmailInv,
       Unsure, TypeInv, TypeOK
  <1>10. ASSUME NEW q \in Workers, VerifyEnable(q) PROVE EmailInv'
    BY <1>10, AccountConstants DEF VerifyEnable, Goto, Stop, Done, Drop,
       InUse, Read, Mark, config, links, ghosts, RoadInv, EmailInv, Unsure,
       Staged, TypeInv, TypeOK
  <1>11. ASSUME NEW q \in Workers, VerifyModify(q) PROVE EmailInv'
    BY <1>11, VerifyModifyFacts DEF EmailInv, Unsure, RoadInv, InUse, TypeInv,
       TypeOK
  <1>12. ASSUME NEW q \in Workers, FinishAccountVerify(q) PROVE EmailInv'
    BY <1>12, AccountConstants DEF FinishAccountVerify, Done, Drop, Goto,
       config, ghosts, RoadInv, EmailInv, Unsure, InUse, Staged, TypeInv,
       TypeOK
  <1>13. ASSUME NEW q \in Workers, Approve(q) PROVE EmailInv'
    BY <1>13, AccountConstants DEF Approve, Decide, Goto, StagePending,
       UserPending, InUse, Staged, config, links, ghosts, RoadInv, EmailInv,
       Unsure, TypeInv, TypeOK
  <1>14. ASSUME NEW q \in Workers, Deny(q) PROVE EmailInv'
    BY <1>14, AccountConstants DEF Deny, Decide, Goto, StagePending,
       UserPending, InUse, Staged, config, links, ghosts, RoadInv, EmailInv,
       Unsure, TypeInv, TypeOK
  <1>15. ASSUME NEW q \in Workers, ApproveEnable(q) PROVE EmailInv'
    BY <1>15, AccountConstants DEF ApproveEnable, Stop, Done, Drop, Goto,
       InUse, config, links, ghosts, RoadInv, EmailInv, Unsure, Staged,
       TypeInv, TypeOK
  <1>16. ASSUME NEW q \in Workers, ApproveModify(q) PROVE EmailInv'
    BY <1>16, AccountConstants DEF ApproveModify, UserMod, Stop, Done,
       Drop, Goto, InUse, config, links, ghosts, RoadInv, EmailInv, Unsure,
       Staged, TypeInv, TypeOK
  <1>17. ASSUME NEW q \in Workers, DenyDelete(q) PROVE EmailInv'
    BY <1>17, AccountConstants DEF DenyDelete, NewAccount, Done, Drop,
       Goto, NoStage, NoUser, config, links, ghosts, RoadInv, EmailInv,
       Unsure, InUse, Staged, TypeInv, TypeOK
  <1>18. ASSUME NEW q \in Workers, BreakOff(q) PROVE EmailInv'
    BY <1>18, AccountConstants DEF BreakOff, Done, Drop, Goto, Staged,
       config, links, RoadInv, EmailInv, Unsure, InUse, TypeInv, TypeOK
  <1>19. ASSUME NEW q \in Workers, NEW o \in Owners, AccountCreate(q, o)
         PROVE  EmailInv'
    BY <1>19, AccountConstants DEF AccountCreate, AddUser, Begin, Goto,
       InUse, NameTaken, NewAccount, config, links, RoadInv, EmailInv, Unsure,
       Staged, TypeInv, TypeOK
  <1>20. ASSUME NEW q \in Workers, NEW o \in Owners, InviteAccept(q, o)
         PROVE  EmailInv'
    BY <1>20, AccountConstants DEF InviteAccept, AddUser, Begin, Goto,
       InUse, NameTaken, NewAccount, config, links, RoadInv, EmailInv, Unsure,
       Staged, TypeInv, TypeOK
  <1>21. ASSUME NEW q \in Workers, NEW o \in Owners, StagedAccountCreate(q, o)
         PROVE  EmailInv'
    BY <1>21, AccountConstants DEF StagedAccountCreate, Begin, Goto, InUse,
       config, links, ghosts, RoadInv, EmailInv, Unsure, Staged, TypeInv,
       TypeOK
  <1>22. ASSUME NEW q \in Workers, NEW l \in Links, SendAccountVerifyEmail(q, l)
         PROVE  EmailInv'
    BY <1>22, AccountConstants DEF SendAccountVerifyEmail, Done, Drop,
       Goto, config, ghosts, RoadInv, EmailInv, Unsure, InUse, Staged,
       TypeInv, TypeOK
  <1>23. ASSUME NEW q \in Workers, NEW l \in Links, AccountVerify(q, l)
         PROVE  EmailInv'
    BY <1>23, AccountConstants DEF AccountVerify, Begin, Goto, config,
       links, RoadInv, EmailInv, Unsure, InUse, Staged, TypeInv, TypeOK
  <1>24. ASSUME Block PROVE EmailInv'
    BY <1>24, AccountConstants DEF Block, InUse, config, links, RoadInv,
       EmailInv, Unsure, Staged, TypeInv, TypeOK
  <1>25. ASSUME Unblock PROVE EmailInv'
    BY <1>25, AccountConstants DEF Unblock, InUse, config, links, RoadInv,
       EmailInv, Unsure, Staged, TypeInv, TypeOK
  <1>26. ASSUME TurnOnStaging PROVE EmailInv'
    BY <1>26, AccountConstants DEF TurnOnStaging, links, ghosts, RoadInv,
       EmailInv, Unsure, InUse, Staged, TypeInv, TypeOK
  <1>27. CASE UNCHANGED vars
    BY <1>27, AccountConstants DEF vars, RoadInv, EmailInv, Unsure, InUse,
       Staged, TypeInv, TypeOK
  <1> QED
    BY <1>1, <1>2, <1>3, <1>4, <1>5, <1>6, <1>7, <1>8, <1>9, <1>10, <1>11,
       <1>12, <1>13, <1>14, <1>15, <1>16, <1>17, <1>18, <1>19, <1>20, <1>21,
       <1>22, <1>23, <1>24, <1>25, <1>26, <1>27 DEF Next, Step

(* ... and UsableOnlyIfProven.                                             *)
LEMMA ProvenStep ==
  ASSUME TypeInv, RoadInv, ClaimInv, EmailInv, UsableOnlyIfApproved',
         UsableOnlyIfProven, [Next]_vars
  PROVE  UsableOnlyIfProven'
  <1>1. ASSUME NEW q \in Workers, UserDelete(q) PROVE UsableOnlyIfProven'
    BY <1>1, AccountConstants DEF UserDelete, NewAccount, Done, Drop, Goto,
       config, links, ghosts, NoUser, RoadInv, ClaimInv, EmailInv, Unsure,
       Claims, UsableOnlyIfApproved, UsableOnlyIfProven, Usable, InUse,
       Staged, BeingDisabled, TypeInv, TypeOK, AboutInv, SigningUp, Verifying
  <1>2. ASSUME NEW q \in Workers, StageUserPend(q)
        PROVE  UsableOnlyIfProven'
    BY <1>2, AccountConstants DEF StageUserPend, Goto, Stop, Done, Drop,
       Staged, config, links, ghosts, RoadInv, ClaimInv, EmailInv, Unsure,
       Claims, UsableOnlyIfApproved, UsableOnlyIfProven, Usable, InUse,
       BeingDisabled, TypeInv, TypeOK, AboutInv, SigningUp, Verifying
  <1>3. ASSUME NEW q \in Workers, UserDisable(q) PROVE UsableOnlyIfProven'
    BY <1>3, AccountConstants DEF UserDisable, Goto, InUse, config, links,
       RoadInv, ClaimInv, EmailInv, Unsure, Claims, UsableOnlyIfApproved,
       UsableOnlyIfProven, Usable, Staged, BeingDisabled, TypeInv, TypeOK,
       AboutInv, SigningUp, Verifying
  <1>4. ASSUME NEW q \in Workers, StageUserAdd(q) PROVE UsableOnlyIfProven'
    <2>1. CASE Staged
      BY <1>4, <2>1, AccountConstants DEF StageUserAdd, Stop, Done, Drop,
         Goto, Staged, config, links, ghosts, RoadInv, ClaimInv, EmailInv,
         Unsure, Claims, UsableOnlyIfApproved, UsableOnlyIfProven, Usable,
         InUse, BeingDisabled, TypeInv, TypeOK, AboutInv, SigningUp, Verifying
    <2>2. CASE ~Staged
      BY <1>4, <2>2, StageUserAddFacts, AccountConstants
         DEF Staged, RoadInv, ClaimInv, EmailInv, Unsure, Claims,
            UsableOnlyIfApproved, UsableOnlyIfProven, Usable, InUse,
            BeingDisabled, TypeInv, TypeOK, AboutInv, SigningUp, Verifying
    <2> QED
      BY <2>1, <2>2
  <1>5. ASSUME NEW q \in Workers, MailFails(q) PROVE UsableOnlyIfProven'
    BY <1>5, AccountConstants DEF MailFails, Stop, Done, Drop, Goto,
       config, links, ghosts, RoadInv, ClaimInv, EmailInv, Unsure, Claims,
       UsableOnlyIfApproved, UsableOnlyIfProven, Usable, InUse, Staged,
       BeingDisabled, TypeInv, TypeOK, AboutInv, SigningUp, Verifying
  <1>6. ASSUME NEW q \in Workers, AccountVerifyResend(q)
        PROVE  UsableOnlyIfProven'
    BY <1>6, AccountConstants DEF AccountVerifyResend, Begin, Goto, InUse,
       Staged, config, links, ghosts, RoadInv, ClaimInv, EmailInv, Unsure,
       Claims, UsableOnlyIfApproved, UsableOnlyIfProven, Usable,
       BeingDisabled, TypeInv, TypeOK, AboutInv, SigningUp, Verifying
  <1>7. ASSUME NEW q \in Workers, VerifyShow(q) PROVE UsableOnlyIfProven'
    BY <1>7, AccountConstants DEF VerifyShow, Goto, Done, Drop, InUse,
       Staged, Read, Mark, config, links, ghosts, RoadInv, ClaimInv, EmailInv,
       Unsure, Claims, UsableOnlyIfApproved, UsableOnlyIfProven, Usable,
       BeingDisabled, TypeInv, TypeOK, AboutInv, SigningUp, Verifying
  <1>8. ASSUME NEW q \in Workers, StageUserClear(q)
        PROVE  UsableOnlyIfProven'
    BY <1>8, AccountConstants DEF StageUserClear, Goto, Stop, Done, Drop,
       Staged, config, links, ghosts, RoadInv, ClaimInv, EmailInv, Unsure,
       Claims, UsableOnlyIfApproved, UsableOnlyIfProven, Usable, InUse,
       BeingDisabled, TypeInv, TypeOK, AboutInv, SigningUp, Verifying
  <1>9. ASSUME NEW q \in Workers, StageUserActivate(q)
        PROVE  UsableOnlyIfProven'
    BY <1>9, AccountConstants DEF StageUserActivate, Goto, Done, Drop,
       Staged, InUse, NewAccount, NoStage, config, links, RoadInv, ClaimInv,
       EmailInv, Unsure, Claims, UsableOnlyIfApproved, UsableOnlyIfProven,
       Usable, BeingDisabled, TypeInv, TypeOK, AboutInv, SigningUp, Verifying
  <1>10. ASSUME NEW q \in Workers, VerifyEnable(q) PROVE UsableOnlyIfProven'
    BY <1>10, AccountConstants DEF VerifyEnable, Goto, Stop, Done, Drop,
       InUse, Read, Mark, config, links, ghosts, RoadInv, ClaimInv, EmailInv,
       Unsure, Claims, UsableOnlyIfApproved, UsableOnlyIfProven, Usable,
       Staged, BeingDisabled, TypeInv, TypeOK, AboutInv, SigningUp, Verifying
  <1>11. ASSUME NEW q \in Workers, VerifyModify(q) PROVE UsableOnlyIfProven'
    <2>1. BeingDisabled => BeingDisabled'
      BY <1>11, VerifyModifyFacts DEF BeingDisabled, TypeInv, TypeOK
    <2>2. {user.owner, user.email} \subseteq proven /\ Unsure /\ InUse =>
            {user.owner, user.email}' \subseteq proven'
      BY <1>11, VerifyModifyFacts DEF EmailInv
    <2> QED
      BY <1>11, <2>1, <2>2, VerifyModifyFacts DEF UsableOnlyIfProven, Usable,
         InUse, Unsure, UsableOnlyIfApproved
  <1>12. ASSUME NEW q \in Workers, FinishAccountVerify(q)
         PROVE  UsableOnlyIfProven'
    BY <1>12, AccountConstants DEF FinishAccountVerify, Done, Drop, Goto,
       config, ghosts, RoadInv, ClaimInv, EmailInv, Unsure, Claims,
       UsableOnlyIfApproved, UsableOnlyIfProven, Usable, InUse, Staged,
       BeingDisabled, TypeInv, TypeOK, AboutInv, SigningUp, Verifying
  <1>13. ASSUME NEW q \in Workers, Approve(q) PROVE UsableOnlyIfProven'
    BY <1>13, AccountConstants DEF Approve, Decide, Goto, StagePending,
       UserPending, InUse, Staged, config, links, ghosts, RoadInv, ClaimInv,
       EmailInv, Unsure, Claims, UsableOnlyIfApproved, UsableOnlyIfProven,
       Usable, BeingDisabled, TypeInv, TypeOK, AboutInv, SigningUp, Verifying
  <1>14. ASSUME NEW q \in Workers, Deny(q) PROVE UsableOnlyIfProven'
    BY <1>14, AccountConstants DEF Deny, Decide, Goto, StagePending,
       UserPending, InUse, Staged, config, links, ghosts, RoadInv, ClaimInv,
       EmailInv, Unsure, Claims, UsableOnlyIfApproved, UsableOnlyIfProven,
       Usable, BeingDisabled, TypeInv, TypeOK, AboutInv, SigningUp, Verifying
  <1>15. ASSUME NEW q \in Workers, ApproveEnable(q) PROVE UsableOnlyIfProven'
    BY <1>15, AccountConstants DEF ApproveEnable, Stop, Done, Drop, Goto,
       InUse, config, links, ghosts, RoadInv, ClaimInv, EmailInv, Unsure,
       Claims, UsableOnlyIfApproved, UsableOnlyIfProven, Usable, Staged,
       BeingDisabled, TypeInv, TypeOK, AboutInv, SigningUp, Verifying
  <1>16. ASSUME NEW q \in Workers, ApproveModify(q) PROVE UsableOnlyIfProven'
    BY <1>16, AccountConstants DEF ApproveModify, UserMod, Stop, Done,
       Drop, Goto, InUse, config, links, ghosts, RoadInv, ClaimInv, EmailInv,
       Unsure, Claims, UsableOnlyIfApproved, UsableOnlyIfProven, Usable,
       Staged, BeingDisabled, TypeInv, TypeOK, AboutInv, SigningUp, Verifying
  <1>17. ASSUME NEW q \in Workers, DenyDelete(q) PROVE UsableOnlyIfProven'
    BY <1>17, AccountConstants DEF DenyDelete, NewAccount, Done, Drop,
       Goto, NoStage, NoUser, config, links, ghosts, RoadInv, ClaimInv,
       EmailInv, Unsure, Claims, UsableOnlyIfApproved, UsableOnlyIfProven,
       Usable, InUse, Staged, BeingDisabled, TypeInv, TypeOK, AboutInv,
       SigningUp, Verifying
  <1>18. ASSUME NEW q \in Workers, BreakOff(q) PROVE UsableOnlyIfProven'
    BY <1>18, AccountConstants DEF BreakOff, Done, Drop, Goto, Staged,
       config, links, RoadInv, ClaimInv, EmailInv, Unsure, Claims,
       UsableOnlyIfApproved, UsableOnlyIfProven, Usable, InUse, BeingDisabled,
       TypeInv, TypeOK, AboutInv, SigningUp, Verifying
  <1>19. ASSUME NEW q \in Workers, NEW o \in Owners, AccountCreate(q, o)
         PROVE  UsableOnlyIfProven'
    BY <1>19, AccountConstants DEF AccountCreate, AddUser, Begin, Goto,
       InUse, NameTaken, NewAccount, config, links, RoadInv, ClaimInv,
       EmailInv, Unsure, Claims, UsableOnlyIfApproved, UsableOnlyIfProven,
       Usable, Staged, BeingDisabled, TypeInv, TypeOK, AboutInv, SigningUp,
       Verifying
  <1>20. ASSUME NEW q \in Workers, NEW o \in Owners, InviteAccept(q, o)
         PROVE  UsableOnlyIfProven'
    BY <1>20, AccountConstants DEF InviteAccept, AddUser, Begin, Goto,
       InUse, NameTaken, NewAccount, config, links, RoadInv, ClaimInv,
       EmailInv, Unsure, Claims, UsableOnlyIfApproved, UsableOnlyIfProven,
       Usable, Staged, BeingDisabled, TypeInv, TypeOK, AboutInv, SigningUp,
       Verifying
  <1>21. ASSUME NEW q \in Workers, NEW o \in Owners, StagedAccountCreate(q, o)
         PROVE  UsableOnlyIfProven'
    BY <1>21, AccountConstants DEF StagedAccountCreate, Begin, Goto, InUse,
       config, links, ghosts, RoadInv, ClaimInv, EmailInv, Unsure, Claims,
       UsableOnlyIfApproved, UsableOnlyIfProven, Usable, Staged,
       BeingDisabled, TypeInv, TypeOK, AboutInv, SigningUp, Verifying
  <1>22. ASSUME NEW q \in Workers, NEW l \in Links, SendAccountVerifyEmail(q, l)
         PROVE  UsableOnlyIfProven'
    BY <1>22, AccountConstants DEF SendAccountVerifyEmail, Done, Drop,
       Goto, config, ghosts, RoadInv, ClaimInv, EmailInv, Unsure, Claims,
       UsableOnlyIfApproved, UsableOnlyIfProven, Usable, InUse, Staged,
       BeingDisabled, TypeInv, TypeOK, AboutInv, SigningUp, Verifying
  <1>23. ASSUME NEW q \in Workers, NEW l \in Links, AccountVerify(q, l)
         PROVE  UsableOnlyIfProven'
    BY <1>23, AccountConstants DEF AccountVerify, Begin, Goto, config,
       links, RoadInv, ClaimInv, EmailInv, Unsure, Claims,
       UsableOnlyIfApproved, UsableOnlyIfProven, Usable, InUse, Staged,
       BeingDisabled, TypeInv, TypeOK, AboutInv, SigningUp, Verifying
  <1>24. ASSUME Block PROVE UsableOnlyIfProven'
    BY <1>24, AccountConstants DEF Block, InUse, config, links, RoadInv,
       ClaimInv, EmailInv, Unsure, Claims, UsableOnlyIfApproved,
       UsableOnlyIfProven, Usable, Staged, BeingDisabled, TypeInv, TypeOK,
       AboutInv, SigningUp, Verifying
  <1>25. ASSUME Unblock PROVE UsableOnlyIfProven'
    BY <1>25, AccountConstants DEF Unblock, InUse, config, links, RoadInv,
       ClaimInv, EmailInv, Unsure, Claims, UsableOnlyIfApproved,
       UsableOnlyIfProven, Usable, Staged, BeingDisabled, TypeInv, TypeOK,
       AboutInv, SigningUp, Verifying
  <1>26. ASSUME TurnOnStaging PROVE UsableOnlyIfProven'
    BY <1>26, AccountConstants DEF TurnOnStaging, links, ghosts, RoadInv,
       ClaimInv, EmailInv, Unsure, Claims, UsableOnlyIfApproved,
       UsableOnlyIfProven, Usable, InUse, Staged, BeingDisabled, TypeInv,
       TypeOK, AboutInv, SigningUp, Verifying
  <1>27. CASE UNCHANGED vars
    BY <1>27, AccountConstants DEF vars, RoadInv, ClaimInv, EmailInv,
       Unsure, Claims, UsableOnlyIfApproved, UsableOnlyIfProven, Usable,
       InUse, Staged, BeingDisabled, TypeInv, TypeOK, AboutInv, SigningUp,
       Verifying
  <1> QED
    BY <1>1, <1>2, <1>3, <1>4, <1>5, <1>6, <1>7, <1>8, <1>9, <1>10, <1>11,
       <1>12, <1>13, <1>14, <1>15, <1>16, <1>17, <1>18, <1>19, <1>20, <1>21,
       <1>22, <1>23, <1>24, <1>25, <1>26, <1>27 DEF Next, Step

(* The invariant holds at first ...                                        *)
LEMMA AccountInvInit == Init => TypeInv /\ AccountInv
  <1> SUFFICES ASSUME Init PROVE TypeInv /\ AccountInv
    OBVIOUS
  <1>1. TypeOK
    BY NoEntries, AccountConstants DEF Init, TypeOK, Categories
  <1>2. AboutInv
    BY DEF Init, AboutInv, SigningUp, Verifying
  <1>3. RoadInv /\ TreeInv
    BY DEF Init, RoadInv, TreeInv, Staging, Staged, NoUser, NoStage
  <1>4. ~InUse /\ ~Staged
    BY DEF Init, InUse, Staged, NoUser, NoStage
  <1>5. EmailInv /\ CrossInv
    BY <1>4 DEF Init, EmailInv, CrossInv
  <1> QED
    BY <1>1, <1>2, <1>3, <1>4, <1>5 DEF TypeInv, AccountInv, ClaimInv,
       UsableOnlyIfApproved, UsableOnlyIfProven, QueueTellsTheTruth, Usable

(* ... and is preserved.                                                   *)
LEMMA AccountInvStep ==
  TypeInv /\ AccountInv /\ [Next]_vars => TypeInv' /\ AccountInv'
  BY TypeStep, RoadStep, ApprovedStep, CrossStep, QueueStep, TreeStep,
     ClaimStep, EmailStep, ProvenStep DEF AccountInv

(* The inductive invariant holds in every reachable state.                 *)
THEOREM AccountInvHolds == Spec => [](TypeInv /\ AccountInv)
  BY AccountInvInit, AccountInvStep, PTL DEF Spec

(* Every variable keeps its type (account.go, admin.go).                   *)
THEOREM TypeCorrect == Spec => []TypeOK
  <1>1. TypeInv => TypeOK
    BY DEF TypeInv
  <1> QED
    BY <1>1, AccountInvHolds, PTL

(* With require_admin_verify no link, resend, retry or staged signup makes *)
(* an account usable on which the last word of an admin was not to enable  *)
(* it (account.go:316-445, admin.go:190-300).                              *)
THEOREM ApprovalIsNeeded == Spec => []UsableOnlyIfApproved
  <1>1. AccountInv => UsableOnlyIfApproved
    BY DEF AccountInv
  <1> QED
    BY <1>1, AccountInvHolds, PTL

(* Nobody signs in to an account whose owner has not proven the address,   *)
(* unless an admin enabled it, disabling it failed, or links of an earlier *)
(* owner of the name exist (account.go:271, 316-445).                      *)
THEOREM ProofOfAddressIsNeeded == Spec => []UsableOnlyIfProven
  <1>1. AccountInv => UsableOnlyIfProven
    BY DEF AccountInv
  <1> QED
    BY <1>1, AccountInvHolds, PTL

(* The queue of pending registrations is wrong only about approvals that   *)
(* stopped halfway (admin.go:229-256).                                     *)
THEOREM QueueIsTruthful == Spec => []QueueTellsTheTruth
  <1>1. AccountInv => QueueTellsTheTruth
    BY DEF AccountInv
  <1> QED
    BY <1>1, AccountInvHolds, PTL
=============================================================================
