---------------------------- MODULE TokensProofs ----------------------------
(***************************************************************************)
(* Email links, for any number of requests and links and any lifetimes:    *)
(* resets, email confirmations and OTP recovery.                           *)
(*                                                                         *)
(* The safety properties follow from TypeInv and TokenInv:                 *)
(*                                                                         *)
(*   StatusInv  a link being sent has exactly one sender, and only a       *)
(*              mailed link is opened, takes effect or is marked;          *)
(*   KindInv    which steps a request of each kind can be at;              *)
(*   RaceInv    two requests that have the same link accepted have been    *)
(*              recorded as a race;                                        *)
(*   UseInv     a link that did not race takes effect once, and from then  *)
(*              on it is marked, for at least as long as it lives, or its  *)
(*              one request is about to mark it;                           *)
(*   MarkInv    the used marker outlives its link, and no request confirms *)
(*              a marked link unless it raced;                             *)
(*   CoolInv    the cooldown runs out no sooner than it should for any     *)
(*              living link, and a request that is about to issue one and  *)
(*              saw no rival saw no recent link.                           *)
(*                                                                         *)
(* RefusedOnlyAfterMail is inductive given the others.                     *)
(***************************************************************************)
EXTENDS Tokens, TLAPS

(* Steps of a request that has a link accepted.                            *)
Engaged(q) == pc[q] \in {"parsed", "checked", "random", "mark", "release", "queue"}

(* Such a request, and one that sends a link, has a link in hand.          *)
LinkInv == \A q \in Workers : Engaged(q) \/ pc[q] = "send" => link[q] \in Links

(* The types, inductively.                                                 *)
TypeInv == TypeOK /\ LinkInv

(* TypeOK by groups of variables.                                          *)
FlagType == stuck \in BOOLEAN /\ wiped \in BOOLEAN /\ queued \in BOOLEAN
LinkType ==
    /\ status \in [Links -> {"new", "sending", "mailed", "lost"}]
    /\ life \in [Links -> 0..tokenMaxAge] /\ usedTTL \in [Links -> 0..tokenMaxAge]
    /\ effects \in [Links -> 0..2]
StepType ==
    /\ pc \in [Workers -> {"idle", "issue", "elsewhere", "send", "parsed",
                     "checked", "random", "mark", "release", "queue"}]
    /\ link \in [Workers -> Links \cup {NoLink}] /\ LinkInv
IssueType ==
    /\ issuedTTL \in 0..resendCooldown /\ setter \in Links \cup {NoLink}
    /\ unmarked \in SUBSET Links /\ crowded \in SUBSET Workers

(* A link is sent by one request, and used once it is mailed.              *)
StatusInv ==
    /\ \A q \in Workers : pc[q] = "send" => status[link[q]] = "sending"
    /\ \A p, q \in Workers :
         pc[p] = "send" /\ pc[q] = "send" /\ link[p] = link[q] => p = q
    /\ \A q \in Workers : Engaged(q) => status[link[q]] = "mailed"
    /\ \A l \in Links : effects[l] # 0 \/ l \in marked => status[l] = "mailed"

(* The steps of each kind of link.                                         *)
KindInv ==
    \A q \in Workers :
      /\ pc[q] \in {"checked", "random"} => kind = "reset"
      /\ pc[q] = "mark" => kind # "otp"
      /\ pc[q] \in {"release", "queue"} => kind = "otp"

(* Requests that confirm the same link race.                               *)
RaceInv ==
    \A p, q \in Workers :
      Confirming(p) /\ Confirming(q) /\ link[p] = link[q] => p = q \/ link[p] \in raced

(* A link out of races has no effect yet, or exactly one, and is marked,   *)
(* or about to be marked by the only request that has it in hand.          *)
UseInv ==
    \A l \in Links \ (raced \cup unmarked) :
      /\ effects[l] # 2
      /\ effects[l] = 1 => \/ usedTTL[l] >= life[l]
                          \/ \E q \in Workers : pc[q] = "mark" /\ link[q] = l
      /\ \A q \in Workers : Engaged(q) /\ link[q] = l =>
           /\ effects[l] = 1 => pc[q] = "mark"
           /\ pc[q] \in {"release", "queue"} => usedTTL[l] >= life[l]
           /\ \A p \in Workers : Engaged(p) /\ link[p] = l => p = q

(* The marker of a used link lives as long as the link, and a reset in     *)
(* doubt is not one of a marked link unless it raced.                      *)
MarkInv ==
    /\ \A l \in marked : usedTTL[l] >= life[l]
    /\ kind = "reset" => /\ \A q \in Workers :
                              Confirming(q) /\ link[q] \in marked => link[q] \in raced
                         /\ \A q \in Workers :
                              pc[q] = "mark" /\ resetBy = link[q] => link[q] \in raced
                         /\ resetBy \in marked => resetBy \in raced

(* The cooldown marker covers every link that may still be mailed.         *)
CoolInv ==
    /\ ~wiped => \A l \in Links : life[l] > 0 =>
                   issuedTTL + tokenMaxAge - life[l] >= resendCooldown
    /\ \A q \in Workers :
         pc[q] = "issue" /\ q \notin crowded /\ ~wiped => Recent(life) = {}

(* The inductive invariant.                                                *)
TokenInv == /\ StatusInv /\ KindInv /\ RaceInv /\ UseInv /\ MarkInv /\ CoolInv
            /\ RefusedOnlyAfterMail
-----------------------------------------------------------------------------
(* The types are inductive.                                                *)
LEMMA TypeStep ==
  ASSUME TypeInv, [Next]_vars
  PROVE  TypeInv'
  <1>1. ASSUME NEW q \in Workers, NewToken(q) PROVE TypeInv'
    BY <1>1, TokenConstants DEF NewToken, PasswordForgot, AdminReset,
       OTPRecoveryRequest, AccountSettings, PasswordElsewhere, Goto, mail,
       directory, usage, TypeInv, TypeOK, LinkInv, Engaged, Kinds
  <1>2. ASSUME NEW q \in Workers, NEW l \in Links, SetIssued(q, l)
        PROVE  TypeInv'
    <2>1. FlagType'
      BY <1>2 DEF TypeInv, TypeOK, SetIssued, Goto, Done, directory, usage,
         FlagType
    <2>2. LinkType'
      BY <1>2, TokenConstants DEF TypeInv, TypeOK, SetIssued, Goto, Done,
         directory, usage, LinkType
    <2>3. StepType'
      BY <1>2 DEF TypeInv, TypeOK, LinkInv, Engaged, SetIssued, Goto, Done,
         directory, usage, StepType
    <2>4. IssueType'
      BY <1>2, TokenConstants DEF TypeInv, TypeOK, LinkInv, Engaged, SetIssued,
         Goto, Done, directory, usage, IssueType
    <2> QED
      BY <1>2, <2>1, <2>2, <2>3, <2>4 DEF TypeInv, TypeOK, SetIssued, Goto,
         Done, directory, usage, FlagType, LinkType, StepType, IssueType
  <1>3. ASSUME NEW q \in Workers, SendPasswordElsewhere(q) PROVE TypeInv'
    <2>1. FlagType'
      BY <1>3 DEF TypeInv, TypeOK, SendPasswordElsewhere, Goto, Done,
         directory, usage, FlagType
    <2>2. LinkType'
      BY <1>3, TokenConstants DEF TypeInv, TypeOK, SendPasswordElsewhere, Goto,
         Done, directory, usage, LinkType
    <2>3. StepType'
      BY <1>3 DEF TypeInv, TypeOK, LinkInv, Engaged, SendPasswordElsewhere,
         Goto, Done, directory, usage, StepType
    <2>4. IssueType'
      BY <1>3, TokenConstants DEF TypeInv, TypeOK, LinkInv, Engaged,
         SendPasswordElsewhere, Goto, Done, directory, usage, IssueType
    <2> QED
      BY <1>3, <2>1, <2>2, <2>3, <2>4 DEF TypeInv, TypeOK,
         SendPasswordElsewhere, Goto, Done, directory, usage, FlagType,
         LinkType, StepType, IssueType
  <1>4. ASSUME NEW q \in Workers, SendTokenEmail(q) PROVE TypeInv'
    <2>1. FlagType'
      BY <1>4 DEF TypeInv, TypeOK, SendTokenEmail, Goto, Done, SendEmail,
         ClearIssued, NoRollback, directory, usage, FlagType
    <2>2. LinkType'
      BY <1>4, TokenConstants DEF TypeInv, TypeOK, SendTokenEmail, Goto, Done,
         SendEmail, ClearIssued, NoRollback, directory, usage, LinkType
    <2>3. StepType'
      BY <1>4 DEF TypeInv, TypeOK, LinkInv, Engaged, SendTokenEmail, Goto,
         Done, SendEmail, ClearIssued, NoRollback, directory, usage, StepType
    <2>4. IssueType'
      BY <1>4, TokenConstants DEF TypeInv, TypeOK, LinkInv, Engaged,
         SendTokenEmail, Goto, Done, SendEmail, ClearIssued, NoRollback,
         directory, usage, IssueType
    <2> QED
      BY <1>4, <2>1, <2>2, <2>3, <2>4 DEF TypeInv, TypeOK, SendTokenEmail,
         Goto, Done, SendEmail, ClearIssued, NoRollback, directory, usage,
         FlagType, LinkType, StepType, IssueType
  <1>5. ASSUME NEW q \in Workers, NEW l \in Links, ParseToken(q, l)
        PROVE  TypeInv'
    BY <1>5, TokenConstants DEF ParseToken, Goto, mail, directory, Confirming,
       TypeInv, TypeOK, LinkInv, Engaged, Kinds
  <1>6. ASSUME NEW q \in Workers, GiveUp(q) PROVE TypeInv'
    BY <1>6, TokenConstants DEF GiveUp, Goto, Done, mail, directory, usage,
       TypeInv, TypeOK, LinkInv, Engaged, Kinds
  <1>7. ASSUME NEW q \in Workers, PasswordReset(q) PROVE TypeInv'
    BY <1>7, TokenConstants DEF PasswordReset, Goto, mail, directory, usage,
       TypeInv, TypeOK, LinkInv, Engaged, Kinds
  <1>8. ASSUME NEW q \in Workers, ResetPassword(q) PROVE TypeInv'
    BY <1>8, TokenConstants DEF ResetPassword, Goto, Done, mail, usage,
       TypeInv, TypeOK, LinkInv, Engaged, Kinds
  <1>9. ASSUME NEW q \in Workers, SetPassword(q) PROVE TypeInv'
    BY <1>9, TokenConstants DEF SetPassword, TakeEffect, Goto, Done, Twice,
       mail, TypeInv, TypeOK, LinkInv, Engaged, Kinds
  <1>10. ASSUME NEW q \in Workers, UserMod(q) PROVE TypeInv'
    BY <1>10, TokenConstants DEF UserMod, TakeEffect, Goto, Done, Twice, mail,
       directory, TypeInv, TypeOK, LinkInv, Engaged, Kinds
  <1>11. ASSUME NEW q \in Workers, MarkLast(q) PROVE TypeInv'
    BY <1>11, TokenConstants DEF MarkLast, MarkTokenUsed, usedMarkerTTL, Goto,
       Done, mail, directory, TypeInv, TypeOK, LinkInv, Engaged, Kinds
  <1>12. ASSUME NEW q \in Workers, MarkFirst(q) PROVE TypeInv'
    BY <1>12, TokenConstants DEF MarkFirst, MarkTokenUsed, usedMarkerTTL, Goto,
       mail, directory, TypeInv, TypeOK, LinkInv, Engaged, Kinds
  <1>13. ASSUME NEW q \in Workers, ReleaseIssued(q) PROVE TypeInv'
    <2>1. FlagType'
      BY <1>13 DEF TypeInv, TypeOK, ReleaseIssued, ClearIssued, Goto,
         directory, usage, FlagType
    <2>2. LinkType'
      BY <1>13, TokenConstants DEF TypeInv, TypeOK, ReleaseIssued, ClearIssued,
         Goto, directory, usage, LinkType
    <2>3. StepType'
      BY <1>13 DEF TypeInv, TypeOK, LinkInv, Engaged, ReleaseIssued,
         ClearIssued, Goto, directory, usage, StepType
    <2>4. IssueType'
      BY <1>13, TokenConstants DEF TypeInv, TypeOK, LinkInv, Engaged,
         ReleaseIssued, ClearIssued, Goto, directory, usage, IssueType
    <2> QED
      BY <1>13, <2>1, <2>2, <2>3, <2>4 DEF TypeInv, TypeOK, ReleaseIssued,
         ClearIssued, Goto, directory, usage, FlagType, LinkType, StepType,
         IssueType
  <1>14. ASSUME NEW q \in Workers, AddOTPRecoveryRequest(q) PROVE TypeInv'
    <2>1. FlagType'
      BY <1>14 DEF TypeInv, TypeOK, AddOTPRecoveryRequest, Goto, Done, Twice,
         mail, FlagType
    <2>2. LinkType'
      BY <1>14, TokenConstants DEF TypeInv, TypeOK, AddOTPRecoveryRequest,
         Goto, Done, Twice, mail, LinkType
    <2>3. StepType'
      BY <1>14 DEF TypeInv, TypeOK, LinkInv, Engaged, AddOTPRecoveryRequest,
         Goto, Done, Twice, mail, StepType
    <2>4. IssueType'
      BY <1>14, TokenConstants DEF TypeInv, TypeOK, LinkInv, Engaged,
         AddOTPRecoveryRequest, Goto, Done, Twice, mail, IssueType
    <2> QED
      BY <1>14, <2>1, <2>2, <2>3, <2>4 DEF TypeInv, TypeOK,
         AddOTPRecoveryRequest, Goto, Done, Twice, mail, FlagType, LinkType,
         StepType, IssueType
  <1>15. ASSUME NEW q \in Workers, Crash(q) PROVE TypeInv'
    <2>1. FlagType'
      BY <1>15 DEF TypeInv, TypeOK, Crash, Goto, Done, SendEmail, NoRollback,
         directory, FlagType
    <2>2. LinkType'
      BY <1>15, TokenConstants DEF TypeInv, TypeOK, Crash, Goto, Done,
         SendEmail, NoRollback, directory, LinkType
    <2>3. StepType'
      BY <1>15 DEF TypeInv, TypeOK, LinkInv, Engaged, Crash, Goto, Done,
         SendEmail, NoRollback, directory, StepType
    <2>4. IssueType'
      BY <1>15, TokenConstants DEF TypeInv, TypeOK, LinkInv, Engaged, Crash,
         Goto, Done, SendEmail, NoRollback, directory, IssueType
    <2> QED
      BY <1>15, <2>1, <2>2, <2>3, <2>4 DEF TypeInv, TypeOK, Crash, Goto, Done,
         SendEmail, NoRollback, directory, FlagType, LinkType, StepType,
         IssueType
  <1>16. ASSUME RemoveOTPRecoveryRequest PROVE TypeInv'
    BY <1>16, TokenConstants DEF RemoveOTPRecoveryRequest, mail, usage,
       TypeInv, TypeOK, LinkInv, Engaged, Kinds
  <1>17. ASSUME DirectoryChange PROVE TypeInv'
    BY <1>17, TokenConstants DEF DirectoryChange, mail, usage, TypeInv, TypeOK,
       LinkInv, Engaged, Kinds
  <1>18. ASSUME Tick PROVE TypeInv'
    BY <1>18, TokenConstants DEF Tick, Less, directory, TypeInv, TypeOK,
       LinkInv, Engaged, Kinds
  <1>19. CASE UNCHANGED vars
    BY <1>19, TokenConstants DEF vars, TypeInv, TypeOK, LinkInv, Engaged, Kinds
  <1> QED
    BY <1>1, <1>2, <1>3, <1>4, <1>5, <1>6, <1>7, <1>8, <1>9, <1>10, <1>11,
       <1>12, <1>13, <1>14, <1>15, <1>16, <1>17, <1>18, <1>19
       DEF Next, Step

(* Every step preserves StatusInv, ...                                     *)
LEMMA StatusStep ==
  ASSUME TypeInv, StatusInv, [Next]_vars
  PROVE  StatusInv'
  <1>1. ASSUME NEW q \in Workers, NewToken(q) PROVE StatusInv'
    BY <1>1, TokenConstants DEF NewToken, PasswordForgot, AdminReset,
       OTPRecoveryRequest, AccountSettings, PasswordElsewhere, Goto, mail,
       directory, usage, StatusInv, TypeInv, TypeOK, LinkInv, Engaged
  <1>2. ASSUME NEW q \in Workers, NEW l \in Links, SetIssued(q, l)
        PROVE  StatusInv'
    BY <1>2, TokenConstants DEF SetIssued, Goto, Done, directory, usage,
       StatusInv, TypeInv, TypeOK, LinkInv, Engaged
  <1>3. ASSUME NEW q \in Workers, SendPasswordElsewhere(q) PROVE StatusInv'
    BY <1>3, TokenConstants DEF SendPasswordElsewhere, Goto, Done, directory,
       usage, StatusInv, TypeInv, TypeOK, LinkInv, Engaged
  <1>4. ASSUME NEW q \in Workers, SendTokenEmail(q) PROVE StatusInv'
    BY <1>4, TokenConstants DEF SendTokenEmail, Goto, Done, SendEmail,
       ClearIssued, NoRollback, directory, usage, StatusInv, TypeInv, TypeOK,
       LinkInv, Engaged
  <1>5. ASSUME NEW q \in Workers, NEW l \in Links, ParseToken(q, l)
        PROVE  StatusInv'
    BY <1>5, TokenConstants DEF ParseToken, Goto, mail, directory, Confirming,
       StatusInv, TypeInv, TypeOK, LinkInv, Engaged
  <1>6. ASSUME NEW q \in Workers, GiveUp(q) PROVE StatusInv'
    BY <1>6, TokenConstants DEF GiveUp, Goto, Done, mail, directory, usage,
       StatusInv, TypeInv, TypeOK, LinkInv, Engaged
  <1>7. ASSUME NEW q \in Workers, PasswordReset(q) PROVE StatusInv'
    BY <1>7, TokenConstants DEF PasswordReset, Goto, mail, directory, usage,
       StatusInv, TypeInv, TypeOK, LinkInv, Engaged
  <1>8. ASSUME NEW q \in Workers, ResetPassword(q) PROVE StatusInv'
    BY <1>8, TokenConstants DEF ResetPassword, Goto, Done, mail, usage,
       StatusInv, TypeInv, TypeOK, LinkInv, Engaged
  <1>9. ASSUME NEW q \in Workers, SetPassword(q) PROVE StatusInv'
    BY <1>9, TokenConstants DEF SetPassword, TakeEffect, Goto, Done, Twice,
       mail, StatusInv, TypeInv, TypeOK, LinkInv, Engaged
  <1>10. ASSUME NEW q \in Workers, UserMod(q) PROVE StatusInv'
    BY <1>10, TokenConstants DEF UserMod, TakeEffect, Goto, Done, Twice, mail,
       directory, StatusInv, TypeInv, TypeOK, LinkInv, Engaged
  <1>11. ASSUME NEW q \in Workers, MarkLast(q) PROVE StatusInv'
    BY <1>11, TokenConstants DEF MarkLast, MarkTokenUsed, usedMarkerTTL, Goto,
       Done, mail, directory, StatusInv, TypeInv, TypeOK, LinkInv, Engaged
  <1>12. ASSUME NEW q \in Workers, MarkFirst(q) PROVE StatusInv'
    BY <1>12, TokenConstants DEF MarkFirst, MarkTokenUsed, usedMarkerTTL, Goto,
       mail, directory, StatusInv, TypeInv, TypeOK, LinkInv, Engaged
  <1>13. ASSUME NEW q \in Workers, ReleaseIssued(q) PROVE StatusInv'
    BY <1>13, TokenConstants DEF ReleaseIssued, ClearIssued, Goto, directory,
       usage, StatusInv, TypeInv, TypeOK, LinkInv, Engaged
  <1>14. ASSUME NEW q \in Workers, AddOTPRecoveryRequest(q) PROVE StatusInv'
    BY <1>14, TokenConstants DEF AddOTPRecoveryRequest, Goto, Done, Twice,
       mail, StatusInv, TypeInv, TypeOK, LinkInv, Engaged
  <1>15. ASSUME NEW q \in Workers, Crash(q) PROVE StatusInv'
    BY <1>15, TokenConstants DEF Crash, Goto, Done, SendEmail, NoRollback,
       directory, StatusInv, TypeInv, TypeOK, LinkInv, Engaged
  <1>16. ASSUME RemoveOTPRecoveryRequest PROVE StatusInv'
    BY <1>16, TokenConstants DEF RemoveOTPRecoveryRequest, mail, usage,
       StatusInv, TypeInv, TypeOK, LinkInv, Engaged
  <1>17. ASSUME DirectoryChange PROVE StatusInv'
    BY <1>17, TokenConstants DEF DirectoryChange, mail, usage, StatusInv,
       TypeInv, TypeOK, LinkInv, Engaged
  <1>18. ASSUME Tick PROVE StatusInv'
    BY <1>18, TokenConstants DEF Tick, Less, directory, StatusInv, TypeInv,
       TypeOK, LinkInv, Engaged
  <1>19. CASE UNCHANGED vars
    BY <1>19, TokenConstants DEF vars, StatusInv, TypeInv, TypeOK, LinkInv,
       Engaged
  <1> QED
    BY <1>1, <1>2, <1>3, <1>4, <1>5, <1>6, <1>7, <1>8, <1>9, <1>10, <1>11,
       <1>12, <1>13, <1>14, <1>15, <1>16, <1>17, <1>18, <1>19
       DEF Next, Step

(* ... KindInv, ...                                                        *)
LEMMA KindStep ==
  ASSUME TypeInv, KindInv, [Next]_vars
  PROVE  KindInv'
  <1>1. ASSUME NEW q \in Workers, NewToken(q) PROVE KindInv'
    BY <1>1 DEF NewToken, PasswordForgot, AdminReset, OTPRecoveryRequest,
       AccountSettings, PasswordElsewhere, Goto, mail, directory, usage,
       KindInv, TypeInv, TypeOK
  <1>2. ASSUME NEW q \in Workers, NEW l \in Links, SetIssued(q, l)
        PROVE  KindInv'
    BY <1>2 DEF SetIssued, Goto, Done, directory, usage, KindInv, TypeInv,
       TypeOK
  <1>3. ASSUME NEW q \in Workers, SendPasswordElsewhere(q) PROVE KindInv'
    BY <1>3 DEF SendPasswordElsewhere, Goto, Done, directory, usage, KindInv,
       TypeInv, TypeOK
  <1>4. ASSUME NEW q \in Workers, SendTokenEmail(q) PROVE KindInv'
    BY <1>4 DEF SendTokenEmail, Goto, Done, SendEmail, ClearIssued, NoRollback,
       directory, usage, KindInv, TypeInv, TypeOK
  <1>5. ASSUME NEW q \in Workers, NEW l \in Links, ParseToken(q, l)
        PROVE  KindInv'
    BY <1>5 DEF ParseToken, Goto, mail, directory, Confirming, KindInv,
       TypeInv, TypeOK
  <1>6. ASSUME NEW q \in Workers, GiveUp(q) PROVE KindInv'
    BY <1>6 DEF GiveUp, Goto, Done, mail, directory, usage, KindInv, TypeInv,
       TypeOK
  <1>7. ASSUME NEW q \in Workers, PasswordReset(q) PROVE KindInv'
    BY <1>7 DEF PasswordReset, Goto, mail, directory, usage, KindInv, TypeInv,
       TypeOK
  <1>8. ASSUME NEW q \in Workers, ResetPassword(q) PROVE KindInv'
    BY <1>8 DEF ResetPassword, Goto, Done, mail, usage, KindInv, TypeInv,
       TypeOK
  <1>9. ASSUME NEW q \in Workers, SetPassword(q) PROVE KindInv'
    BY <1>9 DEF SetPassword, TakeEffect, Goto, Done, Twice, mail, KindInv,
       TypeInv, TypeOK
  <1>10. ASSUME NEW q \in Workers, UserMod(q) PROVE KindInv'
    BY <1>10 DEF UserMod, TakeEffect, Goto, Done, Twice, mail, directory,
       KindInv, TypeInv, TypeOK
  <1>11. ASSUME NEW q \in Workers, MarkLast(q) PROVE KindInv'
    BY <1>11 DEF MarkLast, MarkTokenUsed, usedMarkerTTL, Goto, Done, mail,
       directory, KindInv, TypeInv, TypeOK
  <1>12. ASSUME NEW q \in Workers, MarkFirst(q) PROVE KindInv'
    BY <1>12 DEF MarkFirst, MarkTokenUsed, usedMarkerTTL, Goto, mail,
       directory, KindInv, TypeInv, TypeOK
  <1>13. ASSUME NEW q \in Workers, ReleaseIssued(q) PROVE KindInv'
    BY <1>13 DEF ReleaseIssued, ClearIssued, Goto, directory, usage, KindInv,
       TypeInv, TypeOK
  <1>14. ASSUME NEW q \in Workers, AddOTPRecoveryRequest(q) PROVE KindInv'
    BY <1>14 DEF AddOTPRecoveryRequest, Goto, Done, Twice, mail, KindInv,
       TypeInv, TypeOK
  <1>15. ASSUME NEW q \in Workers, Crash(q) PROVE KindInv'
    BY <1>15 DEF Crash, Goto, Done, SendEmail, NoRollback, directory, KindInv,
       TypeInv, TypeOK
  <1>16. ASSUME RemoveOTPRecoveryRequest PROVE KindInv'
    BY <1>16 DEF RemoveOTPRecoveryRequest, mail, usage, KindInv, TypeInv,
       TypeOK
  <1>17. ASSUME DirectoryChange PROVE KindInv'
    BY <1>17 DEF DirectoryChange, mail, usage, KindInv, TypeInv, TypeOK
  <1>18. ASSUME Tick PROVE KindInv'
    BY <1>18 DEF Tick, Less, directory, KindInv, TypeInv, TypeOK
  <1>19. CASE UNCHANGED vars
    BY <1>19 DEF vars, KindInv, TypeInv, TypeOK
  <1> QED
    BY <1>1, <1>2, <1>3, <1>4, <1>5, <1>6, <1>7, <1>8, <1>9, <1>10, <1>11,
       <1>12, <1>13, <1>14, <1>15, <1>16, <1>17, <1>18, <1>19
       DEF Next, Step

(* ... RaceInv, ...                                                        *)
LEMMA RaceStep ==
  ASSUME TypeInv, RaceInv, [Next]_vars
  PROVE  RaceInv'
  <1>1. ASSUME NEW q \in Workers, NewToken(q) PROVE RaceInv'
    BY <1>1, TokenConstants DEF NewToken, PasswordForgot, AdminReset,
       OTPRecoveryRequest, AccountSettings, PasswordElsewhere, Goto, mail,
       directory, usage, RaceInv, Confirming, TypeInv, TypeOK, LinkInv, Engaged
  <1>2. ASSUME NEW q \in Workers, NEW l \in Links, SetIssued(q, l)
        PROVE  RaceInv'
    BY <1>2, TokenConstants DEF SetIssued, Goto, Done, directory, usage,
       RaceInv, Confirming, TypeInv, TypeOK, LinkInv, Engaged
  <1>3. ASSUME NEW q \in Workers, SendPasswordElsewhere(q) PROVE RaceInv'
    BY <1>3, TokenConstants DEF SendPasswordElsewhere, Goto, Done, directory,
       usage, RaceInv, Confirming, TypeInv, TypeOK, LinkInv, Engaged
  <1>4. ASSUME NEW q \in Workers, SendTokenEmail(q) PROVE RaceInv'
    BY <1>4, TokenConstants DEF SendTokenEmail, Goto, Done, SendEmail,
       ClearIssued, NoRollback, directory, usage, RaceInv, Confirming, TypeInv,
       TypeOK, LinkInv, Engaged
  <1>5. ASSUME NEW q \in Workers, NEW l \in Links, ParseToken(q, l)
        PROVE  RaceInv'
    BY <1>5, TokenConstants DEF ParseToken, Goto, mail, directory, Confirming,
       RaceInv, TypeInv, TypeOK, LinkInv, Engaged
  <1>6. ASSUME NEW q \in Workers, GiveUp(q) PROVE RaceInv'
    BY <1>6, TokenConstants DEF GiveUp, Goto, Done, mail, directory, usage,
       RaceInv, Confirming, TypeInv, TypeOK, LinkInv, Engaged
  <1>7. ASSUME NEW q \in Workers, PasswordReset(q) PROVE RaceInv'
    BY <1>7, TokenConstants DEF PasswordReset, Goto, mail, directory, usage,
       RaceInv, Confirming, TypeInv, TypeOK, LinkInv, Engaged
  <1>8. ASSUME NEW q \in Workers, ResetPassword(q) PROVE RaceInv'
    BY <1>8, TokenConstants DEF ResetPassword, Goto, Done, mail, usage,
       RaceInv, Confirming, TypeInv, TypeOK, LinkInv, Engaged
  <1>9. ASSUME NEW q \in Workers, SetPassword(q) PROVE RaceInv'
    BY <1>9, TokenConstants DEF SetPassword, TakeEffect, Goto, Done, Twice,
       mail, RaceInv, Confirming, TypeInv, TypeOK, LinkInv, Engaged
  <1>10. ASSUME NEW q \in Workers, UserMod(q) PROVE RaceInv'
    BY <1>10, TokenConstants DEF UserMod, TakeEffect, Goto, Done, Twice, mail,
       directory, RaceInv, Confirming, TypeInv, TypeOK, LinkInv, Engaged
  <1>11. ASSUME NEW q \in Workers, MarkLast(q) PROVE RaceInv'
    BY <1>11, TokenConstants DEF MarkLast, MarkTokenUsed, usedMarkerTTL, Goto,
       Done, mail, directory, RaceInv, Confirming, TypeInv, TypeOK, LinkInv,
       Engaged
  <1>12. ASSUME NEW q \in Workers, MarkFirst(q) PROVE RaceInv'
    BY <1>12, TokenConstants DEF MarkFirst, MarkTokenUsed, usedMarkerTTL, Goto,
       mail, directory, RaceInv, Confirming, TypeInv, TypeOK, LinkInv, Engaged
  <1>13. ASSUME NEW q \in Workers, ReleaseIssued(q) PROVE RaceInv'
    BY <1>13, TokenConstants DEF ReleaseIssued, ClearIssued, Goto, directory,
       usage, RaceInv, Confirming, TypeInv, TypeOK, LinkInv, Engaged
  <1>14. ASSUME NEW q \in Workers, AddOTPRecoveryRequest(q) PROVE RaceInv'
    BY <1>14, TokenConstants DEF AddOTPRecoveryRequest, Goto, Done, Twice,
       mail, RaceInv, Confirming, TypeInv, TypeOK, LinkInv, Engaged
  <1>15. ASSUME NEW q \in Workers, Crash(q) PROVE RaceInv'
    BY <1>15, TokenConstants DEF Crash, Goto, Done, SendEmail, NoRollback,
       directory, RaceInv, Confirming, TypeInv, TypeOK, LinkInv, Engaged
  <1>16. ASSUME RemoveOTPRecoveryRequest PROVE RaceInv'
    BY <1>16, TokenConstants DEF RemoveOTPRecoveryRequest, mail, usage,
       RaceInv, Confirming, TypeInv, TypeOK, LinkInv, Engaged
  <1>17. ASSUME DirectoryChange PROVE RaceInv'
    BY <1>17, TokenConstants DEF DirectoryChange, mail, usage, RaceInv,
       Confirming, TypeInv, TypeOK, LinkInv, Engaged
  <1>18. ASSUME Tick PROVE RaceInv'
    BY <1>18, TokenConstants DEF Tick, Less, directory, RaceInv, Confirming,
       TypeInv, TypeOK, LinkInv, Engaged
  <1>19. CASE UNCHANGED vars
    BY <1>19, TokenConstants DEF vars, RaceInv, Confirming, TypeInv, TypeOK,
       LinkInv, Engaged
  <1> QED
    BY <1>1, <1>2, <1>3, <1>4, <1>5, <1>6, <1>7, <1>8, <1>9, <1>10, <1>11,
       <1>12, <1>13, <1>14, <1>15, <1>16, <1>17, <1>18, <1>19
       DEF Next, Step

(* ... UseInv: marking comes before the release of an OTP, after the new   *)
(* password of a reset, ...                                                *)
LEMMA UseStep ==
  ASSUME TypeInv, StatusInv, KindInv, RaceInv, UseInv, [Next]_vars
  PROVE  UseInv'
  <1>1. ASSUME NEW q \in Workers, NewToken(q) PROVE UseInv'
    BY <1>1, TokenConstants DEF NewToken, PasswordForgot, AdminReset,
       OTPRecoveryRequest, AccountSettings, PasswordElsewhere, Goto, mail,
       directory, usage, StatusInv, KindInv, RaceInv, UseInv, Confirming,
       TypeInv, TypeOK, LinkInv, Engaged
  <1>2. ASSUME NEW q \in Workers, NEW l \in Links, SetIssued(q, l)
        PROVE  UseInv'
    BY <1>2, TokenConstants DEF SetIssued, Goto, Done, directory, usage,
       StatusInv, KindInv, RaceInv, UseInv, Confirming, TypeInv, TypeOK,
       LinkInv, Engaged
  <1>3. ASSUME NEW q \in Workers, SendPasswordElsewhere(q) PROVE UseInv'
    BY <1>3, TokenConstants DEF SendPasswordElsewhere, Goto, Done, directory,
       usage, StatusInv, KindInv, RaceInv, UseInv, Confirming, TypeInv, TypeOK,
       LinkInv, Engaged
  <1>4. ASSUME NEW q \in Workers, SendTokenEmail(q) PROVE UseInv'
    BY <1>4, TokenConstants DEF SendTokenEmail, Goto, Done, SendEmail,
       ClearIssued, NoRollback, directory, usage, StatusInv, KindInv, RaceInv,
       UseInv, Confirming, TypeInv, TypeOK, LinkInv, Engaged
  <1>5. ASSUME NEW q \in Workers, NEW l \in Links, ParseToken(q, l)
        PROVE  UseInv'
    BY <1>5, TokenConstants DEF ParseToken, Goto, mail, directory, Confirming,
       StatusInv, KindInv, RaceInv, UseInv, TypeInv, TypeOK, LinkInv, Engaged
  <1>6. ASSUME NEW q \in Workers, GiveUp(q) PROVE UseInv'
    BY <1>6, TokenConstants DEF GiveUp, Goto, Done, mail, directory, usage,
       StatusInv, KindInv, RaceInv, UseInv, Confirming, TypeInv, TypeOK,
       LinkInv, Engaged
  <1>7. ASSUME NEW q \in Workers, PasswordReset(q) PROVE UseInv'
    BY <1>7, TokenConstants DEF PasswordReset, Goto, mail, directory, usage,
       StatusInv, KindInv, RaceInv, UseInv, Confirming, TypeInv, TypeOK,
       LinkInv, Engaged
  <1>8. ASSUME NEW q \in Workers, ResetPassword(q) PROVE UseInv'
    BY <1>8, TokenConstants DEF ResetPassword, Goto, Done, mail, usage,
       StatusInv, KindInv, RaceInv, UseInv, Confirming, TypeInv, TypeOK,
       LinkInv, Engaged
  <1>9. ASSUME NEW q \in Workers, SetPassword(q) PROVE UseInv'
    BY <1>9, TokenConstants DEF SetPassword, TakeEffect, Goto, Done, Twice,
       mail, StatusInv, KindInv, RaceInv, UseInv, Confirming, TypeInv, TypeOK,
       LinkInv, Engaged
  <1>10. ASSUME NEW q \in Workers, UserMod(q) PROVE UseInv'
    BY <1>10, TokenConstants DEF UserMod, TakeEffect, Goto, Done, Twice, mail,
       directory, StatusInv, KindInv, RaceInv, UseInv, Confirming, TypeInv,
       TypeOK, LinkInv, Engaged
  <1>11. ASSUME NEW q \in Workers, MarkLast(q) PROVE UseInv'
    BY <1>11, TokenConstants DEF MarkLast, MarkTokenUsed, usedMarkerTTL, Goto,
       Done, mail, directory, StatusInv, KindInv, RaceInv, UseInv, Confirming,
       TypeInv, TypeOK, LinkInv, Engaged
  <1>12. ASSUME NEW q \in Workers, MarkFirst(q) PROVE UseInv'
    BY <1>12, TokenConstants DEF MarkFirst, MarkTokenUsed, usedMarkerTTL, Goto,
       mail, directory, StatusInv, KindInv, RaceInv, UseInv, Confirming,
       TypeInv, TypeOK, LinkInv, Engaged
  <1>13. ASSUME NEW q \in Workers, ReleaseIssued(q) PROVE UseInv'
    BY <1>13, TokenConstants DEF ReleaseIssued, ClearIssued, Goto, directory,
       usage, StatusInv, KindInv, RaceInv, UseInv, Confirming, TypeInv, TypeOK,
       LinkInv, Engaged
  <1>14. ASSUME NEW q \in Workers, AddOTPRecoveryRequest(q) PROVE UseInv'
    BY <1>14, TokenConstants DEF AddOTPRecoveryRequest, Goto, Done, Twice,
       mail, StatusInv, KindInv, RaceInv, UseInv, Confirming, TypeInv, TypeOK,
       LinkInv, Engaged
  <1>15. ASSUME NEW q \in Workers, Crash(q) PROVE UseInv'
    BY <1>15, TokenConstants DEF Crash, Goto, Done, SendEmail, NoRollback,
       directory, StatusInv, KindInv, RaceInv, UseInv, Confirming, TypeInv,
       TypeOK, LinkInv, Engaged
  <1>16. ASSUME RemoveOTPRecoveryRequest PROVE UseInv'
    BY <1>16, TokenConstants DEF RemoveOTPRecoveryRequest, mail, usage,
       StatusInv, KindInv, RaceInv, UseInv, Confirming, TypeInv, TypeOK,
       LinkInv, Engaged
  <1>17. ASSUME DirectoryChange PROVE UseInv'
    BY <1>17, TokenConstants DEF DirectoryChange, mail, usage, StatusInv,
       KindInv, RaceInv, UseInv, Confirming, TypeInv, TypeOK, LinkInv, Engaged
  <1>18. ASSUME Tick PROVE UseInv'
    BY <1>18, TokenConstants DEF Tick, Less, directory, StatusInv, KindInv,
       RaceInv, UseInv, Confirming, TypeInv, TypeOK, LinkInv, Engaged
  <1>19. CASE UNCHANGED vars
    BY <1>19, TokenConstants DEF vars, StatusInv, KindInv, RaceInv, UseInv,
       Confirming, TypeInv, TypeOK, LinkInv, Engaged
  <1> QED
    BY <1>1, <1>2, <1>3, <1>4, <1>5, <1>6, <1>7, <1>8, <1>9, <1>10, <1>11,
       <1>12, <1>13, <1>14, <1>15, <1>16, <1>17, <1>18, <1>19
       DEF Next, Step

(* ... MarkInv, ...                                                        *)
LEMMA MarkStep ==
  ASSUME TypeInv, StatusInv, KindInv, RaceInv, MarkInv, [Next]_vars
  PROVE  MarkInv'
  <1>1. ASSUME NEW q \in Workers, NewToken(q) PROVE MarkInv'
    BY <1>1, TokenConstants DEF NewToken, PasswordForgot, AdminReset,
       OTPRecoveryRequest, AccountSettings, PasswordElsewhere, Goto, mail,
       directory, usage, StatusInv, KindInv, RaceInv, MarkInv, Confirming,
       TypeInv, TypeOK, LinkInv, Engaged
  <1>2. ASSUME NEW q \in Workers, NEW l \in Links, SetIssued(q, l)
        PROVE  MarkInv'
    BY <1>2, TokenConstants DEF SetIssued, Goto, Done, directory, usage,
       StatusInv, KindInv, RaceInv, MarkInv, Confirming, TypeInv, TypeOK,
       LinkInv, Engaged
  <1>3. ASSUME NEW q \in Workers, SendPasswordElsewhere(q) PROVE MarkInv'
    BY <1>3, TokenConstants DEF SendPasswordElsewhere, Goto, Done, directory,
       usage, StatusInv, KindInv, RaceInv, MarkInv, Confirming, TypeInv,
       TypeOK, LinkInv, Engaged
  <1>4. ASSUME NEW q \in Workers, SendTokenEmail(q) PROVE MarkInv'
    BY <1>4, TokenConstants DEF SendTokenEmail, Goto, Done, SendEmail,
       ClearIssued, NoRollback, directory, usage, StatusInv, KindInv, RaceInv,
       MarkInv, Confirming, TypeInv, TypeOK, LinkInv, Engaged
  <1>5. ASSUME NEW q \in Workers, NEW l \in Links, ParseToken(q, l)
        PROVE  MarkInv'
    BY <1>5, TokenConstants DEF ParseToken, Goto, mail, directory, Confirming,
       StatusInv, KindInv, RaceInv, MarkInv, TypeInv, TypeOK, LinkInv, Engaged
  <1>6. ASSUME NEW q \in Workers, GiveUp(q) PROVE MarkInv'
    BY <1>6, TokenConstants DEF GiveUp, Goto, Done, mail, directory, usage,
       StatusInv, KindInv, RaceInv, MarkInv, Confirming, TypeInv, TypeOK,
       LinkInv, Engaged
  <1>7. ASSUME NEW q \in Workers, PasswordReset(q) PROVE MarkInv'
    BY <1>7, TokenConstants DEF PasswordReset, Goto, mail, directory, usage,
       StatusInv, KindInv, RaceInv, MarkInv, Confirming, TypeInv, TypeOK,
       LinkInv, Engaged
  <1>8. ASSUME NEW q \in Workers, ResetPassword(q) PROVE MarkInv'
    BY <1>8, TokenConstants DEF ResetPassword, Goto, Done, mail, usage,
       StatusInv, KindInv, RaceInv, MarkInv, Confirming, TypeInv, TypeOK,
       LinkInv, Engaged
  <1>9. ASSUME NEW q \in Workers, SetPassword(q) PROVE MarkInv'
    BY <1>9, TokenConstants DEF SetPassword, TakeEffect, Goto, Done, Twice,
       mail, StatusInv, KindInv, RaceInv, MarkInv, Confirming, TypeInv, TypeOK,
       LinkInv, Engaged
  <1>10. ASSUME NEW q \in Workers, UserMod(q) PROVE MarkInv'
    BY <1>10, TokenConstants DEF UserMod, TakeEffect, Goto, Done, Twice, mail,
       directory, StatusInv, KindInv, RaceInv, MarkInv, Confirming, TypeInv,
       TypeOK, LinkInv, Engaged
  <1>11. ASSUME NEW q \in Workers, MarkLast(q) PROVE MarkInv'
    BY <1>11, TokenConstants DEF MarkLast, MarkTokenUsed, usedMarkerTTL, Goto,
       Done, mail, directory, StatusInv, KindInv, RaceInv, MarkInv, Confirming,
       TypeInv, TypeOK, LinkInv, Engaged
  <1>12. ASSUME NEW q \in Workers, MarkFirst(q) PROVE MarkInv'
    BY <1>12, TokenConstants DEF MarkFirst, MarkTokenUsed, usedMarkerTTL, Goto,
       mail, directory, StatusInv, KindInv, RaceInv, MarkInv, Confirming,
       TypeInv, TypeOK, LinkInv, Engaged
  <1>13. ASSUME NEW q \in Workers, ReleaseIssued(q) PROVE MarkInv'
    BY <1>13, TokenConstants DEF ReleaseIssued, ClearIssued, Goto, directory,
       usage, StatusInv, KindInv, RaceInv, MarkInv, Confirming, TypeInv,
       TypeOK, LinkInv, Engaged
  <1>14. ASSUME NEW q \in Workers, AddOTPRecoveryRequest(q) PROVE MarkInv'
    BY <1>14, TokenConstants DEF AddOTPRecoveryRequest, Goto, Done, Twice,
       mail, StatusInv, KindInv, RaceInv, MarkInv, Confirming, TypeInv, TypeOK,
       LinkInv, Engaged
  <1>15. ASSUME NEW q \in Workers, Crash(q) PROVE MarkInv'
    BY <1>15, TokenConstants DEF Crash, Goto, Done, SendEmail, NoRollback,
       directory, StatusInv, KindInv, RaceInv, MarkInv, Confirming, TypeInv,
       TypeOK, LinkInv, Engaged
  <1>16. ASSUME RemoveOTPRecoveryRequest PROVE MarkInv'
    BY <1>16, TokenConstants DEF RemoveOTPRecoveryRequest, mail, usage,
       StatusInv, KindInv, RaceInv, MarkInv, Confirming, TypeInv, TypeOK,
       LinkInv, Engaged
  <1>17. ASSUME DirectoryChange PROVE MarkInv'
    BY <1>17, TokenConstants DEF DirectoryChange, mail, usage, StatusInv,
       KindInv, RaceInv, MarkInv, Confirming, TypeInv, TypeOK, LinkInv, Engaged
  <1>18. ASSUME Tick PROVE MarkInv'
    BY <1>18, TokenConstants DEF Tick, Less, directory, StatusInv, KindInv,
       RaceInv, MarkInv, Confirming, TypeInv, TypeOK, LinkInv, Engaged
  <1>19. CASE UNCHANGED vars
    BY <1>19, TokenConstants DEF vars, StatusInv, KindInv, RaceInv, MarkInv,
       Confirming, TypeInv, TypeOK, LinkInv, Engaged
  <1> QED
    BY <1>1, <1>2, <1>3, <1>4, <1>5, <1>6, <1>7, <1>8, <1>9, <1>10, <1>11,
       <1>12, <1>13, <1>14, <1>15, <1>16, <1>17, <1>18, <1>19
       DEF Next, Step

(* ... CoolInv, ...                                                        *)
LEMMA CoolStep ==
  ASSUME TypeInv, CoolInv, [Next]_vars
  PROVE  CoolInv'
  <1>1. ASSUME NEW q \in Workers, NewToken(q) PROVE CoolInv'
    BY <1>1, TokenConstants DEF NewToken, PasswordForgot, AdminReset,
       OTPRecoveryRequest, AccountSettings, PasswordElsewhere, Goto, mail,
       directory, usage, CoolInv, Recent, TypeInv, TypeOK
  <1>2. ASSUME NEW q \in Workers, NEW l \in Links, SetIssued(q, l)
        PROVE  CoolInv'
    BY <1>2, TokenConstants DEF SetIssued, Goto, Done, directory, usage,
       CoolInv, Recent, TypeInv, TypeOK
  <1>3. ASSUME NEW q \in Workers, SendPasswordElsewhere(q) PROVE CoolInv'
    BY <1>3, TokenConstants DEF SendPasswordElsewhere, Goto, Done, directory,
       usage, CoolInv, Recent, TypeInv, TypeOK
  <1>4. ASSUME NEW q \in Workers, SendTokenEmail(q) PROVE CoolInv'
    BY <1>4, TokenConstants DEF SendTokenEmail, Goto, Done, SendEmail,
       ClearIssued, NoRollback, directory, usage, CoolInv, Recent, TypeInv,
       TypeOK
  <1>5. ASSUME NEW q \in Workers, NEW l \in Links, ParseToken(q, l)
        PROVE  CoolInv'
    BY <1>5, TokenConstants DEF ParseToken, Goto, mail, directory, Confirming,
       CoolInv, Recent, TypeInv, TypeOK
  <1>6. ASSUME NEW q \in Workers, GiveUp(q) PROVE CoolInv'
    BY <1>6, TokenConstants DEF GiveUp, Goto, Done, mail, directory, usage,
       CoolInv, Recent, TypeInv, TypeOK
  <1>7. ASSUME NEW q \in Workers, PasswordReset(q) PROVE CoolInv'
    BY <1>7, TokenConstants DEF PasswordReset, Goto, mail, directory, usage,
       CoolInv, Recent, TypeInv, TypeOK
  <1>8. ASSUME NEW q \in Workers, ResetPassword(q) PROVE CoolInv'
    BY <1>8, TokenConstants DEF ResetPassword, Goto, Done, mail, usage,
       CoolInv, Recent, TypeInv, TypeOK
  <1>9. ASSUME NEW q \in Workers, SetPassword(q) PROVE CoolInv'
    BY <1>9, TokenConstants DEF SetPassword, TakeEffect, Goto, Done, Twice,
       mail, CoolInv, Recent, TypeInv, TypeOK
  <1>10. ASSUME NEW q \in Workers, UserMod(q) PROVE CoolInv'
    BY <1>10, TokenConstants DEF UserMod, TakeEffect, Goto, Done, Twice, mail,
       directory, CoolInv, Recent, TypeInv, TypeOK
  <1>11. ASSUME NEW q \in Workers, MarkLast(q) PROVE CoolInv'
    BY <1>11, TokenConstants DEF MarkLast, MarkTokenUsed, usedMarkerTTL, Goto,
       Done, mail, directory, CoolInv, Recent, TypeInv, TypeOK
  <1>12. ASSUME NEW q \in Workers, MarkFirst(q) PROVE CoolInv'
    BY <1>12, TokenConstants DEF MarkFirst, MarkTokenUsed, usedMarkerTTL, Goto,
       mail, directory, CoolInv, Recent, TypeInv, TypeOK
  <1>13. ASSUME NEW q \in Workers, ReleaseIssued(q) PROVE CoolInv'
    BY <1>13, TokenConstants DEF ReleaseIssued, ClearIssued, Goto, directory,
       usage, CoolInv, Recent, TypeInv, TypeOK
  <1>14. ASSUME NEW q \in Workers, AddOTPRecoveryRequest(q) PROVE CoolInv'
    BY <1>14, TokenConstants DEF AddOTPRecoveryRequest, Goto, Done, Twice,
       mail, CoolInv, Recent, TypeInv, TypeOK
  <1>15. ASSUME NEW q \in Workers, Crash(q) PROVE CoolInv'
    BY <1>15, TokenConstants DEF Crash, Goto, Done, SendEmail, NoRollback,
       directory, CoolInv, Recent, TypeInv, TypeOK
  <1>16. ASSUME RemoveOTPRecoveryRequest PROVE CoolInv'
    BY <1>16, TokenConstants DEF RemoveOTPRecoveryRequest, mail, usage,
       CoolInv, Recent, TypeInv, TypeOK
  <1>17. ASSUME DirectoryChange PROVE CoolInv'
    BY <1>17, TokenConstants DEF DirectoryChange, mail, usage, CoolInv, Recent,
       TypeInv, TypeOK
  <1>18. ASSUME Tick PROVE CoolInv'
    <2>1. /\ \A l \in Links : life'[l] = Less(life[l]) /\ life[l] \in 0..tokenMaxAge
          /\ issuedTTL' = Less(issuedTTL) /\ issuedTTL \in Nat /\ pc' = pc
      BY <1>18, TokenConstants DEF Tick, TypeInv, TypeOK
    <2>2. Recent(life') \subseteq Recent(life)
      BY <2>1, TokenConstants DEF Recent, Less
    <2>3. CASE Recent(life') = {}
      <3>1. ASSUME NEW l \in Links, life'[l] > 0
            PROVE  issuedTTL' + tokenMaxAge - life'[l] >= resendCooldown
        BY <2>1, <2>3, <3>1, TokenConstants DEF Recent, Less
      <3> QED
        BY <2>3, <3>1 DEF CoolInv
    <2>4. CASE Recent(life') # {}
      <3>1. (wiped' <=> wiped) /\ crowded' = crowded
        BY <1>18, <2>4 DEF Tick
      <3>2. ASSUME ~wiped, NEW l \in Links, life'[l] > 0
            PROVE  issuedTTL' + tokenMaxAge - life'[l] >= resendCooldown
        BY <2>1, <3>2, TokenConstants DEF CoolInv, Less
      <3>3. ASSUME NEW q \in Workers, pc[q] = "issue", q \notin crowded, ~wiped
            PROVE  FALSE
        BY <2>2, <2>4, <3>3 DEF CoolInv
      <3> QED
        BY <2>1, <3>1, <3>2, <3>3 DEF CoolInv
    <2> QED
      BY <2>3, <2>4
  <1>19. CASE UNCHANGED vars
    BY <1>19, TokenConstants DEF vars, CoolInv, Recent, TypeInv, TypeOK
  <1> QED
    BY <1>1, <1>2, <1>3, <1>4, <1>5, <1>6, <1>7, <1>8, <1>9, <1>10, <1>11,
       <1>12, <1>13, <1>14, <1>15, <1>16, <1>17, <1>18, <1>19
       DEF Next, Step

(* ... and RefusedOnlyAfterMail.                                           *)
LEMMA RefusedStep ==
  ASSUME TypeInv, StatusInv, RefusedOnlyAfterMail, [Next]_vars
  PROVE  RefusedOnlyAfterMail'
  <1>1. ASSUME NEW q \in Workers, NewToken(q) PROVE RefusedOnlyAfterMail'
    BY <1>1, TokenConstants DEF NewToken, PasswordForgot, AdminReset,
       OTPRecoveryRequest, AccountSettings, PasswordElsewhere, Goto, mail,
       directory, usage, RefusedOnlyAfterMail, StatusInv, TypeInv, TypeOK
  <1>2. ASSUME NEW q \in Workers, NEW l \in Links, SetIssued(q, l)
        PROVE  RefusedOnlyAfterMail'
    BY <1>2, TokenConstants DEF SetIssued, Goto, Done, directory, usage,
       RefusedOnlyAfterMail, StatusInv, TypeInv, TypeOK
  <1>3. ASSUME NEW q \in Workers, SendPasswordElsewhere(q)
        PROVE  RefusedOnlyAfterMail'
    BY <1>3, TokenConstants DEF SendPasswordElsewhere, Goto, Done, directory,
       usage, RefusedOnlyAfterMail, StatusInv, TypeInv, TypeOK
  <1>4. ASSUME NEW q \in Workers, SendTokenEmail(q) PROVE RefusedOnlyAfterMail'
    BY <1>4, TokenConstants DEF SendTokenEmail, Goto, Done, SendEmail,
       ClearIssued, NoRollback, directory, usage, RefusedOnlyAfterMail,
       StatusInv, TypeInv, TypeOK
  <1>5. ASSUME NEW q \in Workers, NEW l \in Links, ParseToken(q, l)
        PROVE  RefusedOnlyAfterMail'
    BY <1>5, TokenConstants DEF ParseToken, Goto, mail, directory, Confirming,
       RefusedOnlyAfterMail, StatusInv, TypeInv, TypeOK
  <1>6. ASSUME NEW q \in Workers, GiveUp(q) PROVE RefusedOnlyAfterMail'
    BY <1>6, TokenConstants DEF GiveUp, Goto, Done, mail, directory, usage,
       RefusedOnlyAfterMail, StatusInv, TypeInv, TypeOK
  <1>7. ASSUME NEW q \in Workers, PasswordReset(q) PROVE RefusedOnlyAfterMail'
    BY <1>7, TokenConstants DEF PasswordReset, Goto, mail, directory, usage,
       RefusedOnlyAfterMail, StatusInv, TypeInv, TypeOK
  <1>8. ASSUME NEW q \in Workers, ResetPassword(q) PROVE RefusedOnlyAfterMail'
    BY <1>8, TokenConstants DEF ResetPassword, Goto, Done, mail, usage,
       RefusedOnlyAfterMail, StatusInv, TypeInv, TypeOK
  <1>9. ASSUME NEW q \in Workers, SetPassword(q) PROVE RefusedOnlyAfterMail'
    BY <1>9, TokenConstants DEF SetPassword, TakeEffect, Goto, Done, Twice,
       mail, RefusedOnlyAfterMail, StatusInv, TypeInv, TypeOK
  <1>10. ASSUME NEW q \in Workers, UserMod(q) PROVE RefusedOnlyAfterMail'
    BY <1>10, TokenConstants DEF UserMod, TakeEffect, Goto, Done, Twice, mail,
       directory, RefusedOnlyAfterMail, StatusInv, TypeInv, TypeOK
  <1>11. ASSUME NEW q \in Workers, MarkLast(q) PROVE RefusedOnlyAfterMail'
    BY <1>11, TokenConstants DEF MarkLast, MarkTokenUsed, usedMarkerTTL, Goto,
       Done, mail, directory, RefusedOnlyAfterMail, StatusInv, TypeInv, TypeOK
  <1>12. ASSUME NEW q \in Workers, MarkFirst(q) PROVE RefusedOnlyAfterMail'
    BY <1>12, TokenConstants DEF MarkFirst, MarkTokenUsed, usedMarkerTTL, Goto,
       mail, directory, RefusedOnlyAfterMail, StatusInv, TypeInv, TypeOK
  <1>13. ASSUME NEW q \in Workers, ReleaseIssued(q) PROVE RefusedOnlyAfterMail'
    BY <1>13, TokenConstants DEF ReleaseIssued, ClearIssued, Goto, directory,
       usage, RefusedOnlyAfterMail, StatusInv, TypeInv, TypeOK
  <1>14. ASSUME NEW q \in Workers, AddOTPRecoveryRequest(q)
         PROVE  RefusedOnlyAfterMail'
    BY <1>14, TokenConstants DEF AddOTPRecoveryRequest, Goto, Done, Twice,
       mail, RefusedOnlyAfterMail, StatusInv, TypeInv, TypeOK
  <1>15. ASSUME NEW q \in Workers, Crash(q) PROVE RefusedOnlyAfterMail'
    <2>1. CASE pc[q] = "send"
      <3>1. link[q] \in Links /\ (stuck' <=> stuck \/ setter = link[q])
        BY <1>15, <2>1 DEF Crash, NoRollback, TypeInv, LinkInv, Engaged
      <3>2. \A l \in Links : l # link[q] => status'[l] = status[l]
        BY <1>15, <2>1 DEF Crash, SendEmail, TypeInv, TypeOK
      <3>3. UNCHANGED <<issuedTTL, setter>>
        BY <1>15 DEF Crash
      <3> QED
        BY <3>1, <3>2, <3>3 DEF RefusedOnlyAfterMail, TypeInv, TypeOK
    <2>2. CASE pc[q] # "send"
      BY <1>15, <2>2 DEF Crash, RefusedOnlyAfterMail
    <2> QED
      BY <2>1, <2>2
  <1>16. ASSUME RemoveOTPRecoveryRequest PROVE RefusedOnlyAfterMail'
    BY <1>16, TokenConstants DEF RemoveOTPRecoveryRequest, mail, usage,
       RefusedOnlyAfterMail, StatusInv, TypeInv, TypeOK
  <1>17. ASSUME DirectoryChange PROVE RefusedOnlyAfterMail'
    BY <1>17, TokenConstants DEF DirectoryChange, mail, usage,
       RefusedOnlyAfterMail, StatusInv, TypeInv, TypeOK
  <1>18. ASSUME Tick PROVE RefusedOnlyAfterMail'
    BY <1>18, TokenConstants DEF Tick, Less, directory, RefusedOnlyAfterMail,
       StatusInv, TypeInv, TypeOK
  <1>19. CASE UNCHANGED vars
    BY <1>19, TokenConstants DEF vars, RefusedOnlyAfterMail, StatusInv,
       TypeInv, TypeOK
  <1> QED
    BY <1>1, <1>2, <1>3, <1>4, <1>5, <1>6, <1>7, <1>8, <1>9, <1>10, <1>11,
       <1>12, <1>13, <1>14, <1>15, <1>16, <1>17, <1>18, <1>19
       DEF Next, Step

(* The invariant holds at first ...                                        *)
LEMMA TokenInvInit == Init => TypeInv /\ TokenInv
  <1> SUFFICES ASSUME Init PROVE TypeInv /\ TokenInv
    OBVIOUS
  <1>1. TypeInv
    <2>1. 0 \in 0..tokenMaxAge /\ 0 \in 0..resendCooldown /\ 0 \in 0..2
      BY TokenConstants
    <2>2. /\ usedTTL \in [Links -> 0..tokenMaxAge] /\ life \in [Links -> 0..tokenMaxAge]
          /\ effects \in [Links -> 0..2]
      BY <2>1 DEF Init
    <2>3. queued \in BOOLEAN /\ wiped \in BOOLEAN /\ stuck \in BOOLEAN
      BY DEF Init
    <2>4. LinkInv
      BY DEF Init, LinkInv, Engaged
    <2> QED
      BY <2>1, <2>2, <2>3, <2>4 DEF Init, TypeInv, TypeOK
  <1>2. StatusInv /\ KindInv /\ RaceInv
    BY DEF Init, StatusInv, KindInv, RaceInv, Engaged, Confirming
  <1>3. UseInv /\ MarkInv
    BY DEF Init, UseInv, MarkInv, Engaged, Confirming
  <1>4. CoolInv /\ RefusedOnlyAfterMail
    BY TokenConstants DEF Init, CoolInv, RefusedOnlyAfterMail
  <1> QED
    BY <1>1, <1>2, <1>3, <1>4 DEF TokenInv

(* ... and is preserved.                                                   *)
LEMMA TokenInvStep == TypeInv /\ TokenInv /\ [Next]_vars => TypeInv' /\ TokenInv'
  BY TypeStep, StatusStep, KindStep, RaceStep, UseStep, MarkStep, CoolStep,
     RefusedStep DEF TokenInv

(* The inductive invariant holds in every reachable state.                 *)
THEOREM TokenInvHolds == Spec => [](TypeInv /\ TokenInv)
  BY TokenInvInit, TokenInvStep, PTL DEF Spec

(* Every variable keeps its type: markers and cooldowns never live longer  *)
(* than they were set for (token.go:53-153).                               *)
THEOREM TypeCorrect == Spec => []TypeOK
  <1>1. TypeInv => TypeOK
    BY DEF TypeInv
  <1> QED
    BY <1>1, TokenInvHolds, PTL

(* A link takes effect at most once unless two requests had it accepted    *)
(* before either marked it, or an effect went unmarked: a used marker      *)
(* never expires before its link (token.go:99-153).                        *)
THEOREM LinksWorkOnceInTurn == Spec => []SingleUseInTurn
  <1>1. TokenInv => SingleUseInTurn
    BY DEF TokenInv, UseInv, SingleUseInTurn
  <1> QED
    BY <1>1, TokenInvHolds, PTL

(* A user is refused another mail only on account of one that was mailed   *)
(* or is on its way, or whose rollback failed (email.go:105-117).          *)
THEOREM RefusalHasAReason == Spec => []RefusedOnlyAfterMail
  <1>1. TokenInv => RefusedOnlyAfterMail
    BY DEF TokenInv
  <1> QED
    BY <1>1, TokenInvHolds, PTL

(* A password reset that stops with the random password in place leaves    *)
(* its link usable, unless the link raced (password.go:558-587).           *)
THEOREM ResetCanBeRetried == Spec => []FailedResetCanBeRetried
  <1>1. TokenInv => FailedResetCanBeRetried
    BY DEF TokenInv, MarkInv, FailedResetCanBeRetried
  <1> QED
    BY <1>1, TokenInvHolds, PTL

(* A second link within the cooldown is issued only by a request that      *)
(* looked before the first one's marker was set, or after the marker was   *)
(* deleted (token.go:53-83, email.go:105-117).                             *)
THEOREM CooldownIsKept == Spec => CooldownInTurn
  <1>1. TokenInv /\ [Next]_vars =>
          [\A q \in Workers :
             pc[q] = "issue" /\ pc'[q] = "send" /\ q \notin crowded /\ ~wiped =>
               \A l \in Recent(life) : status[l] = "lost"]_vars
    BY DEF TokenInv, CoolInv
  <1> QED
    BY <1>1, TokenInvHolds, PTL DEF Spec, CooldownInTurn
=============================================================================
