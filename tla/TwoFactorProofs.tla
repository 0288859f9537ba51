-------------------------- MODULE TwoFactorProofs --------------------------
(***************************************************************************)
(* OTP tokens, passkeys and the OTP recovery queue, for any number of      *)
(* concurrent requests, tokens, challenges and recovery requests.          *)
(*                                                                         *)
(* The four safety invariants follow from TypeInv and TwoFactorInv:        *)
(*                                                                         *)
(*   SwitchInv  a request about to turn two-factor on, from a list of      *)
(*              tokens that has not changed since, finds an active one;    *)
(*   FreshInv   a challenge that was not begun is nowhere;                 *)
(*   SpendInv   a challenge that did not race has one request spending it, *)
(*              or was spent once and is gone from the session;            *)
(*   ClassInv   a passkey is stored again only once the object class is    *)
(*              there;                                                     *)
(*   FreedInv   a request is taken for stale only if the user was gone or  *)
(*              not OTP only while it was open;                            *)
(*   QueueInv   one admin request is at an uncontested recovery request,   *)
(*              which is unanswered, and queued unless the list was wiped. *)
(*                                                                         *)
(* ActiveTokenBehindOTP, VerifiedPasskeyIsStored and                       *)
(* EachRequestAnsweredOnce are inductive given these; ChallengeSpentOnce   *)
(* follows from SpendInv.                                                  *)
(*                                                                         *)
(* A step is about the tokens, about the passkeys or about the queue, and  *)
(* leaves the rest alone in the sense of TokensKept, KeysKept and          *)
(* QueueKept: each part of the invariant looks at the steps of its own     *)
(* kind only.                                                              *)
(***************************************************************************)
EXTENDS TwoFactor, TLAPS

(* Requests that hold a challenge of a registration.                       *)
Registering(q) == pc[q] \in {"consume", "create", "add", "class", "retry"}

(* Requests that have not read the session, or have answered.              *)
Blank(q) == pc[q] \in {"idle", "look", "approve", "approved", "stale"}

(* TypeOK, and what the requests under way have in hand, by groups of      *)
(* variables.                                                              *)
StepType ==
    /\ pc \in [Workers -> {"idle", "check", "handler", "switch", "consume",
                           "create", "add", "class", "retry", "approve",
                           "approved", "look", "stale"}]
    /\ seenOTP \in [Workers -> BOOLEAN]
    /\ linkOut \in BOOLEAN
TokenType ==
    /\ tab \in {"otp", "passkey"}
    /\ requireMFA \in BOOLEAN /\ readonly \in BOOLEAN /\ exists \in BOOLEAN
    /\ token \in [Tokens -> {"new", "on", "off", "gone"}]
    /\ auth \in {"default", "otp", "password"}
    /\ shaky \in SUBSET Workers /\ firm \in BOOLEAN
KeyType ==
    /\ hasClass \in BOOLEAN
    /\ passkeys \in SUBSET Challenges /\ begun \in SUBSET Challenges
    /\ challenge \in Challenges \cup {NoChallenge}
    /\ spent \in [Challenges -> 0..2]
    /\ raced \in SUBSET Challenges /\ failed \in SUBSET Challenges
    /\ removed \in SUBSET Challenges
    /\ copy \in [Workers -> Challenges \cup {NoChallenge}]
    /\ \A q \in Workers : Registering(q) => copy[q] \in Challenges
    /\ \A q \in Workers : Blank(q) => copy[q] = NoChallenge
QueueType ==
    /\ asked \in 0..MaxRequests /\ queue \in 0..asked
    /\ saw \in [Workers -> 0..asked]
    /\ \A q \in Workers : ~AtQueue(q) => saw[q] = 0
    /\ \A q \in Workers : pc[q] \in {"approve", "approved"} => saw[q] # 0
AnswerType ==
    /\ answers \in [Requests -> 0..2]
    /\ dropped \in SUBSET Requests /\ wiped \in SUBSET Requests
    /\ freed \in SUBSET Requests /\ contested \in SUBSET Requests

(* The types, inductively.                                                 *)
TypeInv == StepType /\ TokenType /\ KeyType /\ QueueType /\ AnswerType

(* Two-factor is about to be turned on with an active token.               *)
SwitchInv ==
    \A q \in Workers :
        exists /\ pc[q] = "switch" /\ q \notin shaky => Active # {}

(* Challenges are random: one not yet begun is unknown.                    *)
FreshInv ==
    \A k \in Challenges \ begun :
      /\ challenge # k /\ spent[k] = 0
      /\ \A q \in Workers : copy[q] # k

(* A request that found challenge k in its session.                        *)
Spending(q, k) == pc[q] \in {"consume", "create"} /\ copy[q] = k

(* Out of races a challenge is spent once.                                 *)
SpendInv ==
    \A k \in Challenges \ raced :
      /\ \A p, q \in Workers : Spending(p, k) /\ Spending(q, k) => p = q
      /\ spent[k] > 0 => spent[k] = 1 /\ \A q \in Workers : ~Spending(q, k)
      /\ \/ spent[k] > 0
         \/ \E q \in Workers : pc[q] = "create" /\ copy[q] = k
         => challenge # k

(* The retry after adding the object class finds it.                       *)
ClassInv == \A q \in Workers : pc[q] = "retry" => hasClass

(* Stale requests were stale at some time.                                 *)
FreedInv ==
    /\ queue # 0 /\ ~OTPOnly => queue \in freed
    /\ \A q \in Workers : pc[q] = "stale" /\ saw[q] # 0 => saw[q] \in freed

(* Out of contests one admin request deals with a recovery request.        *)
QueueInv ==
    /\ \A n \in Requests : n > asked => answers[n] = 0 /\ n \notin dropped
    /\ \A q \in Workers : AtQueue(q) =>
         /\ saw[q] # 0 /\ saw[q] \notin contested =>
              /\ queue = saw[q] \/ saw[q] \in wiped
              /\ answers[saw[q]] = 0 /\ saw[q] \notin dropped
              /\ \A p \in Workers : AtQueue(p) /\ saw[p] = saw[q] => p = q
         /\ queue # 0 /\ queue \notin contested => saw[q] = queue

(* The inductive invariant.                                                *)
TwoFactorInv == /\ SwitchInv /\ ActiveTokenBehindOTP
                /\ FreshInv /\ SpendInv
                /\ ClassInv /\ VerifiedPasskeyIsStored
                /\ FreedInv /\ QueueInv /\ EachRequestAnsweredOnce
-----------------------------------------------------------------------------
(* What a step that is not about tokens leaves alone, ...                  *)
TokensKept ==
    /\ UNCHANGED <<config, otp>>
    /\ \A p \in Workers : pc'[p] = "switch" <=> pc[p] = "switch"
TokenSteps ==
    \/ \E q \in Workers : 
         \/ OTPTokenVerify(q) \/ TwoFactorEnable(q) \/ SwitchToOTP(q)
         \/ TwoFactorDisable(q) \/ SwitchToPassword(q)
    \/ \E q \in Workers, t \in Tokens : 
         \/ OTPTokenAdd(q, t) \/ OTPTokenRemove(q, t) \/ OTPTokenEnable(q, t)
         \/ OTPTokenDisable(q, t)
    \/ UserVanishes

(* ... one that is not about passkeys, ...                                 *)
KeysKept ==
    /\ UNCHANGED <<passkey, challenge>>
    /\ copy' \in [Workers -> Challenges \cup {NoChallenge}]
    /\ \A p \in Workers :
         /\ Registering(p) \/ Registering(p)' =>
              pc'[p] = pc[p] /\ copy'[p] = copy[p]
         /\ copy'[p] \in {copy[p], challenge, NoChallenge}
         /\ Blank(p)' => copy'[p] = NoChallenge
KeySteps ==
    \/ \E q \in Workers : 
         \/ IsLoggedIn(q) \/ PasskeyFinish(q) \/ Consume(q)
         \/ CreateCredential(q) \/ AddPasskey(q) \/ AddClass(q)
    \/ \E q \in Workers, k \in Challenges : 
         \/ PasskeyBegin(q, k) \/ PasskeyRemove(q, k)
    \/ UserVanishes

(* ... and one that is not about the recovery queue.                       *)
QueueKept ==
    /\ UNCHANGED <<queue, asked, saw, answers, dropped, wiped, contested>>
    /\ freed \subseteq freed' /\ freed' \subseteq freed \cup ({queue} \ {0})
    /\ queue # 0 /\ OTPOnly /\ ~OTPOnly' => queue \in freed'
    /\ \A p \in Workers :
         /\ AtQueue(p)' <=> AtQueue(p)
         /\ pc'[p] = "stale" <=> pc[p] = "stale"
QueueSteps ==
    \/ \E q \in Workers : 
         \/ Approve(q) \/ SwitchToPassword(q) \/ FinishApproval(q)
         \/ ListUserShow(q) \/ DropStale(q)
    \/ OTPRecoveryConfirm \/ QueueWiped \/ Deny


(* The steps of the requests have their type, ...                          *)
LEMMA StepTypeStep ==
  ASSUME StepType, [Next]_vars
  PROVE  StepType'
  <1>1. ASSUME NEW q \in Workers, RequireLogin(q) PROVE StepType'
    BY <1>1 DEF RequireLogin, Goto, config, otp, passkey, recovery, request,
       StepType
  <1>2. ASSUME NEW q \in Workers, IsLoggedIn(q) PROVE StepType'
    BY <1>2 DEF IsLoggedIn, Done, Goto, config, otp, passkey, recovery,
       request, StepType
  <1>3. ASSUME NEW q \in Workers, Page(q) PROVE StepType'
    BY <1>3 DEF Page, Done, Goto, config, otp, passkey, recovery, request,
       StepType
  <1>4. ASSUME NEW q \in Workers, OTPTokenVerify(q) PROVE StepType'
    BY <1>4 DEF OTPTokenVerify, SelfService, TokenHandler, Handler, ToSwitch,
       Goto, config, otp, passkey, recovery, request, StepType
  <1>5. ASSUME NEW q \in Workers, TwoFactorEnable(q) PROVE StepType'
    BY <1>5 DEF TwoFactorEnable, TokenHandler, Handler, ToSwitch, Goto, config,
       otp, passkey, recovery, request, StepType
  <1>6. ASSUME NEW q \in Workers, SwitchToOTP(q) PROVE StepType'
    BY <1>6 DEF SwitchToOTP, StoreAuthTypes, Done, Goto, config, otp, passkey,
       recovery, request, StepType
  <1>7. ASSUME NEW q \in Workers, TwoFactorDisable(q) PROVE StepType'
    BY <1>7 DEF TwoFactorDisable, Handler, StoreAuthTypes, Done, Goto, config,
       otp, passkey, recovery, request, StepType
  <1>8. ASSUME NEW q \in Workers, PasskeyFinish(q) PROVE StepType'
    BY <1>8 DEF PasskeyFinish, Handler, Goto, config, otp, passkey, recovery,
       request, StepType
  <1>9. ASSUME NEW q \in Workers, Consume(q) PROVE StepType'
    BY <1>9 DEF Consume, Done, Goto, config, otp, passkey, recovery, request,
       StepType
  <1>10. ASSUME NEW q \in Workers, CreateCredential(q) PROVE StepType'
    BY <1>10 DEF CreateCredential, Done, Goto, config, otp, passkey, recovery,
       request, StepType
  <1>11. ASSUME NEW q \in Workers, AddPasskey(q) PROVE StepType'
    BY <1>11 DEF AddPasskey, PasskeyFailed, Done, Goto, config, otp, passkey,
       recovery, request, StepType
  <1>12. ASSUME NEW q \in Workers, AddClass(q) PROVE StepType'
    BY <1>12 DEF AddClass, PasskeyFailed, Done, Goto, config, otp, passkey,
       recovery, request, StepType
  <1>13. ASSUME NEW q \in Workers, Approve(q) PROVE StepType'
    BY <1>13 DEF Approve, Find, Goto, config, otp, passkey, recovery, request,
       StepType
  <1>14. ASSUME NEW q \in Workers, SwitchToPassword(q) PROVE StepType'
    BY <1>14 DEF SwitchToPassword, StoreAuthTypes, Goto, config, otp, passkey,
       recovery, request, StepType
  <1>15. ASSUME NEW q \in Workers, FinishApproval(q) PROVE StepType'
    BY <1>15 DEF FinishApproval, Answer, Goto, config, otp, passkey, recovery,
       request, StepType
  <1>16. ASSUME NEW q \in Workers, AdminOTPRecoveryList(q) PROVE StepType'
    BY <1>16 DEF AdminOTPRecoveryList, Goto, config, otp, passkey, recovery,
       request, StepType
  <1>17. ASSUME NEW q \in Workers, ListUserShow(q) PROVE StepType'
    BY <1>17 DEF ListUserShow, Find, Goto, config, otp, passkey, recovery,
       request, StepType
  <1>18. ASSUME NEW q \in Workers, DropStale(q) PROVE StepType'
    BY <1>18 DEF DropStale, Goto, config, otp, passkey, recovery, request,
       StepType
  <1>19. ASSUME NEW q \in Workers, NEW t \in Tokens, OTPTokenAdd(q, t)
         PROVE  StepType'
    BY <1>19 DEF OTPTokenAdd, SelfService, TokenHandler, Handler, Done, Goto,
       config, otp, passkey, recovery, request, StepType
  <1>20. ASSUME NEW q \in Workers, NEW t \in Tokens, OTPTokenRemove(q, t)
         PROVE  StepType'
    BY <1>20 DEF OTPTokenRemove, SelfService, TokenHandler, Handler, TokenLost,
       Done, Goto, config, otp, passkey, recovery, request, StepType
  <1>21. ASSUME NEW q \in Workers, NEW t \in Tokens, OTPTokenEnable(q, t)
         PROVE  StepType'
    BY <1>21 DEF OTPTokenEnable, SelfService, TokenHandler, Handler, Done,
       Goto, config, otp, passkey, recovery, request, StepType
  <1>22. ASSUME NEW q \in Workers, NEW t \in Tokens, OTPTokenDisable(q, t)
         PROVE  StepType'
    BY <1>22 DEF OTPTokenDisable, SelfService, TokenHandler, Handler,
       TokenLost, Done, Goto, config, otp, passkey, recovery, request, StepType
  <1>23. ASSUME NEW q \in Workers, NEW k \in Challenges, PasskeyBegin(q, k)
         PROVE  StepType'
    BY <1>23 DEF PasskeyBegin, Handler, Done, Goto, config, otp, passkey,
       recovery, request, StepType
  <1>24. ASSUME NEW q \in Workers, NEW k \in Challenges, PasskeyRemove(q, k)
         PROVE  StepType'
    BY <1>24 DEF PasskeyRemove, Handler, Done, Goto, config, otp, passkey,
       recovery, request, StepType
  <1>25. ASSUME OTPRecoveryRequest PROVE StepType'
    BY <1>25 DEF OTPRecoveryRequest, config, otp, passkey, recovery, request,
       StepType
  <1>26. ASSUME OTPRecoveryConfirm PROVE StepType'
    BY <1>26 DEF OTPRecoveryConfirm, config, otp, passkey, recovery, request,
       StepType
  <1>27. ASSUME QueueWiped PROVE StepType'
    BY <1>27 DEF QueueWiped, config, otp, passkey, recovery, request, StepType
  <1>28. ASSUME Deny PROVE StepType'
    BY <1>28 DEF Deny, Answer, config, otp, passkey, recovery, request,
       StepType
  <1>29. ASSUME UserVanishes PROVE StepType'
    BY <1>29 DEF UserVanishes, config, otp, passkey, recovery, request,
       StepType
  <1>30. CASE UNCHANGED vars
    BY <1>30 DEF vars, config, otp, passkey, recovery, request, StepType
  <1> QED
    BY <1>1, <1>2, <1>3, <1>4, <1>5, <1>6, <1>7, <1>8, <1>9, <1>10, <1>11,
       <1>12, <1>13, <1>14, <1>15, <1>16, <1>17, <1>18, <1>19, <1>20, <1>21,
       <1>22, <1>23, <1>24, <1>25, <1>26, <1>27, <1>28, <1>29, <1>30 DEF Next

(* ... each is about the tokens or leaves them alone, ...                  *)
LEMMA TokenKinds ==
  ASSUME StepType, [Next]_vars
  PROVE  TokensKept \/ TokenSteps
  <1>1. ASSUME NEW q \in Workers, RequireLogin(q) PROVE TokensKept
    BY <1>1 DEF RequireLogin, Goto, config, otp, passkey, recovery, request,
       TokensKept, StepType
  <1>2. ASSUME NEW q \in Workers, IsLoggedIn(q) PROVE TokensKept
    BY <1>2 DEF IsLoggedIn, Done, Goto, config, otp, passkey, recovery,
       request, TokensKept, StepType
  <1>3. ASSUME NEW q \in Workers, Page(q) PROVE TokensKept
    BY <1>3 DEF Page, Done, Goto, config, otp, passkey, recovery, request,
       TokensKept, StepType
  <1>4. ASSUME NEW q \in Workers, PasskeyFinish(q) PROVE TokensKept
    BY <1>4 DEF PasskeyFinish, Handler, Goto, config, otp, passkey, recovery,
       request, TokensKept, StepType
  <1>5. ASSUME NEW q \in Workers, Consume(q) PROVE TokensKept
    BY <1>5 DEF Consume, Done, Goto, config, otp, passkey, recovery, request,
       TokensKept, StepType
  <1>6. ASSUME NEW q \in Workers, CreateCredential(q) PROVE TokensKept
    BY <1>6 DEF CreateCredential, Done, Goto, config, otp, passkey, recovery,
       request, TokensKept, StepType
  <1>7. ASSUME NEW q \in Workers, AddPasskey(q) PROVE TokensKept
    BY <1>7 DEF AddPasskey, PasskeyFailed, Done, Goto, config, otp, passkey,
       recovery, request, TokensKept, StepType
  <1>8. ASSUME NEW q \in Workers, AddClass(q) PROVE TokensKept
    BY <1>8 DEF AddClass, PasskeyFailed, Done, Goto, config, otp, passkey,
       recovery, request, TokensKept, StepType
  <1>9. ASSUME NEW q \in Workers, Approve(q) PROVE TokensKept
    BY <1>9 DEF Approve, Find, Goto, config, otp, passkey, recovery, request,
       TokensKept, StepType
  <1>10. ASSUME NEW q \in Workers, FinishApproval(q) PROVE TokensKept
    BY <1>10 DEF FinishApproval, Answer, Goto, config, otp, passkey, recovery,
       request, TokensKept, StepType
  <1>11. ASSUME NEW q \in Workers, AdminOTPRecoveryList(q) PROVE TokensKept
    BY <1>11 DEF AdminOTPRecoveryList, Goto, config, otp, passkey, recovery,
       request, TokensKept, StepType
  <1>12. ASSUME NEW q \in Workers, ListUserShow(q) PROVE TokensKept
    BY <1>12 DEF ListUserShow, Find, Goto, config, otp, passkey, recovery,
       request, TokensKept, StepType
  <1>13. ASSUME NEW q \in Workers, DropStale(q) PROVE TokensKept
    BY <1>13 DEF DropStale, Goto, config, otp, passkey, recovery, request,
       TokensKept, StepType
  <1>14. ASSUME NEW q \in Workers, NEW k \in Challenges, PasskeyBegin(q, k)
         PROVE  TokensKept
    BY <1>14 DEF PasskeyBegin, Handler, Done, Goto, config, otp, passkey,
       recovery, request, TokensKept, StepType
  <1>15. ASSUME NEW q \in Workers, NEW k \in Challenges, PasskeyRemove(q, k)
         PROVE  TokensKept
    BY <1>15 DEF PasskeyRemove, Handler, Done, Goto, config, otp, passkey,
       recovery, request, TokensKept, StepType
  <1>16. ASSUME OTPRecoveryRequest PROVE TokensKept
    BY <1>16 DEF OTPRecoveryRequest, config, otp, passkey, recovery, request,
       TokensKept, StepType
  <1>17. ASSUME OTPRecoveryConfirm PROVE TokensKept
    BY <1>17 DEF OTPRecoveryConfirm, config, otp, passkey, recovery, request,
       TokensKept, StepType
  <1>18. ASSUME QueueWiped PROVE TokensKept
    BY <1>18 DEF QueueWiped, config, otp, passkey, recovery, request,
       TokensKept, StepType
  <1>19. ASSUME Deny PROVE TokensKept
    BY <1>19 DEF Deny, Answer, config, otp, passkey, recovery, request,
       TokensKept, StepType
  <1>20. CASE UNCHANGED vars
    BY <1>20 DEF vars, config, otp, passkey, recovery, request, TokensKept,
       StepType
  <1> QED
    BY <1>1, <1>2, <1>3, <1>4, <1>5, <1>6, <1>7, <1>8, <1>9, <1>10, <1>11,
       <1>12, <1>13, <1>14, <1>15, <1>16, <1>17, <1>18, <1>19, <1>20 DEF Next,
       TokenSteps

(* ... about the passkeys or leaves them alone, ...                        *)
LEMMA KeyKinds ==
  ASSUME StepType, KeyType, [Next]_vars
  PROVE  KeysKept \/ KeySteps
  <1>1. ASSUME NEW q \in Workers, RequireLogin(q) PROVE KeysKept
    BY <1>1 DEF RequireLogin, Goto, config, otp, passkey, recovery, request,
       KeysKept, StepType, KeyType, Registering, Blank
  <1>2. ASSUME NEW q \in Workers, Page(q) PROVE KeysKept
    BY <1>2 DEF Page, Done, Goto, config, otp, passkey, recovery, request,
       KeysKept, StepType, KeyType, Registering, Blank
  <1>3. ASSUME NEW q \in Workers, OTPTokenVerify(q) PROVE KeysKept
    BY <1>3 DEF OTPTokenVerify, SelfService, TokenHandler, Handler, ToSwitch,
       Goto, config, otp, passkey, recovery, request, KeysKept, StepType,
       KeyType, Registering, Blank
  <1>4. ASSUME NEW q \in Workers, TwoFactorEnable(q) PROVE KeysKept
    BY <1>4 DEF TwoFactorEnable, TokenHandler, Handler, ToSwitch, Goto, config,
       otp, passkey, recovery, request, KeysKept, StepType, KeyType,
       Registering, Blank
  <1>5. ASSUME NEW q \in Workers, SwitchToOTP(q) PROVE KeysKept
    BY <1>5 DEF SwitchToOTP, StoreAuthTypes, Done, Goto, config, otp, passkey,
       recovery, request, KeysKept, StepType, KeyType, Registering, Blank
  <1>6. ASSUME NEW q \in Workers, TwoFactorDisable(q) PROVE KeysKept
    BY <1>6 DEF TwoFactorDisable, Handler, StoreAuthTypes, Done, Goto, config,
       otp, passkey, recovery, request, KeysKept, StepType, KeyType,
       Registering, Blank
  <1>7. ASSUME NEW q \in Workers, Approve(q) PROVE KeysKept
    BY <1>7 DEF Approve, Find, Goto, config, otp, passkey, recovery, request,
       KeysKept, StepType, KeyType, Registering, Blank
  <1>8. ASSUME NEW q \in Workers, SwitchToPassword(q) PROVE KeysKept
    BY <1>8 DEF SwitchToPassword, StoreAuthTypes, Goto, config, otp, passkey,
       recovery, request, KeysKept, StepType, KeyType, Registering, Blank
  <1>9. ASSUME NEW q \in Workers, FinishApproval(q) PROVE KeysKept
    BY <1>9 DEF FinishApproval, Answer, Goto, config, otp, passkey, recovery,
       request, KeysKept, StepType, KeyType, Registering, Blank
  <1>10. ASSUME NEW q \in Workers, AdminOTPRecoveryList(q) PROVE KeysKept
    BY <1>10 DEF AdminOTPRecoveryList, Goto, config, otp, passkey, recovery,
       request, KeysKept, StepType, KeyType, Registering, Blank
  <1>11. ASSUME NEW q \in Workers, ListUserShow(q) PROVE KeysKept
    BY <1>11 DEF ListUserShow, Find, Goto, config, otp, passkey, recovery,
       request, KeysKept, StepType, KeyType, Registering, Blank
  <1>12. ASSUME NEW q \in Workers, DropStale(q) PROVE KeysKept
    BY <1>12 DEF DropStale, Goto, config, otp, passkey, recovery, request,
       KeysKept, StepType, KeyType, Registering, Blank
  <1>13. ASSUME NEW q \in Workers, NEW t \in Tokens, OTPTokenAdd(q, t)
         PROVE  KeysKept
    BY <1>13 DEF OTPTokenAdd, SelfService, TokenHandler, Handler, Done, Goto,
       config, otp, passkey, recovery, request, KeysKept, StepType, KeyType,
       Registering, Blank
  <1>14. ASSUME NEW q \in Workers, NEW t \in Tokens, OTPTokenRemove(q, t)
         PROVE  KeysKept
    BY <1>14 DEF OTPTokenRemove, SelfService, TokenHandler, Handler, TokenLost,
       Done, Goto, config, otp, passkey, recovery, request, KeysKept, StepType,
       KeyType, Registering, Blank
  <1>15. ASSUME NEW q \in Workers, NEW t \in Tokens, OTPTokenEnable(q, t)
         PROVE  KeysKept
    BY <1>15 DEF OTPTokenEnable, SelfService, TokenHandler, Handler, Done,
       Goto, config, otp, passkey, recovery, request, KeysKept, StepType,
       KeyType, Registering, Blank
  <1>16. ASSUME NEW q \in Workers, NEW t \in Tokens, OTPTokenDisable(q, t)
         PROVE  KeysKept
    BY <1>16 DEF OTPTokenDisable, SelfService, TokenHandler, Handler,
       TokenLost, Done, Goto, config, otp, passkey, recovery, request,
       KeysKept, StepType, KeyType, Registering, Blank
  <1>17. ASSUME OTPRecoveryRequest PROVE KeysKept
    BY <1>17 DEF OTPRecoveryRequest, config, otp, passkey, recovery, request,
       KeysKept, StepType, KeyType, Registering, Blank
  <1>18. ASSUME OTPRecoveryConfirm PROVE KeysKept
    BY <1>18 DEF OTPRecoveryConfirm, config, otp, passkey, recovery, request,
       KeysKept, StepType, KeyType, Registering, Blank
  <1>19. ASSUME QueueWiped PROVE KeysKept
    BY <1>19 DEF QueueWiped, config, otp, passkey, recovery, request, KeysKept,
       StepType, KeyType, Registering, Blank
  <1>20. ASSUME Deny PROVE KeysKept
    BY <1>20 DEF Deny, Answer, config, otp, passkey, recovery, request,
       KeysKept, StepType, KeyType, Registering, Blank
  <1>21. CASE UNCHANGED vars
    BY <1>21 DEF vars, config, otp, passkey, recovery, request, KeysKept,
       StepType, KeyType, Registering, Blank
  <1> QED
    BY <1>1, <1>2, <1>3, <1>4, <1>5, <1>6, <1>7, <1>8, <1>9, <1>10, <1>11,
       <1>12, <1>13, <1>14, <1>15, <1>16, <1>17, <1>18, <1>19, <1>20, <1>21 DEF
       Next, KeySteps

(* ... about the queue or leaves it alone.                                 *)
LEMMA QueueKinds ==
  ASSUME StepType, [Next]_vars
  PROVE  QueueKept \/ QueueSteps
  <1>1. ASSUME NEW q \in Workers, RequireLogin(q) PROVE QueueKept
    BY <1>1 DEF RequireLogin, Goto, config, otp, passkey, recovery, request,
       QueueKept, StepType, AtQueue, OTPOnly
  <1>2. ASSUME NEW q \in Workers, IsLoggedIn(q) PROVE QueueKept
    BY <1>2 DEF IsLoggedIn, Done, Goto, config, otp, passkey, recovery,
       request, QueueKept, StepType, AtQueue, OTPOnly
  <1>3. ASSUME NEW q \in Workers, Page(q) PROVE QueueKept
    BY <1>3 DEF Page, Done, Goto, config, otp, passkey, recovery, request,
       QueueKept, StepType, AtQueue, OTPOnly
  <1>4. ASSUME NEW q \in Workers, OTPTokenVerify(q) PROVE QueueKept
    BY <1>4 DEF OTPTokenVerify, SelfService, TokenHandler, Handler, ToSwitch,
       Goto, config, otp, passkey, recovery, request, QueueKept, StepType,
       AtQueue, OTPOnly
  <1>5. ASSUME NEW q \in Workers, TwoFactorEnable(q) PROVE QueueKept
    BY <1>5 DEF TwoFactorEnable, TokenHandler, Handler, ToSwitch, Goto, config,
       otp, passkey, recovery, request, QueueKept, StepType, AtQueue, OTPOnly
  <1>6. ASSUME NEW q \in Workers, SwitchToOTP(q) PROVE QueueKept
    BY <1>6 DEF SwitchToOTP, StoreAuthTypes, Done, Goto, config, otp, passkey,
       recovery, request, QueueKept, StepType, AtQueue, OTPOnly
  <1>7. ASSUME NEW q \in Workers, TwoFactorDisable(q) PROVE QueueKept
    BY <1>7 DEF TwoFactorDisable, Handler, StoreAuthTypes, Done, Goto, config,
       otp, passkey, recovery, request, QueueKept, StepType, AtQueue, OTPOnly
  <1>8. ASSUME NEW q \in Workers, PasskeyFinish(q) PROVE QueueKept
    BY <1>8 DEF PasskeyFinish, Handler, Goto, config, otp, passkey, recovery,
       request, QueueKept, StepType, AtQueue, OTPOnly
  <1>9. ASSUME NEW q \in Workers, Consume(q) PROVE QueueKept
    BY <1>9 DEF Consume, Done, Goto, config, otp, passkey, recovery, request,
       QueueKept, StepType, AtQueue, OTPOnly
  <1>10. ASSUME NEW q \in Workers, CreateCredential(q) PROVE QueueKept
    BY <1>10 DEF CreateCredential, Done, Goto, config, otp, passkey, recovery,
       request, QueueKept, StepType, AtQueue, OTPOnly
  <1>11. ASSUME NEW q \in Workers, AddPasskey(q) PROVE QueueKept
    BY <1>11 DEF AddPasskey, PasskeyFailed, Done, Goto, config, otp, passkey,
       recovery, request, QueueKept, StepType, AtQueue, OTPOnly
  <1>12. ASSUME NEW q \in Workers, AddClass(q) PROVE QueueKept
    BY <1>12 DEF AddClass, PasskeyFailed, Done, Goto, config, otp, passkey,
       recovery, request, QueueKept, StepType, AtQueue, OTPOnly
  <1>13. ASSUME NEW q \in Workers, AdminOTPRecoveryList(q) PROVE QueueKept
    BY <1>13 DEF AdminOTPRecoveryList, Goto, config, otp, passkey, recovery,
       request, QueueKept, StepType, AtQueue, OTPOnly
  <1>14. ASSUME NEW q \in Workers, NEW t \in Tokens, OTPTokenAdd(q, t)
         PROVE  QueueKept
    BY <1>14 DEF OTPTokenAdd, SelfService, TokenHandler, Handler, Done, Goto,
       config, otp, passkey, recovery, request, QueueKept, StepType, AtQueue,
       OTPOnly
  <1>15. ASSUME NEW q \in Workers, NEW t \in Tokens, OTPTokenRemove(q, t)
         PROVE  QueueKept
    BY <1>15 DEF OTPTokenRemove, SelfService, TokenHandler, Handler, TokenLost,
       Done, Goto, config, otp, passkey, recovery, request, QueueKept,
       StepType, AtQueue, OTPOnly
  <1>16. ASSUME NEW q \in Workers, NEW t \in Tokens, OTPTokenEnable(q, t)
         PROVE  QueueKept
    BY <1>16 DEF OTPTokenEnable, SelfService, TokenHandler, Handler, Done,
       Goto, config, otp, passkey, recovery, request, QueueKept, StepType,
       AtQueue, OTPOnly
  <1>17. ASSUME NEW q \in Workers, NEW t \in Tokens, OTPTokenDisable(q, t)
         PROVE  QueueKept
    BY <1>17 DEF OTPTokenDisable, SelfService, TokenHandler, Handler,
       TokenLost, Done, Goto, config, otp, passkey, recovery, request,
       QueueKept, StepType, AtQueue, OTPOnly
  <1>18. ASSUME NEW q \in Workers, NEW k \in Challenges, PasskeyBegin(q, k)
         PROVE  QueueKept
    BY <1>18 DEF PasskeyBegin, Handler, Done, Goto, config, otp, passkey,
       recovery, request, QueueKept, StepType, AtQueue, OTPOnly
  <1>19. ASSUME NEW q \in Workers, NEW k \in Challenges, PasskeyRemove(q, k)
         PROVE  QueueKept
    BY <1>19 DEF PasskeyRemove, Handler, Done, Goto, config, otp, passkey,
       recovery, request, QueueKept, StepType, AtQueue, OTPOnly
  <1>20. ASSUME OTPRecoveryRequest PROVE QueueKept
    BY <1>20 DEF OTPRecoveryRequest, config, otp, passkey, recovery, request,
       QueueKept, StepType, AtQueue, OTPOnly
  <1>21. ASSUME UserVanishes PROVE QueueKept
    BY <1>21 DEF UserVanishes, config, otp, passkey, recovery, request,
       QueueKept, StepType, AtQueue, OTPOnly
  <1>22. CASE UNCHANGED vars
    BY <1>22 DEF vars, config, otp, passkey, recovery, request, QueueKept,
       StepType, AtQueue, OTPOnly
  <1> QED
    BY <1>1, <1>2, <1>3, <1>4, <1>5, <1>6, <1>7, <1>8, <1>9, <1>10, <1>11,
       <1>12, <1>13, <1>14, <1>15, <1>16, <1>17, <1>18, <1>19, <1>20, <1>21,
       <1>22 DEF Next, QueueSteps

(* Types of the tokens, ...                                                *)
LEMMA TokenTypeStep ==
  ASSUME TypeInv, [Next]_vars
  PROVE  TokenType'
  <1>1. CASE TokensKept
    BY <1>1 DEF TokensKept, TokenType, TypeInv, StepType, config, otp
  <1>2. ASSUME NEW q \in Workers, OTPTokenVerify(q) PROVE TokenType'
    BY <1>2 DEF OTPTokenVerify, SelfService, TokenHandler, Handler, ToSwitch,
       Goto, config, otp, passkey, recovery, request, TokenType, TypeInv,
       StepType, config, otp
  <1>3. ASSUME NEW q \in Workers, TwoFactorEnable(q) PROVE TokenType'
    BY <1>3 DEF TwoFactorEnable, TokenHandler, Handler, ToSwitch, Goto, config,
       otp, passkey, recovery, request, TokenType, TypeInv, StepType, config,
       otp
  <1>4. ASSUME NEW q \in Workers, SwitchToOTP(q) PROVE TokenType'
    BY <1>4 DEF SwitchToOTP, StoreAuthTypes, Done, Goto, config, otp, passkey,
       recovery, request, TokenType, TypeInv, StepType, config, otp
  <1>5. ASSUME NEW q \in Workers, TwoFactorDisable(q) PROVE TokenType'
    BY <1>5 DEF TwoFactorDisable, Handler, StoreAuthTypes, Done, Goto, config,
       otp, passkey, recovery, request, TokenType, TypeInv, StepType, config,
       otp
  <1>6. ASSUME NEW q \in Workers, SwitchToPassword(q) PROVE TokenType'
    BY <1>6 DEF SwitchToPassword, StoreAuthTypes, Goto, config, otp, passkey,
       recovery, request, TokenType, TypeInv, StepType, config, otp
  <1>7. ASSUME NEW q \in Workers, NEW t \in Tokens, OTPTokenAdd(q, t)
        PROVE  TokenType'
    BY <1>7 DEF OTPTokenAdd, SelfService, TokenHandler, Handler, Done, Goto,
       config, otp, passkey, recovery, request, TokenType, TypeInv, StepType,
       config, otp
  <1>8. ASSUME NEW q \in Workers, NEW t \in Tokens, OTPTokenRemove(q, t)
        PROVE  TokenType'
    BY <1>8 DEF OTPTokenRemove, SelfService, TokenHandler, Handler, TokenLost,
       Done, Goto, config, otp, passkey, recovery, request, TokenType, TypeInv,
       StepType, config, otp
  <1>9. ASSUME NEW q \in Workers, NEW t \in Tokens, OTPTokenEnable(q, t)
        PROVE  TokenType'
    BY <1>9 DEF OTPTokenEnable, SelfService, TokenHandler, Handler, Done, Goto,
       config, otp, passkey, recovery, request, TokenType, TypeInv, StepType,
       config, otp
  <1>10. ASSUME NEW q \in Workers, NEW t \in Tokens, OTPTokenDisable(q, t)
         PROVE  TokenType'
    BY <1>10 DEF OTPTokenDisable, SelfService, TokenHandler, Handler,
       TokenLost, Done, Goto, config, otp, passkey, recovery, request,
       TokenType, TypeInv, StepType, config, otp
  <1>11. ASSUME UserVanishes PROVE TokenType'
    BY <1>11 DEF UserVanishes, config, otp, passkey, recovery, request,
       TokenType, TypeInv, StepType, config, otp
  <1> QED
    BY <1>1, <1>2, <1>3, <1>4, <1>5, <1>6, <1>7, <1>8, <1>9, <1>10, <1>11,
       TokenKinds DEF TokenSteps, TypeInv

(* ... of the passkeys ...                                                 *)
LEMMA KeyTypeStep ==
  ASSUME TypeInv, [Next]_vars
  PROVE  KeyType'
  <1>1. CASE KeysKept
    BY <1>1, TwoFactorConstants DEF KeysKept, KeyType, TypeInv, StepType,
       Registering, Blank, passkey, Twice
  <1>2. ASSUME NEW q \in Workers, IsLoggedIn(q) PROVE KeyType'
    BY <1>2, TwoFactorConstants DEF IsLoggedIn, Done, Goto, config, otp,
       passkey, recovery, request, KeyType, TypeInv, StepType, Registering,
       Blank, passkey, Twice
  <1>3. ASSUME NEW q \in Workers, PasskeyFinish(q) PROVE KeyType'
    BY <1>3, TwoFactorConstants DEF PasskeyFinish, Handler, Goto, config, otp,
       passkey, recovery, request, KeyType, TypeInv, StepType, Registering,
       Blank, passkey, Twice
  <1>4. ASSUME NEW q \in Workers, Consume(q) PROVE KeyType'
    BY <1>4, TwoFactorConstants DEF Consume, Done, Goto, config, otp, passkey,
       recovery, request, KeyType, TypeInv, StepType, Registering, Blank,
       passkey, Twice
  <1>5. ASSUME NEW q \in Workers, CreateCredential(q) PROVE KeyType'
    BY <1>5, TwoFactorConstants DEF CreateCredential, Done, Goto, config, otp,
       passkey, recovery, request, KeyType, TypeInv, StepType, Registering,
       Blank, passkey, Twice
  <1>6. ASSUME NEW q \in Workers, AddPasskey(q) PROVE KeyType'
    BY <1>6, TwoFactorConstants DEF AddPasskey, PasskeyFailed, Done, Goto,
       config, otp, passkey, recovery, request, KeyType, TypeInv, StepType,
       Registering, Blank, passkey, Twice
  <1>7. ASSUME NEW q \in Workers, AddClass(q) PROVE KeyType'
    BY <1>7, TwoFactorConstants DEF AddClass, PasskeyFailed, Done, Goto,
       config, otp, passkey, recovery, request, KeyType, TypeInv, StepType,
       Registering, Blank, passkey, Twice
  <1>8. ASSUME NEW q \in Workers, NEW k \in Challenges, PasskeyBegin(q, k)
        PROVE  KeyType'
    BY <1>8, TwoFactorConstants DEF PasskeyBegin, Handler, Done, Goto, config,
       otp, passkey, recovery, request, KeyType, TypeInv, StepType,
       Registering, Blank, passkey, Twice
  <1>9. ASSUME NEW q \in Workers, NEW k \in Challenges, PasskeyRemove(q, k)
        PROVE  KeyType'
    BY <1>9, TwoFactorConstants DEF PasskeyRemove, Handler, Done, Goto, config,
       otp, passkey, recovery, request, KeyType, TypeInv, StepType,
       Registering, Blank, passkey, Twice
  <1>10. ASSUME UserVanishes PROVE KeyType'
    BY <1>10, TwoFactorConstants DEF UserVanishes, config, otp, passkey,
       recovery, request, KeyType, TypeInv, StepType, Registering, Blank,
       passkey, Twice
  <1> QED
    BY <1>1, <1>2, <1>3, <1>4, <1>5, <1>6, <1>7, <1>8, <1>9, <1>10, KeyKinds
       DEF KeySteps, TypeInv

(* ... of the queue ...                                                    *)
LEMMA QueueTypeStep ==
  ASSUME TypeInv, [Next]_vars
  PROVE  QueueType'
  <1>1. CASE QueueKept
    BY <1>1, TwoFactorConstants DEF QueueKept, QueueType, TypeInv, StepType,
       AtQueue
  <1>2. ASSUME NEW q \in Workers, Approve(q) PROVE QueueType'
    BY <1>2, TwoFactorConstants DEF Approve, Find, Goto, config, otp, passkey,
       recovery, request, QueueType, TypeInv, StepType, AtQueue
  <1>3. ASSUME NEW q \in Workers, SwitchToPassword(q) PROVE QueueType'
    BY <1>3, TwoFactorConstants DEF SwitchToPassword, StoreAuthTypes, Goto,
       config, otp, passkey, recovery, request, QueueType, TypeInv, StepType,
       AtQueue
  <1>4. ASSUME NEW q \in Workers, FinishApproval(q) PROVE QueueType'
    BY <1>4, TwoFactorConstants DEF FinishApproval, Answer, Goto, config, otp,
       passkey, recovery, request, QueueType, TypeInv, StepType, AtQueue
  <1>5. ASSUME NEW q \in Workers, ListUserShow(q) PROVE QueueType'
    BY <1>5, TwoFactorConstants DEF ListUserShow, Find, Goto, config, otp,
       passkey, recovery, request, QueueType, TypeInv, StepType, AtQueue
  <1>6. ASSUME NEW q \in Workers, DropStale(q) PROVE QueueType'
    BY <1>6, TwoFactorConstants DEF DropStale, Goto, config, otp, passkey,
       recovery, request, QueueType, TypeInv, StepType, AtQueue
  <1>7. ASSUME OTPRecoveryConfirm PROVE QueueType'
    BY <1>7, TwoFactorConstants DEF OTPRecoveryConfirm, config, otp, passkey,
       recovery, request, QueueType, TypeInv, StepType, AtQueue
  <1>8. ASSUME QueueWiped PROVE QueueType'
    BY <1>8, TwoFactorConstants DEF QueueWiped, config, otp, passkey, recovery,
       request, QueueType, TypeInv, StepType, AtQueue
  <1>9. ASSUME Deny PROVE QueueType'
    BY <1>9, TwoFactorConstants DEF Deny, Answer, config, otp, passkey,
       recovery, request, QueueType, TypeInv, StepType, AtQueue
  <1> QED
    BY <1>1, <1>2, <1>3, <1>4, <1>5, <1>6, <1>7, <1>8, <1>9, QueueKinds DEF
       QueueSteps, TypeInv

(* (the request that is queued, and those the admins are at)               *)
LEMMA RequestFacts ==
  ASSUME QueueType
  PROVE  /\ queue # 0 => queue \in Requests
         /\ \A q \in Workers : saw[q] # 0 => saw[q] \in Requests
         /\ asked < MaxRequests => asked + 1 \in Requests
  BY TwoFactorConstants DEF QueueType, Requests

(* ... and of the answers.                                                 *)
LEMMA AnswerTypeStep ==
  ASSUME TypeInv, [Next]_vars
  PROVE  AnswerType'
  <1>1. CASE QueueKept
    BY <1>1, RequestFacts DEF QueueKept, AnswerType, QueueType, TypeInv, Twice
  <1>2. ASSUME NEW q \in Workers, Approve(q) PROVE AnswerType'
    BY <1>2, RequestFacts DEF Approve, Find, Goto, config, otp, passkey,
       recovery, request, AnswerType, QueueType, TypeInv, Twice
  <1>3. ASSUME NEW q \in Workers, SwitchToPassword(q) PROVE AnswerType'
    BY <1>3, RequestFacts DEF SwitchToPassword, StoreAuthTypes, Goto, config,
       otp, passkey, recovery, request, AnswerType, QueueType, TypeInv, Twice
  <1>4. ASSUME NEW q \in Workers, FinishApproval(q) PROVE AnswerType'
    BY <1>4, RequestFacts DEF FinishApproval, Answer, Goto, config, otp,
       passkey, recovery, request, AnswerType, QueueType, TypeInv, Twice
  <1>5. ASSUME NEW q \in Workers, ListUserShow(q) PROVE AnswerType'
    BY <1>5, RequestFacts DEF ListUserShow, Find, Goto, config, otp, passkey,
       recovery, request, AnswerType, QueueType, TypeInv, Twice
  <1>6. ASSUME NEW q \in Workers, DropStale(q) PROVE AnswerType'
    BY <1>6, RequestFacts DEF DropStale, Goto, config, otp, passkey, recovery,
       request, AnswerType, QueueType, TypeInv, Twice
  <1>7. ASSUME OTPRecoveryConfirm PROVE AnswerType'
    BY <1>7, RequestFacts DEF OTPRecoveryConfirm, config, otp, passkey,
       recovery, request, AnswerType, QueueType, TypeInv, Twice
  <1>8. ASSUME QueueWiped PROVE AnswerType'
    BY <1>8, RequestFacts DEF QueueWiped, config, otp, passkey, recovery,
       request, AnswerType, QueueType, TypeInv, Twice
  <1>9. ASSUME Deny PROVE AnswerType'
    BY <1>9, RequestFacts DEF Deny, Answer, config, otp, passkey, recovery,
       request, AnswerType, QueueType, TypeInv, Twice
  <1> QED
    BY <1>1, <1>2, <1>3, <1>4, <1>5, <1>6, <1>7, <1>8, <1>9, QueueKinds DEF
       QueueSteps, TypeInv

(* Every step preserves SwitchInv, ...                                     *)
LEMMA SwitchStep ==
  ASSUME TypeInv, SwitchInv, [Next]_vars
  PROVE  SwitchInv'
  <1>1. CASE TokensKept
    BY <1>1 DEF TokensKept, SwitchInv, Active, Owned, TypeInv, StepType,
       TokenType, config, otp
  <1>2. ASSUME NEW q \in Workers, OTPTokenVerify(q) PROVE SwitchInv'
    BY <1>2 DEF OTPTokenVerify, SelfService, TokenHandler, Handler, ToSwitch,
       Goto, config, otp, passkey, recovery, request, SwitchInv, Active, Owned,
       TypeInv, StepType, TokenType, config, otp
  <1>3. ASSUME NEW q \in Workers, TwoFactorEnable(q) PROVE SwitchInv'
    BY <1>3 DEF TwoFactorEnable, TokenHandler, Handler, ToSwitch, Goto, config,
       otp, passkey, recovery, request, SwitchInv, Active, Owned, TypeInv,
       StepType, TokenType, config, otp
  <1>4. ASSUME NEW q \in Workers, SwitchToOTP(q) PROVE SwitchInv'
    BY <1>4 DEF SwitchToOTP, StoreAuthTypes, Done, Goto, config, otp, passkey,
       recovery, request, SwitchInv, Active, Owned, TypeInv, StepType,
       TokenType, config, otp
  <1>5. ASSUME NEW q \in Workers, TwoFactorDisable(q) PROVE SwitchInv'
    BY <1>5 DEF TwoFactorDisable, Handler, StoreAuthTypes, Done, Goto, config,
       otp, passkey, recovery, request, SwitchInv, Active, Owned, TypeInv,
       StepType, TokenType, config, otp
  <1>6. ASSUME NEW q \in Workers, SwitchToPassword(q) PROVE SwitchInv'
    BY <1>6 DEF SwitchToPassword, StoreAuthTypes, Goto, config, otp, passkey,
       recovery, request, SwitchInv, Active, Owned, TypeInv, StepType,
       TokenType, config, otp
  <1>7. ASSUME NEW q \in Workers, NEW t \in Tokens, OTPTokenAdd(q, t)
        PROVE  SwitchInv'
    BY <1>7 DEF OTPTokenAdd, SelfService, TokenHandler, Handler, Done, Goto,
       config, otp, passkey, recovery, request, SwitchInv, Active, Owned,
       TypeInv, StepType, TokenType, config, otp
  <1>8. ASSUME NEW q \in Workers, NEW t \in Tokens, OTPTokenRemove(q, t)
        PROVE  SwitchInv'
    BY <1>8 DEF OTPTokenRemove, SelfService, TokenHandler, Handler, TokenLost,
       Done, Goto, config, otp, passkey, recovery, request, SwitchInv, Active,
       Owned, TypeInv, StepType, TokenType, config, otp
  <1>9. ASSUME NEW q \in Workers, NEW t \in Tokens, OTPTokenEnable(q, t)
        PROVE  SwitchInv'
    BY <1>9 DEF OTPTokenEnable, SelfService, TokenHandler, Handler, Done, Goto,
       config, otp, passkey, recovery, request, SwitchInv, Active, Owned,
       TypeInv, StepType, TokenType, config, otp
  <1>10. ASSUME NEW q \in Workers, NEW t \in Tokens, OTPTokenDisable(q, t)
         PROVE  SwitchInv'
    BY <1>10 DEF OTPTokenDisable, SelfService, TokenHandler, Handler,
       TokenLost, Done, Goto, config, otp, passkey, recovery, request,
       SwitchInv, Active, Owned, TypeInv, StepType, TokenType, config, otp
  <1>11. ASSUME UserVanishes PROVE SwitchInv'
    BY <1>11 DEF UserVanishes, config, otp, passkey, recovery, request,
       SwitchInv, Active, Owned, TypeInv, StepType, TokenType, config, otp
  <1> QED
    BY <1>1, <1>2, <1>3, <1>4, <1>5, <1>6, <1>7, <1>8, <1>9, <1>10, <1>11,
       TokenKinds DEF TokenSteps, TypeInv

(* ... ActiveTokenBehindOTP, ...                                           *)
LEMMA ActiveStep ==
  ASSUME TypeInv, SwitchInv, ActiveTokenBehindOTP, [Next]_vars
  PROVE  ActiveTokenBehindOTP'
  <1>1. CASE TokensKept
    BY <1>1 DEF TokensKept, SwitchInv, ActiveTokenBehindOTP, OTPOnly, Active,
       LastActive, TypeInv, StepType, TokenType, config, otp
  <1>2. ASSUME NEW q \in Workers, OTPTokenVerify(q) PROVE ActiveTokenBehindOTP'
    BY <1>2 DEF OTPTokenVerify, SelfService, TokenHandler, Handler, ToSwitch,
       Goto, config, otp, passkey, recovery, request, SwitchInv,
       ActiveTokenBehindOTP, OTPOnly, Active, LastActive, TypeInv, StepType,
       TokenType, config, otp
  <1>3. ASSUME NEW q \in Workers, TwoFactorEnable(q)
        PROVE  ActiveTokenBehindOTP'
    BY <1>3 DEF TwoFactorEnable, TokenHandler, Handler, ToSwitch, Goto, config,
       otp, passkey, recovery, request, SwitchInv, ActiveTokenBehindOTP,
       OTPOnly, Active, LastActive, TypeInv, StepType, TokenType, config, otp
  <1>4. ASSUME NEW q \in Workers, SwitchToOTP(q) PROVE ActiveTokenBehindOTP'
    BY <1>4 DEF SwitchToOTP, StoreAuthTypes, Done, Goto, config, otp, passkey,
       recovery, request, SwitchInv, ActiveTokenBehindOTP, OTPOnly, Active,
       LastActive, TypeInv, StepType, TokenType, config, otp
  <1>5. ASSUME NEW q \in Workers, TwoFactorDisable(q)
        PROVE  ActiveTokenBehindOTP'
    BY <1>5 DEF TwoFactorDisable, Handler, StoreAuthTypes, Done, Goto, config,
       otp, passkey, recovery, request, SwitchInv, ActiveTokenBehindOTP,
       OTPOnly, Active, LastActive, TypeInv, StepType, TokenType, config, otp
  <1>6. ASSUME NEW q \in Workers, SwitchToPassword(q)
        PROVE  ActiveTokenBehindOTP'
    BY <1>6 DEF SwitchToPassword, StoreAuthTypes, Goto, config, otp, passkey,
       recovery, request, SwitchInv, ActiveTokenBehindOTP, OTPOnly, Active,
       LastActive, TypeInv, StepType, TokenType, config, otp
  <1>7. ASSUME NEW q \in Workers, NEW t \in Tokens, OTPTokenAdd(q, t)
        PROVE  ActiveTokenBehindOTP'
    BY <1>7 DEF OTPTokenAdd, SelfService, TokenHandler, Handler, Done, Goto,
       config, otp, passkey, recovery, request, SwitchInv,
       ActiveTokenBehindOTP, OTPOnly, Active, LastActive, TypeInv, StepType,
       TokenType, config, otp
  <1>8. ASSUME NEW q \in Workers, NEW t \in Tokens, OTPTokenRemove(q, t)
        PROVE  ActiveTokenBehindOTP'
    BY <1>8 DEF OTPTokenRemove, SelfService, TokenHandler, Handler, TokenLost,
       Done, Goto, config, otp, passkey, recovery, request, SwitchInv,
       ActiveTokenBehindOTP, OTPOnly, Active, LastActive, TypeInv, StepType,
       TokenType, config, otp
  <1>9. ASSUME NEW q \in Workers, NEW t \in Tokens, OTPTokenEnable(q, t)
        PROVE  ActiveTokenBehindOTP'
    BY <1>9 DEF OTPTokenEnable, SelfService, TokenHandler, Handler, Done, Goto,
       config, otp, passkey, recovery, request, SwitchInv,
       ActiveTokenBehindOTP, OTPOnly, Active, LastActive, TypeInv, StepType,
       TokenType, config, otp
  <1>10. ASSUME NEW q \in Workers, NEW t \in Tokens, OTPTokenDisable(q, t)
         PROVE  ActiveTokenBehindOTP'
    BY <1>10 DEF OTPTokenDisable, SelfService, TokenHandler, Handler,
       TokenLost, Done, Goto, config, otp, passkey, recovery, request,
       SwitchInv, ActiveTokenBehindOTP, OTPOnly, Active, LastActive, TypeInv,
       StepType, TokenType, config, otp
  <1>11. ASSUME UserVanishes PROVE ActiveTokenBehindOTP'
    BY <1>11 DEF UserVanishes, config, otp, passkey, recovery, request,
       SwitchInv, ActiveTokenBehindOTP, OTPOnly, Active, LastActive, TypeInv,
       StepType, TokenType, config, otp
  <1> QED
    BY <1>1, <1>2, <1>3, <1>4, <1>5, <1>6, <1>7, <1>8, <1>9, <1>10, <1>11,
       TokenKinds DEF TokenSteps, TypeInv

(* ... FreshInv, ...                                                       *)
LEMMA FreshStep ==
  ASSUME TypeInv, FreshInv, [Next]_vars
  PROVE  FreshInv'
  <1>1. CASE KeysKept
    BY <1>1, TwoFactorConstants DEF KeysKept, FreshInv, TypeInv, StepType,
       KeyType, Registering, passkey
  <1>2. ASSUME NEW q \in Workers, IsLoggedIn(q) PROVE FreshInv'
    BY <1>2, TwoFactorConstants DEF IsLoggedIn, Done, Goto, config, otp,
       passkey, recovery, request, FreshInv, TypeInv, StepType, KeyType,
       Registering, passkey
  <1>3. ASSUME NEW q \in Workers, PasskeyFinish(q) PROVE FreshInv'
    BY <1>3, TwoFactorConstants DEF PasskeyFinish, Handler, Goto, config, otp,
       passkey, recovery, request, FreshInv, TypeInv, StepType, KeyType,
       Registering, passkey
  <1>4. ASSUME NEW q \in Workers, Consume(q) PROVE FreshInv'
    BY <1>4, TwoFactorConstants DEF Consume, Done, Goto, config, otp, passkey,
       recovery, request, FreshInv, TypeInv, StepType, KeyType, Registering,
       passkey
  <1>5. ASSUME NEW q \in Workers, CreateCredential(q) PROVE FreshInv'
    BY <1>5, TwoFactorConstants DEF CreateCredential, Done, Goto, config, otp,
       passkey, recovery, request, FreshInv, TypeInv, StepType, KeyType,
       Registering, passkey
  <1>6. ASSUME NEW q \in Workers, AddPasskey(q) PROVE FreshInv'
    BY <1>6, TwoFactorConstants DEF AddPasskey, PasskeyFailed, Done, Goto,
       config, otp, passkey, recovery, request, FreshInv, TypeInv, StepType,
       KeyType, Registering, passkey
  <1>7. ASSUME NEW q \in Workers, AddClass(q) PROVE FreshInv'
    BY <1>7, TwoFactorConstants DEF AddClass, PasskeyFailed, Done, Goto,
       config, otp, passkey, recovery, request, FreshInv, TypeInv, StepType,
       KeyType, Registering, passkey
  <1>8. ASSUME NEW q \in Workers, NEW k \in Challenges, PasskeyBegin(q, k)
        PROVE  FreshInv'
    BY <1>8, TwoFactorConstants DEF PasskeyBegin, Handler, Done, Goto, config,
       otp, passkey, recovery, request, FreshInv, TypeInv, StepType, KeyType,
       Registering, passkey
  <1>9. ASSUME NEW q \in Workers, NEW k \in Challenges, PasskeyRemove(q, k)
        PROVE  FreshInv'
    BY <1>9, TwoFactorConstants DEF PasskeyRemove, Handler, Done, Goto, config,
       otp, passkey, recovery, request, FreshInv, TypeInv, StepType, KeyType,
       Registering, passkey
  <1>10. ASSUME UserVanishes PROVE FreshInv'
    BY <1>10, TwoFactorConstants DEF UserVanishes, config, otp, passkey,
       recovery, request, FreshInv, TypeInv, StepType, KeyType, Registering,
       passkey
  <1> QED
    BY <1>1, <1>2, <1>3, <1>4, <1>5, <1>6, <1>7, <1>8, <1>9, <1>10, KeyKinds
       DEF KeySteps, TypeInv

(* ... SpendInv, ...                                                       *)
LEMMA SpendStep ==
  ASSUME TypeInv, FreshInv, SpendInv, [Next]_vars
  PROVE  SpendInv'
  <1>1. CASE KeysKept
    BY <1>1, TwoFactorConstants DEF KeysKept, SpendInv, Spending, FreshInv,
       TypeInv, StepType, KeyType, Registering, passkey, Twice
  <1>2. ASSUME NEW q \in Workers, IsLoggedIn(q) PROVE SpendInv'
    BY <1>2, TwoFactorConstants DEF IsLoggedIn, Done, Goto, config, otp,
       passkey, recovery, request, SpendInv, Spending, FreshInv, TypeInv,
       StepType, KeyType, Registering, passkey, Twice
  <1>3. ASSUME NEW q \in Workers, PasskeyFinish(q) PROVE SpendInv'
    BY <1>3, TwoFactorConstants DEF PasskeyFinish, Handler, Goto, config, otp,
       passkey, recovery, request, SpendInv, Spending, FreshInv, TypeInv,
       StepType, KeyType, Registering, passkey, Twice
  <1>4. ASSUME NEW q \in Workers, Consume(q) PROVE SpendInv'
    BY <1>4, TwoFactorConstants DEF Consume, Done, Goto, config, otp, passkey,
       recovery, request, SpendInv, Spending, FreshInv, TypeInv, StepType,
       KeyType, Registering, passkey, Twice
  <1>5. ASSUME NEW q \in Workers, CreateCredential(q) PROVE SpendInv'
    BY <1>5, TwoFactorConstants DEF CreateCredential, Done, Goto, config, otp,
       passkey, recovery, request, SpendInv, Spending, FreshInv, TypeInv,
       StepType, KeyType, Registering, passkey, Twice
  <1>6. ASSUME NEW q \in Workers, AddPasskey(q) PROVE SpendInv'
    BY <1>6, TwoFactorConstants DEF AddPasskey, PasskeyFailed, Done, Goto,
       config, otp, passkey, recovery, request, SpendInv, Spending, FreshInv,
       TypeInv, StepType, KeyType, Registering, passkey, Twice
  <1>7. ASSUME NEW q \in Workers, AddClass(q) PROVE SpendInv'
    BY <1>7, TwoFactorConstants DEF AddClass, PasskeyFailed, Done, Goto,
       config, otp, passkey, recovery, request, SpendInv, Spending, FreshInv,
       TypeInv, StepType, KeyType, Registering, passkey, Twice
  <1>8. ASSUME NEW q \in Workers, NEW k \in Challenges, PasskeyBegin(q, k)
        PROVE  SpendInv'
    BY <1>8, TwoFactorConstants DEF PasskeyBegin, Handler, Done, Goto, config,
       otp, passkey, recovery, request, SpendInv, Spending, FreshInv, TypeInv,
       StepType, KeyType, Registering, passkey, Twice
  <1>9. ASSUME NEW q \in Workers, NEW k \in Challenges, PasskeyRemove(q, k)
        PROVE  SpendInv'
    BY <1>9, TwoFactorConstants DEF PasskeyRemove, Handler, Done, Goto, config,
       otp, passkey, recovery, request, SpendInv, Spending, FreshInv, TypeInv,
       StepType, KeyType, Registering, passkey, Twice
  <1>10. ASSUME UserVanishes PROVE SpendInv'
    BY <1>10, TwoFactorConstants DEF UserVanishes, config, otp, passkey,
       recovery, request, SpendInv, Spending, FreshInv, TypeInv, StepType,
       KeyType, Registering, passkey, Twice
  <1> QED
    BY <1>1, <1>2, <1>3, <1>4, <1>5, <1>6, <1>7, <1>8, <1>9, <1>10, KeyKinds
       DEF KeySteps, TypeInv

(* ... ClassInv, ...                                                       *)
LEMMA ClassStep ==
  ASSUME TypeInv, ClassInv, [Next]_vars
  PROVE  ClassInv'
  <1>1. CASE KeysKept
    BY <1>1 DEF KeysKept, ClassInv, TypeInv, StepType, Registering, passkey
  <1>2. ASSUME NEW q \in Workers, IsLoggedIn(q) PROVE ClassInv'
    BY <1>2 DEF IsLoggedIn, Done, Goto, config, otp, passkey, recovery,
       request, ClassInv, TypeInv, StepType, Registering, passkey
  <1>3. ASSUME NEW q \in Workers, PasskeyFinish(q) PROVE ClassInv'
    BY <1>3 DEF PasskeyFinish, Handler, Goto, config, otp, passkey, recovery,
       request, ClassInv, TypeInv, StepType, Registering, passkey
  <1>4. ASSUME NEW q \in Workers, Consume(q) PROVE ClassInv'
    BY <1>4 DEF Consume, Done, Goto, config, otp, passkey, recovery, request,
       ClassInv, TypeInv, StepType, Registering, passkey
  <1>5. ASSUME NEW q \in Workers, CreateCredential(q) PROVE ClassInv'
    BY <1>5 DEF CreateCredential, Done, Goto, config, otp, passkey, recovery,
       request, ClassInv, TypeInv, StepType, Registering, passkey
  <1>6. ASSUME NEW q \in Workers, AddPasskey(q) PROVE ClassInv'
    BY <1>6 DEF AddPasskey, PasskeyFailed, Done, Goto, config, otp, passkey,
       recovery, request, ClassInv, TypeInv, StepType, Registering, passkey
  <1>7. ASSUME NEW q \in Workers, AddClass(q) PROVE ClassInv'
    BY <1>7 DEF AddClass, PasskeyFailed, Done, Goto, config, otp, passkey,
       recovery, request, ClassInv, TypeInv, StepType, Registering, passkey
  <1>8. ASSUME NEW q \in Workers, NEW k \in Challenges, PasskeyBegin(q, k)
        PROVE  ClassInv'
    BY <1>8 DEF PasskeyBegin, Handler, Done, Goto, config, otp, passkey,
       recovery, request, ClassInv, TypeInv, StepType, Registering, passkey
  <1>9. ASSUME NEW q \in Workers, NEW k \in Challenges, PasskeyRemove(q, k)
        PROVE  ClassInv'
    BY <1>9 DEF PasskeyRemove, Handler, Done, Goto, config, otp, passkey,
       recovery, request, ClassInv, TypeInv, StepType, Registering, passkey
  <1>10. ASSUME UserVanishes PROVE ClassInv'
    BY <1>10 DEF UserVanishes, config, otp, passkey, recovery, request,
       ClassInv, TypeInv, StepType, Registering, passkey
  <1> QED
    BY <1>1, <1>2, <1>3, <1>4, <1>5, <1>6, <1>7, <1>8, <1>9, <1>10, KeyKinds
       DEF KeySteps, TypeInv

(* ... VerifiedPasskeyIsStored, ...                                        *)
LEMMA StoredStep ==
  ASSUME TypeInv, ClassInv, VerifiedPasskeyIsStored, [Next]_vars
  PROVE  VerifiedPasskeyIsStored'
  <1>1. CASE KeysKept
    BY <1>1, TwoFactorConstants DEF KeysKept, VerifiedPasskeyIsStored,
       ClassInv, TypeInv, StepType, KeyType, Registering, passkey, Twice
  <1>2. ASSUME NEW q \in Workers, IsLoggedIn(q) PROVE VerifiedPasskeyIsStored'
    BY <1>2, TwoFactorConstants DEF IsLoggedIn, Done, Goto, config, otp,
       passkey, recovery, request, VerifiedPasskeyIsStored, ClassInv, TypeInv,
       StepType, KeyType, Registering, passkey, Twice
  <1>3. ASSUME NEW q \in Workers, PasskeyFinish(q)
        PROVE  VerifiedPasskeyIsStored'
    BY <1>3, TwoFactorConstants DEF PasskeyFinish, Handler, Goto, config, otp,
       passkey, recovery, request, VerifiedPasskeyIsStored, ClassInv, TypeInv,
       StepType, KeyType, Registering, passkey, Twice
  <1>4. ASSUME NEW q \in Workers, Consume(q) PROVE VerifiedPasskeyIsStored'
    BY <1>4, TwoFactorConstants DEF Consume, Done, Goto, config, otp, passkey,
       recovery, request, VerifiedPasskeyIsStored, ClassInv, TypeInv, StepType,
       KeyType, Registering, passkey, Twice
  <1>5. ASSUME NEW q \in Workers, CreateCredential(q)
        PROVE  VerifiedPasskeyIsStored'
    BY <1>5, TwoFactorConstants DEF CreateCredential, Done, Goto, config, otp,
       passkey, recovery, request, VerifiedPasskeyIsStored, ClassInv, TypeInv,
       StepType, KeyType, Registering, passkey, Twice
  <1>6. ASSUME NEW q \in Workers, AddPasskey(q) PROVE VerifiedPasskeyIsStored'
    BY <1>6, TwoFactorConstants DEF AddPasskey, PasskeyFailed, Done, Goto,
       config, otp, passkey, recovery, request, VerifiedPasskeyIsStored,
       ClassInv, TypeInv, StepType, KeyType, Registering, passkey, Twice
  <1>7. ASSUME NEW q \in Workers, AddClass(q) PROVE VerifiedPasskeyIsStored'
    BY <1>7, TwoFactorConstants DEF AddClass, PasskeyFailed, Done, Goto,
       config, otp, passkey, recovery, request, VerifiedPasskeyIsStored,
       ClassInv, TypeInv, StepType, KeyType, Registering, passkey, Twice
  <1>8. ASSUME NEW q \in Workers, NEW k \in Challenges, PasskeyBegin(q, k)
        PROVE  VerifiedPasskeyIsStored'
    BY <1>8, TwoFactorConstants DEF PasskeyBegin, Handler, Done, Goto, config,
       otp, passkey, recovery, request, VerifiedPasskeyIsStored, ClassInv,
       TypeInv, StepType, KeyType, Registering, passkey, Twice
  <1>9. ASSUME NEW q \in Workers, NEW k \in Challenges, PasskeyRemove(q, k)
        PROVE  VerifiedPasskeyIsStored'
    BY <1>9, TwoFactorConstants DEF PasskeyRemove, Handler, Done, Goto, config,
       otp, passkey, recovery, request, VerifiedPasskeyIsStored, ClassInv,
       TypeInv, StepType, KeyType, Registering, passkey, Twice
  <1>10. ASSUME UserVanishes PROVE VerifiedPasskeyIsStored'
    BY <1>10, TwoFactorConstants DEF UserVanishes, config, otp, passkey,
       recovery, request, VerifiedPasskeyIsStored, ClassInv, TypeInv, StepType,
       KeyType, Registering, passkey, Twice
  <1> QED
    BY <1>1, <1>2, <1>3, <1>4, <1>5, <1>6, <1>7, <1>8, <1>9, <1>10, KeyKinds
       DEF KeySteps, TypeInv

(* ... FreedInv, ...                                                       *)
LEMMA FreedStep ==
  ASSUME TypeInv, FreedInv, [Next]_vars
  PROVE  FreedInv'
  <1>1. CASE QueueKept
    BY <1>1, TwoFactorConstants DEF QueueKept, FreedInv, OTPOnly, TypeInv,
       StepType, QueueType, AtQueue
  <1>2. ASSUME NEW q \in Workers, Approve(q) PROVE FreedInv'
    BY <1>2, TwoFactorConstants DEF Approve, Find, Goto, config, otp, passkey,
       recovery, request, FreedInv, OTPOnly, TypeInv, StepType, QueueType,
       AtQueue
  <1>3. ASSUME NEW q \in Workers, SwitchToPassword(q) PROVE FreedInv'
    BY <1>3, TwoFactorConstants DEF SwitchToPassword, StoreAuthTypes, Goto,
       config, otp, passkey, recovery, request, FreedInv, OTPOnly, TypeInv,
       StepType, QueueType, AtQueue
  <1>4. ASSUME NEW q \in Workers, FinishApproval(q) PROVE FreedInv'
    BY <1>4, TwoFactorConstants DEF FinishApproval, Answer, Goto, config, otp,
       passkey, recovery, request, FreedInv, OTPOnly, TypeInv, StepType,
       QueueType, AtQueue
  <1>5. ASSUME NEW q \in Workers, ListUserShow(q) PROVE FreedInv'
    BY <1>5, TwoFactorConstants DEF ListUserShow, Find, Goto, config, otp,
       passkey, recovery, request, FreedInv, OTPOnly, TypeInv, StepType,
       QueueType, AtQueue
  <1>6. ASSUME NEW q \in Workers, DropStale(q) PROVE FreedInv'
    BY <1>6, TwoFactorConstants DEF DropStale, Goto, config, otp, passkey,
       recovery, request, FreedInv, OTPOnly, TypeInv, StepType, QueueType,
       AtQueue
  <1>7. ASSUME OTPRecoveryConfirm PROVE FreedInv'
    BY <1>7, TwoFactorConstants DEF OTPRecoveryConfirm, config, otp, passkey,
       recovery, request, FreedInv, OTPOnly, TypeInv, StepType, QueueType,
       AtQueue
  <1>8. ASSUME QueueWiped PROVE FreedInv'
    BY <1>8, TwoFactorConstants DEF QueueWiped, config, otp, passkey, recovery,
       request, FreedInv, OTPOnly, TypeInv, StepType, QueueType, AtQueue
  <1>9. ASSUME Deny PROVE FreedInv'
    BY <1>9, TwoFactorConstants DEF Deny, Answer, config, otp, passkey,
       recovery, request, FreedInv, OTPOnly, TypeInv, StepType, QueueType,
       AtQueue
  <1> QED
    BY <1>1, <1>2, <1>3, <1>4, <1>5, <1>6, <1>7, <1>8, <1>9, QueueKinds DEF
       QueueSteps, TypeInv

(* ... QueueInv, ...                                                       *)
LEMMA QueueStep ==
  ASSUME TypeInv, QueueInv, EachRequestAnsweredOnce, [Next]_vars
  PROVE  QueueInv'
  <1>1. CASE QueueKept
    BY <1>1, TwoFactorConstants DEF QueueKept, QueueInv,
       EachRequestAnsweredOnce, TypeInv, StepType, QueueType, AnswerType,
       AtQueue, Requests
  <1>2. ASSUME NEW q \in Workers, Approve(q) PROVE QueueInv'
    BY <1>2, TwoFactorConstants DEF Approve, Find, Goto, config, otp, passkey,
       recovery, request, QueueInv, EachRequestAnsweredOnce, TypeInv, StepType,
       QueueType, AnswerType, AtQueue, Requests
  <1>3. ASSUME NEW q \in Workers, SwitchToPassword(q) PROVE QueueInv'
    BY <1>3, TwoFactorConstants DEF SwitchToPassword, StoreAuthTypes, Goto,
       config, otp, passkey, recovery, request, QueueInv,
       EachRequestAnsweredOnce, TypeInv, StepType, QueueType, AnswerType,
       AtQueue, Requests
  <1>4. ASSUME NEW q \in Workers, FinishApproval(q) PROVE QueueInv'
    BY <1>4, TwoFactorConstants DEF FinishApproval, Answer, Goto, config, otp,
       passkey, recovery, request, QueueInv, EachRequestAnsweredOnce, TypeInv,
       StepType, QueueType, AnswerType, AtQueue, Requests
  <1>5. ASSUME NEW q \in Workers, ListUserShow(q) PROVE QueueInv'
    BY <1>5, TwoFactorConstants DEF ListUserShow, Find, Goto, config, otp,
       passkey, recovery, request, QueueInv, EachRequestAnsweredOnce, TypeInv,
       StepType, QueueType, AnswerType, AtQueue, Requests
  <1>6. ASSUME NEW q \in Workers, DropStale(q) PROVE QueueInv'
    BY <1>6, TwoFactorConstants DEF DropStale, Goto, config, otp, passkey,
       recovery, request, QueueInv, EachRequestAnsweredOnce, TypeInv, StepType,
       QueueType, AnswerType, AtQueue, Requests
  <1>7. ASSUME OTPRecoveryConfirm PROVE QueueInv'
    BY <1>7, TwoFactorConstants DEF OTPRecoveryConfirm, config, otp, passkey,
       recovery, request, QueueInv, EachRequestAnsweredOnce, TypeInv, StepType,
       QueueType, AnswerType, AtQueue, Requests
  <1>8. ASSUME QueueWiped PROVE QueueInv'
    BY <1>8, TwoFactorConstants DEF QueueWiped, config, otp, passkey, recovery,
       request, QueueInv, EachRequestAnsweredOnce, TypeInv, StepType,
       QueueType, AnswerType, AtQueue, Requests
  <1>9. ASSUME Deny PROVE QueueInv'
    BY <1>9, TwoFactorConstants DEF Deny, Answer, config, otp, passkey,
       recovery, request, QueueInv, EachRequestAnsweredOnce, TypeInv, StepType,
       QueueType, AnswerType, AtQueue, Requests
  <1> QED
    BY <1>1, <1>2, <1>3, <1>4, <1>5, <1>6, <1>7, <1>8, <1>9, QueueKinds DEF
       QueueSteps, TypeInv

(* ... and EachRequestAnsweredOnce.                                        *)
LEMMA AnsweredStep ==
  ASSUME TypeInv, FreedInv, QueueInv, EachRequestAnsweredOnce, [Next]_vars
  PROVE  EachRequestAnsweredOnce'
  <1>1. CASE QueueKept
    BY <1>1, TwoFactorConstants DEF QueueKept, EachRequestAnsweredOnce,
       FreedInv, QueueInv, TypeInv, StepType, QueueType, AnswerType, AtQueue,
       Requests, Twice
  <1>2. ASSUME NEW q \in Workers, Approve(q) PROVE EachRequestAnsweredOnce'
    BY <1>2, TwoFactorConstants DEF Approve, Find, Goto, config, otp, passkey,
       recovery, request, EachRequestAnsweredOnce, FreedInv, QueueInv, TypeInv,
       StepType, QueueType, AnswerType, AtQueue, Requests, Twice
  <1>3. ASSUME NEW q \in Workers, SwitchToPassword(q)
        PROVE  EachRequestAnsweredOnce'
    BY <1>3, TwoFactorConstants DEF SwitchToPassword, StoreAuthTypes, Goto,
       config, otp, passkey, recovery, request, EachRequestAnsweredOnce,
       FreedInv, QueueInv, TypeInv, StepType, QueueType, AnswerType, AtQueue,
       Requests, Twice
  <1>4. ASSUME NEW q \in Workers, FinishApproval(q)
        PROVE  EachRequestAnsweredOnce'
    BY <1>4, TwoFactorConstants DEF FinishApproval, Answer, Goto, config, otp,
       passkey, recovery, request, EachRequestAnsweredOnce, FreedInv, QueueInv,
       TypeInv, StepType, QueueType, AnswerType, AtQueue, Requests, Twice
  <1>5. ASSUME NEW q \in Workers, ListUserShow(q)
        PROVE  EachRequestAnsweredOnce'
    BY <1>5, TwoFactorConstants DEF ListUserShow, Find, Goto, config, otp,
       passkey, recovery, request, EachRequestAnsweredOnce, FreedInv, QueueInv,
       TypeInv, StepType, QueueType, AnswerType, AtQueue, Requests, Twice
  <1>6. ASSUME NEW q \in Workers, DropStale(q) PROVE EachRequestAnsweredOnce'
    BY <1>6, TwoFactorConstants DEF DropStale, Goto, config, otp, passkey,
       recovery, request, EachRequestAnsweredOnce, FreedInv, QueueInv, TypeInv,
       StepType, QueueType, AnswerType, AtQueue, Requests, Twice
  <1>7. ASSUME OTPRecoveryConfirm PROVE EachRequestAnsweredOnce'
    BY <1>7, TwoFactorConstants DEF OTPRecoveryConfirm, config, otp, passkey,
       recovery, request, EachRequestAnsweredOnce, FreedInv, QueueInv, TypeInv,
       StepType, QueueType, AnswerType, AtQueue, Requests, Twice
  <1>8. ASSUME QueueWiped PROVE EachRequestAnsweredOnce'
    BY <1>8, TwoFactorConstants DEF QueueWiped, config, otp, passkey, recovery,
       request, EachRequestAnsweredOnce, FreedInv, QueueInv, TypeInv, StepType,
       QueueType, AnswerType, AtQueue, Requests, Twice
  <1>9. ASSUME Deny PROVE EachRequestAnsweredOnce'
    BY <1>9, TwoFactorConstants DEF Deny, Answer, config, otp, passkey,
       recovery, request, EachRequestAnsweredOnce, FreedInv, QueueInv, TypeInv,
       StepType, QueueType, AnswerType, AtQueue, Requests, Twice
  <1> QED
    BY <1>1, <1>2, <1>3, <1>4, <1>5, <1>6, <1>7, <1>8, <1>9, QueueKinds DEF
       QueueSteps, TypeInv

(* The invariant holds at first ...                                        *)
LEMMA TwoFactorInvInit == Init => TypeInv /\ TwoFactorInv
  <1> SUFFICES ASSUME Init PROVE TypeInv /\ TwoFactorInv
    OBVIOUS
  <1>0. /\ requireMFA \in BOOLEAN /\ readonly \in BOOLEAN /\ exists \in BOOLEAN
        /\ firm \in BOOLEAN /\ linkOut \in BOOLEAN /\ hasClass \in BOOLEAN
    BY DEF Init
  <1>1. StepType /\ TokenType
    BY <1>0 DEF Init, StepType, TokenType
  <1>2. KeyType
    BY <1>0 DEF Init, KeyType, Registering, Blank
  <1>3. QueueType /\ AnswerType
    BY TwoFactorConstants DEF Init, QueueType, AnswerType, AtQueue
  <1>4. SwitchInv /\ ActiveTokenBehindOTP /\ ClassInv
    BY DEF Init, SwitchInv, ActiveTokenBehindOTP, OTPOnly, ClassInv
  <1>5. FreshInv /\ SpendInv /\ VerifiedPasskeyIsStored
    BY TwoFactorConstants DEF Init, FreshInv, SpendInv, Spending,
       VerifiedPasskeyIsStored
  <1>6. FreedInv /\ QueueInv
    BY DEF Init, FreedInv, QueueInv, AtQueue
  <1>7. EachRequestAnsweredOnce
    BY DEF Init, EachRequestAnsweredOnce, Requests
  <1> QED
    BY <1>1, <1>2, <1>3, <1>4, <1>5, <1>6, <1>7 DEF TypeInv, TwoFactorInv

(* ... and is preserved.                                                   *)
LEMMA TwoFactorInvStep ==
  TypeInv /\ TwoFactorInv /\ [Next]_vars => TypeInv' /\ TwoFactorInv'
  <1> SUFFICES ASSUME TypeInv, TwoFactorInv, [Next]_vars
               PROVE  TypeInv' /\ TwoFactorInv'
    OBVIOUS
  <1>1. TypeInv'
    BY StepTypeStep, TokenTypeStep, KeyTypeStep, QueueTypeStep,
       AnswerTypeStep DEF TypeInv
  <1>2. SwitchInv' /\ ActiveTokenBehindOTP'
    BY SwitchStep, ActiveStep DEF TwoFactorInv
  <1>3. FreshInv' /\ SpendInv' /\ ClassInv' /\ VerifiedPasskeyIsStored'
    BY FreshStep, SpendStep, ClassStep, StoredStep DEF TwoFactorInv
  <1>4. FreedInv' /\ QueueInv' /\ EachRequestAnsweredOnce'
    BY FreedStep, QueueStep, AnsweredStep DEF TwoFactorInv
  <1> QED
    BY <1>1, <1>2, <1>3, <1>4 DEF TwoFactorInv

(* The inductive invariant holds in every reachable state.                 *)
THEOREM TwoFactorInvHolds == Spec => [](TypeInv /\ TwoFactorInv)
  BY TwoFactorInvInit, TwoFactorInvStep, PTL DEF Spec

(* Every variable keeps its type, and a request that is over holds nothing *)
(* (security.go, otp.go, passkey.go, admin.go).                            *)
THEOREM TypeCorrect == Spec => []TypeOK
  <1>1. TypeInv => TypeOK
    BY TwoFactorConstants DEF TypeInv, TypeOK, StepType, TokenType, KeyType,
       QueueType, AnswerType, Blank, AtQueue
  <1> QED
    BY <1>1, TwoFactorInvHolds, PTL

(* Nobody is asked for a code without an active token, unless a token went *)
(* or was disabled between the listing and the switch, or the tokens       *)
(* listed were all disabled (security.go:131-154, otp.go:214-220).         *)
THEOREM OTPUsersHaveAToken == Spec => []ActiveTokenBehindOTP
  <1>1. TwoFactorInv => ActiveTokenBehindOTP
    BY DEF TwoFactorInv
  <1> QED
    BY <1>1, TwoFactorInvHolds, PTL

(* "The challenge is single use" (passkey.go:142) but for requests that    *)
(* read it before it was deleted from the session.                         *)
THEOREM ChallengesAreSingleUse == Spec => []ChallengeSpentOnce
  <1>1. TwoFactorInv => ChallengeSpentOnce
    BY DEF TwoFactorInv, SpendInv, ChallengeSpentOnce
  <1> QED
    BY <1>1, TwoFactorInvHolds, PTL

(* A verified passkey ends up in FreeIPA unless its key cannot be written  *)
(* down or a call fails, also when two first passkeys both find the object *)
(* class missing (ipa_passkey.go:28-42).                                   *)
THEOREM PasskeysAreStored == Spec => []VerifiedPasskeyIsStored
  <1>1. TwoFactorInv => VerifiedPasskeyIsStored
    BY DEF TwoFactorInv
  <1> QED
    BY <1>1, TwoFactorInvHolds, PTL

(* A recovery request stays queued until it gets its one answer, is        *)
(* dropped as stale or goes with the whole list, unless two admin requests *)
(* dealt with it at once or its removal failed (admin.go:286-309, 410-440, *)
(* otprecovery.go:29-86).                                                  *)
THEOREM RequestsAreAnsweredOnce == Spec => []EachRequestAnsweredOnce
  <1>1. TwoFactorInv => EachRequestAnsweredOnce
    BY DEF TwoFactorInv
  <1> QED
    BY <1>1, TwoFactorInvHolds, PTL
=============================================================================
