--------------------------- MODULE ConsentProofs ---------------------------
(***************************************************************************)
(* Hydra consents and remembered logins, for any number of requests and    *)
(* goroutines, any clients and groups and any [hydra] sections.            *)
(*                                                                         *)
(* What the model promises about consents and logins rests on ConsentInv:  *)
(*   TypeInv    the types, and a flow under way has a client;              *)
(*   LapseInv   a client that is barred now, or that some task is going to *)
(*              revoke, has lapsed since the user consented to it, and a   *)
(*              task lists consents only if clients are restricted (else   *)
(*              an invalid configuration would revoke them all);           *)
(*   PostInv    a login that is being accepted for a user who has signed   *)
(*              out by now is one that may linger.                         *)
(* LapseIsFollowedUp is inductive given TypeInv, as restricted clients are *)
(* the only ones that can be barred (OpenToAll).                           *)
(***************************************************************************)
EXTENDS Consent, TLAPS

(* A flow under way has a client.                                          *)
FlowInv == \A q \in Tasks : pc[q] \in {"post", "flow", "accept"} =>
                              client[q] \in Clients

(* The types, inductively.                                                 *)
TypeInv == TypeOK /\ FlowInv

(* What is barred, or going to be revoked, has lapsed; consents are listed *)
(* only to enforce restrictions.                                           *)
LapseInv ==
    /\ Barred(members) \subseteq lapsed
    /\ \A q \in Tasks, c \in Clients : Against(q, c) => c \in lapsed
    /\ \A q \in Tasks : pc[q] = "list" => clientGroupsEnforced

(* A login accepted for somebody who has signed out may linger.            *)
PostInv == (\E q \in Workers : pc[q] = "post") /\ ~session => mayLinger

(* The remembered login.                                                   *)
LoginInv == PostInv /\ SignedOutIsForgotten

(* The inductive invariant.                                                *)
ConsentInv == TypeInv /\ LapseInv /\ LapseIsFollowedUp /\ LoginInv
-----------------------------------------------------------------------------
(* The configuration is read once, so the barred clients change with the   *)
(* groups only.                                                            *)
LEMMA ConfigStays ==
  ASSUME [Next]_vars
  PROVE  /\ config' = config
         /\ Barred(members)' = Barred(members')
         /\ \A q \in Tasks : Barred(seen[q])' = Barred(seen'[q])
         /\ clientGroupsEnforced' = clientGroupsEnforced
  <1>1. config' = config
    BY DEF Next, vars, ConsentGet, AcceptConsent, RevokeConsentsOf, Abandon,
       LoginOAuthPost, Logout, RevokeHydraLogin, RemoveMember, LoginOAuthSkip,
       LoginOAuthGet, GiveUp, ListConsents, RevokeConsent, AppRevoke,
       ConsentSweep, DirectoryChange, SwitchOTP, SignIn, Expire
  <1>2. Barred(members)' = Barred(members')
    BY <1>1 DEF Barred, ValidConfig, clientAllowed
  <1>3. ASSUME NEW q \in Tasks PROVE Barred(seen[q])' = Barred(seen'[q])
    BY <1>1 DEF Barred, ValidConfig, clientAllowed
  <1>4. clientGroupsEnforced' = clientGroupsEnforced
    BY <1>1 DEF clientGroupsEnforced
  <1> QED
    BY <1>1, <1>2, <1>3, <1>4

(* No client is barred where mokey does not restrict clients: the default  *)
(* is then to allow them all, or the configuration is invalid.             *)
LEMMA OpenToAll ==
  ASSUME NEW g, ~clientGroupsEnforced PROVE Barred(g) = {}
  <1>1. ASSUME ValidConfig, NEW c \in Clients PROVE clientAllowed(c, g)
    <2>1. config.policies = <<>> /\ ~config.defaultDeny /\ config.parses
      BY <1>1 DEF clientGroupsEnforced, ValidConfig
    <2>2. DOMAIN config.policies = {}
      BY <2>1
    <2> QED
      BY <2>1, <2>2 DEF clientAllowed
  <1> QED
    BY <1>1 DEF Barred

(* A barred client is not allowed; where mokey restricts clients, the      *)
(* converse holds too.                                                     *)
LEMMA BarredIsNotAllowed ==
  ASSUME NEW g, NEW c \in Clients
  PROVE  /\ c \in Barred(g) => ~clientAllowed(c, g)
         /\ clientGroupsEnforced /\ ~clientAllowed(c, g) => c \in Barred(g)
  BY DEF Barred, ValidConfig, clientGroupsEnforced

(* Only clients are barred.                                                *)
LEMMA BarredAreClients == ASSUME NEW g PROVE Barred(g) \in SUBSET Clients
  BY DEF Barred
-----------------------------------------------------------------------------
(* The types are inductive.                                                *)
LEMMA TypeStep ==
  ASSUME TypeInv, [Next]_vars PROVE TypeInv'
  <1>1. ASSUME NEW q \in Workers, ConsentGet(q) PROVE TypeInv'
    BY <1>1, ConsentConstants DEF ConsentGet, Goto, Done, task, login, Tasks,
       TypeInv, TypeOK, FlowInv
  <1>2. ASSUME NEW q \in Workers, AcceptConsent(q) PROVE TypeInv'
    BY <1>2, ConsentConstants DEF AcceptConsent, Goto, Done, Fail, login,
       Tasks, TypeInv, TypeOK, FlowInv
  <1>3. ASSUME NEW q \in Workers, RevokeConsentsOf(q) PROVE TypeInv'
    BY <1>3, ConsentConstants DEF RevokeConsentsOf, Goto, Done, login, Tasks,
       TypeInv, TypeOK, FlowInv
  <1>4. ASSUME NEW q \in Workers, LoginOAuthPost(q) PROVE TypeInv'
    <2>1. remembered' \in BOOLEAN
      BY <1>4 DEF LoginOAuthPost, TypeInv, TypeOK
    <2>2. failures' \in 0..MaxFailures
      BY <1>4, ConsentConstants DEF LoginOAuthPost, Fail, TypeInv, TypeOK
    <2> QED
      BY <1>4, <2>1, <2>2 DEF LoginOAuthPost, Goto, Done, task, Tasks, TypeInv,
         TypeOK, FlowInv
  <1>5. ASSUME NEW q \in Workers, Abandon(q) PROVE TypeInv'
    BY <1>5, ConsentConstants DEF Abandon, Goto, Done, login, Tasks, TypeInv,
       TypeOK, FlowInv
  <1>6. ASSUME NEW q \in Workers, Logout(q) PROVE TypeInv'
    <2>1. session' \in BOOLEAN /\ mayLinger' \in BOOLEAN
      BY <1>6 DEF Logout, TypeInv, TypeOK
    <2>2. failures' = failures \/ Fail
      BY <1>6, Zenon DEF Logout
    <2>3. failures' \in 0..MaxFailures
      BY <2>2, ConsentConstants DEF Fail, TypeInv, TypeOK
    <2>4. /\ pc' = [pc EXCEPT ![q] = "unremember"]
          /\ UNCHANGED <<config, members, otpOnly, consents, remembered, client,
                         seen, todo, lapsed, excused>>
          /\ pc[q] = "idle"
      BY <1>6, Zenon DEF Logout, Goto, task
    <2> QED
      BY <2>1, <2>3, <2>4 DEF Tasks, TypeInv, TypeOK, FlowInv
  <1>7. ASSUME NEW q \in Workers, RevokeHydraLogin(q) PROVE TypeInv'
    <2>1. remembered' \in BOOLEAN /\ mayLinger' \in BOOLEAN
      BY <1>7 DEF RevokeHydraLogin, TypeInv, TypeOK
    <2>2. failures' \in 0..MaxFailures
      BY <1>7, ConsentConstants DEF RevokeHydraLogin, Fail, TypeInv, TypeOK
    <2> QED
      BY <1>7, <2>1, <2>2 DEF RevokeHydraLogin, Goto, Done, Tasks, TypeInv,
         TypeOK, FlowInv
  <1>8. ASSUME NEW q \in Workers, NEW g \in Groups, RemoveMember(q, g)
        PROVE  TypeInv'
    <2>1. lapsed' \in SUBSET Clients /\ excused' \in SUBSET Clients
      BY <1>8, BarredAreClients, ConfigStays DEF RemoveMember, TypeInv, TypeOK
    <2>2. failures' \in 0..MaxFailures
      BY <1>8, ConsentConstants DEF RemoveMember, TypeInv, TypeOK
    <2> QED
      BY <1>8, <2>1, <2>2 DEF RemoveMember, Goto, task, login, Tasks, TypeInv,
         TypeOK, FlowInv
  <1>9. ASSUME NEW q \in Workers, NEW c \in Clients, LoginOAuthSkip(q, c)
        PROVE  TypeInv'
    BY <1>9, ConsentConstants DEF LoginOAuthSkip, Goto, login, Tasks, TypeInv,
       TypeOK, FlowInv
  <1>10. ASSUME NEW q \in Workers, NEW c \in Clients, LoginOAuthGet(q, c)
         PROVE  TypeInv'
    BY <1>10, ConsentConstants DEF LoginOAuthGet, Goto, login, Tasks, TypeInv,
       TypeOK, FlowInv
  <1>11. ASSUME NEW q \in Tasks, GiveUp(q) PROVE TypeInv'
    <2>1. lapsed' \in SUBSET Clients /\ excused' \in SUBSET Clients
      BY <1>11, BarredAreClients, ConfigStays DEF GiveUp, TypeInv, TypeOK
    <2>2. failures' \in 0..MaxFailures
      BY <1>11, ConsentConstants DEF GiveUp, Fail, TypeInv, TypeOK
    <2> QED
      BY <1>11, <2>1, <2>2 DEF GiveUp, Goto, Done, login, Tasks, TypeInv,
         TypeOK, FlowInv
  <1>12. ASSUME NEW q \in Tasks, ListConsents(q) PROVE TypeInv'
    BY <1>12, ConsentConstants DEF ListConsents, Goto, Done, login, Tasks,
       TypeInv, TypeOK, FlowInv
  <1>13. ASSUME NEW q \in Tasks, NEW c \in Clients, RevokeConsent(q, c)
         PROVE  TypeInv'
    BY <1>13, ConsentConstants DEF RevokeConsent, Goto, Done, Fail, login,
       Tasks, TypeInv, TypeOK, FlowInv
  <1>14. ASSUME NEW c \in Clients, AppRevoke(c) PROVE TypeInv'
    BY <1>14, ConsentConstants DEF AppRevoke, login, task, Tasks, TypeInv,
       TypeOK, FlowInv
  <1>15. ASSUME ConsentSweep PROVE TypeInv'
    BY <1>15, ConsentConstants DEF ConsentSweep, Goto, login, Tasks, TypeInv,
       TypeOK, FlowInv
  <1>16. ASSUME DirectoryChange PROVE TypeInv'
    <2>1. lapsed' \in SUBSET Clients /\ excused' \in SUBSET Clients
      BY <1>16, BarredAreClients, ConfigStays DEF DirectoryChange, TypeInv,
         TypeOK
    <2>2. failures' \in 0..MaxFailures
      BY <1>16, ConsentConstants DEF DirectoryChange, TypeInv, TypeOK
    <2> QED
      BY <1>16, <2>1, <2>2 DEF DirectoryChange, task, login, Tasks, TypeInv,
         TypeOK, FlowInv
  <1>17. ASSUME SwitchOTP PROVE TypeInv'
    BY <1>17, ConsentConstants DEF SwitchOTP, login, task, Tasks, TypeInv,
       TypeOK, FlowInv
  <1>18. ASSUME SignIn PROVE TypeInv'
    BY <1>18, ConsentConstants DEF SignIn, task, Tasks, TypeInv, TypeOK,
       FlowInv
  <1>19. ASSUME Expire PROVE TypeInv'
    BY <1>19, ConsentConstants DEF Expire, task, Tasks, TypeInv, TypeOK,
       FlowInv
  <1>20. CASE UNCHANGED vars
    BY <1>20, ConsentConstants DEF vars, Tasks, TypeInv, TypeOK, FlowInv
  <1> QED
    BY <1>1, <1>2, <1>3, <1>4, <1>5, <1>6, <1>7, <1>8, <1>9, <1>10, <1>11,
       <1>12, <1>13, <1>14, <1>15, <1>16, <1>17, <1>18, <1>19, <1>20
       DEF Next

(* Every step preserves LapseInv: an accepted consent is held not to have  *)
(* lapsed only if no task is about to revoke it.                           *)
LEMMA LapseStep ==
  ASSUME TypeInv, LapseInv, [Next]_vars PROVE LapseInv'
  <1>1. ASSUME NEW q \in Workers, ConsentGet(q) PROVE LapseInv'
    BY <1>1, ConfigStays DEF ConsentGet, Goto, Done, task, login, Tasks,
       LapseInv, Against, TypeInv, TypeOK
  <1>2. ASSUME NEW q \in Workers, AcceptConsent(q) PROVE LapseInv'
    BY <1>2, ConfigStays DEF AcceptConsent, Goto, Done, Fail, login, Tasks,
       LapseInv, Against
  <1>3. ASSUME NEW q \in Workers, RevokeConsentsOf(q) PROVE LapseInv'
    BY <1>3, ConfigStays DEF RevokeConsentsOf, Goto, Done, login, Tasks,
       LapseInv, Against, TypeInv, TypeOK
  <1>4. ASSUME NEW q \in Workers, LoginOAuthPost(q) PROVE LapseInv'
    BY <1>4, ConfigStays DEF LoginOAuthPost, Goto, Done, Fail, task, Tasks,
       LapseInv, Against, TypeInv, TypeOK
  <1>5. ASSUME NEW q \in Workers, Abandon(q) PROVE LapseInv'
    BY <1>5, ConfigStays DEF Abandon, Goto, Done, login, Tasks, LapseInv,
       Against
  <1>6. ASSUME NEW q \in Workers, Logout(q) PROVE LapseInv'
    BY <1>6, ConfigStays DEF Logout, Goto, Fail, task, Tasks, LapseInv, Against
  <1>7. ASSUME NEW q \in Workers, RevokeHydraLogin(q) PROVE LapseInv'
    BY <1>7, ConfigStays DEF RevokeHydraLogin, Goto, Done, Fail, Tasks,
       LapseInv, Against
  <1>8. ASSUME NEW q \in Workers, NEW g \in Groups, RemoveMember(q, g)
        PROVE  LapseInv'
    BY <1>8, ConfigStays DEF RemoveMember, Goto, task, login, Tasks, LapseInv,
       Against
  <1>9. ASSUME NEW q \in Workers, NEW c \in Clients, LoginOAuthSkip(q, c)
        PROVE  LapseInv'
    BY <1>9, ConfigStays DEF LoginOAuthSkip, Goto, login, Tasks, LapseInv,
       Against
  <1>10. ASSUME NEW q \in Workers, NEW c \in Clients, LoginOAuthGet(q, c)
         PROVE  LapseInv'
    BY <1>10, ConfigStays DEF LoginOAuthGet, Goto, login, Tasks, LapseInv,
       Against
  <1>11. ASSUME NEW q \in Tasks, GiveUp(q) PROVE LapseInv'
    BY <1>11, ConfigStays DEF GiveUp, Goto, Done, Fail, login, Tasks, LapseInv,
       Against, TypeInv, TypeOK
  <1>12. ASSUME NEW q \in Tasks, ListConsents(q) PROVE LapseInv'
    BY <1>12, ConfigStays, BarredIsNotAllowed DEF ListConsents, Goto, Done,
       login, Tasks, LapseInv, Against, TypeInv, TypeOK
  <1>13. ASSUME NEW q \in Tasks, NEW c \in Clients, RevokeConsent(q, c)
         PROVE  LapseInv'
    BY <1>13, ConfigStays DEF RevokeConsent, Goto, Done, Fail, login, Tasks,
       LapseInv, Against, TypeInv, TypeOK
  <1>14. ASSUME NEW c \in Clients, AppRevoke(c) PROVE LapseInv'
    BY <1>14, ConfigStays DEF AppRevoke, login, task, Tasks, LapseInv, Against
  <1>15. ASSUME ConsentSweep PROVE LapseInv'
    BY <1>15, ConfigStays DEF ConsentSweep, Goto, login, Tasks, LapseInv,
       Against, TypeInv, TypeOK
  <1>16. ASSUME DirectoryChange PROVE LapseInv'
    BY <1>16, ConfigStays DEF DirectoryChange, login, task, Tasks, LapseInv,
       Against
  <1>17. ASSUME SwitchOTP PROVE LapseInv'
    BY <1>17, ConfigStays DEF SwitchOTP, login, task, Tasks, LapseInv, Against
  <1>18. ASSUME SignIn PROVE LapseInv'
    BY <1>18, ConfigStays DEF SignIn, task, Tasks, LapseInv, Against
  <1>19. ASSUME Expire PROVE LapseInv'
    BY <1>19, ConfigStays DEF Expire, task, Tasks, LapseInv, Against
  <1>20. CASE UNCHANGED vars
    BY <1>20, ConfigStays DEF vars, Tasks, LapseInv, Against
  <1> QED
    BY <1>1, <1>2, <1>3, <1>4, <1>5, <1>6, <1>7, <1>8, <1>9, <1>10, <1>11,
       <1>12, <1>13, <1>14, <1>15, <1>16, <1>17, <1>18, <1>19, <1>20
       DEF Next

(* Every step preserves LapseIsFollowedUp: a task moves on with the        *)
(* clients it is after, gives up with an excuse, or finds nothing to       *)
(* enforce.                                                                *)
LEMMA FollowStep ==
  ASSUME TypeInv, LapseIsFollowedUp, [Next]_vars PROVE LapseIsFollowedUp'
  <1>0. ASSUME NEW k \in (consents \cap Barred(members)) \ excused
        PROVE  \E p \in Tasks : \/ pc[p] = "reread"
                                \/ pc[p] = "list" /\ k \in Barred(seen[p])
                                \/ pc[p] = "revoke" /\ k \in todo[p]
    BY <1>0 DEF LapseIsFollowedUp, Against
  <1> SUFFICES
        ASSUME NEW k \in (consents' \cap Barred(members')) \ excused'
        PROVE  \E p \in Tasks : \/ pc'[p] = "reread"
                                \/ pc'[p] = "list" /\ k \in Barred(seen'[p])
                                \/ pc'[p] = "revoke" /\ k \in todo'[p]
    BY ConfigStays DEF LapseIsFollowedUp, Against
  <1> DEFINE Followed == \E p \in Tasks :
                           \/ pc'[p] = "reread"
                           \/ pc'[p] = "list" /\ k \in Barred(seen'[p])
                           \/ pc'[p] = "revoke" /\ k \in todo'[p]
  <1>1. ASSUME NEW q \in Workers, ConsentGet(q) PROVE Followed
    BY <1>1, <1>0 DEF ConsentGet, Goto, Done, task, login, Tasks, TypeInv,
       TypeOK
  <1>2. ASSUME NEW q \in Workers, AcceptConsent(q) PROVE Followed
    BY <1>2, <1>0 DEF AcceptConsent, Goto, Done, Fail, login, Tasks, TypeInv,
       TypeOK
  <1>3. ASSUME NEW q \in Workers, RevokeConsentsOf(q) PROVE Followed
    BY <1>3, <1>0, OpenToAll DEF RevokeConsentsOf, Goto, Done, login, Tasks,
       TypeInv, TypeOK
  <1>4. ASSUME NEW q \in Workers, LoginOAuthPost(q) PROVE Followed
    BY <1>4, <1>0 DEF LoginOAuthPost, Goto, Done, Fail, task, Tasks, TypeInv,
       TypeOK
  <1>5. ASSUME NEW q \in Workers, Abandon(q) PROVE Followed
    BY <1>5, <1>0 DEF Abandon, Goto, Done, login, Tasks, TypeInv, TypeOK
  <1>6. ASSUME NEW q \in Workers, Logout(q) PROVE Followed
    BY <1>6, <1>0 DEF Logout, Goto, Fail, task, Tasks, TypeInv, TypeOK
  <1>7. ASSUME NEW q \in Workers, RevokeHydraLogin(q) PROVE Followed
    BY <1>7, <1>0 DEF RevokeHydraLogin, Goto, Done, Fail, Tasks, TypeInv,
       TypeOK
  <1>8. ASSUME NEW q \in Workers, NEW g \in Groups, RemoveMember(q, g)
        PROVE  Followed
    BY <1>8, <1>0 DEF RemoveMember, Goto, task, login, Tasks, TypeInv, TypeOK
  <1>9. ASSUME NEW q \in Workers, NEW c \in Clients, LoginOAuthSkip(q, c)
        PROVE  Followed
    BY <1>9, <1>0 DEF LoginOAuthSkip, Goto, login, Tasks, TypeInv, TypeOK
  <1>10. ASSUME NEW q \in Workers, NEW c \in Clients, LoginOAuthGet(q, c)
         PROVE  Followed
    BY <1>10, <1>0 DEF LoginOAuthGet, Goto, login, Tasks, TypeInv, TypeOK
  <1>11. ASSUME NEW q \in Tasks, GiveUp(q) PROVE Followed
    BY <1>11, <1>0 DEF GiveUp, Goto, Done, Fail, login, Tasks, TypeInv, TypeOK
  <1>12. ASSUME NEW q \in Tasks, ListConsents(q) PROVE Followed
    BY <1>12, <1>0, BarredIsNotAllowed DEF ListConsents, Goto, Done, login,
       Tasks, TypeInv, TypeOK
  <1>13. ASSUME NEW q \in Tasks, NEW c \in Clients, RevokeConsent(q, c)
         PROVE  Followed
    BY <1>13, <1>0 DEF RevokeConsent, Goto, Done, Fail, login, Tasks, TypeInv,
       TypeOK
  <1>14. ASSUME NEW c \in Clients, AppRevoke(c) PROVE Followed
    BY <1>14, <1>0 DEF AppRevoke, login, task, Tasks, TypeInv, TypeOK
  <1>15. ASSUME ConsentSweep PROVE Followed
    BY <1>15, <1>0 DEF ConsentSweep, Goto, login, Tasks, TypeInv, TypeOK
  <1>16. ASSUME DirectoryChange PROVE Followed
    BY <1>16, <1>0 DEF DirectoryChange, login, task, Tasks, TypeInv, TypeOK
  <1>17. ASSUME SwitchOTP PROVE Followed
    BY <1>17, <1>0 DEF SwitchOTP, login, task, Tasks, TypeInv, TypeOK
  <1>18. ASSUME SignIn PROVE Followed
    BY <1>18, <1>0 DEF SignIn, task, Tasks, TypeInv, TypeOK
  <1>19. ASSUME Expire PROVE Followed
    BY <1>19, <1>0 DEF Expire, task, Tasks, TypeInv, TypeOK
  <1>20. CASE UNCHANGED vars
    BY <1>20, <1>0 DEF vars, Tasks, TypeInv, TypeOK
  <1> QED
    BY <1>1, <1>2, <1>3, <1>4, <1>5, <1>6, <1>7, <1>8, <1>9, <1>10, <1>11,
       <1>12, <1>13, <1>14, <1>15, <1>16, <1>17, <1>18, <1>19, <1>20
       DEF Next

(* Every step preserves LoginInv: signing out notes the logins that are    *)
(* just being accepted.                                                    *)
LEMMA LoginStep ==
  ASSUME TypeInv, LoginInv, [Next]_vars PROVE LoginInv'
  <1>1. ASSUME NEW q \in Workers, ConsentGet(q) PROVE LoginInv'
    BY <1>1 DEF ConsentGet, Goto, Done, task, login, Tasks, LoginInv, PostInv,
       SignedOutIsForgotten, TypeInv, TypeOK
  <1>2. ASSUME NEW q \in Workers, AcceptConsent(q) PROVE LoginInv'
    BY <1>2 DEF AcceptConsent, Goto, Done, Fail, login, Tasks, LoginInv,
       PostInv, SignedOutIsForgotten, TypeInv, TypeOK
  <1>3. ASSUME NEW q \in Workers, RevokeConsentsOf(q) PROVE LoginInv'
    BY <1>3 DEF RevokeConsentsOf, Goto, Done, login, Tasks, LoginInv, PostInv,
       SignedOutIsForgotten, TypeInv, TypeOK
  <1>4. ASSUME NEW q \in Workers, LoginOAuthPost(q) PROVE LoginInv'
    BY <1>4 DEF LoginOAuthPost, Goto, Done, Fail, task, Tasks, LoginInv,
       PostInv, SignedOutIsForgotten, TypeInv, TypeOK
  <1>5. ASSUME NEW q \in Workers, Abandon(q) PROVE LoginInv'
    BY <1>5 DEF Abandon, Goto, Done, login, Tasks, LoginInv, PostInv,
       SignedOutIsForgotten, TypeInv, TypeOK
  <1>6. ASSUME NEW q \in Workers, Logout(q) PROVE LoginInv'
    BY <1>6 DEF Logout, Goto, Fail, task, Tasks, LoginInv, PostInv,
       SignedOutIsForgotten, TypeInv, TypeOK
  <1>7. ASSUME NEW q \in Workers, RevokeHydraLogin(q) PROVE LoginInv'
    BY <1>7 DEF RevokeHydraLogin, Goto, Done, Fail, Tasks, LoginInv, PostInv,
       SignedOutIsForgotten, TypeInv, TypeOK
  <1>8. ASSUME NEW q \in Workers, NEW g \in Groups, RemoveMember(q, g)
        PROVE  LoginInv'
    BY <1>8 DEF RemoveMember, Goto, task, login, Tasks, LoginInv, PostInv,
       SignedOutIsForgotten, TypeInv, TypeOK
  <1>9. ASSUME NEW q \in Workers, NEW c \in Clients, LoginOAuthSkip(q, c)
        PROVE  LoginInv'
    BY <1>9 DEF LoginOAuthSkip, Goto, login, Tasks, LoginInv, PostInv,
       SignedOutIsForgotten, TypeInv, TypeOK
  <1>10. ASSUME NEW q \in Workers, NEW c \in Clients, LoginOAuthGet(q, c)
         PROVE  LoginInv'
    BY <1>10 DEF LoginOAuthGet, Goto, login, Tasks, LoginInv, PostInv,
       SignedOutIsForgotten, TypeInv, TypeOK
  <1>11. ASSUME NEW q \in Tasks, GiveUp(q) PROVE LoginInv'
    BY <1>11 DEF GiveUp, Goto, Done, Fail, login, Tasks, LoginInv, PostInv,
       SignedOutIsForgotten, TypeInv, TypeOK
  <1>12. ASSUME NEW q \in Tasks, ListConsents(q) PROVE LoginInv'
    BY <1>12 DEF ListConsents, Goto, Done, login, Tasks, LoginInv, PostInv,
       SignedOutIsForgotten, TypeInv, TypeOK
  <1>13. ASSUME NEW q \in Tasks, NEW c \in Clients, RevokeConsent(q, c)
         PROVE  LoginInv'
    BY <1>13 DEF RevokeConsent, Goto, Done, Fail, login, Tasks, LoginInv,
       PostInv, SignedOutIsForgotten, TypeInv, TypeOK
  <1>14. ASSUME NEW c \in Clients, AppRevoke(c) PROVE LoginInv'
    BY <1>14 DEF AppRevoke, login, task, Tasks, LoginInv, PostInv,
       SignedOutIsForgotten, TypeInv, TypeOK
  <1>15. ASSUME ConsentSweep PROVE LoginInv'
    BY <1>15 DEF ConsentSweep, Goto, login, Tasks, LoginInv, PostInv,
       SignedOutIsForgotten, TypeInv, TypeOK
  <1>16. ASSUME DirectoryChange PROVE LoginInv'
    BY <1>16 DEF DirectoryChange, login, task, Tasks, LoginInv, PostInv,
       SignedOutIsForgotten, TypeInv, TypeOK
  <1>17. ASSUME SwitchOTP PROVE LoginInv'
    BY <1>17 DEF SwitchOTP, login, task, Tasks, LoginInv, PostInv,
       SignedOutIsForgotten, TypeInv, TypeOK
  <1>18. ASSUME SignIn PROVE LoginInv'
    BY <1>18 DEF SignIn, task, Tasks, LoginInv, PostInv, SignedOutIsForgotten,
       TypeInv, TypeOK
  <1>19. ASSUME Expire PROVE LoginInv'
    BY <1>19 DEF Expire, task, Tasks, LoginInv, PostInv, SignedOutIsForgotten,
       TypeInv, TypeOK
  <1>20. CASE UNCHANGED vars
    BY <1>20 DEF vars, Tasks, LoginInv, PostInv, SignedOutIsForgotten, TypeInv,
       TypeOK
  <1> QED
    BY <1>1, <1>2, <1>3, <1>4, <1>5, <1>6, <1>7, <1>8, <1>9, <1>10, <1>11,
       <1>12, <1>13, <1>14, <1>15, <1>16, <1>17, <1>18, <1>19, <1>20
       DEF Next
-----------------------------------------------------------------------------
(* The invariant the theorems below rest on.                               *)
THEOREM ConsentInvHolds == Spec => []ConsentInv
  <1>1. Init => ConsentInv
    <2> SUFFICES ASSUME Init PROVE ConsentInv
      OBVIOUS
    <2>1. TypeInv
      <3>1. lapsed \in SUBSET Clients /\ excused \in SUBSET Clients
        BY BarredAreClients DEF Init
      <3>2. failures \in 0..MaxFailures
        BY ConsentConstants DEF Init
      <3>3. remembered \in BOOLEAN /\ session \in BOOLEAN
            /\ mayLinger \in BOOLEAN
        BY DEF Init
      <3> QED
        BY <3>1, <3>2, <3>3 DEF Init, TypeInv, TypeOK, FlowInv
    <2>2. LapseInv
      BY DEF Init, LapseInv, Against
    <2>3. LapseIsFollowedUp
      BY DEF Init, LapseIsFollowedUp
    <2>4. LoginInv
      BY DEF Init, LoginInv, PostInv, SignedOutIsForgotten, Tasks
    <2> QED
      BY <2>1, <2>2, <2>3, <2>4 DEF ConsentInv
  <1>2. ConsentInv /\ [Next]_vars => ConsentInv'
    BY TypeStep, LapseStep, FollowStep, LoginStep DEF ConsentInv
  <1> QED
    BY <1>1, <1>2, PTL DEF Spec

(* Every variable keeps its type, and a task has clients left to revoke    *)
(* exactly while it is revoking (revokeDisallowedConsents ends after the   *)
(* last one).                                                              *)
THEOREM TypeCorrect == Spec => []TypeOK
  <1>1. ConsentInv => TypeOK
    BY DEF ConsentInv, TypeInv
  <1> QED
    BY <1>1, ConsentInvHolds, PTL

(* A consent the user's groups stopped admitting to because mokey took     *)
(* them from a group has a goroutine after it, or its follow-up failed or  *)
(* was overtaken: GroupRemoveMember and GroupApprove close the refresh     *)
(* tokens (groups.go:243, 312, hydra_consent.go:122-137).                  *)
THEOREM RemovalIsFollowedUp == Spec => []LapseIsFollowedUp
  <1>1. ConsentInv => LapseIsFollowedUp
    BY DEF ConsentInv
  <1> QED
    BY <1>1, ConsentInvHolds, PTL

(* Signing out of mokey signs out of Hydra, whatever logins, flows and     *)
(* sweeps run beside it, unless one of them was just accepting a login, a  *)
(* call failed or the session expired first (auth.go:128-166).             *)
THEOREM SignOutReachesHydra == Spec => []SignedOutIsForgotten
  <1>1. ConsentInv => SignedOutIsForgotten
    BY DEF ConsentInv, LoginInv
  <1> QED
    BY <1>1, ConsentInvHolds, PTL

(* No step of mokey revokes a consent of a user whose groups admitted to   *)
(* the client ever since they gave it, and none at all under an invalid    *)
(* configuration (hydra_consent.go:22-24, 86-118).                         *)
THEOREM AllowedConsentsStay == Spec => SteadyMembersKeepConsent
  <1>1. ConsentInv /\ [Next]_vars =>
          [\A c \in consents \ consents' : AppRevoke(c) \/ c \in lapsed]_vars
    <2> SUFFICES ASSUME ConsentInv, [Next]_vars,
                        NEW k \in consents \ consents'
                 PROVE  AppRevoke(k) \/ k \in lapsed
      BY DEF vars
    <2>1. ASSUME NEW q \in Tasks, NEW c \in Clients, RevokeConsent(q, c)
          PROVE  k \in lapsed
      BY <2>1 DEF RevokeConsent, ConsentInv, LapseInv, Against
    <2>2. ASSUME NEW c \in Clients, AppRevoke(c) PROVE AppRevoke(k)
      <3>1. k = c
        BY <2>2 DEF AppRevoke
      <3> QED
        BY <2>2, <3>1
    <2>3. ASSUME NEW q \in Workers, AcceptConsent(q) PROVE FALSE
      BY <2>3 DEF AcceptConsent
    <2>4. CASE UNCHANGED consents
      BY <2>4
    <2> QED
      BY <2>1, <2>2, <2>3, <2>4 DEF Next, vars, ConsentGet, RevokeConsentsOf,
         LoginOAuthPost, Abandon, Logout, RevokeHydraLogin, RemoveMember,
         LoginOAuthSkip, LoginOAuthGet, GiveUp, ListConsents, ConsentSweep,
         DirectoryChange, SwitchOTP, SignIn, Expire
  <1> QED
    BY <1>1, ConsentInvHolds, PTL DEF Spec, SteadyMembersKeepConsent
=============================================================================
