------------------------------- MODULE Consent -------------------------------
(***************************************************************************)
(* mokey as login and consent provider of Ory Hydra, for one user:         *)
(* server/hydra.go, server/hydra_consent.go, revokeConsentsOf after the    *)
(* group changes of groups.go, AppRevoke (security.go) and the Hydra half  *)
(* of logout (auth.go).                                                    *)
(*                                                                         *)
(* FreeIPA keeps the groups, Hydra the consents and the remembered login;  *)
(* mokey keeps neither and compares the two: at each consent, after it has *)
(* taken somebody from a group, and in a periodic sweep.  Requests and     *)
(* goroutines are workers; a task is one more of them, the sweep.  They    *)
(* interleave at every call to FreeIPA and Hydra.                          *)
(***************************************************************************)
EXTENDS Integers, Sequences

CONSTANTS
    Workers,        \* requests and goroutines in flight at the same time
    Clients,        \* OAuth clients
    NoClient,       \* the client of an entry without client_id
    Groups,         \* FreeIPA groups (nested ones folded in)
    Configs,        \* the [hydra] sections considered
    MaxFailures     \* bound: calls and processes that fail

sweeper == "sweeper"
Tasks == Workers \cup {sweeper}

(* [[hydra.clients]] entries in order, if they parse at all; default_deny; *)
(* is consent_sweep_interval above 0; accounts.require_mfa.                *)
ConfigType == [policies : Seq([client : Clients \cup {NoClient},
                               groups : SUBSET Groups]),
               parses : BOOLEAN, defaultDeny : BOOLEAN, sweep : BOOLEAN,
               requireMFA : BOOLEAN]

ASSUME ConsentConstants ==
    /\ NoClient \notin Clients
    /\ sweeper \notin Workers
    /\ \A cfg \in Configs : cfg \in ConfigType
    /\ MaxFailures \in Nat

VARIABLES
    config,     \* one of Configs
    members,    \* FreeIPA: the user's groups
    otpOnly,    \* FreeIPA: is the user OTP only?
    consents,   \* Hydra: clients the user has consented to
    remembered, \* Hydra: is the user's login remembered?
    session,    \* is the user signed in to mokey?
    pc, client, seen, todo,     \* per task: step, client of a flow, groups it
                                \* read, clients it goes on to revoke
    failures,   \* calls that failed so far
    lapsed,     \* ghost: clients not allowed at some time since consent
    excused,    \* ghost: lapses mokey did not cause, or whose follow-up
                \* failed or was overtaken by an accepted consent
    mayLinger   \* ghost: may Hydra remember the login though the user is
                \* signed out?

vars == <<config, members, otpOnly, consents, remembered, session, pc, client,
          seen, todo, failures, lapsed, excused, mayLinger>>
login == <<remembered, session, mayLinger>>
task == <<client, seen, todo>>

Fail == failures < MaxFailures /\ failures' = failures + 1

-----------------------------------------------------------------------------
(* clientAllowed: the first entry that is the client's, or has no client,  *)
(* decides.                                                                *)
clientAllowed(c, groups) ==
    LET hits == {i \in DOMAIN config.policies :
                   config.policies[i].client \in {c, NoClient}}
        first == CHOOSE i \in hits : \A j \in hits : i <= j
    IN /\ config.parses
       /\ IF hits = {} THEN ~config.defaultDeny
                       ELSE /\ config.policies[first].client = c
                            /\ config.policies[first].groups \cap groups # {}

(* Mutant: an invalid configuration restricts clients like any other.      *)
AnyClientGroups ==
    ~config.parses \/ config.policies # <<>> \/ config.defaultDeny

(* clientGroupsEnforced                                                    *)
clientGroupsEnforced ==
    /\ config.parses
    /\ \A i \in DOMAIN config.policies : config.policies[i].client # NoClient
    /\ config.policies # <<>> \/ config.defaultDeny

(* Clients whose consent ought to be revoked, given these groups.  The     *)
(* invariants speak of valid configurations only: "An invalid config       *)
(* already denies every consent; it must not also revoke every user's      *)
(* sessions" (hydra_consent.go:22-24).                                     *)
ValidConfig ==
    config.parses /\ \A i \in DOMAIN config.policies :
                         config.policies[i].client # NoClient
Barred(groups) == {c \in Clients : ValidConfig /\ ~clientAllowed(c, groups)}

Goto(q, step) == pc' = [pc EXCEPT ![q] = step]
Done(q) == /\ Goto(q, "idle")
           /\ client' = [client EXCEPT ![q] = NoClient]
           /\ seen' = [seen EXCEPT ![q] = {}]
           /\ todo' = [todo EXCEPT ![q] = {}]

Init ==
    /\ config \in Configs
    /\ members \in SUBSET Groups
    /\ otpOnly \in BOOLEAN
    /\ consents \in SUBSET Clients      \* from before a restart
    /\ remembered = FALSE /\ session = FALSE
    /\ pc = [q \in Tasks |-> "idle"]
    /\ client = [q \in Tasks |-> NoClient]
    /\ seen = [q \in Tasks |-> {}]
    /\ todo = [q \in Tasks |-> {}]
    /\ failures = 0
    /\ lapsed = Barred(members) /\ excused = Barred(members)
    /\ mayLinger = FALSE

-----------------------------------------------------------------------------
(* ConsentGet: fetch the user; refuse without a second factor where that   *)
(* is required; reject a client the user's groups do not admit to, and     *)
(* revoke what they do not admit to any more.                              *)
ConsentGet(q) ==
    /\ pc[q] = "flow"
    /\ \/ /\ config.requireMFA => otpOnly
          /\ clientAllowed(client[q], members)
          /\ Goto(q, "accept")
          /\ UNCHANGED task
       \/ /\ config.requireMFA => otpOnly
          /\ ~clientAllowed(client[q], members)
          /\ clientGroupsEnforced
          /\ Goto(q, "list")
          /\ seen' = [seen EXCEPT ![q] = members]
          /\ UNCHANGED <<client, todo>>
       \/ /\ \/ config.requireMFA /\ ~otpOnly
             \/ ~clientAllowed(client[q], members) /\ ~clientGroupsEnforced
          /\ Done(q)
    /\ UNCHANGED <<config, members, otpOnly, consents, login, failures, lapsed,
                   excused>>

(* A task that is going to revoke c on account of the groups it read.      *)
Against(q, c) ==
    \/ pc[q] = "list" /\ c \in Barred(seen[q])
    \/ pc[q] = "revoke" /\ c \in todo[q]

(* ... otherwise Hydra records the consent, also when its answer is lost.  *)
AcceptConsent(q) ==
    LET c == client[q]
        steady == c \notin Barred(members) /\ \A p \in Tasks : ~Against(p, c)
    IN /\ pc[q] = "accept"
       /\ \/ /\ consents' = consents \cup {c}
             /\ lapsed' = IF steady THEN lapsed \ {c} ELSE lapsed \cup {c}
             /\ excused' = IF c \in Barred(members) THEN excused \cup {c}
                                                    ELSE excused
             /\ UNCHANGED failures
          \/ Fail /\ UNCHANGED <<consents, lapsed, excused>>
       /\ Done(q)
       /\ UNCHANGED <<config, members, otpOnly, login>>

(* A task gives up because a call failed or its process died.              *)
GiveUp(q) ==
    /\ pc[q] \in {"reread", "list", "revoke"}
    /\ Fail
    /\ excused' = excused \cup Barred(members)
    /\ Done(q)
    /\ UNCHANGED <<config, members, otpOnly, consents, login, lapsed>>

(* revokeDisallowedConsents: list the user's consents, ...                 *)
ListConsents(q) ==
    LET bad == {c \in consents : ~clientAllowed(c, seen[q])}
    IN /\ pc[q] = "list"
       /\ \/ bad # {} /\ Goto(q, "revoke") /\ todo' = [todo EXCEPT ![q] = bad]
                      /\ UNCHANGED <<client, seen>>
          \/ bad = {} /\ Done(q)
       /\ UNCHANGED <<config, members, otpOnly, consents, login, failures,
                      lapsed, excused>>

(* ... and revoke the disallowed ones one by one; a failure is logged and  *)
(* the next one is tried.                                                  *)
RevokeConsent(q, c) ==
    /\ pc[q] = "revoke" /\ c \in todo[q]
    /\ \/ consents' = consents \ {c} /\ UNCHANGED <<excused, failures>>
       \/ Fail /\ excused' = excused \cup {c} /\ UNCHANGED consents
    /\ IF todo[q] = {c} THEN Done(q)
         ELSE todo' = [todo EXCEPT ![q] = @ \ {c}] /\ UNCHANGED <<pc, client, seen>>
    /\ UNCHANGED <<config, members, otpOnly, login, lapsed>>

(* AppRevoke: the user revokes a client on the Security page.              *)
AppRevoke(c) ==
    /\ session /\ c \in consents
    /\ consents' = consents \ {c}
    /\ UNCHANGED <<config, members, otpOnly, login, pc, task, failures, lapsed,
                   excused>>

-----------------------------------------------------------------------------
(* Mutant: the goroutine gets the user as read before the removal.         *)
RemoveMemberStale(q, g) ==
    /\ pc[q] = "idle" /\ g \in members
    /\ members' = members \ {g}
    /\ IF clientGroupsEnforced
         THEN Goto(q, "list") /\ seen' = [seen EXCEPT ![q] = members]
         ELSE UNCHANGED <<pc, seen>>
    /\ lapsed' = lapsed \cup Barred(members')
    /\ UNCHANGED <<config, otpOnly, consents, login, client, todo, failures,
                   excused>>

(* GroupRemoveMember, or GroupApprove of a request to leave: the user is   *)
(* taken from the group, and goroutine q starts.                           *)
RemoveMember(q, g) ==
    /\ pc[q] = "idle" /\ g \in members
    /\ members' = members \ {g}
    /\ Goto(q, "reread")
    /\ lapsed' = lapsed \cup Barred(members')
    /\ UNCHANGED <<config, otpOnly, consents, login, task, failures, excused>>

(* revokeConsentsOf: nothing without restrictions, else re-read the user.  *)
RevokeConsentsOf(q) ==
    /\ pc[q] = "reread"
    /\ \/ /\ clientGroupsEnforced
          /\ Goto(q, "list")
          /\ seen' = [seen EXCEPT ![q] = members]
          /\ UNCHANGED <<client, todo>>
       \/ ~clientGroupsEnforced /\ Done(q)
    /\ UNCHANGED <<config, members, otpOnly, consents, login, failures, lapsed,
                   excused>>

(* Groups change in FreeIPA, or a request to join is approved.             *)
DirectoryChange ==
    /\ \E g \in Groups :
         members' \in {members \cup {g}, members \ {g}} \ {members}
    /\ lapsed' = lapsed \cup Barred(members')
    /\ excused' = excused \cup (Barred(members') \ Barred(members))
    /\ UNCHANGED <<config, otpOnly, consents, login, pc, task, failures>>

(* The user turns two-factor on or off.                                    *)
SwitchOTP ==
    /\ config.requireMFA
    /\ otpOnly' = ~otpOnly
    /\ UNCHANGED <<config, members, consents, login, pc, task, failures, lapsed,
                   excused>>

(* Mutant: the users are found through their groups.                       *)
SweepGroups ==
    /\ config.sweep /\ clientGroupsEnforced
    /\ pc[sweeper] = "idle"
    /\ members # {}
    /\ Goto(sweeper, "list")
    /\ seen' = [seen EXCEPT ![sweeper] = members]
    /\ UNCHANGED <<config, members, otpOnly, consents, login, client, todo,
                   failures, lapsed, excused>>

(* StartConsentSweep and consentSweep: it runs where clients are           *)
(* restricted and the interval is not 0, and looks up every user.          *)
ConsentSweep ==
    /\ config.sweep /\ clientGroupsEnforced
    /\ pc[sweeper] = "idle"
    /\ Goto(sweeper, "list")
    /\ seen' = [seen EXCEPT ![sweeper] = members]
    /\ UNCHANGED <<config, members, otpOnly, consents, login, client, todo,
                   failures, lapsed, excused>>

-----------------------------------------------------------------------------
(* Authenticate: the user signs in to mokey.                               *)
SignIn ==
    /\ ~session /\ session' = TRUE
    /\ mayLinger' = FALSE
    /\ UNCHANGED <<config, members, otpOnly, consents, remembered, pc, task,
                   failures, lapsed, excused>>

(* The session expires, as does the login Hydra remembers.                 *)
Expire ==
    /\ \/ session /\ session' = FALSE /\ mayLinger' = TRUE /\ UNCHANGED remembered
       \/ remembered /\ remembered' = FALSE /\ UNCHANGED <<session, mayLinger>>
    /\ UNCHANGED <<config, members, otpOnly, consents, pc, task, failures,
                   lapsed, excused>>

(* LoginOAuthGet: Hydra remembers the login, and the user is who they were *)
(* (with a second factor where required), ...                              *)
LoginOAuthSkip(q, c) ==
    /\ pc[q] = "idle"
    /\ remembered
    /\ config.requireMFA => otpOnly
    /\ Goto(q, "flow")
    /\ client' = [client EXCEPT ![q] = c]
    /\ UNCHANGED <<config, members, otpOnly, consents, login, seen, todo,
                   failures, lapsed, excused>>

(* ... or the user is signed in to mokey: isLoggedIn ...                   *)
LoginOAuthGet(q, c) ==
    /\ pc[q] = "idle"
    /\ ~remembered /\ session
    /\ Goto(q, "post")
    /\ client' = [client EXCEPT ![q] = c]
    /\ UNCHANGED <<config, members, otpOnly, consents, login, seen, todo,
                   failures, lapsed, excused>>

(* ... and LoginOAuthPost, which has Hydra remember the login and does not *)
(* ask for a second factor.                                                *)
LoginOAuthPost(q) ==
    /\ pc[q] = "post"
    /\ \/ remembered' = TRUE /\ Goto(q, "flow") /\ UNCHANGED <<task, failures>>
       \/ Fail /\ Done(q) /\ UNCHANGED remembered
    /\ UNCHANGED <<config, members, otpOnly, consents, session, mayLinger,
                   lapsed, excused>>

(* The browser never comes back for the consent.                           *)
Abandon(q) ==
    /\ pc[q] = "flow"
    /\ Done(q)
    /\ UNCHANGED <<config, members, otpOnly, consents, login, failures, lapsed,
                   excused>>

(* Mutant: signing out of mokey leaves Hydra alone.                        *)
LogoutHere(q) ==
    /\ pc[q] = "idle" /\ session
    /\ session' = FALSE
    /\ mayLinger' = \E p \in Workers : pc[p] = "post"
    /\ UNCHANGED <<config, members, otpOnly, consents, remembered, pc, task,
                   failures, lapsed, excused>>

(* logout: destroy the session (a failure is logged) ...                   *)
Logout(q) ==
    /\ pc[q] = "idle" /\ session
    /\ \/ session' = FALSE /\ UNCHANGED failures
       \/ Fail /\ UNCHANGED session
    /\ Goto(q, "unremember")
    /\ mayLinger' = \E p \in Workers : pc[p] = "post"
    /\ UNCHANGED <<config, members, otpOnly, consents, remembered, task, lapsed,
                   excused>>

(* ... and have Hydra forget the login; HydraLogout then accepts the       *)
(* logout challenge, with which Hydra forgets it anyway.                   *)
RevokeHydraLogin(q) ==
    /\ pc[q] = "unremember"
    /\ \/ remembered' = FALSE /\ UNCHANGED <<failures, mayLinger>>
       \/ Fail /\ mayLinger' = TRUE /\ UNCHANGED remembered
    /\ Done(q)
    /\ UNCHANGED <<config, members, otpOnly, consents, session, lapsed, excused>>

-----------------------------------------------------------------------------
Next ==
    \/ \E q \in Workers :
         \/ ConsentGet(q) \/ AcceptConsent(q) \/ RevokeConsentsOf(q)
         \/ LoginOAuthPost(q) \/ Abandon(q) \/ Logout(q) \/ RevokeHydraLogin(q)
         \/ \E g \in Groups : RemoveMember(q, g)
         \/ \E c \in Clients : LoginOAuthSkip(q, c) \/ LoginOAuthGet(q, c)
    \/ \E q \in Tasks :
         GiveUp(q) \/ ListConsents(q) \/ \E c \in Clients : RevokeConsent(q, c)
    \/ \E c \in Clients : AppRevoke(c)
    \/ ConsentSweep \/ DirectoryChange \/ SwitchOTP \/ SignIn \/ Expire

(* The sweep goes on for the lifetime of the process (StartConsentSweep).  *)
Fairness ==
    /\ WF_vars(ConsentSweep)
    /\ WF_vars(ListConsents(sweeper))
    /\ WF_vars(\E c \in Clients : RevokeConsent(sweeper, c))

Spec == Init /\ [][Next]_vars /\ Fairness

-----------------------------------------------------------------------------
(* Types: what a task has read and goes on to revoke belongs to its step.  *)
TypeOK ==
    /\ config \in Configs
    /\ members \in SUBSET Groups /\ otpOnly \in BOOLEAN
    /\ consents \in SUBSET Clients
    /\ remembered \in BOOLEAN /\ session \in BOOLEAN
    /\ pc \in [Tasks -> {"idle", "post", "flow", "accept", "reread", "list",
                         "revoke", "unremember"}]
    /\ client \in [Tasks -> Clients \cup {NoClient}]
    /\ seen \in [Tasks -> SUBSET Groups]
    /\ todo \in [Tasks -> SUBSET Clients]
    /\ failures \in 0..MaxFailures
    /\ lapsed \in SUBSET Clients /\ excused \in SUBSET Clients
    /\ mayLinger \in BOOLEAN
    /\ \A q \in Tasks : pc[q] = "revoke" <=> todo[q] # {}

(* A user keeps every consent unless they revoke it, or were not allowed   *)
(* the client at some time since they gave it or when a task that was      *)
(* under way by then had read their groups; an invalid configuration never *)
(* revokes anything (hydra_consent.go:22-24, 86-118).                      *)
SteadyMembersKeepConsent ==
    [][\A c \in consents \ consents' : AppRevoke(c) \/ c \in lapsed]_vars

(* A consent the user's groups do not admit to is about to be revoked by   *)
(* somebody, unless the groups changed outside of mokey, the consent was   *)
(* accepted on groups read before, or a call failed: taking a member from  *)
(* a group closes the refresh tokens (hydra_consent.go:3-6, groups.go:243, *)
(* 312).                                                                   *)
LapseIsFollowedUp ==
    \A c \in (consents \cap Barred(members)) \ excused :
        \E q \in Tasks : pc[q] = "reread" \/ Against(q, c)

(* When the user has signed out, Hydra does not remember them, unless a    *)
(* login was being accepted at the time, a call failed, or the session had *)
(* just expired (auth.go:128-166, hydra.go:287-300).                       *)
SignedOutIsForgotten ==
    remembered /\ ~session /\ ~mayLinger =>
        \E q \in Workers : pc[q] = "unremember"

(* "StartConsentSweep periodically catches group removals made directly in *)
(* FreeIPA" (hydra_consent.go:146-147): with the sweep on, a consent the   *)
(* groups do not admit to ends, or they come to admit to it again.         *)
LapsedConsentEnds ==
    \A c \in Clients :
        config.sweep /\ c \in consents \cap Barred(members)
            ~> c \notin consents \/ c \notin Barred(members)

-----------------------------------------------------------------------------
(* What docs and comments say and the code does not keep; the README tells *)
(* how each statement fails.                                               *)

(* "An unparseable hydra.clients value, or an entry without client_id,     *)
(* denies every client." (docs/guides/oidc-hydra.md:91-92)                 *)
BadEntryDeniesEveryClient ==
    ~ValidConfig => \A q \in Workers : pc[q] # "accept"

(* accounts.require_mfa: "Users without two-factor authentication are      *)
(* refused at login and consent." (docs/guides/oidc-hydra.md:45)           *)
RefusedAtLogin ==
    [][remembered' /\ ~remembered /\ config.requireMFA => otpOnly]_vars
=============================================================================
