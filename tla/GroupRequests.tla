--------------------------- MODULE GroupRequests ---------------------------
(***************************************************************************)
(* Sponsored membership of one FreeIPA group: server/groups.go and         *)
(* server/group_requests.go.  Members ask to leave and others to join,     *)
(* sponsors decide, and every handler ends by rendering the Groups page,   *)
(* which drops the requests it takes for fulfilled.  A handler makes one   *)
(* FreeIPA or storage call at a time and other handlers run in between;    *)
(* the edit of the queue itself is atomic (StoreLock.tla).                 *)
(*                                                                         *)
(* A request carries a number that the code does not have: it tells a new  *)
(* request from an earlier one of the same user and type.                  *)
(***************************************************************************)
EXTENDS Integers, FiniteSets

CONSTANTS
    Users, NoUser,
    Handlers,       \* requests served at the same time, whoever makes them
    MaxRequests,    \* bound: requests queued in one behaviour
    MaxOutside,     \* bound: membership changes made outside mokey
    faults          \* do single storage and FreeIPA calls fail?

ASSUME GroupConstants ==
    /\ NoUser \notin Users
    /\ MaxRequests \in Nat /\ MaxOutside \in Nat /\ faults \in BOOLEAN


(* A queued request; NotQueued where there is none.                        *)
GroupRequest == [id : 1..MaxRequests, type : {"join", "leave"}]
NotQueued    == [id |-> 0, type |-> "none"]

VARIABLES
    members,    \* FreeIPA: the group's members
    queue,      \* queue[u]: the entry with username u, NotQueued if absent
    at,         \* at[p]: the call handler p makes next
    who, req,   \* target of p, and the request of it that p has looked at
    verdict,    \* "approve", "deny" or "remove" while p is deciding
    found,      \* members in p's reply of group_find
    drop,       \* users whose entry p is about to drop
    ids,        \* ghost: number of requests queued so far
    blind,      \* ghost: requests queued after a Get that failed
    outside,    \* ghost: users whose membership was changed outside mokey
    changes,    \* number of such changes
    told,       \* ghost: where u is according to the latest decision
    crossed,    \* ghost: approvals whose user somebody else has moved since
    moved       \* ghost: users whose membership or entry another actor has
                \* changed since p looked

groupVars ==
    <<members, queue, at, who, req, verdict, found, drop, ids, blind, outside,
      changes, told, crossed, moved>>
local == <<who, req, verdict, found, drop>>
mails == <<told, crossed>>

GroupInit ==
    /\ members \in SUBSET Users
    /\ queue = [u \in Users |-> NotQueued]
    /\ at = [p \in Handlers |-> "idle"]
    /\ who = [p \in Handlers |-> NoUser]
    /\ req = [p \in Handlers |-> NotQueued]
    /\ verdict = [p \in Handlers |-> "none"]
    /\ found = [p \in Handlers |-> {}]
    /\ drop = [p \in Handlers |-> {}]
    /\ ids = 0 /\ blind = {}
    /\ outside = {} /\ changes = 0
    /\ told = [u \in Users |-> "unknown"] /\ crossed = {}
    /\ moved = [p \in Handlers |-> {}]

Goto(p, where) == at' = [at EXCEPT ![p] = where]

(* The handler's own business is over: what it knew of it is forgotten.    *)
Settle(p) ==
    /\ who' = [who EXCEPT ![p] = NoUser]
    /\ req' = [req EXCEPT ![p] = NotQueued]
    /\ verdict' = [verdict EXCEPT ![p] = "none"]

(* The handler answers.                                                    *)
Respond(p) ==
    /\ Goto(p, "idle")
    /\ Settle(p)
    /\ found' = [found EXCEPT ![p] = {}]
    /\ drop' = [drop EXCEPT ![p] = {}]

(* Handlers that have looked at something and act on it later.             *)
Relying(p) == at[p] \in {"mutate", "remove", "load", "drop"}

(* Ghost steps: q changes something about the users in S, or about none.   *)
TouchAll(q, S) ==
    moved' = [p \in Handlers |-> IF ~ Relying(p)' THEN {}
                               ELSE IF p = q THEN moved[p] ELSE moved[p] \cup S]
Touch(q, u) == TouchAll(q, {u})
NoTouch(q) == TouchAll(q, {})

(* Ghost: somebody moves u into or out of the group; whoever has approved  *)
(* u's request and not answered it yet will say what is no longer so.      *)
Cross(u) ==
    crossed' = IF members' = members THEN crossed
               ELSE crossed \cup {q \in Handlers : /\ at[q] \in {"remove", "mail"} /\ who[q] = u
                                                /\ verdict[q] = "approve"}

-----------------------------------------------------------------------------
(* GroupRequestJoin and GroupRequestLeave: whether the user is a member is *)
(* looked up first.                                                        *)
RequestJoinOrLeave(p, u) ==
    /\ at[p] = "idle"
    /\ Goto(p, "add")
    /\ who' = [who EXCEPT ![p] = u]
    /\ req' = [req EXCEPT ![p] =
                  [id |-> 0, type |-> IF u \in members THEN "leave" ELSE "join"]]
    /\ UNCHANGED <<members, queue, verdict, found, drop, ids, blind, outside, changes,
                   mails, moved>>

(* Mutant: the new entry is saved without the ones that were loaded.       *)
AddGroupRequestAlone(p) ==
    /\ at[p] = "add" /\ Settle(p) /\ Goto(p, "find")
    /\ \/ /\ queue[who[p]] = NotQueued /\ ids < MaxRequests
          /\ ids' = ids + 1
          /\ queue' = [u \in Users |-> IF u = who[p]
                          THEN [id |-> ids + 1, type |-> req[p].type] ELSE NotQueued]
          /\ TouchAll(p, Users)
       \/ queue[who[p]] # NotQueued /\ UNCHANGED <<queue, ids>> /\ NoTouch(p)
    /\ UNCHANGED <<members, found, drop, blind, outside, changes, mails>>

(* addGroupRequest: one entry per username; a failed save is only logged.  *)
(* A Get that fails reads as no requests at all, and the new one is saved  *)
(* alone.                                                                  *)
AddGroupRequest(p) ==
    LET new == [id |-> ids + 1, type |-> req[p].type]
    IN /\ at[p] = "add" /\ Settle(p) /\ Goto(p, "find")
       /\ \/ /\ queue[who[p]] = NotQueued /\ ids < MaxRequests
             /\ ids' = ids + 1
             /\ queue' = [queue EXCEPT ![who[p]] = new]
             /\ Touch(p, who[p])
             /\ UNCHANGED blind
          \/ /\ faults /\ ids < MaxRequests
             /\ ids' = ids + 1 /\ blind' = blind \cup {ids + 1}
             /\ queue' = [u \in Users |-> IF u = who[p] THEN new ELSE NotQueued]
             /\ TouchAll(p, Users)
          \/ /\ queue[who[p]] # NotQueued \/ faults
             /\ UNCHANGED <<queue, ids, blind>> /\ NoTouch(p)
       /\ UNCHANGED <<members, found, drop, outside, changes, mails>>

(* groupDecision: the target must be queued; its entry is kept for later.  *)
GroupDecision(p, u, v) ==
    /\ at[p] = "idle"
    /\ queue[u] # NotQueued
    /\ who' = [who EXCEPT ![p] = u]
    /\ req' = [req EXCEPT ![p] = queue[u]]
    /\ verdict' = [verdict EXCEPT ![p] = v]
    /\ Goto(p, IF v = "approve" THEN "mutate" ELSE "remove")
    /\ NoTouch(p)
    /\ UNCHANGED <<members, queue, found, drop, ids, blind, outside, changes, mails>>

(* FreeIPA changes u's membership; being in the wanted state already is no *)
(* error (memberRefusal).  What u was told earlier is over.                *)
Change(p, u, in) ==
    /\ members' = IF in THEN members \cup {u} ELSE members \ {u}
    /\ told' = [told EXCEPT ![u] = "unknown"]
    /\ Cross(u)
    /\ TouchAll(p, IF members' = members THEN {} ELSE {u})

(* Mutant: an error from FreeIPA does not end the handler.                 *)
GroupApproveUnchecked(p) ==
    /\ at[p] = "mutate"
    /\ Goto(p, "remove")
    /\ \/ Change(p, who[p], req[p].type = "join")
       \/ faults /\ UNCHANGED <<members, told, crossed>> /\ NoTouch(p)
    /\ UNCHANGED <<queue, local, ids, blind, outside, changes>>

(* GroupApprove changes the membership as the entry it looked at says;     *)
(* when FreeIPA refuses, the handler stops and the request stays queued.   *)
GroupApprove(p) ==
    /\ at[p] = "mutate"
    /\ \/ /\ Goto(p, "remove")
          /\ Change(p, who[p], req[p].type = "join")
          /\ UNCHANGED local
       \/ /\ faults
          /\ Respond(p) /\ NoTouch(p)
          /\ UNCHANGED <<members, told, crossed>>
    /\ UNCHANGED <<queue, ids, blind, outside, changes>>

(* GroupRemoveMember: a sponsor removes a member without a request.  The   *)
(* ghost req is the entry the user has at this moment.                     *)
GroupRemoveMember(p, u) ==
    /\ at[p] = "idle"
    /\ Goto(p, "remove")
    /\ Change(p, u, FALSE)
    /\ who' = [who EXCEPT ![p] = u]
    /\ req' = [req EXCEPT ![p] = queue[u]]
    /\ verdict' = [verdict EXCEPT ![p] = "remove"]
    /\ UNCHANGED <<queue, found, drop, ids, blind, outside, changes>>

(* removeGroupRequest drops the entry with u's NAME, whichever it is.      *)
Drop(p, u) ==
    /\ queue' = [queue EXCEPT ![u] = NotQueued]
    /\ TouchAll(p, IF queue[u] = NotQueued THEN {} ELSE {u})

(* The end of GroupApprove, GroupDeny and GroupRemoveMember: the entry is  *)
(* dropped; a failed Get finds nothing to drop, a failed save is logged.   *)
RemoveGroupRequest(p) ==
    /\ at[p] = "remove"
    /\ IF verdict[p] = "remove" THEN Settle(p) /\ Goto(p, "find")
       ELSE Goto(p, "mail") /\ UNCHANGED <<who, req, verdict>>
    /\ \/ Drop(p, who[p])
       \/ faults /\ UNCHANGED queue /\ NoTouch(p)
    /\ UNCHANGED <<members, found, drop, ids, blind, outside, changes, mails>>

(* sendGroupDecision mails the outcome of an approval or a denial; when    *)
(* UserShow or the mail server fails, nothing is said.                     *)
SendGroupDecision(p) ==
    /\ at[p] = "mail"
    /\ \/ told' = IF verdict[p] = "approve"
                  THEN [told EXCEPT ![who[p]] =
                           IF p \in crossed THEN "unknown"
                           ELSE IF req[p].type = "join" THEN "in" ELSE "out"]
                  ELSE told
       \/ faults /\ UNCHANGED told
    /\ crossed' = crossed \ {p}
    /\ Settle(p) /\ Goto(p, "find")
    /\ UNCHANGED <<members, queue, found, drop, ids, blind, outside, changes, moved>>

-----------------------------------------------------------------------------
(* The Groups page (groupsVars), on its own or at the end of a handler.    *)
GroupsPage(p) ==
    /\ at[p] = "idle"
    /\ Goto(p, "find")
    /\ UNCHANGED <<members, queue, local, ids, blind, outside, changes, mails, moved>>

FindManaged(p) ==
    /\ at[p] = "find"
    /\ \/ /\ found' = [found EXCEPT ![p] = members]
          /\ Goto(p, "load")
          /\ UNCHANGED <<who, req, verdict, drop>>
       \/ faults /\ Respond(p)
    /\ NoTouch(p)
    /\ UNCHANGED <<members, queue, ids, blind, outside, changes, mails>>

(* Mutant: the type of the request is not looked at.                       *)
StaleAnyType(u, r, in) == r # NotQueued /\ u \in in

(* A join of a member, a leave of somebody who is not.                     *)
Stale(u, r, in) == r # NotQueued /\ (r.type = "join") = (u \in in)

LoadGroupRequests(p) ==
    LET stale == {u \in Users : Stale(u, queue[u], found[p])}
    IN /\ at[p] = "load"
       /\ \/ /\ stale # {}
             /\ drop' = [drop EXCEPT ![p] = stale]
             /\ Goto(p, "drop")
             /\ UNCHANGED <<who, req, verdict, found>>
          \/ (stale = {} \/ faults) /\ Respond(p)
       /\ NoTouch(p)
       /\ UNCHANGED <<members, queue, ids, blind, outside, changes, mails>>

(* One removeGroupRequest for each of them.                                *)
DropStale(p, u) ==
    /\ at[p] = "drop" /\ u \in drop[p]
    /\ IF drop[p] = {u}
         THEN Respond(p)
         ELSE /\ drop' = [drop EXCEPT ![p] = @ \ {u}]
              /\ UNCHANGED <<at, who, req, verdict, found>>
    /\ \/ Drop(p, u)
       \/ faults /\ UNCHANGED queue /\ NoTouch(p)
    /\ UNCHANGED <<members, ids, blind, outside, changes, mails>>

(* A FreeIPA administrator changes the membership.                         *)
OutsideChange(u) ==
    /\ changes < MaxOutside /\ changes' = changes + 1
    /\ members' = IF u \in members THEN members \ {u} ELSE members \cup {u}
    /\ told' = [told EXCEPT ![u] = "unknown"]
    /\ outside' = outside \cup {u}
    /\ moved' = [p \in Handlers |-> IF Relying(p) THEN moved[p] \cup {u} ELSE {}]
    /\ UNCHANGED <<queue, at, local, ids, blind, crossed>>

GroupNext ==
    \/ \E p \in Handlers, u \in Users :
          \/ RequestJoinOrLeave(p, u) \/ GroupRemoveMember(p, u) \/ DropStale(p, u)
          \/ \E v \in {"approve", "deny"} : GroupDecision(p, u, v)
    \/ \E p \in Handlers :
          \/ AddGroupRequest(p) \/ GroupApprove(p)
          \/ RemoveGroupRequest(p) \/ SendGroupDecision(p)
          \/ GroupsPage(p) \/ FindManaged(p) \/ LoadGroupRequests(p)
    \/ \E u \in Users : OutsideChange(u)

GroupSpec == GroupInit /\ [][GroupNext]_groupVars

-----------------------------------------------------------------------------
QueueEntries == GroupRequest \cup {NotQueued}

(* Types: one entry per user in the queue, with an id and a type; handlers *)
(* are at a step of groups.go.                                             *)
GroupTypeOK ==
    /\ members \in SUBSET Users /\ queue \in [Users -> QueueEntries]
    /\ at \in [Handlers -> {"idle", "add", "mutate", "remove", "mail", "find", "load",
                         "drop"}]
    /\ who \in [Handlers -> Users \cup {NoUser}]
    /\ req \in [Handlers -> [id : 0..MaxRequests, type : {"none", "join", "leave"}]]
    /\ verdict \in [Handlers -> {"none", "approve", "deny", "remove"}]
    /\ found \in [Handlers -> SUBSET Users] /\ drop \in [Handlers -> SUBSET Users]
    /\ ids \in 0..MaxRequests /\ blind \in SUBSET (1..ids)
    /\ outside \in SUBSET Users /\ changes \in 0..MaxOutside
    /\ told \in [Users -> {"unknown", "in", "out"}] /\ crossed \in SUBSET Handlers
    /\ moved \in [Handlers -> SUBSET Users]

(* What the user was told last is so: after "join approved" the user is a  *)
(* member until a later decision, removal or outside change says otherwise *)
(* and after "leave approved" not (GroupApprove: FreeIPA's refusal ends    *)
(* the handler before the mail) - unless another sponsor moved the user    *)
(* between that change and the mail.                                       *)
AnswerHolds ==
    \A u \in Users \ outside :
        /\ told[u] = "in" => u \in members
        /\ told[u] = "out" => u \notin members

(* There is nothing left to do for a request.                              *)
Fulfilled(u, r) == \/ r.type = "join" /\ u \in members
                   \/ r.type = "leave" /\ u \notin members

(* In this step p drops u's entry, which is the one that was decided ...   *)
Decided(p, u) ==
    /\ at[p] = "remove" /\ at'[p] # "remove" /\ who[p] = u
    /\ queue[u] = req[p] \/ u \in moved[p]

(* ... or one for which there is nothing left to do.                       *)
Cleared(p, u) ==
    /\ at[p] = "drop" /\ u \in drop[p] \ drop'[p]
    /\ Fulfilled(u, queue[u]) \/ u \in moved[p]

(* No handler costs another user a request: an entry goes because it was   *)
(* the one decided (or the one a removed member had at that moment), or    *)
(* because it is fulfilled - unless something about that user changed      *)
(* while the handler was at work, between its first look (groupDecision,   *)
(* group_find) and removeGroupRequest, which goes by the name alone.  One  *)
(* event costs everybody's: a request queued after a Get that failed       *)
(* (loadGroupRequests: an error reads as an empty queue).                  *)
OpenRequestsStay ==
    [][\A u \in Users : queue[u] # NotQueued /\ queue'[u] # queue[u] =>
          \/ \E p \in Handlers : Decided(p, u) \/ Cleared(p, u)
          \/ blind' # blind]_groupVars

-----------------------------------------------------------------------------
(* What docs and comments say and the code does not keep; the README tells *)
(* how each statement fails.                                               *)

(* "stale requests are dropped: a join request where the requester is      *)
(* already a member, or a leave request where they no longer are"          *)
(* (groups.go:64-65): what the page drops is stale.                        *)
PageDropsOnlyStale ==
    [][\A p \in Handlers, u \in Users :
          at[p] = "drop" /\ u \in drop[p] \ drop'[p] /\ queue'[u] # queue[u]
            => Fulfilled(u, queue[u])]_groupVars

(* "the user gets one [email] when a request is decided"                   *)
(* (docs/guides/groups.md:25-26): no two handlers are about to answer the  *)
(* same request.                                                           *)
OneAnswerPerRequest ==
    \A p, q \in Handlers :
        at[p] = "mail" /\ at[q] = "mail" /\ req[p] = req[q] => p = q
=============================================================================
