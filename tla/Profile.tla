------------------------------ MODULE Profile ------------------------------
(***************************************************************************)
(* The user's own entry in FreeIPA and the pages that edit it:             *)
(* AccountSettings and EmailChangeConfirm (server/account.go), SSHKeyAdd   *)
(* and SSHKeyRemove (server/sshpubkey.go).                                 *)
(*                                                                         *)
(* Every one of them reads the user - isLoggedIn before the handler runs,  *)
(* EmailChangeConfirm itself -, changes its part and gives the whole user  *)
(* back to UserMod, so that it also writes what it read of all the others. *)
(* Requests are workers and interleave between the two calls.  Names stand *)
(* for first, last and display name and the login shell, which the form    *)
(* brings along likewise.  Managing keys may need a second factor          *)
(* (TwoFactor.tla): nothing here depends on it.                            *)
(***************************************************************************)
EXTENDS Phone

CONSTANTS
    Workers,        \* requests that can be in flight at the same time
    Names,          \* what the form can bring for the names ...
    NoName,         \* ... or nothing, which is refused
    Emails,         \* addresses; validateEmail accepts them all
    NoEmail,
    Keys,           \* SSH keys
    OldPhones,      \* phone numbers written outside of mokey
    TypedPhones     \* what users type: dial code and number

ASSUME ProfileConstants ==
    /\ NoName \notin Names /\ NoEmail \notin Emails
    /\ OldPhones \subseteq Texts
    /\ TypedPhones \subseteq [code : Texts, national : Texts]

Parts == {"name", "phone", "email", "keys"}
Entries == [name : Names, phone : Seq(Chars), email : Emails, keys : SUBSET Keys]
NoEntry == [name |-> NoName, phone |-> <<>>, email |-> NoEmail, keys |-> {}]

VARIABLES
    entry,      \* FreeIPA: the user's entry
    mailed,     \* addresses with an unspent confirmation link
    pc, copy,   \* per worker: step, the user as it read it
    wanted,     \* ghost: the entry as the saved edits want it
    since,      \* ghost: per worker, the parts changed since it read
    overwritten,\* ghost: parts a request saved as it had read them before
                \* another one changed them
    proven      \* ghost: addresses the user had, or opened a link from

profileVars == <<entry, mailed, pc, copy, wanted, since, overwritten, proven>>

Goto(q, step) == pc' = [pc EXCEPT ![q] = step]

-----------------------------------------------------------------------------
ProfileInit ==
    /\ entry \in [name : Names, phone : OldPhones, email : Emails, keys : {{}}]
    /\ mailed = {}
    /\ pc = [q \in Workers |-> "idle"]
    /\ copy = [q \in Workers |-> NoEntry]
    /\ wanted = entry
    /\ since = [q \in Workers |-> {}]
    /\ overwritten = {}
    /\ proven = {entry.email}

(* A request reads the user, and perhaps changes its copy at once.         *)
Read(q, user, step) ==
    /\ pc[q] = "idle"
    /\ Goto(q, step)
    /\ copy' = [copy EXCEPT ![q] = user]
    /\ since' = [since EXCEPT ![q] = {}]

(* The user is given back to UserMod, with these parts edited as wanted.   *)
UserMod(q, user, edited) ==
    LET changed == {f \in Parts : user[f] # entry[f]}
    IN /\ entry' = user
       /\ overwritten' = (overwritten \ edited) \cup (since[q] \ edited)
                           \cup (since[q] \cap {"keys"})
       /\ since' = [p \in Workers |-> IF p = q THEN {} ELSE since[p] \cup changed]
       /\ Goto(q, "idle")
       /\ copy' = [copy EXCEPT ![q] = NoEntry]

(* RequireLogin: isLoggedIn fetches the user for the handler.              *)
RequireLogin(q) ==
    /\ Read(q, entry, "handler")
    /\ UNCHANGED <<entry, mailed, wanted, overwritten, proven>>

(* A form that is refused, a page, or a call that fails.                   *)
NothingSaved(q) ==
    /\ pc[q] # "idle"
    /\ Goto(q, "idle")
    /\ copy' = [copy EXCEPT ![q] = NoEntry]
    /\ since' = [since EXCEPT ![q] = {}]
    /\ UNCHANGED <<entry, mailed, wanted, overwritten, proven>>

(* Mutant: a new address is saved with the rest of the form.               *)
AccountSettingsAll(q, name, form, email) ==
    LET phone == joinPhone(form.code, form.national)
    IN /\ pc[q] = "handler"
       /\ phone # Rejected /\ name # NoName
       /\ UserMod(q, [copy[q] EXCEPT !.name = name, !.phone = phone, !.email = email],
                  {"name", "phone", "email"})
       /\ wanted' = [wanted EXCEPT !.name = name, !.phone = phone, !.email = email]
       /\ UNCHANGED <<mailed, proven>>

(* AccountSettings: a number that is not one and missing names are         *)
(* refused, and nothing is saved; a new address gets a link (or none, when *)
(* the mail fails or one was sent a moment ago) and is not saved here.     *)
AccountSettings(q, name, form, email) ==
    LET phone == joinPhone(form.code, form.national)
    IN /\ pc[q] = "handler"
       /\ phone # Rejected /\ name # NoName
       /\ UserMod(q, [copy[q] EXCEPT !.name = name, !.phone = phone],
                  {"name", "phone"})
       /\ \/ email # copy[q].email /\ mailed' = mailed \cup {email}
          \/ UNCHANGED mailed
       /\ wanted' = [wanted EXCEPT !.name = name, !.phone = phone]
       /\ UNCHANGED proven

(* The keys the user has in mind: those saved so far, or the ones on the   *)
(* page after some got overwritten.                                        *)
KeysInMind(q) == IF "keys" \in overwritten THEN copy[q].keys ELSE wanted.keys

(* SSHKeyAdd and SSHKeyRemove edit the keys of the user they read.         *)
SSHKeyAdd(q, k) ==
    /\ pc[q] = "handler"
    /\ UserMod(q, [copy[q] EXCEPT !.keys = @ \cup {k}], {"keys"})
    /\ wanted' = [wanted EXCEPT !.keys = KeysInMind(q) \cup {k}]
    /\ UNCHANGED <<mailed, proven>>

SSHKeyRemove(q, k) ==
    /\ pc[q] = "handler"
    /\ UserMod(q, [copy[q] EXCEPT !.keys = @ \ {k}], {"keys"})
    /\ wanted' = [wanted EXCEPT !.keys = KeysInMind(q) \ {k}]
    /\ UNCHANGED <<mailed, proven>>

(* EmailChangeConfirm: the link is valid; fetch the user, ...              *)
EmailChangeConfirm(q, email) ==
    /\ email \in mailed
    /\ Read(q, [entry EXCEPT !.email = email], "confirm")
    /\ proven' = proven \cup {email}
    /\ UNCHANGED <<entry, mailed, wanted, overwritten>>

(* Mutant: the names and numbers on the page are saved along.              *)
ChangeEmailAll(q) ==
    /\ pc[q] = "confirm"
    /\ UserMod(q, [copy[q] EXCEPT !.phone = <<>>], {"email"})
    /\ wanted' = [wanted EXCEPT !.email = copy[q].email]
    /\ mailed' \in {mailed, mailed \ {copy[q].email}}
    /\ UNCHANGED proven

(* ... save the address, and mark the link used (a failure is logged).     *)
ChangeEmail(q) ==
    /\ pc[q] = "confirm"
    /\ UserMod(q, copy[q], {"email"})
    /\ wanted' = [wanted EXCEPT !.email = copy[q].email]
    /\ mailed' \in {mailed, mailed \ {copy[q].email}}
    /\ UNCHANGED proven

(* The phone fields: as shown, or as typed.                                *)
Forms(q) == TypedPhones \cup {splitPhone(copy[q].phone)}

ProfileNext ==
    \E q \in Workers :
      \/ RequireLogin(q) \/ NothingSaved(q) \/ ChangeEmail(q)
      \/ \E name \in Names \cup {NoName}, form \in Forms(q), email \in Emails :
           AccountSettings(q, name, form, email)
      \/ \E k \in Keys : SSHKeyAdd(q, k) \/ SSHKeyRemove(q, k)
      \/ \E email \in Emails : EmailChangeConfirm(q, email)

ProfileSpec == ProfileInit /\ [][ProfileNext]_profileVars

-----------------------------------------------------------------------------
(* Types: FreeIPA's entry has its names and an address, and requests hold  *)
(* such an entry.                                                          *)
ProfileTypeOK ==
    /\ entry \in Entries /\ wanted \in Entries
    /\ mailed \in SUBSET Emails
    /\ pc \in [Workers -> {"idle", "handler", "confirm"}]
    /\ copy \in [Workers -> Entries \cup {NoEntry}]
    /\ \A q \in Workers : pc[q] = "idle" \/ copy[q] \in Entries
    /\ since \in [Workers -> SUBSET Parts]
    /\ overwritten \in SUBSET Parts
    /\ proven \in SUBSET Emails

(* What was saved stays: every part of the entry is as its last edit left  *)
(* it, unless a request that had read the user before that edit saved its  *)
(* copy afterwards (account.go:87, 571; sshpubkey.go:49, 74).              *)
EditsPersist == \A f \in Parts \ overwritten : entry[f] = wanted[f]

(* "What mokey stores must survive a render/submit round trip untouched"   *)
(* (phone_test.go:90): whatever the user types, and whichever copies are   *)
(* saved, a number that mokey accepted is neither refused nor changed when *)
(* the settings are saved again.                                           *)
AcceptedNumberReturns ==
    entry.phone \in OldPhones \/ Resubmit(entry.phone) = entry.phone

(* "Email changes are not applied directly" (account.go:75-76): the        *)
(* address in FreeIPA is one the user had or opened a link from, also when *)
(* a copy read before a change is saved after it.                          *)
EmailIsProven ==
    /\ entry.email \in proven
    /\ \A q \in Workers : pc[q] # "idle" => copy[q].email \in proven
=============================================================================
