------------------------------- MODULE Phone -------------------------------
(***************************************************************************)
(* Phone numbers (server/phone.go).  FreeIPA keeps any text; mokey stores  *)
(* "+<dial code> <national number>" and shows the two halves in a form     *)
(* that comes back on every save of the account settings.                  *)
(*                                                                         *)
(* A text is a sequence of characters, of which these matter: digits ("0"  *)
(* apart, no number starts with it), the plus, the blank (spelt "blank"),  *)
(* other signs people write numbers with, and anything else.               *)
(***************************************************************************)
EXTENDS Integers, Filter

CONSTANTS
    MaxE164,    \* digits of an international number, 15 in the code
    MaxCode,    \* digits of a dial code, 4 in the code
    MaxText     \* bound: length of the texts considered

ASSUME PhoneConstants ==
    MaxE164 \in Nat /\ MaxCode \in Nat \ {0} /\ MaxText \in Nat

Digits == {"0", "1", "2"}
Chars == Digits \cup {"+", "blank", "-", "x"}

Texts == UNION {[1..n -> Chars] : n \in 0..MaxText}

Rejected == <<"rejected">>

(* strings.TrimSpace                                                       *)
Trim(s) ==
    LET ink == {i \in DOMAIN s : s[i] # "blank"}
        first == CHOOSE i \in ink : \A j \in ink : i <= j
        last == CHOOSE i \in ink : \A j \in ink : i >= j
    IN IF ink = {} THEN <<>> ELSE SubSeq(s, first, last)

digitsOnly(s) == Keep(s, Digits)

isDigits(s) == s # <<>> /\ digitsOnly(s) = s

isPhoneish(s) ==
    /\ digitsOnly(s) # <<>>
    /\ \A i \in DOMAIN s : s[i] \in Digits \cup {"blank", "-"}

(* isE164, of the digits after the plus.                                   *)
isE164(d) == isDigits(d) /\ Len(d) \in 2..MaxE164 /\ d[1] # "0"

(* splitPhone: what does not look like a stored number is handed back      *)
(* whole.                                                                  *)
splitPhone(stored) ==
    LET s == Trim(stored)
        blanks == {i \in DOMAIN s : s[i] = "blank"}
        cut == CHOOSE i \in blanks : \A j \in blanks : i <= j
    IN IF s # <<>> /\ Head(s) = "+" /\ blanks # {} /\ isDigits(SubSeq(s, 2, cut - 1))
         THEN [code |-> SubSeq(s, 2, cut - 1), national |-> Trim(SubSeq(s, cut, Len(s)))]
         ELSE [code |-> <<>>, national |-> s]

(* splitCompact takes one digit for the dial code.                         *)
Stored(code, national) == <<"+">> \o code \o <<"blank">> \o national
splitCompact(d) == Stored(<<d[1]>>, Tail(d))

TrimPlus(s) == IF s # <<>> /\ Head(s) = "+" THEN Tail(s) ELSE s

(* Mutant: the number is not trimmed.                                      *)
joinPhoneUntrimmed(c, n) ==
    LET code == TrimPlus(Trim(c))
        full == digitsOnly(n)
    IN CASE n = <<>> -> <<>>
         [] n # <<>> /\ code = <<>> ->
              IF Head(n) = "+" /\ isPhoneish(Tail(n)) /\ isE164(full)
                THEN splitCompact(full) ELSE Rejected
         [] OTHER ->
              IF isDigits(code) /\ Len(code) <= MaxCode
                    /\ isPhoneish(n) /\ isE164(code \o full)
                THEN Stored(code, n) ELSE Rejected

(* joinPhone: no number clears the attribute; a number without a dial code *)
(* must be a full international one.                                       *)
joinPhone(c, n) ==
    LET code == TrimPlus(Trim(c))
        national == Trim(n)
        full == digitsOnly(national)
    IN CASE national = <<>> -> <<>>
         [] national # <<>> /\ code = <<>> ->
              IF Head(national) = "+" /\ isPhoneish(Tail(national)) /\ isE164(full)
                THEN splitCompact(full) ELSE Rejected
         [] OTHER ->
              IF isDigits(code) /\ Len(code) <= MaxCode
                    /\ isPhoneish(national) /\ isE164(code \o full)
                THEN Stored(code, national) ELSE Rejected

(* What saving the form as it was shown does to a stored value.            *)
Resubmit(stored) == LET p == splitPhone(stored) IN joinPhone(p.code, p.national)

(* What a comment says and the code does not keep: "values written before  *)
(* this format existed (or by ipa(1) directly) still have to round-trip"   *)
(* (phone.go:17-19).  Any other change of the settings is refused until    *)
(* the number is corrected.                                                *)
ForeignNumberAccepted == \A s \in Texts : Resubmit(s) # Rejected
=============================================================================
