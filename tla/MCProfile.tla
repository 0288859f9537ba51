----------------------------- MODULE MCProfile -----------------------------
(* Profile with a few numbers: none, one that mokey refuses, a full        *)
(* international one that it rewrites; users type none, good and bad ones, *)
(* with and without a dial code, with a blank.                             *)
EXTENDS Profile, TLC

MCOldPhones == {<<>>, <<"x">>, <<"+", "1", "2">>}
MCTypedPhones ==
    [code : {<<>>, <<"+", "1">>},
     national : {<<>>, <<"blank", "2">>, <<"+", "1", "2">>, <<"x">>}]

(* digitsOnly is the standard module's selection.                          *)
ASSUME DigitsSelected ==
    \A s \in Texts : digitsOnly(s) = SelectSeq(s, LAMBDA ch : ch \in Digits)

Symmetry == Permutations(Workers) \cup Permutations(Names)
            \cup Permutations(Emails) \cup Permutations(Keys)
=============================================================================
