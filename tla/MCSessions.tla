----------------------------- MODULE MCSessions -----------------------------
(* Sessions with workers and session ids as model values.                  *)
EXTENDS Sessions, TLC

(* Two settings: an index that holds every session while storage works, and *)
(* one that overflows while storage calls fail (until the index expires).  *)
Reliable == {[cap |-> 2, fails |-> FALSE, ticks |-> MaxTime]}
MCSettings == Reliable \cup {[cap |-> 1, fails |-> TRUE, ticks |-> 2]}

(* Keep is the standard module's selection.                                *)
ASSUME KeepSelects ==
    \A n \in 0..3 : \A seq \in [1..n -> Sids], S \in SUBSET Sids :
        Keep(seq, S) = SelectSeq(seq, LAMBDA s : s \in S)

Symmetry == Permutations(Workers) \cup Permutations(Sids)
=============================================================================
