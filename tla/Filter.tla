------------------------------- MODULE Filter -------------------------------
(***************************************************************************)
(* The entries of a sequence that are in a set, in order: Go's filtering   *)
(* loops.  (Not SelectSeq, of which the proof system knows nothing: the    *)
(* modules that check Sessions and Profile compare the two.)               *)
(***************************************************************************)
EXTENDS Naturals, Sequences, FiniteSets

Positions(seq, S) == {i \in 1..Len(seq) : seq[i] \in S}
Nth(P, n) == CHOOSE p \in P : Cardinality({r \in P : r <= p}) = n
Keep(seq, S) ==
    LET P == Positions(seq, S)
    IN [n \in 1..Cardinality(P) |-> seq[Nth(P, n)]]
=============================================================================
