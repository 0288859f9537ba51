--------------------------- MODULE SessionsProofs ---------------------------
(***************************************************************************)
(* Sessions, password changes and the user's session index, for any number *)
(* of concurrent requests, session ids, password changes and any timeouts. *)
(*                                                                         *)
(* None of the four safety invariants is inductive. They follow from       *)
(* TypeInv and SessionInv:                                                 *)
(*                                                                         *)
(*   UsedInv      an id that is stored, indexed, revoked or in a request's *)
(*                hands was handed out before, so a login never gets it    *)
(*                again;                                                   *)
(*   QuietInv     no request is about to save a session that was revoked   *)
(*                in peace: the revoker saw them all, and a later one      *)
(*                finds the session gone;                                  *)
(*   AuthInv      a request that is about to save a session has the login  *)
(*                state that is stored, so saving never signs anybody in;  *)
(*   ClockInv     login times are in the past, the marker carries the time *)
(*                of the last change, and a stored session has time left;  *)
(*   LtInv        the login time that a request has read is the one that   *)
(*                is stored, unless a password change saved the session     *)
(*                under it (raced);                                        *)
(*   MarkerInv    the marker's time left covers what an older session has  *)
(*                left, and what it would have left after the last save by *)
(*                a request in flight; EnrolInv is its part for a passkey   *)
(*                request between its two saves;                           *)
(*   PasswordInv  a session, or a request's copy of one, of an older       *)
(*                password is no younger than the change, or was           *)
(*                overtaken.                                               *)
(*                                                                         *)
(* IndexComplete is inductive given the others. The index is edited by     *)
(* Keep, a filter by position, because what a recursive filter computes is *)
(* out of the provers' reach; KeepType and KeepAll state what is needed    *)
(* of it.                                                                  *)
(***************************************************************************)
EXTENDS Sessions, FiniteSetTheorems, SequenceTheorems, TLAPS

(* Steps of a request that has a session.                                  *)
Serving == {"check", "handler", "enrol", "passkey", "security", "logout",
            "destroy", "record", "changed", "refresh", "keep"}

(* A request that works on a session knows its id.                         *)
SidInv == \A q \in Workers : pc[q] \in Serving => sid[q] \in Sids

(* The types, inductively.                                                 *)
TypeInv == TypeOK /\ SidInv
-----------------------------------------------------------------------------
(* Every set of numbers has a least one.                                   *)
LEMMA LeastOf ==
  ASSUME NEW T \in SUBSET Nat, T # {}
  PROVE  \E x \in T : \A y \in T : x <= y
  <1>1. \E x \in T : \A y \in T : ~(<<y, x>> \in OpToRel(<, Nat))
    BY NatLessThanWellFounded, WFMin
  <1>2. PICK x \in T : \A y \in T : ~(<<y, x>> \in OpToRel(<, Nat))
    BY <1>1
  <1>3. \A y \in T : ~(y < x)
    BY <1>2 DEF OpToRel
  <1> QED
    BY <1>3

(* Nth is defined: a finite set of numbers has an n-th smallest for every  *)
(* n up to its size.                                                       *)
LEMMA NthExists ==
  ASSUME NEW P \in SUBSET Nat, IsFiniteSet(P), NEW m \in 1..Cardinality(P)
  PROVE  \E p \in P : Cardinality({r \in P : r <= p}) = m
  <1> DEFINE Below(p) == {r \in P : r <= p}
             Bad == {n \in 1..Cardinality(P) : ~ \E p \in P : Cardinality(Below(p)) = n}
  <1>0. Cardinality(P) \in Nat
    BY FS_CardinalityType
  <1> SUFFICES ASSUME Bad # {} PROVE FALSE
    OBVIOUS
  <1>1. PICK n \in Bad : \A y \in Bad : n <= y
    <2>1. Bad \in SUBSET Nat
      BY <1>0
    <2> QED
      BY <2>1, LeastOf
  <1>2. n \in 1..Cardinality(P) /\ n \in Nat
    BY <1>0
  <1>3. CASE n = 1
    <2>1. P # {}
      BY <1>2, <1>0, FS_EmptySet
    <2>2. PICK p \in P : \A y \in P : p <= y
      BY <2>1, LeastOf
    <2>3. Below(p) = {p}
      <3>1. \A r \in P : r <= p => r = p
        BY <2>2
      <3> QED
        BY <3>1, <2>2
    <2>4. Cardinality({p}) = 1
      BY FS_Singleton
    <2> QED
      BY <2>3, <2>4, <1>3
  <1>4. CASE n > 1
    <2>1. n - 1 \in 1..Cardinality(P) /\ n - 1 \notin Bad
      BY <1>1, <1>2, <1>4, <1>0
    <2>2. PICK p \in P : Cardinality(Below(p)) = n - 1
      BY <2>1
    <2> DEFINE Above == P \ Below(p)
    <2>3. IsFiniteSet(Below(p)) /\ Above # {}
      <3>1. Below(p) \in SUBSET P
        OBVIOUS
      <3>2. IsFiniteSet(Below(p))
        BY <3>1, FS_Subset
      <3>3. Cardinality(Below(p)) # Cardinality(P)
        BY <2>2, <1>2, <1>0
      <3> QED
        BY <3>1, <3>2, <3>3
    <2>4. PICK s \in Above : \A y \in Above : s <= y
      <3>1. Above \in SUBSET Nat
        OBVIOUS
      <3> QED
        BY <3>1, <2>3, LeastOf
    <2>5. Below(s) = Below(p) \cup {s}
      <3>1. p < s
        BY <2>4
      <3>2. \A r \in P : r <= s <=> r <= p \/ r = s
        BY <2>4, <3>1
      <3> QED
        BY <3>2
    <2>6. Cardinality(Below(s)) = n
      <3>1. s \notin Below(p)
        BY <2>4
      <3>2. Cardinality(Below(p) \cup {s}) = Cardinality(Below(p)) + 1
        BY <2>3, <3>1, FS_AddElement
      <3>3. (n - 1) + 1 = n
        BY <1>2
      <3> QED
        BY <3>2, <3>3, <2>5, <2>2
    <2> QED
      BY <2>6, <2>4
  <1> QED
    BY <1>2, <1>3, <1>4, <1>0

(* Filtering a sequence yields a sequence of its elements (the loops of    *)
(* sessions.go that drop ids from the index).                              *)
LEMMA KeepType ==
  ASSUME NEW A, NEW seq \in Seq(A), NEW S
  PROVE  /\ Keep(seq, S) \in Seq(A)
         /\ \A n \in 1..Len(Keep(seq, S)) :
              \E i \in 1..Len(seq) : Keep(seq, S)[n] = seq[i]
  <1> DEFINE P == Positions(seq, S)
  <1>1. IsFiniteSet(P) /\ P \in SUBSET Nat /\ Cardinality(P) \in Nat /\ P \subseteq 1..Len(seq)
    <2>1. P \in SUBSET (1..Len(seq)) /\ Len(seq) \in Nat
      BY DEF Positions
    <2>2. IsFiniteSet(1..Len(seq))
      BY <2>1, FS_Interval
    <2>3. IsFiniteSet(P)
      BY <2>1, <2>2, FS_Subset
    <2> QED
      BY <2>1, <2>3, FS_CardinalityType
  <1>2. ASSUME NEW n \in 1..Cardinality(P) PROVE Nth(P, n) \in P
    BY <1>1, NthExists DEF Nth
  <1>3. Keep(seq, S) = [n \in 1..Cardinality(P) |-> seq[Nth(P, n)]]
    BY DEF Keep
  <1>4. ASSUME NEW n \in 1..Cardinality(P)
        PROVE seq[Nth(P, n)] \in A /\ \E i \in 1..Len(seq) : seq[Nth(P, n)] = seq[i]
    BY <1>1, <1>2
  <1> HIDE DEF P
  <1>5. Keep(seq, S) \in Seq(A) /\ Len(Keep(seq, S)) = Cardinality(P)
    <2>1. Keep(seq, S) \in [1..Cardinality(P) -> A]
      BY <1>3, <1>4
    <2>2. Keep(seq, S) \in Seq(A)
      BY <2>1, <1>1, SeqDef
    <2> QED
      BY <2>1, <2>2, <1>1, LenProperties
  <1> QED
    BY <1>3, <1>4, <1>5

(* ... and keeps every element that is in the set: i is the n-th position  *)
(* kept, where n counts the positions kept up to i.                        *)
LEMMA KeepAll ==
  ASSUME NEW A, NEW seq \in Seq(A), NEW S, NEW i \in 1..Len(seq), seq[i] \in S
  PROVE  \E n \in 1..Len(Keep(seq, S)) : Keep(seq, S)[n] = seq[i]
  <1> DEFINE P == Positions(seq, S)
             Below(p) == {r \in P : r <= p}
             n == Cardinality(Below(i))
  <1>1. IsFiniteSet(P) /\ P \in SUBSET Nat /\ Cardinality(P) \in Nat /\ i \in P
    <2>1. P \in SUBSET (1..Len(seq)) /\ Len(seq) \in Nat
      BY DEF Positions
    <2>2. IsFiniteSet(1..Len(seq))
      BY <2>1, FS_Interval
    <2>3. IsFiniteSet(P)
      BY <2>1, <2>2, FS_Subset
    <2> QED
      BY <2>1, <2>3, FS_CardinalityType DEF Positions
  <1>2. Keep(seq, S) = [m \in 1..Cardinality(P) |-> seq[Nth(P, m)]]
    BY DEF Keep
  <1> HIDE DEF P
  <1>3. \A p \in P : Below(p) \in SUBSET P /\ IsFiniteSet(Below(p)) /\ Cardinality(Below(p)) \in Nat
                    /\ Cardinality(Below(p)) <= Cardinality(P)
    BY <1>1, FS_Subset, FS_CardinalityType
  <1>4. n \in 1..Cardinality(P)
    <2>1. i \in Below(i)
      BY <1>1
    <2>2. n # 0
      BY <2>1, <1>1, <1>3, FS_EmptySet
    <2> QED
      BY <2>2, <1>1, <1>3
  <1>5. ASSUME NEW p \in P, NEW r \in P, p < r
        PROVE  Cardinality(Below(p)) # Cardinality(Below(r))
    <2>1. p \in Nat /\ r \in Nat
      BY <1>1
    <2>2. Below(p) \in SUBSET Below(r) /\ r \notin Below(p) /\ r \in Below(r)
      <3>1. \A x \in P : x \in Nat
        BY <1>1
      <3>2. (\A x \in P : x <= p => x <= r) /\ ~(r <= p) /\ r <= r
        BY <2>1, <3>1, <1>5
      <3> QED
        BY <3>2
    <2>3. IsFiniteSet(Below(r))
      BY <1>3
    <2> HIDE DEF Below
    <2>4. Cardinality(Below(p)) = Cardinality(Below(r)) => Below(p) = Below(r)
      BY <2>2, <2>3, FS_Subset
    <2> QED
      BY <2>2, <2>4
  <1>6. ASSUME NEW p \in P, Cardinality(Below(p)) = n PROVE p = i
    <2>1. p \in Nat /\ i \in Nat
      BY <1>1
    <2>2. ~(p < i) /\ ~(i < p)
      BY <1>1, <1>5, <1>6
    <2> QED
      BY <2>1, <2>2
  <1>7. Nth(P, n) = i
    BY <1>1, <1>6 DEF Nth
  <1>8. Len(Keep(seq, S)) = Cardinality(P)
    BY <1>1, <1>2
  <1> QED
    BY <1>2, <1>4, <1>7, <1>8
-----------------------------------------------------------------------------
(* Filtering, in terms of the ids a sequence holds.                        *)
LEMMA KeepIds ==
  ASSUME NEW seq \in Seq(Sids), NEW S
  PROVE  /\ Keep(seq, S) \in Seq(Sids)
         /\ Ids(Keep(seq, S)) \subseteq Ids(seq)
         /\ Ids(seq) \cap S \subseteq Ids(Keep(seq, S))
  <1> DEFINE k == Keep(seq, S)
  <1>1. k \in Seq(Sids) /\ \A n \in 1..Len(k) : \E i \in 1..Len(seq) : k[n] = seq[i]
    BY KeepType
  <1>2. \A i \in 1..Len(seq) : seq[i] \in S => \E n \in 1..Len(k) : k[n] = seq[i]
    BY KeepAll
  <1> HIDE DEF k
  <1>3. Ids(k) \subseteq Ids(seq) /\ Ids(seq) \cap S \subseteq Ids(k)
    BY <1>1, <1>2 DEF Ids
  <1> QED
    BY <1>1, <1>3 DEF k

(* The ids of the index are session ids.                                   *)
LEMMA IndexedType == ASSUME index \in Seq(Sids) PROVE Indexed \in SUBSET Sids
  BY DEF Indexed, Ids

(* A load returns the index, or nothing.                                   *)
LEMMA LoadedIndex ==
  ASSUME TypeOK, NEW sessions \in loadSessionIndex
  PROVE  /\ sessions \in Seq(Sids) /\ Ids(sessions) \subseteq Indexed
         /\ Indexed \in SUBSET Sids /\ Forgotten(sessions) \in SUBSET Sids
         /\ Indexed \subseteq Ids(sessions) \cup Forgotten(sessions)
  <1>1. index \in Seq(Sids) /\ (sessions = index \/ sessions = <<>>)
    BY DEF TypeOK, loadSessionIndex
  <1>2. Indexed \in SUBSET Sids
    BY <1>1, IndexedType
  <1>3. sessions \in Seq(Sids) /\ Ids(sessions) \subseteq Indexed
    <2>1. CASE sessions = index
      BY <1>1, <2>1 DEF Indexed
    <2>2. CASE sessions = <<>>
      <3>1. Ids(sessions) = {}
        BY <2>2 DEF Ids
      <3> QED
        BY <2>2, <3>1
    <2> QED
      BY <1>1, <2>1, <2>2
  <1> QED
    BY <1>2, <1>3 DEF Forgotten

(* The cap drops the ids of the overflow and no other.                     *)
LEMMA CappedIds ==
  ASSUME TypeOK, NEW seq \in Seq(Sids)
  PROVE  /\ Capped(seq) \in Seq(Sids) /\ Ids(Capped(seq)) \subseteq Ids(seq)
         /\ Ids(seq) \subseteq Ids(Capped(seq)) \cup Overflow(seq)
         /\ Overflow(seq) \in SUBSET Sids
  <1> DEFINE m == userSessionsMax
  <1>1. m \in Nat \ {0} /\ Len(seq) \in Nat
    BY SessionConstants DEF TypeOK, userSessionsMax
  <1>2. \A i \in 1..(Len(seq) - m) : i \in 1..Len(seq)
    BY <1>1
  <1>3. Overflow(seq) \in SUBSET Sids
    <2>1. \A i \in 1..(Len(seq) - m) : seq[i] \in Sids
      BY <1>2
    <2> QED
      BY <2>1 DEF Overflow
  <1>4. CASE Len(seq) > m
    <2> DEFINE a == Len(seq) - m + 1
               c == Capped(seq)
    <2>1. a \in 1..Len(seq)
      BY <1>1, <1>4
    <2>2. c = SubSeq(seq, a, Len(seq))
      BY <1>4 DEF Capped
    <2> HIDE DEF c
    <2>3. c \in Seq(Sids) /\ Len(c) = m /\ \A n \in 1..m : c[n] = seq[n + (Len(seq) - m)]
      BY <2>1, <2>2, <1>1, <1>4
    <2>4. Ids(c) \subseteq Ids(seq)
      <3>1. \A n \in 1..m : n + (Len(seq) - m) \in 1..Len(seq)
        BY <1>1, <1>4
      <3> QED
        BY <2>3, <3>1 DEF Ids
    <2>5. \A i \in 1..Len(seq) : i \in 1..(Len(seq) - m)
                                \/ (i - (Len(seq) - m) \in 1..m /\ seq[i] = c[i - (Len(seq) - m)])
      BY <2>3, <1>1, <1>4
    <2>6. Ids(seq) \subseteq Ids(c) \cup Overflow(seq)
      BY <2>3, <2>5 DEF Ids, Overflow
    <2> QED
      BY <1>3, <2>3, <2>4, <2>6 DEF c
  <1>5. CASE ~(Len(seq) > m)
    BY <1>3, <1>5 DEF Capped
  <1> QED
    BY <1>4, <1>5

(* saveSessionIndex stores its argument, or fails.                         *)
LEMMA SavedIndex ==
  ASSUME TypeOK, NEW seq \in Seq(Sids), NEW lost \in SUBSET Sids,
         NEW unsaved \in SUBSET Sids, saveSessionIndex(seq, lost, unsaved)
  PROVE  /\ index' \in Seq(Sids) /\ indexTTL' \in 0..userSessionsTTL
         /\ orphaned' \in SUBSET Sids /\ orphaned \subseteq orphaned'
         /\ \/ Indexed' = Ids(seq) /\ lost \subseteq orphaned'
            \/ Indexed' = Indexed /\ unsaved \subseteq orphaned'
  BY SessionConstants DEF saveSessionIndex, TypeOK, Indexed, Ids

(* Sessions dead are deleted; the others stay in the index or are          *)
(* orphaned.                                                               *)
Ended(q, dead) ==
    /\ pc[q] \in {"handler", "security"}
    /\ Done(q) \/ (Goto(q, "security") /\ UNCHANGED <<sid, copy, left>>)
    /\ dead \in SUBSET Indexed
    /\ store' = [s \in Sids |-> IF s \in dead THEN Absent ELSE store[s]]
    /\ index' \in Seq(Sids) /\ indexTTL' \in 0..userSessionsTTL
    /\ Indexed' \subseteq Indexed
    /\ orphaned' \in SUBSET Sids /\ orphaned \subseteq orphaned'
    /\ \A s \in Indexed \ dead : Live(s) => s \in Indexed' \cup orphaned'
    /\ revoked' = revoked \cup dead
    /\ quiet' = quiet \cup (dead \ AboutToSave)
    /\ UNCHANGED <<setting, now, pw, marker, used, changedAt, signedOut,
                   overtaken, raced>>

(* What is kept of the index: all but the given ids and the lost ones.     *)
LEMMA EditKeeps ==
  ASSUME TypeOK, NEW seq \in Seq(Sids), NEW lost \in SUBSET Sids, NEW gone,
         Ids(seq) \subseteq Indexed, Indexed \subseteq Ids(seq) \cup lost \cup gone,
         saveSessionIndex(seq, lost, {})
  PROVE  /\ index' \in Seq(Sids) /\ indexTTL' \in 0..userSessionsTTL
         /\ Indexed' \subseteq Indexed
         /\ orphaned' \in SUBSET Sids /\ orphaned \subseteq orphaned'
         /\ \A s \in Indexed \ gone : s \in Indexed' \cup orphaned'
  <1>1. /\ index' \in Seq(Sids) /\ indexTTL' \in 0..userSessionsTTL
        /\ orphaned' \in SUBSET Sids /\ orphaned \subseteq orphaned'
        /\ \/ Indexed' = Ids(seq) /\ lost \subseteq orphaned'
           \/ Indexed' = Indexed
    BY SavedIndex
  <1> QED
    BY <1>1

(* The three handlers of the Security page are such steps.                 *)
LEMMA RevokingEnds ==
  ASSUME TypeOK, NEW q \in Workers,
         UserSessions(q) \/ SessionRevokeOthers(q) \/ \E s \in Sids : SessionRevoke(q, s)
  PROVE  \E dead : Ended(q, dead)
  <1>0. index \in Seq(Sids) /\ Indexed \in SUBSET Sids /\ Indexed = Ids(index)
        /\ orphaned \in SUBSET Sids /\ indexTTL \in 0..userSessionsTTL
        /\ store = [s \in Sids |-> store[s]]
    BY IndexedType DEF TypeOK, Indexed
  <1>1. CASE UserSessions(q)
    <2>1. store' = [s \in Sids |-> IF s \in {} THEN Absent ELSE store[s]]
      BY <1>0, <1>1 DEF UserSessions
    <2>2. /\ index' \in Seq(Sids) /\ indexTTL' \in 0..userSessionsTTL
          /\ Indexed' \subseteq Indexed
          /\ orphaned' \in SUBSET Sids /\ orphaned \subseteq orphaned'
          /\ \A s \in Indexed : Live(s) => s \in Indexed' \cup orphaned'
      <3>1. CASE UNCHANGED <<index, indexTTL, orphaned>>
        BY <1>0, <3>1 DEF Indexed, Ids
      <3>2. ASSUME NEW unread \in SUBSET Indexed,
                   saveSessionIndex(Keep(index, {s \in Sids \ unread : Live(s)}), unread, {})
            PROVE  /\ index' \in Seq(Sids) /\ indexTTL' \in 0..userSessionsTTL
                   /\ Indexed' \subseteq Indexed
                   /\ orphaned' \in SUBSET Sids /\ orphaned \subseteq orphaned'
                   /\ \A s \in Indexed : Live(s) => s \in Indexed' \cup orphaned'
        <4> DEFINE S == {s \in Sids \ unread : Live(s)}
                   seq == Keep(index, S)
                   dead == {s \in Sids : ~Live(s)}
        <4>1. /\ seq \in Seq(Sids) /\ Ids(seq) \subseteq Indexed
              /\ Indexed \cap S \subseteq Ids(seq)
          BY <1>0, KeepIds
        <4>2. saveSessionIndex(seq, unread, {}) /\ unread \in SUBSET Sids
          BY <1>0, <3>2
        <4>3. Indexed \subseteq Ids(seq) \cup unread \cup dead
          BY <1>0, <4>1
        <4> HIDE DEF seq, dead
        <4>4. /\ index' \in Seq(Sids) /\ indexTTL' \in 0..userSessionsTTL
              /\ Indexed' \subseteq Indexed
              /\ orphaned' \in SUBSET Sids /\ orphaned \subseteq orphaned'
              /\ \A s \in Indexed \ dead : s \in Indexed' \cup orphaned'
          BY <4>1, <4>2, <4>3, EditKeeps
        <4> QED
          BY <1>0, <4>4 DEF dead
      <3> QED
        BY <1>1, <3>1, <3>2 DEF UserSessions
    <2>3. Ended(q, {})
      BY <1>1, <2>1, <2>2 DEF UserSessions, Ended
    <2> QED
      BY <2>3
  <1>2. ASSUME NEW gone \in SUBSET Indexed, NEW failed \in SUBSET gone,
               NEW seq \in Seq(Sids), NEW lost \in SUBSET Sids,
               Ids(seq) \subseteq Indexed, failed \subseteq lost,
               Indexed \subseteq Ids(seq) \cup lost \cup gone,
               pc[q] = "handler", Goto(q, "security"), EndSessions(gone, failed),
               saveSessionIndex(seq, lost, {}),
               UNCHANGED <<setting, now, pw, marker, used, sid, copy, left,
                           changedAt, signedOut, overtaken, raced>>
        PROVE  \E dead : Ended(q, dead)
    <2> DEFINE dead == gone \ failed
    <2>1. Indexed \subseteq Ids(seq) \cup lost \cup dead
      BY <1>2
    <2>2. /\ index' \in Seq(Sids) /\ indexTTL' \in 0..userSessionsTTL
          /\ Indexed' \subseteq Indexed
          /\ orphaned' \in SUBSET Sids /\ orphaned \subseteq orphaned'
          /\ \A s \in Indexed \ dead : s \in Indexed' \cup orphaned'
      BY <1>2, <2>1, EditKeeps
    <2>3. gone \ (failed \cup AboutToSave) = dead \ AboutToSave
      OBVIOUS
    <2>4. Ended(q, dead)
      BY <1>2, <2>2, <2>3 DEF Ended, EndSessions
    <2> QED
      BY <2>4
  <1>3. CASE SessionRevokeOthers(q)
    <2>a. PICK sessions \in loadSessionIndex :
            \E failed \in SUBSET (Ids(sessions) \ {sid[q]}) :
              /\ EndSessions(Ids(sessions) \ {sid[q]}, failed)
              /\ saveSessionIndex(Keep(sessions, {sid[q]}),
                                  Forgotten(sessions) \cup failed, {})
      BY <1>3 DEF SessionRevokeOthers
    <2>1. PICK failed \in SUBSET (Ids(sessions) \ {sid[q]}) :
            /\ EndSessions(Ids(sessions) \ {sid[q]}, failed)
            /\ saveSessionIndex(Keep(sessions, {sid[q]}),
                                Forgotten(sessions) \cup failed, {})
      BY <2>a
    <2> DEFINE gone == Ids(sessions) \ {sid[q]}
               seq == Keep(sessions, {sid[q]})
               lost == Forgotten(sessions) \cup failed
    <2>2. /\ sessions \in Seq(Sids) /\ Ids(sessions) \subseteq Indexed
          /\ Forgotten(sessions) \in SUBSET Sids
          /\ Indexed \subseteq Ids(sessions) \cup Forgotten(sessions)
      BY LoadedIndex
    <2>3. /\ seq \in Seq(Sids) /\ Ids(seq) \subseteq Ids(sessions)
          /\ Ids(sessions) \cap {sid[q]} \subseteq Ids(seq)
      BY <2>2, KeepIds
    <2> HIDE DEF seq
    <2>4. /\ gone \in SUBSET Indexed /\ lost \in SUBSET Sids /\ Ids(seq) \subseteq Indexed
          /\ Indexed \subseteq Ids(seq) \cup lost \cup gone
      BY <1>0, <2>2, <2>3
    <2> HIDE DEF gone, lost
    <2>5. EndSessions(gone, failed) /\ saveSessionIndex(seq, lost, {}) /\ failed \in SUBSET gone
          /\ failed \subseteq lost
      BY <2>1 DEF gone, seq, lost
    <2> QED
      BY <1>2, <1>3, <2>3, <2>4, <2>5 DEF SessionRevokeOthers
  <1>4. ASSUME NEW s \in Sids, SessionRevoke(q, s)
        PROVE  \E dead : Ended(q, dead)
    <2>1. CASE UNCHANGED <<store, index, indexTTL, orphaned, revoked, quiet>>
      <3>1. /\ store' = [t \in Sids |-> IF t \in {} THEN Absent ELSE store[t]]
            /\ Indexed' = Indexed
        BY <1>0, <2>1 DEF Indexed, Ids
      <3>2. Ended(q, {})
        BY <1>0, <1>4, <2>1, <3>1 DEF SessionRevoke, Ended
      <3> QED
        BY <3>2
    <2>2. CASE ~UNCHANGED <<store, index, indexTTL, orphaned, revoked, quiet>>
      <3>1. PICK failed \in SUBSET {s} :
              /\ s \in Indexed /\ EndSessions({s}, failed)
              /\ saveSessionIndex(Without(index, s), failed, {})
        BY <1>4, <2>2 DEF SessionRevoke
      <3> DEFINE seq == Without(index, s)
      <3>2. /\ seq \in Seq(Sids) /\ Ids(seq) \subseteq Indexed
            /\ Indexed \cap (Sids \ {s}) \subseteq Ids(seq)
        BY <1>0, KeepIds DEF Without
      <3>3. saveSessionIndex(seq, failed, {}) /\ failed \in SUBSET Sids /\ {s} \in SUBSET Indexed
        BY <3>1
      <3> HIDE DEF seq
      <3>4. Indexed \subseteq Ids(seq) \cup failed \cup {s}
        BY <1>0, <3>2
      <3> QED
        BY <1>2, <1>4, <3>1, <3>2, <3>3, <3>4 DEF SessionRevoke
    <2> QED
      BY <2>1, <2>2
  <1> QED
    BY <1>1, <1>3, <1>4

(* Logout edits the index, unless the session is gone.                     *)
LEMMA DropEdit ==
  ASSUME TypeInv, NEW q \in Workers, DropSessionFromIndex(q)
  PROVE  /\ index' \in Seq(Sids) /\ indexTTL' \in 0..userSessionsTTL
         /\ Indexed' \subseteq Indexed
         /\ orphaned' \in SUBSET Sids /\ orphaned \subseteq orphaned'
         /\ \A s \in Indexed \ {sid[q]} : s \in Indexed' \cup orphaned'
  <1>0. TypeOK /\ sid[q] \in Sids
    BY DEF TypeInv, TypeOK, DropSessionFromIndex, SidInv, Serving
  <1>1. CASE ~Live(sid[q])
    BY <1>0, <1>1 DEF TypeOK, DropSessionFromIndex, Indexed, Ids
  <1>2. CASE Live(sid[q])
    <2>1. PICK sessions \in loadSessionIndex :
            saveSessionIndex(Without(sessions, sid[q]), Forgotten(sessions), {})
      BY <1>2 DEF DropSessionFromIndex
    <2> DEFINE seq == Without(sessions, sid[q])
    <2>2. /\ sessions \in Seq(Sids) /\ Ids(sessions) \subseteq Indexed
          /\ Forgotten(sessions) \in SUBSET Sids /\ Indexed \in SUBSET Sids
          /\ Indexed \subseteq Ids(sessions) \cup Forgotten(sessions)
      BY <1>0, LoadedIndex
    <2>3. /\ seq \in Seq(Sids) /\ Ids(seq) \subseteq Ids(sessions)
          /\ Ids(sessions) \cap (Sids \ {sid[q]}) \subseteq Ids(seq)
      BY <2>2, KeepIds DEF Without
    <2> HIDE DEF seq
    <2>4. Indexed \subseteq Ids(seq) \cup Forgotten(sessions) \cup {sid[q]}
          /\ Ids(seq) \subseteq Indexed
      BY <2>2, <2>3
    <2>5. saveSessionIndex(seq, Forgotten(sessions), {})
      BY <2>1 DEF seq
    <2> QED
      BY <1>0, <2>2, <2>3, <2>4, <2>5, EditKeeps
  <1> QED
    BY <1>1, <1>2

(* A login edits the index and adds nothing but its own id.                *)
LEMMA RecordEdit ==
  ASSUME TypeInv, NEW q \in Workers, RecordUserSession(q)
  PROVE  /\ sid[q] \in Sids
         /\ index' \in Seq(Sids) /\ indexTTL' \in 0..userSessionsTTL
         /\ Indexed' \subseteq Indexed \cup {sid[q]}
         /\ orphaned' \in SUBSET Sids /\ orphaned \subseteq orphaned'
         /\ \A s \in Indexed \cup {sid[q]} : s \in Indexed' \cup orphaned'
  <1>0. TypeOK /\ sid[q] \in Sids
    BY DEF TypeInv, TypeOK, RecordUserSession, SidInv, Serving
  <1> DEFINE Kept(sessions) == Append(Without(sessions, sid[q]), sid[q])
  <1>1. PICK sessions \in loadSessionIndex :
          saveSessionIndex(Capped(Kept(sessions)),
                           Forgotten(sessions) \cup Overflow(Kept(sessions)), {sid[q]})
    BY DEF RecordUserSession
  <1> DEFINE old == Without(sessions, sid[q])
             kept == Kept(sessions)
             lost == Forgotten(sessions) \cup Overflow(kept)
             seq == Capped(kept)
  <1>2. /\ sessions \in Seq(Sids) /\ Ids(sessions) \subseteq Indexed
        /\ Forgotten(sessions) \in SUBSET Sids /\ Indexed \in SUBSET Sids
        /\ Indexed \subseteq Ids(sessions) \cup Forgotten(sessions)
    BY <1>0, LoadedIndex
  <1>3. /\ old \in Seq(Sids) /\ Ids(old) \subseteq Ids(sessions)
        /\ Ids(sessions) \cap (Sids \ {sid[q]}) \subseteq Ids(old)
    BY <1>2, KeepIds DEF Without
  <1>4. kept \in Seq(Sids) /\ Ids(kept) = Ids(old) \cup {sid[q]}
    <2> HIDE DEF old
    <2>1. kept = Append(old, sid[q])
      BY DEF old
    <2> HIDE DEF kept
    <2>2. /\ kept \in Seq(Sids) /\ Len(kept) = Len(old) + 1 /\ Len(old) \in Nat
          /\ kept[Len(old) + 1] = sid[q] /\ \A i \in 1..Len(old) : kept[i] = old[i]
      BY <1>0, <1>3, <2>1
    <2>3. \A i \in 1..(Len(old) + 1) : i \in 1..Len(old) \/ i = Len(old) + 1
      BY <2>2
    <2>4. \A i \in 1..Len(old) : i \in 1..(Len(old) + 1)
      BY <2>2
    <2>5. Len(old) + 1 \in 1..(Len(old) + 1)
      BY <2>2
    <2> QED
      BY <2>2, <2>3, <2>4, <2>5 DEF Ids
  <1> HIDE DEF old, kept
  <1>5. /\ seq \in Seq(Sids) /\ Ids(seq) \subseteq Ids(kept)
        /\ Ids(kept) \subseteq Ids(seq) \cup Overflow(kept) /\ Overflow(kept) \in SUBSET Sids
    BY <1>0, <1>4, CappedIds
  <1> HIDE DEF seq
  <1>6. saveSessionIndex(seq, lost, {sid[q]}) /\ lost \in SUBSET Sids /\ {sid[q]} \in SUBSET Sids
    BY <1>0, <1>1, <1>2, <1>5 DEF seq, kept
  <1>7. /\ index' \in Seq(Sids) /\ indexTTL' \in 0..userSessionsTTL
        /\ orphaned' \in SUBSET Sids /\ orphaned \subseteq orphaned'
        /\ \/ Indexed' = Ids(seq) /\ lost \subseteq orphaned'
           \/ Indexed' = Indexed /\ {sid[q]} \subseteq orphaned'
    <2> HIDE DEF lost
    <2> QED
      BY <1>0, <1>5, <1>6, SavedIndex
  <1> QED
    BY <1>0, <1>2, <1>3, <1>4, <1>5, <1>7

(* TypeOK by groups of variables.                                          *)
DataType == store \in [Sids -> Data] /\ copy \in [Workers -> Data]

NumType == /\ setting \in Settings
           /\ now \in 0..MaxTime /\ pw \in 0..MaxPw
           /\ marker \in [at : 0..MaxTime, ttl : 0..markerTTL]
           /\ left \in [Workers -> 0..MaxInFlight]
           /\ changedAt \in 0..MaxTime /\ signedOut \in 0..MaxPw

CtlType ==
    /\ pc \in [Workers -> {"idle", "check", "handler", "enrol", "passkey",
                           "security", "logout", "destroy", "authenticated",
                           "record", "changed", "reset", "expired", "refresh",
                           "keep"}]
    /\ sid \in [Workers -> Sids \cup {NoSid}]
    /\ used \in SUBSET Sids
    /\ SidInv

SetType ==
    /\ index \in Seq(Sids) /\ indexTTL \in 0..userSessionsTTL
    /\ orphaned \in SUBSET Sids /\ revoked \in SUBSET Sids /\ quiet \in SUBSET Sids
    /\ overtaken \in SUBSET (Workers \cup Sids) /\ raced \in SUBSET Sids

(* The groups cover it.                                                    *)
LEMMA TypeParts == TypeInv <=> DataType /\ NumType /\ CtlType /\ SetType
  BY DEF TypeInv, TypeOK, DataType, NumType, CtlType, SetType

(* Session data as the steps build it.                                     *)
LEMMA DataFacts ==
  /\ Absent \in Data
  /\ \A d \in Data : Age(d) \in Data
  /\ \A d \in Data : [d EXCEPT !.ttl = idleTimeout] \in Data
  /\ \A d \in Data, g \in 0..MaxPw : [d EXCEPT !.gen = g] \in Data
  /\ \A d \in Data, t \in 0..MaxTime, g \in 0..MaxPw :
        [d EXCEPT !.lt = t, !.gen = g] \in Data
  /\ \A a \in {"half", "full"}, t \in 0..MaxTime, g \in 0..MaxPw :
        [auth |-> a, lt |-> t, gen |-> g, ttl |-> idleTimeout] \in Data
  <1> USE SessionConstants
  <1>1. Absent \in Data
    BY DEF Data, Absent
  <1>2. \A d \in Data : Age(d) \in Data
    BY <1>1 DEF Data, Age
  <1>3. \A d \in Data : [d EXCEPT !.ttl = idleTimeout] \in Data
    BY DEF Data
  <1>4. \A d \in Data, g \in 0..MaxPw : [d EXCEPT !.gen = g] \in Data
    BY DEF Data
  <1>5. \A d \in Data, t \in 0..MaxTime, g \in 0..MaxPw :
          [d EXCEPT !.lt = t, !.gen = g] \in Data
    BY DEF Data
  <1>6. \A a \in {"half", "full"}, t \in 0..MaxTime, g \in 0..MaxPw :
          [auth |-> a, lt |-> t, gen |-> g, ttl |-> idleTimeout] \in Data
    BY DEF Data
  <1> QED
    BY <1>1, <1>2, <1>3, <1>4, <1>5, <1>6

(* Session data carries a password generation.                             *)
LEMMA GenType == \A d \in Data : d.gen \in 0..MaxPw
  BY DEF Data

(* Every step keeps session data and copies of it well formed,             *)
LEMMA DataTypeStep ==
  ASSUME TypeInv, [Next]_vars
  PROVE  DataType'
  <1>0. DataType /\ NumType /\ CtlType
    BY TypeParts
  <1>1. ASSUME NEW q \in Workers, NEW s \in Sids, RequireLogin(q, s)
        PROVE  DataType'
    BY <1>1, <1>0, DataFacts, GenType DEF RequireLogin, Goto, Live, Outdated,
       DataType, NumType, ghosts
  <1>2. ASSUME NEW q \in Workers, IsLoggedIn(q) PROVE DataType'
    <2>1. [copy[q] EXCEPT !.ttl = idleTimeout] \in Data
      BY <1>0, DataFacts DEF DataType
    <2> DEFINE d == [copy[q] EXCEPT !.ttl = idleTimeout]
    <2>2. copy' = [copy EXCEPT ![q] = Absent]
      BY <1>2 DEF IsLoggedIn
    <2>3. store' = [store EXCEPT ![sid[q]] = d] \/ store' = store
      BY <1>2 DEF IsLoggedIn, SaveCopy
    <2> HIDE DEF d
    <2> QED
      BY <1>0, <2>1, <2>2, <2>3, DataFacts DEF DataType, d
  <1>3. ASSUME NEW q \in Workers, Page(q) PROVE DataType'
    BY <1>3, <1>0, DataFacts, GenType DEF Page, Done, Goto, DataType, NumType,
       ghosts
  <1>4. ASSUME NEW q \in Workers, NEW s \in Sids, Logout(q, s) PROVE DataType'
    BY <1>4, <1>0, DataFacts, GenType DEF Logout, Goto, Live, DataType,
       NumType, ghosts
  <1>5. ASSUME NEW q \in Workers, DropSessionFromIndex(q) PROVE DataType'
    BY <1>5, <1>0, DataFacts, GenType DEF DropSessionFromIndex, Goto, DataType,
       NumType
  <1>6. ASSUME NEW q \in Workers, Destroy(q) PROVE DataType'
    BY <1>6, <1>0, DataFacts, GenType DEF Destroy, Done, Goto, DataType,
       NumType
  <1>7. ASSUME NEW q \in Workers, NEW dead, Ended(q, dead) PROVE DataType'
    BY <1>7, <1>0, DataFacts, GenType DEF Ended, Done, Goto, DataType, NumType
  <1>8. ASSUME NEW q \in Workers, RemoteLogin(q) PROVE DataType'
    BY <1>8, <1>0, DataFacts, GenType DEF RemoteLogin, Goto, DataType, NumType,
       ghosts
  <1>9. ASSUME NEW q \in Workers, NEW s \in Sids, RemoteLoginExpired(q, s)
        PROVE  DataType'
    <2> DEFINE d == [auth |-> "half", lt |-> 0, gen |-> pw, ttl |-> idleTimeout]
    <2>1. d \in Data
      <3>1. 0 \in 0..MaxTime /\ pw \in 0..MaxPw
        BY <1>0, SessionConstants DEF NumType
      <3> QED
        BY <3>1, DataFacts
    <2>2. store' = [store EXCEPT ![s] = d] /\ copy' = copy
      BY <1>9 DEF RemoteLoginExpired
    <2> HIDE DEF d
    <2> QED
      BY <1>0, <2>1, <2>2 DEF DataType
  <1>10. ASSUME NEW q \in Workers, NEW s \in Sids, LoginSave(q, s)
         PROVE  DataType'
    <2> DEFINE d == [auth |-> "full", lt |-> now, gen |-> copy[q].gen, ttl |-> idleTimeout]
    <2>1. d \in Data
      BY <1>0, DataFacts, GenType DEF NumType, DataType
    <2>2. copy' = [copy EXCEPT ![q] = Absent]
      BY <1>10 DEF LoginSave, Done
    <2>3. \/ store' = [t \in Sids |-> CASE t = s -> d [] t = sid[q] -> Absent [] OTHER -> store[t]]
          \/ store' = [t \in Sids |-> IF t = sid[q] THEN Absent ELSE store[t]]
      BY <1>10 DEF LoginSave
    <2> HIDE DEF d
    <2>4. store' \in [Sids -> Data]
      BY <1>0, <2>1, <2>3, DataFacts DEF DataType
    <2> QED
      BY <1>0, <2>2, <2>4, DataFacts DEF DataType
  <1>11. ASSUME NEW q \in Workers, RecordUserSession(q) PROVE DataType'
    BY <1>11, <1>0, DataFacts, GenType DEF RecordUserSession, Done, Goto,
       DataType, NumType
  <1>12. ASSUME NEW q \in Workers, ChangePassword(q) PROVE DataType'
    <2> DEFINE d == [copy[q] EXCEPT !.gen = pw + 1]
    <2>1. pw + 1 \in 0..MaxPw
      BY <1>0, <1>12, SessionConstants DEF ChangePassword, NumType
    <2>2. d \in Data
      BY <1>0, <2>1, DataFacts DEF DataType
    <2>3. copy' = [copy EXCEPT ![q] = d] /\ store' = store
      BY <1>12 DEF ChangePassword
    <2> HIDE DEF d
    <2> QED
      BY <1>0, <2>2, <2>3 DEF DataType
  <1>13. ASSUME NEW q \in Workers, PasswordReset(q) PROVE DataType'
    BY <1>13, <1>0, DataFacts, GenType DEF PasswordReset, Goto, DataType,
       NumType, ghosts
  <1>14. ASSUME NEW q \in Workers, NEW s \in Sids, PasswordExpired(q, s)
         PROVE  DataType'
    <2> DEFINE d == [copy[q] EXCEPT !.gen = pw + 1]
    <2>1. pw + 1 \in 0..MaxPw
      BY <1>0, <1>14, SessionConstants DEF PasswordExpired, NumType
    <2>2. d \in Data
      BY <1>0, <2>1, DataFacts DEF DataType
    <2>3. copy' = [copy EXCEPT ![q] = d] /\ store' = store
      BY <1>14 DEF PasswordExpired
    <2> HIDE DEF d
    <2> QED
      BY <1>0, <2>2, <2>3 DEF DataType
  <1>15. ASSUME NEW q \in Workers, InvalidateUserSessions(q) PROVE DataType'
    <2>1. store' = store /\ (copy' = copy \/ copy' = [copy EXCEPT ![q] = Absent])
      BY <1>15 DEF InvalidateUserSessions, Done
    <2> QED
      BY <1>0, <2>1, DataFacts DEF DataType
  <1>16. ASSUME NEW q \in Workers, RefreshOwnSession(q) PROVE DataType'
    <2> DEFINE d == [store[sid[q]] EXCEPT !.lt = now, !.gen = copy[q].gen]
    <2>1. pc[q] = "refresh" /\ sid[q] \in Sids
      BY <1>0, <1>16 DEF RefreshOwnSession, CtlType, SidInv, Serving
    <2>2. d \in Data
      BY <1>0, <2>1, DataFacts, GenType DEF DataType, NumType
    <2>3. store' = store /\ (copy' = [copy EXCEPT ![q] = d] \/ copy' = [copy EXCEPT ![q] = Absent])
      BY <1>16 DEF RefreshOwnSession, Done
    <2> HIDE DEF d
    <2> QED
      BY <1>0, <2>2, <2>3, DataFacts DEF DataType
  <1>17. ASSUME NEW q \in Workers, SaveOwnSession(q) PROVE DataType'
    <2>1. [copy[q] EXCEPT !.ttl = idleTimeout] \in Data
      BY <1>0, DataFacts DEF DataType
    <2> DEFINE d == [copy[q] EXCEPT !.ttl = idleTimeout]
    <2>2. copy' = [copy EXCEPT ![q] = Absent]
      BY <1>17 DEF SaveOwnSession, Done
    <2>3. store' = [store EXCEPT ![sid[q]] = d] \/ store' = store
      BY <1>17 DEF SaveOwnSession, SaveCopy
    <2> HIDE DEF d
    <2> QED
      BY <1>0, <2>1, <2>2, <2>3, DataFacts DEF DataType, d
  <1>18. ASSUME Tick PROVE DataType'
    BY <1>18, <1>0, DataFacts, GenType DEF Tick, Less, Age, Live, Saving,
       DataType, NumType
  <1>19. CASE UNCHANGED vars
    BY <1>19, <1>0, DataFacts, GenType DEF vars, DataType, NumType
  <1>20. ASSUME NEW q \in Workers, PasskeySession(q) PROVE DataType'
    BY <1>20, <1>0, DataFacts DEF PasskeySession, Goto, Done, Live, DataType, CtlType, SidInv, Serving, ghosts
  <1>21. ASSUME NEW q \in Workers, PasskeySave(q) PROVE DataType'
    <2>1. [copy[q] EXCEPT !.ttl = idleTimeout] \in Data
      BY <1>0, DataFacts DEF DataType
    <2> DEFINE d == [copy[q] EXCEPT !.ttl = idleTimeout]
    <2>2. copy' = [copy EXCEPT ![q] = Absent]
      BY <1>21 DEF PasskeySave, Done
    <2>3. store' = [store EXCEPT ![sid[q]] = d] \/ store' = store
      BY <1>21 DEF PasskeySave, SaveCopy
    <2> HIDE DEF d
    <2> QED
      BY <1>0, <2>1, <2>2, <2>3, DataFacts DEF DataType, d
  <1> QED
    BY <1>1, <1>2, <1>3, <1>4, <1>5, <1>6, <1>7, <1>8, <1>9, <1>10, <1>11,
       <1>12, <1>13, <1>14, <1>15, <1>16, <1>17, <1>18, <1>19, <1>20, <1>21,
       RevokingEnds
       DEF Next, TypeInv

(* ... clocks and lifetimes within their bounds,                           *)
LEMMA NumTypeStep ==
  ASSUME TypeInv, [Next]_vars
  PROVE  NumType'
  <1>0. NumType
    BY TypeParts
  <1>1. ASSUME NEW q \in Workers, NEW s \in Sids, RequireLogin(q, s)
        PROVE  NumType'
    BY <1>1, <1>0, SessionConstants DEF RequireLogin, Goto, Live, Outdated,
       NumType, ghosts
  <1>2. ASSUME NEW q \in Workers, IsLoggedIn(q) PROVE NumType'
    BY <1>2, <1>0, SessionConstants DEF IsLoggedIn, Goto, SaveCopy, Live,
       NumType
  <1>3. ASSUME NEW q \in Workers, Page(q) PROVE NumType'
    BY <1>3, <1>0, SessionConstants DEF Page, Done, Goto, NumType, ghosts
  <1>4. ASSUME NEW q \in Workers, NEW s \in Sids, Logout(q, s) PROVE NumType'
    BY <1>4, <1>0, SessionConstants DEF Logout, Goto, Live, NumType, ghosts
  <1>5. ASSUME NEW q \in Workers, DropSessionFromIndex(q) PROVE NumType'
    BY <1>5, <1>0, SessionConstants DEF DropSessionFromIndex, Goto, NumType
  <1>6. ASSUME NEW q \in Workers, Destroy(q) PROVE NumType'
    BY <1>6, <1>0, SessionConstants DEF Destroy, Done, Goto, NumType
  <1>7. ASSUME NEW q \in Workers, NEW dead, Ended(q, dead) PROVE NumType'
    BY <1>7, <1>0, SessionConstants DEF Ended, Done, Goto, NumType
  <1>8. ASSUME NEW q \in Workers, RemoteLogin(q) PROVE NumType'
    BY <1>8, <1>0, SessionConstants DEF RemoteLogin, Goto, NumType, ghosts
  <1>9. ASSUME NEW q \in Workers, NEW s \in Sids, RemoteLoginExpired(q, s)
        PROVE  NumType'
    BY <1>9, <1>0, SessionConstants DEF RemoteLoginExpired, NumType, ghosts
  <1>10. ASSUME NEW q \in Workers, NEW s \in Sids, LoginSave(q, s)
         PROVE  NumType'
    BY <1>10, <1>0, SessionConstants DEF LoginSave, Goto, Done, Handed, NumType
  <1>11. ASSUME NEW q \in Workers, RecordUserSession(q) PROVE NumType'
    BY <1>11, <1>0, SessionConstants DEF RecordUserSession, Done, Goto, NumType
  <1>12. ASSUME NEW q \in Workers, ChangePassword(q) PROVE NumType'
    BY <1>12, <1>0, SessionConstants DEF ChangePassword, Goto, NumType, ghosts
  <1>13. ASSUME NEW q \in Workers, PasswordReset(q) PROVE NumType'
    BY <1>13, <1>0, SessionConstants DEF PasswordReset, Goto, NumType, ghosts
  <1>14. ASSUME NEW q \in Workers, NEW s \in Sids, PasswordExpired(q, s)
         PROVE  NumType'
    BY <1>14, <1>0, SessionConstants DEF PasswordExpired, Goto, NumType, ghosts
  <1>15. ASSUME NEW q \in Workers, InvalidateUserSessions(q) PROVE NumType'
    BY <1>15, <1>0, SessionConstants DEF InvalidateUserSessions, Goto, Done,
       markerTTL, NumType
  <1>16. ASSUME NEW q \in Workers, RefreshOwnSession(q) PROVE NumType'
    BY <1>16, <1>0, SessionConstants DEF RefreshOwnSession, Goto, Done, Live,
       NumType
  <1>17. ASSUME NEW q \in Workers, SaveOwnSession(q) PROVE NumType'
    BY <1>17, <1>0, SessionConstants DEF SaveOwnSession, Goto, Done, SaveCopy,
       Live, Handed, NumType
  <1>18. ASSUME Tick PROVE NumType'
    <2>1. marker' \in [at : 0..MaxTime, ttl : 0..markerTTL]
      <3>1. /\ marker.at \in 0..MaxTime /\ marker.ttl \in 0..markerTTL
            /\ 0 \in 0..MaxTime /\ 0 \in 0..markerTTL /\ markerTTL \in Nat
        BY <1>0, SessionConstants DEF NumType, markerTTL
      <3>2. CASE marker.ttl > 1
        <4>1. marker' = [marker EXCEPT !.ttl = marker.ttl - 1] /\ marker.ttl - 1 \in 0..markerTTL
          BY <1>18, <3>1, <3>2 DEF Tick
        <4> QED
          BY <1>0, <4>1 DEF NumType
      <3>3. CASE ~(marker.ttl > 1)
        BY <1>18, <3>1, <3>3 DEF Tick, NoMarker
      <3> QED
        BY <3>2, <3>3
    <2>2. left' \in [Workers -> 0..MaxInFlight]
      <3>1. left' = [q \in Workers |-> Less(left[q])]
        BY <1>18 DEF Tick
      <3>2. \A q \in Workers : Less(left[q]) \in 0..MaxInFlight
        BY <1>0, SessionConstants DEF NumType, Less
      <3> QED
        BY <3>1, <3>2
    <2>3. now' \in 0..MaxTime
      BY <1>0, <1>18, SessionConstants DEF Tick, NumType
    <2> QED
      BY <1>0, <1>18, <2>1, <2>2, <2>3 DEF Tick, NumType
  <1>19. CASE UNCHANGED vars
    BY <1>19, <1>0, SessionConstants DEF vars, NumType
  <1>20. ASSUME NEW q \in Workers, PasskeySession(q) PROVE NumType'
    BY <1>20, <1>0, SessionConstants DEF PasskeySession, Goto, Done, NumType, ghosts
  <1>21. ASSUME NEW q \in Workers, PasskeySave(q) PROVE NumType'
    BY <1>21, <1>0, SessionConstants DEF PasskeySave, Goto, Done, NumType
  <1> QED
    BY <1>1, <1>2, <1>3, <1>4, <1>5, <1>6, <1>7, <1>8, <1>9, <1>10, <1>11,
       <1>12, <1>13, <1>14, <1>15, <1>16, <1>17, <1>18, <1>19, <1>20, <1>21,
       RevokingEnds
       DEF Next, TypeInv

(* ... the steps of the requests and the ids in their hands,               *)
LEMMA CtlTypeStep ==
  ASSUME TypeInv, [Next]_vars
  PROVE  CtlType'
  <1>0. CtlType
    BY TypeParts
  <1>1. ASSUME NEW q \in Workers, NEW s \in Sids, RequireLogin(q, s)
        PROVE  CtlType'
    BY <1>1, <1>0 DEF RequireLogin, Goto, Live, Outdated, CtlType, SidInv,
       Serving, ghosts
  <1>2. ASSUME NEW q \in Workers, IsLoggedIn(q) PROVE CtlType'
    BY <1>2, <1>0 DEF IsLoggedIn, Goto, SaveCopy, Live, CtlType, SidInv,
       Serving
  <1>3. ASSUME NEW q \in Workers, Page(q) PROVE CtlType'
    BY <1>3, <1>0 DEF Page, Done, Goto, CtlType, SidInv, Serving, ghosts
  <1>4. ASSUME NEW q \in Workers, NEW s \in Sids, Logout(q, s) PROVE CtlType'
    BY <1>4, <1>0 DEF Logout, Goto, Live, CtlType, SidInv, Serving, ghosts
  <1>5. ASSUME NEW q \in Workers, DropSessionFromIndex(q) PROVE CtlType'
    BY <1>5, <1>0 DEF DropSessionFromIndex, Goto, CtlType, SidInv, Serving
  <1>6. ASSUME NEW q \in Workers, Destroy(q) PROVE CtlType'
    BY <1>6, <1>0 DEF Destroy, Done, Goto, CtlType, SidInv, Serving
  <1>7. ASSUME NEW q \in Workers, NEW dead, Ended(q, dead) PROVE CtlType'
    BY <1>7, <1>0 DEF Ended, Done, Goto, CtlType, SidInv, Serving
  <1>8. ASSUME NEW q \in Workers, RemoteLogin(q) PROVE CtlType'
    BY <1>8, <1>0 DEF RemoteLogin, Goto, CtlType, SidInv, Serving, ghosts
  <1>9. ASSUME NEW q \in Workers, NEW s \in Sids, RemoteLoginExpired(q, s)
        PROVE  CtlType'
    BY <1>9, <1>0 DEF RemoteLoginExpired, CtlType, SidInv, Serving, ghosts
  <1>10. ASSUME NEW q \in Workers, NEW s \in Sids, LoginSave(q, s)
         PROVE  CtlType'
    BY <1>10, <1>0 DEF LoginSave, Goto, Done, Handed, CtlType, SidInv, Serving
  <1>11. ASSUME NEW q \in Workers, RecordUserSession(q) PROVE CtlType'
    BY <1>11, <1>0 DEF RecordUserSession, Done, Goto, CtlType, SidInv, Serving
  <1>12. ASSUME NEW q \in Workers, ChangePassword(q) PROVE CtlType'
    BY <1>12, <1>0 DEF ChangePassword, Goto, CtlType, SidInv, Serving, ghosts
  <1>13. ASSUME NEW q \in Workers, PasswordReset(q) PROVE CtlType'
    BY <1>13, <1>0 DEF PasswordReset, Goto, CtlType, SidInv, Serving, ghosts
  <1>14. ASSUME NEW q \in Workers, NEW s \in Sids, PasswordExpired(q, s)
         PROVE  CtlType'
    BY <1>14, <1>0 DEF PasswordExpired, Goto, CtlType, SidInv, Serving, ghosts
  <1>15. ASSUME NEW q \in Workers, InvalidateUserSessions(q) PROVE CtlType'
    BY <1>15, <1>0 DEF InvalidateUserSessions, Goto, Done, markerTTL, CtlType,
       SidInv, Serving
  <1>16. ASSUME NEW q \in Workers, RefreshOwnSession(q) PROVE CtlType'
    BY <1>16, <1>0 DEF RefreshOwnSession, Goto, Done, Live, CtlType, SidInv,
       Serving
  <1>17. ASSUME NEW q \in Workers, SaveOwnSession(q) PROVE CtlType'
    BY <1>17, <1>0 DEF SaveOwnSession, Goto, Done, SaveCopy, Live, Handed,
       CtlType, SidInv, Serving
  <1>18. ASSUME Tick PROVE CtlType'
    BY <1>18, <1>0 DEF Tick, Less, Age, Live, Saving, CtlType, SidInv, Serving
  <1>19. CASE UNCHANGED vars
    BY <1>19, <1>0 DEF vars, CtlType, SidInv, Serving
  <1>20. ASSUME NEW q \in Workers, PasskeySession(q) PROVE CtlType'
    BY <1>20, <1>0 DEF PasskeySession, Goto, Done, CtlType, SidInv, Serving,
       ghosts
  <1>21. ASSUME NEW q \in Workers, PasskeySave(q) PROVE CtlType'
    BY <1>21, <1>0 DEF PasskeySave, Goto, Done, CtlType, SidInv, Serving
  <1> QED
    BY <1>1, <1>2, <1>3, <1>4, <1>5, <1>6, <1>7, <1>8, <1>9, <1>10, <1>11,
       <1>12, <1>13, <1>14, <1>15, <1>16, <1>17, <1>18, <1>19, <1>20, <1>21,
       RevokingEnds
       DEF Next, TypeInv

(* ... and the index and the sets of ids.                                  *)
LEMMA SetTypeStep ==
  ASSUME TypeInv, [Next]_vars
  PROVE  SetType'
  <1>0. SetType /\ CtlType
    BY TypeParts
  <1>1. ASSUME NEW q \in Workers, NEW s \in Sids, RequireLogin(q, s)
        PROVE  SetType'
    BY <1>1, <1>0, SessionConstants DEF RequireLogin, Goto, Live, Outdated,
       SetType, CtlType, SidInv, Serving, ghosts
  <1>2. ASSUME NEW q \in Workers, IsLoggedIn(q) PROVE SetType'
    BY <1>2, <1>0, SessionConstants DEF IsLoggedIn, Goto, SaveCopy, Live,
       SetType, CtlType, SidInv, Serving
  <1>3. ASSUME NEW q \in Workers, Page(q) PROVE SetType'
    BY <1>3, <1>0, SessionConstants DEF Page, Done, Goto, SetType, CtlType,
       SidInv, Serving, ghosts
  <1>4. ASSUME NEW q \in Workers, NEW s \in Sids, Logout(q, s) PROVE SetType'
    BY <1>4, <1>0, SessionConstants DEF Logout, Goto, Live, SetType, CtlType,
       SidInv, Serving, ghosts
  <1>5. ASSUME NEW q \in Workers, DropSessionFromIndex(q) PROVE SetType'
    <2>1. index' \in Seq(Sids) /\ indexTTL' \in 0..userSessionsTTL /\ orphaned' \in SUBSET Sids
      BY <1>5, DropEdit
    <2> QED
      BY <1>0, <1>5, <2>1 DEF DropSessionFromIndex, SetType
  <1>6. ASSUME NEW q \in Workers, Destroy(q) PROVE SetType'
    BY <1>6, <1>0, SessionConstants DEF Destroy, Done, Goto, SetType, CtlType,
       SidInv, Serving
  <1>7. ASSUME NEW q \in Workers, NEW dead, Ended(q, dead) PROVE SetType'
    <2>1. Indexed \in SUBSET Sids
      BY <1>0, IndexedType DEF SetType
    <2> QED
      BY <1>0, <1>7, <2>1 DEF Ended, SetType
  <1>8. ASSUME NEW q \in Workers, RemoteLogin(q) PROVE SetType'
    BY <1>8, <1>0, SessionConstants DEF RemoteLogin, Goto, SetType, CtlType,
       SidInv, Serving, ghosts
  <1>9. ASSUME NEW q \in Workers, NEW s \in Sids, RemoteLoginExpired(q, s)
        PROVE  SetType'
    BY <1>9, <1>0, SessionConstants DEF RemoteLoginExpired, SetType, CtlType,
       SidInv, Serving, ghosts
  <1>10. ASSUME NEW q \in Workers, NEW s \in Sids, LoginSave(q, s)
         PROVE  SetType'
    BY <1>10, <1>0, SessionConstants DEF LoginSave, Goto, Done, Handed,
       SetType, CtlType, SidInv, Serving
  <1>11. ASSUME NEW q \in Workers, RecordUserSession(q) PROVE SetType'
    <2>1. index' \in Seq(Sids) /\ indexTTL' \in 0..userSessionsTTL /\ orphaned' \in SUBSET Sids
      BY <1>11, RecordEdit
    <2> QED
      BY <1>0, <1>11, <2>1 DEF RecordUserSession, SetType
  <1>12. ASSUME NEW q \in Workers, ChangePassword(q) PROVE SetType'
    BY <1>12, <1>0, SessionConstants DEF ChangePassword, Goto, SetType,
       CtlType, SidInv, Serving, ghosts
  <1>13. ASSUME NEW q \in Workers, PasswordReset(q) PROVE SetType'
    BY <1>13, <1>0, SessionConstants DEF PasswordReset, Goto, SetType, CtlType,
       SidInv, Serving, ghosts
  <1>14. ASSUME NEW q \in Workers, NEW s \in Sids, PasswordExpired(q, s)
         PROVE  SetType'
    BY <1>14, <1>0, SessionConstants DEF PasswordExpired, Goto, SetType,
       CtlType, SidInv, Serving, ghosts
  <1>15. ASSUME NEW q \in Workers, InvalidateUserSessions(q) PROVE SetType'
    BY <1>15, <1>0, SessionConstants DEF InvalidateUserSessions, Goto, Done,
       markerTTL, SetType, CtlType, SidInv, Serving
  <1>16. ASSUME NEW q \in Workers, RefreshOwnSession(q) PROVE SetType'
    BY <1>16, <1>0, SessionConstants DEF RefreshOwnSession, Goto, Done, Live,
       SetType, CtlType, SidInv, Serving
  <1>17. ASSUME NEW q \in Workers, SaveOwnSession(q) PROVE SetType'
    BY <1>17, <1>0, SessionConstants DEF SaveOwnSession, Goto, Done, SaveCopy,
       Live, Handed, SetType, CtlType, SidInv, Serving
  <1>18. ASSUME Tick PROVE SetType'
    <2>1. Indexed \in SUBSET Sids
      BY <1>0, IndexedType DEF SetType
    <2>2. indexTTL' \in 0..userSessionsTTL
      BY <1>0, <1>18, SessionConstants DEF Tick, Less, SetType
    <2>3. index' \in Seq(Sids)
      BY <1>0, <1>18 DEF Tick, SetType
    <2>4. orphaned' \in SUBSET Sids
      BY <1>0, <1>18, <2>1 DEF Tick, SetType
    <2> QED
      BY <1>0, <1>18, <2>2, <2>3, <2>4 DEF Tick, SetType
  <1>19. CASE UNCHANGED vars
    BY <1>19, <1>0, SessionConstants DEF vars, SetType, CtlType, SidInv,
       Serving
  <1>20. ASSUME NEW q \in Workers, PasskeySession(q) PROVE SetType'
    BY <1>20, <1>0 DEF PasskeySession, SetType, ghosts
  <1>21. ASSUME NEW q \in Workers, PasskeySave(q) PROVE SetType'
    BY <1>21, <1>0 DEF PasskeySave, SaveCopy, SetType, CtlType, SidInv, Serving
  <1> QED
    BY <1>1, <1>2, <1>3, <1>4, <1>5, <1>6, <1>7, <1>8, <1>9, <1>10, <1>11,
       <1>12, <1>13, <1>14, <1>15, <1>16, <1>17, <1>18, <1>19, <1>20, <1>21,
       RevokingEnds
       DEF Next, TypeInv

(* The types are inductive.                                                *)
LEMMA TypeStep == TypeInv /\ [Next]_vars => TypeInv'
  <1> SUFFICES ASSUME TypeInv, [Next]_vars PROVE TypeInv'
    OBVIOUS
  <1>1. DataType' /\ NumType' /\ CtlType' /\ SetType'
    BY DataTypeStep, NumTypeStep, CtlTypeStep, SetTypeStep
  <1> QED
    BY <1>1 DEF TypeInv, TypeOK, DataType, NumType, CtlType, SetType

(* They hold at first.                                                     *)
LEMMA TypeInit == Init => TypeInv
  <1> SUFFICES ASSUME Init PROVE TypeInv
    OBVIOUS
  <1>1. DataType
    BY DataFacts DEF Init, DataType
  <1>2. NumType
    BY SessionConstants DEF Init, NumType, NoMarker, markerTTL
  <1>3. CtlType
    BY DEF Init, CtlType, SidInv, Serving
  <1>4. SetType
    BY SessionConstants DEF Init, SetType
  <1> QED
    BY <1>1, <1>2, <1>3, <1>4, TypeParts

(* Every variable keeps its type: no lifetime passes its timeout, the      *)
(* index holds session ids only, and a request never works on a session it *)
(* has no id of (auth.go, sessions.go, password.go).                       *)
THEOREM TypeCorrect == Spec => []TypeOK
  <1>1. TypeInv => TypeOK
    BY DEF TypeInv
  <1> QED
    BY <1>1, TypeInit, TypeStep, PTL DEF Spec

(* Ids that are in use somewhere have been handed out.                     *)
UsedInv ==
    /\ \A s \in Sids : Live(s) => s \in used
    /\ \A q \in Workers : sid[q] \in Sids => sid[q] \in used
    /\ Indexed \subseteq used
    /\ quiet \subseteq used

(* A session revoked while no request was about to save it is dead, and    *)
(* none is about to save it since.                                         *)
QuietInv ==
    /\ QuietRevocationIsFinal
    /\ \A q \in Workers : Saving(q) => sid[q] \notin quiet

(* A copy about to be saved agrees with the store, and with other copies   *)
(* of that session, on the login state.                                    *)
AuthInv ==
    /\ \A q \in Workers :
         Saving(q) /\ Live(sid[q]) => copy[q].auth = store[sid[q]].auth
    /\ \A p, q \in Workers :
         Saving(p) /\ Saving(q) /\ sid[p] = sid[q] => copy[p].auth = copy[q].auth

(* Login times, the marker's time and the last change are in order.        *)
ClockInv ==
    /\ changedAt <= now /\ signedOut <= pw
    /\ marker.ttl > 0 => marker.at = changedAt
    /\ \A s \in Sids : store[s].lt <= now /\ (Live(s) => store[s].ttl > 0)
    /\ \A q \in Workers : Saving(q) => copy[q].lt <= now

(* The login time is stored as the requests that are about to save it have *)
(* read it, and only a password change is going to move it on; but not     *)
(* where a change saved the session under another request.                 *)
LtInv ==
    \A q \in Workers :
      Saving(q) /\ sid[q] \notin raced =>
        IF pc[q] = "keep"
          THEN Live(sid[q]) => store[sid[q]].lt <= copy[q].lt
          ELSE /\ Live(sid[q]) => copy[q].lt = store[sid[q]].lt
               /\ \A p \in Workers : Saving(p) /\ sid[p] = sid[q]
                                       => copy[q].lt <= copy[p].lt

(* A passkey request that was let in before the marker, or on a session    *)
(* that nobody will save with an older login time.                         *)
EnrolInv ==
    \A q \in Workers :
      pc[q] = "enrol" /\ sid[q] \notin raced =>
        \/ idleTimeout + left[q] <= marker.ttl
        \/ /\ Live(sid[q]) => store[sid[q]].lt >= changedAt
           /\ \A p \in Workers : Saving(p) /\ sid[p] = sid[q]
                                   => copy[p].lt >= changedAt

(* The marker lives as long as any older session can, also if a request in *)
(* flight saves it again at the last moment.                               *)
MarkerInv ==
    ~storageFails =>
      /\ \A s \in Sids \ raced :
           store[s].auth = "full" /\ store[s].lt < changedAt
             => store[s].ttl <= marker.ttl
      /\ \A q \in Workers :
           Saving(q) /\ sid[q] \notin raced /\ copy[q].lt < changedAt
             => idleTimeout + left[q] <= marker.ttl
      /\ EnrolInv

(* Sessions of an older password, stored or in a request's hands, are no   *)
(* younger than the change or known to have overtaken it.                  *)
PasswordInv ==
    /\ \A s \in Sids : store[s].auth = "full" /\ store[s].gen < signedOut
                         => store[s].lt <= changedAt \/ s \in overtaken
    /\ \A q \in Workers :
         /\ pc[q] \in {"check", "passkey"} /\ copy[q].auth = "full"
         /\ copy[q].gen < signedOut
         => copy[q].lt <= changedAt \/ sid[q] \in overtaken
    /\ \A q \in Workers :
         /\ pc[q] \in {"authenticated", "changed", "refresh", "keep"}
         /\ copy[q].gen < signedOut
         => q \in overtaken

(* The inductive invariant.                                                *)
SessionInv == /\ UsedInv /\ QuietInv /\ AuthInv /\ IndexComplete
              /\ ClockInv /\ LtInv /\ MarkerInv /\ PasswordInv

(* What the steps that write session data do, field by field.              *)
Others(q) == \A p \in Workers \ {q} : /\ pc'[p] = pc[p] /\ sid'[p] = sid[p]
                                      /\ copy'[p] = copy[p] /\ left'[p] = left[p]

(* The request is over, and no other one moves.                            *)
Answered(q) == pc'[q] = "idle" /\ sid'[q] = NoSid /\ Others(q)

(* Only this session's data changes.                                       *)
Written(s) == \A t \in Sids \ {s} : store'[t] = store[t]

(* What a request had read is stored, with a fresh idle timeout.           *)
Saved(q) ==
    /\ Written(sid[q])
    /\ store'[sid[q]].auth = copy[q].auth /\ store'[sid[q]].lt = copy[q].lt
    /\ store'[sid[q]].gen = copy[q].gen /\ store'[sid[q]].ttl = idleTimeout
    /\ orphaned' = IF Live(sid[q]) THEN orphaned ELSE orphaned \cup {sid[q]}

(* Ending a request touches no other.                                      *)
LEMMA DoneAnswers ==
  ASSUME TypeInv, NEW q \in Workers, Done(q) PROVE Answered(q)
  BY TypeParts DEF DataType, NumType, CtlType, Done, Goto, Answered, Others

(* SaveCopy, field by field.                                               *)
LEMMA SaveCopySaves ==
  ASSUME TypeInv, NEW q \in Workers, sid[q] \in Sids, SaveCopy(q) PROVE Saved(q)
  <1>1. DataType
    BY TypeParts
  <1> QED
    BY <1>1 DEF DataType, Data, SaveCopy, Saved, Written

(* isLoggedIn checks a copy and saves it, or signs out.                    *)
LEMMA IsLoggedInFacts ==
  ASSUME TypeInv, NEW q \in Workers, IsLoggedIn(q)
  PROVE  /\ sid[q] \in Sids /\ pc[q] = "check"
         /\ \/ pc'[q] \in {"handler", "logout"}
            \/ /\ pc'[q] = "enrol" /\ left'[q] = left[q]
               /\ Saved(q) \/ storageFails
         /\ Others(q) /\ sid' = sid
         /\ Saved(q) \/ UNCHANGED <<store, orphaned>>
         /\ UNCHANGED <<setting, now, pw, index, marker, used, changedAt,
                        revoked, quiet, signedOut, overtaken, raced>>
  <1>1. DataType /\ NumType /\ CtlType
    BY TypeParts
  <1>2. sid[q] \in Sids /\ pc[q] = "check"
    BY <1>1 DEF IsLoggedIn, CtlType, SidInv, Serving
  <1>3. Saved(q) \/ UNCHANGED <<store, orphaned>>
    BY <1>2, SaveCopySaves DEF IsLoggedIn
  <1>4. \/ pc'[q] \in {"handler", "logout"}
        \/ pc'[q] = "enrol" /\ left'[q] = left[q] /\ (Saved(q) \/ storageFails)
    BY <1>1, <1>2, SaveCopySaves DEF IsLoggedIn, Goto, CtlType
  <1> QED
    BY <1>1, <1>2, <1>3, <1>4 DEF DataType, NumType, CtlType, IsLoggedIn, Goto,
       Others

(* The passkey handlers read the session again, if it is there, ...        *)
LEMMA PasskeySessionFacts ==
  ASSUME TypeInv, NEW q \in Workers, PasskeySession(q)
  PROVE  /\ sid[q] \in Sids /\ pc[q] = "enrol"
         /\ \/ /\ pc'[q] = "passkey" /\ Others(q) /\ sid' = sid /\ Live(sid[q])
               /\ copy'[q] = store[sid[q]] /\ left' = left
            \/ Answered(q)
         /\ UNCHANGED <<setting, now, pw, store, index, indexTTL, marker, used,
                        ghosts>>
  <1>1. DataType /\ NumType /\ CtlType
    BY TypeParts
  <1>2. sid[q] \in Sids /\ pc[q] = "enrol"
    BY <1>1 DEF PasskeySession, CtlType, SidInv, Serving
  <1> QED
    BY <1>1, <1>2, DoneAnswers DEF DataType, NumType, CtlType, PasskeySession,
       Goto, Others

(* ... and save it.                                                        *)
LEMMA PasskeySaveFacts ==
  ASSUME TypeInv, NEW q \in Workers, PasskeySave(q)
  PROVE  /\ sid[q] \in Sids /\ pc[q] = "passkey" /\ Answered(q)
         /\ Saved(q) \/ UNCHANGED <<store, orphaned>>
         /\ UNCHANGED <<setting, now, pw, index, indexTTL, marker, used, changedAt,
                        revoked, quiet, signedOut, overtaken, raced>>
  <1>1. sid[q] \in Sids /\ pc[q] = "passkey"
    BY TypeParts DEF PasskeySave, CtlType, SidInv, Serving
  <1> QED
    BY <1>1, DoneAnswers, SaveCopySaves DEF PasskeySave

(* SaveOwnSession saves the refreshed copy or fails.                       *)
LEMMA SaveOwnSessionFacts ==
  ASSUME TypeInv, NEW q \in Workers, SaveOwnSession(q)
  PROVE  /\ sid[q] \in Sids /\ pc[q] = "keep" /\ Answered(q)
         /\ \/ /\ Saved(q) /\ overtaken' = Handed(q, sid[q])
               /\ \A p \in Workers \ {q} : Saving(p) /\ sid[p] = sid[q] => sid[q] \in raced'
            \/ UNCHANGED <<store, orphaned, overtaken>>
         /\ raced \subseteq raced'
         /\ UNCHANGED <<setting, now, pw, index, marker, used, changedAt,
                        revoked, quiet, signedOut>>
  <1>1. CtlType
    BY TypeParts
  <1>2. sid[q] \in Sids /\ pc[q] = "keep"
    BY <1>1 DEF SaveOwnSession, CtlType, SidInv, Serving
  <1>3. \/ /\ Saved(q) /\ overtaken' = Handed(q, sid[q])
           /\ \A p \in Workers \ {q} : Saving(p) /\ sid[p] = sid[q] => sid[q] \in raced'
        \/ UNCHANGED <<store, orphaned, overtaken>>
    BY <1>2, SaveCopySaves DEF SaveOwnSession
  <1>4. raced \subseteq raced'
    BY DEF SaveOwnSession
  <1> QED
    BY <1>2, <1>3, <1>4, DoneAnswers DEF SaveOwnSession

(* RefreshOwnSession re-reads the session with a new login time, or ends   *)
(* because it is gone.                                                     *)
LEMMA RefreshFacts ==
  ASSUME TypeInv, NEW q \in Workers, RefreshOwnSession(q)
  PROVE  /\ sid[q] \in Sids /\ pc[q] = "refresh"
         /\ \/ /\ pc'[q] = "keep" /\ Others(q) /\ sid' = sid /\ Live(sid[q])
               /\ copy'[q].auth = store[sid[q]].auth /\ copy'[q].lt = now
               /\ copy'[q].gen = copy[q].gen /\ left'[q] = MaxInFlight
               /\ UNCHANGED overtaken
            \/ Answered(q) /\ overtaken' = overtaken \ {q}
         /\ UNCHANGED <<setting, now, pw, store, index, marker, used, changedAt,
                        orphaned, revoked, quiet, signedOut, raced>>
  <1>1. DataType /\ NumType /\ CtlType
    BY TypeParts
  <1>2. sid[q] \in Sids /\ pc[q] = "refresh"
    BY <1>1 DEF RefreshOwnSession, CtlType, SidInv, Serving
  <1>3. CASE Done(q) /\ overtaken' = overtaken \ {q}
    BY <1>2, <1>3, DoneAnswers DEF RefreshOwnSession
  <1>4. CASE ~Done(q) \/ overtaken' # overtaken \ {q}
    <2> DEFINE d == [store[sid[q]] EXCEPT !.lt = now, !.gen = copy[q].gen]
    <2>1. d.auth = store[sid[q]].auth /\ d.lt = now /\ d.gen = copy[q].gen
      BY <1>1, <1>2 DEF DataType, Data
    <2>2. /\ copy' = [copy EXCEPT ![q] = d] /\ pc' = [pc EXCEPT ![q] = "keep"]
          /\ left' = [left EXCEPT ![q] = MaxInFlight] /\ Live(sid[q])
          /\ UNCHANGED <<sid, overtaken>>
      BY <1>4 DEF RefreshOwnSession, Goto
    <2> HIDE DEF d
    <2>3. copy'[q] = d /\ pc'[q] = "keep" /\ left'[q] = MaxInFlight /\ Others(q)
      BY <1>1, <2>2 DEF DataType, NumType, CtlType, Others
    <2> QED
      BY <1>2, <2>1, <2>2, <2>3 DEF RefreshOwnSession
  <1> QED
    BY <1>3, <1>4

(* A login stores a new session and destroys the one of its half-done      *)
(* login.                                                                  *)
LEMMA LoginSaveFacts ==
  ASSUME TypeInv, UsedInv, NEW q \in Workers, NEW s \in Sids, LoginSave(q, s)
  PROVE  /\ pc[q] = "authenticated" /\ s \notin used /\ used' = used \cup {s}
         /\ \A t \in Sids \ {s} : store'[t] \in {store[t], Absent}
         /\ \/ /\ pc'[q] = "record" /\ sid'[q] = s /\ Others(q)
               /\ store'[s].auth = "full" /\ store'[s].lt = now
               /\ store'[s].gen = copy[q].gen /\ store'[s].ttl = idleTimeout
            \/ Answered(q) /\ store'[s] = store[s]
         /\ overtaken' = Handed(q, s)
         /\ UNCHANGED <<setting, now, pw, index, marker, changedAt, orphaned,
                        revoked, quiet, signedOut, raced>>
  <1>1. DataType /\ NumType /\ CtlType
    BY TypeParts
  <1>2. sid[q] # s
    BY <1>1 DEF LoginSave, UsedInv
  <1>3. CASE /\ Done(q)
             /\ store' = [t \in Sids |-> IF t = sid[q] THEN Absent ELSE store[t]]
    <2>1. \A t \in Sids \ {s} : store'[t] \in {store[t], Absent}
      BY <1>3
    <2> QED
      BY <1>2, <1>3, <2>1, DoneAnswers DEF LoginSave
  <1>4. CASE ~(/\ Done(q)
               /\ store' = [t \in Sids |-> IF t = sid[q] THEN Absent ELSE store[t]])
    <2> DEFINE d == [auth |-> "full", lt |-> now, gen |-> copy[q].gen, ttl |-> idleTimeout]
    <2>1. /\ store' = [t \in Sids |-> CASE t = s -> d [] t = sid[q] -> Absent [] OTHER -> store[t]]
          /\ pc' = [pc EXCEPT ![q] = "record"] /\ sid' = [sid EXCEPT ![q] = s]
          /\ copy' = [copy EXCEPT ![q] = Absent] /\ UNCHANGED left
      BY <1>4 DEF LoginSave, Goto
    <2>2. d.auth = "full" /\ d.lt = now /\ d.gen = copy[q].gen /\ d.ttl = idleTimeout
      OBVIOUS
    <2> HIDE DEF d
    <2>3. store'[s] = d /\ \A t \in Sids \ {s} : store'[t] \in {store[t], Absent}
      BY <1>2, <2>1
    <2>4. pc'[q] = "record" /\ sid'[q] = s /\ Others(q)
      BY <1>1, <2>1 DEF DataType, NumType, CtlType, Others
    <2> QED
      BY <2>2, <2>3, <2>4 DEF LoginSave
  <1> QED
    BY <1>3, <1>4

(* A tick takes one from a session's time left, or ends it.                *)
LEMMA AgeFacts ==
  ASSUME NEW d \in Data
  PROVE  \/ Age(d) = Absent /\ d.ttl <= 1
         \/ /\ Age(d).auth = d.auth /\ Age(d).lt = d.lt /\ Age(d).gen = d.gen
            /\ Age(d).ttl = d.ttl - 1 /\ d.ttl > 1
  BY SessionConstants DEF Data, Age

(* Indexed depends on the index only.                                      *)
LEMMA SameIndex == UNCHANGED index => Indexed' = Indexed
  BY DEF Indexed, Ids

(* What the arithmetic of the proofs needs of the types.                   *)
LEMMA NumberFacts ==
  ASSUME TypeInv
  PROVE  /\ now \in Nat /\ pw \in Nat /\ changedAt \in Nat /\ signedOut \in Nat
         /\ idleTimeout \in Nat \ {0} /\ MaxInFlight \in Nat
         /\ marker.at \in Nat /\ marker.ttl \in Nat
         /\ \A s \in Sids : /\ store[s] \in Data
                             /\ store[s].lt \in Nat /\ store[s].gen \in Nat
                             /\ store[s].ttl \in 0..idleTimeout
         /\ \A q \in Workers : /\ copy[q] \in Data
                                /\ copy[q].lt \in Nat /\ copy[q].gen \in Nat
                                /\ left[q] \in 0..MaxInFlight
  BY TypeParts, SessionConstants DEF DataType, NumType, Data, markerTTL

(* Every step preserves UsedInv, ...                                       *)
LEMMA UsedStep ==
  ASSUME TypeInv, [Next]_vars, UsedInv
  PROVE  UsedInv'
  <1>0. DataType /\ NumType /\ CtlType /\ SetType
    BY TypeParts
  <1>1. ASSUME NEW q \in Workers, NEW s \in Sids, RequireLogin(q, s)
        PROVE  UsedInv'
    BY <1>1, <1>0 DEF RequireLogin, Goto, Live, Outdated, UsedInv, Indexed,
       Ids, CtlType, SidInv, Serving, ghosts
  <1>2. ASSUME NEW q \in Workers, IsLoggedIn(q) PROVE UsedInv'
    BY <1>2, <1>0, IsLoggedInFacts, SameIndex, SessionConstants
       DEF UsedInv, Live, Others, Written, Saved
  <1>3. ASSUME NEW q \in Workers, Page(q) PROVE UsedInv'
    BY <1>3, <1>0, DoneAnswers, SameIndex, SessionConstants
       DEF Page, UsedInv, Live, Answered, Others, ghosts
  <1>4. ASSUME NEW q \in Workers, NEW s \in Sids, Logout(q, s) PROVE UsedInv'
    BY <1>4, <1>0 DEF Logout, Goto, Live, UsedInv, Indexed, Ids, CtlType, SidInv,
       Serving, ghosts
  <1>5. ASSUME NEW q \in Workers, DropSessionFromIndex(q) PROVE UsedInv'
    <2>1. Indexed' \subseteq Indexed \cup {sid[q]} /\ UNCHANGED <<store, sid, used, quiet>>
      BY <1>5, DropEdit DEF DropSessionFromIndex
    <2>2. sid[q] \in Sids
      BY <1>5 DEF DropSessionFromIndex, TypeInv, SidInv, Serving
    <2> QED
      BY <2>1, <2>2 DEF UsedInv, Live
  <1>6. ASSUME NEW q \in Workers, Destroy(q) PROVE UsedInv'
    BY <1>6, <1>0, DoneAnswers, SameIndex, SessionConstants
       DEF Destroy, UsedInv, Live, Answered, Others, Absent, DataType
  <1>7. ASSUME NEW q \in Workers, NEW dead, Ended(q, dead) PROVE UsedInv'
    BY <1>7, <1>0, DoneAnswers, SessionConstants DEF Ended, UsedInv, Live,
       Answered, Others, Absent
  <1>8. ASSUME NEW q \in Workers, RemoteLogin(q) PROVE UsedInv'
    BY <1>8, <1>0 DEF RemoteLogin, Goto, UsedInv, Live, Indexed, Ids, CtlType,
       SidInv, Serving, ghosts
  <1>9. ASSUME NEW q \in Workers, NEW s \in Sids, RemoteLoginExpired(q, s)
        PROVE  UsedInv'
    BY <1>9, <1>0 DEF RemoteLoginExpired, UsedInv, Live, Indexed, Ids, CtlType,
       SidInv, Serving, ghosts
  <1>10. ASSUME NEW q \in Workers, NEW s \in Sids, LoginSave(q, s)
         PROVE  UsedInv'
    BY <1>10, <1>0, LoginSaveFacts, SameIndex, SessionConstants
       DEF UsedInv, Live, Others, Answered, Absent, Handed
  <1>11. ASSUME NEW q \in Workers, RecordUserSession(q) PROVE UsedInv'
    <2>1. /\ Answered(q) /\ Indexed' \subseteq Indexed \cup {sid[q]}
          /\ sid[q] \in Sids /\ UNCHANGED <<used, store, quiet>>
      BY <1>11, RecordEdit, DoneAnswers DEF RecordUserSession
    <2> QED
      BY <2>1, SessionConstants DEF UsedInv, Answered, Others, Live
  <1>12. ASSUME NEW q \in Workers, ChangePassword(q) PROVE UsedInv'
    BY <1>12, <1>0 DEF ChangePassword, Goto, UsedInv, Live, Indexed, Ids, CtlType,
       SidInv, Serving, ghosts
  <1>13. ASSUME NEW q \in Workers, PasswordReset(q) PROVE UsedInv'
    BY <1>13, <1>0 DEF PasswordReset, Goto, UsedInv, Live, Indexed, Ids, CtlType,
       SidInv, Serving, ghosts
  <1>14. ASSUME NEW q \in Workers, NEW s \in Sids, PasswordExpired(q, s)
         PROVE  UsedInv'
    BY <1>14, <1>0 DEF PasswordExpired, Goto, UsedInv, Live, Indexed, Ids, CtlType,
       SidInv, Serving, ghosts
  <1>15. ASSUME NEW q \in Workers, InvalidateUserSessions(q) PROVE UsedInv'
    BY <1>15, <1>0, DoneAnswers, SameIndex, SessionConstants
       DEF InvalidateUserSessions, UsedInv, Live, Answered, Others
  <1>16. ASSUME NEW q \in Workers, RefreshOwnSession(q) PROVE UsedInv'
    BY <1>16, <1>0, RefreshFacts, SameIndex, SessionConstants
       DEF UsedInv, Live, Others, Answered
  <1>17. ASSUME NEW q \in Workers, SaveOwnSession(q) PROVE UsedInv'
    BY <1>17, <1>0, SaveOwnSessionFacts, SameIndex, SessionConstants
       DEF UsedInv, Live, Others, Answered, Written, Saved, Handed
  <1>18. ASSUME Tick PROVE UsedInv'
    BY <1>18, <1>0 DEF Tick, Less, Age, Live, Saving, UsedInv, Indexed,
       Ids, CtlType, SidInv, Serving, Absent
  <1>19. CASE UNCHANGED vars
    BY <1>19, <1>0 DEF vars, UsedInv, Live, Indexed, Ids, CtlType, SidInv, Serving
  <1>20. ASSUME NEW q \in Workers, PasskeySession(q) PROVE UsedInv'
    BY <1>20, <1>0, PasskeySessionFacts, SameIndex, SessionConstants
       DEF UsedInv, Live, Others, Answered, ghosts
  <1>21. ASSUME NEW q \in Workers, PasskeySave(q) PROVE UsedInv'
    BY <1>21, <1>0, PasskeySaveFacts, SameIndex, SessionConstants
       DEF UsedInv, Live, Others, Answered, Written, Saved
  <1> QED
    BY <1>1, <1>2, <1>3, <1>4, <1>5, <1>6, <1>7, <1>8, <1>9, <1>10, <1>11,
       <1>12, <1>13, <1>14, <1>15, <1>16, <1>17, <1>18, <1>19, <1>20, <1>21,
       RevokingEnds
       DEF Next, TypeInv

(* ... QuietInv: a copy is taken only of a live session, ...               *)
LEMMA QuietStep ==
  ASSUME TypeInv, [Next]_vars, UsedInv, QuietInv
  PROVE  QuietInv'
  <1>0. DataType /\ NumType /\ CtlType /\ SetType
    BY TypeParts
  <1>1. ASSUME NEW q \in Workers, NEW s \in Sids, RequireLogin(q, s)
        PROVE  QuietInv'
    BY <1>1, <1>0 DEF RequireLogin, Goto, Live, Outdated, UsedInv, QuietInv,
       QuietRevocationIsFinal, Saving, CtlType, SidInv, Serving, ghosts
  <1>2. ASSUME NEW q \in Workers, IsLoggedIn(q) PROVE QuietInv'
    BY <1>2, <1>0, IsLoggedInFacts DEF UsedInv, QuietInv,
       QuietRevocationIsFinal, Saving, Live, SetType, Others, Written, Saved
  <1>3. ASSUME NEW q \in Workers, Page(q) PROVE QuietInv'
    BY <1>3, <1>0 DEF Page, Done, Goto, UsedInv, QuietInv,
       QuietRevocationIsFinal, Saving, Live, CtlType, SidInv, Serving, Absent,
       ghosts
  <1>4. ASSUME NEW q \in Workers, NEW s \in Sids, Logout(q, s) PROVE QuietInv'
    BY <1>4, <1>0 DEF Logout, Goto, Live, UsedInv, QuietInv,
       QuietRevocationIsFinal, Saving, CtlType, SidInv, Serving, ghosts
  <1>5. ASSUME NEW q \in Workers, DropSessionFromIndex(q) PROVE QuietInv'
    BY <1>5, <1>0 DEF DropSessionFromIndex, Goto, UsedInv, QuietInv,
       QuietRevocationIsFinal, Saving, Live, CtlType, SidInv, Serving
  <1>6. ASSUME NEW q \in Workers, Destroy(q) PROVE QuietInv'
    BY <1>6, <1>0, DoneAnswers DEF Destroy, QuietInv, QuietRevocationIsFinal,
       Saving, Live, Answered, Others, Absent, DataType, SetType
  <1>7. ASSUME NEW q \in Workers, NEW dead, Ended(q, dead) PROVE QuietInv'
    BY <1>7, <1>0 DEF Ended, Done, Goto, UsedInv, QuietInv,
       QuietRevocationIsFinal, Saving, AboutToSave, Live, CtlType, SidInv,
       Serving, Absent
  <1>8. ASSUME NEW q \in Workers, RemoteLogin(q) PROVE QuietInv'
    BY <1>8, <1>0 DEF RemoteLogin, Goto, UsedInv, QuietInv,
       QuietRevocationIsFinal, Saving, Live, CtlType, SidInv, Serving, ghosts
  <1>9. ASSUME NEW q \in Workers, NEW s \in Sids, RemoteLoginExpired(q, s)
        PROVE  QuietInv'
    BY <1>9, <1>0 DEF RemoteLoginExpired, UsedInv, QuietInv,
       QuietRevocationIsFinal, Saving, Live, CtlType, SidInv, Serving, ghosts
  <1>10. ASSUME NEW q \in Workers, NEW s \in Sids, LoginSave(q, s)
         PROVE  QuietInv'
    BY <1>10, <1>0, LoginSaveFacts DEF UsedInv, QuietInv,
       QuietRevocationIsFinal, Saving, Live, SetType, Others, Answered, Absent,
       Handed
  <1>11. ASSUME NEW q \in Workers, RecordUserSession(q) PROVE QuietInv'
    BY <1>11, <1>0 DEF RecordUserSession, Done, Goto, UsedInv, QuietInv,
       QuietRevocationIsFinal, Saving, Live, CtlType, SidInv, Serving, Absent
  <1>12. ASSUME NEW q \in Workers, ChangePassword(q) PROVE QuietInv'
    BY <1>12, <1>0 DEF ChangePassword, Goto, UsedInv, QuietInv,
       QuietRevocationIsFinal, Saving, Live, CtlType, SidInv, Serving, ghosts
  <1>13. ASSUME NEW q \in Workers, PasswordReset(q) PROVE QuietInv'
    BY <1>13, <1>0 DEF PasswordReset, Goto, UsedInv, QuietInv,
       QuietRevocationIsFinal, Saving, Live, CtlType, SidInv, Serving, ghosts
  <1>14. ASSUME NEW q \in Workers, NEW s \in Sids, PasswordExpired(q, s)
         PROVE  QuietInv'
    BY <1>14, <1>0 DEF PasswordExpired, Goto, UsedInv, QuietInv,
       QuietRevocationIsFinal, Saving, Live, CtlType, SidInv, Serving, ghosts
  <1>15. ASSUME NEW q \in Workers, InvalidateUserSessions(q) PROVE QuietInv'
    BY <1>15, <1>0 DEF InvalidateUserSessions, Goto, Done, markerTTL, UsedInv,
       QuietInv, QuietRevocationIsFinal, Saving, Live, CtlType, SidInv,
       Serving, Absent
  <1>16. ASSUME NEW q \in Workers, RefreshOwnSession(q) PROVE QuietInv'
    BY <1>16, <1>0, RefreshFacts DEF UsedInv, QuietInv, QuietRevocationIsFinal,
       Saving, Live, SetType, Others, Answered
  <1>17. ASSUME NEW q \in Workers, SaveOwnSession(q) PROVE QuietInv'
    BY <1>17, <1>0, SaveOwnSessionFacts DEF UsedInv, QuietInv,
       QuietRevocationIsFinal, Saving, Live, SetType, Others, Answered,
       Written, Saved, Handed
  <1>18. ASSUME Tick PROVE QuietInv'
    BY <1>18, <1>0 DEF Tick, Less, Age, Live, Saving, UsedInv, QuietInv,
       QuietRevocationIsFinal, CtlType, SidInv, Serving, Absent
  <1>19. CASE UNCHANGED vars
    BY <1>19, <1>0 DEF vars, UsedInv, QuietInv, QuietRevocationIsFinal, Saving,
       Live, CtlType, SidInv, Serving
  <1>20. ASSUME NEW q \in Workers, PasskeySession(q) PROVE QuietInv'
    BY <1>20, <1>0, PasskeySessionFacts DEF UsedInv, QuietInv,
       QuietRevocationIsFinal, Saving, Live, SetType, Others, Answered, ghosts
  <1>21. ASSUME NEW q \in Workers, PasskeySave(q) PROVE QuietInv'
    BY <1>21, <1>0, PasskeySaveFacts DEF UsedInv, QuietInv,
       QuietRevocationIsFinal, Saving, Live, SetType, Others, Answered,
       Written, Saved
  <1> QED
    BY <1>1, <1>2, <1>3, <1>4, <1>5, <1>6, <1>7, <1>8, <1>9, <1>10, <1>11,
       <1>12, <1>13, <1>14, <1>15, <1>16, <1>17, <1>18, <1>19, <1>20, <1>21,
       RevokingEnds
       DEF Next, TypeInv

(* ... AuthInv, ...                                                        *)
LEMMA AuthStep ==
  ASSUME TypeInv, [Next]_vars, UsedInv, AuthInv
  PROVE  AuthInv'
  <1>0. DataType /\ NumType /\ CtlType /\ SetType
    BY TypeParts
  <1>1. ASSUME NEW q \in Workers, NEW s \in Sids, RequireLogin(q, s)
        PROVE  AuthInv'
    BY <1>1, <1>0 DEF RequireLogin, Goto, Live, Outdated, UsedInv, AuthInv,
       Saving, CtlType, SidInv, Serving, ghosts, DataType
  <1>2. ASSUME NEW q \in Workers, IsLoggedIn(q) PROVE AuthInv'
    BY <1>2, <1>0, IsLoggedInFacts DEF UsedInv, AuthInv, Saving, Live, CtlType,
       SidInv, Serving, Others, Written, Saved
  <1>3. ASSUME NEW q \in Workers, Page(q) PROVE AuthInv'
    BY <1>3, <1>0 DEF Page, Done, Goto, UsedInv, AuthInv, Saving, Live,
       CtlType, SidInv, Serving, Absent, ghosts, DataType
  <1>4. ASSUME NEW q \in Workers, NEW s \in Sids, Logout(q, s) PROVE AuthInv'
    BY <1>4, <1>0 DEF Logout, Goto, Live, UsedInv, AuthInv, Saving, CtlType,
       SidInv, Serving, ghosts, DataType
  <1>5. ASSUME NEW q \in Workers, DropSessionFromIndex(q) PROVE AuthInv'
    BY <1>5, <1>0 DEF DropSessionFromIndex, Goto, UsedInv, AuthInv, Saving,
       Live, CtlType, SidInv, Serving, DataType
  <1>6. ASSUME NEW q \in Workers, Destroy(q) PROVE AuthInv'
    BY <1>6, <1>0 DEF Destroy, Done, Goto, UsedInv, AuthInv, Saving, Live,
       CtlType, SidInv, Serving, Absent, DataType
  <1>7. ASSUME NEW q \in Workers, NEW dead, Ended(q, dead) PROVE AuthInv'
    BY <1>7, <1>0 DEF Ended, Done, Goto, UsedInv, AuthInv, Saving, Live,
       CtlType, SidInv, Serving, Absent, DataType
  <1>8. ASSUME NEW q \in Workers, RemoteLogin(q) PROVE AuthInv'
    BY <1>8, <1>0 DEF RemoteLogin, Goto, UsedInv, AuthInv, Saving, Live,
       CtlType, SidInv, Serving, ghosts, DataType
  <1>9. ASSUME NEW q \in Workers, NEW s \in Sids, RemoteLoginExpired(q, s)
        PROVE  AuthInv'
    BY <1>9, <1>0 DEF RemoteLoginExpired, UsedInv, AuthInv, Saving, Live,
       CtlType, SidInv, Serving, ghosts, DataType
  <1>10. ASSUME NEW q \in Workers, NEW s \in Sids, LoginSave(q, s)
         PROVE  AuthInv'
    BY <1>10, <1>0, LoginSaveFacts DEF UsedInv, AuthInv, Saving, Live, CtlType,
       SidInv, Serving, Others, Answered, Absent, Handed
  <1>11. ASSUME NEW q \in Workers, RecordUserSession(q) PROVE AuthInv'
    BY <1>11, <1>0 DEF RecordUserSession, Done, Goto, UsedInv, AuthInv, Saving,
       Live, CtlType, SidInv, Serving, Absent, DataType
  <1>12. ASSUME NEW q \in Workers, ChangePassword(q) PROVE AuthInv'
    BY <1>12, <1>0 DEF ChangePassword, Goto, UsedInv, AuthInv, Saving, Live,
       CtlType, SidInv, Serving, ghosts, DataType
  <1>13. ASSUME NEW q \in Workers, PasswordReset(q) PROVE AuthInv'
    BY <1>13, <1>0 DEF PasswordReset, Goto, UsedInv, AuthInv, Saving, Live,
       CtlType, SidInv, Serving, ghosts, DataType
  <1>14. ASSUME NEW q \in Workers, NEW s \in Sids, PasswordExpired(q, s)
         PROVE  AuthInv'
    BY <1>14, <1>0 DEF PasswordExpired, Goto, UsedInv, AuthInv, Saving, Live,
       CtlType, SidInv, Serving, ghosts, DataType
  <1>15. ASSUME NEW q \in Workers, InvalidateUserSessions(q) PROVE AuthInv'
    BY <1>15, <1>0 DEF InvalidateUserSessions, Goto, Done, markerTTL, UsedInv,
       AuthInv, Saving, Live, CtlType, SidInv, Serving, Absent, DataType
  <1>16. ASSUME NEW q \in Workers, RefreshOwnSession(q) PROVE AuthInv'
    BY <1>16, <1>0, RefreshFacts DEF UsedInv, AuthInv, Saving, Live, CtlType,
       SidInv, Serving, Others, Answered
  <1>17. ASSUME NEW q \in Workers, SaveOwnSession(q) PROVE AuthInv'
    BY <1>17, <1>0, SaveOwnSessionFacts DEF UsedInv, AuthInv, Saving, Live,
       CtlType, SidInv, Serving, Others, Answered, Written, Saved, Handed
  <1>18. ASSUME Tick PROVE AuthInv'
    BY <1>18, <1>0 DEF Tick, Less, Age, Live, Saving, UsedInv, AuthInv,
       CtlType, SidInv, Serving, Absent, DataType
  <1>19. CASE UNCHANGED vars
    BY <1>19, <1>0 DEF vars, UsedInv, AuthInv, Saving, Live, CtlType, SidInv,
       Serving, DataType
  <1>20. ASSUME NEW q \in Workers, PasskeySession(q) PROVE AuthInv'
    BY <1>20, <1>0, PasskeySessionFacts DEF AuthInv, Saving, Live, Others,
       Answered
  <1>21. ASSUME NEW q \in Workers, PasskeySave(q) PROVE AuthInv'
    BY <1>21, <1>0, PasskeySaveFacts DEF AuthInv, Saving, Live, Others,
       Answered, Written, Saved, CtlType, SidInv, Serving
  <1> QED
    BY <1>1, <1>2, <1>3, <1>4, <1>5, <1>6, <1>7, <1>8, <1>9, <1>10, <1>11,
       <1>12, <1>13, <1>14, <1>15, <1>16, <1>17, <1>18, <1>19, <1>20, <1>21,
       RevokingEnds
       DEF Next, TypeInv

(* ... IndexComplete, ...                                                  *)
LEMMA IndexStep ==
  ASSUME TypeInv, [Next]_vars, UsedInv, AuthInv, IndexComplete
  PROVE  IndexComplete'
  <1>0. DataType /\ NumType /\ CtlType /\ SetType
    BY TypeParts
  <1>1. ASSUME NEW q \in Workers, NEW s \in Sids, RequireLogin(q, s)
        PROVE  IndexComplete'
    BY <1>1, <1>0 DEF RequireLogin, Goto, Live, Outdated, UsedInv, AuthInv,
       IndexComplete, Indexed, Ids, Saving, CtlType, SidInv, Serving, ghosts,
       DataType
  <1>2. ASSUME NEW q \in Workers, IsLoggedIn(q) PROVE IndexComplete'
    BY <1>2, <1>0, IsLoggedInFacts, SameIndex DEF UsedInv, AuthInv,
       IndexComplete, Saving, Live, Others, Written, Saved
  <1>3. ASSUME NEW q \in Workers, Page(q) PROVE IndexComplete'
    BY <1>3, <1>0 DEF Page, Done, Goto, UsedInv, AuthInv, IndexComplete,
       Indexed, Ids, Saving, Live, CtlType, SidInv, Serving, Absent, ghosts,
       DataType
  <1>4. ASSUME NEW q \in Workers, NEW s \in Sids, Logout(q, s)
        PROVE  IndexComplete'
    BY <1>4, <1>0 DEF Logout, Goto, Live, UsedInv, AuthInv, IndexComplete,
       Indexed, Ids, Saving, CtlType, SidInv, Serving, ghosts, DataType
  <1>5. ASSUME NEW q \in Workers, DropSessionFromIndex(q) PROVE IndexComplete'
    <2>1. /\ UNCHANGED <<store, sid>> /\ pc'[q] = "destroy"
          /\ \A p \in Workers \ {q} : pc'[p] = pc[p]
      BY <1>5, <1>0 DEF DropSessionFromIndex, Goto, CtlType
    <2>2. pc[q] = "logout"
      BY <1>5 DEF DropSessionFromIndex
    <2>4. ASSUME NEW s \in Sids, s # sid[q], s \in Indexed \cup orphaned
          PROVE  s \in Indexed' \cup orphaned'
      BY <1>5, <2>4, DropEdit
    <2> QED
      BY <2>1, <2>2, <2>4 DEF IndexComplete
  <1>6. ASSUME NEW q \in Workers, Destroy(q) PROVE IndexComplete'
    BY <1>6, <1>0 DEF Destroy, Done, Goto, UsedInv, AuthInv, IndexComplete,
       Indexed, Ids, Saving, Live, CtlType, SidInv, Serving, Absent, DataType
  <1>7. ASSUME NEW q \in Workers, NEW dead, Ended(q, dead) PROVE IndexComplete'
    <2>1. /\ pc[q] \notin {"record", "destroy"} /\ orphaned \subseteq orphaned'
          /\ \A p \in Workers \ {q} : pc'[p] = pc[p] /\ sid'[p] = sid[p]
      BY <1>7, <1>0 DEF Ended, Done, Goto, CtlType
    <2>2. \A s \in Sids : store'[s].auth = "full" =>
            /\ store[s].auth = "full"
            /\ s \in Indexed => s \in Indexed' \cup orphaned'
      BY <1>7 DEF Ended, Live, Absent
    <2> QED
      BY <2>1, <2>2 DEF IndexComplete
  <1>8. ASSUME NEW q \in Workers, RemoteLogin(q) PROVE IndexComplete'
    BY <1>8, <1>0 DEF RemoteLogin, Goto, UsedInv, AuthInv, IndexComplete,
       Indexed, Ids, Saving, Live, CtlType, SidInv, Serving, ghosts, DataType
  <1>9. ASSUME NEW q \in Workers, NEW s \in Sids, RemoteLoginExpired(q, s)
        PROVE  IndexComplete'
    BY <1>9, <1>0 DEF RemoteLoginExpired, UsedInv, AuthInv, IndexComplete,
       Indexed, Ids, Saving, Live, CtlType, SidInv, Serving, ghosts, DataType
  <1>10. ASSUME NEW q \in Workers, NEW s \in Sids, LoginSave(q, s)
         PROVE  IndexComplete'
    BY <1>10, <1>0, LoginSaveFacts, SameIndex DEF UsedInv, AuthInv,
       IndexComplete, Saving, Live, Others, Answered, Absent, Handed
  <1>11. ASSUME NEW q \in Workers, RecordUserSession(q) PROVE IndexComplete'
    <2>1. Answered(q) /\ UNCHANGED store /\ pc[q] = "record"
      BY <1>11, DoneAnswers DEF RecordUserSession
    <2>2. ASSUME NEW s \in Sids, s = sid[q] \/ s \in Indexed \cup orphaned
          PROVE  s \in Indexed' \cup orphaned'
      BY <1>11, <2>2, RecordEdit
    <2> QED
      BY <2>1, <2>2 DEF IndexComplete, Answered, Others
  <1>12. ASSUME NEW q \in Workers, ChangePassword(q) PROVE IndexComplete'
    BY <1>12, <1>0 DEF ChangePassword, Goto, UsedInv, AuthInv, IndexComplete,
       Indexed, Ids, Saving, Live, CtlType, SidInv, Serving, ghosts, DataType
  <1>13. ASSUME NEW q \in Workers, PasswordReset(q) PROVE IndexComplete'
    BY <1>13, <1>0 DEF PasswordReset, Goto, UsedInv, AuthInv, IndexComplete,
       Indexed, Ids, Saving, Live, CtlType, SidInv, Serving, ghosts, DataType
  <1>14. ASSUME NEW q \in Workers, NEW s \in Sids, PasswordExpired(q, s)
         PROVE  IndexComplete'
    BY <1>14, <1>0 DEF PasswordExpired, Goto, UsedInv, AuthInv, IndexComplete,
       Indexed, Ids, Saving, Live, CtlType, SidInv, Serving, ghosts, DataType
  <1>15. ASSUME NEW q \in Workers, InvalidateUserSessions(q)
         PROVE  IndexComplete'
    BY <1>15, <1>0 DEF InvalidateUserSessions, Goto, Done, markerTTL, UsedInv,
       AuthInv, IndexComplete, Indexed, Ids, Saving, Live, CtlType, SidInv, Serving,
       Absent, DataType
  <1>16. ASSUME NEW q \in Workers, RefreshOwnSession(q) PROVE IndexComplete'
    BY <1>16, <1>0, RefreshFacts, SameIndex DEF UsedInv, AuthInv,
       IndexComplete, Saving, Live, Others, Answered
  <1>17. ASSUME NEW q \in Workers, SaveOwnSession(q) PROVE IndexComplete'
    BY <1>17, <1>0, SaveOwnSessionFacts, SameIndex
       DEF UsedInv, AuthInv, IndexComplete, Saving, Live, Others, Answered,
       Written, Saved, Handed
  <1>18. ASSUME Tick PROVE IndexComplete'
    <2>1. \A s \in Sids : store'[s].auth = "full" => store[s].auth = "full" /\ Live(s)'
      BY <1>18, <1>0, AgeFacts DEF Tick, DataType, Live, Absent
    <2>2. IF indexTTL' = 0 THEN \A s \in Indexed : Live(s)' => s \in orphaned'
                           ELSE index' = index
      BY <1>18 DEF Tick
    <2>3. \A s \in orphaned : Live(s)' => s \in orphaned'
      BY <1>18 DEF Tick
    <2>4. \A s \in Indexed : Live(s)' => s \in Indexed' \cup orphaned'
      BY <2>2, SameIndex
    <2>5. pc' = pc /\ sid' = sid
      BY <1>18 DEF Tick
    <2> QED
      BY <2>1, <2>3, <2>4, <2>5 DEF IndexComplete
  <1>19. CASE UNCHANGED vars
    BY <1>19, <1>0 DEF vars, UsedInv, AuthInv, IndexComplete, Indexed, Ids, Saving,
       Live, CtlType, SidInv, Serving, DataType
  <1>20. ASSUME NEW q \in Workers, PasskeySession(q) PROVE IndexComplete'
    BY <1>20, <1>0, PasskeySessionFacts, SameIndex DEF IndexComplete, Others,
       Answered, ghosts
  <1>21. ASSUME NEW q \in Workers, PasskeySave(q) PROVE IndexComplete'
    BY <1>21, <1>0, PasskeySaveFacts, SameIndex DEF AuthInv, IndexComplete,
       Saving, Live, Others, Answered, Written, Saved
  <1> QED
    BY <1>1, <1>2, <1>3, <1>4, <1>5, <1>6, <1>7, <1>8, <1>9, <1>10, <1>11,
       <1>12, <1>13, <1>14, <1>15, <1>16, <1>17, <1>18, <1>19, <1>20, <1>21,
       RevokingEnds
       DEF Next, TypeInv

(* ... ClockInv, ...                                                       *)
LEMMA ClockStep ==
  ASSUME TypeInv, [Next]_vars, UsedInv, ClockInv
  PROVE  ClockInv'
  <1>0. DataType /\ NumType /\ CtlType /\ SetType
    BY TypeParts
  <1>1. ASSUME NEW q \in Workers, NEW s \in Sids, RequireLogin(q, s)
        PROVE  ClockInv'
    BY <1>1, <1>0, SessionConstants DEF RequireLogin, Goto, Live, Outdated,
       ClockInv, Saving, CtlType, SidInv, Serving, ghosts, DataType, NumType,
       Data
  <1>2. ASSUME NEW q \in Workers, IsLoggedIn(q) PROVE ClockInv'
    BY <1>2, <1>0, IsLoggedInFacts, NumberFacts DEF ClockInv, Saving, Live,
       Others, Written, Saved
  <1>3. ASSUME NEW q \in Workers, Page(q) PROVE ClockInv'
    BY <1>3, <1>0, SessionConstants DEF Page, Done, Goto, ClockInv, Saving,
       Live, CtlType, SidInv, Serving, Absent, ghosts, DataType, NumType, Data
  <1>4. ASSUME NEW q \in Workers, NEW s \in Sids, Logout(q, s) PROVE ClockInv'
    BY <1>4, <1>0, SessionConstants DEF Logout, Goto, Live, ClockInv, Saving,
       CtlType, SidInv, Serving, ghosts, DataType, NumType, Data
  <1>5. ASSUME NEW q \in Workers, DropSessionFromIndex(q) PROVE ClockInv'
    BY <1>5, <1>0, SessionConstants DEF DropSessionFromIndex, Goto, ClockInv,
       Saving, Live, CtlType, SidInv, Serving, DataType, NumType, Data
  <1>6. ASSUME NEW q \in Workers, Destroy(q) PROVE ClockInv'
    BY <1>6, <1>0, SessionConstants DEF Destroy, Done, Goto, ClockInv, Saving,
       Live, CtlType, SidInv, Serving, Absent, DataType, NumType, Data
  <1>7. ASSUME NEW q \in Workers, NEW dead, Ended(q, dead) PROVE ClockInv'
    <2>1. /\ UNCHANGED <<now, pw, marker, changedAt, signedOut>>
          /\ \E step \in {"idle", "security"} : pc' = [pc EXCEPT ![q] = step]
          /\ copy' \in {copy, [copy EXCEPT ![q] = Absent]}
          /\ \A s \in Sids : store'[s] = Absent \/ store'[s] = store[s]
      BY <1>7 DEF Ended, Done, Goto
    <2>2. \A p \in Workers : Saving(p)' => Saving(p) /\ copy'[p] = copy[p]
      BY <2>1, <1>0 DEF Saving, CtlType, DataType
    <2> QED
      BY <2>1, <2>2, <1>0 DEF ClockInv, Live, Absent, NumType
  <1>8. ASSUME NEW q \in Workers, RemoteLogin(q) PROVE ClockInv'
    BY <1>8, <1>0, SessionConstants DEF RemoteLogin, Goto, ClockInv, Saving,
       Live, CtlType, SidInv, Serving, ghosts, DataType, NumType, Data
  <1>9. ASSUME NEW q \in Workers, NEW s \in Sids, RemoteLoginExpired(q, s)
        PROVE  ClockInv'
    BY <1>9, <1>0, SessionConstants DEF RemoteLoginExpired, ClockInv, Saving,
       Live, CtlType, SidInv, Serving, ghosts, DataType, NumType, Data
  <1>10. ASSUME NEW q \in Workers, NEW s \in Sids, LoginSave(q, s)
         PROVE  ClockInv'
    BY <1>10, <1>0, LoginSaveFacts, NumberFacts DEF ClockInv, Saving, Live,
       Others, Answered, Absent, Handed
  <1>11. ASSUME NEW q \in Workers, RecordUserSession(q) PROVE ClockInv'
    BY <1>11, <1>0, SessionConstants DEF RecordUserSession, Done, Goto,
       ClockInv, Saving, Live, CtlType, SidInv, Serving, Absent, DataType,
       NumType, Data
  <1>12. ASSUME NEW q \in Workers, ChangePassword(q) PROVE ClockInv'
    BY <1>12, <1>0, SessionConstants DEF ChangePassword, Goto, ClockInv,
       Saving, Live, CtlType, SidInv, Serving, ghosts, DataType, NumType, Data
  <1>13. ASSUME NEW q \in Workers, PasswordReset(q) PROVE ClockInv'
    BY <1>13, <1>0, SessionConstants DEF PasswordReset, Goto, ClockInv, Saving,
       Live, CtlType, SidInv, Serving, ghosts, DataType, NumType, Data
  <1>14. ASSUME NEW q \in Workers, NEW s \in Sids, PasswordExpired(q, s)
         PROVE  ClockInv'
    BY <1>14, <1>0, SessionConstants DEF PasswordExpired, Goto, ClockInv,
       Saving, Live, CtlType, SidInv, Serving, ghosts, DataType, NumType, Data
  <1>15. ASSUME NEW q \in Workers, InvalidateUserSessions(q) PROVE ClockInv'
    BY <1>15, <1>0, SessionConstants DEF InvalidateUserSessions, Goto, Done,
       markerTTL, ClockInv, Saving, Live, CtlType, SidInv, Serving, Absent,
       DataType, NumType, Data
  <1>16. ASSUME NEW q \in Workers, RefreshOwnSession(q) PROVE ClockInv'
    BY <1>16, <1>0, RefreshFacts, NumberFacts DEF ClockInv, Saving, Live,
       Others, Answered
  <1>17. ASSUME NEW q \in Workers, SaveOwnSession(q) PROVE ClockInv'
    BY <1>17, <1>0, SaveOwnSessionFacts, NumberFacts
       DEF ClockInv, Saving, Live, Others, Answered, Written, Saved, Handed
  <1>18. ASSUME Tick PROVE ClockInv'
    <2>1. \A s \in Sids : store'[s] = Age(store[s]) /\ store[s] \in Data
      BY <1>18, NumberFacts DEF Tick
    <2>2. /\ now' = now + 1 /\ UNCHANGED <<setting, pw, pc, copy, changedAt, signedOut>>
          /\ marker.ttl > 1 => marker'.ttl = marker.ttl - 1 /\ marker'.at = marker.at
          /\ marker.ttl <= 1 => marker'.ttl = 0
          /\ \A q \in Workers : Saving(q) => left[q] > 0 /\ left'[q] = left[q] - 1
      BY <1>18, <1>0, NumberFacts DEF Tick, NumType, NoMarker, Less
    <2>3. ASSUME NEW s \in Sids
          PROVE  store'[s].lt <= now + 1 /\ (Live(s)' => store'[s].ttl > 0)
      BY <2>1, AgeFacts, NumberFacts DEF ClockInv, Live, Absent
    <2> QED
      BY <2>2, <2>3, NumberFacts DEF ClockInv, Saving
  <1>19. CASE UNCHANGED vars
    BY <1>19, <1>0, SessionConstants DEF vars, ClockInv, Saving, Live, CtlType,
       SidInv, Serving, DataType, NumType, Data
  <1>20. ASSUME NEW q \in Workers, PasskeySession(q) PROVE ClockInv'
    BY <1>20, <1>0, PasskeySessionFacts, NumberFacts DEF ClockInv, Saving,
       Live, Others, Answered, ghosts
  <1>21. ASSUME NEW q \in Workers, PasskeySave(q) PROVE ClockInv'
    BY <1>21, <1>0, PasskeySaveFacts, NumberFacts DEF ClockInv, Saving, Live,
       Others, Answered, Written, Saved
  <1> QED
    BY <1>1, <1>2, <1>3, <1>4, <1>5, <1>6, <1>7, <1>8, <1>9, <1>10, <1>11,
       <1>12, <1>13, <1>14, <1>15, <1>16, <1>17, <1>18, <1>19, <1>20, <1>21,
       RevokingEnds
       DEF Next, TypeInv

(* A step of a request that ends sessions at most, and after which it is   *)
(* not going to save one.                                                  *)
Plain(q) ==
    /\ UNCHANGED <<setting, now, marker, changedAt, raced>>
    /\ \A s \in Sids : store'[s] \in {store[s], Absent}
    /\ Others(q) /\ ~Saving(q)' /\ pc'[q] # "enrol"

(* Most steps are.                                                         *)
LEMMA PlainSteps ==
  ASSUME TypeInv, NEW q \in Workers,
         \/ Page(q) \/ DropSessionFromIndex(q) \/ Destroy(q) \/ RemoteLogin(q)
         \/ RecordUserSession(q) \/ ChangePassword(q) \/ PasswordReset(q)
         \/ \E s \in Sids : Logout(q, s) \/ PasswordExpired(q, s)
         \/ UserSessions(q) \/ SessionRevokeOthers(q)
         \/ \E s \in Sids : SessionRevoke(q, s)
  PROVE  Plain(q)
  <1>0. DataType /\ NumType /\ CtlType
    BY TypeParts
  <1>1. CASE Page(q) \/ RecordUserSession(q)
    BY <1>1, DoneAnswers DEF Page, RecordUserSession, Plain, Answered, Saving,
       ghosts
  <1>2. CASE Destroy(q)
    BY <1>0, <1>2, DoneAnswers DEF Destroy, Plain, Answered, Saving, DataType
  <1>3. CASE DropSessionFromIndex(q)
    BY <1>0, <1>3 DEF DropSessionFromIndex, Goto, Plain, Others, Saving,
       CtlType
  <1>4. CASE RemoteLogin(q) \/ ChangePassword(q) \/ PasswordReset(q)
    BY <1>0, <1>4 DEF RemoteLogin, ChangePassword, PasswordReset, Goto, Plain,
       Others, Saving, CtlType, DataType, ghosts
  <1>5. ASSUME NEW s \in Sids, Logout(q, s) \/ PasswordExpired(q, s)
        PROVE  Plain(q)
    BY <1>0, <1>5 DEF Logout, PasswordExpired, Goto, Plain, Others, Saving,
       CtlType, DataType, ghosts
  <1>6. ASSUME NEW dead, Ended(q, dead) PROVE Plain(q)
    <2>1. CASE Done(q)
      BY <1>6, <2>1, DoneAnswers DEF Ended, Plain, Answered, Saving
    <2>2. CASE Goto(q, "security") /\ UNCHANGED <<sid, copy, left>>
      BY <1>0, <1>6, <2>2 DEF Ended, Goto, Plain, Others, Saving, CtlType
    <2> QED
      BY <1>6, <2>1, <2>2 DEF Ended
  <1> QED
    BY <1>1, <1>2, <1>3, <1>4, <1>5, <1>6, RevokingEnds DEF TypeInv

(* A step that starts a session; no request but its own has its id.        *)
Started(q, s) ==
    /\ UNCHANGED <<setting, now, marker, changedAt, raced>>
    /\ \A t \in Sids \ {s} : store'[t] \in {store[t], Absent}
    /\ store'[s].auth = "full" => store'[s].lt = now \/ store'[s] = store[s]
    /\ \A p \in Workers : sid[p] # s
    /\ Others(q) /\ ~Saving(q)' /\ pc'[q] # "enrol"

(* Logins, complete or with an expired password.                           *)
LEMMA StartingSteps ==
  ASSUME TypeInv, UsedInv, NEW q \in Workers, NEW s \in Sids,
         LoginSave(q, s) \/ RemoteLoginExpired(q, s)
  PROVE  Started(q, s)
  <1>0. DataType /\ NumType /\ CtlType
    BY TypeParts
  <1>1. s \notin used /\ \A p \in Workers : sid[p] # s
    BY <1>0 DEF LoginSave, RemoteLoginExpired, UsedInv
  <1>2. CASE LoginSave(q, s)
    BY <1>1, <1>2, LoginSaveFacts DEF Started, Answered, Saving
  <1>3. CASE RemoteLoginExpired(q, s)
    BY <1>0, <1>1, <1>3 DEF RemoteLoginExpired, Started, Others, Saving,
       DataType, ghosts
  <1> QED
    BY <1>2, <1>3

(* ... LtInv: a change that moves the login time under another request is  *)
(* a race, ...                                                             *)
LEMMA LtStep ==
  ASSUME TypeInv, [Next]_vars, UsedInv, ClockInv, LtInv
  PROVE  LtInv'
  <1>0. DataType /\ NumType /\ CtlType /\ SetType
    BY TypeParts
  <1>1. ASSUME NEW q \in Workers, NEW s \in Sids, RequireLogin(q, s)
        PROVE  LtInv'
    <2>1. UNCHANGED <<store, raced>> /\ sid'[q] = s /\ Live(s)
      BY <1>0, <1>1 DEF RequireLogin, CtlType, ghosts
    <2>2. /\ \A p \in Workers \ {q} : pc'[p] = pc[p] /\ sid'[p] = sid[p] /\ copy'[p] = copy[p]
          /\ pc'[q] = "logout" \/ (pc'[q] = "check" /\ copy'[q] = store[s])
      BY <1>0, <1>1 DEF RequireLogin, Goto, CtlType, DataType
    <2> QED
      BY <2>1, <2>2, NumberFacts DEF LtInv, Saving, Live
  <1>2. ASSUME NEW q \in Workers, IsLoggedIn(q) PROVE LtInv'
    <2>1. /\ sid[q] \in Sids /\ pc[q] = "check" /\ ~Saving(q)' /\ Others(q)
          /\ sid' = sid /\ raced' = raced /\ (Saved(q) \/ store' = store)
      BY <1>2, IsLoggedInFacts DEF Saving
    <2> QED
      BY <2>1, <1>0, NumberFacts DEF LtInv, Saving, Live, Others, Saved, Written,
         CtlType, SidInv, Serving
  <1>3. ASSUME NEW q \in Workers, PasskeySession(q) PROVE LtInv'
    <2>1. CASE Answered(q)
      BY <1>3, <2>1, PasskeySessionFacts DEF LtInv, Saving, Live, Answered,
         Others, ghosts
    <2>2. CASE pc'[q] = "passkey" /\ copy'[q] = store[sid[q]] /\ Live(sid[q])
               /\ Others(q) /\ sid' = sid
      <3>1. UNCHANGED <<store, raced>> /\ sid[q] \in Sids
        BY <1>3, PasskeySessionFacts DEF ghosts
      <3> QED
        BY <2>2, <3>1, NumberFacts DEF LtInv, Saving, Live, Others
    <2> QED
      BY <1>3, <2>1, <2>2, PasskeySessionFacts
  <1>4. ASSUME NEW q \in Workers, PasskeySave(q) PROVE LtInv'
    <2>1. /\ sid[q] \in Sids /\ pc[q] = "passkey" /\ ~Saving(q)' /\ Others(q)
          /\ raced' = raced /\ (Saved(q) \/ store' = store)
      BY <1>4, PasskeySaveFacts DEF Saving, Answered
    <2> QED
      BY <2>1, <1>0, NumberFacts DEF LtInv, Saving, Live, Others, Saved, Written,
         CtlType, SidInv, Serving
  <1>5. ASSUME NEW q \in Workers, RefreshOwnSession(q) PROVE LtInv'
    <2>1. CASE Answered(q)
      BY <1>5, <2>1, RefreshFacts DEF LtInv, Saving, Live, Answered, Others
    <2>2. CASE pc'[q] = "keep" /\ Others(q) /\ sid' = sid /\ copy'[q].lt = now
      <3>1. UNCHANGED <<store, raced>> /\ sid[q] \in Sids
        BY <1>5, RefreshFacts
      <3> QED
        BY <2>2, <3>1, NumberFacts DEF LtInv, Saving, Live, Others, ClockInv
    <2> QED
      BY <1>5, <2>1, <2>2, RefreshFacts
  <1>6. ASSUME NEW q \in Workers, SaveOwnSession(q) PROVE LtInv'
    <2>1. /\ sid[q] \in Sids /\ ~Saving(q)' /\ Others(q) /\ raced \subseteq raced'
          /\ \/ /\ Saved(q)
                /\ \A p \in Workers \ {q} : Saving(p) /\ sid[p] = sid[q] => sid[q] \in raced'
             \/ store' = store
      BY <1>6, SaveOwnSessionFacts DEF Saving, Answered
    <2> QED
      BY <2>1, <1>0, NumberFacts DEF LtInv, Saving, Live, Others, Saved, Written,
         CtlType, SidInv, Serving
  <1>7. ASSUME NEW q \in Workers, InvalidateUserSessions(q) PROVE LtInv'
    <2>1. /\ ~Saving(q)' /\ UNCHANGED <<store, raced>>
          /\ \A p \in Workers \ {q} : pc'[p] = pc[p] /\ sid'[p] = sid[p] /\ copy'[p] = copy[p]
      BY <1>0, <1>7 DEF InvalidateUserSessions, Done, Goto, Saving, CtlType, DataType
    <2> QED
      BY <2>1 DEF LtInv, Saving, Live
  <1>8. ASSUME NEW q \in Workers, Plain(q) PROVE LtInv'
    BY <1>0, <1>8 DEF Plain, LtInv, Saving, Live, Others, Absent, CtlType, SidInv,
       Serving
  <1>9. ASSUME NEW q \in Workers, NEW s \in Sids, Started(q, s) PROVE LtInv'
    BY <1>0, <1>9 DEF Started, LtInv, Saving, Live, Others, Absent, CtlType,
       SidInv, Serving
  <1>10. ASSUME Tick PROVE LtInv'
    <2>1. UNCHANGED <<pc, sid, copy, raced>> /\ \A s \in Sids : store'[s] = Age(store[s])
      BY <1>10 DEF Tick
    <2>2. \A s \in Sids : Live(s)' => Live(s) /\ store'[s].lt = store[s].lt
      BY <2>1, AgeFacts, NumberFacts DEF Live, Absent
    <2> QED
      BY <1>0, <2>1, <2>2 DEF LtInv, Saving, CtlType, SidInv, Serving
  <1>11. CASE UNCHANGED vars
    BY <1>11 DEF vars, LtInv, Saving, Live
  <1> QED
    BY <1>1, <1>2, <1>3, <1>4, <1>5, <1>6, <1>7, <1>8, <1>9, <1>10, <1>11,
       PlainSteps, StartingSteps DEF Next

(* ... MarkerInv: a change starts the marker with the idle timeout and the *)
(* longest time in flight, ...                                             *)
LEMMA MarkerStep ==
  ASSUME TypeInv, [Next]_vars, UsedInv, ClockInv, LtInv, MarkerInv
  PROVE  MarkerInv'
  <1>0. DataType /\ NumType /\ CtlType /\ SetType
    BY TypeParts
  <1> SUFFICES ASSUME ~storageFails, ~storageFails' PROVE MarkerInv'
    <2>1. setting' = setting
      BY DEF Next, vars, RequireLogin, IsLoggedIn, PasskeySession, PasskeySave,
         Page, Logout, DropSessionFromIndex, Destroy, UserSessions, SessionRevoke,
         SessionRevokeOthers, RemoteLogin, RemoteLoginExpired, LoginSave,
         RecordUserSession, ChangePassword, PasswordReset, PasswordExpired,
         InvalidateUserSessions, RefreshOwnSession, SaveOwnSession, Tick
    <2> QED
      BY <2>1 DEF MarkerInv, storageFails
  <1>1. ASSUME NEW q \in Workers, NEW s \in Sids, RequireLogin(q, s)
        PROVE  MarkerInv'
    <2>1. /\ UNCHANGED <<store, raced, marker, changedAt>> /\ sid'[q] = s /\ Live(s)
          /\ \A p \in Workers \ {q} : /\ pc'[p] = pc[p] /\ sid'[p] = sid[p]
                                       /\ copy'[p] = copy[p] /\ left'[p] = left[p]
          /\ \/ pc'[q] = "logout"
             \/ /\ pc'[q] = "check" /\ copy'[q] = store[s]
                /\ store[s].auth = "full" /\ ~Outdated(store[s], marker)
      BY <1>0, <1>1 DEF RequireLogin, Goto, CtlType, DataType, NumType, ghosts
    <2>2. CASE pc'[q] = "logout"
      BY <2>1, <2>2 DEF MarkerInv, EnrolInv, Saving, Live
    <2>3. CASE pc'[q] = "check"
      <3>1. s \notin raced => store[s].lt >= changedAt
        BY <2>1, <2>3, NumberFacts DEF Outdated, MarkerInv, ClockInv, Live
      <3> QED
        BY <2>1, <2>3, <3>1, NumberFacts DEF MarkerInv, EnrolInv, Saving, Live
    <2> QED
      BY <2>1, <2>2, <2>3
  <1>2. ASSUME NEW q \in Workers, IsLoggedIn(q) PROVE MarkerInv'
    <2>1. /\ sid[q] \in Sids /\ pc[q] = "check" /\ ~Saving(q)' /\ Others(q)
          /\ sid' = sid /\ UNCHANGED <<raced, marker, changedAt>>
          /\ Saved(q) \/ store' = store
          /\ pc'[q] = "enrol" => Saved(q) /\ left'[q] = left[q]
      BY <1>2, IsLoggedInFacts DEF Saving
    <2>2. CASE pc'[q] # "enrol"
      BY <2>1, <2>2, <1>0, NumberFacts DEF MarkerInv, EnrolInv, Saving, Live,
         Others, Saved, Written, CtlType, SidInv, Serving
    <2>3. CASE pc'[q] = "enrol"
      <3>1. sid[q] \notin raced =>
              \/ idleTimeout + left[q] <= marker.ttl
              \/ /\ copy[q].lt >= changedAt
                 /\ \A p \in Workers : Saving(p) /\ sid[p] = sid[q] => copy[p].lt >= changedAt
        BY <2>1, NumberFacts DEF MarkerInv, LtInv, Saving
      <3> QED
        BY <2>1, <2>3, <3>1, <1>0, NumberFacts DEF MarkerInv, EnrolInv, Saving,
           Live, Others, Saved, Written, CtlType, SidInv, Serving
    <2> QED
      BY <2>2, <2>3
  <1>3. ASSUME NEW q \in Workers, PasskeySession(q) PROVE MarkerInv'
    <2>1. UNCHANGED <<store, raced, marker, changedAt>> /\ sid[q] \in Sids /\ pc[q] = "enrol"
      BY <1>3, PasskeySessionFacts DEF ghosts
    <2>2. CASE Answered(q)
      BY <2>1, <2>2 DEF MarkerInv, EnrolInv, Saving, Live, Answered, Others
    <2>3. CASE pc'[q] = "passkey" /\ copy'[q] = store[sid[q]] /\ Live(sid[q])
               /\ Others(q) /\ sid' = sid /\ left' = left
      BY <2>1, <2>3, NumberFacts DEF MarkerInv, EnrolInv, Saving, Live, Others
    <2> QED
      BY <1>3, <2>2, <2>3, PasskeySessionFacts
  <1>4. ASSUME NEW q \in Workers, PasskeySave(q) PROVE MarkerInv'
    <2>1. /\ sid[q] \in Sids /\ pc[q] = "passkey" /\ Answered(q)
          /\ UNCHANGED <<raced, marker, changedAt>> /\ (Saved(q) \/ store' = store)
      BY <1>4, PasskeySaveFacts
    <2> QED
      BY <2>1, <1>0, NumberFacts DEF MarkerInv, EnrolInv, Saving, Live, Others,
         Answered, Saved, Written, CtlType, SidInv, Serving
  <1>5. ASSUME NEW q \in Workers, RefreshOwnSession(q) PROVE MarkerInv'
    BY <1>5, <1>0, RefreshFacts, NumberFacts DEF ClockInv, MarkerInv, EnrolInv,
       Saving, Live, Others, Answered
  <1>6. ASSUME NEW q \in Workers, SaveOwnSession(q) PROVE MarkerInv'
    <2>1. /\ sid[q] \in Sids /\ pc[q] = "keep" /\ Answered(q)
          /\ UNCHANGED <<marker, changedAt>> /\ (Saved(q) \/ store' = store)
          /\ raced \subseteq raced'
      BY <1>6, SaveOwnSessionFacts
    <2> QED
      BY <2>1, <1>0, NumberFacts DEF MarkerInv, EnrolInv, Saving, Live, Others,
         Answered, Saved, Written, CtlType, SidInv, Serving
  <1>7. ASSUME NEW q \in Workers, InvalidateUserSessions(q) PROVE MarkerInv'
    <2>1. /\ ~Saving(q)' /\ pc'[q] # "enrol" /\ UNCHANGED <<store, raced>>
          /\ \A p \in Workers \ {q} : /\ pc'[p] = pc[p] /\ sid'[p] = sid[p]
                                       /\ copy'[p] = copy[p] /\ left'[p] = left[p]
          /\ marker'.ttl = idleTimeout + MaxInFlight
      BY <1>0, <1>7 DEF InvalidateUserSessions, Done, Goto, Saving, CtlType,
         DataType, NumType, markerTTL
    <2> QED
      BY <2>1, NumberFacts DEF MarkerInv, EnrolInv, Saving, Live
  <1>8. ASSUME NEW q \in Workers, Plain(q) PROVE MarkerInv'
    BY <1>0, <1>8 DEF Plain, MarkerInv, EnrolInv, Saving, Live, Others, Absent,
       CtlType, SidInv, Serving
  <1>9. ASSUME NEW q \in Workers, NEW s \in Sids, Started(q, s) PROVE MarkerInv'
    BY <1>0, <1>9, NumberFacts DEF Started, MarkerInv, EnrolInv, ClockInv,
       Saving, Live, Others, Absent, CtlType, SidInv, Serving
  <1>10. ASSUME Tick PROVE MarkerInv'
    <2>1. \A s \in Sids : store'[s] = Age(store[s]) /\ store[s] \in Data
      BY <1>10, NumberFacts DEF Tick
    <2>2. /\ UNCHANGED <<pc, sid, copy, changedAt, raced>>
          /\ marker.ttl > 1 => marker'.ttl = marker.ttl - 1
          /\ marker.ttl <= 1 => marker'.ttl = 0
          /\ \A q \in Workers : Saving(q) \/ pc[q] = "enrol"
                                 => left[q] > 0 /\ left'[q] = left[q] - 1
      BY <1>10, <1>0, NumberFacts DEF Tick, NumType, NoMarker, Less
    <2>3. ASSUME NEW s \in Sids \ raced, store'[s].auth = "full",
                 store'[s].lt < changedAt
          PROVE  store'[s].ttl <= marker'.ttl
      BY <2>1, <2>2, <2>3, AgeFacts, NumberFacts DEF MarkerInv, Absent
    <2>4. ASSUME NEW q \in Workers, Saving(q) \/ pc[q] = "enrol",
                 idleTimeout + left[q] <= marker.ttl
          PROVE  idleTimeout + left'[q] <= marker'.ttl
      BY <2>2, <2>4, NumberFacts
    <2>5. \A s \in Sids : Live(s)' => Live(s) /\ store'[s].lt = store[s].lt
      BY <2>1, AgeFacts DEF Live, Absent
    <2> QED
      BY <1>0, <2>2, <2>3, <2>4, <2>5 DEF MarkerInv, EnrolInv, Saving, CtlType,
         SidInv, Serving
  <1>11. CASE UNCHANGED vars
    BY <1>11 DEF vars, MarkerInv, EnrolInv, Saving, Live
  <1> QED
    BY <1>1, <1>2, <1>3, <1>4, <1>5, <1>6, <1>7, <1>8, <1>9, <1>10, <1>11,
       PlainSteps, StartingSteps DEF Next

(* ... and PasswordInv.                                                    *)
LEMMA PasswordStep ==
  ASSUME TypeInv, [Next]_vars, UsedInv, ClockInv, PasswordInv
  PROVE  PasswordInv'
  <1>0. DataType /\ NumType /\ CtlType /\ SetType
    BY TypeParts
  <1>1. ASSUME NEW q \in Workers, NEW s \in Sids, RequireLogin(q, s)
        PROVE  PasswordInv'
    <2>1. /\ UNCHANGED <<store, changedAt, signedOut, overtaken>>
          /\ sid' = [sid EXCEPT ![q] = s]
      BY <1>1 DEF RequireLogin, ghosts
    <2>2. \/ /\ pc' = [pc EXCEPT ![q] = "check"] /\ store[s].auth = "full"
             /\ copy' = [copy EXCEPT ![q] = store[s]]
          \/ pc' = [pc EXCEPT ![q] = "logout"] /\ copy' = copy
      BY <1>1 DEF RequireLogin, Goto
    <2> QED
      BY <2>1, <2>2, <1>0 DEF PasswordInv, CtlType, DataType
  <1>2. ASSUME NEW q \in Workers, IsLoggedIn(q) PROVE PasswordInv'
    BY <1>2, <1>0, IsLoggedInFacts, NumberFacts, SessionConstants
       DEF ClockInv, PasswordInv, Saving, Live, Others, Written, Saved
  <1>3. ASSUME NEW q \in Workers, Page(q) PROVE PasswordInv'
    BY <1>3, <1>0, SessionConstants DEF Page, Done, Goto, ClockInv,
       PasswordInv, Saving, Live, CtlType, SidInv, Serving, Absent, ghosts,
       DataType, NumType, Data
  <1>4. ASSUME NEW q \in Workers, NEW s \in Sids, Logout(q, s)
        PROVE  PasswordInv'
    BY <1>4, <1>0, SessionConstants DEF Logout, Goto, Live, ClockInv,
       PasswordInv, Saving, CtlType, SidInv, Serving, ghosts, DataType,
       NumType, Data
  <1>5. ASSUME NEW q \in Workers, DropSessionFromIndex(q) PROVE PasswordInv'
    BY <1>5, <1>0, SessionConstants DEF DropSessionFromIndex, Goto, ClockInv,
       PasswordInv, Saving, Live, CtlType, SidInv, Serving, DataType, NumType,
       Data
  <1>6. ASSUME NEW q \in Workers, Destroy(q) PROVE PasswordInv'
    BY <1>6, <1>0, SessionConstants DEF Destroy, Done, Goto, ClockInv,
       PasswordInv, Saving, Live, CtlType, SidInv, Serving, Absent, DataType,
       NumType, Data
  <1>7. ASSUME NEW q \in Workers, NEW dead, Ended(q, dead) PROVE PasswordInv'
    <2>1. /\ UNCHANGED <<changedAt, signedOut, overtaken>>
          /\ pc'[q] \in {"idle", "security"}
          /\ \A p \in Workers \ {q} : pc'[p] = pc[p] /\ sid'[p] = sid[p] /\ copy'[p] = copy[p]
          /\ \A s \in Sids : store'[s] = Absent \/ store'[s] = store[s]
      BY <1>7, <1>0 DEF Ended, Done, Goto, CtlType, DataType
    <2> QED
      BY <2>1 DEF PasswordInv, Absent
  <1>8. ASSUME NEW q \in Workers, RemoteLogin(q) PROVE PasswordInv'
    BY <1>8, <1>0, SessionConstants DEF RemoteLogin, Goto, ClockInv,
       PasswordInv, Saving, Live, CtlType, SidInv, Serving, ghosts, DataType,
       NumType, Data
  <1>9. ASSUME NEW q \in Workers, NEW s \in Sids, RemoteLoginExpired(q, s)
        PROVE  PasswordInv'
    BY <1>9, <1>0, SessionConstants DEF RemoteLoginExpired, ClockInv,
       PasswordInv, Saving, Live, CtlType, SidInv, Serving, ghosts, DataType,
       NumType, Data
  <1>10. ASSUME NEW q \in Workers, NEW s \in Sids, LoginSave(q, s)
         PROVE  PasswordInv'
    <2>1. /\ pc[q] = "authenticated" /\ overtaken' = Handed(q, s)
          /\ UNCHANGED <<changedAt, signedOut>>
          /\ \A t \in Sids \ {s} : store'[t] \in {store[t], Absent}
          /\ store'[s] = store[s] \/ store'[s].gen = copy[q].gen
          /\ Others(q) /\ pc'[q] \in {"record", "idle"}
      BY <1>10, LoginSaveFacts DEF Answered
    <2>2. \A x \in overtaken : x # q => x \in overtaken'
      BY <2>1 DEF Handed
    <2>3. copy[q].gen < signedOut => s \in overtaken'
      BY <2>1 DEF PasswordInv, Handed
    <2>4. ASSUME NEW t \in Sids, store'[t].auth = "full", store'[t].gen < signedOut
          PROVE  store'[t].lt <= changedAt \/ t \in overtaken'
      <3>1. t # q
        BY SessionConstants
      <3> QED
        BY <2>1, <2>2, <2>3, <2>4, <3>1 DEF PasswordInv, Absent
    <2>5. ASSUME NEW p \in Workers, pc[p] \in {"check", "passkey"}
          PROVE  sid[p] # q
      BY <1>0, <2>5, SessionConstants DEF CtlType, SidInv, Serving
    <2> QED
      BY <2>1, <2>2, <2>4, <2>5 DEF PasswordInv, Others
  <1>11. ASSUME NEW q \in Workers, RecordUserSession(q) PROVE PasswordInv'
    BY <1>11, <1>0, SessionConstants DEF RecordUserSession, Done, Goto,
       ClockInv, PasswordInv, Saving, Live, CtlType, SidInv, Serving, Absent,
       DataType, NumType, Data
  <1>12. ASSUME NEW q \in Workers, ChangePassword(q) PROVE PasswordInv'
    BY <1>12, <1>0, SessionConstants DEF ChangePassword, Goto, ClockInv,
       PasswordInv, Saving, Live, CtlType, SidInv, Serving, ghosts, DataType,
       NumType, Data
  <1>13. ASSUME NEW q \in Workers, PasswordReset(q) PROVE PasswordInv'
    BY <1>13, <1>0, SessionConstants DEF PasswordReset, Goto, ClockInv,
       PasswordInv, Saving, Live, CtlType, SidInv, Serving, ghosts, DataType,
       NumType, Data
  <1>14. ASSUME NEW q \in Workers, NEW s \in Sids, PasswordExpired(q, s)
         PROVE  PasswordInv'
    BY <1>14, <1>0, SessionConstants DEF PasswordExpired, Goto, ClockInv,
       PasswordInv, Saving, Live, CtlType, SidInv, Serving, ghosts, DataType,
       NumType, Data
  <1>15. ASSUME NEW q \in Workers, InvalidateUserSessions(q) PROVE PasswordInv'
    BY <1>15, <1>0, SessionConstants DEF InvalidateUserSessions, Goto, Done,
       markerTTL, ClockInv, PasswordInv, Saving, Live, CtlType, SidInv,
       Serving, Absent, DataType, NumType, Data
  <1>16. ASSUME NEW q \in Workers, RefreshOwnSession(q) PROVE PasswordInv'
    <2>1. /\ pc[q] = "refresh" /\ UNCHANGED <<store, changedAt, signedOut>>
          /\ \/ /\ pc'[q] = "keep" /\ Others(q) /\ sid' = sid
                /\ copy'[q].gen = copy[q].gen /\ UNCHANGED overtaken
             \/ Answered(q) /\ overtaken' = overtaken \ {q}
      BY <1>16, RefreshFacts
    <2>2. \A x \in overtaken : x # q => x \in overtaken'
      BY <2>1
    <2>3. \A s \in Sids : s # q
      BY SessionConstants
    <2>4. ASSUME NEW p \in Workers, pc[p] \in {"check", "passkey"}
          PROVE  sid[p] # q
      BY <1>0, <2>4, SessionConstants DEF CtlType, SidInv, Serving
    <2> QED
      BY <2>1, <2>2, <2>3, <2>4 DEF PasswordInv, Answered, Others
  <1>17. ASSUME NEW q \in Workers, SaveOwnSession(q) PROVE PasswordInv'
    <2>1. /\ sid[q] \in Sids /\ pc[q] = "keep" /\ Answered(q)
          /\ \/ Saved(q) /\ overtaken' = Handed(q, sid[q])
             \/ UNCHANGED <<store, overtaken>>
          /\ UNCHANGED <<changedAt, signedOut>>
      BY <1>17, SaveOwnSessionFacts
    <2>2. \A x \in overtaken : x # q => x \in overtaken'
      BY <2>1 DEF Handed
    <2>3. copy[q].gen < signedOut => q \in overtaken
      BY <2>1 DEF PasswordInv
    <2>4. ASSUME NEW s \in Sids, store'[s].auth = "full", store'[s].gen < signedOut
          PROVE  store'[s].lt <= changedAt \/ s \in overtaken'
      <3>1. s # q
        BY SessionConstants
      <3> QED
        BY <2>1, <2>2, <2>3, <2>4, <3>1 DEF PasswordInv, Saved, Written, Handed
    <2>5. ASSUME NEW p \in Workers, pc[p] \in {"check", "passkey"}
          PROVE  sid[p] # q
      BY <1>0, <2>5, SessionConstants DEF CtlType, SidInv, Serving
    <2> QED
      BY <2>1, <2>2, <2>4, <2>5 DEF PasswordInv, Answered, Others
  <1>18. ASSUME Tick PROVE PasswordInv'
    <2>1. /\ \A s \in Sids : store'[s] = Age(store[s])
          /\ UNCHANGED <<pc, sid, copy, changedAt, signedOut, overtaken>>
      BY <1>18 DEF Tick
    <2>2. ASSUME NEW s \in Sids, store'[s].auth = "full", store'[s].gen < signedOut
          PROVE  store'[s].lt <= changedAt \/ s \in overtaken
      <3>1. store[s] \in Data /\ Age(store[s]) # Absent
        BY <2>1, <2>2, NumberFacts DEF Absent
      <3>2. /\ store'[s].auth = store[s].auth /\ store'[s].lt = store[s].lt
            /\ store'[s].gen = store[s].gen
        BY <2>1, <3>1, AgeFacts
      <3> QED
        BY <2>2, <3>2 DEF PasswordInv
    <2> QED
      BY <2>1, <2>2 DEF PasswordInv
  <1>19. CASE UNCHANGED vars
    BY <1>19, <1>0, SessionConstants DEF vars, ClockInv, PasswordInv, Saving,
       Live, CtlType, SidInv, Serving, DataType, NumType, Data
  <1>20. ASSUME NEW q \in Workers, PasskeySession(q) PROVE PasswordInv'
    BY <1>20, <1>0, PasskeySessionFacts, NumberFacts DEF PasswordInv, Others,
       Answered, ghosts
  <1>21. ASSUME NEW q \in Workers, PasskeySave(q) PROVE PasswordInv'
    BY <1>21, <1>0, PasskeySaveFacts, NumberFacts DEF PasswordInv, Others,
       Answered, Written, Saved
  <1> QED
    BY <1>1, <1>2, <1>3, <1>4, <1>5, <1>6, <1>7, <1>8, <1>9, <1>10, <1>11,
       <1>12, <1>13, <1>14, <1>15, <1>16, <1>17, <1>18, <1>19, <1>20, <1>21,
       RevokingEnds
       DEF Next, TypeInv

(* SessionInv holds at first ...                                           *)
LEMMA SessionInvInit == Init => SessionInv
  <1> SUFFICES ASSUME Init PROVE SessionInv
    OBVIOUS
  <1>1. UsedInv /\ QuietInv
    BY SessionConstants DEF Init, UsedInv, QuietInv, QuietRevocationIsFinal,
       Saving, Live, Absent, Indexed, Ids
  <1>2. AuthInv /\ IndexComplete
    BY DEF Init, AuthInv, IndexComplete, Saving, Absent
  <1>3. ClockInv /\ LtInv /\ MarkerInv /\ PasswordInv
    BY SessionConstants DEF Init, ClockInv, LtInv, MarkerInv, EnrolInv,
       PasswordInv, Saving, Live, Absent, NoMarker
  <1> QED
    BY <1>1, <1>2, <1>3 DEF SessionInv

(* ... and is preserved.                                                   *)
LEMMA SessionInvStep == TypeInv /\ SessionInv /\ [Next]_vars => SessionInv'
  BY UsedStep, QuietStep, AuthStep, IndexStep, ClockStep, LtStep,
     MarkerStep, PasswordStep DEF SessionInv

(* The inductive invariant holds in every reachable state.                 *)
THEOREM SessionInvHolds == Spec => [](TypeInv /\ SessionInv)
  BY TypeInit, TypeStep, SessionInvInit, SessionInvStep, PTL
     DEF Spec

(* Every logged-in session can be revoked from the Security page, but for  *)
(* the ones that an event has cost their entry (sessions.go:38-196).       *)
THEOREM IndexIsComplete == Spec => []IndexComplete
  <1>1. SessionInv => IndexComplete
    BY DEF SessionInv
  <1> QED
    BY <1>1, SessionInvHolds, PTL

(* A session that was revoked while no request was between its check and   *)
(* its save stays dead (sessions.go:138-186, auth.go:26-80).               *)
THEOREM RevocationHolds == Spec => []QuietRevocationIsFinal
  <1>1. SessionInv => QuietRevocationIsFinal
    BY DEF SessionInv, QuietInv
  <1> QED
    BY <1>1, SessionInvHolds, PTL

(* When the marker is gone no older session is left, in the store or in    *)
(* flight.                                                                 *)
LEMMA NoOldSession ==
  ASSUME TypeInv, SessionInv PROVE MarkerOutlivesOldSessions
  <1> SUFFICES ASSUME marker.ttl = 0, ~storageFails PROVE
        /\ \A s \in Sids \ raced :
             store[s].auth = "full" => store[s].lt >= changedAt
        /\ \A q \in Workers :
             Saving(q) /\ sid[q] \notin raced => copy[q].lt >= changedAt
    BY DEF MarkerOutlivesOldSessions
  <1>1. ASSUME NEW s \in Sids \ raced, store[s].auth = "full"
        PROVE  store[s].lt >= changedAt
    BY <1>1, NumberFacts DEF SessionInv, MarkerInv, ClockInv, Live
  <1>2. ASSUME NEW q \in Workers, Saving(q), sid[q] \notin raced
        PROVE  copy[q].lt >= changedAt
    BY <1>2, NumberFacts DEF SessionInv, MarkerInv
  <1> QED
    BY <1>1, <1>2

(* "Any older session either hits the marker on its next request or        *)
(* expires" (auth.go:85-86): the invalidation marker outlives every login  *)
(* older than the password change.                                         *)
THEOREM MarkerLivesLongEnough == Spec => []MarkerOutlivesOldSessions
  BY NoOldSession, SessionInvHolds, PTL

(* After a password change a session of the old password is let in only if *)
(* a request that had that password accepted before the marker saved it,   *)
(* or if it dates from the marker's very second (auth.go:50-58, 98-106,    *)
(* password.go:384-405).                                                   *)
THEOREM PasswordChangeSignsOut == Spec => []OldPasswordSignedOut
  <1>1. TypeInv /\ SessionInv => OldPasswordSignedOut
    <2> SUFFICES ASSUME TypeInv, SessionInv, ~storageFails, NEW s \in Sids \ raced,
                        store[s].auth = "full", store[s].gen < signedOut,
                        ~Outdated(store[s], marker)
                 PROVE  store[s].lt = changedAt \/ s \in overtaken
      BY DEF OldPasswordSignedOut
    <2>1. store[s].lt <= changedAt \/ s \in overtaken
      BY DEF SessionInv, PasswordInv
    <2>2. CASE marker.ttl = 0
      BY <2>1, <2>2, NoOldSession, NumberFacts DEF MarkerOutlivesOldSessions
    <2>3. CASE marker.ttl > 0
      BY <2>1, <2>3, NumberFacts DEF Outdated, SessionInv, ClockInv
    <2> QED
      BY <2>2, <2>3, NumberFacts
  <1> QED
    BY <1>1, SessionInvHolds, PTL
=============================================================================
