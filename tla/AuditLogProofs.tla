--------------------------- MODULE AuditLogProofs ---------------------------
(***************************************************************************)
(* Proofs about AuditLog, for any ring size, page size, number of writers  *)
(* and number of restarts, with and without failing storage calls: the     *)
(* three statements about the two readers of the ring.                     *)
(*                                                                         *)
(* SlotInv   what a slot holds belongs there; NumberInv: nothing is        *)
(*           numbered beyond the counter.                                  *)
(* PageInv   the page a poll collects goes up, stays below the next number *)
(*           to look at, and above the cursor - unless the cursor is ahead *)
(*           of the counter the poll read, which after a restart means     *)
(*           that nothing of the new sequence was delivered yet.           *)
(* ScanInv   what the log keeps below the next number to look at is on the *)
(*           page, or was delivered before, or came late.  It is what      *)
(*           moving the cursor rests on.                                   *)
(* RingInv   each of the last auditRingSize numbers is in its slot, still  *)
(*           with its writer, or a hole.  Two numbers that fall on the     *)
(*           same slot are auditRingSize apart (SameSlot), so a late       *)
(*           writer can replace only an event it leaves as a hole.         *)
(* RecentInv a list that is being read in peace has met, going down, each  *)
(*           number in its own slot.                                       *)
(*                                                                         *)
(* The second half of the module is about Profile and Phone, whose email   *)
(* changes go into the trail: see there.                                   *)
(***************************************************************************)
EXTENDS AuditLog, Profile, FiniteSetTheorems, SequenceTheorems,
        NaturalsInduction, WellFoundedInduction, TLAPS

(* No writer has a number the counter has not reached.                     *)
NumberInv == \A w \in Writers : num[w] <= seq

(* What a slot holds belongs there.                                        *)
SlotInv == \A k \in Slots : slot[k] # 0 => slot[k] % auditRingSize = k

(* The page of a poll under way.                                           *)
PageInv ==
    /\ top <= seq
    /\ delivered # {} => cursor <= seq
    /\ \A d \in delivered : d <= cursor
    /\ reader = "after" =>
         /\ at >= 1
         /\ \A j, k \in 1..Len(got) : j < k => got[j] < got[k]
         /\ \A k \in 1..Len(got) : got[k] >= 1 /\ got[k] < at /\ got[k] <= top
         /\ cursor <= top =>
              at > cursor /\ \A k \in 1..Len(got) : got[k] > cursor
         /\ top = 0 \/ delivered = {} \/ cursor <= top

(* The events on it.                                                       *)
Page == {got[k] : k \in 1..Len(got)}

(* What the log keeps and the poll has gone past is accounted for.         *)
ScanInv ==
    reader = "after" =>
      \A s \in Kept : s < at => s \in delivered \cup late \cup Page

(* The last auditRingSize events: stored, under way, or missing.           *)
RingInv ==
    \A s \in 1..seq : s > seq - auditRingSize =>
      \/ slot[s % auditRingSize] = s
      \/ s \in holes
      \/ \E w \in Writers : num[w] = s

(* A list that is being read in peace.                                     *)
RecentInv ==
    reader = "recent" /\ quiet =>
      /\ \A w \in Writers : num[w] = 0
      /\ at <= top /\ (top = seq \/ top = 0)
      /\ Complete(top) =>
           /\ \A j, k \in 1..Len(got) : j < k => got[j] > got[k]
           /\ \A k \in 1..Len(got) : got[k] > at

(* The inductive invariant.                                                *)
AuditInv == /\ NumberInv /\ SlotInv /\ PageInv /\ ScanInv
            /\ NothingSkippedInTime /\ RingInv /\ RecentInv
-----------------------------------------------------------------------------
(* Arithmetic of the ring.                                                 *)
LEMMA Multiples ==
  ASSUME NEW a \in Int, NEW b \in Int, NEW m \in Nat \ {0}, m * a > m * b
  PROVE  m * a - m * b >= m
  <1>1. CASE a <= b
    <2>1. m * (b - a) >= 0
      BY <1>1
    <2>2. m * b - m * a >= 0
      BY <2>1
    <2> QED
      BY <2>2
  <1>2. CASE a > b
    BY <1>2
  <1> QED
    BY <1>1, <1>2

(* ... and a number is its quotient times n and its remainder.             *)
LEMMA DivMod ==
  ASSUME NEW n \in Nat, NEW m \in Nat \ {0}
  PROVE  \E k \in Int : n = m * k + (n % m)
  <1>1. n = m * (n \div m) + (n % m)
    OBVIOUS
  <1>2. (n \div m) \in Int
    OBVIOUS
  <1> QED
    BY <1>1, <1>2

(* Two numbers that fall on the same slot are at least a round apart.      *)
LEMMA SameSlot ==
  ASSUME NEW n \in Nat, NEW s \in Nat, NEW m \in Nat \ {0},
         n % m = s % m, n < s
  PROVE  n + m <= s
  <1>1. PICK a \in Int : n = m * a + (n % m)
    BY DivMod
  <1>2. PICK b \in Int : s = m * b + (s % m)
    BY DivMod
  <1>3. m * b > m * a /\ n % m \in Int /\ m * a \in Int /\ m * b \in Int
    BY <1>1, <1>2
  <1>4. m * b - m * a >= m
    BY <1>3, Multiples
  <1> QED
    BY <1>1, <1>2, <1>3, <1>4

(* Every number has a slot.                                                *)
LEMMA SlotOf ==
  ASSUME NEW n \in Numbers
  PROVE  n % auditRingSize \in Slots
  <1>1. n \in Nat /\ auditRingSize \in Nat \ {0}
    BY AuditConstants DEF Numbers
  <1> QED
    BY <1>1 DEF Slots

(* Event numbers are naturals.                                             *)
LEMMA NumbersAre ==
  /\ 0 \in Numbers /\ MaxSeq \in Nat
  /\ \A n \in Numbers : n \in Nat /\ n <= MaxSeq
  /\ \A n \in Nat : n <= MaxSeq => n \in Numbers
  BY AuditConstants DEF Numbers

(* One more event on the page.                                             *)
LEMMA AppendFacts ==
  ASSUME NEW S, NEW s \in Seq(S), NEW e \in S
  PROVE  /\ Append(s, e) \in Seq(S) /\ Len(s) \in Nat
         /\ Len(Append(s, e)) = Len(s) + 1
         /\ Append(s, e)[Len(s) + 1] = e
         /\ \A k \in 1..Len(s) : Append(s, e)[k] = s[k] /\ s[k] \in S
         /\ \A k \in 1..(Len(s) + 1) : k \in 1..Len(s) \/ k = Len(s) + 1
  OBVIOUS

(* A page begins empty.                                                    *)
LEMMA EmptyPage == <<>> \in Seq(Numbers) /\ Len(<<>>) = 0
  OBVIOUS

(* Where a poll begins.                                                    *)
LEMMA FirstAfterFacts ==
  ASSUME TypeOK, NEW n \in Numbers
  PROVE  /\ FirstAfter(n) \in 1..(n + 1)
         /\ cursor <= n => FirstAfter(n) > cursor
         /\ \A s \in Nat : s < FirstAfter(n) =>
              s <= n - auditRingSize \/ (s <= cursor /\ cursor <= n) \/ s = 0
  <1>1. n \in Nat /\ cursor \in Nat /\ auditRingSize \in Nat \ {0}
    BY NumbersAre, AuditConstants DEF TypeOK
  <1> QED
    BY <1>1 DEF FirstAfter, Max2

(* The log keeps nothing new but what Store stores; a restart empties it.  *)
LEMMA KeptShrinks ==
  ASSUME TypeOK, seq' >= seq, seq' \in Numbers, slot' = slot
  PROVE  Kept' \subseteq Kept
  <1>1. seq \in Int /\ seq' \in Int /\ auditRingSize \in Int
    BY NumbersAre, AuditConstants DEF TypeOK
  <1>2. \A k \in Slots : slot[k] \in Int
    BY NumbersAre DEF TypeOK
  <1> QED
    BY <1>1, <1>2 DEF Kept

(* Readers leave the log alone.                                            *)
LEMMA KeptSame ==
  ASSUME UNCHANGED <<seq, slot>>
  PROVE  Kept' = Kept
  BY DEF Kept

(* What the log keeps is numbered.                                         *)
LEMMA KeptFacts ==
  ASSUME TypeOK, NEW s \in Kept
  PROVE  /\ s \in Numbers /\ s \in Nat /\ s > 0 /\ s > seq - auditRingSize
         /\ \E k \in Slots : slot[k] = s
  BY NumbersAre DEF Kept, TypeOK

(* What Store adds to the log comes late or has not been passed.           *)
LEMMA StoreFacts ==
  ASSUME TypeOK, NEW w \in Writers, Store(w)
  PROVE  /\ late \subseteq late'
         /\ UNCHANGED <<seq, reader, top, at, got, cursor, delivered>>
         /\ \A s \in Kept' :
              /\ s \in Nat
              /\ \/ s \in Kept \/ s \in late'
                 \/ s > cursor /\ (reader = "after" => s >= at)
  <1>1. /\ late \subseteq late'
        /\ UNCHANGED <<seq, reader, top, at, got, cursor, delivered>>
    BY DEF Store, scan
  <1>2. CASE slot' = slot
    BY <1>1, <1>2, KeptSame, KeptFacts
  <1>3. CASE /\ slot' = [slot EXCEPT ![num[w] % auditRingSize] = num[w]]
             /\ late' = IF Passed(num[w]) THEN late \cup {num[w]} ELSE late
    <2>1. num[w] \in Nat /\ cursor \in Nat /\ at \in Int
      BY NumbersAre DEF TypeOK
    <2>2. \A k \in Slots : slot'[k] = slot[k] \/ slot'[k] = num[w]
      BY <1>3 DEF TypeOK
    <2>3. \A s \in Kept' : s \in Kept \/ s = num[w]
      BY <1>1, <2>2 DEF Kept
    <2>4. num[w] \in late' \/ (num[w] > cursor /\ (reader = "after" => num[w] >= at))
      BY <1>3, <2>1 DEF Passed
    <2> QED
      BY <1>1, <2>1, <2>3, <2>4, KeptFacts
  <1> QED
    BY <1>2, <1>3 DEF Store

(* A page as it is collected by auditAfter, one Get later.                 *)
LEMMA AfterGetFacts ==
  ASSUME TypeOK, AuditAfterGet
  PROVE  /\ reader = "after" /\ at' = at + 1 /\ at <= top /\ at \in Numbers
         /\ late \subseteq late'
         /\ UNCHANGED <<seq, slot, num, reader, top, cursor, delivered>>
         /\ \/ got' = got /\ (slot[at % auditRingSize] = at => at \in late')
            \/ got' = Append(got, at) /\ Len(got) < Limit
         /\ late' \subseteq late \cup {at}
  <1>1. at \in Numbers
    BY NumbersAre DEF AuditAfterGet, TypeOK
  <1> QED
    BY <1>1 DEF AuditAfterGet

(* The types are inductive.                                                *)
LEMMA TypeStep ==
  ASSUME TypeOK, [Next]_vars
  PROVE  TypeOK'
  <1>1. ASSUME NEW w \in Writers, Incr(w) PROVE TypeOK'
    <2>1. quiet' \in BOOLEAN /\ reader' \in {"idle", "after", "recent"}
      BY <1>1 DEF TypeOK, Incr, scan
    <2>2. /\ seq' \in Numbers /\ slot' \in [Slots -> Numbers]
          /\ num' \in [Writers -> Numbers] /\ restarts' \in 0..MaxRestarts
      <3>1. seq + 1 \in Numbers
        BY <1>1, NumbersAre, AuditConstants DEF TypeOK, Incr, Numbers
      <3> QED
        BY <1>1, <3>1 DEF TypeOK, Incr
    <2>3. top' \in Numbers /\ at' \in 0..(MaxSeq + 1)
      BY <1>1, NumbersAre DEF TypeOK, Incr, scan
    <2>4. got' \in Seq(Numbers) /\ Len(got') <= Limit
      BY <1>1, NumbersAre, AuditConstants, EmptyPage
         DEF TypeOK, Incr, scan
    <2>5. /\ cursor' \in Numbers /\ delivered' \in SUBSET Numbers
          /\ late' \in SUBSET Numbers /\ holes' \in SUBSET Numbers
      BY <1>1, NumbersAre DEF TypeOK, Incr, scan
    <2> QED
      BY <2>1, <2>2, <2>3, <2>4, <2>5 DEF TypeOK
  <1>2. ASSUME NEW w \in Writers, Store(w) PROVE TypeOK'
    <2>1. quiet' \in BOOLEAN /\ reader' \in {"idle", "after", "recent"}
      BY <1>2 DEF TypeOK, Store, scan, Passed
    <2>2. /\ seq' \in Numbers /\ slot' \in [Slots -> Numbers]
          /\ num' \in [Writers -> Numbers] /\ restarts' \in 0..MaxRestarts
      BY <1>2, NumbersAre, SlotOf, AuditConstants DEF TypeOK, Store, scan,
         Passed
    <2>3. top' \in Numbers /\ at' \in 0..(MaxSeq + 1)
      BY <1>2, NumbersAre DEF TypeOK, Store, scan, Passed
    <2>4. got' \in Seq(Numbers) /\ Len(got') <= Limit
      BY <1>2, NumbersAre, AuditConstants, EmptyPage
         DEF TypeOK, Store, scan, Passed
    <2>5. /\ cursor' \in Numbers /\ delivered' \in SUBSET Numbers
          /\ late' \in SUBSET Numbers /\ holes' \in SUBSET Numbers
      <3>1. /\ num[w] \in Numbers /\ slot[num[w] % auditRingSize] \in Numbers
            /\ cursor' = cursor /\ delivered' = delivered
        BY <1>2, SlotOf DEF TypeOK, Store
      <3>2. late' = late \/ late' = late \cup {num[w]}
        BY <1>2 DEF Store
      <3>3. \/ holes' = holes \/ holes' = holes \cup {num[w]}
            \/ holes' = holes \cup {slot[num[w] % auditRingSize]}
        BY <1>2 DEF Store
      <3> QED
        BY <3>1, <3>2, <3>3 DEF TypeOK
    <2> QED
      BY <2>1, <2>2, <2>3, <2>4, <2>5 DEF TypeOK
  <1>3. ASSUME AuditAfter PROVE TypeOK'
    <2>1. quiet' \in BOOLEAN /\ reader' \in {"idle", "after", "recent"}
      BY <1>3 DEF TypeOK, AuditAfter, Counter
    <2>2. /\ seq' \in Numbers /\ slot' \in [Slots -> Numbers]
          /\ num' \in [Writers -> Numbers] /\ restarts' \in 0..MaxRestarts
      BY <1>3, NumbersAre, SlotOf, AuditConstants DEF TypeOK, AuditAfter,
         Counter
    <2>3. top' \in Numbers /\ at' \in 0..(MaxSeq + 1)
      BY <1>3, NumbersAre, FirstAfterFacts DEF TypeOK, AuditAfter, Counter
    <2>4. got' \in Seq(Numbers) /\ Len(got') <= Limit
      BY <1>3, NumbersAre, AuditConstants, EmptyPage
         DEF TypeOK, AuditAfter, Counter
    <2>5. /\ cursor' \in Numbers /\ delivered' \in SUBSET Numbers
          /\ late' \in SUBSET Numbers /\ holes' \in SUBSET Numbers
      BY <1>3, NumbersAre DEF TypeOK, AuditAfter, Counter
    <2> QED
      BY <2>1, <2>2, <2>3, <2>4, <2>5 DEF TypeOK
  <1>4. ASSUME AuditAfterGet PROVE TypeOK'
    <2>1. quiet' \in BOOLEAN /\ reader' \in {"idle", "after", "recent"}
      BY <1>4 DEF TypeOK, AuditAfterGet
    <2>2. /\ seq' \in Numbers /\ slot' \in [Slots -> Numbers]
          /\ num' \in [Writers -> Numbers] /\ restarts' \in 0..MaxRestarts
      BY <1>4, NumbersAre, SlotOf, AuditConstants DEF TypeOK, AuditAfterGet
    <2>3. top' \in Numbers /\ at' \in 0..(MaxSeq + 1)
      BY <1>4, NumbersAre DEF TypeOK, AuditAfterGet
    <2>4. got' \in Seq(Numbers) /\ Len(got') <= Limit
      <3>1. CASE got' = got
        BY <3>1 DEF TypeOK
      <3>2. CASE got' = Append(got, at) /\ Len(got) < Limit
        BY <1>4, <3>2, AppendFacts, AfterGetFacts, AuditConstants
           DEF TypeOK
      <3> QED
        BY <1>4, <3>1, <3>2, AfterGetFacts
    <2>5. /\ cursor' \in Numbers /\ delivered' \in SUBSET Numbers
          /\ late' \in SUBSET Numbers /\ holes' \in SUBSET Numbers
      BY <1>4, NumbersAre DEF TypeOK, AuditAfterGet
    <2> QED
      BY <2>1, <2>2, <2>3, <2>4, <2>5 DEF TypeOK
  <1>5. ASSUME APIEvents PROVE TypeOK'
    <2>1. quiet' \in BOOLEAN /\ reader' \in {"idle", "after", "recent"}
      BY <1>5 DEF TypeOK, APIEvents
    <2>2. /\ seq' \in Numbers /\ slot' \in [Slots -> Numbers]
          /\ num' \in [Writers -> Numbers] /\ restarts' \in 0..MaxRestarts
      BY <1>5, NumbersAre, SlotOf, AuditConstants DEF TypeOK, APIEvents
    <2>3. top' \in Numbers /\ at' \in 0..(MaxSeq + 1)
      BY <1>5, NumbersAre DEF TypeOK, APIEvents
    <2>4. got' \in Seq(Numbers) /\ Len(got') <= Limit
      BY <1>5, NumbersAre, AuditConstants, EmptyPage
         DEF TypeOK, APIEvents
    <2>5. /\ cursor' \in Numbers /\ delivered' \in SUBSET Numbers
          /\ late' \in SUBSET Numbers /\ holes' \in SUBSET Numbers
      BY <1>5, NumbersAre DEF TypeOK, APIEvents
    <2> QED
      BY <2>1, <2>2, <2>3, <2>4, <2>5 DEF TypeOK
  <1>6. ASSUME AuditRecent PROVE TypeOK'
    <2>1. quiet' \in BOOLEAN /\ reader' \in {"idle", "after", "recent"}
      BY <1>6 DEF TypeOK, AuditRecent, Counter, Outstanding
    <2>2. /\ seq' \in Numbers /\ slot' \in [Slots -> Numbers]
          /\ num' \in [Writers -> Numbers] /\ restarts' \in 0..MaxRestarts
      BY <1>6, NumbersAre, SlotOf, AuditConstants DEF TypeOK, AuditRecent,
         Counter, Outstanding
    <2>3. top' \in Numbers /\ at' \in 0..(MaxSeq + 1)
      BY <1>6, NumbersAre DEF TypeOK, AuditRecent, Counter, Outstanding
    <2>4. got' \in Seq(Numbers) /\ Len(got') <= Limit
      BY <1>6, NumbersAre, AuditConstants, EmptyPage
         DEF TypeOK, AuditRecent, Counter, Outstanding
    <2>5. /\ cursor' \in Numbers /\ delivered' \in SUBSET Numbers
          /\ late' \in SUBSET Numbers /\ holes' \in SUBSET Numbers
      BY <1>6, NumbersAre DEF TypeOK, AuditRecent, Counter, Outstanding
    <2> QED
      BY <2>1, <2>2, <2>3, <2>4, <2>5 DEF TypeOK
  <1>7. ASSUME AuditRecentGet PROVE TypeOK'
    <2>1. quiet' \in BOOLEAN /\ reader' \in {"idle", "after", "recent"}
      BY <1>7 DEF TypeOK, AuditRecentGet, MoreRecent
    <2>2. /\ seq' \in Numbers /\ slot' \in [Slots -> Numbers]
          /\ num' \in [Writers -> Numbers] /\ restarts' \in 0..MaxRestarts
      BY <1>7, NumbersAre, SlotOf, AuditConstants DEF TypeOK, AuditRecentGet,
         MoreRecent
    <2>3. top' \in Numbers /\ at' \in 0..(MaxSeq + 1)
      BY <1>7, NumbersAre DEF TypeOK, AuditRecentGet, MoreRecent
    <2>4. got' \in Seq(Numbers) /\ Len(got') <= Limit
      <3> DEFINE e == slot[at % auditRingSize]
      <3>1. e \in Numbers
        <4>1. at % auditRingSize \in Slots
          BY AuditConstants DEF TypeOK, Slots
        <4> QED
          BY <4>1 DEF TypeOK
      <3>2. CASE got' = got
        BY <3>2 DEF TypeOK
      <3>3. CASE got' = Append(got, e) /\ Len(got) < Limit
        BY <3>1, <3>3, AppendFacts, AuditConstants
           DEF TypeOK
      <3> QED
        BY <1>7, <3>2, <3>3 DEF AuditRecentGet, MoreRecent
    <2>5. /\ cursor' \in Numbers /\ delivered' \in SUBSET Numbers
          /\ late' \in SUBSET Numbers /\ holes' \in SUBSET Numbers
      BY <1>7, NumbersAre DEF TypeOK, AuditRecentGet, MoreRecent
    <2> QED
      BY <2>1, <2>2, <2>3, <2>4, <2>5 DEF TypeOK
  <1>8. ASSUME AdminAuditList PROVE TypeOK'
    <2>1. quiet' \in BOOLEAN /\ reader' \in {"idle", "after", "recent"}
      BY <1>8 DEF TypeOK, AdminAuditList
    <2>2. /\ seq' \in Numbers /\ slot' \in [Slots -> Numbers]
          /\ num' \in [Writers -> Numbers] /\ restarts' \in 0..MaxRestarts
      BY <1>8, NumbersAre, SlotOf, AuditConstants DEF TypeOK, AdminAuditList
    <2>3. top' \in Numbers /\ at' \in 0..(MaxSeq + 1)
      BY <1>8, NumbersAre DEF TypeOK, AdminAuditList
    <2>4. got' \in Seq(Numbers) /\ Len(got') <= Limit
      BY <1>8, NumbersAre, AuditConstants, EmptyPage
         DEF TypeOK, AdminAuditList
    <2>5. /\ cursor' \in Numbers /\ delivered' \in SUBSET Numbers
          /\ late' \in SUBSET Numbers /\ holes' \in SUBSET Numbers
      BY <1>8, NumbersAre DEF TypeOK, AdminAuditList
    <2> QED
      BY <2>1, <2>2, <2>3, <2>4, <2>5 DEF TypeOK
  <1>9. ASSUME Restart PROVE TypeOK'
    <2>1. quiet' \in BOOLEAN /\ reader' \in {"idle", "after", "recent"}
      BY <1>9 DEF TypeOK, Restart
    <2>2. /\ seq' \in Numbers /\ slot' \in [Slots -> Numbers]
          /\ num' \in [Writers -> Numbers] /\ restarts' \in 0..MaxRestarts
      BY <1>9, NumbersAre, SlotOf, AuditConstants DEF TypeOK, Restart
    <2>3. top' \in Numbers /\ at' \in 0..(MaxSeq + 1)
      BY <1>9, NumbersAre DEF TypeOK, Restart
    <2>4. got' \in Seq(Numbers) /\ Len(got') <= Limit
      BY <1>9, NumbersAre, AuditConstants, EmptyPage
         DEF TypeOK, Restart
    <2>5. /\ cursor' \in Numbers /\ delivered' \in SUBSET Numbers
          /\ late' \in SUBSET Numbers /\ holes' \in SUBSET Numbers
      BY <1>9, NumbersAre DEF TypeOK, Restart
    <2> QED
      BY <2>1, <2>2, <2>3, <2>4, <2>5 DEF TypeOK
  <1>10. CASE UNCHANGED vars
    BY <1>10, NumbersAre DEF vars, TypeOK
  <1> QED
    BY <1>1, <1>2, <1>3, <1>4, <1>5, <1>6, <1>7, <1>8, <1>9, <1>10
       DEF Next

(* Every step preserves NumberInv, ...                                     *)
LEMMA NumberStep ==
  ASSUME TypeOK, NumberInv, [Next]_vars
  PROVE  NumberInv'
  <1>1. ASSUME NEW w \in Writers, Incr(w) PROVE NumberInv'
    BY <1>1, NumbersAre DEF Incr, scan, NumberInv, TypeOK
  <1>2. ASSUME NEW w \in Writers, Store(w) PROVE NumberInv'
    BY <1>2, NumbersAre DEF Store, scan, Passed, NumberInv, TypeOK
  <1>3. ASSUME AuditAfter PROVE NumberInv'
    BY <1>3, NumbersAre DEF AuditAfter, Counter, FirstAfter, Max2, NumberInv,
       TypeOK
  <1>4. ASSUME AuditAfterGet PROVE NumberInv'
    BY <1>4, NumbersAre DEF AuditAfterGet, NumberInv, TypeOK
  <1>5. ASSUME APIEvents PROVE NumberInv'
    BY <1>5, NumbersAre DEF APIEvents, NumberInv, TypeOK
  <1>6. ASSUME AuditRecent PROVE NumberInv'
    BY <1>6, NumbersAre DEF AuditRecent, Counter, Outstanding, NumberInv,
       TypeOK
  <1>7. ASSUME AuditRecentGet PROVE NumberInv'
    BY <1>7, NumbersAre DEF AuditRecentGet, MoreRecent, NumberInv, TypeOK
  <1>8. ASSUME AdminAuditList PROVE NumberInv'
    BY <1>8, NumbersAre DEF AdminAuditList, NumberInv, TypeOK
  <1>9. ASSUME Restart PROVE NumberInv'
    BY <1>9, NumbersAre DEF Restart, NumberInv, TypeOK
  <1>10. CASE UNCHANGED vars
    BY <1>10, NumbersAre DEF vars, NumberInv, TypeOK
  <1> QED
    BY <1>1, <1>2, <1>3, <1>4, <1>5, <1>6, <1>7, <1>8, <1>9, <1>10
       DEF Next

(* ... SlotInv, ...                                                        *)
LEMMA SlotStep ==
  ASSUME TypeOK, SlotInv, [Next]_vars
  PROVE  SlotInv'
  <1>1. ASSUME NEW w \in Writers, Incr(w) PROVE SlotInv'
    BY <1>1, SlotOf DEF Incr, scan, SlotInv, TypeOK
  <1>2. ASSUME NEW w \in Writers, Store(w) PROVE SlotInv'
    BY <1>2, SlotOf DEF Store, scan, Passed, SlotInv, TypeOK
  <1>3. ASSUME AuditAfter PROVE SlotInv'
    BY <1>3, SlotOf DEF AuditAfter, Counter, FirstAfter, Max2, SlotInv, TypeOK
  <1>4. ASSUME AuditAfterGet PROVE SlotInv'
    BY <1>4, SlotOf DEF AuditAfterGet, SlotInv, TypeOK
  <1>5. ASSUME APIEvents PROVE SlotInv'
    BY <1>5, SlotOf DEF APIEvents, SlotInv, TypeOK
  <1>6. ASSUME AuditRecent PROVE SlotInv'
    BY <1>6, SlotOf DEF AuditRecent, Counter, Outstanding, SlotInv, TypeOK
  <1>7. ASSUME AuditRecentGet PROVE SlotInv'
    BY <1>7, SlotOf DEF AuditRecentGet, MoreRecent, SlotInv, TypeOK
  <1>8. ASSUME AdminAuditList PROVE SlotInv'
    BY <1>8, SlotOf DEF AdminAuditList, SlotInv, TypeOK
  <1>9. ASSUME Restart PROVE SlotInv'
    BY <1>9, SlotOf DEF Restart, SlotInv, TypeOK
  <1>10. CASE UNCHANGED vars
    BY <1>10, SlotOf DEF vars, SlotInv, TypeOK
  <1> QED
    BY <1>1, <1>2, <1>3, <1>4, <1>5, <1>6, <1>7, <1>8, <1>9, <1>10
       DEF Next

(* ... PageInv, ...                                                        *)
LEMMA PageStep ==
  ASSUME TypeOK, PageInv, [Next]_vars
  PROVE  PageInv'
  <1>1. ASSUME NEW w \in Writers, Incr(w) PROVE PageInv'
    BY <1>1, NumbersAre DEF Incr, scan, PageInv, TypeOK
  <1>2. ASSUME NEW w \in Writers, Store(w) PROVE PageInv'
    BY <1>2, NumbersAre DEF Store, scan, Passed, PageInv, TypeOK
  <1>3. ASSUME AuditAfter PROVE PageInv'
    <2>1. PICK n \in Counter : top' = n /\ at' = FirstAfter(n)
      BY <1>3 DEF AuditAfter
    <2>2. /\ n \in Numbers /\ n \in Nat /\ seq \in Nat /\ cursor \in Nat
          /\ n <= seq /\ (n = seq \/ n = 0)
      BY NumbersAre DEF Counter, TypeOK
    <2>3. at' >= 1 /\ (cursor <= n => at' > cursor)
      BY <2>1, <2>2, FirstAfterFacts
    <2>4. got' = <<>> /\ UNCHANGED <<seq, cursor, delivered>>
      BY <1>3 DEF AuditAfter
    <2> QED
      BY <2>1, <2>2, <2>3, <2>4 DEF PageInv
  <1>4. ASSUME AuditAfterGet PROVE PageInv'
    <2>1. /\ at \in Nat /\ top \in Nat /\ cursor \in Nat /\ at <= top
          /\ at' = at + 1 /\ reader = "after" /\ at >= 1
      BY <1>4, AfterGetFacts, NumbersAre DEF TypeOK, PageInv
    <2>2. UNCHANGED <<seq, reader, top, cursor, delivered>>
      BY <1>4, AfterGetFacts
    <2>3. /\ got \in Seq(Numbers) /\ Len(got) \in Nat
          /\ \A k \in 1..Len(got) : got[k] \in Nat
      BY NumbersAre DEF TypeOK
    <2>4. CASE got' = got
      BY <2>1, <2>2, <2>3, <2>4 DEF PageInv
    <2>5. CASE got' = Append(got, at)
      <3>1. /\ Len(got') = Len(got) + 1 /\ got'[Len(got) + 1] = at
            /\ \A k \in 1..Len(got) : got'[k] = got[k]
            /\ \A k \in 1..Len(got') : k \in 1..Len(got) \/ k = Len(got) + 1
        BY <1>4, <2>3, <2>5, AppendFacts, AfterGetFacts
      <3>2. \A k \in 1..Len(got') : got'[k] >= 1 /\ got'[k] < at' /\ got'[k] <= top
        BY <2>1, <2>3, <3>1 DEF PageInv
      <3>3. ASSUME NEW j \in 1..Len(got'), NEW k \in 1..Len(got'), j < k
            PROVE  got'[j] < got'[k]
        <4>1. j \in 1..Len(got)
          BY <2>3, <3>1, <3>3
        <4> QED
          BY <2>1, <2>3, <3>1, <3>3, <4>1 DEF PageInv
      <3>4. ASSUME cursor <= top
            PROVE  at' > cursor /\ \A k \in 1..Len(got') : got'[k] > cursor
        BY <2>1, <3>1, <3>4 DEF PageInv
      <3> QED
        BY <2>1, <2>2, <3>2, <3>3, <3>4 DEF PageInv
    <2> QED
      BY <1>4, <2>4, <2>5, AfterGetFacts
  <1>5. ASSUME APIEvents PROVE PageInv'
    <2>1. /\ reader = "after" /\ reader' = "idle" /\ top' = 0 /\ seq' = seq
          /\ seq \in Nat /\ cursor \in Nat /\ top \in Nat
          /\ got \in Seq(Numbers) /\ Len(got) \in Nat
          /\ \A k \in 1..Len(got) : got[k] \in Nat
      BY <1>5, NumbersAre DEF APIEvents, TypeOK
    <2>2. CASE UNCHANGED <<cursor, delivered>>
      BY <2>1, <2>2 DEF PageInv
    <2>3. CASE /\ cursor' = IF got = <<>> THEN cursor ELSE got[Len(got)]
               /\ delivered' = delivered \cup {got[k] : k \in 1..Len(got)}
      <3>1. CASE got = <<>>
        BY <2>1, <2>3, <3>1 DEF PageInv
      <3>2. CASE got # <<>>
        <4>1. Len(got) \in 1..Len(got) /\ cursor' = got[Len(got)]
          BY <2>1, <2>3, <3>2
        <4>2. cursor' \in Nat /\ cursor' <= top /\ top <= seq
          BY <2>1, <4>1 DEF PageInv
        <4>3. \A k \in 1..Len(got) : got[k] <= cursor'
          BY <2>1, <4>1 DEF PageInv
        <4>4. ASSUME NEW d \in delivered PROVE d <= cursor'
          <5>1. d <= cursor /\ cursor <= top /\ d \in Nat
            BY <2>1, <4>1, NumbersAre DEF PageInv, TypeOK
          <5>2. cursor < cursor'
            BY <2>1, <4>1, <5>1 DEF PageInv
          <5> QED
            BY <2>1, <4>2, <5>1, <5>2
        <4> QED
          BY <2>1, <2>3, <4>2, <4>3, <4>4 DEF PageInv
      <3> QED
        BY <3>1, <3>2
    <2> QED
      BY <1>5, <2>2, <2>3 DEF APIEvents
  <1>6. ASSUME AuditRecent PROVE PageInv'
    BY <1>6, NumbersAre DEF AuditRecent, Counter, Outstanding, PageInv, TypeOK
  <1>7. ASSUME AuditRecentGet PROVE PageInv'
    BY <1>7, NumbersAre DEF AuditRecentGet, MoreRecent, PageInv, TypeOK
  <1>8. ASSUME AdminAuditList PROVE PageInv'
    BY <1>8, NumbersAre DEF AdminAuditList, PageInv, TypeOK
  <1>9. ASSUME Restart PROVE PageInv'
    BY <1>9, NumbersAre DEF Restart, PageInv, TypeOK
  <1>10. CASE UNCHANGED vars
    BY <1>10, NumbersAre DEF vars, PageInv, TypeOK
  <1> QED
    BY <1>1, <1>2, <1>3, <1>4, <1>5, <1>6, <1>7, <1>8, <1>9, <1>10
       DEF Next

(* ... ScanInv, ...                                                        *)
LEMMA ScanStep ==
  ASSUME TypeOK, SlotInv, PageInv, NothingSkippedInTime, ScanInv, [Next]_vars
  PROVE  ScanInv'
  <1>1. ASSUME NEW w \in Writers, Incr(w) PROVE ScanInv'
    <2>1. Kept' \subseteq Kept
      <3>1. seq' >= seq /\ seq' \in Numbers /\ slot' = slot
        BY <1>1, NumbersAre DEF Incr, TypeOK
      <3> QED
        BY <3>1, KeptShrinks
    <2> QED
      BY <1>1, <2>1 DEF Incr, scan, ScanInv, Page
  <1>2. ASSUME NEW w \in Writers, Store(w) PROVE ScanInv'
    <2>1. ASSUME NEW s \in Kept', reader = "after", s < at
          PROVE  s \in delivered \cup late' \cup Page
      <3>1. ~(s >= at)
        <4>1. s \in Int /\ at \in Int
          BY <1>2, StoreFacts DEF TypeOK
        <4> QED
          BY <2>1, <4>1
      <3> QED
        BY <1>2, <2>1, <3>1, StoreFacts DEF ScanInv
    <2> QED
      BY <1>2, <2>1, StoreFacts DEF ScanInv, Page
  <1>3. ASSUME AuditAfter PROVE ScanInv'
    <2>1. PICK n \in Counter : top' = n /\ at' = FirstAfter(n)
      BY <1>3 DEF AuditAfter
    <2>2. n \in Numbers /\ n \in Nat /\ seq \in Nat /\ n <= seq /\ auditRingSize \in Nat
      BY NumbersAre, AuditConstants DEF Counter, TypeOK
    <2>3. Kept' = Kept /\ UNCHANGED <<delivered, late>>
      BY <1>3, KeptSame DEF AuditAfter
    <2>4. ASSUME NEW s \in Kept, s < at' PROVE s \in delivered \cup late
      <3>1. s \in Nat /\ s > 0 /\ s > seq - auditRingSize
        BY KeptFacts
      <3>2. s <= cursor
        BY <2>1, <2>2, <2>4, <3>1, FirstAfterFacts
      <3> QED
        BY <3>2 DEF NothingSkippedInTime
    <2> QED
      BY <2>3, <2>4 DEF ScanInv
  <1>4. ASSUME AuditAfterGet PROVE ScanInv'
    <2>1. /\ reader = "after" /\ at \in Numbers /\ at \in Nat /\ at' = at + 1
          /\ late \subseteq late' /\ UNCHANGED <<seq, slot, delivered>>
      BY <1>4, AfterGetFacts, NumbersAre
    <2>2. Kept' = Kept
      BY <2>1, KeptSame
    <2>3. Page \subseteq Page'
      <3>1. CASE got' = got
        BY <3>1 DEF Page
      <3>2. CASE got' = Append(got, at)
        BY <2>1, <3>2, AppendFacts DEF TypeOK, Page
      <3> QED
        BY <1>4, <3>1, <3>2, AfterGetFacts
    <2>4. ASSUME at \in Kept PROVE at \in late' \cup Page'
      <3>1. slot[at % auditRingSize] = at
        BY <2>1, <2>4, KeptFacts DEF SlotInv
      <3>2. CASE got' = Append(got, at)
        BY <2>1, <3>2, AppendFacts DEF TypeOK, Page
      <3> QED
        BY <1>4, <3>1, <3>2, AfterGetFacts
    <2>5. ASSUME NEW s \in Kept, s < at'
          PROVE  s \in delivered \cup late' \cup Page'
      <3>1. s < at \/ s = at
        BY <2>1, <2>5, KeptFacts
      <3> QED
        BY <2>1, <2>3, <2>4, <3>1 DEF ScanInv
    <2> QED
      BY <2>1, <2>2, <2>5 DEF ScanInv
  <1>5. ASSUME APIEvents PROVE ScanInv'
    BY <1>5, KeptShrinks DEF APIEvents, ScanInv
  <1>6. ASSUME AuditRecent PROVE ScanInv'
    BY <1>6, KeptShrinks DEF AuditRecent, Counter, Outstanding, ScanInv
  <1>7. ASSUME AuditRecentGet PROVE ScanInv'
    BY <1>7, KeptShrinks DEF AuditRecentGet, MoreRecent, ScanInv
  <1>8. ASSUME AdminAuditList PROVE ScanInv'
    BY <1>8, KeptShrinks DEF AdminAuditList, ScanInv
  <1>9. ASSUME Restart PROVE ScanInv'
    BY <1>9, KeptShrinks DEF Restart, ScanInv
  <1>10. CASE UNCHANGED vars
    BY <1>10, KeptSame DEF vars, ScanInv, Page
  <1> QED
    BY <1>1, <1>2, <1>3, <1>4, <1>5, <1>6, <1>7, <1>8, <1>9, <1>10
       DEF Next

(* ... NothingSkippedInTime, ...                                           *)
LEMMA SkippedStep ==
  ASSUME TypeOK, PageInv, NothingSkippedInTime, ScanInv, [Next]_vars
  PROVE  NothingSkippedInTime'
  <1>1. ASSUME NEW w \in Writers, Incr(w) PROVE NothingSkippedInTime'
    <2>1. Kept' \subseteq Kept
      <3>1. seq' >= seq /\ seq' \in Numbers /\ slot' = slot
        BY <1>1, TypeStep, NumbersAre DEF Incr, TypeOK
      <3> QED
        BY <3>1, KeptShrinks
    <2> QED
      BY <1>1, <2>1 DEF Incr, NothingSkippedInTime
  <1>2. ASSUME NEW w \in Writers, Store(w) PROVE NothingSkippedInTime'
    <2>1. ASSUME NEW s \in Kept', s <= cursor
          PROVE  s \in delivered \cup late'
      <3>1. ~(s > cursor)
        <4>1. s \in Int /\ cursor \in Int
          BY <1>2, StoreFacts, NumbersAre DEF TypeOK
        <4> QED
          BY <2>1, <4>1
      <3> QED
        BY <1>2, <2>1, <3>1, StoreFacts DEF NothingSkippedInTime
    <2> QED
      BY <1>2, <2>1, StoreFacts DEF NothingSkippedInTime
  <1>3. ASSUME AuditAfter PROVE NothingSkippedInTime'
    <2>1. Kept' = Kept /\ UNCHANGED <<cursor, delivered, late>>
      BY <1>3, KeptSame DEF AuditAfter
    <2> QED
      BY <2>1 DEF NothingSkippedInTime
  <1>4. ASSUME AuditAfterGet PROVE NothingSkippedInTime'
    <2>1. Kept' = Kept /\ UNCHANGED <<cursor, delivered>> /\ late \subseteq late'
      BY <1>4, KeptSame, AfterGetFacts
    <2> QED
      BY <2>1 DEF NothingSkippedInTime
  <1>5. ASSUME APIEvents PROVE NothingSkippedInTime'
    <2>1. Kept' = Kept /\ late' = late /\ reader = "after"
      BY <1>5, KeptSame DEF APIEvents
    <2>2. CASE UNCHANGED <<cursor, delivered>>
      BY <2>1, <2>2 DEF NothingSkippedInTime
    <2>3. CASE /\ cursor' = IF got = <<>> THEN cursor ELSE got[Len(got)]
               /\ delivered' = delivered \cup {got[k] : k \in 1..Len(got)}
      <3>1. CASE got = <<>>
        BY <2>1, <2>3, <3>1 DEF NothingSkippedInTime
      <3>2. CASE got # <<>>
        <4>1. /\ Len(got) \in 1..Len(got) /\ cursor' = got[Len(got)]
              /\ cursor' \in Nat /\ at \in Nat
          BY <2>3, <3>2, NumbersAre DEF TypeOK
        <4>2. cursor' < at
          BY <2>1, <4>1 DEF PageInv
        <4>3. ASSUME NEW s \in Kept, s <= cursor'
              PROVE  s \in delivered' \cup late
          <5>1. s < at
            BY <4>1, <4>2, <4>3, KeptFacts
          <5> QED
            BY <2>1, <2>3, <5>1 DEF ScanInv, Page
        <4> QED
          BY <2>1, <4>3 DEF NothingSkippedInTime
      <3> QED
        BY <3>1, <3>2
    <2> QED
      BY <1>5, <2>2, <2>3 DEF APIEvents
  <1>6. ASSUME AuditRecent PROVE NothingSkippedInTime'
    <2>1. Kept' = Kept /\ UNCHANGED <<cursor, delivered, late>>
      BY <1>6, KeptSame DEF AuditRecent
    <2> QED
      BY <2>1 DEF NothingSkippedInTime
  <1>7. ASSUME AuditRecentGet PROVE NothingSkippedInTime'
    <2>1. Kept' = Kept /\ UNCHANGED <<cursor, delivered, late>>
      BY <1>7, KeptSame DEF AuditRecentGet
    <2> QED
      BY <2>1 DEF NothingSkippedInTime
  <1>8. ASSUME AdminAuditList PROVE NothingSkippedInTime'
    <2>1. Kept' = Kept /\ UNCHANGED <<cursor, delivered, late>>
      BY <1>8, KeptSame DEF AdminAuditList
    <2> QED
      BY <2>1 DEF NothingSkippedInTime
  <1>9. ASSUME Restart PROVE NothingSkippedInTime'
    <2>1. Kept' = {}
      BY <1>9 DEF Restart, Kept
    <2> QED
      BY <2>1 DEF NothingSkippedInTime
  <1>10. CASE UNCHANGED vars
    BY <1>10, KeptSame DEF vars, NothingSkippedInTime
  <1> QED
    BY <1>1, <1>2, <1>3, <1>4, <1>5, <1>6, <1>7, <1>8, <1>9, <1>10
       DEF Next

(* ... RingInv, ...                                                        *)
LEMMA RingStep ==
  ASSUME TypeOK, NumberInv, RingInv, [Next]_vars
  PROVE  RingInv'
  <1>1. ASSUME NEW w \in Writers, Incr(w) PROVE RingInv'
    <2>1. /\ seq \in Nat /\ auditRingSize \in Nat /\ seq' = seq + 1
          /\ num' = [num EXCEPT ![w] = seq + 1] /\ num[w] = 0
          /\ UNCHANGED <<slot, holes>>
      BY <1>1, NumbersAre, AuditConstants DEF Incr, TypeOK
    <2>2. num'[w] = seq'
      BY <2>1 DEF TypeOK
    <2>3. ASSUME NEW s \in 1..seq, NEW v \in Writers, num[v] = s
          PROVE  num'[v] = s
      BY <2>1, <2>3 DEF TypeOK
    <2>4. ASSUME NEW s \in 1..seq', s > seq' - auditRingSize
          PROVE  \/ slot[s % auditRingSize] = s \/ s \in holes
                 \/ \E v \in Writers : num'[v] = s
      <3>1. s = seq' \/ (s \in 1..seq /\ s > seq - auditRingSize)
        BY <2>1, <2>4
      <3> QED
        BY <2>2, <2>3, <3>1 DEF RingInv
    <2> QED
      BY <2>1, <2>4 DEF RingInv
  <1>2. ASSUME NEW w \in Writers, Store(w) PROVE RingInv'
    <2> DEFINE n == num[w]
    <2>1. /\ seq \in Nat /\ auditRingSize \in Nat \ {0} /\ n \in Nat /\ n <= seq
          /\ n \in Numbers /\ n # 0 /\ n % auditRingSize \in Slots
          /\ num' = [num EXCEPT ![w] = 0] /\ seq' = seq
      BY <1>2, NumbersAre, SlotOf, AuditConstants DEF Store, TypeOK, NumberInv
    <2>2. holes \subseteq holes'
      BY <1>2 DEF Store
    <2> HIDE DEF n
    <2>3. ASSUME NEW s \in 1..seq, s > seq - auditRingSize, s # n
          PROVE  \/ slot'[s % auditRingSize] = s \/ s \in holes'
                 \/ \E v \in Writers : num'[v] = s
      <3>1. CASE s \in holes
        BY <2>2, <3>1
      <3>2. ASSUME NEW v \in Writers, num[v] = s PROVE num'[v] = s
        BY <2>1, <2>3, <3>2 DEF TypeOK, n
      <3>3. CASE slot[s % auditRingSize] = s
        <4>1. s \in Nat /\ s \in Numbers
          BY <2>1, NumbersAre DEF TypeOK
        <4>2. CASE slot' = slot
          BY <3>3, <4>2
        <4>3. CASE s % auditRingSize # n % auditRingSize
          BY <1>2, <2>1, <3>3, <4>1, <4>3, SlotOf DEF Store, TypeOK, n
        <4>4. CASE s % auditRingSize = n % auditRingSize
          <5>1. n < s
            <6>1. CASE s < n
              <7>1. s + auditRingSize <= n
                BY <2>1, <4>1, <4>4, <6>1, SameSlot
              <7> QED
                BY <2>1, <2>3, <4>1, <7>1
            <6> QED
              BY <2>1, <2>3, <4>1, <6>1
          <5>2. CASE slot' # slot
            BY <1>2, <3>3, <4>4, <5>1, <5>2 DEF Store, n
          <5> QED
            BY <4>2, <5>2
        <4> QED
          BY <4>3, <4>4
      <3> QED
        BY <2>3, <3>1, <3>2, <3>3 DEF RingInv
    <2>4. slot'[n % auditRingSize] = n \/ n \in holes'
      BY <1>2, <2>1 DEF Store, TypeOK, n
    <2> QED
      BY <2>1, <2>3, <2>4 DEF RingInv
  <1>3. ASSUME AuditAfter PROVE RingInv'
    BY <1>3, SlotOf, NumbersAre, AuditConstants DEF AuditAfter, Counter,
       FirstAfter, Max2, RingInv, NumberInv, TypeOK
  <1>4. ASSUME AuditAfterGet PROVE RingInv'
    BY <1>4, SlotOf, NumbersAre, AuditConstants DEF AuditAfterGet, RingInv,
       NumberInv, TypeOK
  <1>5. ASSUME APIEvents PROVE RingInv'
    BY <1>5, SlotOf, NumbersAre, AuditConstants DEF APIEvents, RingInv,
       NumberInv, TypeOK
  <1>6. ASSUME AuditRecent PROVE RingInv'
    BY <1>6, SlotOf, NumbersAre, AuditConstants DEF AuditRecent, Counter,
       Outstanding, RingInv, NumberInv, TypeOK
  <1>7. ASSUME AuditRecentGet PROVE RingInv'
    BY <1>7, SlotOf, NumbersAre, AuditConstants DEF AuditRecentGet, MoreRecent,
       RingInv, NumberInv, TypeOK
  <1>8. ASSUME AdminAuditList PROVE RingInv'
    BY <1>8, SlotOf, NumbersAre, AuditConstants DEF AdminAuditList, RingInv,
       NumberInv, TypeOK
  <1>9. ASSUME Restart PROVE RingInv'
    BY <1>9, SlotOf, NumbersAre, AuditConstants DEF Restart, RingInv,
       NumberInv, TypeOK
  <1>10. CASE UNCHANGED vars
    BY <1>10, SlotOf, NumbersAre, AuditConstants DEF vars, RingInv, NumberInv,
       TypeOK
  <1> QED
    BY <1>1, <1>2, <1>3, <1>4, <1>5, <1>6, <1>7, <1>8, <1>9, <1>10
       DEF Next

(* ... and RecentInv.                                                      *)
LEMMA RecentStep ==
  ASSUME TypeOK, RingInv, RecentInv, [Next]_vars
  PROVE  RecentInv'
  <1>1. ASSUME NEW w \in Writers, Incr(w) PROVE RecentInv'
    BY <1>1, SlotOf, NumbersAre, AuditConstants DEF Incr, scan, RecentInv,
       RingInv, Complete, TypeOK
  <1>2. ASSUME NEW w \in Writers, Store(w) PROVE RecentInv'
    BY <1>2, SlotOf, NumbersAre, AuditConstants DEF Store, scan, Passed,
       RecentInv, RingInv, Complete, TypeOK
  <1>3. ASSUME AuditAfter PROVE RecentInv'
    BY <1>3, SlotOf, NumbersAre, AuditConstants DEF AuditAfter, Counter,
       FirstAfter, Max2, RecentInv, RingInv, Complete, TypeOK
  <1>4. ASSUME AuditAfterGet PROVE RecentInv'
    BY <1>4, SlotOf, NumbersAre, AuditConstants DEF AuditAfterGet, RecentInv,
       RingInv, Complete, TypeOK
  <1>5. ASSUME APIEvents PROVE RecentInv'
    BY <1>5, SlotOf, NumbersAre, AuditConstants DEF APIEvents, RecentInv,
       RingInv, Complete, TypeOK
  <1>6. ASSUME AuditRecent PROVE RecentInv'
    <2>1. PICK n \in Counter : top' = n /\ at' = n
      BY <1>6 DEF AuditRecent
    <2>2. got' = <<>> /\ UNCHANGED <<seq, num>> /\ quiet' = ~Outstanding
      BY <1>6 DEF AuditRecent
    <2>3. (n = seq \/ n = 0) /\ n \in Nat /\ Len(got') = 0
      BY <2>2, EmptyPage, NumbersAre DEF Counter, TypeOK
    <2>4. quiet' => \A w \in Writers : num'[w] = 0
      BY <2>2 DEF Outstanding
    <2> QED
      BY <2>1, <2>2, <2>3, <2>4 DEF RecentInv
  <1>7. ASSUME AuditRecentGet PROVE RecentInv'
    <2> DEFINE e == slot[at % auditRingSize]
    <2>1. /\ reader = "recent" /\ at' = at - 1 /\ at > 0 /\ at > top - auditRingSize
          /\ (got' = got \/ (e # 0 /\ got' = Append(got, e)))
          /\ UNCHANGED <<seq, slot, num, reader, top, holes, quiet>>
      BY <1>7 DEF AuditRecentGet, MoreRecent
    <2>2. /\ at \in Nat /\ top \in Nat /\ seq \in Nat /\ auditRingSize \in Nat
          /\ got \in Seq(Numbers) /\ Len(got) \in Nat
          /\ \A k \in 1..Len(got) : got[k] \in Nat
      BY NumbersAre, AuditConstants DEF TypeOK
    <2>0. ASSUME quiet
          PROVE  /\ \A w \in Writers : num[w] = 0
                 /\ at' <= top /\ (top = seq \/ top = 0)
      BY <2>0, <2>1, <2>2 DEF RecentInv
    <2> SUFFICES ASSUME quiet, Complete(top)
                 PROVE  /\ \A j, k \in 1..Len(got') : j < k => got'[j] > got'[k]
                        /\ \A k \in 1..Len(got') : got'[k] > at'
      <3>1. Complete(top)' <=> Complete(top)
        BY <2>1 DEF Complete
      <3> QED
        BY <2>0, <2>1, <3>1 DEF RecentInv
    <2>3. CASE got' = got
      BY <2>1, <2>2, <2>3 DEF RecentInv
    <2>4. CASE e # 0 /\ got' = Append(got, e)
      <3>1. e = at
        <4>1. top = seq /\ at \in 1..seq /\ at \notin holes
          BY <2>1, <2>2 DEF RecentInv, Complete
        <4> QED
          BY <2>1, <2>2, <4>1 DEF RecentInv, RingInv
      <3>2. /\ Len(got') = Len(got) + 1 /\ got'[Len(got) + 1] = at
            /\ \A k \in 1..Len(got) : got'[k] = got[k]
            /\ \A k \in 1..Len(got') : k \in 1..Len(got) \/ k = Len(got) + 1
        <4>1. at \in Numbers
          BY <2>1, <2>2, <3>1, SlotOf, NumbersAre DEF RecentInv, TypeOK
        <4> QED
          BY <2>2, <2>4, <3>1, <4>1, AppendFacts
      <3>3. \A k \in 1..Len(got) : got[k] > at
        BY <2>1 DEF RecentInv
      <3>4. \A k \in 1..Len(got') : got'[k] > at'
        BY <2>1, <2>2, <3>2, <3>3
      <3>5. ASSUME NEW j \in 1..Len(got'), NEW k \in 1..Len(got'), j < k
            PROVE  got'[j] > got'[k]
        <4>1. j \in 1..Len(got)
          BY <2>2, <3>2, <3>5
        <4> QED
          BY <2>1, <3>2, <3>3, <3>5, <4>1 DEF RecentInv
      <3> QED
        BY <2>1, <2>2, <3>4, <3>5 DEF RecentInv
    <2> QED
      BY <2>1, <2>3, <2>4
  <1>8. ASSUME AdminAuditList PROVE RecentInv'
    BY <1>8, SlotOf, NumbersAre, AuditConstants DEF AdminAuditList, RecentInv,
       RingInv, Complete, TypeOK
  <1>9. ASSUME Restart PROVE RecentInv'
    BY <1>9, SlotOf, NumbersAre, AuditConstants DEF Restart, RecentInv,
       RingInv, Complete, TypeOK
  <1>10. CASE UNCHANGED vars
    BY <1>10, SlotOf, NumbersAre, AuditConstants DEF vars, RecentInv, RingInv,
       Complete, TypeOK
  <1> QED
    BY <1>1, <1>2, <1>3, <1>4, <1>5, <1>6, <1>7, <1>8, <1>9, <1>10
       DEF Next

(* The invariant holds at first ...                                        *)
LEMMA AuditInvInit == Init => TypeOK /\ AuditInv
  <1> SUFFICES ASSUME Init PROVE TypeOK /\ AuditInv
    OBVIOUS
  <1>1. quiet \in BOOLEAN /\ ~quiet
    BY DEF Init
  <1>2. Legacy \in Numbers /\ Legacy \in Nat /\ 0..Legacy \subseteq Numbers
    BY AuditConstants DEF Numbers
  <1>3. TypeOK
    <2>1. seq \in Numbers /\ slot \in [Slots -> Numbers]
      BY <1>2 DEF Init
    <2>2. /\ num \in [Writers -> Numbers] /\ restarts \in 0..MaxRestarts
          /\ top \in Numbers /\ at \in 0..(MaxSeq + 1)
      BY NumbersAre, AuditConstants DEF Init
    <2>3. got \in Seq(Numbers) /\ Len(got) <= Limit
      BY EmptyPage, AuditConstants DEF Init
    <2> QED
      BY <1>1, <2>1, <2>2, <2>3, NumbersAre DEF Init, TypeOK
  <1>4. NumberInv /\ SlotInv /\ PageInv /\ RingInv
    BY <1>2 DEF Init, NumberInv, SlotInv, PageInv, RingInv
  <1>5. NothingSkippedInTime
    <2>1. cursor = 0
      BY DEF Init
    <2> QED
      BY <1>3, <2>1, KeptFacts DEF NothingSkippedInTime
  <1>6. ScanInv /\ RecentInv
    BY DEF Init, ScanInv, RecentInv
  <1> QED
    BY <1>3, <1>4, <1>5, <1>6 DEF AuditInv

(* ... and is preserved.                                                   *)
LEMMA AuditInvStep == TypeOK /\ AuditInv /\ [Next]_vars => TypeOK' /\ AuditInv'
  BY TypeStep, NumberStep, SlotStep, PageStep, ScanStep, SkippedStep, RingStep,
     RecentStep DEF AuditInv

(* The inductive invariant holds in every reachable state.                 *)
THEOREM AuditInvHolds == Spec => [](TypeOK /\ AuditInv)
  BY AuditInvInit, AuditInvStep, PTL DEF Spec

(* Every variable keeps its type: a page holds event numbers only, and     *)
(* each slot an event or none (audit.go).                                  *)
THEOREM TypeCorrect == Spec => []TypeOK
  BY AuditInvHolds, PTL

(* The events API hands out every event once and in order while writers    *)
(* wrap around the ring under the reader (auditAfter, audit.go:180-212).   *)
THEOREM PollsAreInOrder == Spec => []EachOnceInOrder
  <1>1. TypeOK /\ AuditInv => EachOnceInOrder
    <2> SUFFICES ASSUME TypeOK, AuditInv, reader = "after" PROVE EachOnceInOrder
      BY DEF EachOnceInOrder
    <2>1. ASSUME NEW k \in 1..Len(got) PROVE got[k] \notin delivered
      <3>1. got[k] \in Nat /\ cursor \in Nat /\ top \in Nat
        BY NumbersAre DEF TypeOK
      <3>2. CASE delivered = {}
        BY <3>2
      <3>3. CASE delivered # {}
        BY <3>1, <3>3 DEF AuditInv, PageInv
      <3> QED
        BY <3>2, <3>3
    <2> QED
      BY <2>1 DEF AuditInv, PageInv, EachOnceInOrder
  <1> QED
    BY <1>1, AuditInvHolds, PTL

(* The cursor of a poller passes no event that the log keeps and that it   *)
(* was not given, but for events stored after they were passed and failed  *)
(* Gets (audit.go:180-212).                                                *)
THEOREM CursorSkipsNothing == Spec => []NothingSkippedInTime
  <1>1. AuditInv => NothingSkippedInTime
    BY DEF AuditInv
  <1> QED
    BY <1>1, AuditInvHolds, PTL

(* Without writers between their two calls and with no event missing,      *)
(* auditRecent lists the newest first (audit.go:132-155).                  *)
THEOREM RecentIsNewestFirst == Spec => []NewestFirstWhenQuiet
  <1>1. AuditInv => NewestFirstWhenQuiet
    BY DEF AuditInv, RecentInv, NewestFirstWhenQuiet
  <1> QED
    BY <1>1, AuditInvHolds, PTL
-----------------------------------------------------------------------------
(***************************************************************************)
(* Account settings, keys, email change and phone numbers (Profile.tla,    *)
(* Phone.tla), whose email changes go into the trail, for any number of    *)
(* requests, names, addresses and keys and for texts of any length.        *)
(*                                                                         *)
(*   CopyInv     a request holds the entry as it is, but for what was      *)
(*               changed since it read;                                    *)
(*   PhoneInv    the number in the entry and in each copy is stored again  *)
(*               as it is.                                                 *)
(*                                                                         *)
(* EditsPersist follows from CopyInv, since a part that is written back    *)
(* unedited was either not changed in between or counts as overwritten.    *)
(* That a number returns is a fact about texts, proved first: joinPhone    *)
(* and splitPhone are taken position by position, because nothing is known *)
(* of SelectSeq and of recursive definitions.                              *)
(***************************************************************************)

(* Trim leaves it as it is.                                                *)
Inked(s) == s # <<>> /\ s[1] # "blank" /\ s[Len(s)] # "blank"
-----------------------------------------------------------------------------
(* A set of natural numbers has a least element ...                        *)
LEMMA LeastOne ==
  ASSUME NEW T \in SUBSET Nat, T # {}
  PROVE  \E x \in T : \A y \in T : x <= y
  <1>1. \E x \in T : \A y \in T : ~(<<y, x>> \in OpToRel(<, Nat))
    BY NatLessThanWellFounded, WFMin
  <1>2. PICK x \in T : \A y \in T : ~(<<y, x>> \in OpToRel(<, Nat))
    BY <1>1
  <1>3. \A y \in T : ~(y < x)
    BY <1>2 DEF OpToRel
  <1> QED
    BY <1>3

(* ... and one that is bounded a greatest.                                 *)
LEMMA GreatestOne ==
  ASSUME NEW n \in Nat, NEW T \in SUBSET (1..n), T # {}
  PROVE  \E x \in T : \A y \in T : x >= y
  <1> DEFINE Gaps == {n - y : y \in T}
  <1>0. PICK z \in T : TRUE
    OBVIOUS
  <1>1. Gaps \in SUBSET Nat /\ n - z \in Gaps
    OBVIOUS
  <1>2. PICK u \in Gaps : \A v \in Gaps : u <= v
    BY <1>1, LeastOne
  <1>3. PICK x \in T : u = n - x
    BY <1>2
  <1>4. ASSUME NEW y \in T PROVE x >= y
    <2>1. n - y \in Gaps
      OBVIOUS
    <2>2. n - x <= n - y
      BY <1>2, <1>3, <2>1
    <2>3. n \in Int /\ x \in Int /\ y \in Int
      OBVIOUS
    <2> QED
      BY <2>2, <2>3
  <1> QED
    BY <1>4

(* All of a sequence is the sequence.                                      *)
LEMMA SubSeqAll ==
  ASSUME NEW A, NEW s \in Seq(A)
  PROVE  SubSeq(s, 1, Len(s)) = s
  <1>1. Len(s) \in Nat /\ \A i \in 1..Len(s) : s[i] \in A
    BY ElementOfSeq, LenProperties
  <1>2. /\ SubSeq(s, 1, Len(s)) \in Seq(A) /\ Len(SubSeq(s, 1, Len(s))) = Len(s)
        /\ \A i \in 1..Len(s) : SubSeq(s, 1, Len(s))[i] = s[i]
    <2>1. /\ SubSeq(s, 1, Len(s)) \in Seq(A)
          /\ Len(SubSeq(s, 1, Len(s))) = IF 1 <= Len(s) THEN Len(s) - 1 + 1 ELSE 0
          /\ \A i \in 1..(Len(s) - 1 + 1) : SubSeq(s, 1, Len(s))[i] = s[1 + i - 1]
      BY <1>1, SubSeqProperties
    <2> QED
      BY <1>1, <2>1
  <1> QED
    BY <1>2, SeqEqual

(* Trim cuts at the first and the last character that is not blank ...     *)
LEMMA TrimBetween ==
  ASSUME NEW s \in Seq(Chars), NEW a \in 1..Len(s), NEW b \in 1..Len(s),
         s[a] # "blank", s[b] # "blank",
         \A i \in 1..Len(s) : s[i] # "blank" => a <= i /\ i <= b
  PROVE  Trim(s) = SubSeq(s, a, b)
  <1> DEFINE ink == {i \in DOMAIN s : s[i] # "blank"}
             first == CHOOSE i \in ink : \A j \in ink : i <= j
             last == CHOOSE i \in ink : \A j \in ink : i >= j
  <1>1. DOMAIN s = 1..Len(s) /\ Len(s) \in Nat
    BY LenProperties
  <1>2. a \in ink /\ b \in ink /\ ink # {} /\ \A i \in ink : a <= i /\ i <= b /\ i \in Nat
    BY <1>1
  <1> HIDE DEF ink
  <1>3. first \in ink /\ \A j \in ink : first <= j
    BY <1>2
  <1>4. last \in ink /\ \A j \in ink : last >= j
    BY <1>2
  <1> HIDE DEF first, last
  <1>5. first = a /\ last = b
    BY <1>2, <1>3, <1>4
  <1>6. Trim(s) = IF ink = {} THEN <<>> ELSE SubSeq(s, first, last)
    BY DEF Trim, ink, first, last
  <1> QED
    BY <1>2, <1>5, <1>6

(* ... leaves a text that starts and ends with one, or nothing ...         *)
LEMMA TrimResult ==
  ASSUME NEW s \in Seq(Chars)
  PROVE  Trim(s) \in Seq(Chars) /\ (Trim(s) = <<>> \/ Inked(Trim(s)))
  <1> DEFINE ink == {i \in DOMAIN s : s[i] # "blank"}
  <1>1. DOMAIN s = 1..Len(s) /\ Len(s) \in Nat /\ \A i \in 1..Len(s) : s[i] \in Chars
    BY ElementOfSeq, LenProperties
  <1>2. CASE ink = {}
    BY <1>2, EmptySeq DEF Trim
  <1>3. CASE ink # {}
    <2>1. ink \in SUBSET (1..Len(s)) /\ ink \in SUBSET Nat
      BY <1>1
    <2>2. PICK a \in ink : \A j \in ink : a <= j
      BY <1>3, <2>1, LeastOne
    <2>3. PICK b \in ink : \A j \in ink : b >= j
      BY <1>1, <1>3, <2>1, GreatestOne
    <2>4. a \in 1..Len(s) /\ b \in 1..Len(s) /\ a <= b /\ s[a] # "blank" /\ s[b] # "blank"
      BY <1>1, <2>1, <2>2, <2>3
    <2>5. \A i \in 1..Len(s) : s[i] # "blank" => a <= i /\ i <= b
      BY <1>1, <2>1, <2>2, <2>3
    <2>6. Trim(s) = SubSeq(s, a, b)
      BY <2>4, <2>5, TrimBetween
    <2>7. /\ SubSeq(s, a, b) \in Seq(Chars)
          /\ Len(SubSeq(s, a, b)) = IF a <= b THEN b - a + 1 ELSE 0
          /\ \A i \in 1..(b - a + 1) : SubSeq(s, a, b)[i] = s[a + i - 1]
      <3>1. \A i \in a..b : s[i] \in Chars
        BY <1>1, <2>4
      <3>2. a \in Int /\ b \in Int
        BY <2>4
      <3> QED
        BY <3>1, <3>2, SubSeqProperties
    <2>8. Len(Trim(s)) = b - a + 1 /\ b - a + 1 \in 1..(b - a + 1) /\ 1 \in 1..(b - a + 1)
      BY <2>4, <2>6, <2>7
    <2>9. Trim(s)[1] = s[a] /\ Trim(s)[b - a + 1] = s[b]
      <3>1. a + 1 - 1 = a /\ a + (b - a + 1) - 1 = b
        BY <2>4
      <3> QED
        BY <2>6, <2>7, <2>8, <3>1
    <2>10. Trim(s) # <<>>
      BY <2>4, <2>8, EmptySeq
    <2> QED
      BY <2>4, <2>6, <2>7, <2>8, <2>9, <2>10 DEF Inked
  <1> QED
    BY <1>2, <1>3

(* ... does nothing to such a text ...                                     *)
LEMMA TrimInked ==
  ASSUME NEW s \in Seq(Chars), Inked(s)
  PROVE  Trim(s) = s
  <1>1. Len(s) \in Nat /\ Len(s) # 0
    BY EmptySeq DEF Inked
  <1>2. 1 \in 1..Len(s) /\ Len(s) \in 1..Len(s) /\ \A i \in 1..Len(s) : 1 <= i /\ i <= Len(s)
    BY <1>1
  <1>3. s[1] # "blank" /\ s[Len(s)] # "blank"
    BY DEF Inked
  <1>4. Trim(s) = SubSeq(s, 1, Len(s))
    BY <1>2, <1>3, TrimBetween
  <1> QED
    BY <1>4, SubSeqAll

(* ... and takes away the blank that splitPhone leaves before the national *)
(* number.                                                                 *)
LEMMA TrimPadded ==
  ASSUME NEW s \in Seq(Chars), Inked(s)
  PROVE  Trim(<<"blank">> \o s) = s
  <1> DEFINE t == <<"blank">> \o s
  <1>0. Len(s) \in Nat /\ Len(s) # 0
    BY EmptySeq DEF Inked
  <1>1. <<"blank">> \in Seq(Chars) /\ Len(<<"blank">>) = 1 /\ <<"blank">>[1] = "blank"
    BY DEF Chars
  <1>2. /\ t \in Seq(Chars) /\ Len(t) = 1 + Len(s)
        /\ \A i \in 1..(1 + Len(s)) : t[i] = IF i <= 1 THEN <<"blank">>[i] ELSE s[i - 1]
    BY <1>1, ConcatProperties
  <1> HIDE DEF t
  <1>3. t[1] = "blank" /\ \A i \in 1..Len(s) : t[1 + i] = s[i]
    BY <1>0, <1>1, <1>2
  <1>4. t[2] # "blank" /\ t[Len(t)] # "blank"
    BY <1>0, <1>2, <1>3 DEF Inked
  <1>5. \A i \in 1..Len(t) : t[i] # "blank" => 2 <= i /\ i <= Len(t)
    BY <1>0, <1>2, <1>3
  <1>6. Trim(t) = SubSeq(t, 2, Len(t))
    <2>1. 2 \in 1..Len(t) /\ Len(t) \in 1..Len(t)
      BY <1>0, <1>2
    <2> QED
      BY <1>2, <1>4, <1>5, <2>1, TrimBetween
  <1>7. /\ SubSeq(t, 2, Len(t)) \in Seq(Chars)
        /\ Len(SubSeq(t, 2, Len(t))) = IF 2 <= Len(t) THEN Len(t) - 2 + 1 ELSE 0
        /\ \A i \in 1..(Len(t) - 2 + 1) : SubSeq(t, 2, Len(t))[i] = t[2 + i - 1]
    <2>1. \A i \in 2..Len(t) : t[i] \in Chars
      BY <1>0, <1>2, ElementOfSeq
    <2>2. Len(t) \in Int
      BY <1>0, <1>2
    <2> QED
      BY <2>1, <2>2, SubSeqProperties
  <1>8. Len(SubSeq(t, 2, Len(t))) = Len(s)
        /\ \A i \in 1..Len(s) : SubSeq(t, 2, Len(t))[i] = s[i]
    BY <1>0, <1>2, <1>3, <1>7
  <1>9. SubSeq(t, 2, Len(t)) = s
    BY <1>7, <1>8, SeqEqual
  <1> QED
    BY <1>6, <1>9 DEF t
-----------------------------------------------------------------------------
(* The m-th of the first n numbers is m.                                   *)
LEMMA NthOfInterval ==
  ASSUME NEW n \in Nat, NEW m \in 1..n
  PROVE  Nth(1..n, m) = m
  <1>1. ASSUME NEW p \in 1..n PROVE Cardinality({r \in 1..n : r <= p}) = p
    <2>1. {r \in 1..n : r <= p} = 1..p
      OBVIOUS
    <2>2. p \in Int /\ 1 \in Int /\ ~(1 > p) /\ p - 1 + 1 = p
      OBVIOUS
    <2>3. Cardinality(1..p) = IF 1 > p THEN 0 ELSE p - 1 + 1
      BY <2>2, FS_Interval
    <2> QED
      BY <2>1, <2>2, <2>3
  <1> QED
    BY <1>1 DEF Nth

(* Selecting the digits of a text leaves it alone exactly when it has no   *)
(* others.                                                                 *)
LEMMA AllDigits ==
  ASSUME NEW A, NEW s \in Seq(A)
  PROVE  digitsOnly(s) = s <=> \A i \in 1..Len(s) : s[i] \in Digits
  <1> DEFINE P == Positions(s, Digits)
  <1>0. Len(s) \in Nat /\ DOMAIN s = 1..Len(s) /\ s \in [1..Len(s) -> A]
    BY LenProperties
  <1>1. digitsOnly(s) = [n \in 1..Cardinality(P) |-> s[Nth(P, n)]]
    BY DEF digitsOnly, Keep
  <1>2. IsFiniteSet(1..Len(s)) /\ Cardinality(1..Len(s)) = Len(s)
    BY <1>0, FS_Interval
  <1>3. P \in SUBSET (1..Len(s))
    BY DEF Positions
  <1>4. IsFiniteSet(P) /\ Cardinality(P) \in Nat
    BY <1>2, <1>3, FS_Subset, FS_CardinalityType
  <1>5. ASSUME digitsOnly(s) = s PROVE \A i \in 1..Len(s) : s[i] \in Digits
    <2>1. 1..Cardinality(P) = 1..Len(s)
      BY <1>0, <1>1, <1>5
    <2>2. Cardinality(P) = Len(s)
      BY <1>0, <1>4, <2>1
    <2>3. P = 1..Len(s)
      BY <1>2, <1>3, <2>2, FS_Subset
    <2> QED
      BY <2>3 DEF Positions
  <1>6. ASSUME \A i \in 1..Len(s) : s[i] \in Digits PROVE digitsOnly(s) = s
    <2>1. P = 1..Len(s)
      BY <1>6 DEF Positions
    <2>2. \A n \in 1..Len(s) : Nth(P, n) = n
      BY <1>0, <2>1, NthOfInterval
    <2>3. digitsOnly(s) = [n \in 1..Len(s) |-> s[n]]
      BY <1>1, <1>2, <2>1, <2>2
    <2> QED
      BY <1>0, <2>3
  <1> QED
    BY <1>5, <1>6

(* A sequence of digits is accepted as such, and nothing is trimmed.       *)
LEMMA DigitsAre ==
  ASSUME NEW s \in Seq(Digits)
  PROVE  s \in Seq(Chars) /\ digitsOnly(s) = s
         /\ (s # <<>> => isDigits(s) /\ Inked(s) /\ TrimPlus(s) = s)
  <1>1. Len(s) \in Nat /\ \A i \in 1..Len(s) : s[i] \in Digits
    BY ElementOfSeq, LenProperties
  <1>2. s \in Seq(Chars)
    BY DEF Chars
  <1>3. digitsOnly(s) = s
    BY <1>1, AllDigits
  <1>4. ASSUME s # <<>> PROVE Inked(s) /\ TrimPlus(s) = s
    <2>1. Len(s) \in Nat \ {0}
      BY <1>4, EmptySeq
    <2>2. s[1] \in Digits /\ s[Len(s)] \in Digits /\ Head(s) = s[1]
      BY <1>1, <1>4, <2>1
    <2> QED
      BY <1>4, <2>2 DEF Inked, TrimPlus, Digits
  <1> QED
    BY <1>2, <1>3, <1>4 DEF isDigits

(* What isDigits accepts is a sequence of digits, not an empty one.        *)
LEMMA DigitsIn ==
  ASSUME NEW A, NEW s \in Seq(A), isDigits(s)
  PROVE  s \in Seq(Digits) /\ s # <<>>
  <1>1. \A i \in 1..Len(s) : s[i] \in Digits
    BY AllDigits DEF isDigits
  <1>2. s \in [1..Len(s) -> Digits] /\ Len(s) \in Nat
    BY <1>1, LenProperties
  <1> QED
    BY <1>2 DEF isDigits

(* The digits of a text, likewise.                                         *)
LEMMA FoundDigits ==
  ASSUME NEW s \in Seq(Chars), isDigits(digitsOnly(s))
  PROVE  digitsOnly(s) \in Seq(Digits)
  <1> DEFINE P == Positions(s, Digits)
             k == Cardinality(P)
             d == digitsOnly(s)
             A == {d[n] : n \in 1..k}
  <1>0. Len(s) \in Nat
    BY LenProperties
  <1>1. IsFiniteSet(1..Len(s)) /\ P \in SUBSET (1..Len(s))
    BY <1>0, FS_Interval DEF Positions
  <1>2. k \in Nat
    BY <1>1, FS_Subset, FS_CardinalityType
  <1>3. d = [n \in 1..k |-> s[Nth(P, n)]]
    BY DEF digitsOnly, Keep
  <1> HIDE DEF P, k, d
  <1>4. d \in [1..k -> A]
    BY <1>3
  <1> HIDE DEF A
  <1>5. d \in Seq(A)
    BY <1>2, <1>4
  <1>6. isDigits(d)
    BY DEF d
  <1>7. d \in Seq(Digits)
    BY <1>5, <1>6, DigitsIn
  <1> QED
    BY <1>7 DEF d
-----------------------------------------------------------------------------
(* "+code national", position by position.                                 *)
LEMMA StoredIs ==
  ASSUME NEW code \in Seq(Chars), NEW nat \in Seq(Chars)
  PROVE  /\ Stored(code, nat) \in Seq(Chars)
         /\ Len(Stored(code, nat)) = Len(code) + 2 + Len(nat)
         /\ Stored(code, nat)[1] = "+"
         /\ \A i \in 1..Len(code) : Stored(code, nat)[i + 1] = code[i]
         /\ Stored(code, nat)[Len(code) + 2] = "blank"
         /\ \A i \in 1..Len(nat) : Stored(code, nat)[Len(code) + 2 + i] = nat[i]
  <1> DEFINE u == <<"+">> \o code
             v == u \o <<"blank">>
             w == v \o nat
  <1>0. Len(code) \in Nat /\ Len(nat) \in Nat
    BY LenProperties
  <1>1. /\ <<"+">> \in Seq(Chars) /\ Len(<<"+">>) = 1 /\ <<"+">>[1] = "+"
        /\ <<"blank">> \in Seq(Chars) /\ Len(<<"blank">>) = 1 /\ <<"blank">>[1] = "blank"
    BY DEF Chars
  <1>2. /\ u \in Seq(Chars) /\ Len(u) = 1 + Len(code)
        /\ \A i \in 1..(1 + Len(code)) : u[i] = IF i <= 1 THEN <<"+">>[i] ELSE code[i - 1]
    BY <1>1, ConcatProperties
  <1> HIDE DEF u
  <1>3. u[1] = "+" /\ \A i \in 1..Len(code) : u[i + 1] = code[i]
    BY <1>0, <1>1, <1>2
  <1>4. /\ v \in Seq(Chars) /\ Len(v) = Len(u) + 1
        /\ \A i \in 1..(Len(u) + 1) : v[i] = IF i <= Len(u) THEN u[i] ELSE <<"blank">>[i - Len(u)]
    BY <1>1, <1>2, ConcatProperties
  <1> HIDE DEF v
  <1>5. /\ Len(v) = Len(code) + 2 /\ v[1] = "+" /\ v[Len(code) + 2] = "blank"
        /\ \A i \in 1..Len(code) : v[i + 1] = code[i]
    <2>1. Len(u) = 1 + Len(code) /\ Len(u) \in Nat /\ Len(v) = Len(code) + 2
      BY <1>0, <1>2, <1>4
    <2>2. \A i \in 1..Len(u) : v[i] = u[i]
      BY <1>4, <2>1
    <2>3. v[Len(u) + 1] = <<"blank">>[(Len(u) + 1) - Len(u)] /\ (Len(u) + 1) - Len(u) = 1
      BY <1>4, <2>1
    <2>4. v[1] = "+" /\ \A i \in 1..Len(code) : v[i + 1] = code[i]
      BY <1>0, <1>3, <2>1, <2>2
    <2>5. Len(u) + 1 = Len(code) + 2
      BY <1>0, <2>1
    <2> QED
      BY <1>1, <2>1, <2>3, <2>4, <2>5
  <1>v. v \in Seq(Chars) /\ Len(v) \in Nat
    BY <1>0, <1>4, <1>5
  <1>6. /\ w \in Seq(Chars) /\ Len(w) = Len(v) + Len(nat)
        /\ \A i \in 1..(Len(v) + Len(nat)) : w[i] = IF i <= Len(v) THEN v[i] ELSE nat[i - Len(v)]
    BY <1>v, ConcatProperties
  <1> HIDE DEF w
  <1>7. /\ w[1] = "+" /\ w[Len(code) + 2] = "blank"
        /\ \A i \in 1..Len(code) : w[i + 1] = code[i]
        /\ \A i \in 1..Len(nat) : w[Len(code) + 2 + i] = nat[i]
    <2>1. \A i \in 1..Len(v) : w[i] = v[i]
      BY <1>0, <1>v, <1>6
    <2>2. \A i \in 1..Len(nat) : w[Len(v) + i] = nat[i]
      <3>1. ASSUME NEW i \in 1..Len(nat) PROVE w[Len(v) + i] = nat[i]
        <4>1. /\ Len(v) + i \in 1..(Len(v) + Len(nat)) /\ ~(Len(v) + i <= Len(v))
              /\ (Len(v) + i) - Len(v) = i
          BY <1>0, <1>v
        <4> QED
          BY <1>6, <4>1
      <3> QED
        BY <3>1
    <2>3. /\ 1 \in 1..Len(v) /\ Len(code) + 2 \in 1..Len(v)
          /\ \A i \in 1..Len(code) : i + 1 \in 1..Len(v)
      BY <1>0, <1>5
    <2> QED
      BY <1>5, <2>1, <2>2, <2>3
  <1>8. Stored(code, nat) = w
    BY DEF Stored, u, v, w
  <1> QED
    BY <1>0, <1>5, <1>6, <1>7, <1>8

(* A part of a text that agrees with s is s.                               *)
LEMMA PartIs ==
  ASSUME NEW t \in Seq(Chars), NEW s \in Seq(Chars), NEW m \in Nat,
         m + Len(s) <= Len(t), \A i \in 1..Len(s) : t[m + i] = s[i]
  PROVE  SubSeq(t, m + 1, m + Len(s)) = s
  <1>0. Len(s) \in Nat /\ Len(t) \in Nat /\ \A i \in 1..Len(t) : t[i] \in Chars
    BY ElementOfSeq, LenProperties
  <1> DEFINE a == m + 1
             b == m + Len(s)
  <1>1. a \in Int /\ b \in Int /\ \A i \in a..b : t[i] \in Chars
    BY <1>0
  <1> HIDE DEF a, b
  <1>2. /\ SubSeq(t, a, b) \in Seq(Chars)
        /\ Len(SubSeq(t, a, b)) = IF a <= b THEN b - a + 1 ELSE 0
        /\ \A i \in 1..(b - a + 1) : SubSeq(t, a, b)[i] = t[a + i - 1]
    BY <1>1, SubSeqProperties
  <1>3. /\ Len(SubSeq(t, a, b)) = Len(s)
        /\ \A i \in 1..Len(s) : SubSeq(t, a, b)[i] = s[i]
    <2>1. b - a + 1 = Len(s) /\ (a <= b <=> Len(s) # 0)
          /\ \A i \in 1..Len(s) : a + i - 1 = m + i
      BY <1>0 DEF a, b
    <2> QED
      BY <1>0, <1>2, <2>1
  <1>4. SubSeq(t, a, b) = s
    BY <1>2, <1>3, SeqEqual
  <1> QED
    BY <1>4 DEF a, b

(* splitPhone takes apart what joinPhone put together: the first blank is  *)
(* the one after the code, which has none, and the number starts after it. *)
LEMMA SplitStored ==
  ASSUME NEW code \in Seq(Digits), code # <<>>, NEW nat \in Seq(Chars), Inked(nat)
  PROVE  splitPhone(Stored(code, nat)) = [code |-> code, national |-> nat]
  <1> DEFINE t == Stored(code, nat)
             c == Len(code) + 2
             blanks == {i \in DOMAIN t : t[i] = "blank"}
             cut == CHOOSE i \in blanks : \A j \in blanks : i <= j
  <1>0. /\ code \in Seq(Chars) /\ isDigits(code) /\ Len(code) \in Nat /\ Len(nat) \in Nat \ {0}
        /\ \A i \in 1..Len(code) : code[i] \in Digits
    BY DigitsAre, ElementOfSeq, LenProperties, EmptySeq DEF Inked
  <1>1. /\ t \in Seq(Chars) /\ Len(t) = Len(code) + 2 + Len(nat) /\ t[1] = "+"
        /\ \A i \in 1..Len(code) : t[i + 1] = code[i]
        /\ t[c] = "blank"
        /\ \A i \in 1..Len(nat) : t[c + i] = nat[i]
    BY <1>0, StoredIs
  <1>2. DOMAIN t = 1..Len(t) /\ Len(t) \in Nat /\ t # <<>> /\ Head(t) = "+"
    <2>1. DOMAIN t = 1..Len(t) /\ Len(t) \in Nat
      BY <1>1, LenProperties
    <2>2. t # <<>>
      BY <1>0, <1>1, EmptySeq
    <2> QED
      BY <1>1, <2>1, <2>2
  <1> HIDE DEF t
  <1>3. Trim(t) = t
    <2>1. t[Len(t)] = nat[Len(nat)] /\ nat[Len(nat)] # "blank"
      <3>1. Len(nat) \in 1..Len(nat) /\ c + Len(nat) = Len(t)
        BY <1>0, <1>1
      <3>2. t[c + Len(nat)] = nat[Len(nat)]
        BY <1>1, <3>1
      <3> QED
        BY <3>1, <3>2 DEF Inked
    <2>2. Inked(t)
      BY <1>1, <1>2, <2>1 DEF Inked
    <2> QED
      BY <1>1, <2>2, TrimInked
  <1>4. cut = c
    <2>1. c \in blanks
      BY <1>0, <1>1, <1>2
    <2>2. ASSUME NEW j \in blanks PROVE c <= j /\ j \in Nat
      <3>1. j \in 1..Len(t) /\ j \in Nat /\ t[j] = "blank"
        BY <1>2
      <3>2. j # 1
        BY <1>1, <3>1
      <3>3. ASSUME j < c PROVE FALSE
        <4>1. j - 1 \in 1..Len(code) /\ (j - 1) + 1 = j
          BY <1>0, <3>1, <3>2, <3>3
        <4>2. t[j] = code[j - 1]
          BY <1>1, <4>1
        <4> QED
          BY <1>0, <3>1, <4>1, <4>2 DEF Digits
      <3> QED
        BY <1>0, <3>1, <3>3
    <2> HIDE DEF blanks
    <2>3. cut \in blanks /\ \A j \in blanks : cut <= j
      BY <2>1, <2>2
    <2> HIDE DEF cut
    <2> QED
      BY <1>0, <2>1, <2>2, <2>3
  <1>5. SubSeq(t, 2, cut - 1) = code
    <2>1. 1 + Len(code) <= Len(t) /\ \A i \in 1..Len(code) : t[1 + i] = code[i]
      BY <1>0, <1>1
    <2>2. SubSeq(t, 1 + 1, 1 + Len(code)) = code
      BY <1>0, <1>1, <2>1, PartIs
    <2>3. 1 + 1 = 2 /\ 1 + Len(code) = c - 1
      BY <1>0
    <2> QED
      BY <1>4, <2>2, <2>3
  <1>6. Trim(SubSeq(t, cut, Len(t))) = nat
    <2> DEFINE p == <<"blank">> \o nat
    <2>1. <<"blank">> \in Seq(Chars) /\ Len(<<"blank">>) = 1 /\ <<"blank">>[1] = "blank"
      BY DEF Chars
    <2>2. /\ p \in Seq(Chars) /\ Len(p) = 1 + Len(nat)
          /\ \A i \in 1..(1 + Len(nat)) : p[i] = IF i <= 1 THEN <<"blank">>[i] ELSE nat[i - 1]
      BY <2>1, ConcatProperties
    <2> HIDE DEF p
    <2>3. ASSUME NEW i \in 1..Len(p) PROVE t[(Len(code) + 1) + i] = p[i]
      <3>1. CASE i = 1
        <4>1. p[i] = "blank"
          BY <1>0, <2>1, <2>2, <3>1
        <4>2. (Len(code) + 1) + i = c
          BY <1>0, <3>1
        <4> QED
          BY <1>1, <4>1, <4>2
      <3>2. CASE i # 1
        <4>1. i - 1 \in 1..Len(nat) /\ c + (i - 1) = (Len(code) + 1) + i
          BY <1>0, <2>2, <3>2
        <4>2. p[i] = nat[i - 1]
          BY <1>0, <2>2, <3>2
        <4> QED
          BY <1>1, <4>1, <4>2
      <3> QED
        BY <3>1, <3>2
    <2>4. Len(code) + 1 \in Nat /\ (Len(code) + 1) + Len(p) = Len(t)
          /\ (Len(code) + 1) + 1 = c
      BY <1>0, <1>1, <2>2
    <2>5. SubSeq(t, (Len(code) + 1) + 1, (Len(code) + 1) + Len(p)) = p
      <3>1. (Len(code) + 1) + Len(p) <= Len(t)
        BY <1>2, <2>4
      <3> QED
        BY <1>1, <2>2, <2>3, <2>4, <3>1, PartIs
    <2>6. Trim(p) = nat
      BY TrimPadded DEF p
    <2> QED
      BY <1>4, <2>4, <2>5, <2>6
  <1>7. blanks # {}
    BY <1>0, <1>1, <1>2
  <1>8. splitPhone(t) = IF t # <<>> /\ Head(t) = "+" /\ blanks # {} /\ isDigits(SubSeq(t, 2, cut - 1))
                          THEN [code |-> SubSeq(t, 2, cut - 1), national |-> Trim(SubSeq(t, cut, Len(t)))]
                          ELSE [code |-> <<>>, national |-> t]
    BY <1>3 DEF splitPhone
  <1> HIDE DEF blanks, cut
  <1>9. splitPhone(t) = [code |-> code, national |-> nat]
    BY <1>0, <1>2, <1>5, <1>6, <1>7, <1>8
  <1> QED
    BY <1>9 DEF t
-----------------------------------------------------------------------------
(* A number stored from the two halves is stored again as it is ...        *)
LEMMA StoredReturns ==
  ASSUME NEW code \in Seq(Digits), code # <<>>, Len(code) <= MaxCode,
         NEW nat \in Seq(Chars), Inked(nat), isPhoneish(nat),
         isE164(code \o digitsOnly(nat))
  PROVE  Stored(code, nat) \in Seq(Chars) /\ Resubmit(Stored(code, nat)) = Stored(code, nat)
  <1>1. code \in Seq(Chars) /\ isDigits(code) /\ Inked(code) /\ TrimPlus(code) = code
    BY DigitsAre
  <1>2. Stored(code, nat) \in Seq(Chars)
    BY <1>1, StoredIs
  <1>3. Resubmit(Stored(code, nat)) = joinPhone(code, nat)
    BY SplitStored DEF Resubmit
  <1>4. TrimPlus(Trim(code)) = code /\ Trim(nat) = nat /\ nat # <<>>
    BY <1>1, TrimInked DEF Inked
  <1>5. joinPhone(code, nat) = Stored(code, nat)
    BY <1>1, <1>4 DEF joinPhone
  <1> QED
    BY <1>2, <1>3, <1>5

(* ... so is one stored from a full international number ...               *)
LEMMA CompactReturns ==
  ASSUME NEW full \in Seq(Digits), isE164(full)
  PROVE  splitCompact(full) \in Seq(Chars) /\ Resubmit(splitCompact(full)) = splitCompact(full)
  <1> DEFINE code == <<full[1]>>
             nat == Tail(full)
  <1>0. Len(full) \in Nat /\ Len(full) >= 2 /\ full # <<>> /\ full[1] \in Digits
    <2>1. Len(full) \in 2..MaxE164 /\ MaxE164 \in Nat /\ Len(full) \in Nat
      BY PhoneConstants, LenProperties DEF isE164
    <2>2. 1 \in 1..Len(full) /\ Len(full) >= 2
      BY <2>1
    <2>3. full # <<>> /\ full[1] \in Digits
      BY <2>2, ElementOfSeq, EmptySeq
    <2> QED
      BY <2>1, <2>2, <2>3
  <1>1. code \in Seq(Digits) /\ code # <<>> /\ Len(code) = 1 /\ code[1] = full[1]
    BY <1>0
  <1>2. Len(code) <= MaxCode
    BY <1>1, PhoneConstants
  <1>3. /\ nat \in Seq(Digits) /\ Len(nat) = Len(full) - 1
        /\ \A i \in 1..Len(nat) : nat[i] = full[i + 1]
    BY <1>0, HeadTailProperties
  <1> HIDE DEF code, nat
  <1>4. nat # <<>>
    BY <1>0, <1>3, EmptySeq
  <1>5. nat \in Seq(Chars) /\ Inked(nat) /\ digitsOnly(nat) = nat
    BY <1>3, <1>4, DigitsAre
  <1>6. isPhoneish(nat)
    <2>1. \A i \in DOMAIN nat : nat[i] \in Digits
      BY <1>3, ElementOfSeq, LenProperties
    <2> QED
      BY <1>4, <1>5, <2>1 DEF isPhoneish
  <1>7. code \o nat = full
    <2>1. /\ code \o nat \in Seq(Digits) /\ Len(code \o nat) = Len(code) + Len(nat)
          /\ \A i \in 1..(Len(code) + Len(nat)) :
               (code \o nat)[i] = IF i <= Len(code) THEN code[i] ELSE nat[i - Len(code)]
      <3>1. code \in Seq(Digits) /\ nat \in Seq(Digits)
        BY <1>1, <1>3
      <3> QED
        BY <3>1, ConcatProperties
    <2>2. Len(code \o nat) = Len(full)
      BY <1>0, <1>1, <1>3, <2>1
    <2>3. ASSUME NEW i \in 1..Len(full) PROVE (code \o nat)[i] = full[i]
      <3>1. i \in 1..(Len(code) + Len(nat))
        BY <1>0, <1>1, <1>3
      <3>2. CASE i = 1
        BY <1>1, <2>1, <3>1, <3>2
      <3>3. CASE i # 1
        <4>1. ~(i <= Len(code)) /\ i - Len(code) \in 1..Len(nat) /\ (i - Len(code)) + 1 = i
          BY <1>0, <1>1, <1>3, <3>3
        <4> QED
          BY <1>3, <2>1, <3>1, <4>1
      <3> QED
        BY <3>2, <3>3
    <2> QED
      BY <2>1, <2>2, <2>3, SeqEqual
  <1>8. splitCompact(full) = Stored(code, nat)
    BY DEF splitCompact, code, nat
  <1> QED
    BY <1>1, <1>2, <1>5, <1>6, <1>7, <1>8, StoredReturns

(* ... and no number.                                                      *)
LEMMA EmptyReturns == Resubmit(<<>>) = <<>>
  <1>1. Trim(<<>>) = <<>>
    BY DEF Trim
  <1>2. splitPhone(<<>>) = [code |-> <<>>, national |-> <<>>]
    BY <1>1 DEF splitPhone
  <1>3. joinPhone(<<>>, <<>>) = <<>>
    BY <1>1 DEF joinPhone
  <1> QED
    BY <1>2, <1>3 DEF Resubmit

(* Whatever is typed: what joinPhone accepts, it accepts again after       *)
(* splitPhone, and does not change.                                        *)
LEMMA JoinReturns ==
  ASSUME NEW c \in Seq(Chars), NEW n \in Seq(Chars), joinPhone(c, n) # Rejected
  PROVE  joinPhone(c, n) \in Seq(Chars) /\ Resubmit(joinPhone(c, n)) = joinPhone(c, n)
  <1> DEFINE code == TrimPlus(Trim(c))
             nat == Trim(n)
             full == digitsOnly(nat)
  <1>1. nat \in Seq(Chars) /\ (nat = <<>> \/ Inked(nat)) /\ code \in Seq(Chars)
    <2>1. Trim(c) \in Seq(Chars)
      BY TrimResult
    <2>2. code \in Seq(Chars)
      BY <2>1, HeadTailProperties DEF TrimPlus
    <2> QED
      BY <2>2, TrimResult
  <1>2. CASE nat = <<>>
    <2>1. joinPhone(c, n) = <<>>
      BY <1>2 DEF joinPhone
    <2> QED
      BY <2>1, EmptyReturns, EmptySeq
  <1>3. CASE nat # <<>> /\ code = <<>>
    <2>1. joinPhone(c, n) = splitCompact(full) /\ isE164(full)
      BY <1>3 DEF joinPhone
    <2>2. full \in Seq(Digits)
      BY <1>1, <2>1, FoundDigits DEF isE164
    <2> HIDE DEF full
    <2> QED
      BY <2>1, <2>2, CompactReturns
  <1>4. CASE nat # <<>> /\ code # <<>>
    <2>1. /\ joinPhone(c, n) = Stored(code, nat)
          /\ isDigits(code) /\ Len(code) <= MaxCode /\ isPhoneish(nat) /\ isE164(code \o full)
      BY <1>4 DEF joinPhone
    <2> HIDE DEF code, nat
    <2>2. code \in Seq(Digits)
      BY <1>1, <2>1, DigitsIn
    <2> QED
      BY <1>1, <1>4, <2>1, <2>2, StoredReturns
  <1> QED
    BY <1>2, <1>3, <1>4

(* splitPhone returns texts.                                               *)
LEMMA SplitType ==
  ASSUME NEW s \in Seq(Chars)
  PROVE  splitPhone(s).code \in Seq(Chars) /\ splitPhone(s).national \in Seq(Chars)
  <1> DEFINE t == Trim(s)
             blanks == {i \in DOMAIN t : t[i] = "blank"}
             cut == CHOOSE i \in blanks : \A j \in blanks : i <= j
  <1>1. t \in Seq(Chars) /\ DOMAIN t = 1..Len(t) /\ Len(t) \in Nat /\ \A i \in 1..Len(t) : t[i] \in Chars
    BY TrimResult, LenProperties, ElementOfSeq
  <1> HIDE DEF t
  <1>2. CASE blanks # {}
    <2>1. blanks \in SUBSET Nat /\ blanks \in SUBSET (1..Len(t))
      BY <1>1
    <2>2. \E i \in blanks : \A j \in blanks : i <= j
      BY <1>2, <2>1, LeastOne
    <2> HIDE DEF blanks
    <2>3. cut \in blanks
      BY <2>2
    <2> HIDE DEF cut
    <2>4. cut \in 1..Len(t) /\ cut \in Int
      BY <1>1, <2>1, <2>3
    <2>5. SubSeq(t, 2, cut - 1) \in Seq(Chars) /\ SubSeq(t, cut, Len(t)) \in Seq(Chars)
      <3>1. \A i \in 2..(cut - 1) : t[i] \in Chars
        BY <1>1, <2>4
      <3>2. \A i \in cut..Len(t) : t[i] \in Chars
        BY <1>1, <2>4
      <3>3. cut - 1 \in Int /\ Len(t) \in Int
        BY <1>1, <2>4
      <3> QED
        BY <2>4, <3>1, <3>2, <3>3, SubSeqProperties
    <2>6. Trim(SubSeq(t, cut, Len(t))) \in Seq(Chars)
      BY <2>5, TrimResult
    <2>7. splitPhone(s) \in {[code |-> SubSeq(t, 2, cut - 1), national |-> Trim(SubSeq(t, cut, Len(t)))],
                             [code |-> <<>>, national |-> t]}
      BY DEF splitPhone, t, cut, blanks
    <2>8. CASE splitPhone(s) = [code |-> SubSeq(t, 2, cut - 1), national |-> Trim(SubSeq(t, cut, Len(t)))]
      BY <2>5, <2>6, <2>8
    <2>9. CASE splitPhone(s) = [code |-> <<>>, national |-> t]
      BY <1>1, <2>9, EmptySeq
    <2> QED
      BY <2>7, <2>8, <2>9
  <1>3. CASE blanks = {}
    <2>1. splitPhone(s) = [code |-> <<>>, national |-> t]
      BY <1>3 DEF splitPhone, t
    <2> QED
      BY <1>1, <2>1, EmptySeq
  <1> QED
    BY <1>2, <1>3
-----------------------------------------------------------------------------
(* A request holds the entry as it is, but for what was changed since it   *)
(* read - and the new address, in EmailChangeConfirm.                      *)
CopyInv ==
    \A q \in Workers : pc[q] # "idle" =>
        \A f \in Parts \ since[q] :
            copy[q][f] = entry[f] \/ (pc[q] = "confirm" /\ f = "email")

(* The settings can be saved without touching this number.                 *)
Returns(phone) == phone \in OldPhones \/ Resubmit(phone) = phone

(* So it is with the number in the entry and in every copy: a stale copy   *)
(* that is saved does not bring back one that is refused.                  *)
PhoneInv ==
    /\ Returns(entry.phone)
    /\ \A q \in Workers : pc[q] # "idle" => Returns(copy[q].phone)

(* The inductive invariant.                                                *)
ProfileInv ==
    ProfileTypeOK /\ CopyInv /\ EditsPersist /\ EmailIsProven /\ PhoneInv

(* The texts considered are texts.                                         *)
LEMMA TextsAre == Texts \subseteq Seq(Chars)
  <1>1. ASSUME NEW s \in Texts PROVE s \in Seq(Chars)
    <2>1. PICK n \in 0..MaxText : s \in [1..n -> Chars]
      BY <1>1 DEF Texts
    <2>2. n \in Nat
      BY PhoneConstants
    <2> QED
      BY <2>1, <2>2
  <1> QED
    BY <1>1

(* What a form brings, typed or shown by splitPhone, is stored so that it  *)
(* returns.                                                                *)
LEMMA FormReturns ==
  ASSUME ProfileTypeOK, NEW q \in Workers, pc[q] = "handler", NEW form \in Forms(q),
         joinPhone(form.code, form.national) # Rejected
  PROVE  /\ joinPhone(form.code, form.national) \in Seq(Chars)
         /\ Returns(joinPhone(form.code, form.national))
  <1>1. form.code \in Seq(Chars) /\ form.national \in Seq(Chars)
    <2>1. CASE form \in TypedPhones
      <3>1. form.code \in Texts /\ form.national \in Texts
        BY <2>1, ProfileConstants
      <3> QED
        BY <3>1, TextsAre
    <2>2. CASE form = splitPhone(copy[q].phone)
      <3>1. copy[q].phone \in Seq(Chars)
        BY DEF ProfileTypeOK, Entries
      <3> QED
        BY <2>2, <3>1, SplitType
    <2> QED
      BY <2>1, <2>2 DEF Forms
  <1> QED
    BY <1>1, JoinReturns DEF Returns

(* The invariant holds at first.                                           *)
LEMMA ProfileInvInit == ProfileInit => ProfileInv
  <1> SUFFICES ASSUME ProfileInit PROVE ProfileInv
    OBVIOUS
  <1>1. entry.phone \in OldPhones /\ entry.phone \in Seq(Chars)
    BY ProfileConstants, TextsAre DEF ProfileInit
  <1>2. entry \in Entries /\ entry.email \in Emails
    BY <1>1 DEF ProfileInit, Entries
  <1>3. ProfileTypeOK
    BY <1>2 DEF ProfileInit, ProfileTypeOK
  <1> QED
    BY <1>1, <1>3 DEF ProfileInit, ProfileInv, CopyInv, EditsPersist, EmailIsProven, PhoneInv, Returns

(* Giving a user back to UserMod keeps the invariant, when the edited      *)
(* parts are as wanted and the rest is as it was read: a part that is      *)
(* written back unedited was either not changed in between, or goes into   *)
(* overwritten.                                                            *)
LEMMA UserModStep ==
  ASSUME ProfileInv, NEW q \in Workers, NEW user \in Entries, NEW edited \in SUBSET Parts,
         pc[q] # "idle", UserMod(q, user, edited), wanted' \in Entries,
         mailed' \in SUBSET Emails, UNCHANGED proven,
         user.email = copy[q].email, Returns(user.phone),
         \A f \in Parts \ edited : user[f] = copy[q][f] /\ wanted'[f] = wanted[f],
         pc[q] = "confirm" => "email" \in edited,
         \A f \in edited : f \notin since[q] \cap {"keys"} => user[f] = wanted'[f]
  PROVE  ProfileInv'
  <1>0. ProfileTypeOK /\ CopyInv /\ EditsPersist /\ EmailIsProven /\ PhoneInv
    BY DEF ProfileInv
  <1>1. /\ pc' = [pc EXCEPT ![q] = "idle"] /\ copy' = [copy EXCEPT ![q] = NoEntry]
        /\ entry' = user
    BY DEF UserMod, Goto
  <1>2. /\ pc'[q] = "idle"
        /\ \A p \in Workers \ {q} : pc'[p] = pc[p] /\ copy'[p] = copy[p]
    BY <1>0, <1>1 DEF ProfileTypeOK
  <1>3. \A p \in Workers \ {q} : since'[p] = since[p] \cup {f \in Parts : user[f] # entry[f]}
    BY DEF UserMod
  <1>4. since' \in [Workers -> SUBSET Parts] /\ overwritten' \in SUBSET Parts
    <2>1. since[q] \in SUBSET Parts
      BY <1>0 DEF ProfileTypeOK
    <2>2. overwritten' \in SUBSET Parts
      BY <1>0, <2>1 DEF UserMod, ProfileTypeOK
    <2>3. since' \in [Workers -> SUBSET Parts]
      BY <1>0 DEF UserMod, ProfileTypeOK
    <2> QED
      BY <2>2, <2>3
  <1>5. ProfileTypeOK'
    BY <1>0, <1>1, <1>2, <1>4 DEF ProfileTypeOK
  <1>6. CopyInv'
    <2>1. ASSUME NEW p \in Workers, pc'[p] # "idle", NEW f \in Parts \ since'[p]
          PROVE  copy'[p][f] = entry'[f] \/ (pc'[p] = "confirm" /\ f = "email")
      <3>1. p # q /\ pc'[p] = pc[p] /\ copy'[p] = copy[p]
        BY <1>2, <2>1
      <3>2. f \notin since[p] /\ user[f] = entry[f]
        BY <1>3, <2>1, <3>1
      <3> QED
        BY <1>0, <1>1, <2>1, <3>1, <3>2 DEF CopyInv
    <2> QED
      BY <2>1 DEF CopyInv
  <1>7. EditsPersist'
    <2>1. ASSUME NEW f \in Parts \ overwritten' PROVE entry'[f] = wanted'[f]
      <3>1. overwritten' = (overwritten \ edited) \cup (since[q] \ edited) \cup (since[q] \cap {"keys"})
        BY DEF UserMod
      <3>2. CASE f \in edited
        BY <1>1, <2>1, <3>1, <3>2
      <3>3. CASE f \notin edited
        <4>1. f \notin overwritten /\ f \notin since[q]
          BY <2>1, <3>1, <3>3
        <4>2. copy[q][f] = entry[f]
          BY <1>0, <3>3, <4>1 DEF CopyInv
        <4>3. entry[f] = wanted[f]
          BY <1>0, <4>1 DEF EditsPersist
        <4> QED
          BY <1>1, <3>3, <4>2, <4>3
      <3> QED
        BY <3>2, <3>3
    <2> QED
      BY <2>1 DEF EditsPersist
  <1>8. EmailIsProven'
    BY <1>0, <1>1, <1>2 DEF EmailIsProven
  <1>9. PhoneInv'
    BY <1>0, <1>1, <1>2 DEF PhoneInv, Returns
  <1> QED
    BY <1>5, <1>6, <1>7, <1>8, <1>9 DEF ProfileInv

(* So does reading it, with a proven address.                              *)
LEMMA ReadStep ==
  ASSUME ProfileInv, NEW q \in Workers, NEW user \in Entries,
         NEW step \in {"handler", "confirm"}, Read(q, user, step),
         UNCHANGED <<entry, mailed, wanted, overwritten>>,
         proven' \in SUBSET Emails, proven \subseteq proven', user.email \in proven',
         user.phone = entry.phone,
         \A f \in Parts : user[f] = entry[f] \/ (step = "confirm" /\ f = "email")
  PROVE  ProfileInv'
  <1>0. ProfileTypeOK /\ CopyInv /\ EditsPersist /\ EmailIsProven /\ PhoneInv
    BY DEF ProfileInv
  <1>1. /\ pc'[q] = step /\ copy'[q] = user /\ since'[q] = {}
        /\ \A p \in Workers \ {q} : pc'[p] = pc[p] /\ copy'[p] = copy[p] /\ since'[p] = since[p]
    BY <1>0 DEF ProfileTypeOK, Read, Goto
  <1>2. ProfileTypeOK'
    <2>1. pc' \in [Workers -> {"idle", "handler", "confirm"}]
          /\ copy' \in [Workers -> Entries \cup {NoEntry}] /\ since' \in [Workers -> SUBSET Parts]
      BY <1>0 DEF ProfileTypeOK, Read, Goto
    <2> QED
      BY <1>0, <1>1, <2>1 DEF ProfileTypeOK
  <1>3. CopyInv'
    BY <1>0, <1>1 DEF CopyInv
  <1>4. EditsPersist'
    BY <1>0 DEF EditsPersist
  <1>5. EmailIsProven'
    BY <1>0, <1>1 DEF EmailIsProven
  <1>6. PhoneInv'
    BY <1>0, <1>1 DEF PhoneInv, Returns
  <1> QED
    BY <1>2, <1>3, <1>4, <1>5, <1>6 DEF ProfileInv
-----------------------------------------------------------------------------
(* What a request has read.                                                *)
LEMMA HeldCopy ==
  ASSUME ProfileInv, NEW q \in Workers, pc[q] # "idle"
  PROVE  /\ copy[q] \in Entries /\ entry \in Entries /\ wanted \in Entries
         /\ Returns(copy[q].phone) /\ mailed \in SUBSET Emails
  BY DEF ProfileInv, ProfileTypeOK, PhoneInv

(* AccountSettings saves the names and the number, never an address.       *)
LEMMA SettingsStep ==
  ASSUME ProfileInv, NEW q \in Workers, NEW name \in Names \cup {NoName},
         NEW form \in Forms(q), NEW email \in Emails, AccountSettings(q, name, form, email)
  PROVE  ProfileInv'
  <1> DEFINE phone == joinPhone(form.code, form.national)
             user == [copy[q] EXCEPT !.name = name, !.phone = phone]
  <1>1. /\ pc[q] = "handler" /\ phone # Rejected /\ name # NoName
        /\ UserMod(q, user, {"name", "phone"})
        /\ mailed' \in {mailed, mailed \cup {email}} /\ UNCHANGED proven
        /\ wanted' = [wanted EXCEPT !.name = name, !.phone = phone]
    BY DEF AccountSettings
  <1>2. copy[q] \in Entries /\ wanted \in Entries /\ mailed \in SUBSET Emails
    BY <1>1, HeldCopy
  <1>3. phone \in Seq(Chars) /\ Returns(phone) /\ name \in Names
    BY <1>1, FormReturns DEF ProfileInv
  <1> HIDE DEF phone
  <1>4. /\ user \in Entries /\ wanted' \in Entries
        /\ user.email = copy[q].email /\ user.keys = copy[q].keys
        /\ user.name = name /\ user.phone = phone
        /\ wanted'.name = name /\ wanted'.phone = phone
        /\ wanted'.email = wanted.email /\ wanted'.keys = wanted.keys
    BY <1>1, <1>2, <1>3 DEF Entries
  <1> HIDE DEF user
  <1>5. \A f \in Parts \ {"name", "phone"} : user[f] = copy[q][f] /\ wanted'[f] = wanted[f]
    BY <1>4 DEF Parts
  <1>6. \A f \in {"name", "phone"} : user[f] = wanted'[f]
    BY <1>4
  <1>7. {"name", "phone"} \in SUBSET Parts /\ mailed' \in SUBSET Emails
    BY <1>1, <1>2 DEF Parts
  <1>8. /\ pc[q] # "idle" /\ pc[q] # "confirm" /\ Returns(user.phone)
        /\ \A f \in {"name", "phone"} : f \notin since[q] \cap {"keys"} => user[f] = wanted'[f]
        /\ UserMod(q, user, {"name", "phone"}) /\ UNCHANGED proven
        /\ user \in Entries /\ wanted' \in Entries /\ user.email = copy[q].email
    BY <1>1, <1>3, <1>4, <1>6
  <1> QED
    BY <1>5, <1>7, <1>8, UserModStep

(* Saving keys, which are as wanted if none were changed meanwhile.        *)
LEMMA KeysStep ==
  ASSUME ProfileInv, NEW q \in Workers, NEW ks \in SUBSET Keys, NEW ws \in SUBSET Keys,
         pc[q] = "handler", UserMod(q, [copy[q] EXCEPT !.keys = ks], {"keys"}),
         wanted' = [wanted EXCEPT !.keys = ws], UNCHANGED <<mailed, proven>>,
         "keys" \notin since[q] => ks = ws
  PROVE  ProfileInv'
  <1> DEFINE user == [copy[q] EXCEPT !.keys = ks]
  <1>1. /\ copy[q] \in Entries /\ wanted \in Entries /\ mailed' \in SUBSET Emails
        /\ Returns(copy[q].phone)
    BY HeldCopy
  <1>2. /\ user \in Entries /\ wanted' \in Entries
        /\ user.email = copy[q].email /\ user.name = copy[q].name
        /\ user.phone = copy[q].phone /\ user.keys = ks
        /\ wanted'.name = wanted.name /\ wanted'.phone = wanted.phone
        /\ wanted'.email = wanted.email /\ wanted'.keys = ws
    BY <1>1 DEF Entries
  <1>3. UserMod(q, user, {"keys"})
    OBVIOUS
  <1> HIDE DEF user
  <1>4. \A f \in Parts \ {"keys"} : user[f] = copy[q][f] /\ wanted'[f] = wanted[f]
    BY <1>2 DEF Parts
  <1>5. \A f \in {"keys"} : f \notin since[q] \cap {"keys"} => user[f] = wanted'[f]
    BY <1>2
  <1>6. {"keys"} \in SUBSET Parts /\ Returns(user.phone)
    BY <1>1, <1>2 DEF Parts
  <1> QED
    BY <1>1, <1>2, <1>3, <1>4, <1>5, <1>6, UserModStep

(* The keys on the page are the ones in mind unless they were changed      *)
(* since.                                                                  *)
LEMMA KeysKnown ==
  ASSUME ProfileInv, NEW q \in Workers, pc[q] = "handler"
  PROVE  /\ copy[q].keys \in SUBSET Keys /\ KeysInMind(q) \in SUBSET Keys
         /\ "keys" \notin since[q] => KeysInMind(q) = copy[q].keys
  <1>1. copy[q].keys \in SUBSET Keys /\ wanted.keys \in SUBSET Keys
    BY HeldCopy DEF Entries
  <1>2. ASSUME "keys" \notin since[q] PROVE copy[q]["keys"] = entry["keys"]
    BY <1>2 DEF ProfileInv, CopyInv, Parts
  <1>3. ASSUME "keys" \notin overwritten PROVE entry["keys"] = wanted["keys"]
    BY <1>3 DEF ProfileInv, EditsPersist, Parts
  <1> QED
    BY <1>1, <1>2, <1>3 DEF KeysInMind

(* ChangeEmail saves the address and the rest as it was read.              *)
LEMMA EmailStep ==
  ASSUME ProfileInv, NEW q \in Workers, ChangeEmail(q)
  PROVE  ProfileInv'
  <1>1. /\ pc[q] = "confirm" /\ UserMod(q, copy[q], {"email"}) /\ UNCHANGED proven
        /\ wanted' = [wanted EXCEPT !.email = copy[q].email]
        /\ mailed' \in {mailed, mailed \ {copy[q].email}}
    BY DEF ChangeEmail
  <1>2. /\ copy[q] \in Entries /\ wanted \in Entries /\ mailed \in SUBSET Emails
        /\ Returns(copy[q].phone)
    BY <1>1, HeldCopy
  <1>3. /\ wanted' \in Entries /\ wanted'.email = copy[q].email
        /\ wanted'.name = wanted.name /\ wanted'.phone = wanted.phone
        /\ wanted'.keys = wanted.keys
    BY <1>1, <1>2 DEF Entries
  <1>4. \A f \in Parts \ {"email"} : wanted'[f] = wanted[f]
    BY <1>3 DEF Parts
  <1>5. {"email"} \in SUBSET Parts /\ mailed' \in SUBSET Emails
    BY <1>1, <1>2 DEF Parts
  <1>6. pc[q] # "idle" /\ \A f \in {"email"} : copy[q][f] = wanted'[f]
    BY <1>1, <1>3
  <1>7. UserMod(q, copy[q], {"email"}) /\ UNCHANGED proven /\ wanted' \in Entries
    BY <1>1, <1>3
  <1> QED
    BY <1>2, <1>4, <1>5, <1>6, <1>7, UserModStep

(* EmailChangeConfirm: opening the link proves the address.                *)
LEMMA ConfirmStep ==
  ASSUME ProfileInv, NEW q \in Workers, NEW email \in Emails, EmailChangeConfirm(q, email)
  PROVE  ProfileInv'
  <1> DEFINE user == [entry EXCEPT !.email = email]
  <1>1. entry \in Entries /\ proven \in SUBSET Emails
    BY DEF ProfileInv, ProfileTypeOK
  <1>2. /\ user \in Entries /\ user.email = email /\ user.name = entry.name
        /\ user.phone = entry.phone /\ user.keys = entry.keys
    BY <1>1 DEF Entries
  <1>3. /\ Read(q, user, "confirm") /\ proven' = proven \cup {email}
        /\ UNCHANGED <<entry, mailed, wanted, overwritten>>
    BY DEF EmailChangeConfirm
  <1> HIDE DEF user
  <1>4. \A f \in Parts : user[f] = entry[f] \/ f = "email"
    BY <1>2 DEF Parts
  <1>5. proven' \in SUBSET Emails /\ proven \subseteq proven' /\ user.email \in proven'
    BY <1>1, <1>2, <1>3
  <1> QED
    BY <1>2, <1>3, <1>4, <1>5, ReadStep

(* RequireLogin reads an entry whose address is proven.                    *)
LEMMA LoginStep ==
  ASSUME ProfileInv, NEW q \in Workers, RequireLogin(q)
  PROVE  ProfileInv'
  <1>1. entry \in Entries /\ proven \in SUBSET Emails /\ entry.email \in proven
    BY DEF ProfileInv, ProfileTypeOK, EmailIsProven
  <1>2. Read(q, entry, "handler") /\ UNCHANGED <<entry, mailed, wanted, overwritten, proven>>
    BY DEF RequireLogin
  <1>3. proven' \in SUBSET Emails /\ proven \subseteq proven' /\ entry.email \in proven'
    BY <1>1, <1>2
  <1> QED
    BY <1>1, <1>2, <1>3, ReadStep

(* A request that saves nothing.                                           *)
LEMMA RefusedStep ==
  ASSUME ProfileInv, NEW q \in Workers, NothingSaved(q)
  PROVE  ProfileInv'
  <1>0. ProfileTypeOK /\ CopyInv /\ EditsPersist /\ EmailIsProven /\ PhoneInv
    BY DEF ProfileInv
  <1>1. /\ pc'[q] = "idle"
        /\ \A p \in Workers \ {q} : pc'[p] = pc[p] /\ copy'[p] = copy[p] /\ since'[p] = since[p]
        /\ UNCHANGED <<entry, mailed, wanted, overwritten, proven>>
    BY <1>0 DEF ProfileTypeOK, NothingSaved, Goto
  <1>2. ProfileTypeOK'
    BY <1>0, <1>1 DEF ProfileTypeOK, NothingSaved, Goto
  <1>3. CopyInv' /\ EditsPersist'
    BY <1>0, <1>1 DEF CopyInv, EditsPersist
  <1>4. EmailIsProven' /\ PhoneInv'
    BY <1>0, <1>1 DEF EmailIsProven, PhoneInv, Returns
  <1> QED
    BY <1>2, <1>3, <1>4 DEF ProfileInv

(* Every step keeps the invariant.                                         *)
LEMMA ProfileInvStep == ProfileInv /\ [ProfileNext]_profileVars => ProfileInv'
  <1> SUFFICES ASSUME ProfileInv, [ProfileNext]_profileVars PROVE ProfileInv'
    OBVIOUS
  <1>1. ASSUME NEW q \in Workers, NEW k \in Keys, SSHKeyAdd(q, k) PROVE ProfileInv'
    <2>1. pc[q] = "handler" /\ "keys" \notin since[q] => KeysInMind(q) = copy[q].keys
      BY <1>1, KeysKnown DEF SSHKeyAdd
    <2>2. copy[q].keys \in SUBSET Keys /\ KeysInMind(q) \in SUBSET Keys
      BY <1>1, KeysKnown DEF SSHKeyAdd
    <2>3. copy[q].keys \cup {k} \in SUBSET Keys /\ KeysInMind(q) \cup {k} \in SUBSET Keys
      BY <2>2
    <2>4. /\ UserMod(q, [copy[q] EXCEPT !.keys = copy[q].keys \cup {k}], {"keys"})
          /\ wanted' = [wanted EXCEPT !.keys = KeysInMind(q) \cup {k}]
          /\ UNCHANGED <<mailed, proven>> /\ pc[q] = "handler"
      BY <1>1 DEF SSHKeyAdd
    <2> QED
      BY <2>1, <2>3, <2>4, KeysStep
  <1>2. ASSUME NEW q \in Workers, NEW k \in Keys, SSHKeyRemove(q, k) PROVE ProfileInv'
    <2>1. pc[q] = "handler" /\ "keys" \notin since[q] => KeysInMind(q) = copy[q].keys
      BY <1>2, KeysKnown DEF SSHKeyRemove
    <2>2. copy[q].keys \in SUBSET Keys /\ KeysInMind(q) \in SUBSET Keys
      BY <1>2, KeysKnown DEF SSHKeyRemove
    <2>3. copy[q].keys \ {k} \in SUBSET Keys /\ KeysInMind(q) \ {k} \in SUBSET Keys
      BY <2>2
    <2>4. /\ UserMod(q, [copy[q] EXCEPT !.keys = copy[q].keys \ {k}], {"keys"})
          /\ wanted' = [wanted EXCEPT !.keys = KeysInMind(q) \ {k}]
          /\ UNCHANGED <<mailed, proven>> /\ pc[q] = "handler"
      BY <1>2 DEF SSHKeyRemove
    <2> QED
      BY <2>1, <2>3, <2>4, KeysStep
  <1>3. CASE UNCHANGED profileVars
    BY <1>3 DEF profileVars, ProfileInv, ProfileTypeOK, CopyInv, EditsPersist, EmailIsProven, PhoneInv, Returns
  <1> QED
    BY <1>1, <1>2, <1>3, LoginStep, RefusedStep, EmailStep, ConfirmStep, SettingsStep DEF ProfileNext
-----------------------------------------------------------------------------
(* The invariant holds throughout: copies differ from the entry only in    *)
(* what was changed since they were read, and carry proven addresses and   *)
(* numbers that return.                                                    *)
THEOREM ProfileInvHolds == ProfileSpec => []ProfileInv
  BY ProfileInvInit, ProfileInvStep, PTL DEF ProfileSpec

(* It is stronger than the statements about the entry.                     *)
LEMMA ProfileInvImplies ==
  ProfileInv => ProfileTypeOK /\ EditsPersist /\ EmailIsProven /\ AcceptedNumberReturns
  BY DEF ProfileInv, PhoneInv, Returns, AcceptedNumberReturns

(* The types, for any users' requests and texts (account.go,               *)
(* sshpubkey.go).                                                          *)
THEOREM ProfileTypeCorrect == ProfileSpec => []ProfileTypeOK
  BY ProfileInvHolds, ProfileInvImplies, PTL

(* Every part of the entry is as its last edit left it, unless a request   *)
(* that had read it before saved it after (account.go, sshpubkey.go).      *)
THEOREM SavedEditsStay == ProfileSpec => []EditsPersist
  BY ProfileInvHolds, ProfileInvImplies, PTL

(* Whatever requests of the settings, key and confirmation pages           *)
(* interleave, the address in FreeIPA is one the user had before or opened *)
(* a link from.                                                            *)
THEOREM AddressesAreProven == ProfileSpec => []EmailIsProven
  BY ProfileInvHolds, ProfileInvImplies, PTL

(* A number that mokey accepted passes splitPhone and joinPhone unchanged, *)
(* for texts of any length and any limits on codes and numbers (phone.go). *)
THEOREM NumbersRoundTrip == ProfileSpec => []AcceptedNumberReturns
  BY ProfileInvHolds, ProfileInvImplies, PTL
=============================================================================
