--------------------------- MODULE ChallengeProofs --------------------------
(***************************************************************************)
(* Theorems about Challenge: for any puzzles, nodes, calls and limits.     *)
(***************************************************************************)
EXTENDS Challenge, FiniteSetTheorems, SequenceTheorems, WellFoundedInduction, TLAPS

-----------------------------------------------------------------------------
(* A node's store. *)

Entries(s) == {s.ordered[k] : k \in Queued(s)}

\* The map holds the markers in the queue, each once, and no marker is much
\* older than one before it.
StoreRight(s) ==
    /\ s \in Store /\ s.head <= Len(s.ordered)
    /\ Cardinality(s.used) <= MaxStored
    /\ \A k \in Queued(s) : s.ordered[k] \in Entry
    /\ s.used = {s.ordered[k].nonce : k \in Queued(s)}
    /\ \A j, k \in Queued(s) : s.ordered[j].nonce = s.ordered[k].nonce => j = k
    /\ \A j, k \in Queued(s) : j < k => s.ordered[j].left - MaxPause <= s.ordered[k].left

LEMMA Bounds ==
  /\ MaxAge \in Nat \ {0} /\ MaxStored \in Nat \ {0} /\ CompactAfter \in Nat
  /\ MaxPause \in Nat /\ Admissions \in Nat \ {0}
  /\ IsFiniteSet(Nonces) /\ IsFiniteSet(Calls) /\ Redis \notin Nodes
  /\ Overdue \in Int /\ Overdue <= 0 /\ Overdue = - (2 * MaxPause)
<1>1. MaxPause \in Nat
  BY ChallengeAssumption
<1>2. Overdue \in Int /\ Overdue <= 0
  BY <1>1 DEF Overdue
<1> QED BY <1>1, <1>2, StoreAssumption, ChallengeAssumption DEF Redis, Overdue

LEMMA EntryType ==
  ASSUME NEW e \in Entry PROVE e.nonce \in Nonces /\ e.left \in Int /\ e.left <= MaxAge
  BY Bounds DEF Entry

LEMMA QueueType ==
  ASSUME NEW s, StoreRight(s)
  PROVE  /\ s.used \subseteq Nonces /\ IsFiniteSet(s.used)
         /\ s.head \in Nat /\ Len(s.ordered) \in Nat /\ s.head <= Len(s.ordered)
         /\ s.ordered \in Seq(Entry \cup {Blank})
         /\ \A k \in Queued(s) : k \in 1 .. Len(s.ordered)
         /\ \A k : k \in Queued(s) <=> (k \in Nat /\ s.head < k /\ k <= Len(s.ordered))
<1>1. s.used \subseteq Nonces /\ s.head \in Nat /\ s.ordered \in Seq(Entry \cup {Blank}) /\ s.head <= Len(s.ordered)
  BY DEF StoreRight, Store
<1>2. Len(s.ordered) \in Nat
  BY <1>1
<1>3. IsFiniteSet(s.used)
  BY <1>1, Bounds, FS_Subset
<1> QED BY <1>1, <1>2, <1>3 DEF Queued

LEMMA Smallest ==
  ASSUME NEW T, T \subseteq Nat, T # {} PROVE \E x \in T : \A y \in T : x <= y
<1> DEFINE R == OpToRel(<, Nat)
<1>1. PICK x \in T : \A y \in T : ~ (<<y, x>> \in R)
  <2>1. IsWellFoundedOn(R, Nat)
    BY NatLessThanWellFounded
  <2> HIDE DEF R
  <2> QED BY <2>1, WFMin
<1>2. \A y \in T : ~ (y < x)
  BY <1>1 DEF OpToRel
<1> QED BY <1>2

\* What is swept is a piece of the queue from its front.
LEMMA SweptFront ==
  ASSUME NEW s, StoreRight(s), NEW lag \in Int
  PROVE  \E m \in Nat :
            /\ s.head <= m /\ m <= Len(s.ordered)
            /\ Swept(s, lag) = s.head + 1 .. m
            /\ Cardinality(Swept(s, lag)) = m - s.head
            /\ m < Len(s.ordered) => ~ Lapsed(s, m + 1, lag)
<1> DEFINE Alive == {k \in Queued(s) : ~ Lapsed(s, k, lag)}
<1>1. /\ s.head \in Nat /\ Len(s.ordered) \in Nat /\ s.head <= Len(s.ordered)
      /\ \A k : k \in Queued(s) <=> (k \in Nat /\ s.head < k /\ k <= Len(s.ordered))
  BY QueueType
<1>2. CASE Alive = {}
  <2>1. Swept(s, lag) = Queued(s)
    BY <1>2 DEF Swept
  <2>2. Swept(s, lag) = s.head + 1 .. Len(s.ordered)
    BY <2>1 DEF Queued
  <2>3. Cardinality(s.head + 1 .. Len(s.ordered)) = Len(s.ordered) - s.head
    <3>1. s.head + 1 \in Int /\ Len(s.ordered) \in Int
      BY <1>1
    <3>2. Cardinality(s.head + 1 .. Len(s.ordered)) =
            IF s.head + 1 > Len(s.ordered) THEN 0 ELSE Len(s.ordered) - (s.head + 1) + 1
      BY <3>1, FS_Interval
    <3> QED BY <1>1, <3>2
  <2> QED BY <1>1, <2>2, <2>3
<1>3. CASE Alive # {}
  <2>1. Alive \in SUBSET Nat
    BY <1>1
  <2>2. PICK first \in Alive : \A k \in Alive : first <= k
    BY <1>3, <2>1, Smallest
  <2> DEFINE m == first - 1
  <2>3. /\ first \in Nat /\ s.head < first /\ first <= Len(s.ordered) /\ ~ Lapsed(s, first, lag)
    BY <1>1, <2>2
  <2>4. m \in Nat /\ s.head <= m /\ m < Len(s.ordered) /\ m + 1 = first
    BY <1>1, <2>3
  <2>5. \A k \in Queued(s) : k < first => Lapsed(s, k, lag)
    BY <1>1, <2>2, <2>3
  <2>6. Swept(s, lag) = s.head + 1 .. m
    <3>1. ASSUME NEW k \in Swept(s, lag) PROVE k \in s.head + 1 .. m
      <4>1. k \in Queued(s) /\ first \in Queued(s) /\ (first <= k => Lapsed(s, first, lag))
        BY <2>2, <3>1 DEF Swept
      <4> QED BY <1>1, <2>3, <4>1
    <3>2. ASSUME NEW k \in s.head + 1 .. m PROVE k \in Swept(s, lag)
      <4>1. k \in Queued(s) /\ k < first
        BY <1>1, <2>3, <3>2
      <4>2. \A j \in Queued(s) : j <= k => Lapsed(s, j, lag)
        BY <1>1, <2>3, <2>5, <4>1
      <4> QED BY <4>1, <4>2 DEF Swept
    <3> QED BY <3>1, <3>2
  <2>7. Cardinality(s.head + 1 .. m) = m - s.head
    <3>1. s.head + 1 \in Int /\ m \in Int
      BY <1>1, <2>4
    <3> HIDE DEF m
    <3>2. Cardinality(s.head + 1 .. m) = IF s.head + 1 > m THEN 0 ELSE m - (s.head + 1) + 1
      BY <3>1, FS_Interval
    <3> QED BY <1>1, <2>4, <3>2
  <2> QED BY <2>3, <2>4, <2>6, <2>7
<1> QED BY <1>2, <1>3

LEMMA Distinct == ASSUME NEW s, StoreRight(s), NEW j \in Queued(s), NEW k \in Queued(s), j # k
                  PROVE s.ordered[j].nonce # s.ordered[k].nonce
  BY DEF StoreRight

\* A sweep removes lapsed markers and nothing else, and stops at one that
\* has not lapsed.
LEMMA SweepRight ==
  ASSUME NEW s, StoreRight(s), NEW lag \in Int
  PROVE  LET t == Sweep(s, lag)
         IN  /\ StoreRight(t) /\ t.used \subseteq s.used
             /\ Queued(t) \subseteq Queued(s)
             /\ \A k \in Queued(t) : t.ordered[k] = s.ordered[k]
             /\ \A k \in Queued(s) \ Queued(t) : Lapsed(s, k, lag)
             /\ s.head <= t.head
             /\ Len(t.ordered) = Len(s.ordered)
             /\ Queued(t) # {} => ~ Lapsed(s, t.head + 1, lag)
<1> DEFINE t == Sweep(s, lag)
           gone == Swept(s, lag)
<1>1. /\ s.used \subseteq Nonces /\ IsFiniteSet(s.used)
      /\ s.head \in Nat /\ Len(s.ordered) \in Nat /\ s.head <= Len(s.ordered)
      /\ s.ordered \in Seq(Entry \cup {Blank})
      /\ \A k : k \in Queued(s) <=> (k \in Nat /\ s.head < k /\ k <= Len(s.ordered))
  BY QueueType
<1>2. PICK m \in Nat :
            /\ s.head <= m /\ m <= Len(s.ordered)
            /\ gone = s.head + 1 .. m
            /\ Cardinality(gone) = m - s.head
            /\ m < Len(s.ordered) => ~ Lapsed(s, m + 1, lag)
  BY SweptFront
<1>3. gone \subseteq Queued(s) /\ \A k \in gone : Lapsed(s, k, lag)
  BY <1>1 DEF Swept
<1> HIDE DEF gone
<1>4. /\ t.used = s.used \ {s.ordered[k].nonce : k \in gone}
      /\ t.ordered = [k \in 1 .. Len(s.ordered) |-> IF k \in gone THEN Blank ELSE s.ordered[k]]
      /\ t.head = s.head + Cardinality(gone)
      /\ t = [used |-> t.used, ordered |-> t.ordered, head |-> t.head]
  BY DEF Sweep, gone
<1> HIDE DEF t
<1>5. t.head = m
  BY <1>1, <1>2, <1>4
<1>6. /\ t.ordered \in Seq(Entry \cup {Blank}) /\ Len(t.ordered) = Len(s.ordered)
      /\ \A k \in 1 .. Len(s.ordered) : t.ordered[k] = IF k \in gone THEN Blank ELSE s.ordered[k]
  <2>1. \A k \in 1 .. Len(s.ordered) : s.ordered[k] \in Entry \cup {Blank}
    BY <1>1
  <2> QED BY <1>1, <1>4, <2>1
<1>7. \A k : k \in Queued(t) <=> (k \in Queued(s) /\ k \notin gone)
  BY <1>1, <1>2, <1>5, <1>6 DEF Queued
<1>8. \A k \in Queued(t) : t.ordered[k] = s.ordered[k]
  BY <1>1, <1>6, <1>7
<1>9. \A k \in Queued(s) \ Queued(t) : Lapsed(s, k, lag)
  BY <1>3, <1>7
<1>10. t.used \subseteq s.used /\ Cardinality(t.used) <= Cardinality(s.used)
  BY <1>1, <1>4, FS_Subset
<1>11. StoreRight(t)
  <2>1. t \in Store /\ t.head <= Len(t.ordered)
    BY <1>1, <1>2, <1>4, <1>5, <1>6, <1>10 DEF Store
  <2>2. Cardinality(t.used) <= MaxStored
    <3>1. Cardinality(s.used) \in Nat /\ Cardinality(t.used) \in Nat
      BY <1>1, <1>10, FS_Subset, FS_CardinalityType
    <3> QED BY <1>10, <3>1, Bounds DEF StoreRight
  <2>3. \A k \in Queued(t) : t.ordered[k] \in Entry
    BY <1>7, <1>8 DEF StoreRight
  <2>4. t.used = {t.ordered[k].nonce : k \in Queued(t)}
    <3>1. ASSUME NEW n \in t.used PROVE \E k \in Queued(t) : n = t.ordered[k].nonce
      <4>1. PICK k \in Queued(s) : n = s.ordered[k].nonce
        BY <1>10, <3>1 DEF StoreRight
      <4>2. k \notin gone
        BY <1>4, <3>1, <4>1
      <4> QED BY <1>7, <1>8, <4>1, <4>2
    <3>2. ASSUME NEW k \in Queued(t) PROVE t.ordered[k].nonce \in t.used
      <4>1. k \in Queued(s) /\ k \notin gone /\ t.ordered[k] = s.ordered[k]
        BY <1>7, <1>8
      <4>2. s.ordered[k].nonce \in s.used
        BY <4>1 DEF StoreRight
      <4>3. \A j \in gone : s.ordered[j].nonce # s.ordered[k].nonce
        BY <1>3, <4>1, Distinct
      <4> QED BY <1>4, <4>1, <4>2, <4>3
    <3> QED BY <3>1, <3>2
  <2>5. \A j, k \in Queued(t) : t.ordered[j].nonce = t.ordered[k].nonce => j = k
    BY <1>7, <1>8, Distinct
  <2>6. \A j, k \in Queued(t) : j < k => t.ordered[j].left - MaxPause <= t.ordered[k].left
    BY <1>7, <1>8 DEF StoreRight
  <2> QED BY <2>1, <2>2, <2>3, <2>4, <2>5, <2>6 DEF StoreRight
<1>12. Queued(t) # {} => ~ Lapsed(s, t.head + 1, lag)
  <2>1. ASSUME NEW k \in Queued(t) PROVE m < Len(s.ordered)
    BY <1>1, <1>2, <1>5, <1>6 DEF Queued
  <2> QED BY <1>2, <1>5, <2>1
<1> QED BY <1>2, <1>5, <1>6, <1>7, <1>8, <1>9, <1>10, <1>11, <1>12 DEF t

\* Compaction moves the queue to the front of its array.
LEMMA CompactRight ==
  ASSUME NEW s, StoreRight(s)
  PROVE  StoreRight(Compact(s)) /\ Compact(s).used = s.used /\ Entries(Compact(s)) = Entries(s)
<1> DEFINE t == [used |-> s.used, ordered |-> SubSeq(s.ordered, s.head + 1, Len(s.ordered)), head |-> 0]
<1>1. /\ s.used \subseteq Nonces /\ s.head \in Nat /\ Len(s.ordered) \in Nat /\ s.head <= Len(s.ordered)
      /\ s.ordered \in Seq(Entry \cup {Blank})
      /\ \A k : k \in Queued(s) <=> (k \in Nat /\ s.head < k /\ k <= Len(s.ordered))
  BY QueueType
<1>2. /\ t.ordered \in Seq(Entry \cup {Blank}) /\ Len(t.ordered) = Len(s.ordered) - s.head
      /\ \A k \in 1 .. Len(s.ordered) - s.head : t.ordered[k] = s.ordered[k + s.head]
  <2>1. \A k \in s.head + 1 .. Len(s.ordered) : s.ordered[k] \in Entry \cup {Blank}
    BY <1>1
  <2>2. s.head + 1 \in Int /\ Len(s.ordered) \in Int
    BY <1>1
  <2>3. /\ t.ordered \in Seq(Entry \cup {Blank})
        /\ Len(t.ordered) = IF s.head + 1 <= Len(s.ordered) THEN Len(s.ordered) - (s.head + 1) + 1 ELSE 0
        /\ \A i \in 1 .. Len(s.ordered) - (s.head + 1) + 1 : t.ordered[i] = s.ordered[s.head + 1 + i - 1]
    BY <2>1, <2>2, SubSeqProperties
  <2>4. \A k \in 1 .. Len(s.ordered) - s.head : s.head + 1 + k - 1 = k + s.head
    BY <1>1
  <2>5. Len(s.ordered) - (s.head + 1) + 1 = Len(s.ordered) - s.head
    BY <1>1
  <2> HIDE DEF t
  <2>6. Len(t.ordered) = Len(s.ordered) - s.head
    BY <1>1, <2>3
  <2>7. ASSUME NEW k \in 1 .. Len(s.ordered) - s.head PROVE t.ordered[k] = s.ordered[k + s.head]
    <3>1. t.ordered[k] = s.ordered[s.head + 1 + k - 1]
      BY <2>3, <2>5
    <3> QED BY <2>4, <3>1
  <2> QED BY <2>3, <2>6, <2>7
<1>3. t.head = 0 /\ t.used = s.used
  OBVIOUS
<1>4. t \in Store
  BY <1>1, <1>2 DEF Store
<1> HIDE DEF t
<1>5. \A k : k \in Queued(t) <=> k \in 1 .. Len(s.ordered) - s.head
  BY <1>1, <1>2, <1>3 DEF Queued
<1>6. \A k \in Queued(t) : k + s.head \in Queued(s) /\ t.ordered[k] = s.ordered[k + s.head]
  <2> TAKE k \in Queued(t)
  <2>1. k \in 1 .. Len(s.ordered) - s.head
    BY <1>5
  <2>2. k + s.head \in Nat /\ s.head < k + s.head /\ k + s.head <= Len(s.ordered)
    BY <1>1, <2>1
  <2> QED BY <1>1, <1>2, <2>1, <2>2
<1>7. \A k \in Queued(s) : k - s.head \in Queued(t) /\ t.ordered[k - s.head] = s.ordered[k]
  <2> TAKE k \in Queued(s)
  <2>1. k - s.head \in 1 .. Len(s.ordered) - s.head
    BY <1>1
  <2>2. k - s.head + s.head = k
    BY <1>1
  <2> QED BY <1>5, <1>6, <2>1, <2>2
<1>8. Entries(t) = Entries(s)
  BY <1>6, <1>7 DEF Entries
<1>9. StoreRight(t)
  <2>1. t.head <= Len(t.ordered) /\ Cardinality(t.used) <= MaxStored
    BY <1>1, <1>2, <1>3 DEF StoreRight
  <2>2. \A k \in Queued(t) : t.ordered[k] \in Entry
    BY <1>6 DEF StoreRight
  <2>3. t.used = {t.ordered[k].nonce : k \in Queued(t)}
    <3>1. t.used = {s.ordered[k].nonce : k \in Queued(s)}
      BY <1>3 DEF StoreRight
    <3> QED BY <1>6, <1>7, <3>1
  <2>4. \A j, k \in Queued(t) : t.ordered[j].nonce = t.ordered[k].nonce => j = k
    <3> TAKE j, k \in Queued(t)
    <3>1. j \in Nat /\ k \in Nat
      BY <1>1, <1>5
    <3>2. t.ordered[j].nonce = t.ordered[k].nonce => j + s.head = k + s.head
      BY <1>6 DEF StoreRight
    <3> QED BY <1>1, <3>1, <3>2
  <2>5. \A j, k \in Queued(t) : j < k => t.ordered[j].left - MaxPause <= t.ordered[k].left
    <3> TAKE j, k \in Queued(t)
    <3>1. j \in Nat /\ k \in Nat
      BY <1>1, <1>5
    <3>2. j < k => j + s.head < k + s.head
      BY <1>1, <3>1
    <3> QED BY <1>6, <3>2 DEF StoreRight
  <2> QED BY <1>4, <2>1, <2>2, <2>3, <2>4, <2>5 DEF StoreRight
<1> QED BY <1>3, <1>8, <1>9 DEF Compact, t

\* A marker goes to the end of the queue.
LEMMA MarkRight ==
  ASSUME NEW s, StoreRight(s), NEW n \in Nonces, Accepts(s, n), NEW lag \in 0 .. MaxPause
  PROVE  LET e == [nonce |-> n, left |-> MaxAge - lag]
         IN  /\ StoreRight(Mark(s, n, lag)) /\ Mark(s, n, lag).used = s.used \cup {n}
             /\ Entries(Mark(s, n, lag)) = Entries(s) \cup {e}
<1> DEFINE e == [nonce |-> n, left |-> MaxAge - lag]
           t == [used |-> s.used \cup {n}, ordered |-> Append(s.ordered, e), head |-> s.head]
           last == Len(s.ordered) + 1
<1>1. /\ s.used \subseteq Nonces /\ IsFiniteSet(s.used)
      /\ s.head \in Nat /\ Len(s.ordered) \in Nat /\ s.head <= Len(s.ordered)
      /\ s.ordered \in Seq(Entry \cup {Blank})
      /\ \A k : k \in Queued(s) <=> (k \in Nat /\ s.head < k /\ k <= Len(s.ordered))
  BY QueueType
<1>2. n \notin s.used /\ Cardinality(s.used) < MaxStored
  BY DEF Accepts
<1>3. lag \in Int /\ 0 <= lag /\ lag <= MaxPause /\ MaxAge - lag \in Overdue .. MaxAge
  BY Bounds
<1>4. e \in Entry /\ e.nonce = n /\ e.left = MaxAge - lag
  BY <1>3 DEF Entry
<1> HIDE DEF e
<1>5. /\ t.ordered \in Seq(Entry \cup {Blank}) /\ Len(t.ordered) = last
      /\ \A k \in 1 .. Len(s.ordered) : t.ordered[k] = s.ordered[k]
      /\ t.ordered[last] = e
  BY <1>1, <1>4
<1>6. t.head = s.head /\ t.used = s.used \cup {n}
  OBVIOUS
<1>7. t \in Store
  BY <1>1, <1>5 DEF Store
<1> HIDE DEF t
<1>8. /\ \A k : k \in Queued(t) <=> (k \in Queued(s) \/ k = last)
      /\ \A k \in Queued(s) : t.ordered[k] = s.ordered[k] /\ k \in Nat /\ k < last
  BY <1>1, <1>5, <1>6 DEF Queued
<1>9. StoreRight(t)
  <2>1. t.head <= Len(t.ordered)
    BY <1>1, <1>5, <1>6
  <2>2. Cardinality(t.used) <= MaxStored
    <3>1. Cardinality(t.used) = Cardinality(s.used) + 1
      BY <1>1, <1>2, <1>6, FS_AddElement
    <3>2. Cardinality(s.used) \in Nat
      BY <1>1, FS_CardinalityType
    <3> QED BY <1>2, <3>1, <3>2, Bounds
  <2>3. \A k \in Queued(t) : t.ordered[k] \in Entry
    BY <1>4, <1>5, <1>8 DEF StoreRight
  <2>4. t.used = {t.ordered[k].nonce : k \in Queued(t)}
    <3>1. s.used = {s.ordered[k].nonce : k \in Queued(s)}
      BY DEF StoreRight
    <3>2. ASSUME NEW k \in Queued(t) PROVE t.ordered[k].nonce \in t.used
      <4>1. CASE k \in Queued(s)
        BY <1>6, <1>8, <3>1, <4>1
      <4>2. CASE k = last
        BY <1>4, <1>5, <1>6, <4>2
      <4> QED BY <1>8, <4>1, <4>2
    <3>3. ASSUME NEW m \in t.used PROVE \E k \in Queued(t) : m = t.ordered[k].nonce
      <4>1. CASE m \in s.used
        BY <1>8, <3>1, <4>1
      <4>2. CASE m = n
        BY <1>4, <1>5, <1>8, <4>2
      <4> QED BY <1>6, <3>3, <4>1, <4>2
    <3> QED BY <3>2, <3>3
  <2>5. \A j, k \in Queued(t) : t.ordered[j].nonce = t.ordered[k].nonce => j = k
    <3>1. \A k \in Queued(s) : s.ordered[k].nonce # n
      BY <1>2 DEF StoreRight
    <3>2. t.ordered[last].nonce = n
      BY <1>4, <1>5
    <3> SUFFICES ASSUME NEW j \in Queued(t), NEW k \in Queued(t),
                        t.ordered[j].nonce = t.ordered[k].nonce
                 PROVE  j = k
      OBVIOUS
    <3>3. (j \in Queued(s) \/ j = last) /\ (k \in Queued(s) \/ k = last)
      BY <1>8
    <3>4. CASE j \in Queued(s) /\ k \in Queued(s)
      BY <1>8, <3>4, Distinct
    <3>5. CASE j \in Queued(s) /\ k = last
      BY <1>8, <3>1, <3>2, <3>5
    <3>6. CASE j = last /\ k \in Queued(s)
      BY <1>8, <3>1, <3>2, <3>6
    <3> QED BY <3>3, <3>4, <3>5, <3>6
  <2>6. \A j, k \in Queued(t) : j < k => t.ordered[j].left - MaxPause <= t.ordered[k].left
    <3> SUFFICES ASSUME NEW j \in Queued(t), NEW k \in Queued(t), j < k
                 PROVE  t.ordered[j].left - MaxPause <= t.ordered[k].left
      OBVIOUS
    <3>1. j \in Queued(s)
      BY <1>1, <1>8
    <3>2. CASE k = last
      <4>1. s.ordered[j] \in Entry
        BY <3>1 DEF StoreRight
      <4>2. s.ordered[j].left \in Int /\ s.ordered[j].left <= MaxAge
        BY <4>1, EntryType
      <4>3. t.ordered[j].left = s.ordered[j].left /\ t.ordered[k].left = MaxAge - lag
        BY <1>4, <1>5, <1>8, <3>1, <3>2
      <4> QED BY <1>3, <4>2, <4>3, Bounds
    <3>3. CASE k \in Queued(s)
      BY <1>8, <3>1, <3>3 DEF StoreRight
    <3> QED BY <1>8, <3>2, <3>3
  <2> QED BY <1>7, <2>1, <2>2, <2>3, <2>4, <2>5, <2>6 DEF StoreRight
<1>10. Entries(t) = Entries(s) \cup {e}
  BY <1>5, <1>8 DEF Entries
<1>11. Mark(s, n, lag) = Compact(t)
  BY DEF Mark, t, e
<1> QED BY <1>6, <1>9, <1>10, <1>11, CompactRight DEF e

\* One call of Consume.
LEMMA ConsumeRight ==
  ASSUME NEW s, StoreRight(s), NEW n \in Nonces, NEW lag \in 0 .. MaxPause
  PROVE  LET t == Consumed(s, n, lag)
             accepts == Accepts(Sweep(s, lag), n)
         IN  /\ StoreRight(t)
             /\ Entries(t) \subseteq Entries(s)
                    \cup (IF accepts THEN {[nonce |-> n, left |-> MaxAge - lag]} ELSE {})
             /\ \A e \in Entries(s) : e.nonce \notin t.used => e.left + lag <= 0
             /\ accepts => n \in t.used
             /\ accepts => \A e \in Entries(s) : e.nonce = n => e.left + lag <= 0
<1> DEFINE swept == Sweep(s, lag)
           accepts == Accepts(swept, n)
<1>1. lag \in Int
  BY Bounds
<1>2. /\ StoreRight(swept) /\ swept.used \subseteq s.used
      /\ Queued(swept) \subseteq Queued(s)
      /\ \A k \in Queued(swept) : swept.ordered[k] = s.ordered[k]
      /\ \A k \in Queued(s) \ Queued(swept) : Lapsed(s, k, lag)
  BY <1>1, SweepRight
<1> HIDE DEF swept
<1>3. Entries(swept) \subseteq Entries(s)
  BY <1>2 DEF Entries
<1>4. \A e \in Entries(s) : e.nonce \notin swept.used => e.left + lag <= 0
  <2> SUFFICES ASSUME NEW k \in Queued(s), s.ordered[k].nonce \notin swept.used
               PROVE  s.ordered[k].left + lag <= 0
    BY DEF Entries
  <2>1. k \notin Queued(swept)
    BY <1>2 DEF StoreRight
  <2> QED BY <1>2, <2>1 DEF Lapsed
<1>5. CASE accepts
  <2>1. /\ StoreRight(Mark(swept, n, lag)) /\ Mark(swept, n, lag).used = swept.used \cup {n}
        /\ Entries(Mark(swept, n, lag)) = Entries(swept) \cup {[nonce |-> n, left |-> MaxAge - lag]}
    BY <1>2, <1>5, MarkRight
  <2>2. Consumed(s, n, lag) = Mark(swept, n, lag)
    BY <1>5 DEF Consumed, swept
  <2>3. n \notin swept.used
    BY <1>5 DEF Accepts
  <2> QED BY <1>3, <1>4, <1>5, <2>1, <2>2, <2>3 DEF swept
<1>6. CASE ~ accepts
  <2>1. Consumed(s, n, lag) = swept
    BY <1>6 DEF Consumed, swept
  <2> QED BY <1>2, <1>3, <1>4, <1>6, <2>1 DEF swept
<1> QED BY <1>5, <1>6

\* A tick takes one from every marker that is not past caring.
LEMMA OlderRight ==
  ASSUME NEW s, StoreRight(s)
  PROVE  LET t == Older(s, Overdue)
         IN  /\ StoreRight(t) /\ t.used = s.used
             /\ \A f \in Entries(t) : \E e \in Entries(s) :
                    f.nonce = e.nonce /\ f.left \in Int /\ f.left >= e.left - 1
<1> DEFINE t == Older(s, Overdue)
<1>1. /\ s.used \subseteq Nonces /\ IsFiniteSet(s.used)
      /\ s.head \in Nat /\ Len(s.ordered) \in Nat /\ s.head <= Len(s.ordered)
      /\ s.ordered \in Seq(Entry \cup {Blank})
      /\ \A k : k \in Queued(s) <=> (k \in Nat /\ s.head < k /\ k <= Len(s.ordered))
  BY QueueType
<1> DEFINE F == [i \in 1 .. Len(s.ordered) |->
                    IF i \in Queued(s) /\ s.ordered[i].left > Overdue
                    THEN [s.ordered[i] EXCEPT !.left = @ - 1] ELSE s.ordered[i]]
<1>2. s \in Store /\ t = [s EXCEPT !.ordered = F]
  BY DEF StoreRight, Older
<1>3. \A k \in Queued(s) : /\ F[k] \in Entry /\ F[k].nonce = s.ordered[k].nonce
                           /\ F[k].left = IF s.ordered[k].left > Overdue THEN s.ordered[k].left - 1
                                          ELSE s.ordered[k].left
  <2> TAKE k \in Queued(s)
  <2>1. s.ordered[k] \in Entry /\ k \in 1 .. Len(s.ordered)
    BY <1>1 DEF StoreRight
  <2>2. s.ordered[k].left \in Overdue .. MaxAge /\ Overdue \in Int
    BY <2>1, Bounds DEF Entry
  <2> DEFINE e == s.ordered[k]
  <2>3. F[k] = IF e.left > Overdue THEN [e EXCEPT !.left = @ - 1] ELSE e
    BY <2>1
  <2> HIDE DEF F, e
  <2>4. e \in Entry /\ e.nonce \in Nonces /\ e.left \in Overdue .. MaxAge
    BY <2>1, <2>2 DEF e, Entry
  <2>5. CASE e.left > Overdue
    <3>1. F[k] = [e EXCEPT !.left = e.left - 1]
      BY <2>3, <2>5
    <3>2. e = [nonce |-> e.nonce, left |-> e.left]
      BY <2>4 DEF Entry
    <3>3. F[k] = [nonce |-> e.nonce, left |-> e.left - 1]
      BY <3>1, <3>2
    <3>4. e.left - 1 \in Overdue .. MaxAge
      BY <2>4, <2>5, Bounds
    <3> QED BY <2>4, <2>5, <3>3, <3>4 DEF Entry, e
  <2>6. CASE ~ (e.left > Overdue)
    BY <2>3, <2>4, <2>6 DEF e
  <2> QED BY <2>5, <2>6
<1>4. F \in Seq(Entry \cup {Blank}) /\ Len(F) = Len(s.ordered)
  <2>1. \A k \in 1 .. Len(s.ordered) : F[k] \in Entry \cup {Blank}
    <3> TAKE k \in 1 .. Len(s.ordered)
    <3>1. CASE k \in Queued(s)
      BY <1>3, <3>1
    <3>2. CASE k \notin Queued(s)
      BY <1>1, <3>2
    <3> QED BY <3>1, <3>2
  <2>2. DOMAIN F = 1 .. Len(s.ordered)
    OBVIOUS
  <2> HIDE DEF F
  <2>3. F \in [1 .. Len(s.ordered) -> Entry \cup {Blank}]
    <3>1. F = [k \in 1 .. Len(s.ordered) |-> F[k]]
      BY DEF F
    <3> QED BY <2>1, <3>1
  <2> QED BY <1>1, <2>2, <2>3
<1> HIDE DEF F
<1>5. t.ordered = F /\ t.head = s.head /\ t.used = s.used /\ t \in Store
  BY <1>2, <1>4 DEF Store
<1> HIDE DEF t
<1>6. Queued(t) = Queued(s)
  BY <1>4, <1>5 DEF Queued
<1>7. \A k \in Queued(s) : s.ordered[k] \in Entry /\ s.ordered[k].left \in Int
  BY EntryType DEF StoreRight
<1>8. StoreRight(t)
  <2>1. t.head <= Len(t.ordered) /\ Cardinality(t.used) <= MaxStored
    BY <1>1, <1>4, <1>5 DEF StoreRight
  <2>2. t.used = {t.ordered[k].nonce : k \in Queued(t)}
    <3>1. s.used = {s.ordered[k].nonce : k \in Queued(s)}
      BY DEF StoreRight
    <3> QED BY <1>3, <1>5, <1>6, <3>1
  <2>3. \A j, k \in Queued(t) : t.ordered[j].nonce = t.ordered[k].nonce => j = k
    BY <1>3, <1>5, <1>6, Distinct
  <2>4. \A j, k \in Queued(t) : j < k => t.ordered[j].left - MaxPause <= t.ordered[k].left
    <3> SUFFICES ASSUME NEW j \in Queued(s), NEW k \in Queued(s), j < k
                 PROVE  F[j].left - MaxPause <= F[k].left
      BY <1>5, <1>6
    <3>1. s.ordered[j].left - MaxPause <= s.ordered[k].left
      BY DEF StoreRight
    <3>2. s.ordered[j].left \in Int /\ s.ordered[k].left \in Int /\ s.ordered[j].left >= Overdue
      BY <1>7 DEF Entry
    <3> QED BY <1>3, <3>1, <3>2, Bounds
  <2> QED BY <1>3, <1>5, <1>6, <2>1, <2>2, <2>3, <2>4 DEF StoreRight
<1>9. \A f \in Entries(t) : \E e \in Entries(s) :
                    f.nonce = e.nonce /\ f.left \in Int /\ f.left >= e.left - 1
  BY <1>3, <1>5, <1>6, <1>7 DEF Entries
<1> QED BY <1>5, <1>8, <1>9 DEF t

-----------------------------------------------------------------------------
(* A verify call, what it may become in a step, and what a marker covers. *)

Waits(k) == k.step \in {"clock", "redis", "fallback"}
HasDate(k) == k.step \in {"redis", "fallback"}

\* Call k of a token of age a: the token has been served, and is no younger
\* than the clock the call has read.
CallRight(k, a) ==
    k # Idle =>
        /\ k \in Verify /\ a[k.nonce] >= 0
        /\ k.step = "parse" => k.pause = 0 /\ k.lag = 0
        /\ k.step = "clock" => k.lag = 0
        /\ HasDate(k) => k.lag <= k.pause
        /\ HasDate(k) /\ a[k.nonce] <= MaxAge => a[k.nonce] >= k.lag

CallsRight(calls, a) ==
    \A c \in Calls : calls[c] \in Verify \cup {Idle} /\ CallRight(calls[c], a)

\* A marker with this much left is there for as long as a token of age a lives.
Covers(left, a) ==
    /\ a >= 0
    /\ a <= MaxAge => left + a >= MaxAge

Moved(k, l) ==
    /\ k \in Verify /\ l \in Verify
    /\ l.node = k.node /\ l.nonce = k.nonce /\ l.pause = k.pause /\ l.lag = k.lag

\* What a step other than a tick makes of call k.
Advance(k, l, a) ==
    \/ l = k
    \/ l = Idle
    \/ l \in Verify /\ l.step = "parse" /\ l.pause = 0 /\ l.lag = 0 /\ a[l.nonce] >= 0
    \/ Moved(k, l) /\ k.step = "parse" /\ l.step = "clock" /\ a[l.nonce] <= MaxAge
    \/ Moved(k, l) /\ k.step = "clock" /\ l.step = "redis"
    \/ Moved(k, l) /\ k.step = "redis" /\ l.step = "fallback"
    \/ Moved(k, l) /\ l.step = "end"

LEMMA VerifyType ==
  ASSUME NEW k \in Verify
  PROVE  /\ k.step \in Steps /\ k.node \in Nodes /\ k.nonce \in Nonces
         /\ k.pause \in Int /\ 0 <= k.pause /\ k.pause <= MaxPause
         /\ k.lag \in Int /\ 0 <= k.lag /\ k.lag <= MaxPause
         /\ k # Idle /\ k.step # "idle"
<1>1. /\ k.step \in Steps /\ k.node \in Nodes /\ k.nonce \in Nonces
      /\ k.pause \in 0 .. MaxPause /\ k.lag \in 0 .. MaxPause
  BY DEF Verify
<1>2. k.step # "idle" /\ Idle.step = "idle"
  BY <1>1 DEF Steps, Idle
<1> QED BY <1>1, <1>2, Bounds

LEMMA IdleRests == ~ Waits(Idle) /\ ~ HasDate(Idle)
  BY DEF Waits, HasDate, Idle

LEMMA AdvanceRight ==
  ASSUME NEW k, NEW l, NEW a \in [Nonces -> Unissued .. Expired], NEW b,
         k \in Verify \cup {Idle}, CallRight(k, a), Advance(k, l, a),
         l # Idle => b[l.nonce] = a[l.nonce]
  PROVE  l \in Verify \cup {Idle} /\ CallRight(l, b)
<1>1. CASE l = Idle
  BY <1>1 DEF CallRight
<1>2. CASE l # Idle
  <2>1. l \in Verify /\ b[l.nonce] = a[l.nonce]
    BY <1>2 DEF Advance, Moved
  <2>2. /\ l.nonce \in Nonces /\ l.lag \in Int /\ l.pause \in Int /\ 0 <= l.pause /\ a[l.nonce] \in Int
        /\ MaxAge \in Int
    BY <2>1, VerifyType, Bounds DEF Unissued, Expired
  <2>3. CASE l = k
    BY <1>2, <2>1, <2>3 DEF CallRight
  <2>4. CASE l.step = "parse" /\ l.pause = 0 /\ l.lag = 0 /\ a[l.nonce] >= 0
    BY <2>1, <2>4 DEF CallRight, Waits, HasDate
  <2>5. CASE Moved(k, l)
    <3>1. k \in Verify /\ k # Idle /\ k.nonce = l.nonce /\ k.pause = l.pause /\ k.lag = l.lag
      BY <2>5, VerifyType DEF Moved
    <3>2. a[l.nonce] >= 0
      BY <3>1 DEF CallRight
    <3>3. CASE k.step = "parse" /\ l.step = "clock" /\ a[l.nonce] <= MaxAge
      BY <2>1, <2>2, <3>1, <3>2, <3>3 DEF CallRight, Waits, HasDate
    <3>4. CASE k.step = "clock" /\ l.step = "redis"
      BY <2>1, <2>2, <3>1, <3>2, <3>4 DEF CallRight, Waits, HasDate
    <3>5. CASE k.step = "redis" /\ l.step = "fallback"
      BY <2>1, <2>2, <3>1, <3>2, <3>5 DEF CallRight, Waits, HasDate
    <3>6. CASE l.step = "end"
      BY <2>1, <3>2, <3>6 DEF CallRight, Waits, HasDate
    <3>7. CASE l = k
      BY <2>3, <3>7
    <3> QED BY <1>2, <2>4, <3>3, <3>4, <3>5, <3>6, <3>7 DEF Advance
  <2> QED BY <1>2, <2>3, <2>4, <2>5 DEF Advance
<1> QED BY <1>1, <1>2

\* Calls stay right in every step that is not a tick.
LEMMA CallsAdvance ==
  ASSUME NEW f, NEW g, NEW a \in [Nonces -> Unissued .. Expired], NEW b, CallsRight(f, a),
         \A c \in Calls : Advance(f[c], g[c], a),
         \A c \in Calls : g[c] # Idle => b[g[c].nonce] = a[g[c].nonce]
  PROVE  CallsRight(g, b)
  BY AdvanceRight DEF CallsRight

-----------------------------------------------------------------------------
(* A tick. *)

Aged(a) == IF a \in 0 .. MaxAge THEN a + 1 ELSE a

Suspended(k) ==
    IF ~ Waits(k) THEN k
    ELSE [step |-> k.step, node |-> k.node, nonce |-> k.nonce,
          pause |-> k.pause + 1, lag |-> IF HasDate(k) THEN k.lag + 1 ELSE 0]

LEMMA AgedType ==
  ASSUME NEW a \in Unissued .. Expired
  PROVE  /\ Aged(a) \in Unissued .. Expired /\ a \in Int /\ Aged(a) \in Int
         /\ Aged(a) >= a
         /\ Aged(a) <= MaxAge /\ a >= 0 => a <= MaxAge /\ Aged(a) = a + 1
         /\ Aged(a) <= MaxAge => a <= MaxAge
  BY Bounds DEF Aged, Unissued, Expired

LEMMA SuspendedRight ==
  ASSUME NEW k \in Verify \cup {Idle}, Waits(k) => k.pause < MaxPause,
         NEW a \in [Nonces -> Unissued .. Expired], NEW b, CallRight(k, a),
         \A n \in Nonces : b[n] = Aged(a[n])
  PROVE  LET l == Suspended(k)
         IN  /\ l \in Verify \cup {Idle} /\ CallRight(l, b)
             /\ (Waits(l) <=> Waits(k)) /\ (HasDate(l) <=> HasDate(k))
             /\ (l = Idle <=> k = Idle)
             /\ l # Idle => l.node = k.node /\ l.nonce = k.nonce
             /\ Waits(l) => l.pause = k.pause + 1
             /\ HasDate(l) => l.lag = k.lag + 1
<1> DEFINE l == Suspended(k)
<1>1. CASE k = Idle
  <2>1. l = Idle
    BY <1>1, IdleRests DEF Suspended
  <2> HIDE DEF l
  <2> QED BY <1>1, <2>1, IdleRests DEF CallRight, l
<1>2. CASE k # Idle
  <2>1. /\ k \in Verify /\ k.step \in Steps /\ k.node \in Nodes /\ k.nonce \in Nonces
        /\ k.pause \in Int /\ 0 <= k.pause /\ k.pause <= MaxPause
        /\ k.lag \in Int /\ 0 <= k.lag /\ k.lag <= MaxPause
    BY <1>2, VerifyType
  <2>2. /\ a[k.nonce] \in Unissued .. Expired /\ b[k.nonce] = Aged(a[k.nonce])
        /\ a[k.nonce] \in Int /\ b[k.nonce] \in Int /\ b[k.nonce] >= a[k.nonce]
        /\ b[k.nonce] <= MaxAge /\ a[k.nonce] >= 0 => a[k.nonce] <= MaxAge /\ b[k.nonce] = a[k.nonce] + 1
    BY <2>1, AgedType
  <2>3. a[k.nonce] >= 0
    BY <1>2 DEF CallRight
  <2>4. b[k.nonce] >= 0
    BY <2>2, <2>3, Bounds
  <2>5. CASE ~ Waits(k)
    <3>1. l = k
      BY <2>5 DEF Suspended
    <3>2. ~ HasDate(k)
      BY <2>5 DEF Waits, HasDate
    <3> HIDE DEF l
    <3> QED BY <1>2, <2>1, <2>4, <2>5, <3>1, <3>2 DEF CallRight, l
  <2>6. CASE Waits(k)
    <3>1. /\ l.step = k.step /\ l.node = k.node /\ l.nonce = k.nonce /\ l.pause = k.pause + 1
          /\ l.lag = IF HasDate(k) THEN k.lag + 1 ELSE 0
          /\ l = [step |-> l.step, node |-> l.node, nonce |-> l.nonce, pause |-> l.pause, lag |-> l.lag]
      BY <2>6 DEF Suspended
    <3> HIDE DEF l
    <3>2. HasDate(k) => k.lag < MaxPause
      <4>1. HasDate(k) => k.lag <= k.pause
        BY <1>2 DEF CallRight
      <4> QED BY <2>1, <2>6, <4>1, Bounds
    <3>3. l.pause \in 0 .. MaxPause /\ l.lag \in 0 .. MaxPause
      BY <2>1, <2>6, <3>1, <3>2, Bounds
    <3>4. l \in Verify
      BY <2>1, <3>1, <3>3 DEF Verify
    <3>5. (Waits(l) <=> Waits(k)) /\ (HasDate(l) <=> HasDate(k)) /\ l # Idle
      BY <3>1, <3>4, VerifyType DEF Waits, HasDate
    <3>6. l.step # "parse" /\ (l.step = "clock" => l.lag = 0)
      BY <1>2, <2>6, <3>1 DEF CallRight, Waits, HasDate
    <3>7. HasDate(l) => l.lag <= l.pause
      <4>1. HasDate(k) => k.lag <= k.pause
        BY <1>2 DEF CallRight
      <4> QED BY <2>1, <3>1, <3>5, <4>1
    <3>8. HasDate(l) /\ b[l.nonce] <= MaxAge => b[l.nonce] >= l.lag
      <4> SUFFICES ASSUME HasDate(l), b[l.nonce] <= MaxAge PROVE b[l.nonce] >= l.lag
        OBVIOUS
      <4>1. a[k.nonce] <= MaxAge /\ b[k.nonce] = a[k.nonce] + 1 /\ l.lag = k.lag + 1
        BY <2>2, <2>3, <3>1, <3>5, Bounds
      <4>2. a[k.nonce] >= k.lag
        BY <1>2, <3>5, <4>1 DEF CallRight
      <4> QED BY <2>1, <2>2, <3>1, <4>1, <4>2, Bounds
    <3> QED BY <1>2, <2>4, <2>6, <3>1, <3>4, <3>5, <3>6, <3>7, <3>8 DEF CallRight, l
  <2> QED BY <2>5, <2>6
<1> QED BY <1>1, <1>2

LEMMA SuspendedCalls ==
  ASSUME NEW f, NEW g, NEW a \in [Nonces -> Unissued .. Expired], NEW b, CallsRight(f, a),
         \A c \in Calls : Waits(f[c]) => f[c].pause < MaxPause,
         \A n \in Nonces : b[n] = Aged(a[n]),
         \A c \in Calls : g[c] = Suspended(f[c])
  PROVE  CallsRight(g, b)
<1>1. ASSUME NEW c \in Calls
      PROVE  g[c] \in Verify \cup {Idle} /\ CallRight(g[c], b)
  <2>1. f[c] \in Verify \cup {Idle} /\ CallRight(f[c], a)
    BY DEF CallsRight
  <2> QED BY <2>1, SuspendedRight
<1> QED BY <1>1 DEF CallsRight

LEMMA CoversAged ==
  ASSUME NEW a \in Unissued .. Expired, NEW left \in Int, NEW less \in Int,
         less >= left - 1, Covers(left, a)
  PROVE  Covers(less, Aged(a))
<1>1. /\ Aged(a) \in Int /\ a \in Int /\ Aged(a) >= a
      /\ Aged(a) <= MaxAge /\ a >= 0 => a <= MaxAge /\ Aged(a) = a + 1
  BY AgedType
<1>2. a >= 0 /\ (a <= MaxAge => left + a >= MaxAge)
  BY DEF Covers
<1> QED BY <1>1, <1>2, Bounds DEF Covers

-----------------------------------------------------------------------------
(* The invariant. *)

RedisRight ==
    \A n \in Nonces : accepted[n][Redis] >= 1 => Covers(redis[n], age[n])

NodeRight(i) ==
    /\ StoreRight(local[i])
    /\ \A e \in Entries(local[i]) : Covers(e.left, age[e.nonce])
    /\ \A n \in Nonces : accepted[n][i] >= 1 /\ age[n] < MaxAge => n \in local[i].used

ChallengeInv ==
    /\ TypeOK
    /\ SlotsAccounted
    /\ CallsRight(call, age)
    /\ RedisRight
    /\ \A i \in Nodes : NodeRight(i)

LEMMA EmptyRight == StoreRight(EmptyStore) /\ Entries(EmptyStore) = {} /\ EmptyStore.used = {}
<1>1. /\ EmptyStore.used = {} /\ EmptyStore.ordered = << >> /\ EmptyStore.head = 0
      /\ Len(<< >>) = 0 /\ << >> \in Seq(Entry \cup {Blank})
  BY DEF EmptyStore
<1>2. Queued(EmptyStore) = {}
  BY <1>1 DEF Queued
<1>3. EmptyStore \in Store
  BY <1>1 DEF Store, EmptyStore
<1>4. Cardinality({}) = 0
  BY FS_EmptySet
<1>5. Cardinality(EmptyStore.used) <= MaxStored /\ EmptyStore.head <= Len(EmptyStore.ordered)
  BY <1>1, <1>4, Bounds
<1>6. Entries(EmptyStore) = {} /\ {EmptyStore.ordered[k].nonce : k \in Queued(EmptyStore)} = {}
  BY <1>2 DEF Entries
<1> QED BY <1>1, <1>2, <1>3, <1>5, <1>6 DEF StoreRight

LEMMA EntryLeft ==
  ASSUME NEW s, StoreRight(s), NEW e \in Entries(s)
  PROVE  e \in Entry /\ e.nonce \in s.used /\ e.nonce \in Nonces /\ e.left \in Int /\ e.left <= MaxAge
<1>1. PICK k \in Queued(s) : e = s.ordered[k]
  BY DEF Entries
<1> QED BY <1>1, EntryType DEF StoreRight

LEMMA UsedEntry ==
  ASSUME NEW s, StoreRight(s), NEW n \in s.used
  PROVE  \E e \in Entries(s) : e.nonce = n
  BY DEF StoreRight, Entries

\* The types of the state, one by one.
LEMMA StateTypes ==
  ASSUME TypeOK
  PROVE  /\ age \in [Nonces -> Unissued .. Expired] /\ redis \in [Nonces -> 0 .. MaxAge]
         /\ \A n \in Nonces : redis[n] \in Int /\ 0 <= redis[n] /\ redis[n] <= MaxAge /\ age[n] \in Int
         /\ verifyRunning \in [Nodes -> 0 .. Admissions]
         /\ call \in [Calls -> Verify \cup {Idle}]
         /\ accepted \in [Nonces -> [Stores -> Nat]]
         /\ \A n \in Nonces, s \in Stores : accepted[n] \in [Stores -> Nat] /\ accepted[n][s] \in Nat
         /\ local \in [Nodes -> Store]
         /\ Redis \in Stores /\ \A i \in Nodes : i \in Stores /\ i # Redis
<1>1. \A n \in Nonces : age[n] \in Int
  BY DEF TypeOK, Unissued, Expired
<1>2. \A n \in Nonces : redis[n] \in Int /\ 0 <= redis[n] /\ redis[n] <= MaxAge
  BY Bounds DEF TypeOK
<1>3. Redis \in Stores /\ \A i \in Nodes : i \in Stores /\ i # Redis
  BY Bounds DEF Stores
<1>4. accepted \in [Nonces -> [Stores -> Nat]]
  BY DEF TypeOK
<1>5. ASSUME NEW n \in Nonces, NEW s \in Stores
      PROVE  accepted[n] \in [Stores -> Nat] /\ accepted[n][s] \in Nat
  <2>1. accepted[n] \in [Stores -> Nat]
    BY <1>4
  <2> QED BY <2>1
<1> QED BY <1>1, <1>2, <1>3, <1>4, <1>5 DEF TypeOK

\* While a token lives, the marker that covers it is not dead.
LEMMA CoversLives ==
  ASSUME NEW a \in Unissued .. Expired, a < MaxAge, NEW left \in Int, Covers(left, a)
  PROVE  left > 0
<1>1. a \in Int
  BY DEF Unissued, Expired
<1> QED BY <1>1, Bounds DEF Covers

LEMMA CoversMore ==
  ASSUME NEW a \in Unissued .. Expired, NEW left \in Int, NEW more \in Int, left <= more,
         Covers(left, a)
  PROVE  Covers(more, a)
<1>1. a \in Int
  BY DEF Unissued, Expired
<1> QED BY <1>1, Bounds DEF Covers

\* The two history parts survive a step that adds markers in Redis and leaves
\* or clears stores.
LEMMA RedisAdvance ==
  ASSUME ChallengeInv, UNCHANGED age,
         NEW n \in Nonces, redis'[n] \in Int, redis[n] <= redis'[n],
         accepted'[n][Redis] = accepted[n][Redis]
  PROVE  accepted'[n][Redis] >= 1 => Covers(redis'[n], age'[n])
<1>1. /\ age[n] \in Unissued .. Expired /\ redis[n] \in Int /\ age' = age
  BY StateTypes DEF ChallengeInv
<1>2. accepted[n][Redis] >= 1 => Covers(redis[n], age[n])
  BY DEF ChallengeInv, RedisRight
<1>3. Covers(redis[n], age[n]) => Covers(redis'[n], age[n])
  BY <1>1, CoversMore
<1> QED BY <1>1, <1>2, <1>3

LEMMA NodeAdvance ==
  ASSUME ChallengeInv, UNCHANGED age, NEW i \in Nodes, local'[i] = local[i],
         \A n \in Nonces : accepted'[n][i] = accepted[n][i]
  PROVE  NodeRight(i)'
<1>1. NodeRight(i) /\ age' = age
  BY DEF ChallengeInv
<1> QED BY <1>1 DEF NodeRight

-----------------------------------------------------------------------------
(* The steps. *)

LEMMA Whole ==
  ASSUME age' \in [Nonces -> Unissued .. Expired], redis' \in [Nonces -> 0 .. MaxAge],
         local' \in [Nodes -> Store], verifyRunning' \in [Nodes -> 0 .. Admissions],
         accepted' \in [Nonces -> [Stores -> Nat]],
         call' \in [Calls -> Verify \cup {Idle}], CallsRight(call', age'),
         SlotsAccounted', RedisRight', \A i \in Nodes : NodeRight(i)'
  PROVE  ChallengeInv'
<1>1. \A i \in Nodes : /\ Cardinality(local'[i].used) <= MaxStored
                       /\ local'[i].head <= Len(local'[i].ordered)
  BY DEF NodeRight, StoreRight
<1>2. TypeOK'
  BY <1>1 DEF TypeOK
<1> QED BY <1>2 DEF ChallengeInv

Holders(calls, i) == {c \in Calls : calls[c] # Idle /\ calls[c].node = i}

LEMMA SlotsAre == SlotsAccounted <=> \A i \in Nodes : verifyRunning[i] = Cardinality(Holders(call, i))
  BY DEF SlotsAccounted, Holders, Admitted

LEMMA SlotsAreNext ==
  SlotsAccounted' <=> \A i \in Nodes : verifyRunning'[i] = Cardinality(Holders(call', i))
  BY DEF SlotsAccounted, Holders, Admitted

LEMMA SlotsKept ==
  ASSUME SlotsAccounted, UNCHANGED verifyRunning,
         \A c \in Calls : /\ call'[c] = Idle <=> call[c] = Idle
                          /\ call[c] # Idle => call'[c].node = call[c].node
  PROVE  SlotsAccounted'
<1>1. \A i \in Nodes : Holders(call', i) = Holders(call, i)
  BY DEF Holders
<1> QED BY <1>1, SlotsAre, SlotsAreNext

LEMMA MoveRight ==
  ASSUME ChallengeInv, NEW c \in Calls, NEW step \in Steps, Goto(c, step), UNCHANGED age,
         \/ At(c, "parse") /\ step = "clock" /\ age[call[c].nonce] <= MaxAge
         \/ At(c, "clock") /\ step = "redis"
         \/ At(c, "redis") /\ step = "fallback"
         \/ call[c] # Idle /\ step = "end"
  PROVE  /\ call[c] \in Verify /\ call[c].nonce \in Nonces /\ call[c].node \in Nodes
         /\ call' \in [Calls -> Verify \cup {Idle}]
         /\ \A d \in Calls : Advance(call[d], call'[d], age)
         /\ CallsRight(call', age')
         /\ \A d \in Calls : /\ call'[d] = Idle <=> call[d] = Idle
                             /\ call[d] # Idle => call'[d].node = call[d].node
         /\ call'[c].step = step
         /\ \A d \in Calls : d # c => call'[d] = call[d]
<1>1. call \in [Calls -> Verify \cup {Idle}] /\ age \in [Nonces -> Unissued .. Expired]
      /\ CallsRight(call, age) /\ age' = age
  BY StateTypes DEF ChallengeInv
<1>2. call[c] \in Verify
  BY <1>1 DEF At, Idle
<1>3. call' = [call EXCEPT ![c] = [call[c] EXCEPT !.step = step]]
  BY <1>1 DEF Goto
<1> DEFINE k == call[c]
           l == [k EXCEPT !.step = step]
<1>4. l = [step |-> step, node |-> k.node, nonce |-> k.nonce, pause |-> k.pause, lag |-> k.lag]
  BY <1>2 DEF Verify
<1>5. l \in Verify /\ l.step = step /\ Moved(k, l)
  <2>1. l \in Verify
    BY <1>2, <1>4 DEF Verify
  <2> QED BY <1>2, <1>4, <2>1 DEF Moved
<1>6. call'[c] = l /\ \A d \in Calls : d # c => call'[d] = call[d]
  BY <1>1, <1>3
<1> HIDE DEF l
<1>7. Advance(k, l, age)
  BY <1>5 DEF At, Advance, Moved
<1>8. \A d \in Calls : Advance(call[d], call'[d], age)
  BY <1>6, <1>7 DEF Advance
<1>9. call' \in [Calls -> Verify \cup {Idle}]
  BY <1>1, <1>3, <1>5 DEF l
<1>10. CallsRight(call', age')
  BY <1>1, <1>8, CallsAdvance
<1>11. \A d \in Calls : /\ call'[d] = Idle <=> call[d] = Idle
                        /\ call[d] # Idle => call'[d].node = call[d].node
  BY <1>2, <1>5, <1>6, VerifyType DEF Moved
<1> QED BY <1>2, <1>5, <1>6, <1>8, <1>9, <1>10, <1>11, VerifyType

\* A step that only moves calls along, or that also sets a marker in Redis.
LEMMA OnlyCallsMove ==
  ASSUME ChallengeInv, UNCHANGED <<age, local, verifyRunning, accepted>>,
         redis' \in [Nonces -> 0 .. MaxAge], \A n \in Nonces : redis[n] <= redis'[n],
         call' \in [Calls -> Verify \cup {Idle}],
         \A d \in Calls : Advance(call[d], call'[d], age),
         CallsRight(call', age'),
         \A d \in Calls : /\ call'[d] = Idle <=> call[d] = Idle
                          /\ call[d] # Idle => call'[d].node = call[d].node
  PROVE  ChallengeInv'
<1>1. SlotsAccounted'
  BY SlotsKept DEF ChallengeInv
<1>2. \A n \in Nonces : redis'[n] \in Int
  BY Bounds
<1>3. RedisRight'
  BY <1>2, RedisAdvance DEF RedisRight
<1>4. \A i \in Nodes : NodeRight(i)'
  BY NodeAdvance
<1> QED BY <1>1, <1>3, <1>4, StateTypes, Whole DEF ChallengeInv

LEMMA ParseKeeps ==
  ASSUME ChallengeInv, NEW c \in Calls, NEW wellFormed \in BOOLEAN, Parse(c, wellFormed)
  PROVE  ChallengeInv'
<1> DEFINE step == IF wellFormed /\ age[call[c].nonce] <= MaxAge THEN "clock" ELSE "end"
<1>1. Goto(c, step) /\ At(c, "parse") /\ UNCHANGED <<age, redis, local, verifyRunning, accepted>>
  BY DEF Parse
<1>2. step \in Steps /\ call[c] # Idle
  BY <1>1 DEF Steps, At, Idle
<1>3. /\ call' \in [Calls -> Verify \cup {Idle}]
      /\ \A d \in Calls : Advance(call[d], call'[d], age)
      /\ CallsRight(call', age')
      /\ \A d \in Calls : /\ call'[d] = Idle <=> call[d] = Idle
                          /\ call[d] # Idle => call'[d].node = call[d].node
  <2>1. (step = "clock" /\ age[call[c].nonce] <= MaxAge) \/ step = "end"
    OBVIOUS
  <2> HIDE DEF step
  <2> QED BY <1>1, <1>2, <2>1, MoveRight
<1>4. redis' \in [Nonces -> 0 .. MaxAge] /\ \A n \in Nonces : redis[n] <= redis'[n]
  BY <1>1, StateTypes DEF ChallengeInv
<1> QED BY <1>1, <1>3, <1>4, OnlyCallsMove

LEMMA ReadClockKeeps ==
  ASSUME ChallengeInv, NEW c \in Calls, ReadClock(c)
  PROVE  ChallengeInv'
<1>1. /\ Goto(c, "redis") /\ At(c, "clock") /\ "redis" \in Steps
      /\ UNCHANGED <<age, redis, local, verifyRunning, accepted>>
  BY DEF ReadClock, Steps
<1>2. redis' \in [Nonces -> 0 .. MaxAge] /\ \A n \in Nonces : redis[n] <= redis'[n]
  BY <1>1, StateTypes DEF ChallengeInv
<1> QED BY <1>1, <1>2, MoveRight, OnlyCallsMove

LEMMA SetNXFailsKeeps ==
  ASSUME ChallengeInv, NEW c \in Calls, NEW executed \in BOOLEAN, SetNXFails(c, executed)
  PROVE  ChallengeInv'
<1> DEFINE n == call[c].nonce
<1>1. /\ Goto(c, "fallback") /\ At(c, "redis") /\ "fallback" \in Steps
      /\ UNCHANGED <<age, local, verifyRunning, accepted>>
      /\ redis' = redis \/ (redis[n] = 0 /\ redis' = [redis EXCEPT ![n] = MaxAge])
  BY DEF SetNXFails, Steps
<1>2. call[c].nonce \in Nonces
  BY <1>1, MoveRight
<1>3. redis' \in [Nonces -> 0 .. MaxAge] /\ \A m \in Nonces : redis[m] <= redis'[m]
  <2>1. redis \in [Nonces -> 0 .. MaxAge] /\ \A m \in Nonces : redis[m] \in Int
    BY StateTypes DEF ChallengeInv
  <2>2. CASE redis' = redis
    BY <2>1, <2>2
  <2>3. CASE redis[n] = 0 /\ redis' = [redis EXCEPT ![n] = MaxAge]
    BY <1>2, <2>1, <2>3, Bounds
  <2> QED BY <1>1, <2>2, <2>3
<1> QED BY <1>1, <1>3, MoveRight, OnlyCallsMove

LEMMA AcceptedByRight ==
  ASSUME TypeOK, NEW n \in Nonces, NEW s \in Stores, AcceptedBy(n, s)
  PROVE  /\ accepted' \in [Nonces -> [Stores -> Nat]]
         /\ accepted'[n][s] = accepted[n][s] + 1
         /\ \A m \in Nonces, t \in Stores : m # n \/ t # s => accepted'[m][t] = accepted[m][t]
<1>1. /\ accepted \in [Nonces -> [Stores -> Nat]] /\ accepted[n] \in [Stores -> Nat]
      /\ accepted[n][s] + 1 \in Nat
  BY StateTypes
<1>2. accepted' = [accepted EXCEPT ![n] = [accepted[n] EXCEPT ![s] = accepted[n][s] + 1]]
  BY DEF AcceptedBy
<1> DEFINE row == [accepted[n] EXCEPT ![s] = accepted[n][s] + 1]
<1>3. /\ row \in [Stores -> Nat] /\ row[s] = accepted[n][s] + 1
      /\ \A t \in Stores : t # s => row[t] = accepted[n][t]
  BY <1>1
<1> HIDE DEF row
<1>4. accepted' = [accepted EXCEPT ![n] = row]
  BY <1>2 DEF row
<1>5. accepted'[n] = row /\ \A m \in Nonces : m # n => accepted'[m] = accepted[m]
  BY <1>1, <1>4
<1> QED BY <1>1, <1>3, <1>4, <1>5

LEMMA SetNXKeeps ==
  ASSUME ChallengeInv, NEW c \in Calls, SetNX(c)
  PROVE  ChallengeInv'
<1> DEFINE n == call[c].nonce
<1>1. /\ Goto(c, "end") /\ At(c, "redis") /\ "end" \in Steps /\ call[c] # Idle
      /\ UNCHANGED <<age, local, verifyRunning>>
  BY DEF SetNX, Steps, At, Idle
<1>2. /\ call[c] \in Verify /\ n \in Nonces
      /\ call' \in [Calls -> Verify \cup {Idle}]
      /\ \A d \in Calls : Advance(call[d], call'[d], age)
      /\ CallsRight(call', age')
      /\ \A d \in Calls : /\ call'[d] = Idle <=> call[d] = Idle
                          /\ call[d] # Idle => call'[d].node = call[d].node
  BY <1>1, MoveRight
<1>3. CASE redis[n] > 0
  <2>1. UNCHANGED <<redis, accepted>>
    BY <1>3 DEF SetNX
  <2>2. redis' \in [Nonces -> 0 .. MaxAge] /\ \A m \in Nonces : redis[m] <= redis'[m]
    BY <2>1, StateTypes DEF ChallengeInv
  <2> QED BY <1>1, <1>2, <2>1, <2>2, OnlyCallsMove
<1>4. CASE ~ (redis[n] > 0)
  <2>1. redis' = [redis EXCEPT ![n] = MaxAge] /\ AcceptedBy(n, Redis)
    BY <1>4 DEF SetNX
  <2>2. /\ redis \in [Nonces -> 0 .. MaxAge] /\ \A m \in Nonces : redis[m] \in Int /\ 0 <= redis[m]
        /\ Redis \in Stores /\ \A i \in Nodes : i \in Stores /\ i # Redis
        /\ \A m \in Nonces : accepted[m][Redis] \in Nat
        /\ age \in [Nonces -> Unissued .. Expired] /\ TypeOK
        /\ local \in [Nodes -> Store] /\ verifyRunning \in [Nodes -> 0 .. Admissions]
        /\ age[n] \in Int
    BY <1>2, StateTypes DEF ChallengeInv
  <2>3. /\ accepted' \in [Nonces -> [Stores -> Nat]]
        /\ accepted'[n][Redis] = accepted[n][Redis] + 1
        /\ \A m \in Nonces, t \in Stores : m # n \/ t # Redis => accepted'[m][t] = accepted[m][t]
    BY <1>2, <2>1, <2>2, AcceptedByRight
  <2>4. /\ redis' \in [Nonces -> 0 .. MaxAge] /\ redis'[n] = MaxAge
        /\ \A m \in Nonces : m # n => redis'[m] = redis[m]
    BY <1>2, <2>1, <2>2, Bounds
  <2>5. Covers(MaxAge, age[n])
    <3>1. CallRight(call[c], age) /\ call[c] # Idle
      BY <1>1 DEF ChallengeInv, CallsRight
    <3>2. age[n] >= 0
      BY <3>1 DEF CallRight
    <3> QED BY <2>2, <3>2, Bounds DEF Covers
  <2>6. RedisRight'
    <3>1. ASSUME NEW m \in Nonces
          PROVE  accepted'[m][Redis] >= 1 => Covers(redis'[m], age'[m])
      <4>1. CASE m = n
        BY <1>1, <2>4, <2>5, <4>1
      <4>2. CASE m # n
        <5>1. /\ accepted'[m][Redis] = accepted[m][Redis] /\ redis'[m] = redis[m]
              /\ redis'[m] \in Int /\ redis[m] <= redis'[m]
          BY <2>2, <2>3, <2>4, <4>2
        <5> QED BY <1>1, <5>1, RedisAdvance
      <4> QED BY <4>1, <4>2
    <3> QED BY <3>1 DEF RedisRight
  <2>7. \A i \in Nodes : NodeRight(i)'
    BY <1>1, <2>2, <2>3, NodeAdvance
  <2>8. SlotsAccounted'
    BY <1>1, <1>2, SlotsKept DEF ChallengeInv
  <2> QED BY <1>1, <1>2, <2>2, <2>3, <2>4, <2>6, <2>7, <2>8, Whole
<1> QED BY <1>3, <1>4

LEMMA ConsumeLocalKeeps ==
  ASSUME ChallengeInv, NEW c \in Calls, ConsumeLocal(c)
  PROVE  ChallengeInv'
<1> DEFINE n == call[c].nonce
           i == call[c].node
           lag == call[c].lag
           t == Consumed(local[i], n, lag)
           accepts == Accepts(Sweep(local[i], lag), n)
<1>1. /\ Goto(c, "end") /\ At(c, "fallback") /\ "end" \in Steps /\ call[c] # Idle
      /\ UNCHANGED <<age, redis, verifyRunning>>
      /\ local' = [local EXCEPT ![i] = t]
      /\ accepts => AcceptedBy(n, i)
      /\ ~ accepts => UNCHANGED accepted
  <2>1. local' = [local EXCEPT ![i] = t]
    BY StateTypes DEF ConsumeLocal, ChallengeInv
  <2>2. (accepts => AcceptedBy(n, i)) /\ (~ accepts => UNCHANGED accepted)
    BY DEF ConsumeLocal
  <2> QED BY <2>1, <2>2 DEF ConsumeLocal, Steps, At, Idle
<1>2. /\ call[c] \in Verify /\ n \in Nonces /\ i \in Nodes /\ lag \in 0 .. MaxPause
      /\ call' \in [Calls -> Verify \cup {Idle}]
      /\ \A d \in Calls : Advance(call[d], call'[d], age)
      /\ CallsRight(call', age')
      /\ \A d \in Calls : /\ call'[d] = Idle <=> call[d] = Idle
                          /\ call[d] # Idle => call'[d].node = call[d].node
  <2>1. call[c] \in Verify
    BY <1>1, MoveRight
  <2>2. lag \in 0 .. MaxPause
    BY <2>1 DEF Verify
  <2> QED BY <1>1, <2>1, <2>2, MoveRight
<1>3. /\ redis \in [Nonces -> 0 .. MaxAge] /\ \A m \in Nonces : redis[m] \in Int
      /\ Redis \in Stores /\ \A j \in Nodes : j \in Stores /\ j # Redis
      /\ \A m \in Nonces, s \in Stores : accepted[m][s] \in Nat
      /\ age \in [Nonces -> Unissued .. Expired] /\ TypeOK
      /\ local \in [Nodes -> Store] /\ verifyRunning \in [Nodes -> 0 .. Admissions]
      /\ accepted \in [Nonces -> [Stores -> Nat]] /\ age[n] \in Int
      /\ CallsRight(call, age) /\ NodeRight(i)
  BY <1>2, StateTypes DEF ChallengeInv
<1>4. /\ StoreRight(local[i])
      /\ \A e \in Entries(local[i]) : Covers(e.left, age[e.nonce])
      /\ \A m \in Nonces : accepted[m][i] >= 1 /\ age[m] < MaxAge => m \in local[i].used
  BY <1>3 DEF NodeRight
<1>5. /\ StoreRight(t)
      /\ Entries(t) \subseteq Entries(local[i])
                \cup (IF accepts THEN {[nonce |-> n, left |-> MaxAge - lag]} ELSE {})
      /\ \A e \in Entries(local[i]) : e.nonce \notin t.used => e.left + lag <= 0
      /\ accepts => n \in t.used
      /\ accepts => \A e \in Entries(local[i]) : e.nonce = n => e.left + lag <= 0
  BY <1>2, <1>4, ConsumeRight
<1> HIDE DEF t, accepts
<1>6. HasDate(call[c])
  BY <1>1 DEF At, HasDate
<1>7. lag \in Int /\ 0 <= lag
  BY <1>2, VerifyType
<1>8. /\ local' \in [Nodes -> Store] /\ local'[i] = t
      /\ \A j \in Nodes : j # i => local'[j] = local[j]
  BY <1>1, <1>2, <1>3, <1>5 DEF StoreRight
<1>9. /\ accepted' \in [Nonces -> [Stores -> Nat]]
      /\ ~ accepts => accepted' = accepted
      /\ \A m \in Nonces, s \in Stores : m # n \/ s # i => accepted'[m][s] = accepted[m][s]
  <2>1. CASE accepts
    BY <1>1, <1>2, <1>3, <2>1, AcceptedByRight
  <2>2. CASE ~ accepts
    BY <1>1, <1>3, <2>2
  <2> QED BY <2>1, <2>2
<1>10. Covers(MaxAge - lag, age[n])
  <2>1. CallRight(call[c], age) /\ call[c] # Idle
    BY <1>1, <1>3 DEF CallsRight
  <2>2. age[n] >= 0 /\ (age[n] <= MaxAge => age[n] >= lag)
    BY <1>6, <2>1 DEF CallRight
  <2> QED BY <1>3, <1>7, <2>2, Bounds DEF Covers
<1>11. \A e \in Entries(t) : Covers(e.left, age[e.nonce])
  <2> TAKE e \in Entries(t)
  <2>1. e \in Entries(local[i]) \/ e = [nonce |-> n, left |-> MaxAge - lag]
    BY <1>5
  <2> QED BY <1>4, <1>10, <2>1
<1>12. ASSUME NEW m \in Nonces, accepted'[m][i] >= 1, age'[m] < MaxAge PROVE m \in t.used
  <2>1. CASE m = n /\ accepts
    BY <1>5, <2>1
  <2>2. CASE ~ (m = n /\ accepts)
    <3>1. accepted'[m][i] = accepted[m][i] /\ age'[m] = age[m]
      BY <1>1, <1>2, <1>3, <1>9, <2>2
    <3>2. PICK e \in Entries(local[i]) : e.nonce = m
      BY <1>4, <1>12, <3>1, UsedEntry
    <3>3. e.left \in Int /\ Covers(e.left, age[m])
      BY <1>4, <3>2, EntryLeft
    <3>4. e.left > 0
      BY <1>3, <1>12, <3>1, <3>3, CoversLives
    <3>5. ASSUME m \notin t.used PROVE FALSE
      <4>1. e.left + lag <= 0
        BY <1>5, <3>2, <3>5
      <4> QED BY <1>7, <3>3, <3>4, <4>1
    <3> QED BY <3>5
  <2> QED BY <2>1, <2>2
<1>13. ASSUME NEW j \in Nodes, j = i PROVE NodeRight(j)'
  <2>1. age' = age /\ local'[j] = t
    BY <1>1, <1>8, <1>13
  <2>2. \A m \in Nonces : accepted'[m][j] >= 1 /\ age'[m] < MaxAge => m \in local'[j].used
    BY <1>12, <1>13, <2>1
  <2>3. StoreRight(local'[j]) /\ \A e \in Entries(local'[j]) : Covers(e.left, age'[e.nonce])
    BY <1>5, <1>11, <2>1
  <2> QED BY <2>2, <2>3 DEF NodeRight
<1>14. \A j \in Nodes : NodeRight(j)'
  <2> SUFFICES ASSUME NEW j \in Nodes, j # i PROVE NodeRight(j)'
    BY <1>13
  <2>1. local'[j] = local[j] /\ \A m \in Nonces : accepted'[m][j] = accepted[m][j]
    BY <1>3, <1>8, <1>9
  <2> QED BY <1>1, <2>1, NodeAdvance
<1>15. RedisRight'
  <2>1. \A m \in Nonces : /\ accepted'[m][Redis] = accepted[m][Redis]
                          /\ redis'[m] \in Int /\ redis[m] <= redis'[m]
    BY <1>1, <1>2, <1>3, <1>9
  <2> QED BY <1>1, <2>1, RedisAdvance DEF RedisRight
<1>16. SlotsAccounted'
  BY <1>1, <1>2, SlotsKept DEF ChallengeInv
<1> QED BY <1>1, <1>2, <1>3, <1>8, <1>9, <1>14, <1>15, <1>16, Whole

LEMMA AdmitKeeps ==
  ASSUME ChallengeInv, NEW c \in Calls, NEW i \in Nodes, NEW n \in Nonces, Admit(c, i, n)
  PROVE  ChallengeInv'
<1> DEFINE l == [step |-> "parse", node |-> i, nonce |-> n, pause |-> 0, lag |-> 0]
<1>1. /\ call[c] = Idle /\ age[n] # Unissued /\ verifyRunning[i] < Admissions
      /\ verifyRunning' = [verifyRunning EXCEPT ![i] = @ + 1]
      /\ call' = [call EXCEPT ![c] = l]
      /\ UNCHANGED <<age, redis, local, accepted>>
  BY DEF Admit
<1>2. /\ call \in [Calls -> Verify \cup {Idle}] /\ age \in [Nonces -> Unissued .. Expired]
      /\ redis \in [Nonces -> 0 .. MaxAge] /\ local \in [Nodes -> Store]
      /\ verifyRunning \in [Nodes -> 0 .. Admissions] /\ accepted \in [Nonces -> [Stores -> Nat]]
      /\ \A m \in Nonces : redis[m] \in Int
      /\ CallsRight(call, age)
  BY StateTypes DEF ChallengeInv
<1>3. l \in Verify /\ l.step = "parse" /\ l.pause = 0 /\ l.lag = 0 /\ l.nonce = n /\ l.node = i
  BY Bounds DEF Verify, Steps
<1> HIDE DEF l
<1>4. l # Idle /\ Advance(call[c], l, age)
  <2>1. age[n] \in Unissued .. Expired /\ age[n] # Unissued
    BY <1>1, <1>2
  <2>2. age[n] >= 0
    BY <2>1, Bounds DEF Unissued, Expired
  <2> QED BY <1>1, <1>3, <2>2, VerifyType DEF Advance
<1>5. /\ call'[c] = l /\ \A d \in Calls : d # c => call'[d] = call[d]
      /\ call' \in [Calls -> Verify \cup {Idle}]
  BY <1>1, <1>2, <1>3
<1>6. \A d \in Calls : Advance(call[d], call'[d], age)
  BY <1>4, <1>5 DEF Advance
<1>7. CallsRight(call', age')
  BY <1>1, <1>2, <1>6, CallsAdvance
<1>8. \A j \in Nodes : NodeRight(j)'
  BY <1>1, <1>6, NodeAdvance
<1>9. RedisRight'
  <2>1. \A m \in Nonces : /\ accepted'[m][Redis] = accepted[m][Redis]
                          /\ redis'[m] \in Int /\ redis[m] <= redis'[m]
    BY <1>1, <1>2
  <2> QED BY <1>1, <1>6, <2>1, RedisAdvance DEF RedisRight
<1>10. /\ verifyRunning' \in [Nodes -> 0 .. Admissions] /\ verifyRunning'[i] = verifyRunning[i] + 1
       /\ \A j \in Nodes : j # i => verifyRunning'[j] = verifyRunning[j]
  BY <1>1, <1>2, Bounds
<1>11. SlotsAccounted'
  <2>1. c \notin Holders(call, i) /\ Holders(call', i) = Holders(call, i) \cup {c}
    BY <1>1, <1>3, <1>4, <1>5 DEF Holders
  <2>2. \A j \in Nodes : j # i => Holders(call', j) = Holders(call, j)
    BY <1>1, <1>3, <1>5 DEF Holders
  <2>3. IsFiniteSet(Holders(call, i))
    BY FS_Subset, Bounds DEF Holders
  <2>4. Cardinality(Holders(call', i)) = Cardinality(Holders(call, i)) + 1
    BY <2>1, <2>3, FS_AddElement
  <2> QED BY <1>10, <2>2, <2>4, SlotsAre, SlotsAreNext DEF ChallengeInv
<1> QED BY <1>1, <1>2, <1>5, <1>7, <1>8, <1>9, <1>10, <1>11, Whole

LEMMA EndKeeps ==
  ASSUME ChallengeInv, NEW c \in Calls, End(c)
  PROVE  ChallengeInv'
<1> DEFINE i == call[c].node
<1>1. /\ At(c, "end") /\ call[c] # Idle
      /\ call' = [call EXCEPT ![c] = Idle]
      /\ verifyRunning' = [verifyRunning EXCEPT ![i] = @ - 1]
      /\ UNCHANGED <<age, redis, local, accepted>>
  BY DEF End, At, Idle
<1>2. /\ call \in [Calls -> Verify \cup {Idle}] /\ age \in [Nonces -> Unissued .. Expired]
      /\ redis \in [Nonces -> 0 .. MaxAge] /\ local \in [Nodes -> Store]
      /\ verifyRunning \in [Nodes -> 0 .. Admissions] /\ accepted \in [Nonces -> [Stores -> Nat]]
      /\ \A m \in Nonces : redis[m] \in Int
      /\ CallsRight(call, age)
  BY StateTypes DEF ChallengeInv
<1>3. i \in Nodes
  BY <1>1, <1>2, VerifyType
<1>4. /\ call'[c] = Idle /\ \A d \in Calls : d # c => call'[d] = call[d]
      /\ call' \in [Calls -> Verify \cup {Idle}]
  BY <1>1, <1>2
<1>5. \A d \in Calls : Advance(call[d], call'[d], age)
  BY <1>4 DEF Advance
<1>6. CallsRight(call', age')
  BY <1>1, <1>2, <1>5, CallsAdvance
<1>7. \A j \in Nodes : NodeRight(j)'
  BY <1>1, <1>5, NodeAdvance
<1>8. RedisRight'
  <2>1. \A m \in Nonces : /\ accepted'[m][Redis] = accepted[m][Redis]
                          /\ redis'[m] \in Int /\ redis[m] <= redis'[m]
    BY <1>1, <1>2
  <2> QED BY <1>1, <1>5, <2>1, RedisAdvance DEF RedisRight
<1>9. /\ c \in Holders(call, i) /\ Holders(call', i) = Holders(call, i) \ {c}
      /\ \A j \in Nodes : j # i => Holders(call', j) = Holders(call, j)
  BY <1>1, <1>4 DEF Holders
<1>10. /\ IsFiniteSet(Holders(call, i)) /\ IsFiniteSet(Holders(call', i))
       /\ Cardinality(Holders(call, i)) \in Nat /\ Cardinality(Holders(call', i)) \in Nat
  <2>1. IsFiniteSet(Holders(call, i)) /\ IsFiniteSet(Holders(call', i))
    BY <1>9, FS_Subset, Bounds DEF Holders
  <2> QED BY <2>1, FS_CardinalityType
<1>11. Cardinality(Holders(call', i)) = Cardinality(Holders(call, i)) - 1
  BY <1>9, <1>10, FS_RemoveElement
<1>12. verifyRunning[i] = Cardinality(Holders(call, i))
  BY <1>3, SlotsAre DEF ChallengeInv
<1>13. /\ verifyRunning'[i] = verifyRunning[i] - 1
       /\ \A j \in Nodes : j # i => verifyRunning'[j] = verifyRunning[j]
       /\ verifyRunning' \in [Nodes -> 0 .. Admissions]
  <2>1. verifyRunning[i] - 1 \in 0 .. Admissions
    BY <1>2, <1>3, <1>10, <1>11, <1>12, Bounds
  <2> QED BY <1>1, <1>2, <1>3, <2>1
<1>14. \A j \in Nodes : verifyRunning'[j] = Cardinality(Holders(call', j))
  <2> SUFFICES ASSUME NEW j \in Nodes PROVE verifyRunning'[j] = Cardinality(Holders(call', j))
    OBVIOUS
  <2>1. CASE j = i
    BY <1>11, <1>12, <1>13, <2>1
  <2>2. CASE j # i
    BY <1>9, <1>13, <2>2, SlotsAre DEF ChallengeInv
  <2> QED BY <2>1, <2>2
<1>15. SlotsAccounted'
  BY <1>14, SlotsAreNext
<1> QED BY <1>1, <1>2, <1>4, <1>6, <1>7, <1>8, <1>13, <1>15, Whole

LEMMA ServeKeeps ==
  ASSUME ChallengeInv, NEW n \in Nonces, NEW truncated \in {0, 1}, Serve(n, truncated)
  PROVE  ChallengeInv'
<1>1. /\ Fresh(n) /\ age' = [age EXCEPT ![n] = truncated]
      /\ accepted' = [accepted EXCEPT ![n] = [s \in Stores |-> 0]]
      /\ UNCHANGED <<redis, local, verifyRunning, call>>
  BY DEF Serve
<1>2. /\ call \in [Calls -> Verify \cup {Idle}] /\ age \in [Nonces -> Unissued .. Expired]
      /\ redis \in [Nonces -> 0 .. MaxAge] /\ local \in [Nodes -> Store]
      /\ verifyRunning \in [Nodes -> 0 .. Admissions] /\ accepted \in [Nonces -> [Stores -> Nat]]
      /\ Redis \in Stores /\ \A i \in Nodes : i \in Stores
      /\ CallsRight(call, age) /\ RedisRight /\ SlotsAccounted /\ \A i \in Nodes : NodeRight(i)
  BY StateTypes DEF ChallengeInv
<1>3. /\ age' \in [Nonces -> Unissued .. Expired]
      /\ \A m \in Nonces : m # n => age'[m] = age[m]
  BY <1>1, <1>2, Bounds DEF Unissued, Expired
<1>4. /\ accepted' \in [Nonces -> [Stores -> Nat]] /\ \A s \in Stores : accepted'[n][s] = 0
      /\ \A m \in Nonces : m # n => accepted'[m] = accepted[m]
  BY <1>1, <1>2
<1>5. \A c \in Calls : call[c] # Idle => call[c].nonce # n /\ call[c].nonce \in Nonces
  BY <1>1, <1>2, VerifyType DEF Fresh
<1>6. CallsRight(call', age')
  <2>1. \A c \in Calls : call'[c] # Idle => age'[call'[c].nonce] = age[call'[c].nonce]
    BY <1>1, <1>3, <1>5
  <2>2. \A c \in Calls : Advance(call[c], call'[c], age)
    BY <1>1 DEF Advance
  <2> QED BY <1>2, <2>1, <2>2, CallsAdvance
<1>7. RedisRight'
  BY <1>1, <1>2, <1>3, <1>4, Bounds DEF RedisRight
<1>8. ASSUME NEW i \in Nodes PROVE NodeRight(i)'
  <2>1. /\ StoreRight(local[i]) /\ n \notin local[i].used
        /\ \A e \in Entries(local[i]) : Covers(e.left, age[e.nonce])
    BY <1>1, <1>2 DEF NodeRight, Fresh
  <2>2. \A e \in Entries(local[i]) : Covers(e.left, age'[e.nonce])
    <3> TAKE e \in Entries(local[i])
    <3>1. e.nonce # n /\ e.nonce \in Nonces
      BY <2>1, EntryLeft
    <3> QED BY <1>3, <2>1, <3>1
  <2>3. ASSUME NEW m \in Nonces, accepted'[m][i] >= 1, age'[m] < MaxAge PROVE m \in local[i].used
    <3>1. m # n
      BY <1>2, <1>4, <2>3
    <3>2. accepted'[m] = accepted[m] /\ age'[m] = age[m]
      BY <1>3, <1>4, <3>1
    <3> QED BY <1>2, <2>3, <3>2 DEF NodeRight
  <2> QED BY <1>1, <2>1, <2>2, <2>3 DEF NodeRight
<1>9. SlotsAccounted'
  BY <1>1, <1>2, SlotsKept
<1> QED BY <1>1, <1>2, <1>3, <1>4, <1>6, <1>7, <1>8, <1>9, Whole

LEMMA TickKeeps ==
  ASSUME ChallengeInv, Tick
  PROVE  ChallengeInv'
<1>1. /\ \A c \in Calls : Waits(call[c]) => call[c].pause < MaxPause
      /\ age' = [n \in Nonces |-> Aged(age[n])]
      /\ redis' = [n \in Nonces |-> IF redis[n] > 0 THEN redis[n] - 1 ELSE 0]
      /\ local' = [i \in Nodes |-> Older(local[i], Overdue)]
      /\ call' = [c \in Calls |-> Suspended(call[c])]
      /\ UNCHANGED <<verifyRunning, accepted>>
  BY DEF Tick, Waiting, Dated, Waits, HasDate, Aged, Suspended
<1>2. /\ call \in [Calls -> Verify \cup {Idle}] /\ age \in [Nonces -> Unissued .. Expired]
      /\ redis \in [Nonces -> 0 .. MaxAge] /\ local \in [Nodes -> Store]
      /\ verifyRunning \in [Nodes -> 0 .. Admissions] /\ accepted \in [Nonces -> [Stores -> Nat]]
      /\ \A n \in Nonces : redis[n] \in Int /\ 0 <= redis[n] /\ redis[n] <= MaxAge
      /\ CallsRight(call, age) /\ RedisRight /\ SlotsAccounted /\ \A i \in Nodes : NodeRight(i)
  BY StateTypes DEF ChallengeInv
<1>3. /\ \A n \in Nonces : age'[n] = Aged(age[n]) /\ age[n] \in Unissued .. Expired
      /\ \A c \in Calls : call'[c] = Suspended(call[c])
      /\ \A i \in Nodes : local'[i] = Older(local[i], Overdue)
      /\ \A n \in Nonces : redis'[n] = IF redis[n] > 0 THEN redis[n] - 1 ELSE 0
  BY <1>1, <1>2
<1>4. age' \in [Nonces -> Unissued .. Expired]
  BY <1>1, <1>3, AgedType
<1>5. /\ redis' \in [Nonces -> 0 .. MaxAge]
      /\ \A n \in Nonces : redis'[n] \in Int /\ redis'[n] >= redis[n] - 1
  BY <1>1, <1>2, <1>3, Bounds
<1>6. CallsRight(call', age')
  BY <1>1, <1>2, <1>3, SuspendedCalls
<1>7. \A c \in Calls :
        /\ call'[c] \in Verify \cup {Idle}
        /\ Waits(call'[c]) <=> Waits(call[c])
        /\ call'[c] = Idle <=> call[c] = Idle
        /\ call[c] # Idle => call'[c].node = call[c].node /\ call'[c].nonce = call[c].nonce
  <2> TAKE c \in Calls
  <2>1. /\ call[c] \in Verify \cup {Idle} /\ CallRight(call[c], age)
        /\ call'[c] = Suspended(call[c])
    BY <1>2, <1>3 DEF CallsRight
  <2>2. Waits(call[c]) => call[c].pause < MaxPause
    BY <1>1
  <2> DEFINE l == Suspended(call[c])
  <2>3. /\ \A n \in Nonces : age'[n] = Aged(age[n])
        /\ age \in [Nonces -> Unissued .. Expired]
        /\ call[c] \in Verify \cup {Idle} /\ CallRight(call[c], age)
    BY <1>2, <1>3, <2>1
  <2>4. /\ l \in Verify \cup {Idle} /\ CallRight(l, age')
        /\ Waits(l) <=> Waits(call[c])
        /\ l = Idle <=> call[c] = Idle
        /\ l # Idle => l.node = call[c].node /\ l.nonce = call[c].nonce
    BY <2>2, <2>3, SuspendedRight
  <2> HIDE DEF l
  <2> QED BY <2>1, <2>4 DEF l
<1>8. call' \in [Calls -> Verify \cup {Idle}]
  BY <1>1, <1>7
<1>9. SlotsAccounted'
  BY <1>1, <1>2, <1>7, SlotsKept
<1>10. ASSUME NEW n \in Nonces, NEW left \in Int, NEW less \in Int, less >= left - 1,
              Covers(left, age[n])
       PROVE  Covers(less, age'[n])
  BY <1>3, <1>10, CoversAged
<1>11. RedisRight'
  <2>1. ASSUME NEW n \in Nonces
        PROVE  accepted'[n][Redis] >= 1 => Covers(redis'[n], age'[n])
    <3>1. accepted' = accepted
      BY <1>1
    <3>2. Covers(redis[n], age[n]) => Covers(redis'[n], age'[n])
      BY <1>2, <1>5, <1>10
    <3> QED BY <1>2, <3>1, <3>2 DEF RedisRight
  <2> QED BY <2>1 DEF RedisRight
<1>12. \A n \in Nonces : age'[n] < MaxAge => age[n] < MaxAge
  <2> TAKE n \in Nonces
  <2>1. age'[n] = Aged(age[n]) /\ Aged(age[n]) \in Int /\ age[n] \in Int /\ Aged(age[n]) >= age[n]
    BY <1>3, AgedType
  <2> QED BY <2>1, Bounds
<1>13. ASSUME NEW i \in Nodes PROVE NodeRight(i)'
  <2> DEFINE t == Older(local[i], Overdue)
  <2>1. /\ StoreRight(local[i])
        /\ \A e \in Entries(local[i]) : Covers(e.left, age[e.nonce])
    BY <1>2 DEF NodeRight
  <2>2. /\ StoreRight(t) /\ t.used = local[i].used
        /\ \A f \in Entries(t) : \E e \in Entries(local[i]) :
               f.nonce = e.nonce /\ f.left \in Int /\ f.left >= e.left - 1
    BY <2>1, OlderRight
  <2>3. local'[i] = t
    BY <1>3
  <2> HIDE DEF t
  <2>4. \A f \in Entries(t) : Covers(f.left, age'[f.nonce])
    <3> TAKE f \in Entries(t)
    <3>1. PICK e \in Entries(local[i]) : f.nonce = e.nonce /\ f.left \in Int /\ f.left >= e.left - 1
      BY <2>2
    <3>2. e.nonce \in Nonces /\ e.left \in Int
      BY <2>1, EntryLeft
    <3>3. Covers(e.left, age[f.nonce])
      BY <2>1, <3>1
    <3> QED BY <1>10, <3>1, <3>2, <3>3
  <2>5. \A n \in Nonces : accepted'[n][i] >= 1 /\ age'[n] < MaxAge => n \in t.used
    BY <1>1, <1>2, <1>12, <2>2 DEF NodeRight
  <2> QED BY <2>2, <2>3, <2>4, <2>5 DEF NodeRight
<1>14. local' \in [Nodes -> Store]
  <2>1. \A i \in Nodes : Older(local[i], Overdue) \in Store
    BY <1>3, <1>13 DEF NodeRight, StoreRight
  <2> QED BY <1>1, <2>1
<1>15. /\ verifyRunning' \in [Nodes -> 0 .. Admissions]
       /\ accepted' \in [Nonces -> [Stores -> Nat]]
  BY <1>1, <1>2
<1> QED BY <1>4, <1>5, <1>6, <1>8, <1>9, <1>11, <1>13, <1>14, <1>15, Whole

LEMMA RestartKeeps ==
  ASSUME ChallengeInv, NEW i \in Nodes, Restart(i)
  PROVE  ChallengeInv'
<1>1. /\ local' = [local EXCEPT ![i] = EmptyStore]
      /\ verifyRunning' = [verifyRunning EXCEPT ![i] = 0]
      /\ call' = [c \in Calls |-> IF call[c] # Idle /\ call[c].node = i THEN Idle ELSE call[c]]
      /\ accepted' = [n \in Nonces |-> [accepted[n] EXCEPT ![i] = 0]]
      /\ UNCHANGED <<age, redis>>
  BY DEF Restart
<1>2. /\ call \in [Calls -> Verify \cup {Idle}] /\ age \in [Nonces -> Unissued .. Expired]
      /\ redis \in [Nonces -> 0 .. MaxAge] /\ local \in [Nodes -> Store]
      /\ verifyRunning \in [Nodes -> 0 .. Admissions] /\ accepted \in [Nonces -> [Stores -> Nat]]
      /\ \A n \in Nonces : redis[n] \in Int /\ accepted[n] \in [Stores -> Nat]
      /\ Redis \in Stores /\ \A j \in Nodes : j \in Stores /\ j # Redis
      /\ CallsRight(call, age)
  BY StateTypes DEF ChallengeInv
<1>3. \A c \in Calls : call'[c] = IF call[c] # Idle /\ call[c].node = i THEN Idle ELSE call[c]
  BY <1>1
<1>4. \A c \in Calls : Advance(call[c], call'[c], age)
  BY <1>3 DEF Advance
<1>5. call' \in [Calls -> Verify \cup {Idle}]
  BY <1>1, <1>2
<1>6. CallsRight(call', age')
  BY <1>1, <1>2, <1>4, CallsAdvance
<1>7. /\ accepted' \in [Nonces -> [Stores -> Nat]]
      /\ \A n \in Nonces : accepted'[n][i] = 0
      /\ \A n \in Nonces, s \in Stores : s # i => accepted'[n][s] = accepted[n][s]
  BY <1>1, <1>2
<1>8. RedisRight'
  <2>1. \A m \in Nonces : /\ accepted'[m][Redis] = accepted[m][Redis]
                          /\ redis'[m] \in Int /\ redis[m] <= redis'[m]
    BY <1>1, <1>2, <1>7
  <2> QED BY <1>1, <1>4, <2>1, RedisAdvance DEF RedisRight
<1>9. /\ local' \in [Nodes -> Store] /\ local'[i] = EmptyStore
      /\ \A j \in Nodes : j # i => local'[j] = local[j]
  BY <1>1, <1>2, EmptyRight DEF StoreRight
<1>10. ASSUME NEW j \in Nodes PROVE NodeRight(j)'
  <2>1. CASE j = i
    <3>1. local'[j] = EmptyStore /\ \A n \in Nonces : accepted'[n][j] = 0
      BY <1>7, <1>9, <2>1
    <3> QED BY <3>1, EmptyRight DEF NodeRight
  <2>2. CASE j # i
    <3>1. local'[j] = local[j] /\ \A n \in Nonces : accepted'[n][j] = accepted[n][j]
      BY <1>2, <1>7, <1>9, <2>2
    <3> QED BY <1>1, <1>4, <3>1, NodeAdvance
  <2> QED BY <2>1, <2>2
<1>11. /\ verifyRunning' \in [Nodes -> 0 .. Admissions] /\ verifyRunning'[i] = 0
       /\ \A j \in Nodes : j # i => verifyRunning'[j] = verifyRunning[j]
  BY <1>1, <1>2, Bounds
<1>12. SlotsAccounted'
  <2>1. Holders(call', i) = {}
    BY <1>3 DEF Holders
  <2>2. \A j \in Nodes : j # i => Holders(call', j) = Holders(call, j)
    BY <1>3 DEF Holders
  <2>3. Cardinality({}) = 0
    BY FS_EmptySet
  <2> QED BY <1>11, <2>1, <2>2, <2>3, SlotsAre, SlotsAreNext DEF ChallengeInv
<1> QED BY <1>1, <1>2, <1>5, <1>6, <1>7, <1>8, <1>9, <1>10, <1>11, <1>12, Whole

LEMMA QuietKeeps ==
  ASSUME ChallengeInv, UNCHANGED vars
  PROVE  ChallengeInv'
<1>1. UNCHANGED <<age, redis, local, verifyRunning, call, accepted>>
  BY DEF vars
<1>2. /\ redis' \in [Nonces -> 0 .. MaxAge] /\ \A n \in Nonces : redis[n] <= redis'[n]
      /\ call' \in [Calls -> Verify \cup {Idle}] /\ CallsRight(call', age')
  BY <1>1, StateTypes DEF ChallengeInv
<1>3. \A d \in Calls : /\ Advance(call[d], call'[d], age)
                       /\ call'[d] = Idle <=> call[d] = Idle
                       /\ call[d] # Idle => call'[d].node = call[d].node
  BY <1>1 DEF Advance
<1> QED BY <1>1, <1>2, <1>3, OnlyCallsMove

LEMMA InitRight == Init => ChallengeInv
<1> SUFFICES ASSUME Init PROVE ChallengeInv
  OBVIOUS
<1>1. /\ \A n \in Nonces : age[n] = Unissued /\ redis[n] = 0
      /\ \A n \in Nonces, s \in Stores : accepted[n][s] = 0
      /\ \A i \in Nodes : local[i] = EmptyStore /\ verifyRunning[i] = 0
      /\ \A c \in Calls : call[c] = Idle
  BY DEF Init
<1>2. TypeOK
  <2>1. age \in [Nonces -> Unissued .. Expired] /\ redis \in [Nonces -> 0 .. MaxAge]
    BY Bounds DEF Init, Unissued, Expired
  <2>2. EmptyStore \in Store /\ Cardinality(EmptyStore.used) <= MaxStored
        /\ EmptyStore.head <= Len(EmptyStore.ordered)
    BY EmptyRight DEF StoreRight
  <2>3. local \in [Nodes -> Store] /\ verifyRunning \in [Nodes -> 0 .. Admissions]
    BY <2>2, Bounds DEF Init
  <2>4. call \in [Calls -> Verify \cup {Idle}]
    BY DEF Init
  <2>5. accepted \in [Nonces -> [Stores -> Nat]]
    BY DEF Init
  <2> QED BY <1>1, <2>1, <2>2, <2>3, <2>4, <2>5 DEF TypeOK
<1>3. SlotsAccounted
  <2>1. \A i \in Nodes : Holders(call, i) = {}
    BY <1>1 DEF Holders
  <2> QED BY <1>1, <2>1, FS_EmptySet, SlotsAre
<1>4. CallsRight(call, age)
  BY <1>1 DEF CallsRight, CallRight
<1>5. RedisRight
  BY <1>1 DEF RedisRight, Stores
<1>6. \A i \in Nodes : NodeRight(i)
  <2> TAKE i \in Nodes
  <2>1. local[i] = EmptyStore /\ \A n \in Nonces : accepted[n][i] = 0
    BY <1>1 DEF Stores
  <2> QED BY <2>1, EmptyRight DEF NodeRight
<1> QED BY <1>2, <1>3, <1>4, <1>5, <1>6 DEF ChallengeInv

LEMMA StepKeeps == ChallengeInv /\ [Next]_vars => ChallengeInv'
<1> SUFFICES ASSUME ChallengeInv, [Next]_vars PROVE ChallengeInv'
  OBVIOUS
<1>1. ASSUME NEW n \in Nonces, NEW truncated \in {0, 1}, Serve(n, truncated) PROVE ChallengeInv'
  BY <1>1, ServeKeeps
<1>2. ASSUME NEW c \in Calls, NEW i \in Nodes, NEW n \in Nonces, Admit(c, i, n) PROVE ChallengeInv'
  BY <1>2, AdmitKeeps
<1>3. ASSUME NEW c \in Calls, VerifyStep(c) PROVE ChallengeInv'
  <2>1. ASSUME NEW wellFormed \in BOOLEAN, Parse(c, wellFormed) PROVE ChallengeInv'
    BY <2>1, ParseKeeps
  <2>2. CASE ReadClock(c)
    BY <2>2, ReadClockKeeps
  <2>3. CASE SetNX(c)
    BY <2>3, SetNXKeeps
  <2>4. ASSUME NEW executed \in BOOLEAN, SetNXFails(c, executed) PROVE ChallengeInv'
    BY <2>4, SetNXFailsKeeps
  <2>5. CASE ConsumeLocal(c)
    BY <2>5, ConsumeLocalKeeps
  <2>6. CASE End(c)
    BY <2>6, EndKeeps
  <2> QED BY <1>3, <2>1, <2>2, <2>3, <2>4, <2>5, <2>6 DEF VerifyStep
<1>4. CASE Tick
  BY <1>4, TickKeeps
<1>5. ASSUME NEW i \in Nodes, Restart(i) PROVE ChallengeInv'
  BY <1>5, RestartKeeps
<1>6. CASE UNCHANGED vars
  BY <1>6, QuietKeeps
<1> QED BY <1>1, <1>2, <1>3, <1>4, <1>5, <1>6 DEF Next

\* For any puzzles, nodes, calls and limits: what a marker covers, and what a
\* call under way may still ask for, is as ChallengeInv says.
THEOREM ChallengeInvariant == Spec => []ChallengeInv
<1> QED BY InitRight, StepKeeps, PTL DEF Spec

\* The state of every node, token and verify call is well formed, a store
\* never holds more markers than it may, and no count goes below zero or
\* above the ceiling (TryAdmitVerify, localNonceStore).
THEOREM ChallengeTypeCorrect == Spec => []TypeOK
<1>1. ChallengeInv => TypeOK
  BY DEF ChallengeInv
<1> QED BY <1>1, ChallengeInvariant, PTL

\* In the steps of Next, only a verify call's own SetNX or ConsumeLocal adds to
\* what a store has accepted.
LEMMA OnlyConsumingAccepts ==
  ASSUME ChallengeInv, [Next]_vars, NEW n \in Nonces, NEW s \in Stores,
         accepted'[n][s] > accepted[n][s]
  PROVE  \E c \in Calls : SetNX(c) \/ ConsumeLocal(c)
<1>1. /\ accepted \in [Nonces -> [Stores -> Nat]] /\ accepted[n] \in [Stores -> Nat]
      /\ accepted[n][s] \in Nat
  BY StateTypes DEF ChallengeInv
<1>2. accepted' # accepted
  BY <1>1
<1>3. ASSUME NEW m \in Nonces, NEW truncated \in {0, 1}, Serve(m, truncated) PROVE FALSE
  <2>1. accepted' = [accepted EXCEPT ![m] = [q \in Stores |-> 0]]
    BY <1>3 DEF Serve
  <2>2. CASE m = n
    BY <1>1, <2>1, <2>2
  <2>3. CASE m # n
    BY <1>1, <2>1, <2>3
  <2> QED BY <2>2, <2>3
<1>4. ASSUME NEW d \in Calls, NEW i \in Nodes, NEW m \in Nonces, Admit(d, i, m) PROVE FALSE
  BY <1>2, <1>4 DEF Admit
<1>5. ASSUME NEW d \in Calls, VerifyStep(d) PROVE SetNX(d) \/ ConsumeLocal(d)
  BY <1>2, <1>5 DEF VerifyStep, Parse, ReadClock, SetNXFails, End
<1>6. ~ Tick
  BY <1>2 DEF Tick
<1>7. ASSUME NEW i \in Nodes, Restart(i) PROVE FALSE
  <2>1. accepted'[n] = [accepted[n] EXCEPT ![i] = 0]
    BY <1>7 DEF Restart
  <2> QED BY <1>1, <2>1
<1>8. ~ UNCHANGED vars
  BY <1>2 DEF vars
<1> QED BY <1>3, <1>4, <1>5, <1>6, <1>7, <1>8 DEF Next

LEMMA RedisOnce ==
  ASSUME ChallengeInv, NEW c \in Calls, SetNX(c), NEW n \in Nonces, NEW s \in Stores,
         accepted[n][s] > 0, accepted'[n][s] > accepted[n][s]
  PROVE  age[n] >= MaxAge
<1> DEFINE k == call[c].nonce
<1>1. /\ TypeOK /\ call[c] \in Verify \cup {Idle} /\ At(c, "redis")
      /\ accepted[n][s] \in Nat /\ Redis \in Stores /\ redis[n] \in Int /\ 0 <= redis[n]
      /\ age[n] \in Unissued .. Expired /\ age[n] \in Int /\ MaxAge \in Int
  BY StateTypes, Bounds DEF ChallengeInv, SetNX
<1>2. k \in Nonces
  BY <1>1, VerifyType DEF At, Idle
<1>3. ~ (redis[k] > 0) /\ AcceptedBy(k, Redis)
  BY <1>1 DEF SetNX
<1>4. n = k /\ s = Redis
  <2>1. \A m \in Nonces, q \in Stores : m # k \/ q # Redis => accepted'[m][q] = accepted[m][q]
    BY <1>1, <1>2, <1>3, AcceptedByRight
  <2> QED BY <1>1, <2>1
<1>5. Covers(redis[n], age[n])
  BY <1>1, <1>4 DEF ChallengeInv, RedisRight
<1>6. age[n] < MaxAge => redis[n] > 0
  BY <1>1, <1>5, CoversLives
<1> QED BY <1>1, <1>3, <1>4, <1>6

LEMMA NodeOnce ==
  ASSUME ChallengeInv, NEW c \in Calls, ConsumeLocal(c), NEW n \in Nonces, NEW s \in Stores,
         accepted[n][s] > 0, accepted'[n][s] > accepted[n][s]
  PROVE  age[n] >= MaxAge
<1> DEFINE k == call[c].nonce
           i == call[c].node
           lag == call[c].lag
           accepts == Accepts(Sweep(local[i], lag), k)
<1>1. /\ TypeOK /\ call[c] \in Verify \cup {Idle} /\ At(c, "fallback")
      /\ accepted[n][s] \in Nat
      /\ age[n] \in Unissued .. Expired /\ age[n] \in Int /\ MaxAge \in Int
      /\ \A j \in Nodes : j \in Stores
  BY StateTypes, Bounds DEF ChallengeInv, ConsumeLocal
<1>2. call[c] \in Verify
  BY <1>1 DEF At, Idle
<1>3. k \in Nonces /\ i \in Nodes /\ lag \in 0 .. MaxPause /\ lag \in Int /\ 0 <= lag /\ i \in Stores
  <2>1. lag \in 0 .. MaxPause
    BY <1>2 DEF Verify
  <2> QED BY <1>1, <1>2, <2>1, VerifyType
<1>4. NodeRight(i)
  BY <1>3 DEF ChallengeInv
<1>5. StoreRight(local[i])
  BY <1>4 DEF NodeRight
<1>6. accepts /\ AcceptedBy(k, i)
  <2>1. accepted' # accepted
    BY <1>1
  <2> QED BY <2>1 DEF ConsumeLocal
<1>7. n = k /\ s = i
  <2>1. \A m \in Nonces, q \in Stores : m # k \/ q # i => accepted'[m][q] = accepted[m][q]
    BY <1>1, <1>3, <1>6, AcceptedByRight
  <2> QED BY <1>1, <2>1
<1>8. \A e \in Entries(local[i]) : e.nonce = n => e.left + lag <= 0
  BY <1>3, <1>5, <1>6, <1>7, ConsumeRight
<1> HIDE DEF accepts
<1>9. ASSUME age[n] < MaxAge PROVE FALSE
  <2>1. accepted[n][i] >= 1
    BY <1>1, <1>7
  <2>2. n \in local[i].used
    BY <1>4, <1>9, <2>1 DEF NodeRight
  <2>3. PICK e \in Entries(local[i]) : e.nonce = n
    BY <1>5, <2>2, UsedEntry
  <2>4. e.left \in Int /\ Covers(e.left, age[n])
    BY <1>4, <1>5, <2>3, EntryLeft DEF NodeRight
  <2>5. e.left > 0
    BY <1>1, <1>9, <2>4, CoversLives
  <2>6. e.left + lag <= 0
    BY <1>8, <2>3
  <2> QED BY <1>3, <2>4, <2>5, <2>6
<1> QED BY <1>1, <1>9

\* A puzzle is accepted once in the life of its token by Redis, and once by
\* each node's store (Verify, localNonceStore.Consume), although the clock is
\* read twice, calls are suspended in between for any time, and each call
\* sweeps by the clock it has read.
THEOREM UsedOncePerLife == Spec => OncePerLife
<1>1. ASSUME ChallengeInv, [Next]_vars, NEW n \in Nonces, NEW s \in Stores,
             accepted[n][s] > 0, accepted'[n][s] > accepted[n][s]
      PROVE  age[n] >= MaxAge
  BY <1>1, OnlyConsumingAccepts, RedisOnce, NodeOnce
<1>2. ChallengeInv /\ [Next]_vars =>
        [\A n \in Nonces, s \in Stores :
            (accepted[n][s] > 0 /\ accepted'[n][s] > accepted[n][s]) => age[n] >= MaxAge]_vars
  BY <1>1
<1> QED BY <1>2, ChallengeInvariant, PTL DEF Spec, OncePerLife

\* Each node's count of verify calls is the number of its calls that have
\* been admitted and have not ended (TryAdmitVerify and its release).
THEOREM EverySlotAccounted == Spec => []SlotsAccounted
<1>1. ChallengeInv => SlotsAccounted
  BY DEF ChallengeInv
<1> QED BY <1>1, ChallengeInvariant, PTL

LEMMA FullStore ==
  ASSUME NEW s, StoreRight(s), NEW n, n \notin s.used, NEW lag \in 0 .. MaxPause,
         ~ Accepts(Sweep(s, lag), n)
  PROVE  Cardinality({k \in Queued(s) : s.ordered[k].left > Overdue}) >= MaxStored
<1> DEFINE t == Sweep(s, lag)
           Q == Queued(t)
           R == {k \in Queued(s) : s.ordered[k].left > Overdue}
           f == [k \in Q |-> t.ordered[k].nonce]
<1>1. lag \in Int /\ 0 <= lag /\ lag <= MaxPause
  BY Bounds
<1>2. /\ StoreRight(t) /\ t.used \subseteq s.used
      /\ Q \subseteq Queued(s)
      /\ \A k \in Q : t.ordered[k] = s.ordered[k]
      /\ Q # {} => ~ Lapsed(s, t.head + 1, lag)
  BY <1>1, SweepRight
<1>3. ~ (Cardinality(t.used) < MaxStored)
  BY <1>2 DEF Accepts
<1> HIDE DEF t
<1>4. /\ t.head \in Nat /\ Len(t.ordered) \in Nat
      /\ \A k : k \in Q <=> (k \in Nat /\ t.head < k /\ k <= Len(t.ordered))
  BY <1>2, QueueType
<1>5. IsFiniteSet(Queued(s))
  <2>1. s.head + 1 \in Int /\ Len(s.ordered) \in Int
    BY QueueType
  <2> QED BY <2>1, FS_Interval DEF Queued
<1>6. Q \subseteq R
  <2> SUFFICES ASSUME NEW k \in Q PROVE s.ordered[k].left > Overdue
    BY <1>2
  <2> DEFINE first == t.head + 1
  <2>1. first \in Q /\ first <= k /\ first \in Nat /\ k \in Nat
    BY <1>4
  <2>2. ~ Lapsed(s, first, lag)
    BY <1>2
  <2> HIDE DEF first
  <2>3. s.ordered[first].left \in Int /\ s.ordered[k].left \in Int
    BY <1>2, <2>1, EntryType DEF StoreRight
  <2>4. s.ordered[first].left + lag > 0
    BY <1>1, <2>2, <2>3 DEF Lapsed
  <2>5. first < k => s.ordered[first].left - MaxPause <= s.ordered[k].left
    BY <1>2, <2>1 DEF StoreRight
  <2>6. first = k \/ first < k
    BY <2>1
  <2>7. CASE first = k
    BY <1>1, <2>3, <2>4, <2>7, Bounds
  <2>8. CASE first < k
    BY <1>1, <2>3, <2>4, <2>5, <2>8, Bounds
  <2> QED BY <2>6, <2>7, <2>8
<1>7. /\ IsFiniteSet(R) /\ IsFiniteSet(Q)
      /\ Cardinality(Q) <= Cardinality(R) /\ Cardinality(Q) \in Nat /\ Cardinality(R) \in Nat
  <2>1. R \in SUBSET Queued(s) /\ Q \in SUBSET R
    BY <1>6
  <2> HIDE DEF Q, R
  <2>2. IsFiniteSet(R)
    BY <1>5, <2>1, FS_Subset
  <2> QED BY <2>1, <2>2, FS_Subset, FS_CardinalityType
<1>8. f \in Surjection(Q, t.used)
  <2>1. t.used = {t.ordered[k].nonce : k \in Q}
    BY <1>2 DEF StoreRight
  <2> HIDE DEF Q
  <2>2. f \in [Q -> t.used]
    BY <2>1
  <2>3. \A x \in t.used : \E k \in Q : f[k] = x
    BY <2>1
  <2> QED BY <2>2, <2>3 DEF Surjection
<1>9. Cardinality(t.used) <= Cardinality(Q)
  <2> HIDE DEF Q, f
  <2> QED BY <1>7, <1>8, FS_Surjection
<1>10. Cardinality(t.used) \in Nat
  <2>1. IsFiniteSet(t.used)
    BY <1>2, QueueType
  <2> QED BY <2>1, FS_CardinalityType
<1> HIDE DEF Q, R
<1>11. Cardinality(R) >= MaxStored
  BY <1>3, <1>7, <1>9, <1>10, Bounds
<1> QED BY <1>11 DEF R

\* A step that ends a call of the fallback is that call's own.
LEMMA OnlyConsumeRefuses ==
  ASSUME ChallengeInv, [Next]_vars, NEW c \in Calls, Refuses(c)
  PROVE  ConsumeLocal(c)
<1>1. /\ call[c].step = "fallback" /\ call'[c].step = "end" /\ call'[c] # Idle
      /\ call \in [Calls -> Verify \cup {Idle}]
  BY StateTypes DEF Refuses, At, ChallengeInv
<1>2. call'[c] # call[c]
  BY <1>1
<1>3. ASSUME NEW n \in Nonces, NEW truncated \in {0, 1}, Serve(n, truncated) PROVE FALSE
  BY <1>2, <1>3 DEF Serve
<1>4. ASSUME NEW d \in Calls, NEW i \in Nodes, NEW n \in Nonces, Admit(d, i, n) PROVE FALSE
  <2>1. call[d] = Idle /\ \A e \in Calls : e # d => call'[e] = call[e]
    BY <1>1, <1>4 DEF Admit
  <2>2. c = d
    BY <1>2, <2>1
  <2> QED BY <1>1, <2>1, <2>2 DEF Idle
<1>5. ASSUME NEW d \in Calls, VerifyStep(d) PROVE ConsumeLocal(c)
  <2>1. d = c
    BY <1>1, <1>2, <1>5
       DEF VerifyStep, Parse, ReadClock, SetNX, SetNXFails, ConsumeLocal, End, Goto
  <2>2. ~ End(c)
    BY <1>1 DEF End, At
  <2> QED BY <1>1, <1>5, <2>1, <2>2 DEF VerifyStep, Parse, ReadClock, SetNX, SetNXFails, At
<1>6. CASE Tick
  <2>1. call'[c].step = call[c].step
    BY <1>1, <1>6 DEF Tick
  <2> QED BY <1>1, <2>1
<1>7. ASSUME NEW i \in Nodes, Restart(i) PROVE FALSE
  BY <1>1, <1>2, <1>7 DEF Restart
<1>8. CASE UNCHANGED vars
  BY <1>2, <1>8 DEF vars
<1> QED BY <1>3, <1>4, <1>5, <1>6, <1>7, <1>8 DEF Next

\* The fallback refuses a puzzle only because it has it or because it is full
\* of markers that have not died long ago (localNonceStore.Consume).
THEOREM RefusalsAreNeeded == Spec => NoNeedlessRefusal
<1>1. ASSUME ChallengeInv, [Next]_vars, NEW c \in Calls, Refuses(c)
      PROVE  LET s == local[call[c].node] IN
             \/ call[c].nonce \in s.used
             \/ Cardinality({i \in Queued(s) : s.ordered[i].left > Overdue}) >= MaxStored
  <2> DEFINE n == call[c].nonce
             i == call[c].node
             lag == call[c].lag
  <2>1. ConsumeLocal(c) /\ call[c] # Idle /\ accepted' = accepted
    BY <1>1, OnlyConsumeRefuses DEF Refuses, At, Idle
  <2>2. call[c] \in Verify
    BY <1>1, <2>1, StateTypes DEF ChallengeInv
  <2>3. n \in Nonces /\ i \in Nodes /\ lag \in 0 .. MaxPause
    BY <2>2 DEF Verify
  <2>4. StoreRight(local[i])
    BY <1>1, <2>3 DEF ChallengeInv, NodeRight
  <2>5. ~ Accepts(Sweep(local[i], lag), n)
    <3>1. ASSUME Accepts(Sweep(local[i], lag), n) PROVE FALSE
      <4>1. AcceptedBy(n, i)
        BY <2>1, <3>1 DEF ConsumeLocal
      <4>2. i \in Stores /\ TypeOK /\ accepted[n][i] \in Nat
        BY <1>1, <2>3, StateTypes DEF ChallengeInv
      <4>3. accepted'[n][i] = accepted[n][i] + 1
        BY <2>3, <4>1, <4>2, AcceptedByRight
      <4> QED BY <2>1, <4>2, <4>3
    <3> QED BY <3>1
  <2> QED BY <2>3, <2>4, <2>5, FullStore
<1>2. ChallengeInv /\ [Next]_vars =>
        [\A c \in Calls : Refuses(c) =>
            LET s == local[call[c].node] IN
            \/ call[c].nonce \in s.used
            \/ Cardinality({i \in Queued(s) : s.ordered[i].left > Overdue}) >= MaxStored]_vars
  BY <1>1
<1> QED BY <1>2, ChallengeInvariant, PTL DEF Spec, NoNeedlessRefusal
=============================================================================
