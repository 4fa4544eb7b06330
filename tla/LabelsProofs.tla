----------------------------- MODULE LabelsProofs -----------------------------
(***************************************************************************)
(* Theorems about the labelled requests.  Labels, for any clients,         *)
(* challenges, handlers and limits: the bounded stores keep their bounds,  *)
(* a client is within its cap, sliding or not, no handler sends on the     *)
(* closed queue, and a challenge labels at most one sample.  Evaluation,   *)
(* for any requests and any split: what a promoted model was graded on.    *)
(***************************************************************************)
EXTENDS Labels, Evaluation, FiniteSetTheorems, FunctionTheorems, SequenceTheorems, TLAPS

(***************************************************************************)
(* The inductive invariant.  A challenge's sample is in one place at a     *)
(* time: not yet issued, parked, held by one handler, or counted once.     *)
(***************************************************************************)
Holds(h, n) == handler[h].step = "recording" /\ handler[h].sample = n
IsParked(n) == pending.parked[n] # NotParked

OnePlace ==
    \A n \in Nonces :
        /\ recorded[n] <= 1
        /\ n \in unissued => ~ IsParked(n)
        /\ n \in unissued \/ IsParked(n) => /\ recorded[n] = 0
                                           /\ \A h \in Handlers : ~ Holds(h, n)
        /\ \A h \in Handlers : Holds(h, n) => recorded[n] = 0
        /\ \A g, h \in Handlers : Holds(g, n) /\ Holds(h, n) => g = h

\* A batch the writer waits on is not full.
BatchWaits == writer = "select" => Len(batch) < BatchSize

IInv == TypeOK /\ OnePlace /\ NeverSendsOnClosed /\ BatchWaits

USE LabelsAssumption, CapAssumption, PendingAssumption
    DEF LabelsAssumption, CapAssumption, PendingAssumption

-----------------------------------------------------------------------------
(* The bounded stores. *)

\* A set within a bound that it has not reached may gain one element.
LEMMA OneMore ==
    ASSUME NEW S, IsFiniteSet(S), NEW x, NEW T \in SUBSET (S \cup {x}), NEW m \in Nat,
           ~ (Cardinality(S) >= m)
    PROVE  Cardinality(T) <= m
<1>0. Cardinality(S) \in Nat
    BY FS_CardinalityType
<1>1. /\ IsFiniteSet(S \cup {x})
      /\ Cardinality(S \cup {x}) = IF x \in S THEN Cardinality(S) ELSE Cardinality(S) + 1
    BY FS_AddElement
<1>2. IsFiniteSet(T) /\ Cardinality(T) <= Cardinality(S \cup {x})
    BY <1>1, FS_Subset
<1>3. Cardinality(T) \in Nat
    BY <1>2, FS_CardinalityType
<1> QED BY <1>0, <1>1, <1>2, <1>3

\* A subset of a set within a bound is within it.
LEMMA NoMore ==
    ASSUME NEW S, IsFiniteSet(S), NEW T \in SUBSET S, NEW m \in Nat, Cardinality(S) <= m
    PROVE  Cardinality(T) <= m
<1>1. Cardinality(T) <= Cardinality(S) /\ Cardinality(T) \in Nat /\ Cardinality(S) \in Nat
    BY FS_Subset, FS_CardinalityType
<1> QED BY <1>1

LEMMA StoresFinite ==
    /\ \A p : IsFiniteSet(Parked(p))
    /\ \A s : IsFiniteSet(Tracked(s))
<1>1. ASSUME NEW p PROVE IsFiniteSet(Parked(p))
  <2>1. Parked(p) \in SUBSET Nonces
      BY DEF Parked
  <2> QED BY <2>1, FS_Subset
<1>2. ASSUME NEW s PROVE IsFiniteSet(Tracked(s))
  <2>1. Tracked(s) \in SUBSET Identities
      BY DEF Tracked
  <2> QED BY <2>1, FS_Subset
<1> QED BY <1>1, <1>2

PendingsWithin == {p \in Pendings : Cardinality(Parked(p)) <= MaxPending}
CapsWithin == {k \in Caps : Cardinality(Tracked(k.seen)) <= MaxIdentities}

\* The sweep, a claim and the clock add nothing.
LEMMA FewerParked ==
    ASSUME NEW p \in PendingsWithin, NEW q \in Pendings,
           \A n \in Nonces : q.parked[n] # NotParked => p.parked[n] # NotParked
    PROVE  q \in PendingsWithin
<1>1. Parked(q) \in SUBSET Parked(p)
    BY DEF Parked
<1>2. Cardinality(Parked(q)) <= MaxPending
    BY <1>1, NoMore, StoresFinite DEF PendingsWithin
<1> QED BY <1>2 DEF PendingsWithin

LEMMA SweptPendingsType ==
    ASSUME NEW p \in PendingsWithin
    PROVE  /\ SweptPendings(p) \in PendingsWithin
           /\ \A n \in Nonces : SweptPendings(p).parked[n] # NotParked =>
                  p.parked[n] # NotParked
<1>0. p \in Pendings
    BY DEF PendingsWithin
<1>1. SweptPendings(p) \in Pendings
    BY <1>0 DEF SweptPendings, Pendings
<1>2. \A n \in Nonces : SweptPendings(p).parked[n] # NotParked => p.parked[n] # NotParked
    BY DEF SweptPendings
<1> QED BY <1>1, <1>2, FewerParked

\* A parked sample is the only one that a full store may be short of.
LEMMA ParkType ==
    ASSUME NEW p \in PendingsWithin, NEW n \in Nonces, NEW i \in Clients
    PROVE  /\ Park(p, n, i) \in PendingsWithin
           /\ \A m \in Nonces \ {n} : Park(p, n, i).parked[m] # NotParked =>
                  p.parked[m] # NotParked
<1> DEFINE roomy == IF PendingFull(p) /\ p.swept >= MinPendingSweep
                    THEN SweptPendings(p) ELSE p
           q == [roomy EXCEPT !.parked[n] = [identity |-> i, age |-> 0]]
<1>1. roomy \in PendingsWithin /\ \A m \in Nonces : roomy.parked[m] # NotParked =>
                                                     p.parked[m] # NotParked
    BY SweptPendingsType
<1>2. Park(p, n, i) = IF PendingFull(roomy) THEN roomy ELSE q
    BY DEF Park
<1> HIDE DEF roomy
<1>3. CASE PendingFull(roomy)
    BY <1>1, <1>2, <1>3
<1>4. CASE ~ PendingFull(roomy)
  <2>1. roomy \in [parked : [Nonces -> PendingEntry \cup {NotParked}],
                   swept : 0 .. MinPendingSweep]
      BY <1>1 DEF PendingsWithin, Pendings
  <2>2. [identity |-> i, age |-> 0] \in PendingEntry
      BY DEF PendingEntry
  <2>3. q = [parked |-> [roomy.parked EXCEPT ![n] = [identity |-> i, age |-> 0]],
             swept |-> roomy.swept]
      BY <2>1
  <2>4. q \in Pendings
      BY <2>1, <2>2, <2>3 DEF Pendings
  <2>5. \A m \in Nonces \ {n} : q.parked[m] = roomy.parked[m]
      BY <2>1, <2>3
  <2> HIDE DEF q
  <2>6. Parked(q) \in SUBSET (Parked(roomy) \cup {n})
      BY <2>5 DEF Parked
  <2>7. Cardinality(Parked(q)) <= MaxPending
      BY <1>4, <2>6, StoresFinite, OneMore DEF PendingFull
  <2>8. q \in PendingsWithin
      BY <2>4, <2>7 DEF PendingsWithin
  <2> QED BY <1>1, <1>2, <1>4, <2>5, <2>8
<1> QED BY <1>3, <1>4

\* A claim takes one sample out.
LEMMA ClaimType ==
    ASSUME NEW p \in PendingsWithin, NEW n \in Nonces
    PROVE  /\ AfterClaim(p, n) \in PendingsWithin
           /\ AfterClaim(p, n).parked[n] = NotParked
           /\ \A m \in Nonces : AfterClaim(p, n).parked[m] # NotParked =>
                  p.parked[m] # NotParked
<1> DEFINE q == AfterClaim(p, n)
<1>1. p \in [parked : [Nonces -> PendingEntry \cup {NotParked}], swept : 0 .. MinPendingSweep]
    BY DEF PendingsWithin, Pendings
<1>2. q = [parked |-> [p.parked EXCEPT ![n] = NotParked], swept |-> p.swept]
    BY <1>1 DEF AfterClaim
<1>3. q \in Pendings
    BY <1>1, <1>2 DEF Pendings
<1>4. \A m \in Nonces : q.parked[m] # NotParked => p.parked[m] # NotParked
    BY <1>1, <1>2
<1>5. q.parked[n] = NotParked
    BY <1>1, <1>2
<1> HIDE DEF q
<1>6. q \in PendingsWithin
    BY <1>3, <1>4, FewerParked
<1> QED BY <1>4, <1>5, <1>6 DEF q

LEMMA OlderPendingsType ==
    ASSUME NEW p \in PendingsWithin
    PROVE  /\ OlderPendings(p) \in PendingsWithin
           /\ \A n \in Nonces : OlderPendings(p).parked[n] # NotParked =>
                  p.parked[n] # NotParked
<1>0. p \in [parked : [Nonces -> PendingEntry \cup {NotParked}], swept : 0 .. MinPendingSweep]
    BY DEF PendingsWithin, Pendings
<1> DEFINE older == [n \in Nonces |->
                        IF Unexpired(p.parked[n])
                        THEN [p.parked[n] EXCEPT !.age = @ + 1] ELSE p.parked[n]]
<1>1. older \in [Nonces -> PendingEntry \cup {NotParked}]
  <2> SUFFICES ASSUME NEW n \in Nonces, Unexpired(p.parked[n])
               PROVE  [p.parked[n] EXCEPT !.age = @ + 1] \in PendingEntry
      BY <1>0
  <2>1. p.parked[n] \in PendingEntry /\ p.parked[n].age < PendingTTL
      BY <1>0 DEF Unexpired
  <2> QED BY <2>1 DEF PendingEntry
<1>2. OlderPendings(p) \in Pendings
  <2> HIDE DEF older
  <2>1. OlderPendings(p) = [parked |-> older, swept |->
                              IF p.swept < MinPendingSweep THEN p.swept + 1 ELSE p.swept]
      BY DEF OlderPendings, older
  <2> QED BY <1>0, <1>1, <2>1 DEF Pendings
<1>3. \A n \in Nonces : OlderPendings(p).parked[n] # NotParked => p.parked[n] # NotParked
    BY DEF OlderPendings, Unexpired
<1> QED BY <1>2, <1>3, FewerParked

CapsShape == [seen : [Identities -> CapEntry \cup {NoEntry}], swept : 0 .. MinCapSweep]

LEMMA SweptCapsType ==
    ASSUME NEW k \in CapsWithin
    PROVE  SweptCaps(k) \in CapsWithin
<1>1. k \in CapsShape
    BY DEF CapsWithin, Caps, CapsShape
<1>2. SweptCaps(k) \in Caps
    BY <1>1 DEF SweptCaps, Caps, CapsShape
<1>3. Tracked(SweptCaps(k).seen) \in SUBSET Tracked(k.seen)
    BY DEF Tracked, SweptCaps, InWindow
<1>4. Cardinality(Tracked(SweptCaps(k).seen)) <= MaxIdentities
    BY <1>3, StoresFinite, NoMore DEF CapsWithin
<1> QED BY <1>2, <1>4 DEF CapsWithin

\* An allowed sample starts or advances its client's window; the table gains
\* a client only when it is not full.
LEMMA AllowType ==
    ASSUME NEW k \in CapsWithin, NEW i \in Identities
    PROVE  AfterAllow(k, i) \in CapsWithin
<1> DEFINE roomy == MadeRoom(k, i)
           entry == Incremented(roomy.seen[i])
           next == [seen |-> [roomy.seen EXCEPT ![i] = entry], swept |-> roomy.swept]
<1>1. roomy \in CapsWithin
    BY SweptCapsType DEF MadeRoom
<1>2. roomy \in CapsShape /\ k \in CapsShape
    BY <1>1 DEF CapsWithin, Caps, CapsShape
<1>3. CASE ~ Allows(k, i)
    BY <1>1, <1>3 DEF AfterAllow
<1>4. CASE Allows(k, i)
  <2>1. k.seen[i] = NoEntry \/ roomy.seen[i] = k.seen[i]
      BY DEF MadeRoom
  <2>2. InWindow(roomy.seen[i]) => roomy.seen[i] = k.seen[i]
      BY <1>2, <2>1 DEF MadeRoom, SweptCaps, InWindow, CapsShape
  <2>3. entry \in CapEntry
    <3>1. CASE InWindow(roomy.seen[i])
      <4>1. roomy.seen[i] \in CapEntry /\ roomy.seen[i].count < MaxPerIdentity
          BY <1>2, <1>4, <2>2, <3>1 DEF Allows, InWindow, CapsShape
      <4>2. entry = [roomy.seen[i] EXCEPT !.count = @ + 1]
          BY <3>1 DEF Incremented
      <4> HIDE DEF entry, roomy
      <4> QED BY <4>1, <4>2 DEF CapEntry
    <3>2. CASE ~ InWindow(roomy.seen[i])
        BY <3>2 DEF CapEntry, Incremented
    <3> QED BY <3>1, <3>2
  <2>4. AfterAllow(k, i) = next
    <3>1. AfterAllow(k, i) = [roomy EXCEPT !.seen[i] = Incremented(@)]
        BY <1>4 DEF AfterAllow
    <3> HIDE DEF roomy
    <3> QED BY <1>2, <3>1 DEF CapsShape
  <2> HIDE DEF entry, roomy
  <2>5. next \in Caps
      BY <1>2, <2>3 DEF Caps, CapsShape
  <2>6. Cardinality(Tracked(next.seen)) <= MaxIdentities
    <3>1. CASE roomy.seen[i] # NoEntry
      <4>1. Tracked(next.seen) \in SUBSET Tracked(roomy.seen)
          BY <1>2, <3>1 DEF Tracked, CapsShape
      <4> QED BY <1>1, <4>1, StoresFinite, NoMore DEF CapsWithin
    <3>2. CASE roomy.seen[i] = NoEntry
      <4>1. ~ CapFull(roomy)
        <5>1. k.seen[i] = NoEntry
          <6>1. CASE k.seen[i] # NoEntry
              BY <6>1, <3>2 DEF roomy, MadeRoom
          <6> QED BY <6>1
        <5> QED BY <1>4, <5>1 DEF Allows, InWindow, roomy
      <4>2. Tracked(next.seen) \in SUBSET (Tracked(roomy.seen) \cup {i})
          BY <1>2 DEF Tracked, CapsShape
      <4> HIDE DEF next
      <4> QED BY <4>1, <4>2, StoresFinite, OneMore DEF CapFull
    <3> QED BY <3>1, <3>2
  <2> QED BY <2>4, <2>5, <2>6 DEF CapsWithin
<1> QED BY <1>3, <1>4

LEMMA OlderCapsType ==
    ASSUME NEW k \in CapsWithin
    PROVE  OlderCaps(k) \in CapsWithin
<1>0. k \in CapsShape
    BY DEF CapsWithin, Caps, CapsShape
<1> DEFINE older == [i \in Identities |->
                        IF InWindow(k.seen[i])
                        THEN [k.seen[i] EXCEPT !.age = @ + 1] ELSE k.seen[i]]
<1>1. older \in [Identities -> CapEntry \cup {NoEntry}]
  <2> SUFFICES ASSUME NEW i \in Identities, InWindow(k.seen[i])
               PROVE  [k.seen[i] EXCEPT !.age = @ + 1] \in CapEntry
      BY <1>0 DEF CapsShape
  <2>1. k.seen[i] \in CapEntry /\ k.seen[i].age < CapWindow
      BY <1>0 DEF InWindow, CapsShape
  <2> QED BY <2>1 DEF CapEntry
<1>2. Tracked(older) \in SUBSET Tracked(k.seen)
    BY DEF Tracked, InWindow
<1> HIDE DEF older
<1>3. OlderCaps(k) = [seen |-> older, swept |->
                        IF k.swept < MinCapSweep THEN k.swept + 1 ELSE k.swept]
    BY DEF OlderCaps, older
<1>4. OlderCaps(k) \in Caps
    BY <1>0, <1>1, <1>3 DEF Caps, CapsShape
<1>5. Cardinality(Tracked(older)) <= MaxIdentities
    BY <1>2, StoresFinite, NoMore DEF CapsWithin
<1> QED BY <1>3, <1>4, <1>5 DEF CapsWithin

-----------------------------------------------------------------------------
(* Bounded sequences. *)

LEMMA BoundedSeqDef ==
    ASSUME NEW S, NEW n \in Nat, NEW s
    PROVE  s \in BoundedSeq(S, n) <=> s \in Seq(S) /\ Len(s) <= n
<1>1. s \in BoundedSeq(S, n) <=> \E m \in 0 .. n : s \in [1 .. m -> S]
    BY DEF BoundedSeq, SeqOf
<1>2. ASSUME NEW m \in 0 .. n, s \in [1 .. m -> S] PROVE s \in Seq(S) /\ Len(s) <= n
    BY <1>2
<1>3. ASSUME s \in Seq(S), Len(s) <= n PROVE \E m \in 0 .. n : s \in [1 .. m -> S]
  <2>1. Len(s) \in 0 .. n
      BY <1>3
  <2>2. s \in [1 .. Len(s) -> S]
      BY <1>3
  <2> QED BY <2>1, <2>2
<1> QED BY <1>1, <1>2, <1>3

-----------------------------------------------------------------------------
(* Steps. *)

\* The type invariant by its parts.
StoresType == pending \in PendingsWithin /\ cap \in CapsWithin /\ unissued \subseteq Nonces
ChannelType ==
    /\ queue \in BoundedSeq(Sample, QueueSize)
    /\ closed \in BOOLEAN
    /\ closing \in {"open", "locking", "draining", "closed"}
WritingType ==
    /\ writer \in {"select", "flushing", "last flush", "done"}
    /\ batch \in BoundedSeq(Sample, BatchSize)
HistoryType ==
    /\ recorded \in [Nonces -> Nat]
    /\ accepted \in [Identities -> [0 .. CapWindow - 1 -> Nat]]

LEMMA TypeParts ==
    TypeOK <=> /\ StoresType /\ ChannelType /\ WritingType /\ HistoryType
               /\ handler \in [Handlers -> Handler]
BY DEF TypeOK, StoresType, ChannelType, WritingType, HistoryType, PendingsWithin, CapsWithin

LEMMA InitIInv == Init => IInv
<1> SUFFICES ASSUME Init PROVE IInv
    OBVIOUS
<1>1. pending \in PendingsWithin
  <2>1. NoPendings \in Pendings
      BY DEF NoPendings, Pendings
  <2>2. Parked(NoPendings) = {}
      BY DEF Parked, NoPendings
  <2>3. Cardinality(Parked(NoPendings)) <= MaxPending
      BY <2>2, FS_EmptySet
  <2> QED BY <2>1, <2>3 DEF Init, PendingsWithin
<1>2. cap \in CapsWithin
  <2>1. NoCaps \in Caps
      BY DEF NoCaps, Caps
  <2>2. Tracked(NoCaps.seen) = {}
      BY DEF Tracked, NoCaps
  <2>3. Cardinality(Tracked(NoCaps.seen)) <= MaxIdentities
      BY <2>2, FS_EmptySet
  <2> QED BY <2>1, <2>3 DEF Init, CapsWithin
<1>3. queue \in BoundedSeq(Sample, QueueSize) /\ batch \in BoundedSeq(Sample, BatchSize)
  <2>1. <<>> \in Seq(Sample) /\ Len(<<>>) <= QueueSize /\ Len(<<>>) <= BatchSize
      OBVIOUS
  <2>2. <<>> \in BoundedSeq(Sample, QueueSize) /\ <<>> \in BoundedSeq(Sample, BatchSize)
    <3>1. QueueSize \in Nat /\ BatchSize \in Nat
        OBVIOUS
    <3> QED BY <2>1, <3>1, BoundedSeqDef
  <2> QED BY <2>2 DEF Init
<1>4. handler \in [Handlers -> Handler]
    BY DEF Init, Handler
<1>5. StoresType /\ ChannelType /\ WritingType
    BY <1>1, <1>2, <1>3 DEF Init, StoresType, ChannelType, WritingType
<1>6. HistoryType
    BY DEF Init, HistoryType
<1>7. OnePlace
    BY DEF Init, OnePlace, Holds, IsParked, NoPendings, Idle
<1>8. NeverSendsOnClosed /\ BatchWaits
    BY DEF Init, NeverSendsOnClosed, BatchWaits
<1> QED BY <1>4, <1>5, <1>6, <1>7, <1>8, TypeParts DEF IInv

LEMMA ChallengeIssuedStep ==
    ASSUME IInv, NEW n \in Nonces, NEW i \in Identities, ChallengeIssued(n, i)
    PROVE  IInv'
<1>1. /\ UNCHANGED <<cap, handler, queue, closed, closing, writer, batch, recorded, accepted>>
      /\ n \in unissued /\ unissued' = unissued \ {n} /\ pending' = Park(pending, n, i)
    BY DEF ChallengeIssued, channel, writing, history
<1>2. TypeOK
    BY DEF IInv
<1>3. /\ pending' \in PendingsWithin
      /\ \A m \in Nonces \ {n} : pending'.parked[m] # NotParked => pending.parked[m] # NotParked
    BY <1>1, <1>2, TypeParts, ParkType DEF StoresType
<1>4. TypeOK'
  <2>1. StoresType'
      BY <1>1, <1>2, <1>3, TypeParts DEF StoresType
  <2>2. ChannelType' /\ WritingType' /\ HistoryType' /\ (handler \in [Handlers -> Handler])'
      BY <1>1, <1>2, TypeParts DEF ChannelType, WritingType, HistoryType
  <2> QED BY <2>1, <2>2, TypeParts, PTL
<1>5. OnePlace'
    BY <1>1, <1>3 DEF IInv, OnePlace, Holds, IsParked
<1>6. NeverSendsOnClosed' /\ BatchWaits'
    BY <1>1 DEF IInv, NeverSendsOnClosed, BatchWaits
<1> QED BY <1>4, <1>5, <1>6 DEF IInv

LEMMA ChallengeSolvedStep ==
    ASSUME IInv, NEW h \in Handlers, NEW n \in Nonces, ChallengeSolved(h, n)
    PROVE  IInv'
<1> DEFINE x == IF Claimable(pending, n)
                THEN [step |-> "recording", sample |-> n,
                      identity |-> pending.parked[n].identity]
                ELSE Idle
<1>1. /\ UNCHANGED <<cap, unissued, queue, closed, closing, writer, batch, recorded, accepted>>
      /\ n \notin unissued /\ handler' = [handler EXCEPT ![h] = x]
      /\ pending' = AfterClaim(pending, n)
    BY DEF ChallengeSolved, channel, writing, history
<1>2. TypeOK /\ StoresType /\ ChannelType /\ WritingType /\ HistoryType
      /\ handler \in [Handlers -> Handler]
    BY TypeParts DEF IInv
<1>3. /\ pending' \in PendingsWithin /\ pending'.parked[n] = NotParked
      /\ \A m \in Nonces : pending'.parked[m] # NotParked => pending.parked[m] # NotParked
    BY <1>1, <1>2, ClaimType DEF StoresType
<1>4. x \in Handler
  <2>1. CASE Claimable(pending, n)
    <3>1. pending.parked[n] \in PendingEntry
        BY <1>2, <2>1 DEF Claimable, Unexpired, StoresType, PendingsWithin, Pendings
    <3> QED BY <2>1, <3>1 DEF PendingEntry, Handler, Sample
  <2>2. CASE ~ Claimable(pending, n)
      BY <2>2 DEF Handler
  <2> QED BY <2>1, <2>2
<1>5. /\ x.step = "recording" => x.sample = n /\ IsParked(n)
      /\ x.step # "sending"
  <2>1. CASE Claimable(pending, n)
      BY <2>1 DEF Claimable, Unexpired, IsParked
  <2>2. CASE ~ Claimable(pending, n)
      BY <2>2 DEF Idle
  <2> QED BY <2>1, <2>2
<1> HIDE DEF x
<1>6. TypeOK'
  <2>1. StoresType' /\ (handler \in [Handlers -> Handler])'
      BY <1>1, <1>2, <1>3, <1>4 DEF StoresType
  <2>2. ChannelType' /\ WritingType' /\ HistoryType'
      BY <1>1, <1>2 DEF ChannelType, WritingType, HistoryType
  <2> QED BY <2>1, <2>2, TypeParts, PTL
<1>7. OnePlace'
  <2> SUFFICES ASSUME NEW m \in Nonces
               PROVE  /\ recorded[m] <= 1
                      /\ m \in unissued => ~ IsParked(m)'
                      /\ m \in unissued \/ IsParked(m)' =>
                            recorded[m] = 0 /\ \A g \in Handlers : ~ Holds(g, m)'
                      /\ \A g \in Handlers : Holds(g, m)' => recorded[m] = 0
                      /\ \A f, g \in Handlers : Holds(f, m)' /\ Holds(g, m)' => f = g
      BY <1>1 DEF OnePlace
  <2>1. \A g \in Handlers : Holds(g, m)' => Holds(g, m) \/ (g = h /\ m = n /\ IsParked(n))
      BY <1>1, <1>2, <1>5 DEF Holds
  <2>2. IsParked(m)' => IsParked(m) /\ m # n
      BY <1>3 DEF IsParked
  <2> QED BY <1>1, <2>1, <2>2 DEF IInv, OnePlace
<1>8. NeverSendsOnClosed' /\ BatchWaits'
    BY <1>1, <1>2, <1>5 DEF IInv, NeverSendsOnClosed, BatchWaits
<1> QED BY <1>6, <1>7, <1>8 DEF IInv

\* A step that takes up no challenge's sample.
LEMMA OnePlaceKept ==
    ASSUME OnePlace, UNCHANGED <<recorded, unissued>>,
           \A n \in Nonces : pending'.parked[n] # NotParked => pending.parked[n] # NotParked,
           \A h \in Handlers, n \in Nonces : Holds(h, n)' => Holds(h, n)
    PROVE  OnePlace'
BY DEF OnePlace, IsParked

\* A step of one handler that leaves the stores, the writer and Close alone.
LEMMA OneHandler ==
    ASSUME IInv, UNCHANGED <<pending, unissued, closed, closing, writing, recorded, accepted>>,
           cap' \in CapsWithin, queue' \in BoundedSeq(Sample, QueueSize),
           NEW h \in Handlers, NEW x \in Handler, handler' = [handler EXCEPT ![h] = x],
           x.step # "recording" \/ x.sample \notin Nonces,
           x.step = "sending" => ~ closed
    PROVE  IInv'
<1>1. UNCHANGED <<writer, batch>>
    BY DEF writing
<1>2. TypeOK'
  <2>1. StoresType /\ ChannelType /\ WritingType /\ HistoryType /\ handler \in [Handlers -> Handler]
      BY TypeParts DEF IInv
  <2>2. StoresType' /\ ChannelType' /\ WritingType' /\ HistoryType'
      BY <1>1, <2>1 DEF StoresType, ChannelType, WritingType, HistoryType
  <2>3. (handler \in [Handlers -> Handler])'
      BY <2>1
  <2> QED BY <2>2, <2>3, TypeParts, PTL
<1>3. handler \in [Handlers -> Handler]
    BY TypeParts DEF IInv
<1>4. OnePlace'
  <2>1. \A g \in Handlers, n \in Nonces : Holds(g, n)' => Holds(g, n)
      BY <1>3 DEF Holds
  <2> QED BY <2>1, OnePlaceKept DEF IInv
<1>5. NeverSendsOnClosed' /\ BatchWaits'
    BY <1>1, <1>3 DEF IInv, NeverSendsOnClosed, BatchWaits
<1> QED BY <1>2, <1>4, <1>5 DEF IInv

LEMMA HoneypotStep ==
    ASSUME IInv, NEW h \in Handlers, NEW i \in Identities, HoneypotTripped(h, i)
    PROVE  IInv'
<1> DEFINE x == [step |-> "recording", sample |-> "trip", identity |-> i]
<1>1. /\ handler' = [handler EXCEPT ![h] = x]
      /\ UNCHANGED <<pending, unissued, closed, closing, writing, recorded, accepted, cap, queue>>
    BY DEF HoneypotTripped, stores, channel, history
<1>2. x \in Handler /\ x.step = "recording" /\ x.sample = "trip"
    BY DEF Handler, Sample
<1>3. cap \in CapsWithin /\ queue \in BoundedSeq(Sample, QueueSize)
    BY TypeParts DEF IInv, StoresType, ChannelType
<1> HIDE DEF x
<1> QED BY <1>1, <1>2, <1>3, OneHandler

\* The shapes a handler has at each step.
LEMMA HandlerShapes ==
    ASSUME NEW x \in Handler
    PROVE  /\ x.step = "recording" => x.sample \in Sample /\ x.identity \in Identities
           /\ x.step \in {"locking", "sending"} =>
                x.sample \in Sample /\
                x = [step |-> x.step, sample |-> x.sample, identity |-> NoSample]
BY DEF Handler, Idle

LEMMA HandlerTypes ==
    /\ Idle \in Handler /\ Idle.step = "idle"
    /\ \A s \in {"locking", "sending"}, m \in Sample :
          [step |-> s, sample |-> m, identity |-> NoSample] \in Handler
BY DEF Handler, Idle

\* The cap counts a sample: its handler lets go of it in the same step.
LEMMA CountStep ==
    ASSUME IInv, NEW h \in Handlers, Count(h)
    PROVE  IInv'
<1> DEFINE i == handler[h].identity
           n == handler[h].sample
           x == [step |-> "locking", sample |-> n, identity |-> NoSample]
<1>1. /\ UNCHANGED <<pending, unissued, queue, closed, closing, writer, batch>>
      /\ handler[h].step = "recording" /\ cap' = AfterAllow(cap, i)
    BY DEF Count, channel, writing
<1>2. StoresType /\ ChannelType /\ WritingType /\ HistoryType /\ handler \in [Handlers -> Handler]
    BY TypeParts DEF IInv
<1>3. n \in Sample /\ i \in Identities
    BY <1>1, <1>2, HandlerShapes
<1>4. cap' \in CapsWithin
    BY <1>1, <1>2, <1>3, AllowType DEF StoresType
<1>5. CASE ~ Allows(cap, i)
  <2>1. handler' = [handler EXCEPT ![h] = Idle] /\ UNCHANGED <<recorded, accepted, writing>>
      BY <1>1, <1>5 DEF Count, history, writing
  <2>2. queue' \in BoundedSeq(Sample, QueueSize)
      BY <1>1, <1>2 DEF ChannelType
  <2> QED BY <1>1, <1>4, <2>1, <2>2, HandlerTypes, OneHandler
<1>6. CASE Allows(cap, i)
  <2>1. /\ accepted' = [accepted EXCEPT ![i] = [age \in 0 .. CapWindow - 1 |-> @[age] + 1]]
        /\ recorded' = [m \in Nonces |-> recorded[m] + IF m = n THEN 1 ELSE 0]
      BY <1>6 DEF Count
  <2>2. handler' = [handler EXCEPT ![h] = x]
      BY <1>6 DEF Count
  <2>3. x \in Handler /\ x.step = "locking"
      BY <1>3, HandlerTypes
  <2>4. HistoryType'
    <3>1. recorded' \in [Nonces -> Nat]
        BY <1>2, <2>1 DEF HistoryType
    <3>2. accepted' \in [Identities -> [0 .. CapWindow - 1 -> Nat]]
      <4> HIDE DEF i
      <4>1. [age \in 0 .. CapWindow - 1 |-> accepted[i][age] + 1] \in [0 .. CapWindow - 1 -> Nat]
          BY <1>2, <1>3 DEF HistoryType
      <4> QED BY <1>2, <1>3, <2>1, <4>1 DEF HistoryType
    <3> QED BY <3>1, <3>2 DEF HistoryType
  <2> HIDE DEF x
  <2>5. StoresType' /\ ChannelType' /\ WritingType' /\ (handler \in [Handlers -> Handler])'
      BY <1>1, <1>2, <1>4, <2>2, <2>3 DEF StoresType, ChannelType, WritingType
  <2>6. TypeOK'
      BY <2>4, <2>5, TypeParts, PTL
  <2>7. OnePlace'
    <3> SUFFICES ASSUME NEW m \in Nonces
                 PROVE  /\ recorded'[m] <= 1
                        /\ m \in unissued => ~ IsParked(m)
                        /\ m \in unissued \/ IsParked(m) =>
                              recorded'[m] = 0 /\ \A g \in Handlers : ~ Holds(g, m)'
                        /\ \A g \in Handlers : Holds(g, m)' => recorded'[m] = 0
                        /\ \A f, g \in Handlers : Holds(f, m)' /\ Holds(g, m)' => f = g
        BY <1>1 DEF OnePlace, IsParked
    <3>1. \A g \in Handlers : Holds(g, m)' => Holds(g, m) /\ g # h
        BY <1>2, <2>2, <2>3 DEF Holds
    <3>2. CASE m = n
      <4>1. Holds(h, m)
          BY <1>1, <3>2 DEF Holds
      <4>2. recorded'[m] = recorded[m] + 1 /\ recorded[m] = 0
          BY <2>1, <3>2, <4>1 DEF IInv, OnePlace
      <4>3. \A g \in Handlers : ~ Holds(g, m)'
          BY <3>1, <4>1 DEF IInv, OnePlace
      <4> QED BY <4>1, <4>2, <4>3 DEF IInv, OnePlace
    <3>3. CASE m # n
      <4>1. recorded'[m] = recorded[m]
          BY <1>2, <2>1, <3>3 DEF HistoryType
      <4> QED BY <3>1, <4>1 DEF IInv, OnePlace
    <3> QED BY <3>2, <3>3
  <2>8. NeverSendsOnClosed' /\ BatchWaits'
      BY <1>1, <1>2, <2>2, <2>3 DEF IInv, NeverSendsOnClosed, BatchWaits
  <2> QED BY <2>6, <2>7, <2>8 DEF IInv
<1> QED BY <1>5, <1>6

\* The read lock is not given while Close waits, and the queue is open under it.
LEMMA RLockStep ==
    ASSUME IInv, NEW h \in Handlers, RLock(h)
    PROVE  IInv'
<1> DEFINE n == handler[h].sample
           x == IF closed THEN Idle
                ELSE [step |-> "sending", sample |-> n, identity |-> NoSample]
<1>1. StoresType /\ ChannelType /\ handler \in [Handlers -> Handler]
    BY TypeParts DEF IInv
<1>2. UNCHANGED <<pending, cap, unissued, queue, closed, closing, writing, recorded, accepted>>
    BY DEF RLock, stores, channel, history
<1>3. handler[h] = [step |-> "locking", sample |-> n, identity |-> NoSample] /\ n \in Sample
    BY <1>1, HandlerShapes DEF RLock
<1>4. handler' = [handler EXCEPT ![h] = x]
  <2>1. CASE closed
      BY <1>1, <2>1 DEF RLock
  <2>2. CASE ~ closed
    <3>1. handler' = [handler EXCEPT ![h] = [handler[h] EXCEPT !.step = "sending"]]
        BY <1>1, <2>2 DEF RLock
    <3>2. [handler[h] EXCEPT !.step = "sending"] = x
      <4> HIDE DEF n
      <4> QED BY <1>3, <2>2
    <3> HIDE DEF x
    <3> QED BY <3>1, <3>2
  <2> QED BY <2>1, <2>2
<1>5. x \in Handler
    BY <1>3, HandlerTypes
<1>6. x.step # "recording" /\ (x.step = "sending" => ~ closed)
    BY HandlerTypes
<1>7. cap' \in CapsWithin /\ queue' \in BoundedSeq(Sample, QueueSize)
    BY <1>1, <1>2 DEF StoresType, ChannelType
<1> HIDE DEF x
<1> QED BY <1>2, <1>4, <1>5, <1>6, <1>7, OneHandler

LEMMA SendStep ==
    ASSUME IInv, NEW h \in Handlers, Send(h)
    PROVE  IInv'
<1>1. /\ UNCHANGED <<pending, cap, unissued, closed, closing, writing, recorded, accepted>>
      /\ handler' = [handler EXCEPT ![h] = Idle]
    BY DEF Send, stores, history
<1>2. StoresType /\ ChannelType /\ handler \in [Handlers -> Handler]
    BY TypeParts DEF IInv
<1>3. handler[h].sample \in Sample
    BY <1>2, HandlerShapes DEF Send
<1>4. queue' \in BoundedSeq(Sample, QueueSize)
  <2>1. queue \in Seq(Sample) /\ Len(queue) <= QueueSize
      BY <1>2, BoundedSeqDef DEF ChannelType
  <2>2. queue' \in Seq(Sample) /\ Len(queue') <= QueueSize
    <3>1. CASE Len(queue) < QueueSize
      <4>1. queue' = Append(queue, handler[h].sample)
          BY <3>1 DEF Send
      <4>2. queue' \in Seq(Sample) /\ Len(queue') = Len(queue) + 1
          BY <1>3, <2>1, <4>1, AppendProperties
      <4>3. Len(queue) \in Nat
          BY <2>1, LenProperties
      <4> QED BY <3>1, <4>2, <4>3
    <3>2. CASE ~ (Len(queue) < QueueSize)
        BY <2>1, <3>2 DEF Send
    <3> QED BY <3>1, <3>2
  <2> QED BY <2>2, BoundedSeqDef
<1>5. cap' \in CapsWithin
    BY <1>1, <1>2 DEF StoresType
<1> QED BY <1>1, <1>4, <1>5, HandlerTypes, OneHandler

\* Close: the queue is closed when no handler holds the read lock.
LEMMA CloseSteps ==
    ASSUME IInv, Close \/ CloseQueue \/ CloseReturns
    PROVE  IInv'
<1>1. UNCHANGED <<pending, cap, unissued, handler, queue, writer, batch, recorded, accepted>>
    BY DEF Close, CloseQueue, CloseReturns, stores, channel, writing, history
<1>2. StoresType /\ ChannelType /\ WritingType /\ HistoryType /\ handler \in [Handlers -> Handler]
    BY TypeParts DEF IInv
<1>3. /\ closing' \in {"locking", "draining", "closed"}
      /\ closed' = closed \/ (closed' = TRUE /\ \A h \in Handlers : handler[h].step # "sending")
    BY DEF Close, CloseQueue, CloseReturns, channel
<1>4. TypeOK'
  <2>1. StoresType' /\ ChannelType' /\ WritingType' /\ HistoryType' /\ (handler \in [Handlers -> Handler])'
      BY <1>1, <1>2, <1>3 DEF StoresType, ChannelType, WritingType, HistoryType
  <2> QED BY <2>1, TypeParts, PTL
<1>5. OnePlace'
    BY <1>1, OnePlaceKept DEF IInv, Holds
<1>6. NeverSendsOnClosed' /\ BatchWaits'
    BY <1>1, <1>3 DEF IInv, NeverSendsOnClosed, BatchWaits
<1> QED BY <1>4, <1>5, <1>6 DEF IInv

\* A step of the writer.
LEMMA OneWriter ==
    ASSUME IInv, UNCHANGED <<stores, handler, closed, closing, history>>,
           queue' \in BoundedSeq(Sample, QueueSize),
           batch' \in BoundedSeq(Sample, BatchSize),
           writer' \in {"select", "flushing", "last flush", "done"},
           writer' = "select" => Len(batch') < BatchSize
    PROVE  IInv'
<1>1. UNCHANGED <<pending, cap, unissued, recorded, accepted>>
    BY DEF stores, history
<1>2. StoresType /\ ChannelType /\ HistoryType /\ handler \in [Handlers -> Handler]
    BY TypeParts DEF IInv
<1>3. TypeOK'
  <2>1. StoresType' /\ ChannelType' /\ WritingType' /\ HistoryType' /\ (handler \in [Handlers -> Handler])'
      BY <1>1, <1>2 DEF StoresType, ChannelType, WritingType, HistoryType
  <2> QED BY <2>1, TypeParts, PTL
<1>4. OnePlace'
    BY <1>1, OnePlaceKept DEF IInv, Holds
<1>5. NeverSendsOnClosed' /\ BatchWaits'
    BY DEF IInv, NeverSendsOnClosed, BatchWaits
<1> QED BY <1>3, <1>4, <1>5 DEF IInv

LEMMA ReceiveStep == ASSUME IInv, Receive PROVE IInv'
<1>1. /\ writer = "select" /\ queue # <<>>
      /\ queue' = Tail(queue) /\ batch' = Append(batch, Head(queue))
      /\ writer' = IF Len(batch') >= BatchSize THEN "flushing" ELSE "select"
      /\ UNCHANGED <<stores, handler, closed, closing, history>>
    BY DEF Receive
<1>2. queue \in Seq(Sample) /\ Len(queue) <= QueueSize
    BY TypeParts, BoundedSeqDef DEF IInv, ChannelType
<1>3. batch \in Seq(Sample) /\ Len(batch) < BatchSize
    BY <1>1, TypeParts, BoundedSeqDef DEF IInv, WritingType, BatchWaits
<1>4. Head(queue) \in Sample /\ Tail(queue) \in Seq(Sample) /\ Len(Tail(queue)) = Len(queue) - 1
    BY <1>1, <1>2, HeadTailProperties
<1>5. Append(batch, Head(queue)) \in Seq(Sample)
      /\ Len(Append(batch, Head(queue))) = Len(batch) + 1
    BY <1>3, <1>4, AppendProperties
<1>6. Len(queue) \in Nat /\ Len(batch) \in Nat
    BY <1>2, <1>3, LenProperties
<1>7. Len(queue') <= QueueSize /\ Len(batch') <= BatchSize
    BY <1>1, <1>2, <1>3, <1>4, <1>5, <1>6
<1>8. queue' \in BoundedSeq(Sample, QueueSize) /\ batch' \in BoundedSeq(Sample, BatchSize)
    BY <1>1, <1>4, <1>5, <1>7, BoundedSeqDef
<1>9. writer' = "select" => Len(batch') < BatchSize
    BY <1>1, <1>3, <1>5, <1>6
<1> QED BY <1>1, <1>8, <1>9, OneWriter

LEMMA OtherWriterSteps == ASSUME IInv, ReceiveClosed \/ FlushTick \/ Flushed PROVE IInv'
<1>1. /\ UNCHANGED <<stores, handler, queue, closed, closing, history>>
      /\ writer' \in {"select", "flushing", "last flush", "done"}
      /\ (batch' = batch /\ writer' # "select") \/ batch' = <<>>
    BY DEF ReceiveClosed, FlushTick, Flushed, channel
<1>2. queue' \in BoundedSeq(Sample, QueueSize)
    BY <1>1, TypeParts DEF IInv, ChannelType
<1>3. batch' \in BoundedSeq(Sample, BatchSize)
  <2>1. batch \in BoundedSeq(Sample, BatchSize)
      BY TypeParts DEF IInv, WritingType
  <2>2. <<>> \in Seq(Sample) /\ Len(<<>>) <= BatchSize
      OBVIOUS
  <2>3. <<>> \in BoundedSeq(Sample, BatchSize)
      BY <2>2, BoundedSeqDef
  <2> QED BY <1>1, <2>1, <2>3
<1>4. writer' = "select" => Len(batch') < BatchSize
    BY <1>1
<1> QED BY <1>1, <1>2, <1>3, <1>4, OneWriter

LEMMA TickStep == ASSUME IInv, Tick PROVE IInv'
<1>1. /\ UNCHANGED <<unissued, handler, queue, closed, closing, writer, batch, recorded>>
      /\ pending' = OlderPendings(pending) /\ cap' = OlderCaps(cap)
    BY DEF Tick, channel, writing
<1>2. StoresType /\ ChannelType /\ WritingType /\ HistoryType /\ handler \in [Handlers -> Handler]
    BY TypeParts DEF IInv
<1>3. pending' \in PendingsWithin /\ cap' \in CapsWithin
    BY <1>1, <1>2, OlderPendingsType, OlderCapsType DEF StoresType
<1>4. HistoryType'
  <2>1. \A i \in Identities : [age \in 0 .. CapWindow - 1 |->
             IF age = 0 THEN 0 ELSE accepted[i][age - 1]] \in [0 .. CapWindow - 1 -> Nat]
    <3> SUFFICES ASSUME NEW i \in Identities, NEW age \in 0 .. CapWindow - 1, age # 0
                 PROVE  accepted[i][age - 1] \in Nat
        OBVIOUS
    <3>1. age - 1 \in 0 .. CapWindow - 1 /\ accepted[i] \in [0 .. CapWindow - 1 -> Nat]
        BY <1>2 DEF HistoryType
    <3> QED BY <3>1
  <2> QED BY <1>1, <1>2, <2>1 DEF HistoryType, Tick
<1>5. TypeOK'
  <2>1. StoresType' /\ ChannelType' /\ WritingType' /\ (handler \in [Handlers -> Handler])'
      BY <1>1, <1>2, <1>3 DEF StoresType, ChannelType, WritingType
  <2> QED BY <1>4, <2>1, TypeParts, PTL
<1>6. OnePlace'
  <2>1. \A n \in Nonces : pending'.parked[n] # NotParked => pending.parked[n] # NotParked
      BY <1>1, <1>2, OlderPendingsType DEF StoresType
  <2> QED BY <1>1, <2>1, OnePlaceKept DEF IInv, Holds
<1>7. NeverSendsOnClosed' /\ BatchWaits'
    BY <1>1 DEF IInv, NeverSendsOnClosed, BatchWaits
<1> QED BY <1>5, <1>6, <1>7 DEF IInv

LEMMA NextStep == ASSUME IInv, [Next]_vars PROVE IInv'
<1>1. CASE UNCHANGED vars
  <2>1. UNCHANGED <<pending, cap, unissued, handler, queue, closed, closing, writer, batch,
                    recorded, accepted>>
      BY <1>1 DEF vars
  <2>2. TypeOK'
      BY <2>1 DEF IInv, TypeOK
  <2>3. OnePlace'
      BY <2>1, OnePlaceKept DEF IInv, Holds
  <2> QED BY <2>1, <2>2, <2>3 DEF IInv, NeverSendsOnClosed, BatchWaits
<1>2. ASSUME NEW n \in Nonces, NEW i \in Identities, ChallengeIssued(n, i) PROVE IInv'
    BY <1>2, ChallengeIssuedStep
<1>3. ASSUME NEW h \in Handlers, NEW n \in Nonces, ChallengeSolved(h, n) PROVE IInv'
    BY <1>3, ChallengeSolvedStep
<1>4. ASSUME NEW h \in Handlers, NEW i \in Identities, HoneypotTripped(h, i) PROVE IInv'
    BY <1>4, HoneypotStep
<1>5. ASSUME NEW h \in Handlers, Recording(h) PROVE IInv'
    BY <1>5, CountStep, RLockStep, SendStep DEF Recording
<1>6. CASE Close \/ Closing
    BY <1>6, CloseSteps DEF Closing
<1>7. CASE Writing \/ FlushTick
    BY <1>7, ReceiveStep, OtherWriterSteps DEF Writing
<1>8. CASE Tick
    BY <1>8, TickStep
<1> QED BY <1>1, <1>2, <1>3, <1>4, <1>5, <1>6, <1>7, <1>8 DEF Next

-----------------------------------------------------------------------------
(* The cap over any stretch of one window. *)

\* What a client's entry says of its samples: those younger than the window are
\* at most the entry's count, and the first of them is older than the rest;
\* those from before it are short of a full allowance, since the window before
\* closed after its first sample had left the stretch.
WindowKept(entry, taken) ==
    IF InWindow(entry)
    THEN \A age \in 0 .. CapWindow - 1 :
            /\ age < entry.age => taken[age] <= entry.count - 1
            /\ age = entry.age => taken[age] <= entry.count
            /\ age > entry.age => taken[age] <= entry.count + MaxPerIdentity - 1
    ELSE taken[0] = 0 /\ \A age \in 0 .. CapWindow - 1 : taken[age] <= MaxPerIdentity - 1
WindowsKept == \A i \in Identities : WindowKept(cap.seen[i], accepted[i])

\* A sample that the cap lets pass.
LEMMA WindowCounts ==
    ASSUME NEW entry \in CapEntry \cup {NoEntry}, NEW taken \in [0 .. CapWindow - 1 -> Nat],
           WindowKept(entry, taken), InWindow(entry) => entry.count < MaxPerIdentity
    PROVE  WindowKept(Incremented(entry), [age \in 0 .. CapWindow - 1 |-> taken[age] + 1])
<1> DEFINE more == [age \in 0 .. CapWindow - 1 |-> taken[age] + 1]
<1>1. CASE InWindow(entry)
  <2>1. entry \in CapEntry /\ entry.age < CapWindow
      BY <1>1 DEF InWindow
  <2>2. Incremented(entry) = [count |-> entry.count + 1, age |-> entry.age]
      BY <1>1, <2>1 DEF Incremented, CapEntry
  <2>3. InWindow(Incremented(entry))
      BY <2>1, <2>2 DEF InWindow, CapEntry
  <2> QED BY <1>1, <2>1, <2>2, <2>3 DEF WindowKept, CapEntry
<1>2. CASE ~ InWindow(entry)
  <2>1. Incremented(entry) = [count |-> 1, age |-> 0]
      BY <1>2 DEF Incremented
  <2>2. InWindow(Incremented(entry))
      BY <2>1 DEF InWindow
  <2> QED BY <1>2, <2>1, <2>2 DEF WindowKept
<1> QED BY <1>1, <1>2

\* A tick.
LEMMA WindowAges ==
    ASSUME NEW entry \in CapEntry \cup {NoEntry}, NEW taken \in [0 .. CapWindow - 1 -> Nat],
           WindowKept(entry, taken)
    PROVE  WindowKept(IF InWindow(entry) THEN [entry EXCEPT !.age = @ + 1] ELSE entry,
                      [age \in 0 .. CapWindow - 1 |->
                          IF age = 0 THEN 0 ELSE taken[age - 1]])
<1> DEFINE older == [age \in 0 .. CapWindow - 1 |-> IF age = 0 THEN 0 ELSE taken[age - 1]]
<1>0. /\ older[0] = 0
      /\ \A age \in 0 .. CapWindow - 1 :
            age # 0 => older[age] = taken[age - 1] /\ age - 1 \in 0 .. CapWindow - 1
    OBVIOUS
<1>1. CASE InWindow(entry)
  <2> DEFINE next == [count |-> entry.count, age |-> entry.age + 1]
  <2>1. entry \in CapEntry /\ entry.age < CapWindow
      BY <1>1 DEF InWindow
  <2>2. [entry EXCEPT !.age = @ + 1] = next
      BY <2>1 DEF CapEntry
  <2>3. next # NoEntry
      BY <2>1 DEF CapEntry
  <2>4. CASE entry.age + 1 < CapWindow
    <3>1. InWindow(next)
        BY <2>3, <2>4 DEF InWindow
    <3>2. ASSUME NEW age \in 0 .. CapWindow - 1
          PROVE  /\ age < entry.age + 1 => older[age] <= entry.count - 1
                 /\ age = entry.age + 1 => older[age] <= entry.count
                 /\ age > entry.age + 1 => older[age] <= entry.count + MaxPerIdentity - 1
      <4> HIDE DEF older
      <4>1. CASE age = 0
          BY <1>0, <2>1, <4>1 DEF CapEntry
      <4>2. CASE age # 0
        <5>1. older[age] = taken[age - 1] /\ age - 1 \in 0 .. CapWindow - 1
            BY <1>0, <4>2
        <5>2. /\ age - 1 < entry.age => taken[age - 1] <= entry.count - 1
              /\ age - 1 = entry.age => taken[age - 1] <= entry.count
              /\ age - 1 > entry.age => taken[age - 1] <= entry.count + MaxPerIdentity - 1
            BY <1>1, <5>1 DEF WindowKept
        <5> QED BY <2>1, <5>1, <5>2 DEF CapEntry
      <4> QED BY <4>1, <4>2
    <3> HIDE DEF older
    <3> QED BY <1>1, <2>2, <3>1, <3>2 DEF WindowKept, older
  <2>5. CASE ~ (entry.age + 1 < CapWindow)
    <3>1. ~ InWindow(next)
        BY <2>5 DEF InWindow
    <3>2. ASSUME NEW age \in 0 .. CapWindow - 1
          PROVE  older[age] <= MaxPerIdentity - 1
      <4> HIDE DEF older
      <4>1. CASE age = 0
          BY <1>0, <4>1
      <4>2. CASE age # 0
        <5>1. older[age] = taken[age - 1] /\ age - 1 \in 0 .. CapWindow - 1
            BY <1>0, <4>2
        <5>2. age - 1 < entry.age => taken[age - 1] <= entry.count - 1
            BY <1>1, <5>1 DEF WindowKept
        <5>3. taken[age - 1] \in Nat
            BY <5>1
        <5> QED BY <2>1, <2>5, <5>1, <5>2, <5>3 DEF CapEntry
      <4> QED BY <4>1, <4>2
    <3> HIDE DEF older
    <3> QED BY <1>0, <1>1, <2>2, <3>1, <3>2 DEF WindowKept, older
  <2> QED BY <2>4, <2>5
<1>2. CASE ~ InWindow(entry)
    BY <1>2 DEF WindowKept
<1> QED BY <1>1, <1>2

\* The cap forgets only entries whose window has passed.
LEMMA MadeRoomKeeps ==
    ASSUME NEW k \in CapsWithin, NEW i \in Identities, NEW j \in Identities,
           NEW taken, WindowKept(k.seen[j], taken)
    PROVE  /\ WindowKept(MadeRoom(k, i).seen[j], taken)
           /\ InWindow(MadeRoom(k, i).seen[j]) => MadeRoom(k, i).seen[j] = k.seen[j]
BY DEF MadeRoom, SweptCaps, WindowKept, InWindow

LEMMA CountKeepsWindows ==
    ASSUME IInv, WindowsKept, NEW h \in Handlers, Count(h)
    PROVE  WindowsKept'
<1> DEFINE i == handler[h].identity
           roomy == MadeRoom(cap, i)
<1>1. cap \in CapsWithin /\ HistoryType /\ handler \in [Handlers -> Handler]
    BY TypeParts DEF IInv, StoresType
<1>2. i \in Identities /\ cap' = AfterAllow(cap, i)
    BY <1>1, HandlerShapes DEF Count
<1> HIDE DEF i
<1>3. roomy \in CapsShape
    BY <1>1, SweptCapsType DEF MadeRoom, CapsWithin, Caps, CapsShape
<1>4. ASSUME NEW j \in Identities
      PROVE  /\ WindowKept(roomy.seen[j], accepted[j])
             /\ InWindow(roomy.seen[j]) => roomy.seen[j] = cap.seen[j]
    BY <1>1, <1>2, MadeRoomKeeps DEF WindowsKept
<1>5. CASE ~ Allows(cap, i)
  <2>1. cap' = roomy /\ accepted' = accepted
      BY <1>2, <1>5 DEF AfterAllow, Count, history, i
  <2> QED BY <1>4, <2>1 DEF WindowsKept
<1>6. CASE Allows(cap, i)
  <2>1. accepted' = [accepted EXCEPT ![i] = [age \in 0 .. CapWindow - 1 |-> @[age] + 1]]
      BY <1>6 DEF Count, i
  <2>2. cap'.seen = [roomy.seen EXCEPT ![i] = Incremented(roomy.seen[i])]
    <3>1. cap' = [roomy EXCEPT !.seen[i] = Incremented(@)]
        BY <1>2, <1>6 DEF AfterAllow
    <3> HIDE DEF roomy
    <3> QED BY <1>3, <3>1 DEF CapsShape
  <2>3. accepted[i] \in [0 .. CapWindow - 1 -> Nat] /\ roomy.seen[i] \in CapEntry \cup {NoEntry}
      BY <1>1, <1>2, <1>3 DEF HistoryType, CapsShape
  <2>4. InWindow(roomy.seen[i]) => roomy.seen[i].count < MaxPerIdentity
      BY <1>2, <1>4, <1>6 DEF Allows
  <2> HIDE DEF roomy
  <2>5. WindowKept(Incremented(roomy.seen[i]), [age \in 0 .. CapWindow - 1 |-> accepted[i][age] + 1])
      BY <1>2, <1>4, <2>3, <2>4, WindowCounts
  <2>6. ASSUME NEW j \in Identities PROVE WindowKept(cap'.seen[j], accepted'[j])
    <3>1. CASE j = i
      <4>1. /\ cap'.seen[j] = Incremented(roomy.seen[i])
            /\ accepted'[j] = [age \in 0 .. CapWindow - 1 |-> accepted[i][age] + 1]
          BY <1>1, <1>2, <1>3, <2>1, <2>2, <3>1 DEF HistoryType, CapsShape
      <4> QED BY <2>5, <4>1
    <3>2. CASE j # i
      <4>1. cap'.seen[j] = roomy.seen[j] /\ accepted'[j] = accepted[j]
          BY <1>1, <1>3, <2>1, <2>2, <3>2 DEF HistoryType, CapsShape
      <4> QED BY <1>4, <4>1
    <3> QED BY <3>1, <3>2
  <2> QED BY <2>6 DEF WindowsKept, WindowKept
<1> QED BY <1>5, <1>6

LEMMA TickKeepsWindows == ASSUME IInv, WindowsKept, Tick PROVE WindowsKept'
<1>1. cap \in CapsShape /\ HistoryType
    BY TypeParts DEF IInv, StoresType, CapsWithin, Caps, CapsShape
<1>2. ASSUME NEW i \in Identities PROVE WindowKept(cap'.seen[i], accepted'[i])
  <2>1. cap.seen[i] \in CapEntry \cup {NoEntry} /\ accepted[i] \in [0 .. CapWindow - 1 -> Nat]
      BY <1>1 DEF CapsShape, HistoryType
  <2>2. cap'.seen[i] = IF InWindow(cap.seen[i]) THEN [cap.seen[i] EXCEPT !.age = @ + 1]
                       ELSE cap.seen[i]
      BY DEF Tick, OlderCaps
  <2>3. accepted'[i] = [age \in 0 .. CapWindow - 1 |->
                           IF age = 0 THEN 0 ELSE accepted[i][age - 1]]
      BY DEF Tick
  <2>4. WindowKept(cap.seen[i], accepted[i])
      BY DEF WindowsKept
  <2> QED BY <2>1, <2>2, <2>3, <2>4, WindowAges
<1> QED BY <1>2 DEF WindowsKept, WindowKept

LEMMA WindowsStep == ASSUME IInv, WindowsKept, [Next]_vars PROVE WindowsKept'
<1>1. ASSUME UNCHANGED <<cap, accepted>> PROVE WindowsKept'
    BY <1>1 DEF WindowsKept, WindowKept
<1>2. CASE UNCHANGED vars
    BY <1>1, <1>2 DEF vars
<1>3. ASSUME NEW n \in Nonces, NEW i \in Identities, ChallengeIssued(n, i)
      PROVE  WindowsKept'
    BY <1>1, <1>3 DEF ChallengeIssued, history
<1>4. ASSUME NEW h \in Handlers, NEW n \in Nonces, ChallengeSolved(h, n)
      PROVE  WindowsKept'
    BY <1>1, <1>4 DEF ChallengeSolved, history
<1>5. ASSUME NEW h \in Handlers, NEW i \in Identities, HoneypotTripped(h, i)
      PROVE  WindowsKept'
    BY <1>1, <1>5 DEF HoneypotTripped, stores, history
<1>6. ASSUME NEW h \in Handlers, Recording(h) PROVE WindowsKept'
  <2>1. CASE Count(h)
      BY <2>1, CountKeepsWindows
  <2>2. CASE RLock(h) \/ Send(h)
      BY <1>1, <2>2 DEF RLock, Send, stores, history
  <2> QED BY <1>6, <2>1, <2>2 DEF Recording
<1>7. CASE Close \/ Closing
    BY <1>1, <1>7 DEF Closing, Close, CloseQueue, CloseReturns, stores, history
<1>8. CASE Writing \/ FlushTick
    BY <1>1, <1>8 DEF Writing, Receive, ReceiveClosed, Flushed, FlushTick, stores, history
<1>9. CASE Tick
    BY <1>9, TickKeepsWindows
<1> QED BY <1>2, <1>3, <1>4, <1>5, <1>6, <1>7, <1>8, <1>9 DEF Next

-----------------------------------------------------------------------------

(* The invariant holds (pending.go:39-108, cap.go:54-98, labels.go:60-215).  *)
THEOREM Invariance == Spec => []IInv
<1>1. Init => IInv
    BY InitIInv
<1>2. IInv /\ [Next]_vars => IInv'
    BY NextStep
<1> QED BY <1>1, <1>2, PTL DEF Spec

(* Every variable keeps its type; the parked samples, the tracked clients,   *)
(* the queue and the batch keep their bounds (maxPending,                    *)
(* maxTrackedIdentities, queueSize, batchSize).                              *)
THEOREM TypeCorrect == Spec => []TypeOK
<1>1. IInv => TypeOK
    BY DEF IInv
<1> QED BY <1>1, Invariance, PTL

(* Nobody is about to send on the queue once it is closed: the write lock    *)
(* waits for the senders, and who comes later sees closed (labels.go:84-96,  *)
(* 167-175).                                                                 *)
THEOREM SendersAreDone == Spec => []NeverSendsOnClosed
<1>1. IInv => NeverSendsOnClosed
    BY DEF IInv
<1> QED BY <1>1, Invariance, PTL

(* However many requests solve one challenge at once, it yields at most one  *)
(* label (pending.go:72-90).                                                 *)
THEOREM LabelsOnce == Spec => []OneLabelPerChallenge
<1>1. IInv => OneLabelPerChallenge
    BY DEF IInv, OnePlace, OneLabelPerChallenge
<1> QED BY <1>1, Invariance, PTL

(* In no stretch of one window does a client contribute two full allowances, *)
(* whatever the windows, the sweeps and the full table do to its entry       *)
(* (cap.go:54-98).                                                           *)
THEOREM ClientsAreCapped == Spec => []SlidingCap
<1>1. Init => WindowsKept
    BY DEF Init, NoCaps, WindowsKept, WindowKept, InWindow
<1>2. IInv /\ WindowsKept /\ [Next]_vars => WindowsKept'
    BY WindowsStep
<1>3. IInv /\ WindowsKept => SlidingCap
  <2> SUFFICES ASSUME IInv, WindowsKept, NEW i \in Identities
               PROVE  accepted[i][CapWindow - 1] <= 2 * MaxPerIdentity - 1
      BY DEF SlidingCap
  <2>1. cap.seen[i] \in CapEntry \cup {NoEntry} /\ accepted[i] \in [0 .. CapWindow - 1 -> Nat]
      BY TypeParts DEF IInv, StoresType, HistoryType, CapsWithin, Caps
  <2>2. WindowKept(cap.seen[i], accepted[i])
      BY DEF WindowsKept
  <2>3. CapWindow - 1 \in 0 .. CapWindow - 1
      OBVIOUS
  <2>4. InWindow(cap.seen[i]) => cap.seen[i] \in CapEntry
      BY <2>1 DEF InWindow
  <2> QED BY <2>1, <2>2, <2>3, <2>4 DEF WindowKept, CapEntry, InWindow
<1> QED BY <1>1, <1>2, <1>3, Invariance, PTL DEF Spec

HIDE DEF LabelsAssumption, CapAssumption, PendingAssumption

-----------------------------------------------------------------------------
(***************************************************************************)
(* Evaluation.  The places that the sort gives the requests are a          *)
(* bijection onto 1 .. Len, so what is not late is exactly the requests    *)
(* before the split, whatever their times.                                 *)
(***************************************************************************)
LEMMA TimesAreIntegers ==
  ASSUME NEW s \in Seq(Samples)
  PROVE  /\ DOMAIN s = 1 .. Len(s) /\ Len(s) \in Nat
         /\ IsFiniteSet(DOMAIN s) /\ Cardinality(DOMAIN s) = Len(s)
         /\ \A i \in DOMAIN s : s[i] \in Samples /\ s[i].at \in Int
<1>1. DOMAIN s = 1 .. Len(s) /\ Len(s) \in Nat /\ \A i \in DOMAIN s : s[i] \in Samples
  OBVIOUS
<1>2. \A i \in DOMAIN s : s[i].at \in Int
  BY <1>1, EvaluationAssumption DEF EvaluationAssumption
<1>3. IsFiniteSet(DOMAIN s) /\ Cardinality(DOMAIN s) = Len(s)
  BY <1>1, FS_Interval
<1> QED BY <1>1, <1>2, <1>3

\* The stable sort is a strict total order.
LEMMA SortIsTotal ==
  ASSUME NEW s \in Seq(Samples)
  PROVE  \A i, j, k \in DOMAIN s :
            /\ ~ Earlier(s, i, i)
            /\ i # j => Earlier(s, i, j) \/ Earlier(s, j, i)
            /\ Earlier(s, i, j) /\ Earlier(s, j, k) => Earlier(s, i, k)
<1>1. /\ \A i \in DOMAIN s : i \in Int /\ s[i].at \in Int
  BY TimesAreIntegers
<1> QED BY <1>1 DEF Earlier

LEMMA PlaceInRange ==
  ASSUME NEW s \in Seq(Samples), NEW i \in DOMAIN s
  PROVE  Place(s, i) \in 1 .. Len(s)
<1> DEFINE Before == {j \in DOMAIN s : Earlier(s, j, i)}
<1>1. IsFiniteSet(DOMAIN s) /\ Cardinality(DOMAIN s) = Len(s) /\ Len(s) \in Nat
  BY TimesAreIntegers
<1>2. Before \subseteq DOMAIN s \ {i}
  BY SortIsTotal
<1>3. /\ IsFiniteSet(DOMAIN s \ {i}) /\ Cardinality(DOMAIN s \ {i}) = Len(s) - 1
  BY <1>1, FS_RemoveElement
<1>4. IsFiniteSet(Before) /\ Cardinality(Before) <= Len(s) - 1
  BY <1>2, <1>3, FS_Subset
<1>5. Cardinality(Before) \in Nat
  BY <1>4, FS_CardinalityType
<1>6. Place(s, i) = Cardinality(Before) + 1
  BY DEF Place
<1> HIDE DEF Before
<1> QED BY <1>1, <1>4, <1>5, <1>6

LEMMA EarlierFirst ==
  ASSUME NEW s \in Seq(Samples), NEW i \in DOMAIN s, NEW k \in DOMAIN s, Earlier(s, i, k)
  PROVE  Place(s, i) < Place(s, k)
<1> DEFINE Before(x) == {j \in DOMAIN s : Earlier(s, j, x)}
<1>1. IsFiniteSet(DOMAIN s)
  BY TimesAreIntegers
<1>2. IsFiniteSet(Before(i)) /\ IsFiniteSet(Before(k))
  BY <1>1, FS_Subset
<1>3. Before(i) \cup {i} \subseteq Before(k) /\ i \notin Before(i)
  BY SortIsTotal
<1>4. Place(s, i) = Cardinality(Before(i)) + 1 /\ Place(s, k) = Cardinality(Before(k)) + 1
  BY DEF Place
<1> HIDE DEF Before
<1>5. Cardinality(Before(i)) + 1 = Cardinality(Before(i) \cup {i})
  BY <1>2, <1>3, FS_AddElement
<1>6. Cardinality(Before(i) \cup {i}) <= Cardinality(Before(k))
  BY <1>2, <1>3, FS_Subset
<1>7. Cardinality(Before(i)) \in Nat /\ Cardinality(Before(k)) \in Nat
  BY <1>2, FS_CardinalityType
<1> QED BY <1>4, <1>5, <1>6, <1>7

LEMMA PlacesAreDistinct ==
  ASSUME NEW s \in Seq(Samples), NEW i \in DOMAIN s, NEW k \in DOMAIN s,
         Place(s, i) = Place(s, k)
  PROVE  i = k
<1> SUFFICES ASSUME i # k PROVE FALSE
  OBVIOUS
<1>1. Place(s, i) \in Int /\ Place(s, k) \in Int
  BY PlaceInRange, TimesAreIntegers
<1>2. Earlier(s, i, k) \/ Earlier(s, k, i)
  BY SortIsTotal
<1>3. Place(s, i) < Place(s, k) \/ Place(s, k) < Place(s, i)
  BY <1>2, EarlierFirst
<1> QED BY <1>1, <1>3

\* As many requests have a place up to m as there are such places.
LEMMA PlacesCount ==
  ASSUME NEW s \in Seq(Samples), NEW m \in 0 .. Len(s)
  PROVE  Cardinality({i \in DOMAIN s : Place(s, i) <= m}) = m
<1> DEFINE n == Len(s)
           D == DOMAIN s
           F == [i \in D |-> Place(s, i)]
           P == {i \in D : Place(s, i) <= m}
           G == [i \in P |-> Place(s, i)]
<1>1. /\ n \in Nat /\ IsFiniteSet(D) /\ Cardinality(D) = n
      /\ IsFiniteSet(1 .. n) /\ Cardinality(1 .. n) = n
      /\ IsFiniteSet(1 .. m) /\ Cardinality(1 .. m) = m
  BY TimesAreIntegers, FS_Interval
<1>2. F \in Injection(D, 1 .. n)
  <2>1. F \in [D -> 1 .. n]
    BY PlaceInRange
  <2>2. \A a, b \in D : F[a] = F[b] => a = b
    BY PlacesAreDistinct
  <2> QED BY <2>1, <2>2, Fun_IsInj
<1>3. F \in Surjection(D, 1 .. n)
  BY <1>1, <1>2, FS_Injection
<1>4. \A p \in 1 .. n : \E i \in D : F[i] = p
  <2> HIDE DEF F, n, D
  <2> QED BY <1>3, Fun_SurjectionProperties
<1>5. G \in [P -> 1 .. m]
  BY <1>1, PlaceInRange
<1>6. \A a, b \in P : G[a] = G[b] => a = b
  BY PlacesAreDistinct
<1>7. \A p \in 1 .. m : \E i \in P : G[i] = p
  <2> SUFFICES ASSUME NEW p \in 1 .. m PROVE \E i \in P : G[i] = p
    OBVIOUS
  <2>1. p \in 1 .. n
    BY <1>1
  <2>2. PICK i \in D : F[i] = p
    BY <1>4, <2>1
  <2>3. Place(s, i) = p
    BY <2>2
  <2> QED BY <2>3
<1> HIDE DEF G, P
<1>8. G \in Bijection(P, 1 .. m)
  BY <1>5, <1>6, <1>7, Fun_IsBij
<1>9. ExistsBijection(1 .. m, P)
  BY <1>8, Fun_ExistsBij, Fun_ExistsBijSymmetric
<1>10. Cardinality(P) = m
  BY <1>1, <1>9, FS_Bijection
<1> QED BY <1>10 DEF P

\* The split lies within the requests.
LEMMA SplitInRange ==
  ASSUME NEW s \in Seq(Samples)
  PROVE  SplitIdx(s) \in 0 .. Len(s)
<1> DEFINE n == Len(s)
           q == (n * HoldOf) \div HoldIn
<1>1. n \in Nat /\ HoldOf \in Nat /\ HoldIn \in Nat /\ HoldIn > 0 /\ HoldOf <= HoldIn
  BY TimesAreIntegers, EvaluationAssumption DEF EvaluationAssumption
<1>2. SplitIdx(s) = n - q
  BY DEF SplitIdx
<1> HIDE DEF n
<1>3. n * HoldOf \in Nat /\ n * HoldOf <= n * HoldIn
  BY <1>1
<1> DEFINE p == n * HoldOf
<1>4. p \in Nat /\ p <= n * HoldIn /\ q = p \div HoldIn
  BY <1>3
<1> HIDE DEF p, q
<1>5. q \in Nat /\ q <= n
  BY <1>1, <1>4
<1> QED BY <1>1, <1>2, <1>5 DEF n

\* The requests before the split are as many as they should be and none is
\* later than a late one.
LEMMA TrainingIsForemost ==
  ASSUME samples \in Seq(Samples)
  PROVE  DOMAIN samples \ Late(samples) \in Foremost(SplitIdx(samples))
<1> DEFINE m == SplitIdx(samples)
           P == DOMAIN samples \ Late(samples)
<1>1. /\ \A i \in DOMAIN samples : samples[i].at \in Int /\ Place(samples, i) \in Int
      /\ m \in 0 .. Len(samples)
  BY TimesAreIntegers, PlaceInRange, SplitInRange
<1>2. P = {i \in DOMAIN samples : Place(samples, i) <= m}
  BY <1>1, TimesAreIntegers DEF Late
<1>3. Cardinality(P) = m
  BY <1>1, <1>2, PlacesCount
<1>4. ASSUME NEW i \in P, NEW j \in DOMAIN samples \ P
      PROVE  samples[i].at <= samples[j].at
  <2> SUFFICES ASSUME samples[j].at < samples[i].at PROVE FALSE
    BY <1>1, <1>4
  <2>1. Place(samples, j) < Place(samples, i)
    BY <1>4, EarlierFirst DEF Earlier
  <2>2. Place(samples, i) <= m /\ ~ (Place(samples, j) <= m)
    BY <1>2, <1>4
  <2> QED BY <1>1, <1>4, <2>1, <2>2, TimesAreIntegers
<1> QED BY <1>3, <1>4 DEF Foremost

\* The holdout is what is left of the late requests without the visitors
\* that were trained on.
LEMMA HoldoutIsStrangers ==
  ASSUME samples \in Seq(Samples)
  PROVE  LET P == DOMAIN samples \ Late(samples) IN
         Holdout(samples) = {i \in DOMAIN samples \ P : \A j \in P : ~ SameVisitor(i, j)}
<1> DEFINE P == DOMAIN samples \ Late(samples)
<1>1. DOMAIN samples \ P = Late(samples)
  BY DEF Late
<1>2. Seen(samples) = {samples[i].identity : i \in P} \ {Nobody}
  BY DEF Seen
<1>3. ASSUME NEW i \in Late(samples)
      PROVE  samples[i].identity \notin Seen(samples) <=> \A j \in P : ~ SameVisitor(i, j)
  BY <1>2 DEF SameVisitor
<1> QED BY <1>1, <1>3 DEF Holdout

\* Of the bots in a set, a side stops those that it does not let through.
LEMMA MissedOrStopped ==
  ASSUME NEW s \in Seq(Samples), NEW h \in SUBSET DOMAIN s, NEW side
  PROVE  /\ IsFiniteSet(h)
         /\ LET missed == {i \in h : s[i].automated /\ s[i][side] = "allow"} IN
            /\ Cardinality(BotsIn(s, h)) \in Nat /\ Stopped(s, h, side) \in Nat
            /\ Cardinality(missed) = Cardinality(BotsIn(s, h)) - Stopped(s, h, side)
<1> DEFINE missed == {i \in h : s[i].automated /\ s[i][side] = "allow"}
           bots == BotsIn(s, h)
           stopped == {i \in bots : s[i][side] # "allow"}
<1>1. IsFiniteSet(h)
  BY TimesAreIntegers, FS_Subset
<1>2. bots \subseteq h /\ stopped \subseteq bots
  BY DEF BotsIn
<1>3. missed = bots \ stopped /\ bots \cap stopped = stopped
  BY DEF BotsIn
<1>4. IsFiniteSet(bots) /\ IsFiniteSet(stopped)
  BY <1>1, <1>2, FS_Subset
<1>5. Stopped(s, h, side) = Cardinality(stopped)
  BY DEF Stopped
<1> HIDE DEF missed, bots, stopped
<1>6. Cardinality(bots) \in Nat /\ Cardinality(stopped) \in Nat
  BY <1>4, FS_CardinalityType
<1>7. Cardinality(missed) = Cardinality(bots) - Cardinality(stopped)
  <2>1. Cardinality(bots \ stopped) = Cardinality(bots) - Cardinality(bots \cap stopped)
    BY <1>4, FS_Difference
  <2> QED BY <1>3, <2>1
<1> QED BY <1>1, <1>5, <1>6, <1>7 DEF missed, bots

LEMMA RefusedHumans ==
  ASSUME NEW s \in Seq(Samples), NEW h \in SUBSET DOMAIN s, NEW side
  PROVE  Blocked(s, h, side) =
            Cardinality({i \in h : ~ s[i].automated /\ s[i][side] = "block"})
<1>1. {i \in h \ BotsIn(s, h) : s[i][side] = "block"}
        = {i \in h : ~ s[i].automated /\ s[i][side] = "block"}
  BY DEF BotsIn
<1> QED BY <1>1 DEF Blocked

\* A verdict is about the requests collected now.
EvaluationInv ==
    /\ EvaluationTypeOK
    /\ verdict = "promote" => Promotion(samples) = "promote"

\* A promotion is always one of the requests collected now: another request
\* takes the verdict back (evaluation.go, RunPromotion).
THEOREM EvaluationInvariant == EvaluationSpec => []EvaluationInv
<1>1. EvaluationInit => EvaluationInv
  BY DEF EvaluationInit, EvaluationInv, EvaluationTypeOK
<1>2. EvaluationInv /\ [EvaluationNext]_evaluationVars => EvaluationInv'
  <2> SUFFICES ASSUME EvaluationInv, [EvaluationNext]_evaluationVars PROVE EvaluationInv'
    OBVIOUS
  <2>1. CASE \E x \in Samples : AddSample(x)
    BY <2>1 DEF AddSample, EvaluationInv, EvaluationTypeOK
  <2>2. CASE RunPromotion
    <3>1. verdict' = Promotion(samples) /\ samples' = samples
      BY <2>2 DEF RunPromotion
    <3>2. Promotion(samples) \in {"hold", "promote"}
      BY DEF Promotion
    <3>3. Promotion(samples)' = Promotion(samples)
      BY <3>1
    <3> QED BY <3>1, <3>2, <3>3 DEF EvaluationInv, EvaluationTypeOK
  <2>3. CASE UNCHANGED evaluationVars
    <3>1. verdict' = verdict /\ samples' = samples
      BY <2>3 DEF evaluationVars
    <3> QED BY <3>1 DEF EvaluationInv, EvaluationTypeOK
  <2> QED BY <2>1, <2>2, <2>3 DEF EvaluationNext
<1> QED BY <1>1, <1>2, PTL DEF EvaluationSpec

\* The types of an evaluation (pkg/decide/evaluation.go).
THEOREM EvaluationTypeCorrect == EvaluationSpec => []EvaluationTypeOK
<1>1. EvaluationInv => EvaluationTypeOK
  BY DEF EvaluationInv
<1> QED BY <1>1, EvaluationInvariant, PTL

\* For any requests, any times they share, any identities and any share held
\* out: a promoted model has beaten the rules on the latest requests of
\* visitors it was not trained on (SplitLeakageSafe and RunPromotion,
\* pkg/decide/evaluation.go:182-320).
THEOREM PromotedFairly == EvaluationSpec => []PromotedOnStrangers
<1>1. EvaluationInv => PromotedOnStrangers
  <2> SUFFICES ASSUME EvaluationInv, verdict = "promote" PROVE PromotedOnStrangers
    BY DEF PromotedOnStrangers
  <2> DEFINE h == Holdout(samples)
             P == DOMAIN samples \ Late(samples)
             strangers == {i \in DOMAIN samples \ P : \A j \in P : ~ SameVisitor(i, j)}
             Missed(side) ==
                 {i \in strangers : samples[i].automated /\ samples[i][side] = "allow"}
             Refused(side) ==
                 {i \in strangers : ~ samples[i].automated /\ samples[i][side] = "block"}
  <2>1. samples \in Seq(Samples) /\ Promotion(samples) = "promote"
    BY DEF EvaluationInv, EvaluationTypeOK
  <2>2. P \in Foremost(SplitIdx(samples))
    BY <2>1, TrainingIsForemost
  <2>3. h = strangers
    BY <2>1, HoldoutIsStrangers
  <2>4. h \in SUBSET DOMAIN samples
    BY DEF Holdout, Late
  <2>5. /\ ~ (Cardinality(h) < MinHoldout)
        /\ ~ (Stopped(samples, h, "model") < Stopped(samples, h, "rules"))
        /\ ~ (Blocked(samples, h, "model") > Blocked(samples, h, "rules"))
    BY <2>1 DEF Promotion
  <2> HIDE DEF h
  <2>6. IsFiniteSet(h) /\ Cardinality(h) \in Nat /\ MinHoldout \in Nat
    BY <2>1, <2>4, MissedOrStopped, FS_CardinalityType, EvaluationAssumption
    DEF EvaluationAssumption
  <2>7. Cardinality(strangers) >= MinHoldout
    BY <2>3, <2>5, <2>6
  <2>8. Cardinality(Missed("model")) <= Cardinality(Missed("rules"))
    <3>1. \A side \in {"model", "rules"} :
            /\ Cardinality(BotsIn(samples, h)) \in Nat /\ Stopped(samples, h, side) \in Nat
            /\ Cardinality({i \in h : samples[i].automated /\ samples[i][side] = "allow"})
                 = Cardinality(BotsIn(samples, h)) - Stopped(samples, h, side)
      BY <2>1, <2>4, MissedOrStopped
    <3>2. \A side \in {"model", "rules"} :
            /\ Cardinality(BotsIn(samples, h)) \in Nat /\ Stopped(samples, h, side) \in Nat
            /\ Cardinality(Missed(side))
                 = Cardinality(BotsIn(samples, h)) - Stopped(samples, h, side)
      BY <2>3, <3>1
    <3> HIDE DEF Missed
    <3> QED BY <2>5, <3>2
  <2>9. Cardinality(Refused("model")) <= Cardinality(Refused("rules"))
    <3>1. \A side \in {"model", "rules"} :
            Blocked(samples, h, side) = Cardinality(Refused(side))
      BY <2>1, <2>3, <2>4, RefusedHumans
    <3>2. \A side \in {"model", "rules"} : Cardinality(Refused(side)) \in Nat
      <4>1. \A side \in {"model", "rules"} : Refused(side) \subseteq h
        BY <2>3
      <4> QED BY <2>6, <4>1, FS_Subset, FS_CardinalityType
    <3> HIDE DEF Refused
    <3> QED BY <2>5, <3>1, <3>2
  <2> QED BY <2>2, <2>7, <2>8, <2>9 DEF PromotedOnStrangers
<1> QED BY <1>1, EvaluationInvariant, PTL
=============================================================================
