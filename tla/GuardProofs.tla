----------------------------- MODULE GuardProofs ----------------------------
(***************************************************************************)
(* Theorems about Guard: for any requests, visits, tenants and policies.   *)
(***************************************************************************)
EXTENDS Guard, FiniteSetTheorems, SequenceTheorems, TLAPS

-----------------------------------------------------------------------------
(* The decision. *)

LEMMA RouteType == ASSUME NEW t, NEW visit PROVE RouteOf(t, visit) \in {"trap", "bot", "relief", "scored"}
  BY Zenon DEF RouteOf

\* No operator that decides returns anything but a decision.
LEMMA BaselineType ==
  ASSUME NEW t, NEW visit, NEW score PROVE Baseline(t, visit, score) \in Decisions
<1>1. DecideWithPolicy(score, t.strict) \in Decisions
  BY DEF DecideWithPolicy, Decisions
<1> QED BY <1>1 DEF Baseline, Decisions

LEMMA ProposedType ==
  ASSUME NEW action, NEW base \in Decisions, NEW score, NEW trusted
  PROVE  Proposed(action, base, score, trusted) \in Decisions
  BY DEF Proposed, Decisions

LEMMA DecidedType ==
  ASSUME NEW t, NEW q, NEW p, NEW facts PROVE Decided(t, q, p, facts) \in Decisions
<1> DEFINE base == Baseline(t, q.visit, facts.score)
<1>1. base \in Decisions
  BY BaselineType
<1>2. Proposed(Evaluate(p, facts), base, facts.score, q.visit.bot \/ q.caller \in p.allowlist)
        \in Decisions
  BY <1>1, ProposedType
<1> QED BY <1>1, <1>2 DEF Decided

LEMMA DecisionType ==
  ASSUME NEW t, NEW q, q.route \in {"bot", "relief", "scored"}, NEW p, NEW tripped
  PROVE  DecisionOf(t, q, p, tripped) \in Decisions
<1> DEFINE facts == Facts(q, p, tripped)
<1>1. Relieved(facts) \in Decisions
  BY DEF Relieved, Decisions
<1>2. Decided(t, q, p, facts) \in Decisions
  BY DecidedType
<1>3. "allow" \in Decisions
  BY DEF Decisions
<1> QED BY <1>1, <1>2, <1>3 DEF DecisionOf

\* A policy that is not enforced labels no route and so crowds no bucket.
LEMMA DraftLabelsNothing ==
  ASSUME NEW p, p.mode # "enforce", NEW visit
  PROVE  Spikes(visit, p) = Spikes(visit, NoPolicy)
<1>1. ClassifyRoute(p, visit) = ClassifyRoute(NoPolicy, visit)
  BY DEF ClassifyRoute, NoPolicy
<1> QED BY <1>1 DEF Spikes

\* ... and its list and rules are not looked at.
LEMMA DraftDecidesNothing ==
  ASSUME NEW t, NEW q, NEW p, p.mode # "enforce", NEW tripped
  PROVE  DecisionOf(t, q, p, tripped) = DecisionOf(t, q, NoPolicy, tripped)
<1> DEFINE f == Facts(q, p, tripped)
           g == Facts(q, NoPolicy, tripped)
<1>1. Spikes(q.visit, p) = Spikes(q.visit, NoPolicy)
  BY DraftLabelsNothing
<1>2. f.score = g.score
  BY <1>1 DEF Facts
<1>3. "velocity_spike" \in f.marks <=> "velocity_spike" \in g.marks
  <2>1. "velocity_spike" \notin {ClassifyRoute(p, q.visit)} \cup {ClassifyRoute(NoPolicy, q.visit)}
    BY DEF ClassifyRoute
  <2>2. "velocity_spike" \notin Agents(q.visit, q.caller \in p.allowlist)
        /\ "velocity_spike" \notin Agents(q.visit, q.caller \in NoPolicy.allowlist)
    BY DEF Agents
  <2> QED BY <1>1, <2>1, <2>2 DEF Facts
<1> HIDE DEF f, g
<1>4. Relieved(f) = Relieved(g)
  BY <1>2, <1>3 DEF Relieved
<1>5. Decided(t, q, p, f) = Decided(t, q, NoPolicy, g)
  BY <1>2 DEF Decided, NoPolicy
<1> QED BY <1>4, <1>5 DEF DecisionOf, f, g

\* Whatever the rules are, a hard score does not become an "allow", but for
\* a verified bot and a listed address.
LEMMA HardStaysHard ==
  ASSUME NEW t, NEW q, q.route \in {"relief", "scored"}, ~ q.visit.bot,
         NEW p, q.caller \notin p.allowlist,
         NEW tripped, Facts(q, p, tripped).score \in Int,
         Facts(q, p, tripped).score >= HardBlock
  PROVE  DecisionOf(t, q, p, tripped) \in {"challenge", "block", "deceive", "rate_limit"}
<1> DEFINE f == Facts(q, p, tripped)
           base == Baseline(t, q.visit, f.score)
<1>1. base \in {"block", "deceive"}
  <2>1. DecideWithPolicy(f.score, t.strict) = "block"
    BY DEF DecideWithPolicy, HardBlock
  <2> QED BY <2>1 DEF Baseline
<1>2. Relieved(f) = "block"
  BY DEF Relieved, HardBlock
<1>3. Proposed(Evaluate(p, f), base, f.score, q.visit.bot \/ q.caller \in p.allowlist)
        \in {"challenge", "block", "deceive", "rate_limit"}
  <2>1. ~ (f.score < HardBlock \/ (q.visit.bot \/ q.caller \in p.allowlist))
    BY DEF HardBlock
  <2> HIDE DEF f, base
  <2> QED BY <1>1, <2>1 DEF Proposed
<1>4. Decided(t, q, p, f) \in {"challenge", "block", "deceive", "rate_limit"}
  BY <1>1, <1>3 DEF Decided
<1> QED BY <1>2, <1>4 DEF DecisionOf

-----------------------------------------------------------------------------
(* Records and counts. *)

Places(s, d) == {i \in DOMAIN s : s[i] = d}

LEMMA PlacesFinite ==
  ASSUME NEW S, NEW s \in Seq(S), NEW d
  PROVE  IsFiniteSet(Places(s, d)) /\ Cardinality(Places(s, d)) \in Nat
<1>1. IsFiniteSet(1 .. Len(s))
  BY FS_Interval
<1>2. Places(s, d) \in SUBSET (1 .. Len(s))
  BY DEF Places
<1>3. IsFiniteSet(Places(s, d))
  BY <1>1, <1>2, FS_Subset
<1> QED BY <1>3, FS_CardinalityType

LEMMA PlacesAppend ==
  ASSUME NEW S, NEW s \in Seq(S), NEW x \in S, NEW d
  PROVE  Cardinality(Places(Append(s, x), d))
            = Cardinality(Places(s, d)) + (IF x = d THEN 1 ELSE 0)
<1>1. IsFiniteSet(Places(s, d)) /\ Cardinality(Places(s, d)) \in Nat
  BY PlacesFinite
<1>2. Len(s) + 1 \notin Places(s, d)
  BY DEF Places
<1>3. CASE x = d
  <2>1. Places(Append(s, x), d) = Places(s, d) \cup {Len(s) + 1}
    BY <1>3 DEF Places
  <2> QED BY <1>1, <1>2, <1>3, <2>1, FS_AddElement
<1>4. CASE x # d
  <2>1. Places(Append(s, x), d) = Places(s, d)
    BY <1>4 DEF Places
  <2> QED BY <1>1, <1>4, <2>1
<1> QED BY <1>3, <1>4

LEMMA PlacesTail ==
  ASSUME NEW S, NEW s \in Seq(S), s # <<>>, NEW d
  PROVE  Cardinality(Places(Tail(s), d)) <= Cardinality(Places(s, d))
<1> DEFINE from == Places(Tail(s), d)
           to == Places(s, d)
           f == [i \in from |-> i + 1]
<1>1. \A i \in from : i \in Nat /\ i + 1 \in to
  BY DEF Places
<1>2. f \in [from -> to]
  BY <1>1
<1>3. \A i, j \in from : f[i] = f[j] => i = j
  BY <1>1
<1>4. f \in Injection(from, to)
  BY <1>2, <1>3 DEF Injection, IsInjective
<1>5. IsFiniteSet(to)
  BY PlacesFinite
<1> HIDE DEF from, to, f
<1>6. Cardinality(from) <= Cardinality(to)
  BY <1>4, <1>5, FS_Injection
<1> QED BY <1>6 DEF from, to

\* Making a record adds at most that one to the ring.
LEMMA KeptRecords ==
  ASSUME GuardAssumption, NEW s \in Seq(Records), Len(s) <= TrailSize, NEW x \in Records
  PROVE  LET k == Kept(Append(s, x)) IN
         /\ k \in Seq(Records)
         /\ Len(k) = IF Len(s) < TrailSize THEN Len(s) + 1 ELSE TrailSize
         /\ \A d : Cardinality(Places(k, d))
                    <= Cardinality(Places(s, d)) + (IF x = d THEN 1 ELSE 0)
<1> DEFINE a == Append(s, x)
           k == Kept(a)
<1>1. a \in Seq(Records) /\ Len(a) = Len(s) + 1 /\ a # <<>>
  OBVIOUS
<1>2. TrailSize \in Nat
  BY DEF GuardAssumption
<1>3. k \in Seq(Records) /\ Len(k) = IF Len(s) < TrailSize THEN Len(s) + 1 ELSE TrailSize
  BY <1>1, <1>2 DEF Kept
<1>4. ASSUME NEW d
      PROVE  Cardinality(Places(k, d)) <= Cardinality(Places(s, d)) + (IF x = d THEN 1 ELSE 0)
  <2>1. Cardinality(Places(a, d)) = Cardinality(Places(s, d)) + (IF x = d THEN 1 ELSE 0)
    BY PlacesAppend
  <2>2. Cardinality(Places(Tail(a), d)) <= Cardinality(Places(a, d))
    BY <1>1, PlacesTail
  <2>3. Tail(a) \in Seq(Records)
    BY <1>1
  <2>4. /\ Cardinality(Places(a, d)) \in Nat
        /\ Cardinality(Places(Tail(a), d)) \in Nat
        /\ Cardinality(Places(s, d)) \in Nat
    <3> HIDE DEF a
    <3> QED BY <1>1, <2>3, PlacesFinite
  <2>5. k = a \/ k = Tail(a)
    BY DEF Kept
  <2> HIDE DEF a, k
  <2>6. CASE k = a
    BY <2>1, <2>4, <2>6
  <2>7. CASE k = Tail(a)
    BY <2>1, <2>2, <2>4, <2>7
  <2> QED BY <2>5, <2>6, <2>7
<1> QED BY <1>3, <1>4

\* The requests at a step with one of some decisions.
Waiting(step, D) ==
    {r \in Requests : request[r] # Free /\ request[r].step = step /\ request[r].decision \in D}

LEMMA WaitingFinite ==
  ASSUME GuardAssumption, NEW step, NEW D
  PROVE  /\ IsFiniteSet(Waiting(step, D)) /\ Cardinality(Waiting(step, D)) \in Nat
         /\ IsFiniteSet(Waiting(step, D)') /\ Cardinality(Waiting(step, D)') \in Nat
<1>1. IsFiniteSet(Waiting(step, D)) /\ IsFiniteSet(Waiting(step, D)')
  BY FS_Subset DEF Waiting, GuardAssumption
<1> QED BY <1>1, FS_CardinalityType

\* One request moves: the set gains it, loses it, or neither.
LEMMA WaitingShift ==
  ASSUME GuardAssumption, NEW r \in Requests,
         \A x \in Requests \ {r} : request'[x] = request[x],
         NEW step, NEW D
  PROVE  Cardinality(Waiting(step, D)') = Cardinality(Waiting(step, D))
            + (IF r \in Waiting(step, D)' THEN 1 ELSE 0) - (IF r \in Waiting(step, D) THEN 1 ELSE 0)
<1> DEFINE W == Waiting(step, D)
           V == Waiting(step, D)'
<1> SUFFICES Cardinality(V) = Cardinality(W)
              + (IF r \in V THEN 1 ELSE 0) - (IF r \in W THEN 1 ELSE 0)
  OBVIOUS
<1>1. IsFiniteSet(W) /\ Cardinality(W) \in Nat
  BY WaitingFinite
<1>2. CASE r \in V /\ r \notin W
  <2>1. V = W \cup {r}
    BY <1>2 DEF Waiting
  <2> HIDE DEF V, W
  <2>2. Cardinality(W \cup {r}) = Cardinality(W) + 1
    BY <1>1, <1>2, FS_AddElement
  <2> QED BY <1>1, <1>2, <2>1, <2>2
<1>3. CASE r \notin V /\ r \in W
  <2>1. V = W \ {r}
    BY <1>3 DEF Waiting
  <2> HIDE DEF V, W
  <2>2. Cardinality(W \ {r}) = Cardinality(W) - 1
    BY <1>1, <1>3, FS_RemoveElement
  <2> QED BY <1>1, <1>3, <2>1, <2>2
<1>4. CASE r \in V <=> r \in W
  <2>1. V = W
    BY <1>4 DEF Waiting
  <2> HIDE DEF V, W
  <2> QED BY <1>1, <1>4, <2>1
<1> QED BY <1>2, <1>3, <1>4

-----------------------------------------------------------------------------
(* The trap's memory. *)

\* However often the trap is hit, the memory stays within its bound.
LEMMA MemoryBounded ==
  ASSUME GuardAssumption, TypeOK, NEW c \in Callers, RecordTrip(c)
  PROVE  /\ trips' \in [Callers -> Absent .. TrapLife]
         /\ Cardinality(Remembered') <= MaxTrips
         /\ sinceSweep' \in 0 .. SweepEvery
<1> DEFINE sweeps == c \notin Remembered /\ Full(trips) /\ sinceSweep = SweepEvery
           memory == IF sweeps
                     THEN [d \in Callers |-> IF trips[d] = TrapLife THEN Absent ELSE trips[d]]
                     ELSE trips
           held == {d \in Callers : memory[d] # Absent}
<1>1. /\ trips' = IF c \notin Remembered /\ Full(memory) THEN memory ELSE [memory EXCEPT ![c] = 0]
      /\ sinceSweep' = IF sweeps THEN 0 ELSE sinceSweep
  BY DEF RecordTrip
<1>2. memory \in [Callers -> Absent .. TrapLife]
  BY DEF TypeOK, GuardAssumption, Absent
<1>3. IsFiniteSet(Remembered) /\ held \subseteq Remembered /\ IsFiniteSet(held)
      /\ Cardinality(held) \in Nat /\ Cardinality(Remembered) \in Nat
  <2>1. held \subseteq Remembered /\ Remembered \subseteq Callers
    BY DEF Remembered, Absent
  <2>2. IsFiniteSet(Remembered)
    BY <2>1, FS_Subset DEF GuardAssumption
  <2> HIDE DEF held
  <2> QED BY <2>1, <2>2, FS_Subset, FS_CardinalityType
<1>4. Cardinality(held) <= MaxTrips
  <2> HIDE DEF held
  <2>1. Cardinality(held) <= Cardinality(Remembered)
    BY <1>3, FS_Subset
  <2> QED BY <1>3, <2>1 DEF TypeOK, GuardAssumption
<1>5. CASE c \in Remembered
  <2>1. Remembered' = Remembered
    BY <1>1, <1>5 DEF Remembered, TypeOK, Absent
  <2> QED BY <1>1, <1>2, <1>5, <2>1 DEF TypeOK, GuardAssumption, Absent
<1>6. CASE c \notin Remembered /\ Full(memory)
  <2>1. Remembered' = held
    BY <1>1, <1>6 DEF Remembered
  <2>2. sinceSweep' \in 0 .. SweepEvery
    BY <1>1 DEF TypeOK, GuardAssumption
  <2> HIDE DEF held, sweeps
  <2> QED BY <1>1, <1>2, <1>4, <1>6, <2>1, <2>2
<1>7. CASE c \notin Remembered /\ ~ Full(memory)
  <2>1. trips' = [memory EXCEPT ![c] = 0]
    BY <1>1, <1>7
  <2>2. Remembered' = held \cup {c}
    <3> HIDE DEF memory
    <3> QED BY <1>2, <2>1 DEF Remembered, Absent
  <2>3. sinceSweep' \in 0 .. SweepEvery
    BY <1>1 DEF TypeOK, GuardAssumption
  <2>4. trips' \in [Callers -> Absent .. TrapLife]
    <3> HIDE DEF memory
    <3> QED BY <1>2, <2>1 DEF GuardAssumption, Absent
  <2>5. Cardinality(held) < MaxTrips
    BY <1>3, <1>7 DEF Full, GuardAssumption
  <2> HIDE DEF held, sweeps, memory
  <2>6. Cardinality(held \cup {c}) = Cardinality(held) + 1
    BY <1>3, <1>7, FS_AddElement
  <2>7. Cardinality(held \cup {c}) \in Nat
    BY <1>3, FS_AddElement, FS_CardinalityType
  <2> QED BY <1>3, <2>2, <2>3, <2>4, <2>5, <2>6, <2>7 DEF GuardAssumption
<1> QED BY <1>5, <1>6, <1>7

-----------------------------------------------------------------------------
(* The invariant. *)

\* A request goes the way its visit calls for.
RoutedRight ==
    \A r \in Requests : request[r] # Free => request[r].route = RouteOf(tenant, request[r].visit)

\* A judged request carries the decision of the policy it arrived under.
JudgedRight ==
    \A r \in Requests : Judged(r) =>
        request[r].decision = DecisionOf(tenant, request[r], Under(r), request[r].tripped)

\* A decision is in the trail before its count only while it is logged, and
\* counted before its record only while it is counted.
RecordsCounted ==
    \A d \in Decisions :
        Cardinality(Places(trail, Evidence(d))) + Cardinality(Waiting("counted", {d}))
            <= counters[d] + Cardinality(Waiting("logged", {d}))

\* What was ever recorded: the ring holds all of it, or is full.
Recorded ==
    observed + Total + Cardinality(Waiting("logged", Decisions)) - Cardinality(Waiting("counted", Decisions))
TrailFull == Len(trail) = IF Recorded < TrailSize THEN Recorded ELSE TrailSize

\* The other writer's records are the solves observed, or those of them left.
ObservedRight == Cardinality(Places(trail, Observation)) <= observed

IInv == TypeOK /\ RoutedRight /\ JudgedRight /\ RecordsCounted /\ TrailFull /\ ObservedRight

-----------------------------------------------------------------------------
(* One lemma per way a request moves. *)

\* A step of the handler that leaves the rest of the request as it is.
Moved(r, step, tripped, decision) ==
    /\ request' \in [Requests -> Handled \cup {Free}]
    /\ \A x \in Requests \ {r} : request'[x] = request[x]
    /\ request'[r] # Free
    /\ request'[r] = [step |-> step, route |-> request[r].route,
            caller |-> request[r].caller, visit |-> request[r].visit,
            version |-> request[r].version, tripped |-> tripped, decision |-> decision]

LEMMA MoveTypes ==
  ASSUME IInv, NEW r \in Requests, request[r] # Free,
         NEW step \in {"routed", "decided", "logged", "counted", "answer"},
         NEW tripped \in BOOLEAN, NEW decision \in Decisions,
         Move(r, step, tripped, decision)
  PROVE  Moved(r, step, tripped, decision)
<1> DEFINE next == [step |-> step, route |-> request[r].route,
                caller |-> request[r].caller, visit |-> request[r].visit,
                version |-> request[r].version, tripped |-> tripped, decision |-> decision]
<1>1. next \in Handled
  BY DEF IInv, TypeOK, Handled
<1>2. next # Free
  BY Zenon DEF Free
<1>3. request' = [request EXCEPT ![r] = next]
  BY DEF Move
<1> HIDE DEF next
<1>4. /\ request' \in [Requests -> Handled \cup {Free}]
      /\ \A x \in Requests \ {r} : request'[x] = request[x]
      /\ request'[r] = next
  BY <1>1, <1>3 DEF IInv, TypeOK
<1> QED BY <1>2, <1>4 DEF next, Moved

\* The decision looks at the route, the visit and the caller only.
LEMMA DecisionDepends ==
  ASSUME NEW q, NEW s, q.route = s.route, q.visit = s.visit, q.caller = s.caller,
         NEW t, NEW p, NEW tripped
  PROVE  DecisionOf(t, q, p, tripped) = DecisionOf(t, s, p, tripped)
<1>1. Facts(q, p, tripped) = Facts(s, p, tripped)
  BY DEF Facts
<1>2. ASSUME NEW facts PROVE Decided(t, q, p, facts) = Decided(t, s, p, facts)
  BY DEF Decided
<1> QED BY <1>1, <1>2 DEF DecisionOf

\* ... and a move keeps it right that gives the decision of the policy.
LEMMA MoveKeepsRight ==
  ASSUME IInv, UNCHANGED tenant, NEW r \in Requests, request[r] # Free,
         NEW step \in {"routed", "decided", "logged", "counted", "answer"},
         NEW tripped \in BOOLEAN, NEW decision \in Decisions,
         Move(r, step, tripped, decision),
         \/ request[r].route = "trap"
         \/ decision = DecisionOf(tenant, request[r], Under(r), tripped)
  PROVE  RoutedRight' /\ JudgedRight'
<1>1. Moved(r, step, tripped, decision)
  BY MoveTypes
<1>2. /\ request'[r].route = request[r].route /\ request'[r].visit = request[r].visit
      /\ request'[r].caller = request[r].caller /\ request'[r].version = request[r].version
      /\ request'[r].tripped = tripped /\ request'[r].decision = decision
  BY <1>1 DEF Moved
<1>3. RoutedRight'
  <2>1. ASSUME NEW x \in Requests, request'[x] # Free
        PROVE  request'[x].route = RouteOf(tenant', request'[x].visit)
    <3>1. CASE x = r
      BY <1>2, <3>1 DEF IInv, RoutedRight
    <3>2. CASE x # r
      BY <1>1, <2>1, <3>2 DEF IInv, RoutedRight, Moved
    <3> QED BY <3>1, <3>2
  <2> QED BY <2>1 DEF RoutedRight
<1>4. ASSUME NEW x \in Requests, Judged(x)'
      PROVE  request'[x].decision = DecisionOf(tenant', request'[x], Under(x)', request'[x].tripped)
  <2>1. CASE x = r
    <3>1. request[r].route # "trap"
      BY <1>2, <1>4, <2>1 DEF Judged
    <3>2. Under(r)' = Under(r)
      BY <1>2 DEF Under
    <3>3. DecisionOf(tenant, request'[r], Under(r), tripped)
            = DecisionOf(tenant, request[r], Under(r), tripped)
      BY <1>2, DecisionDepends
    <3> QED BY <1>2, <2>1, <3>1, <3>2, <3>3
  <2>2. CASE x # r
    <3>1. request'[x] = request[x] /\ Judged(x) /\ Under(x)' = Under(x)
      BY <1>1, <1>4, <2>2 DEF Judged, Under, Moved
    <3> QED BY <3>1 DEF IInv, JudgedRight
  <2> QED BY <2>1, <2>2
<1> QED BY <1>3, <1>4 DEF JudgedRight

\* A move between steps before or after recording disturbs no count.
LEMMA Undisturbed ==
  ASSUME IInv, UNCHANGED <<counters, trail, observed>>, NEW r \in Requests,
         \A x \in Requests \ {r} : request'[x] = request[x],
         request[r] = Free \/ request[r].step \notin {"logged", "counted"},
         request'[r] = Free \/ request'[r].step \notin {"logged", "counted"}
  PROVE  RecordsCounted' /\ TrailFull' /\ ObservedRight'
<1>1. ASSUME NEW step \in {"logged", "counted"}, NEW D
      PROVE  Waiting(step, D)' = Waiting(step, D)
  BY DEF Waiting
<1>2. RecordsCounted'
  <2>1. ASSUME NEW d
        PROVE /\ Waiting("logged", {d})' = Waiting("logged", {d})
              /\ Waiting("counted", {d})' = Waiting("counted", {d})
    BY <1>1
  <2>2. ASSUME NEW d PROVE Places(trail, d)' = Places(trail, d)
    BY DEF Places
  <2> QED BY <2>1, <2>2 DEF IInv, RecordsCounted
<1>3. TrailFull'
  <2>1. /\ Waiting("logged", Decisions)' = Waiting("logged", Decisions)
        /\ Waiting("counted", Decisions)' = Waiting("counted", Decisions)
    BY <1>1
  <2> QED BY <2>1 DEF IInv, TrailFull, Recorded, Total
<1>4. ObservedRight'
  BY DEF IInv, ObservedRight, Places
<1> QED BY <1>2, <1>3, <1>4

LEMMA CountAddsOne ==
  ASSUME counters \in [Decisions -> Nat], NEW d \in Decisions,
         \A e \in Decisions : counters'[e] = counters[e] + (IF e = d THEN 1 ELSE 0)
  PROVE  Total' = Total + 1 /\ Total \in Nat
<1>1. /\ counters["allow"] \in Nat /\ counters["challenge"] \in Nat /\ counters["block"] \in Nat
      /\ counters["deceive"] \in Nat /\ counters["rate_limit"] \in Nat
  BY DEF Decisions
<1>2. /\ counters'["allow"] = counters["allow"] + (IF d = "allow" THEN 1 ELSE 0)
      /\ counters'["challenge"] = counters["challenge"] + (IF d = "challenge" THEN 1 ELSE 0)
      /\ counters'["block"] = counters["block"] + (IF d = "block" THEN 1 ELSE 0)
      /\ counters'["deceive"] = counters["deceive"] + (IF d = "deceive" THEN 1 ELSE 0)
      /\ counters'["rate_limit"] = counters["rate_limit"] + (IF d = "rate_limit" THEN 1 ELSE 0)
  BY DEF Decisions
<1>3. d \in {"allow", "challenge", "block", "deceive", "rate_limit"}
  BY DEF Decisions
<1> QED BY <1>1, <1>2, <1>3 DEF Total

LEMMA CountKeepsInv ==
  ASSUME GuardAssumption, IInv, NEW r \in Requests, request[r] # Free, Count(r)
  PROVE  IInv'
<1> DEFINE step == IF request[r].step = "decided" THEN "counted" ELSE "answer"
           d == request[r].decision
<1>1. /\ Goto(r, step)
      /\ request[r].step \in {"decided", "logged"}
      /\ counters' = [counters EXCEPT ![d] = @ + 1]
      /\ UNCHANGED <<tenant, answers, newest, trips, sinceSweep, trail, observed>>
  BY DEF Count, At
<1>2. request[r] \in Handled
  BY DEF IInv, TypeOK
<1>3. step \in {"counted", "answer"} /\ d \in Decisions /\ request[r].tripped \in BOOLEAN
  BY <1>2 DEF Handled
<1>4. /\ request' \in [Requests -> Handled \cup {Free}]
      /\ \A x \in Requests \ {r} : request'[x] = request[x]
      /\ request'[r] # Free
      /\ request'[r].step = step /\ request'[r].decision = d
  <2> HIDE DEF step, d
  <2>1. Move(r, step, request[r].tripped, d)
    BY <1>1 DEF Goto, d
  <2>2. step \in {"routed", "decided", "logged", "counted", "answer"}
    BY <1>3
  <2>3. Moved(r, step, request[r].tripped, d)
    BY <1>3, <2>1, <2>2, MoveTypes
  <2> QED BY <2>3 DEF Moved
<1>5. /\ counters' \in [Decisions -> Nat]
      /\ \A e \in Decisions : counters'[e] = counters[e] + (IF e = d THEN 1 ELSE 0)
  <2> HIDE DEF d
  <2> QED BY <1>1, <1>3 DEF IInv, TypeOK
<1>6. TypeOK'
  <2>1. Remembered' = Remembered
    BY <1>1 DEF Remembered
  <2> QED BY <1>1, <1>4, <1>5, <2>1 DEF IInv, TypeOK
<1>7. RoutedRight' /\ JudgedRight'
  <2>1. \/ request[r].route = "trap"
        \/ d = DecisionOf(tenant, request[r], Under(r), request[r].tripped)
    BY <1>1 DEF IInv, JudgedRight, Judged
  <2>2. Move(r, step, request[r].tripped, d)
    BY <1>1 DEF Goto
  <2>3. UNCHANGED tenant
    BY <1>1
  <2> HIDE DEF step, d
  <2> QED BY <1>3, <2>1, <2>2, <2>3, MoveKeepsRight
\* The request leaves "logged" or joins "counted": one count more either way.
<1>8. ASSUME NEW D
      PROVE  /\ Cardinality(Waiting("logged", D)) \in Nat
             /\ Cardinality(Waiting("counted", D)) \in Nat
             /\ Cardinality(Waiting("logged", D)') \in Nat
             /\ Cardinality(Waiting("counted", D)') \in Nat
             /\ Cardinality(Waiting("logged", D)') - Cardinality(Waiting("counted", D)')
                  = Cardinality(Waiting("logged", D)) - Cardinality(Waiting("counted", D))
                    - (IF d \in D THEN 1 ELSE 0)
  <2>1. /\ Cardinality(Waiting("logged", D)) \in Nat
        /\ Cardinality(Waiting("counted", D)) \in Nat
        /\ Cardinality(Waiting("logged", D)') \in Nat
        /\ Cardinality(Waiting("counted", D)') \in Nat
    BY WaitingFinite
  <2>2. Cardinality(Waiting("logged", D)') = Cardinality(Waiting("logged", D))
            + (IF r \in Waiting("logged", D)' THEN 1 ELSE 0) - (IF r \in Waiting("logged", D) THEN 1 ELSE 0)
    BY <1>4, WaitingShift
  <2>3. Cardinality(Waiting("counted", D)') = Cardinality(Waiting("counted", D))
            + (IF r \in Waiting("counted", D)' THEN 1 ELSE 0) - (IF r \in Waiting("counted", D) THEN 1 ELSE 0)
    BY <1>4, WaitingShift
  <2>4. /\ r \in Waiting("logged", D) <=> request[r].step = "logged" /\ d \in D
        /\ r \notin Waiting("logged", D)'
        /\ r \notin Waiting("counted", D)
        /\ r \in Waiting("counted", D)' <=> request[r].step = "decided" /\ d \in D
    BY <1>1, <1>4 DEF Waiting
  <2> HIDE DEF d
  <2> QED BY <1>1, <2>1, <2>2, <2>3, <2>4
<1> HIDE DEF d
<1>9. RecordsCounted'
  <2>1. ASSUME NEW e \in Decisions
        PROVE  Cardinality(Places(trail', Evidence(e))) + Cardinality(Waiting("counted", {e})')
                 <= counters'[e] + Cardinality(Waiting("logged", {e})')
    <3>1. Cardinality(Places(trail, Evidence(e))) + Cardinality(Waiting("counted", {e}))
             <= counters[e] + Cardinality(Waiting("logged", {e}))
      BY DEF IInv, RecordsCounted
    <3>2. Cardinality(Places(trail, Evidence(e))) \in Nat
      BY PlacesFinite DEF IInv, TypeOK
    <3>3. trail' = trail /\ counters[e] \in Nat
      BY <1>1 DEF IInv, TypeOK
    <3>4. counters'[e] = counters[e] + (IF e = d THEN 1 ELSE 0)
      BY <1>5
    <3>5. /\ Cardinality(Waiting("logged", {e})) \in Nat
          /\ Cardinality(Waiting("counted", {e})) \in Nat
          /\ Cardinality(Waiting("logged", {e})') \in Nat
          /\ Cardinality(Waiting("counted", {e})') \in Nat
          /\ Cardinality(Waiting("logged", {e})') - Cardinality(Waiting("counted", {e})')
                = Cardinality(Waiting("logged", {e})) - Cardinality(Waiting("counted", {e}))
                  - (IF d \in {e} THEN 1 ELSE 0)
      BY <1>8
    <3> QED BY <3>1, <3>2, <3>3, <3>4, <3>5
  <2> QED BY <2>1 DEF RecordsCounted
<1>10. TrailFull'
  <2>1. Total' = Total + 1 /\ Total \in Nat
    BY <1>3, <1>5, CountAddsOne DEF IInv, TypeOK
  <2>2. Recorded' = Recorded
    BY <1>1, <1>3, <1>8, <2>1 DEF Recorded, IInv, TypeOK
  <2> QED BY <1>1, <2>2 DEF IInv, TrailFull
<1>11. ObservedRight'
  BY <1>1 DEF IInv, ObservedRight, Places
<1> QED BY <1>6, <1>7, <1>9, <1>10, <1>11 DEF IInv

LEMMA LogKeepsInv ==
  ASSUME GuardAssumption, IInv, NEW r \in Requests, request[r] # Free, Log(r)
  PROVE  IInv'
<1> DEFINE step == IF request[r].step = "decided" THEN "logged" ELSE "answer"
           d == request[r].decision
<1>1. /\ Goto(r, step)
      /\ request[r].step \in {"decided", "counted"}
      /\ trail' = Kept(Append(trail, Evidence(d)))
      /\ UNCHANGED <<tenant, answers, newest, trips, sinceSweep, counters, observed>>
  BY DEF Log, At
<1>2. request[r] \in Handled
  BY DEF IInv, TypeOK
<1>3. step \in {"logged", "answer"} /\ d \in Decisions /\ request[r].tripped \in BOOLEAN
  BY <1>2 DEF Handled
<1>4. /\ request' \in [Requests -> Handled \cup {Free}]
      /\ \A x \in Requests \ {r} : request'[x] = request[x]
      /\ request'[r] # Free
      /\ request'[r].step = step /\ request'[r].decision = d
  <2> HIDE DEF step, d
  <2>1. Move(r, step, request[r].tripped, d)
    BY <1>1 DEF Goto, d
  <2>2. step \in {"routed", "decided", "logged", "counted", "answer"}
    BY <1>3
  <2>3. Moved(r, step, request[r].tripped, d)
    BY <1>3, <2>1, <2>2, MoveTypes
  <2> QED BY <2>3 DEF Moved
<1>5. /\ trail' \in Seq(Records)
      /\ Len(trail') = IF Len(trail) < TrailSize THEN Len(trail) + 1 ELSE TrailSize
      /\ \A e : Cardinality(Places(trail', Evidence(e)))
                   <= Cardinality(Places(trail, Evidence(e))) + (IF d = e THEN 1 ELSE 0)
      /\ Cardinality(Places(trail', Observation)) <= Cardinality(Places(trail, Observation)) + 0
  <2> HIDE DEF d
  <2>1. Evidence(d) \in Records /\ Evidence(d) # Observation
    BY <1>3 DEF Evidence, Observation, Records
  <2>2. /\ trail' \in Seq(Records)
        /\ Len(trail') = IF Len(trail) < TrailSize THEN Len(trail) + 1 ELSE TrailSize
        /\ \A x : Cardinality(Places(trail', x))
                     <= Cardinality(Places(trail, x)) + (IF Evidence(d) = x THEN 1 ELSE 0)
    BY <1>1, <2>1, KeptRecords DEF IInv, TypeOK
  <2>3. \A e : Evidence(d) = Evidence(e) <=> d = e
    BY DEF Evidence
  <2> QED BY <2>1, <2>2, <2>3
<1>6. TypeOK'
  <2>1. Remembered' = Remembered
    BY <1>1 DEF Remembered
  <2>2. Len(trail') <= TrailSize
    BY <1>5 DEF IInv, TypeOK, GuardAssumption
  <2> QED BY <1>1, <1>4, <1>5, <2>1, <2>2 DEF IInv, TypeOK
<1>7. RoutedRight' /\ JudgedRight'
  <2>1. \/ request[r].route = "trap"
        \/ d = DecisionOf(tenant, request[r], Under(r), request[r].tripped)
    BY <1>1 DEF IInv, JudgedRight, Judged
  <2>2. Move(r, step, request[r].tripped, d)
    BY <1>1 DEF Goto
  <2>3. UNCHANGED tenant
    BY <1>1
  <2> HIDE DEF step, d
  <2> QED BY <1>3, <2>1, <2>2, <2>3, MoveKeepsRight
\* The request joins "logged" or leaves "counted": one record more either way.
<1>8. ASSUME NEW D
      PROVE  /\ Cardinality(Waiting("logged", D)) \in Nat
             /\ Cardinality(Waiting("counted", D)) \in Nat
             /\ Cardinality(Waiting("logged", D)') \in Nat
             /\ Cardinality(Waiting("counted", D)') \in Nat
             /\ Cardinality(Waiting("logged", D)') - Cardinality(Waiting("counted", D)')
                  = Cardinality(Waiting("logged", D)) - Cardinality(Waiting("counted", D))
                    + (IF d \in D THEN 1 ELSE 0)
  <2>1. /\ Cardinality(Waiting("logged", D)) \in Nat
        /\ Cardinality(Waiting("counted", D)) \in Nat
        /\ Cardinality(Waiting("logged", D)') \in Nat
        /\ Cardinality(Waiting("counted", D)') \in Nat
    BY WaitingFinite
  <2>2. Cardinality(Waiting("logged", D)') = Cardinality(Waiting("logged", D))
            + (IF r \in Waiting("logged", D)' THEN 1 ELSE 0) - (IF r \in Waiting("logged", D) THEN 1 ELSE 0)
    BY <1>4, WaitingShift
  <2>3. Cardinality(Waiting("counted", D)') = Cardinality(Waiting("counted", D))
            + (IF r \in Waiting("counted", D)' THEN 1 ELSE 0) - (IF r \in Waiting("counted", D) THEN 1 ELSE 0)
    BY <1>4, WaitingShift
  <2>4. /\ r \notin Waiting("logged", D)
        /\ r \in Waiting("logged", D)' <=> request[r].step = "decided" /\ d \in D
        /\ r \in Waiting("counted", D) <=> request[r].step = "counted" /\ d \in D
        /\ r \notin Waiting("counted", D)'
    BY <1>1, <1>4 DEF Waiting
  <2> HIDE DEF d
  <2> QED BY <1>1, <2>1, <2>2, <2>3, <2>4
<1> HIDE DEF d
<1>9. RecordsCounted'
  <2>1. ASSUME NEW e \in Decisions
        PROVE  Cardinality(Places(trail', Evidence(e))) + Cardinality(Waiting("counted", {e})')
                 <= counters'[e] + Cardinality(Waiting("logged", {e})')
    <3>1. Cardinality(Places(trail, Evidence(e))) + Cardinality(Waiting("counted", {e}))
             <= counters[e] + Cardinality(Waiting("logged", {e}))
      BY DEF IInv, RecordsCounted
    <3>2. Cardinality(Places(trail, Evidence(e))) \in Nat
      BY PlacesFinite DEF IInv, TypeOK
    <3>3. Cardinality(Places(trail', Evidence(e))) \in Nat
      BY <1>5, PlacesFinite
    <3>4. counters' = counters /\ counters[e] \in Nat
      BY <1>1 DEF IInv, TypeOK
    <3>5. Cardinality(Places(trail', Evidence(e))) <= Cardinality(Places(trail, Evidence(e))) + (IF d = e THEN 1 ELSE 0)
      BY <1>5
    <3>6. /\ Cardinality(Waiting("logged", {e})) \in Nat
          /\ Cardinality(Waiting("counted", {e})) \in Nat
          /\ Cardinality(Waiting("logged", {e})') \in Nat
          /\ Cardinality(Waiting("counted", {e})') \in Nat
          /\ Cardinality(Waiting("logged", {e})') - Cardinality(Waiting("counted", {e})')
                = Cardinality(Waiting("logged", {e})) - Cardinality(Waiting("counted", {e}))
                  + (IF d \in {e} THEN 1 ELSE 0)
      BY <1>8
    <3> QED BY <3>1, <3>2, <3>3, <3>4, <3>5, <3>6
  <2> QED BY <2>1 DEF RecordsCounted
<1>10. TrailFull'
  <2>1. Total' = Total /\ Total \in Nat
    BY <1>1 DEF Total, Decisions, IInv, TypeOK
  <2>2. Recorded' = Recorded + 1 /\ Recorded \in Int
    BY <1>1, <1>3, <1>8, <2>1 DEF Recorded, IInv, TypeOK
  <2>3. Len(trail) = IF Recorded < TrailSize THEN Recorded ELSE TrailSize
    BY DEF IInv, TrailFull
  <2>4. TrailSize \in Nat
    BY DEF GuardAssumption
  <2> QED BY <1>5, <2>2, <2>3, <2>4 DEF TrailFull
<1>11. ObservedRight'
  <2>1. /\ Cardinality(Places(trail, Observation)) \in Nat
        /\ Cardinality(Places(trail', Observation)) \in Nat /\ observed \in Nat
    BY <1>5, PlacesFinite DEF IInv, TypeOK
  <2> QED BY <1>1, <1>5, <2>1 DEF IInv, ObservedRight
<1> QED BY <1>6, <1>7, <1>9, <1>10, <1>11 DEF IInv

LEMMA ObserveKeepsInv ==
  ASSUME GuardAssumption, IInv, ObserveSolve
  PROVE  IInv'
<1>1. /\ trail' = Kept(Append(trail, Observation)) /\ observed' = observed + 1
      /\ UNCHANGED <<tenant, answers, newest, trips, sinceSweep, counters, request>>
  BY DEF ObserveSolve
<1>2. /\ trail' \in Seq(Records)
      /\ Len(trail') = IF Len(trail) < TrailSize THEN Len(trail) + 1 ELSE TrailSize
      /\ \A x : Cardinality(Places(trail', x))
                   <= Cardinality(Places(trail, x)) + (IF Observation = x THEN 1 ELSE 0)
  <2>1. Observation \in Records
    BY DEF Observation, Records, Decisions
  <2> QED BY <1>1, <2>1, KeptRecords DEF IInv, TypeOK
<1>3. \A x : Cardinality(Places(trail, x)) \in Nat /\ Cardinality(Places(trail', x)) \in Nat
  BY <1>2, PlacesFinite DEF IInv, TypeOK
<1>4. observed \in Nat /\ Total \in Nat /\ Total' = Total
  BY <1>1 DEF Total, Decisions, IInv, TypeOK
<1>5. ASSUME NEW step, NEW D
      PROVE  /\ Waiting(step, D)' = Waiting(step, D)
             /\ Cardinality(Waiting(step, D)) \in Nat
  <2>1. Waiting(step, D)' = Waiting(step, D)
    BY <1>1 DEF Waiting
  <2> QED BY <2>1, WaitingFinite
<1>6. TypeOK'
  <2>1. Remembered' = Remembered
    BY <1>1 DEF Remembered
  <2>2. Len(trail') <= TrailSize /\ observed' \in Nat
    BY <1>1, <1>2, <1>4 DEF IInv, TypeOK, GuardAssumption
  <2> QED BY <1>1, <1>2, <2>1, <2>2 DEF IInv, TypeOK
<1>7. RoutedRight' /\ JudgedRight'
  BY <1>1 DEF IInv, RoutedRight, JudgedRight, Judged, Under
<1>8. RecordsCounted'
  <2>1. ASSUME NEW d \in Decisions
        PROVE  Cardinality(Places(trail', Evidence(d))) + Cardinality(Waiting("counted", {d})')
                 <= counters'[d] + Cardinality(Waiting("logged", {d})')
    <3>1. Cardinality(Places(trail, Evidence(d))) + Cardinality(Waiting("counted", {d}))
             <= counters[d] + Cardinality(Waiting("logged", {d}))
      BY DEF IInv, RecordsCounted
    <3>2. Evidence(d) # Observation
      BY DEF Evidence, Observation
    <3>3. Cardinality(Places(trail', Evidence(d))) <= Cardinality(Places(trail, Evidence(d))) + 0
      BY <1>2, <3>2
    <3>4. /\ Waiting("counted", {d})' = Waiting("counted", {d})
          /\ Waiting("logged", {d})' = Waiting("logged", {d})
          /\ Cardinality(Waiting("counted", {d})) \in Nat
          /\ Cardinality(Waiting("logged", {d})) \in Nat
      BY <1>5
    <3>5. counters'[d] = counters[d] /\ counters[d] \in Nat
      BY <1>1 DEF IInv, TypeOK
    <3>6. /\ Cardinality(Places(trail, Evidence(d))) \in Nat
          /\ Cardinality(Places(trail', Evidence(d))) \in Nat
      BY <1>3
    <3> QED BY <3>1, <3>3, <3>4, <3>5, <3>6
  <2> QED BY <2>1 DEF RecordsCounted
<1>9. TrailFull'
  <2>1. /\ Waiting("logged", Decisions)' = Waiting("logged", Decisions)
        /\ Waiting("counted", Decisions)' = Waiting("counted", Decisions)
        /\ Cardinality(Waiting("logged", Decisions)) \in Nat
        /\ Cardinality(Waiting("counted", Decisions)) \in Nat
    BY <1>5
  <2>2. Recorded' = Recorded + 1 /\ Recorded \in Int
    BY <1>1, <1>4, <2>1 DEF Recorded
  <2>3. Len(trail) = IF Recorded < TrailSize THEN Recorded ELSE TrailSize
    BY DEF IInv, TrailFull
  <2>4. TrailSize \in Nat
    BY DEF GuardAssumption
  <2> QED BY <1>2, <2>2, <2>3, <2>4 DEF TrailFull
<1>10. ObservedRight'
  <2>1. Cardinality(Places(trail', Observation)) <= Cardinality(Places(trail, Observation)) + 1
    BY <1>2
  <2>2. Cardinality(Places(trail, Observation)) \in Nat /\ Cardinality(Places(trail', Observation)) \in Nat
    BY <1>3
  <2> QED BY <1>1, <1>4, <2>1, <2>2 DEF IInv, ObservedRight
<1> QED BY <1>6, <1>7, <1>8, <1>9, <1>10 DEF IInv

LEMMA ArriveKeepsInv ==
  ASSUME IInv, NEW r \in Requests, NEW c \in Callers, NEW visit \in Visits, Arrive(r, c, visit)
  PROVE  IInv'
<1> DEFINE q == [step |-> "routed", route |-> RouteOf(tenant, visit), caller |-> c, visit |-> visit,
                 version |-> IF tenant.provider THEN answers ELSE 0,
                 tripped |-> FALSE, decision |-> "allow"]
<1>1. /\ request[r] = Free /\ request' = [request EXCEPT ![r] = q]
      /\ UNCHANGED <<tenant, answers, newest, trips, sinceSweep, counters, trail, observed>>
  BY DEF Arrive
<1>2. q \in Handled
  BY RouteType DEF Handled, Decisions, IInv, TypeOK
<1>3. /\ q.step = "routed" /\ q.route = RouteOf(tenant, q.visit)
  OBVIOUS
<1> HIDE DEF q
<1>4. /\ request' \in [Requests -> Handled \cup {Free}]
      /\ \A x \in Requests \ {r} : request'[x] = request[x]
      /\ request'[r] = q
  BY <1>1, <1>2 DEF IInv, TypeOK
<1>5. TypeOK'
  <2>1. Remembered' = Remembered
    BY <1>1 DEF Remembered
  <2> QED BY <1>1, <1>4, <2>1 DEF IInv, TypeOK
<1>6. RoutedRight'
  BY <1>1, <1>3, <1>4 DEF RoutedRight, IInv
<1>7. JudgedRight'
  <2>1. ASSUME NEW x \in Requests, Judged(x)'
        PROVE  x # r /\ request'[x] = request[x] /\ Judged(x) /\ Under(x)' = Under(x)
    BY <1>3, <1>4, <2>1 DEF Judged, Under
  <2> QED BY <1>1, <2>1 DEF IInv, JudgedRight
<1>8. RecordsCounted' /\ TrailFull' /\ ObservedRight'
  BY <1>1, <1>3, <1>4, Undisturbed
<1> QED BY <1>5, <1>6, <1>7, <1>8 DEF IInv

LEMMA ReplyKeepsInv ==
  ASSUME IInv, NEW r \in Requests, Reply(r)
  PROVE  IInv'
<1>1. /\ At(r, "answer") /\ request' = [request EXCEPT ![r] = Free]
      /\ UNCHANGED <<tenant, answers, newest, trips, sinceSweep, counters, trail, observed>>
  BY DEF Reply
<1>2. /\ request' \in [Requests -> Handled \cup {Free}]
      /\ \A x \in Requests \ {r} : request'[x] = request[x]
      /\ request'[r] = Free
  BY <1>1 DEF IInv, TypeOK
<1>3. TypeOK'
  <2>1. Remembered' = Remembered
    BY <1>1 DEF Remembered
  <2> QED BY <1>1, <1>2, <2>1 DEF IInv, TypeOK
<1>4. RoutedRight'
  BY <1>1, <1>2 DEF RoutedRight, IInv
<1>5. JudgedRight'
  <2>1. ASSUME NEW x \in Requests, Judged(x)'
        PROVE  x # r /\ request'[x] = request[x] /\ Judged(x) /\ Under(x)' = Under(x)
    BY <1>2, <2>1 DEF Judged, Under
  <2> QED BY <1>1, <2>1 DEF IInv, JudgedRight
<1>6. RecordsCounted' /\ TrailFull' /\ ObservedRight'
  BY <1>1, <1>2, Undisturbed DEF At
<1> QED BY <1>3, <1>4, <1>5, <1>6 DEF IInv

LEMMA TrapKeepsInv ==
  ASSUME GuardAssumption, IInv, NEW r \in Requests, request[r] # Free, Trap(r)
  PROVE  IInv'
<1> DEFINE c == request[r].caller
           step == IF c \notin Remembered /\ trips'[c] # Absent THEN "decided" ELSE "answer"
<1>1. /\ request[r].step = "routed" /\ request[r].route = "trap"
      /\ RecordTrip(c) /\ Move(r, step, FALSE, "block")
      /\ UNCHANGED <<tenant, answers, newest, counters, trail, observed>>
  BY DEF Trap, At, On
<1>2. c \in Callers /\ request[r] \in Handled
  BY DEF IInv, TypeOK, Handled
<1>3. step \in {"routed", "decided", "logged", "counted", "answer"} /\ step \in {"decided", "answer"}
      /\ "block" \in Decisions
  BY DEF Decisions
<1> HIDE DEF c, step
<1>4. /\ request' \in [Requests -> Handled \cup {Free}]
      /\ \A x \in Requests \ {r} : request'[x] = request[x]
      /\ request'[r].step = step
  <2>1. Moved(r, step, FALSE, "block")
    BY <1>1, <1>3, MoveTypes
  <2> QED BY <2>1 DEF Moved
<1>5. TypeOK'
  <2>1. /\ trips' \in [Callers -> Absent .. TrapLife]
        /\ Cardinality(Remembered') <= MaxTrips
        /\ sinceSweep' \in 0 .. SweepEvery
    BY <1>1, <1>2, MemoryBounded DEF IInv
  <2> QED BY <1>1, <1>4, <2>1 DEF IInv, TypeOK
<1>6. RoutedRight' /\ JudgedRight'
  BY <1>1, <1>3, MoveKeepsRight
<1>7. RecordsCounted' /\ TrailFull' /\ ObservedRight'
  BY <1>1, <1>3, <1>4, Undisturbed
<1> QED BY <1>5, <1>6, <1>7 DEF IInv

LEMMA EvaluateKeepsInv ==
  ASSUME IInv, NEW r \in Requests, request[r] # Free, EvaluateSignals(r)
  PROVE  IInv'
<1> DEFINE tripped == Tripped(request[r].caller)
           d == DecisionOf(tenant, request[r], PolicyOf(request[r].version), tripped)
<1>1. /\ request[r].step = "routed" /\ request[r].route \in {"bot", "relief", "scored"}
      /\ Move(r, "decided", tripped, d)
      /\ UNCHANGED <<tenant, answers, newest, trips, sinceSweep, counters, trail, observed>>
  BY DEF EvaluateSignals, At, On
<1>2. tripped \in BOOLEAN
  BY DEF Tripped
<1>3. d \in Decisions
  BY <1>1, DecisionType
<1>4. d = DecisionOf(tenant, request[r], Under(r), tripped)
  BY DEF Under
<1> HIDE DEF tripped, d
<1>5. /\ request' \in [Requests -> Handled \cup {Free}]
      /\ \A x \in Requests \ {r} : request'[x] = request[x]
      /\ request'[r].step = "decided"
  <2>1. Moved(r, "decided", tripped, d)
    BY <1>1, <1>2, <1>3, MoveTypes
  <2> QED BY <2>1 DEF Moved
<1>6. TypeOK'
  <2>1. Remembered' = Remembered
    BY <1>1 DEF Remembered
  <2> QED BY <1>1, <1>5, <2>1 DEF IInv, TypeOK
<1>7. RoutedRight' /\ JudgedRight'
  BY <1>1, <1>2, <1>3, <1>4, MoveKeepsRight
<1>8. RecordsCounted' /\ TrailFull' /\ ObservedRight'
  BY <1>1, <1>5, Undisturbed
<1> QED BY <1>6, <1>7, <1>8 DEF IInv

\* Neither the provider, nor the clock, nor a stuttering step touches a
\* request, a counter or the trail.
LEMMA RestKeepsInv ==
  ASSUME IInv, TypeOK', UNCHANGED <<tenant, counters, trail, observed, request>>
  PROVE  IInv'
<1>1. RoutedRight' /\ JudgedRight'
  BY DEF IInv, RoutedRight, JudgedRight, Judged, Under
<1>2. RecordsCounted' /\ TrailFull' /\ ObservedRight'
  <2>1. ASSUME NEW step, NEW D PROVE Waiting(step, D)' = Waiting(step, D)
    BY DEF Waiting
  <2>2. ASSUME NEW d PROVE Places(trail, d)' = Places(trail, d)
    BY DEF Places
  <2>3. Recorded' = Recorded
    BY <2>1 DEF Recorded, Total
  <2> QED BY <2>1, <2>2, <2>3 DEF IInv, RecordsCounted, TrailFull, ObservedRight
<1> QED BY <1>1, <1>2 DEF IInv

LEMMA TickTypes ==
  ASSUME GuardAssumption, IInv, Tick
  PROVE  TypeOK'
<1>1. trips' \in [Callers -> Absent .. TrapLife]
  BY DEF Tick, IInv, TypeOK, GuardAssumption, Absent
<1>2. Remembered' = Remembered
  BY DEF Tick, IInv, TypeOK, GuardAssumption, Remembered, Absent
<1>3. sinceSweep' \in 0 .. SweepEvery
  BY DEF Tick, IInv, TypeOK, GuardAssumption
<1> QED BY <1>1, <1>2, <1>3 DEF Tick, IInv, TypeOK

\* The invariant holds at first and is kept by every step.
LEMMA InitInv == Init /\ GuardAssumption => IInv
<1> SUFFICES ASSUME Init, GuardAssumption PROVE IInv
  OBVIOUS
<1>1. Remembered = {}
  BY DEF Init, Remembered
<1>2. ASSUME NEW step, NEW D PROVE Waiting(step, D) = {}
  BY DEF Init, Waiting
<1>3. ASSUME NEW d PROVE Places(trail, d) = {}
  BY DEF Init, Places
<1>4. Cardinality({}) = 0
  BY FS_EmptySet
<1>5. TypeOK
  BY <1>1, <1>4 DEF Init, TypeOK, GuardAssumption, Absent
<1>6. RoutedRight /\ JudgedRight
  BY DEF Init, RoutedRight, JudgedRight, Judged
<1>7. RecordsCounted
  <2>1. ASSUME NEW d \in Decisions
        PROVE /\ Cardinality(Places(trail, Evidence(d))) = 0 /\ Cardinality(Waiting("counted", {d})) = 0
              /\ Cardinality(Waiting("logged", {d})) = 0 /\ counters[d] = 0
    BY <1>2, <1>3, <1>4 DEF Init
  <2> QED BY <2>1 DEF RecordsCounted
<1>8. TrailFull
  <2>1. Total = 0
    BY DEF Total, Init, Decisions
  <2>2. Recorded = 0
    <3>1. /\ Cardinality(Waiting("logged", Decisions)) = 0
          /\ Cardinality(Waiting("counted", Decisions)) = 0
      BY <1>2, <1>4
    <3> QED BY <2>1, <3>1 DEF Recorded, Init
  <2> QED BY <2>2 DEF TrailFull, Init, GuardAssumption
<1>9. ObservedRight
  <2>1. Cardinality(Places(trail, Observation)) = 0
    BY <1>3, <1>4
  <2>2. observed = 0
    BY DEF Init
  <2> QED BY <2>1, <2>2 DEF ObservedRight
<1> QED BY <1>5, <1>6, <1>7, <1>8, <1>9 DEF IInv

LEMMA NextInv == IInv /\ [Next]_vars /\ GuardAssumption => IInv'
<1> SUFFICES ASSUME IInv, [Next]_vars, GuardAssumption PROVE IInv'
  OBVIOUS
<1>1. ASSUME NEW r \in Requests, NEW c \in Callers, NEW visit \in Visits, Arrive(r, c, visit)
      PROVE  IInv'
  BY <1>1, ArriveKeepsInv
<1>2. ASSUME NEW r \in Requests, Handle(r) PROVE IInv'
  <2>1. ASSUME NEW step, At(r, step), step # "free" PROVE request[r] # Free
    BY <2>1 DEF At, Free
  <2>2. CASE Trap(r)
    BY <2>1, <2>2, TrapKeepsInv DEF Trap
  <2>3. CASE EvaluateSignals(r)
    BY <2>1, <2>3, EvaluateKeepsInv DEF EvaluateSignals
  <2>4. CASE Count(r)
    BY <2>1, <2>4, CountKeepsInv DEF Count
  <2>5. CASE Log(r)
    BY <2>1, <2>5, LogKeepsInv DEF Log
  <2>6. CASE Reply(r)
    BY <2>6, ReplyKeepsInv
  <2> QED BY <1>2, <2>2, <2>3, <2>4, <2>5, <2>6 DEF Handle
<1>3. ASSUME NEW v \in 0 .. Len(Policies), ProviderChanges(v) PROVE IInv'
  <2>1. Remembered' = Remembered
    BY <1>3 DEF ProviderChanges, Remembered
  <2>2. newest' \in {newest, v}
    BY <1>3 DEF ProviderChanges, Feed!FeedNext, Feed!Forget, Feed!Learn
  <2>3. TypeOK'
    BY <1>3, <2>1, <2>2 DEF ProviderChanges, IInv, TypeOK
  <2> QED BY <1>3, <2>3, RestKeepsInv DEF ProviderChanges
<1>4. CASE Tick
  BY <1>4, TickTypes, RestKeepsInv DEF Tick
<1>5. CASE ObserveSolve
  BY <1>5, ObserveKeepsInv
<1>6. CASE UNCHANGED vars
  <2>1. Remembered' = Remembered
    BY <1>6 DEF vars, Remembered
  <2>2. TypeOK'
    BY <1>6, <2>1 DEF vars, IInv, TypeOK
  <2> QED BY <1>6, <2>2, RestKeepsInv DEF vars
<1> QED BY <1>1, <1>2, <1>3, <1>4, <1>5, <1>6 DEF Next

THEOREM Invariant == Spec => []IInv
  BY InitInv, NextInv, GuardAssumption, PTL DEF Spec

-----------------------------------------------------------------------------
(* What follows from it. *)

\* Every variable keeps its type, and the trap's memory its bound.
THEOREM TypeCorrect == Spec => []TypeOK
<1>1. IInv => TypeOK
  BY DEF IInv
<1> QED BY <1>1, Invariant, PTL

\* A draft, a cleared or an expired policy changes no decision, whatever the
\* provider does while the request is under way.
THEOREM DraftsAreHarmless == Spec => []ShadowHarmless
<1>1. IInv => ShadowHarmless
  <2> SUFFICES ASSUME IInv, NEW r \in Requests, Judged(r), Under(r).mode # "enforce"
               PROVE  request[r].decision
                        = DecisionOf(tenant, request[r], NoPolicy, request[r].tripped)
    BY DEF ShadowHarmless
  <2>1. request[r].decision = DecisionOf(tenant, request[r], Under(r), request[r].tripped)
    BY DEF IInv, JudgedRight
  <2> QED BY <2>1, DraftDecidesNothing
<1> QED BY <1>1, Invariant, PTL

\* No rule and no solved challenge lets strong evidence through.
THEOREM HardEvidence == Spec => []HardEvidenceStops
<1>1. IInv /\ GuardAssumption => HardEvidenceStops
  <2> SUFFICES ASSUME IInv, GuardAssumption, NEW r \in Requests, Judged(r), tenant.enforced,
                      ~ request[r].visit.bot, request[r].caller \notin Under(r).allowlist,
                      Facts(request[r], Under(r), request[r].tripped).score >= HardBlock
               PROVE  Answer(request[r].decision) # "forward"
    BY DEF HardEvidenceStops
  <2> DEFINE q == request[r]
  <2>1. q \in Handled
    BY DEF Judged, IInv, TypeOK
  <2>2. q.route \in {"relief", "scored"}
    <3>1. q.route = RouteOf(tenant, q.visit) /\ q.route # "trap"
      BY DEF Judged, IInv, RoutedRight
    <3>2. q.route # "bot"
      <4>1. CASE q.visit.trap
        BY <3>1, <4>1 DEF RouteOf
      <4>2. CASE ~ q.visit.trap
        BY <3>1, <4>2 DEF RouteOf
      <4> QED BY <4>1, <4>2
    <3> QED BY <2>1, <3>1, <3>2 DEF Handled
  <2>3. Facts(q, Under(r), q.tripped).score \in Int
    <3> DEFINE fired == (IF Spikes(q.visit, Under(r)) THEN {"velocity_spike"} ELSE {})
                 \cup (IF q.tripped THEN {"honeypot_trap"} ELSE {})
    <3>1. IsFiniteSet({"velocity_spike", "honeypot_trap"})
      <4>1. IsFiniteSet({} \cup {"velocity_spike"})
        BY FS_EmptySet, FS_AddElement
      <4>2. IsFiniteSet(({} \cup {"velocity_spike"}) \cup {"honeypot_trap"})
        BY <4>1, FS_AddElement
      <4>3. ({} \cup {"velocity_spike"}) \cup {"honeypot_trap"} = {"velocity_spike", "honeypot_trap"}
        OBVIOUS
      <4> QED BY <4>2, <4>3
    <3>2. Cardinality(fired) \in Nat
      BY <3>1, FS_Subset, FS_CardinalityType
    <3>3. q.visit.score \in Nat
      BY <2>1 DEF Handled, GuardAssumption
    <3>4. Facts(q, Under(r), q.tripped).score = q.visit.score + 50 * Cardinality(fired)
      BY DEF Facts
    <3> HIDE DEF fired
    <3> QED BY <3>2, <3>3, <3>4
  <2>4. DecisionOf(tenant, q, Under(r), q.tripped) \in {"challenge", "block", "deceive", "rate_limit"}
    BY <2>2, <2>3, HardStaysHard
  <2>5. q.decision \in {"challenge", "block", "deceive", "rate_limit"}
    BY <2>4 DEF IInv, JudgedRight
  <2> QED BY <2>5 DEF Answer
<1> QED BY <1>1, Invariant, GuardAssumption, PTL

\* The dashboard's counters and its evidence agree when nothing is under way,
\* but for the solves that the challenge recorded (SetShadowRecorder).
THEOREM SourcesAgree == Spec => []CountersMatchTrail
<1>1. IInv => CountersMatchTrail
  <2> SUFFICES ASSUME IInv, InFlight = {}
               PROVE  /\ Len(trail) = IF Total + observed < TrailSize THEN Total + observed ELSE TrailSize
                      /\ \A d \in Decisions : Cardinality(Places(trail, Evidence(d))) <= counters[d]
                      /\ Cardinality(Places(trail, Observation)) <= observed
    BY DEF CountersMatchTrail, Places
  <2>1. ASSUME NEW step, NEW D PROVE Cardinality(Waiting(step, D)) = 0
    <3>1. Waiting(step, D) = {}
      BY DEF Waiting, InFlight
    <3> QED BY <3>1, FS_EmptySet
  <2>2. Total \in Nat /\ observed \in Nat
    BY DEF Total, Decisions, IInv, TypeOK
  <2>3. Recorded = Total + observed
    BY <2>1, <2>2 DEF Recorded
  <2>4. ASSUME NEW d \in Decisions PROVE Cardinality(Places(trail, Evidence(d))) <= counters[d]
    <3>1. Cardinality(Places(trail, Evidence(d))) \in Nat /\ counters[d] \in Nat
      BY PlacesFinite DEF IInv, TypeOK
    <3>2. Cardinality(Places(trail, Evidence(d))) + Cardinality(Waiting("counted", {d}))
            <= counters[d] + Cardinality(Waiting("logged", {d}))
      BY DEF IInv, RecordsCounted
    <3> QED BY <2>1, <3>1, <3>2
  <2> QED BY <2>3, <2>4 DEF IInv, TrailFull, ObservedRight
<1> QED BY <1>1, Invariant, PTL
=============================================================================
