------------------------- MODULE TenantPolicyProofs -------------------------
(***************************************************************************)
(* Proofs about TenantPolicy, for every set of nodes, handlers, users and  *)
(* documents and every value of the bounds.                                *)
(***************************************************************************)
EXTENDS TenantPolicy, SequenceTheorems, FiniteSetTheorems, TLAPS

(***************************************************************************)
(* The inductive invariant.  Versions have no gaps; a handler inside the   *)
(* transaction holds the row and, once it has checked, its expected        *)
(* version stays the latest; an activation carries the document of the     *)
(* shadow revision it measured; and what the nodes measured is honest.     *)
(***************************************************************************)
Contiguous == \E n \in Nat : DOMAIN revs = 1 .. n

InTransaction(h) == call[h].step \in {"check", "commit"}

\* A call that is about to write.
Writing(h) == call[h].step \in {"begin", "lock", "check", "commit"}

\* An activation past its first read.
Activating(h) ==
    /\ call[h].step = "measure" \/ Writing(h)
    /\ call[h].mode = "enforce"

\* It carries the document of the shadow revision it expects.
Candidate(h) ==
    /\ call[h].expected \in DOMAIN revs
    /\ revs[call[h].expected].mode = "shadow"
    /\ revs[call[h].expected].doc = call[h].doc

\* That revision was evaluated often enough and is old enough.
Measured(h) ==
    /\ observed[call[h].expected] >= MinEvaluated
    /\ IF call[h].step = "begin"
       THEN now - revs[call[h].expected].created >= MinSpan
       ELSE call[h].created - revs[call[h].expected].created >= MinSpan

CallOK(h) ==
    /\ At(h, "target") => call[h].mode = "shadow"
    /\ At(h, "latest") \/ At(h, "measure") => call[h].mode = "enforce"
    /\ InTransaction(h) => rowLock = h
    /\ Writing(h) => call[h].doc \in Docs
    /\ At(h, "commit") => call[h].expected = Latest
    /\ Activating(h) => Candidate(h)
    /\ (Activating(h) /\ Writing(h)) => Measured(h)

IInv ==
    /\ TypeOK
    /\ Contiguous
    /\ \A h \in Handlers : CallOK(h)
    /\ MeasurementsAreHonest
    /\ EnforcedWasMeasured
    /\ EnforcedAfterSoak

-----------------------------------------------------------------------------
(* Facts about the operators. *)

\* With no gaps, SELECT MAX(version) returns the number of revisions.
LEMMA LatestOfContiguous ==
    ASSUME NEW n \in Nat, DOMAIN revs = 1 .. n
    PROVE  Latest = n
<1>1. n \in DOMAIN revs \cup {0} /\ \A w \in DOMAIN revs : w <= n
  OBVIOUS
<1>2. \A v \in DOMAIN revs \cup {0} : (\A w \in DOMAIN revs : w <= v) => v = n
  OBVIOUS
<1> QED
  BY <1>1, <1>2 DEF Latest

\* Observe keeps a map of snapshots, adds no version but v, and leaves the
\* snapshots of the other versions it keeps as they were.
LEMMA ObserveShape ==
    ASSUME NEW s, NEW v \in Nat, NEW skipped \in BOOLEAN, NEW at \in Nat,
           s \in [DOMAIN s -> Snapshots]
    PROVE  LET o == Observe(s, v, skipped, at) IN
           /\ DOMAIN o \subseteq DOMAIN s \cup {v}
           /\ o \in [DOMAIN o -> Snapshots]
           /\ \A w \in DOMAIN o \ {v} : w \in DOMAIN s /\ o[w] = s[w]
           /\ v \in DOMAIN o =>
                LET old == IF v \in DOMAIN s THEN s[v] ELSE Fresh IN
                \/ o[v] = old
                \/ ~ skipped /\ o[v] = Counted(old, at)
<1> DEFINE old == IF v \in DOMAIN s THEN s[v] ELSE Fresh
           new == IF skipped THEN old ELSE Counted(old, at)
           D == Remaining(s, v) \cup {v}
           o == Observe(s, v, skipped, at)
<1>1. old \in Snapshots
  BY DEF Fresh, Snapshots
<1>2. Counted(old, at) \in Snapshots
  BY <1>1 DEF Counted, Snapshots
<1>3. new \in Snapshots
  BY <1>1, <1>2
<1>4. Remaining(s, v) \subseteq DOMAIN s
  BY DEF Remaining
<1>5. CASE Dropped(s, v)
  <2>1. o = s
    BY <1>5 DEF Observe
  <2> QED
    BY <2>1, <1>5 DEF Dropped
<1>6. CASE ~ Dropped(s, v)
  <2>1. o = [w \in D |-> IF w = v THEN new ELSE s[w]]
    BY <1>6 DEF Observe
  <2> HIDE DEF new, o
  <2>2. DOMAIN o = D /\ \A w \in D : o[w] = IF w = v THEN new ELSE s[w]
    BY <2>1
  <2>3. \A w \in D : o[w] \in Snapshots
    BY <2>2, <1>3, <1>4
  <2>4. o \in [DOMAIN o -> Snapshots]
    BY <2>1, <2>2, <2>3
  <2>5. v \in DOMAIN o => \/ o[v] = old
                          \/ ~ skipped /\ o[v] = Counted(old, at)
    BY <2>2 DEF new
  <2> QED
    BY <2>2, <2>4, <2>5, <1>4 DEF o
<1> QED
  BY <1>5, <1>6

-----------------------------------------------------------------------------
(* The invariant is inductive. *)

\* A step that only moves one handler, and takes or gives back no row but its
\* own, preserves the invariant when it preserves that handler's part.
LEMMA OneCallMoves ==
    ASSUME IInv, PolicyAssumption,
           NEW h \in Handlers, NEW c \in Calls \cup {Idle},
           call' = [call EXCEPT ![h] = c],
           UNCHANGED <<now, revs, stats, observed>>,
           \/ UNCHANGED rowLock
           \/ rowLock \in {h, NoHandler} /\ rowLock' \in {h, NoHandler},
           CallOK(h)'
    PROVE  IInv'
<1>1. TypeOK'
  BY DEF IInv, TypeOK
<1>2. Contiguous' /\ MeasurementsAreHonest' /\ EnforcedWasMeasured' /\ EnforcedAfterSoak'
  BY DEF IInv, Contiguous, MeasurementsAreHonest, EnforcedWasMeasured, EnforcedAfterSoak
<1>3. ASSUME NEW g \in Handlers, g # h PROVE CallOK(g)'
  <2>1. call'[g] = call[g]
    BY <1>3 DEF IInv, TypeOK
  <2>2. CallOK(g)
    BY DEF IInv
  <2>3. Latest' = Latest
    BY DEF Latest
  <2>4. InTransaction(g) => rowLock' = g
    BY <2>2, <1>3 DEF CallOK, PolicyAssumption
  <2> QED
    BY <2>1, <2>2, <2>3, <2>4
    DEF CallOK, InTransaction, Writing, Activating, Candidate, Measured, At
<1> QED
  BY <1>1, <1>2, <1>3 DEF IInv

LEMMA InitInv ==
    ASSUME StatsAssumption, PolicyAssumption
    PROVE  Init => IInv
<1> SUFFICES ASSUME Init PROVE IInv
  OBVIOUS
<1>1. DOMAIN revs = {} /\ \A n \in Nodes : DOMAIN stats[n] = {}
  BY DEF Init, NoStats
<1>2. TypeOK
  BY <1>1 DEF Init, TypeOK, Calls, Idle, NoStats
<1>3. Contiguous
  <2>1. DOMAIN revs = 1 .. 0
    BY <1>1
  <2> QED
    BY <2>1 DEF Contiguous
<1>4. \A h \in Handlers : CallOK(h)
  BY DEF Init, CallOK, Idle, InTransaction, Writing, Activating, At
<1> QED
  BY <1>1, <1>2, <1>3, <1>4
  DEF IInv, MeasurementsAreHonest, EnforcedWasMeasured, EnforcedAfterSoak

\* The bookkeeping of one handler: what OneCallMoves needs of c.
LEMMA NewCallInv ==
    ASSUME IInv, StatsAssumption, PolicyAssumption, NEW h \in Handlers, NewCall(h)
    PROVE  IInv'
<1>1. PICK n \in Nodes, u \in Users, expected \in 0 .. MaxRevisions :
        \/ \E d \in Docs, m \in Modes : Put(h, n, u, expected, d, m)
        \/ Rollback(h, n, u, expected)
        \/ Activate(h, n, u, expected)
  BY DEF NewCall
<1>2. ASSUME NEW s \in Steps, NEW d \in Docs \cup {NoDoc}, NEW m \in Modes,
             Start(h, n, u, s, expected, d, m),
             \/ s = "begin" /\ d \in Docs /\ m = "shadow"
             \/ s = "target" /\ m = "shadow"
             \/ s = "latest" /\ m = "enforce"
      PROVE  IInv'
  <2> DEFINE c == [step |-> s, node |-> n, user |-> u, expected |-> expected,
                   doc |-> d, mode |-> m, created |-> 0]
  <2>1. c \in Calls
    BY DEF Calls, PolicyAssumption
  <2>2. call' = [call EXCEPT ![h] = c] /\ UNCHANGED <<now, revs, rowLock, stats, observed>>
    BY <1>2 DEF Start
  <2>3. call'[h] = c
    BY <2>2 DEF IInv, TypeOK
  <2>4. CallOK(h)'
    BY <2>3, <1>2 DEF CallOK, InTransaction, Writing, Activating, At
  <2> HIDE DEF c
  <2> QED
    BY <2>1, <2>2, <2>4, OneCallMoves
<1>3. "begin" \in Steps /\ "target" \in Steps /\ "latest" \in Steps
      /\ "shadow" \in Modes /\ "enforce" \in Modes
  BY DEF Steps, Modes
<1> QED
  BY <1>1, <1>2, <1>3 DEF Put, Rollback, Activate

\* A call that ends, keeping or giving back the row, leaves nothing to hold.
LEMMA ReturnInv ==
    ASSUME IInv, PolicyAssumption, NEW h \in Handlers, Return(h),
           Unlock(h) \/ UNCHANGED rowLock,
           UNCHANGED <<now, revs, stats, observed>>
    PROVE  IInv'
<1>1. call'[h] = Idle
  BY DEF Return, IInv, TypeOK
<1>2. CallOK(h)'
  BY <1>1 DEF CallOK, InTransaction, Writing, Activating, At, Idle
<1>3. \/ UNCHANGED rowLock
      \/ rowLock \in {h, NoHandler} /\ rowLock' \in {h, NoHandler}
  BY DEF Unlock
<1> QED
  BY <1>2, <1>3, OneCallMoves DEF Return

\* A call that moves on to step s of the same call, with a new document or
\* creation time, is a call.
LEMMA CallMoves ==
    ASSUME TypeOK, PolicyAssumption, NEW h \in Handlers, call[h] # Idle,
           NEW s \in Steps, NEW d \in Docs \cup {NoDoc}, NEW t \in Nat
    PROVE  /\ [call[h] EXCEPT !.step = s] \in Calls
           /\ [call[h] EXCEPT !.step = s, !.created = t] \in Calls
           /\ [call[h] EXCEPT !.doc = d, !.step = s] \in Calls
<1>1. call[h] \in Calls
  BY DEF TypeOK
<1> QED
  BY <1>1 DEF Calls

LEMMA ReadsInv ==
    ASSUME IInv, PolicyAssumption, NEW h \in Handlers,
           (\E target \in 0 .. MaxRevisions : ReadTarget(h, target)) \/ ReadLatest(h)
    PROVE  IInv'
<1> USE DEF At
<1>1. call[h] \in Calls /\ call[h] # Idle
  BY DEF IInv, TypeOK, ReadTarget, ReadLatest, Idle
<1>2. CASE Return(h) /\ UNCHANGED <<now, revs, rowLock, stats, observed>>
  BY <1>2, ReturnInv
<1>3. ASSUME NEW target \in 0 .. MaxRevisions, ReadTarget(h, target), ~ Return(h)
      PROVE  IInv'
  <2> DEFINE c == [call[h] EXCEPT !.doc = revs[target].doc, !.step = "begin"]
  <2>1. revs[target].doc \in Docs
    BY <1>3 DEF ReadTarget, IInv, TypeOK, Rows
  <2>2. c \in Calls
    BY <1>1, <2>1, CallMoves DEF Steps, IInv
  <2>3. call' = [call EXCEPT ![h] = c]
    BY <1>3 DEF ReadTarget
  <2>4. call'[h] = c
    BY <2>3 DEF IInv, TypeOK
  <2>5. c.step = "begin" /\ c.doc \in Docs /\ c.mode = call[h].mode
    BY <1>1, <2>1 DEF Calls
  <2>6. call[h].mode = "shadow"
    BY <1>3 DEF IInv, CallOK, ReadTarget
  <2>7. CallOK(h)'
    BY <2>4, <2>5, <2>6 DEF CallOK, InTransaction, Writing, Activating
  <2> HIDE DEF c
  <2> QED
    BY <2>2, <2>3, <2>7, <1>3, OneCallMoves DEF ReadTarget
<1>4. ASSUME ReadLatest(h), ~ Return(h)
      PROVE  IInv'
  <2> DEFINE c == [call[h] EXCEPT !.doc = revs[Latest].doc, !.step = "measure"]
  <2>1. Latest \in DOMAIN revs /\ call[h].expected = Latest /\ revs[Latest].mode = "shadow"
    <3>1. PICK n \in Nat : DOMAIN revs = 1 .. n
      BY DEF IInv, Contiguous
    <3>2. Latest = n
      BY <3>1, LatestOfContiguous
    <3> QED
      BY <3>1, <3>2, <1>4 DEF ReadLatest
  <2>2. revs[Latest].doc \in Docs
    BY <2>1 DEF IInv, TypeOK, Rows
  <2>3. c \in Calls
    BY <1>1, <2>2, CallMoves DEF Steps, IInv
  <2>4. call' = [call EXCEPT ![h] = c]
    BY <1>4 DEF ReadLatest
  <2>5. call'[h] = c
    BY <2>4 DEF IInv, TypeOK
  <2>6. c.step = "measure" /\ c.doc = revs[Latest].doc /\ c.expected = Latest
        /\ c.mode = "enforce"
    BY <1>1, <2>1, <1>4 DEF Calls, IInv, CallOK, ReadLatest
  <2>7. UNCHANGED revs
    BY <1>4 DEF ReadLatest
  <2>8. CallOK(h)'
    BY <2>1, <2>5, <2>6, <2>7
    DEF CallOK, InTransaction, Writing, Activating, Candidate
  <2> HIDE DEF c
  <2> QED
    BY <2>3, <2>4, <2>8, <1>4, OneCallMoves DEF ReadLatest
<1> QED
  BY <1>2, <1>3, <1>4 DEF ReadTarget, ReadLatest

\* The heart of the matter: an honest measurement that is ready says that the
\* candidate was evaluated MinEvaluated times and stored MinSpan ago.
LEMMA MeasureInv ==
    ASSUME IInv, StatsAssumption, PolicyAssumption, NEW h \in Handlers,
           NEW t \in RecentTimes, NEW loaded \in BOOLEAN, Measure(h, t, loaded)
    PROVE  IInv'
<1> USE DEF At
<1> DEFINE e == call[h].expected
           s == stats[call[h].node]
           c == [call[h] EXCEPT !.step = "begin"]
<1>1. call[h] \in Calls /\ call[h] # Idle /\ call[h].step = "measure"
  BY DEF IInv, TypeOK, Measure, Idle
<1>2. CASE Return(h)
  BY <1>2, ReturnInv DEF Measure
<1>3. CASE ~ Return(h)
  <2>1. Ready(s, e, t) /\ Goto(h, "begin")
    BY <1>3 DEF Measure
  <2>2. call' = [call EXCEPT ![h] = c]
    BY <2>1 DEF Goto
  <2>3. c \in Calls
    BY <1>1, CallMoves DEF Steps, IInv
  <2>4. call'[h] = c /\ c.step = "begin" /\ c.expected = e
        /\ c.mode = call[h].mode /\ c.doc = call[h].doc
    BY <2>2, <1>1 DEF IInv, TypeOK, Calls
  <2>5. e \in DOMAIN s /\ s[e] \in Snapshots /\ revs[e] \in Rows
    BY <2>1, <1>1 DEF Ready, IInv, TypeOK, Calls
  <2>6. /\ s[e].evaluated <= observed[e]
        /\ s[e].evaluated > 0 => s[e].first >= revs[e].created
    BY <2>5, <1>1 DEF IInv, MeasurementsAreHonest, Calls, Snapshots, Rows
  <2>7. s[e].evaluated \in Nat /\ s[e].first \in Nat /\ revs[e].created \in Nat
        /\ observed[e] \in Nat /\ now \in Nat /\ t \in Nat /\ t <= now
    BY <2>5, <1>1 DEF Snapshots, Rows, IInv, TypeOK, RecentTimes, Calls
  <2>8. observed[e] >= MinEvaluated /\ now - revs[e].created >= MinSpan
    BY <2>1, <2>6, <2>7 DEF Ready, StatsAssumption
  <2>9. Candidate(h) /\ call[h].doc \in Docs
    BY <1>1, <2>5 DEF IInv, CallOK, Activating, Candidate, Rows
  <2>10. UNCHANGED <<now, revs, rowLock, stats, observed>>
    BY DEF Measure
  <2>11. CallOK(h)'
    BY <2>4, <2>8, <2>9, <2>10
    DEF CallOK, InTransaction, Writing, Activating, Candidate, Measured
  <2> HIDE DEF c
  <2> QED
    BY <2>2, <2>3, <2>10, <2>11, OneCallMoves
<1> QED
  BY <1>2, <1>3

LEMMA BeginTxInv ==
    ASSUME IInv, PolicyAssumption, NEW h \in Handlers, BeginTx(h)
    PROVE  IInv'
<1> USE DEF At
<1> DEFINE c == [call[h] EXCEPT !.step = "lock", !.created = now]
<1>1. call[h] \in Calls /\ call[h] # Idle /\ call[h].step = "begin" /\ now \in Nat
  BY DEF IInv, TypeOK, BeginTx, Idle
<1>2. c \in Calls
  BY <1>1, CallMoves DEF Steps, IInv
<1>3. call' = [call EXCEPT ![h] = c]
  BY DEF BeginTx
<1>4. call'[h] = c /\ c.step = "lock" /\ c.created = now /\ c.expected = call[h].expected
      /\ c.mode = call[h].mode /\ c.doc = call[h].doc
  BY <1>1, <1>3 DEF IInv, TypeOK, Calls
<1>5. UNCHANGED <<now, revs, rowLock, stats, observed>>
  BY DEF BeginTx
<1>6. CallOK(h)
  BY DEF IInv
<1>7. CallOK(h)'
  BY <1>1, <1>4, <1>5, <1>6
  DEF CallOK, InTransaction, Writing, Activating, Candidate, Measured
<1> HIDE DEF c
<1> QED
  BY <1>2, <1>3, <1>5, <1>7, OneCallMoves

\* Taking the row: nobody else held it.
LEMMA LockTenantInv ==
    ASSUME IInv, PolicyAssumption, NEW h \in Handlers, LockTenant(h)
    PROVE  IInv'
<1> USE DEF At
<1> DEFINE c == [call[h] EXCEPT !.step = "check"]
<1>1. call[h] \in Calls /\ call[h] # Idle /\ call[h].step = "lock"
  BY DEF IInv, TypeOK, LockTenant, Idle
<1>2. CASE Return(h) /\ UNCHANGED rowLock
  BY <1>2, ReturnInv DEF LockTenant
<1>3. CASE rowLock = NoHandler /\ rowLock' = h /\ Goto(h, "check")
  <2>1. c \in Calls
    BY <1>1, CallMoves DEF Steps, IInv
  <2>2. call' = [call EXCEPT ![h] = c]
    BY <1>3 DEF Goto
  <2>3. call'[h] = c /\ c.step = "check" /\ c.created = call[h].created
        /\ c.expected = call[h].expected /\ c.mode = call[h].mode /\ c.doc = call[h].doc
    BY <1>1, <2>2 DEF IInv, TypeOK, Calls
  <2>4. UNCHANGED <<now, revs, stats, observed>>
    BY DEF LockTenant
  <2>5. CallOK(h)
    BY DEF IInv
  <2>6. CallOK(h)'
    BY <1>1, <1>3, <2>3, <2>4, <2>5
    DEF CallOK, InTransaction, Writing, Activating, Candidate, Measured
  <2> HIDE DEF c
  <2> QED
    BY <2>1, <2>2, <2>4, <2>6, <1>3, OneCallMoves
<1> QED
  BY <1>2, <1>3 DEF LockTenant

\* A check that passes finds the expected version to be the latest.
LEMMA CheckVersionInv ==
    ASSUME IInv, PolicyAssumption, NEW h \in Handlers, CheckVersion(h)
    PROVE  IInv'
<1> USE DEF At
<1> DEFINE c == [call[h] EXCEPT !.step = "commit"]
<1>1. call[h] \in Calls /\ call[h] # Idle /\ call[h].step = "check"
  BY DEF IInv, TypeOK, CheckVersion, Idle
<1>2. CASE Return(h) /\ Unlock(h)
  BY <1>2, ReturnInv DEF CheckVersion
<1>3. CASE Latest = call[h].expected /\ Goto(h, "commit") /\ UNCHANGED rowLock
  <2>1. c \in Calls
    BY <1>1, CallMoves DEF Steps, IInv
  <2>2. call' = [call EXCEPT ![h] = c]
    BY <1>3 DEF Goto
  <2>3. call'[h] = c /\ c.step = "commit" /\ c.created = call[h].created
        /\ c.expected = call[h].expected /\ c.mode = call[h].mode /\ c.doc = call[h].doc
    BY <1>1, <2>2 DEF IInv, TypeOK, Calls
  <2>4. UNCHANGED <<now, revs, stats, observed>>
    BY DEF CheckVersion
  <2>5. CallOK(h)
    BY DEF IInv
  <2>6. Latest' = Latest
    BY <2>4 DEF Latest
  <2>7. CallOK(h)'
    BY <1>1, <1>3, <2>3, <2>4, <2>5, <2>6
    DEF CallOK, InTransaction, Writing, Activating, Candidate, Measured
  <2> HIDE DEF c
  <2> QED
    BY <2>1, <2>2, <2>4, <2>7, <1>3, OneCallMoves
<1> QED
  BY <1>2, <1>3 DEF CheckVersion

\* What a commit does to the table: one row more, at the next version.
LEMMA CommitAppends ==
    ASSUME IInv, NEW h \in Handlers, NEW acked \in BOOLEAN, Commit(h, acked)
    PROVE  \E n \in Nat :
              /\ DOMAIN revs = 1 .. n
              /\ call[h].expected = n
              /\ n + 1 \in Versions
              /\ DOMAIN revs' = 1 .. n + 1
              /\ \A w \in DOMAIN revs : revs'[w] = revs[w]
              /\ revs'[n + 1] = [doc |-> call[h].doc, mode |-> call[h].mode,
                                 actor |-> call[h].user, created |-> call[h].created]
<1>1. PICK n \in Nat : DOMAIN revs = 1 .. n
  BY DEF IInv, Contiguous
<1>2. Latest = n
  BY <1>1, LatestOfContiguous
<1>3. call[h].expected = n
  BY <1>2 DEF IInv, CallOK, Commit, At
<1>4. DOMAIN revs \cup {n + 1} = 1 .. n + 1
  BY <1>1
<1>5. n + 1 \in Versions /\ n + 1 \notin DOMAIN revs
  BY <1>3 DEF Commit
<1> QED
  BY <1>1, <1>3, <1>4, <1>5 DEF Commit

LEMMA CommitInv ==
    ASSUME IInv, StatsAssumption, PolicyAssumption, NEW h \in Handlers,
           NEW acked \in BOOLEAN, Commit(h, acked)
    PROVE  IInv'
<1> USE DEF At
<1> DEFINE v == call[h].expected + 1
           row == [doc |-> call[h].doc, mode |-> call[h].mode,
                   actor |-> call[h].user, created |-> call[h].created]
<1>1. PICK n \in Nat :
        /\ DOMAIN revs = 1 .. n
        /\ call[h].expected = n
        /\ n + 1 \in Versions
        /\ DOMAIN revs' = 1 .. n + 1
        /\ \A w \in DOMAIN revs : revs'[w] = revs[w]
        /\ revs'[n + 1] = row
  BY CommitAppends
<1>2. call[h] \in Calls /\ call[h].step = "commit" /\ CallOK(h) /\ call[h].doc \in Docs
  BY DEF Commit, IInv, TypeOK, Idle, CallOK, Writing
<1>3. row \in Rows
  BY <1>2 DEF Calls, Rows
<1>4. UNCHANGED <<now, stats, observed>>
  BY DEF Commit
<1>5. rowLock = h /\ rowLock' = NoHandler
  BY <1>2 DEF CallOK, InTransaction, Commit, Unlock
<1>6. PICK c \in Calls \cup {Idle} :
        /\ call' = [call EXCEPT ![h] = c]
        /\ c.step \in {"idle", "invalidate"}
  <2> DEFINE moved == [call[h] EXCEPT !.step = "invalidate"]
  <2>1. moved \in Calls /\ moved.step = "invalidate"
    BY <1>2 DEF Calls, Steps
  <2>2. call' = [call EXCEPT ![h] = moved] \/ call' = [call EXCEPT ![h] = Idle]
    BY DEF Commit, Goto, Return
  <2> HIDE DEF moved
  <2> QED
    BY <2>1, <2>2 DEF Idle
<1>7. TypeOK'
  <2>1. revs' \in [DOMAIN revs' -> Rows]
    <3>1. revs' = [w \in DOMAIN revs \cup {v} |-> IF w = v THEN row ELSE revs[w]]
      BY DEF Commit
    <3>2. \A w \in DOMAIN revs' : revs'[w] \in Rows
      BY <1>1, <1>3 DEF IInv, TypeOK
    <3> HIDE DEF v, row
    <3> QED
      BY <3>1, <3>2
  <2>2. DOMAIN revs' \subseteq Versions
    BY <1>1 DEF IInv, TypeOK, Versions
  <2>3. call' \in [Handlers -> Calls \cup {Idle}]
    BY <1>6 DEF IInv, TypeOK
  <2>4. \A m \in Nodes :
          /\ DOMAIN stats'[m] \subseteq DOMAIN revs'
          /\ stats'[m] \in [DOMAIN stats'[m] -> Snapshots]
    BY <1>1, <1>4 DEF IInv, TypeOK
  <2> QED
    BY <1>4, <1>5, <2>1, <2>2, <2>3, <2>4, PolicyAssumption DEF IInv, TypeOK
<1>8. Contiguous'
  BY <1>1 DEF Contiguous
<1>9. ASSUME NEW g \in Handlers PROVE CallOK(g)'
  <2>1. CASE g = h
    <3>1. call'[h].step \in {"idle", "invalidate"}
      BY <1>6 DEF IInv, TypeOK
    <3> QED
      BY <2>1, <3>1 DEF CallOK, InTransaction, Writing, Activating
  <2>2. CASE g # h
    <3>1. call'[g] = call[g] /\ CallOK(g)
      BY <1>6, <2>2 DEF IInv, TypeOK
    <3>2. ~ InTransaction(g)
      BY <3>1, <1>5, <2>2 DEF CallOK
    <3>3. Candidate(g) => Candidate(g)'
      BY <3>1, <1>1 DEF Candidate
    <3>4. (Candidate(g) /\ Measured(g)) => Measured(g)'
      BY <3>1, <1>1, <1>4 DEF Candidate, Measured
    <3> QED
      BY <3>1, <3>2, <3>3, <3>4
      DEF CallOK, InTransaction, Writing, Activating
  <2> QED
    BY <2>1, <2>2
<1>10. MeasurementsAreHonest'
  BY <1>1, <1>4 DEF IInv, TypeOK, MeasurementsAreHonest
<1>11. call[h].mode = "enforce" =>
          /\ n \in DOMAIN revs
          /\ revs[n].mode = "shadow"
          /\ revs[n].doc = call[h].doc
          /\ observed[n] >= MinEvaluated
          /\ call[h].created - revs[n].created >= MinSpan
  BY <1>1, <1>2 DEF CallOK, Activating, Writing, Candidate, Measured
<1>12. EnforcedWasMeasured'
  <2> SUFFICES ASSUME NEW w \in DOMAIN revs', revs'[w].mode = "enforce"
               PROVE  /\ w - 1 \in DOMAIN revs'
                      /\ revs'[w - 1].mode = "shadow"
                      /\ revs'[w - 1].doc = revs'[w].doc
                      /\ observed'[w - 1] >= MinEvaluated
    BY DEF EnforcedWasMeasured
  <2>1. CASE w = n + 1
    BY <2>1, <1>1, <1>4, <1>11
  <2>2. CASE w # n + 1
    <3>1. w \in DOMAIN revs /\ revs'[w] = revs[w]
      BY <2>2, <1>1
    <3> QED
      BY <3>1, <1>1, <1>4 DEF IInv, EnforcedWasMeasured
  <2> QED
    BY <2>1, <2>2
<1>13. EnforcedAfterSoak'
  <2> SUFFICES ASSUME NEW w \in DOMAIN revs', revs'[w].mode = "enforce",
                      w - 1 \in DOMAIN revs'
               PROVE  revs'[w].created - revs'[w - 1].created >= MinSpan
    BY DEF EnforcedAfterSoak
  <2>1. CASE w = n + 1
    BY <2>1, <1>1, <1>11
  <2>2. CASE w # n + 1
    <3>1. w \in DOMAIN revs /\ w - 1 \in DOMAIN revs
      BY <2>2, <1>1
    <3> QED
      BY <3>1, <1>1 DEF IInv, EnforcedAfterSoak
  <2> QED
    BY <2>1, <2>2
<1> QED
  BY <1>7, <1>8, <1>9, <1>10, <1>12, <1>13 DEF IInv

LEMMA FailInv ==
    ASSUME IInv, PolicyAssumption, NEW h \in Handlers, Fail(h)
    PROVE  IInv'
BY ReturnInv DEF Fail

LEMMA InvalidateInv ==
    ASSUME IInv, PolicyAssumption, NEW h \in Handlers, Invalidate(h)
    PROVE  IInv'
BY ReturnInv DEF Invalidate

\* An observation, on time or late, keeps every measurement honest.
LEMMA ObservedInv ==
    ASSUME IInv, StatsAssumption, PolicyAssumption, NEW n \in Nodes,
           NEW v \in Versions, NEW t \in RecentTimes, NEW skipped \in BOOLEAN,
           Observed(n, v, t, skipped)
    PROVE  IInv'
<1> DEFINE s == stats[n]
           o == Observe(s, v, skipped, t)
<1>1. /\ s \in [DOMAIN s -> Snapshots] /\ DOMAIN s \subseteq DOMAIN revs
      /\ v \in Nat /\ t \in Nat /\ t >= 1 /\ t <= now
      /\ v \in DOMAIN revs /\ revs[v].mode = "shadow" /\ revs[v] \in Rows
      /\ t >= revs[v].created
  BY DEF IInv, TypeOK, Versions, RecentTimes, Observed
<1>2. /\ DOMAIN o \subseteq DOMAIN s \cup {v}
      /\ o \in [DOMAIN o -> Snapshots]
      /\ \A w \in DOMAIN o \ {v} : w \in DOMAIN s /\ o[w] = s[w]
      /\ v \in DOMAIN o =>
            LET old == IF v \in DOMAIN s THEN s[v] ELSE Fresh IN
            \/ o[v] = old
            \/ ~ skipped /\ o[v] = Counted(old, t)
  BY <1>1, ObserveShape
<1> HIDE DEF o
<1>3. UNCHANGED <<now, revs, rowLock, call>> /\ stats' = [stats EXCEPT ![n] = o]
  BY DEF Observed, o
<1>4. /\ observed' \in [Versions -> Nat]
      /\ \A w \in Versions : observed'[w] >= observed[w]
      /\ ~ skipped => observed'[v] = observed[v] + 1
  BY DEF Observed, IInv, TypeOK
<1>5. TypeOK'
  <2>1. \A m \in Nodes :
          /\ DOMAIN stats'[m] \subseteq DOMAIN revs'
          /\ stats'[m] \in [DOMAIN stats'[m] -> Snapshots]
    BY <1>1, <1>2, <1>3 DEF IInv, TypeOK
  <2> QED
    BY <2>1, <1>3, <1>4 DEF IInv, TypeOK
<1>6. \A h \in Handlers : CallOK(h)'
  <2> SUFFICES ASSUME NEW h \in Handlers PROVE CallOK(h)'
    OBVIOUS
  <2>1. CallOK(h) /\ Latest' = Latest
    BY <1>3 DEF IInv, Latest
  <2>2. (Candidate(h) /\ Measured(h)) => Measured(h)'
    <3> SUFFICES ASSUME Candidate(h), Measured(h) PROVE Measured(h)'
      OBVIOUS
    <3>1. call[h].expected \in Versions
      BY DEF Candidate, IInv, TypeOK
    <3>2. observed'[call[h].expected] >= MinEvaluated
      BY <3>1, <1>4, StatsAssumption DEF Measured, IInv, TypeOK
    <3> QED
      BY <3>2, <1>3 DEF Measured
  <2> QED
    BY <2>1, <2>2, <1>3
    DEF CallOK, InTransaction, Writing, Activating, Candidate, At
<1>7. MeasurementsAreHonest'
  <2> SUFFICES ASSUME NEW m \in Nodes, NEW w \in DOMAIN stats'[m]
               PROVE  LET snap == stats'[m][w] IN
                      /\ revs[w].mode = "shadow"
                      /\ snap.evaluated <= observed'[w]
                      /\ snap.evaluated = 0 => snap.first = 0 /\ snap.last = 0
                      /\ snap.evaluated > 0 =>
                           snap.first \in revs[w].created .. snap.last /\ snap.last <= now
    BY <1>3 DEF MeasurementsAreHonest
  <2>0. stats'[n] = o /\ (m # n => stats'[m] = stats[m])
    BY <1>3 DEF IInv, TypeOK
  <2>1. CASE m # n \/ w # v
    <3>1. w \in DOMAIN stats[m] /\ stats'[m][w] = stats[m][w]
      BY <2>0, <2>1, <1>2
    <3>2. w \in Versions /\ stats[m][w] \in Snapshots
      BY <3>1 DEF IInv, TypeOK
    <3>3. observed[w] \in Nat /\ observed'[w] \in Nat /\ observed'[w] >= observed[w]
      BY <3>2, <1>4 DEF IInv, TypeOK
    <3> QED
      BY <3>1, <3>2, <3>3 DEF IInv, MeasurementsAreHonest, Snapshots
  <2>2. CASE m = n /\ w = v
    <3> DEFINE old == IF v \in DOMAIN s THEN s[v] ELSE Fresh
    <3>1. old \in Snapshots
      BY <1>1 DEF Fresh, Snapshots
    <3>2. /\ old.evaluated <= observed[v]
          /\ old.evaluated = 0 => old.first = 0 /\ old.last = 0
          /\ old.evaluated > 0 =>
                old.first \in revs[v].created .. old.last /\ old.last <= now
      <4>1. CASE v \in DOMAIN s
        BY <4>1 DEF IInv, MeasurementsAreHonest
      <4>2. CASE v \notin DOMAIN s
        BY <4>2, <1>1 DEF Fresh, IInv, TypeOK
      <4> QED
        BY <4>1, <4>2
    <3> HIDE DEF old
    <3>3. observed[v] \in Nat /\ observed'[v] \in Nat /\ observed'[v] >= observed[v]
          /\ revs[v].created \in Nat /\ now \in Nat
      BY <1>1, <1>4 DEF IInv, TypeOK, Rows
    <3>4. CASE o[v] = old
      BY <3>1, <3>2, <3>3, <3>4, <2>0, <2>2, <1>1 DEF Snapshots
    <3>5. CASE ~ skipped /\ o[v] = Counted(old, t)
      <4>1. o[v].evaluated <= observed'[v]
        BY <3>1, <3>2, <3>3, <3>5, <1>4 DEF Snapshots, Counted
      <4>2. o[v].first \in revs[v].created .. o[v].last /\ o[v].last <= now
        BY <3>1, <3>2, <3>3, <3>5, <1>1 DEF Snapshots, Counted
      <4>3. o[v].evaluated # 0
        BY <3>1, <3>5 DEF Snapshots, Counted
      <4> QED
        BY <4>1, <4>2, <4>3, <2>0, <2>2, <1>1
    <3> QED
      BY <3>4, <3>5, <2>0, <2>2, <1>2 DEF old
  <2> QED
    BY <2>1, <2>2
<1>8. EnforcedWasMeasured'
  <2> SUFFICES ASSUME NEW w \in DOMAIN revs, revs[w].mode = "enforce"
               PROVE  observed'[w - 1] >= MinEvaluated
    BY <1>3 DEF IInv, EnforcedWasMeasured
  <2>1. w - 1 \in Versions /\ observed[w - 1] >= MinEvaluated
    BY DEF IInv, EnforcedWasMeasured, TypeOK
  <2> QED
    BY <2>1, <1>4, StatsAssumption DEF IInv, TypeOK
<1>9. EnforcedAfterSoak' /\ Contiguous'
  BY <1>3 DEF IInv, EnforcedAfterSoak, Contiguous
<1> QED
  BY <1>5, <1>6, <1>7, <1>8, <1>9 DEF IInv

\* Time only adds to a candidate's age.
LEMMA TickInv ==
    ASSUME IInv, StatsAssumption, PolicyAssumption, Tick
    PROVE  IInv'
<1>1. now' = now + 1 /\ now \in Nat /\ UNCHANGED <<revs, rowLock, call, stats, observed>>
  BY DEF Tick, IInv, TypeOK
<1>2. TypeOK' /\ Contiguous' /\ EnforcedWasMeasured' /\ EnforcedAfterSoak'
  BY <1>1 DEF IInv, TypeOK, Contiguous, EnforcedWasMeasured, EnforcedAfterSoak
<1>3. MeasurementsAreHonest'
  <2> SUFFICES ASSUME NEW n \in Nodes, NEW v \in DOMAIN stats[n],
                      stats[n][v].evaluated > 0
               PROVE  stats[n][v].last <= now'
    BY <1>1 DEF IInv, MeasurementsAreHonest
  <2>1. stats[n][v].last \in Nat /\ stats[n][v].last <= now
    BY DEF IInv, TypeOK, Snapshots, MeasurementsAreHonest
  <2> QED
    BY <2>1, <1>1
<1>4. \A h \in Handlers : CallOK(h)'
  <2> SUFFICES ASSUME NEW h \in Handlers PROVE CallOK(h)'
    OBVIOUS
  <2>1. CallOK(h) /\ Latest' = Latest
    BY <1>1 DEF IInv, Latest
  <2>2. (Candidate(h) /\ Measured(h)) => Measured(h)'
    <3> SUFFICES ASSUME Candidate(h), Measured(h) PROVE Measured(h)'
      OBVIOUS
    <3>1. revs[call[h].expected].created \in Nat
      BY DEF Candidate, IInv, TypeOK, Rows
    <3> QED
      BY <3>1, <1>1, StatsAssumption DEF Measured
  <2> QED
    BY <2>1, <2>2, <1>1
    DEF CallOK, InTransaction, Writing, Activating, Candidate, At
<1> QED
  BY <1>2, <1>3, <1>4 DEF IInv

LEMMA ReplaceInv ==
    ASSUME IInv, PolicyAssumption, NEW n \in Nodes, Replace(n)
    PROVE  IInv'
<1>1. /\ stats' = [stats EXCEPT ![n] = NoStats]
      /\ UNCHANGED <<now, revs, rowLock, call, observed>>
  BY DEF Replace
<1>2. DOMAIN NoStats = {} /\ NoStats \in [DOMAIN NoStats -> Snapshots]
  BY DEF NoStats
<1>3. TypeOK'
  BY <1>1, <1>2 DEF IInv, TypeOK
<1>4. Contiguous' /\ EnforcedWasMeasured' /\ EnforcedAfterSoak'
  BY <1>1 DEF IInv, Contiguous, EnforcedWasMeasured, EnforcedAfterSoak
<1>5. MeasurementsAreHonest'
  BY <1>1, <1>2 DEF IInv, TypeOK, MeasurementsAreHonest
<1>6. \A h \in Handlers : CallOK(h)'
  <2>1. Latest' = Latest
    BY <1>1 DEF Latest
  <2> QED
    BY <1>1, <2>1 DEF IInv, CallOK, InTransaction, Writing, Activating, Candidate, Measured, At
<1> QED
  BY <1>3, <1>4, <1>5, <1>6 DEF IInv

LEMMA CrashInv ==
    ASSUME IInv, PolicyAssumption, NEW n \in Nodes, Crash(n)
    PROVE  IInv'
<1> DEFINE Lost == {h \in Handlers : call[h] # Idle /\ call[h].node = n}
<1>1. /\ call' = [h \in Handlers |-> IF h \in Lost THEN Idle ELSE call[h]]
      /\ rowLock' = IF rowLock \in Lost THEN NoHandler ELSE rowLock
      /\ stats' = [stats EXCEPT ![n] = NoStats]
      /\ UNCHANGED <<now, revs, observed>>
  BY DEF Crash
<1>2. DOMAIN NoStats = {} /\ NoStats \in [DOMAIN NoStats -> Snapshots]
  BY DEF NoStats
<1>3. TypeOK'
  BY <1>1, <1>2 DEF IInv, TypeOK
<1>4. Contiguous' /\ EnforcedWasMeasured' /\ EnforcedAfterSoak'
  BY <1>1 DEF IInv, Contiguous, EnforcedWasMeasured, EnforcedAfterSoak
<1>5. MeasurementsAreHonest'
  BY <1>1, <1>2 DEF IInv, TypeOK, MeasurementsAreHonest
<1>6. \A h \in Handlers : CallOK(h)'
  <2> SUFFICES ASSUME NEW h \in Handlers PROVE CallOK(h)'
    OBVIOUS
  <2>1. CASE h \in Lost
    BY <2>1, <1>1 DEF CallOK, InTransaction, Writing, Activating, At, Idle
  <2>2. CASE h \notin Lost
    <3>1. call'[h] = call[h] /\ CallOK(h) /\ Latest' = Latest
      BY <2>2, <1>1 DEF IInv, Latest
    <3>2. rowLock = h => rowLock' = h
      BY <2>2, <1>1
    <3> HIDE DEF Lost
    <3> QED
      BY <3>1, <3>2, <1>1
      DEF CallOK, InTransaction, Writing, Activating, Candidate, Measured, At
  <2> QED
    BY <2>1, <2>2
<1> QED
  BY <1>3, <1>4, <1>5, <1>6 DEF IInv

\* Every step preserves the invariant.
LEMMA NextInv ==
    ASSUME IInv, StatsAssumption, PolicyAssumption, [Next]_vars
    PROVE  IInv'
<1>1. ASSUME NEW h \in Handlers, NewCall(h) PROVE IInv'
  BY <1>1, NewCallInv
<1>2. ASSUME NEW h \in Handlers, Step(h) PROVE IInv'
  <2>1. CASE (\E target \in 0 .. MaxRevisions : ReadTarget(h, target)) \/ ReadLatest(h)
    BY <2>1, ReadsInv
  <2>2. CASE \E t \in RecentTimes, loaded \in BOOLEAN : Measure(h, t, loaded)
    BY <2>2, MeasureInv
  <2>3. CASE BeginTx(h)
    BY <2>3, BeginTxInv
  <2>4. CASE LockTenant(h)
    BY <2>4, LockTenantInv
  <2>5. CASE CheckVersion(h)
    BY <2>5, CheckVersionInv
  <2>6. CASE \E acked \in BOOLEAN : Commit(h, acked)
    BY <2>6, CommitInv
  <2>7. CASE Invalidate(h)
    BY <2>7, InvalidateInv
  <2> QED
    BY <1>2, <2>1, <2>2, <2>3, <2>4, <2>5, <2>6, <2>7 DEF Step, Save
<1>3. ASSUME NEW h \in Handlers, Fail(h) PROVE IInv'
  BY <1>3, FailInv
<1>4. CASE Traffic
  BY <1>4, ObservedInv DEF Traffic
<1>5. CASE Tick
  BY <1>5, TickInv
<1>6. ASSUME NEW n \in Nodes, Crash(n) PROVE IInv'
  BY <1>6, CrashInv
<1>7. ASSUME NEW n \in Nodes, Replace(n) PROVE IInv'
  BY <1>7, ReplaceInv
<1>8. CASE UNCHANGED vars
  <2>1. UNCHANGED <<now, revs, rowLock, call, stats, observed>> /\ Latest' = Latest
    BY <1>8 DEF vars, Latest
  <2>2. \A h \in Handlers : CallOK(h)'
    BY <2>1 DEF IInv, CallOK, InTransaction, Writing, Activating, Candidate, Measured, At
  <2> QED
    BY <2>1, <2>2
    DEF IInv, TypeOK, Contiguous, MeasurementsAreHonest, EnforcedWasMeasured,
        EnforcedAfterSoak
<1> QED
  BY <1>1, <1>2, <1>3, <1>4, <1>5, <1>6, <1>7, <1>8 DEF Next

(* The inductive invariant holds in every reachable state of the rollout:    *)
(* store, handlers, guard and crashes together (tenantpolicy/store.go,        *)
(* api/tenant_policy.go).                                                    *)
THEOREM Invariance == Spec => []IInv
<1>1. Init => IInv
  BY InitInv, StatsAssumption, PolicyAssumption
<1>2. IInv /\ [Next]_vars => IInv'
  BY NextInv, StatsAssumption, PolicyAssumption
<1> QED
  BY <1>1, <1>2, PTL DEF Spec

-----------------------------------------------------------------------------
(* What follows from it. *)

\* Every variable keeps its type: in particular a row always holds a
\* validated document and a node measures only committed revisions.
THEOREM TypeCorrect == Spec => []TypeOK
<1>1. IInv => TypeOK
  BY DEF IInv
<1> QED
  BY <1>1, Invariance, PTL

\* The activation handler never enforces a document other than the shadow
\* revision just before it, evaluated at least MinEvaluated times.
THEOREM ActivationIsMeasured == Spec => []EnforcedWasMeasured
<1>1. IInv => EnforcedWasMeasured
  BY DEF IInv
<1> QED
  BY <1>1, Invariance, PTL

\* By the created_at column, MinSpan passes between a document's shadow
\* revision and its enforcement.
THEOREM ActivationIsSoaked == Spec => []EnforcedAfterSoak
<1>1. IInv => EnforcedAfterSoak
  BY DEF IInv
<1> QED
  BY <1>1, Invariance, PTL

\* The row lock makes Save's version check and its insert one atomic step.
THEOREM CheckHoldsUntilCommit == Spec => []CheckedVersionIsLatest
<1>1. IInv => CheckedVersionIsLatest
  BY DEF IInv, CallOK, CheckedVersionIsLatest, InTransaction, At
<1> QED
  BY <1>1, Invariance, PTL

\* Shadow measurements never overstate the traffic a revision saw.
THEOREM HonestMeasurements == Spec => []MeasurementsAreHonest
<1>1. IInv => MeasurementsAreHonest
  BY DEF IInv
<1> QED
  BY <1>1, Invariance, PTL

-----------------------------------------------------------------------------
(* The newest revision's measurement. *)

\* An evaluation carries a time; 0 is the zero time of an empty snapshot.
FirstIsATime ==
    \A n \in Nodes : \A v \in DOMAIN stats[n] :
        stats[n][v].evaluated > 0 => stats[n][v].first >= 1

\* Making room for another version, or refusing it, spares the largest one.
LEMMA LargestKept ==
    ASSUME NEW s, NEW v \in Nat, NEW skipped \in BOOLEAN, NEW at \in Nat,
           IsFiniteSet(DOMAIN s), DOMAIN s \subseteq Nat, StatsAssumption,
           NEW top \in DOMAIN s, \A w \in DOMAIN s \cup {v} : w <= top
    PROVE  top \in DOMAIN Observe(s, v, skipped, at)
<1>1. CASE Dropped(s, v)
  BY <1>1 DEF Observe
<1>2. CASE ~ Dropped(s, v)
  <2>1. DOMAIN Observe(s, v, skipped, at) = Remaining(s, v) \cup {v}
    BY <1>2 DEF Observe
  <2>2. CASE v \in DOMAIN s \/ Cardinality(DOMAIN s) < KeptVersions \/ top = v
    BY <2>1, <2>2 DEF Remaining
  <2>3. CASE ~ (v \in DOMAIN s \/ Cardinality(DOMAIN s) < KeptVersions \/ top = v)
    <3>1. CASE Cardinality(DOMAIN s) >= KeptVersions
      <4>1. PICK w \in DOMAIN s : ~ (v < w)
        BY <1>2, <2>3, <3>1 DEF Dropped
      <4>2. w < top
        BY <2>3, <4>1
      <4> QED
        BY <2>1, <4>2 DEF Remaining
    <3>2. CASE ~ (Cardinality(DOMAIN s) >= KeptVersions)
      <4>1. Cardinality(DOMAIN s) \in Nat
        BY FS_CardinalityType
      <4> QED
        BY <2>3, <3>2, <4>1 DEF StatsAssumption
    <3> QED
      BY <3>1, <3>2
  <2> QED
    BY <2>2, <2>3
<1> QED
  BY <1>1, <1>2

\* What one observation does to the snapshots of its node.
LEMMA ObservedMoves ==
    ASSUME IInv, FirstIsATime, NEW n \in Nodes, NEW v \in Versions,
           NEW t \in RecentTimes, NEW skipped \in BOOLEAN, Observed(n, v, t, skipped)
    PROVE  /\ FirstIsATime'
           /\ LatestMeasurementKept
<1> DEFINE s == stats[n]
           o == Observe(s, v, skipped, t)
<1>1. /\ s \in [DOMAIN s -> Snapshots] /\ DOMAIN s \subseteq DOMAIN revs
      /\ DOMAIN revs \subseteq Nat /\ v \in Nat /\ t \in Nat /\ t >= 1
      /\ v \in DOMAIN revs
  BY DEF IInv, TypeOK, Versions, RecentTimes, Observed
<1>2. /\ DOMAIN o \subseteq DOMAIN s \cup {v}
      /\ o \in [DOMAIN o -> Snapshots]
      /\ \A w \in DOMAIN o \ {v} : w \in DOMAIN s /\ o[w] = s[w]
      /\ v \in DOMAIN o =>
            LET old == IF v \in DOMAIN s THEN s[v] ELSE Fresh IN
            \/ o[v] = old
            \/ ~ skipped /\ o[v] = Counted(old, t)
  BY <1>1, ObserveShape
<1>3. Latest \in DOMAIN s =>
        Latest \in DOMAIN o /\ \A w \in DOMAIN s \cup {v} : w <= Latest
  <2>1. PICK k \in Nat : DOMAIN revs = 1 .. k
    BY DEF IInv, Contiguous
  <2>2. Latest = k
    BY <2>1, LatestOfContiguous
  <2>3. \A w \in DOMAIN s \cup {v} : w <= Latest
    BY <1>1, <2>1, <2>2
  <2>4. DOMAIN s \subseteq Nat /\ DOMAIN s \subseteq 1 .. k
    BY <1>1, <2>1
  <2>5. IsFiniteSet(DOMAIN s)
    <3>1. 1 \in Int /\ k \in Int
      OBVIOUS
    <3>2. IsFiniteSet(1 .. k)
      BY <3>1, FS_Interval
    <3> HIDE DEF s
    <3> QED
      BY <2>4, <3>2, FS_Subset
  <2> QED
    BY <1>1, <2>3, <2>4, <2>5, LargestKept, StatsAssumption
<1> HIDE DEF o
<1>4. stats' = [stats EXCEPT ![n] = o]
  BY DEF Observed, o
<1>5. stats'[n] = o /\ \A m \in Nodes \ {n} : stats'[m] = stats[m]
  BY <1>4 DEF IInv, TypeOK
<1>6. ASSUME NEW w \in DOMAIN o
      PROVE  /\ o[w].evaluated > 0 => o[w].first >= 1
             /\ w \in DOMAIN s => o[w].evaluated >= s[w].evaluated
             /\ w \in DOMAIN s /\ s[w].evaluated > 0 => o[w].first <= s[w].first
  <2>1. CASE w # v
    <3>1. w \in DOMAIN s /\ o[w] = s[w] /\ s[w] \in Snapshots
      BY <1>1, <1>2, <2>1
    <3> QED
      BY <3>1 DEF FirstIsATime, Snapshots
  <2>2. CASE w = v
    <3> DEFINE old == IF v \in DOMAIN s THEN s[v] ELSE Fresh
    <3>1. old \in Snapshots /\ (old.evaluated > 0 => old.first >= 1)
      BY <1>1 DEF Fresh, Snapshots, FirstIsATime
    <3>2. w \in DOMAIN s => s[w] = old
      BY <2>2
    <3>3. o[w] = old \/ o[w] = Counted(old, t)
      BY <1>2, <2>2
    <3> HIDE DEF old
    <3>4. /\ o[w].evaluated > 0 => o[w].first >= 1
          /\ o[w].evaluated >= old.evaluated
          /\ old.evaluated > 0 => o[w].first <= old.first
      BY <1>1, <3>1, <3>3 DEF Counted, Snapshots
    <3> QED
      BY <3>2, <3>4
  <2> QED
    BY <2>1, <2>2
<1>7. FirstIsATime'
  BY <1>5, <1>6 DEF FirstIsATime
<1>8. LatestMeasurementKept
  <2> SUFFICES ASSUME NEW m \in Nodes, Latest \in DOMAIN stats[m]
               PROVE  /\ Latest \in DOMAIN stats'[m]
                      /\ stats'[m][Latest].evaluated >= stats[m][Latest].evaluated
                      /\ stats[m][Latest].evaluated > 0 =>
                            stats'[m][Latest].first <= stats[m][Latest].first
    BY DEF LatestMeasurementKept
  <2>1. CASE m = n
    BY <1>3, <1>5, <1>6, <2>1
  <2>2. CASE m # n
    <3>1. stats[m][Latest] \in Snapshots
      BY DEF IInv, TypeOK
    <3> QED
      BY <1>5, <2>2, <3>1 DEF Snapshots
  <2> QED
    BY <2>1, <2>2
<1> QED
  BY <1>7, <1>8

\* Every other step but a restart or a new object leaves the measurements alone.
LEMMA MeasurementSteps ==
    ASSUME IInv, FirstIsATime, [Next]_vars
    PROVE  FirstIsATime' /\ LatestMeasurementKept
<1>1. ASSUME UNCHANGED stats PROVE FirstIsATime' /\ LatestMeasurementKept
  <2>1. \A n \in Nodes : \A v \in DOMAIN stats[n] : stats[n][v] \in Snapshots
    BY DEF IInv, TypeOK
  <2> QED
    BY <1>1, <2>1 DEF FirstIsATime, LatestMeasurementKept, Snapshots
<1>2. ASSUME NEW h \in Handlers, NewCall(h) \/ Step(h) \/ Fail(h)
      PROVE  FirstIsATime' /\ LatestMeasurementKept
  BY <1>1, <1>2
  DEF NewCall, Put, Rollback, Activate, Start, Step, Save, ReadTarget, ReadLatest, Measure,
      BeginTx, LockTenant, CheckVersion, Commit, Invalidate, Fail
<1>3. CASE Traffic
  BY <1>3, ObservedMoves DEF Traffic
<1>4. CASE Tick \/ UNCHANGED vars
  BY <1>1, <1>4 DEF Tick, vars
<1>5. ASSUME NEW n \in Nodes, Crash(n) \/ Replace(n)
      PROVE  FirstIsATime' /\ LatestMeasurementKept
  <2>1. stats' = [stats EXCEPT ![n] = NoStats] /\ DOMAIN NoStats = {}
    BY <1>5 DEF Crash, Replace, NoStats
  <2>2. DOMAIN stats'[n] = {} /\ \A m \in Nodes \ {n} : stats'[m] = stats[m]
    BY <2>1 DEF IInv, TypeOK
  <2>3. \A m \in Nodes : \A v \in DOMAIN stats[m] : stats[m][v] \in Snapshots
    BY DEF IInv, TypeOK
  <2>4. LatestMeasurementKept
    <3> SUFFICES ASSUME NEW m \in Nodes, Latest \in DOMAIN stats[m],
                        ~ Crash(m), ~ Replace(m)
                 PROVE  /\ Latest \in DOMAIN stats'[m]
                        /\ stats'[m][Latest].evaluated >= stats[m][Latest].evaluated
                        /\ stats[m][Latest].evaluated > 0 =>
                              stats'[m][Latest].first <= stats[m][Latest].first
      BY DEF LatestMeasurementKept
    <3> QED
      BY <1>5, <2>2, <2>3 DEF Snapshots
  <2> QED
    BY <2>2, <2>4 DEF FirstIsATime
<1> QED
  BY <1>2, <1>3, <1>4, <1>5 DEF Next

\* An activation never waits for evidence that another revision's opinions
\* pushed out: while a node keeps running and keeps its Tenant object, the
\* newest revision's measurement only grows, and its first evaluation never
\* moves forward (shadow.go:30-75).
THEOREM LatestIsNeverLost == Spec => LatestMeasurementNeverLost
<1>1. Init => FirstIsATime
  BY DEF Init, NoStats, FirstIsATime
<1>2. IInv /\ FirstIsATime /\ [Next]_vars => FirstIsATime' /\ LatestMeasurementKept
  BY MeasurementSteps
<1>3. IInv /\ FirstIsATime /\ [Next]_vars => [LatestMeasurementKept]_vars
  BY <1>2
<1> QED
  BY <1>1, <1>2, <1>3, Invariance, PTL DEF Spec, LatestMeasurementNeverLost

-----------------------------------------------------------------------------
(* The rollout implements the abstract log. *)

\* No evaluation is counted for a version before it is committed.
UncommittedUnseen == \A v \in Versions \ DOMAIN revs : observed[v] = 0

LEMMA UncommittedUnseenInv ==
    ASSUME IInv, UncommittedUnseen, StatsAssumption, PolicyAssumption, [Next]_vars
    PROVE  UncommittedUnseen'
<1>1. ASSUME NEW h \in Handlers, NEW acked \in BOOLEAN, Commit(h, acked)
      PROVE  UncommittedUnseen'
  BY <1>1, CommitAppends DEF UncommittedUnseen, Commit
<1>2. ASSUME NEW n \in Nodes, NEW v \in Versions, NEW t \in RecentTimes,
             NEW skipped \in BOOLEAN, Observed(n, v, t, skipped)
      PROVE  UncommittedUnseen'
  BY <1>2 DEF UncommittedUnseen, Observed, IInv, TypeOK
<1>3. CASE UNCHANGED <<revs, observed>>
  BY <1>3 DEF UncommittedUnseen
<1> QED
  BY <1>1, <1>2, <1>3
  DEF Next, NewCall, Put, Rollback, Activate, Start, Step, Save, ReadTarget, ReadLatest,
      Measure, BeginTx, LockTenant, CheckVersion, Invalidate, Fail, Traffic, Tick,
      Crash, Replace, vars

\* The refinement mapping's log.
AbsLog == [v \in DOMAIN revs |-> [doc |-> revs[v].doc, mode |-> revs[v].mode]]
AbsMeasured == {v \in DOMAIN revs : observed[v] >= MinEvaluated}

\* With no gaps the table is a sequence, as long as its latest version.
LEMMA TableIsLog ==
    ASSUME NEW n \in Nat, DOMAIN revs = 1 .. n
    PROVE  /\ AbsLog \in Seq({AbsLog[v] : v \in DOMAIN revs})
           /\ Len(AbsLog) = n
           /\ DOMAIN AbsLog = 1 .. n
<1>1. AbsLog \in [1 .. n -> {AbsLog[v] : v \in DOMAIN revs}]
  BY DEF AbsLog
<1> QED
  BY <1>1 DEF AbsLog

\* Append, value by value.
LEMMA AppendOne ==
    ASSUME NEW S, NEW s \in Seq(S), NEW e
    PROVE  Append(s, e) = [v \in 1 .. Len(s) + 1 |-> IF v = Len(s) + 1 THEN e ELSE s[v]]
<1> DEFINE T == S \cup {e}
<1>1. s \in Seq(T)
  OBVIOUS
<1> HIDE DEF T
<1>2. e \in T
  BY DEF T
<1>3. /\ Append(s, e) \in Seq(T)
      /\ Len(Append(s, e)) = Len(s) + 1
      /\ \A i \in 1 .. Len(s) : Append(s, e)[i] = s[i]
      /\ Append(s, e)[Len(s) + 1] = e
  BY <1>1, <1>2, AppendProperties
<1>4. Len(s) \in Nat
  OBVIOUS
<1>5. Append(s, e) \in [1 .. Len(s) + 1 -> T]
  <2>1. Append(s, e) \in [1 .. Len(Append(s, e)) -> T]
    BY <1>3, LenProperties
  <2> QED
    BY <2>1, <1>3
<1>6. \A v \in 1 .. Len(s) + 1 : v \in 1 .. Len(s) \/ v = Len(s) + 1
  BY <1>4
<1>7. \A v \in 1 .. Len(s) + 1 : Append(s, e)[v] = IF v = Len(s) + 1 THEN e ELSE s[v]
  BY <1>3, <1>4, <1>6
<1> QED
  BY <1>5, <1>7

LEMMA CommitImplementsLog ==
    ASSUME IInv, UncommittedUnseen, StatsAssumption, PolicyAssumption,
           NEW h \in Handlers, NEW acked \in BOOLEAN, Commit(h, acked)
    PROVE  (\E d \in Docs : Log!Propose(d)) \/ Log!Enforce
<1> DEFINE entry == [doc |-> call[h].doc, mode |-> call[h].mode]
<1>1. PICK n \in Nat :
        /\ DOMAIN revs = 1 .. n
        /\ call[h].expected = n
        /\ n + 1 \in Versions
        /\ DOMAIN revs' = 1 .. n + 1
        /\ \A w \in DOMAIN revs : revs'[w] = revs[w]
        /\ revs'[n + 1] = [doc |-> call[h].doc, mode |-> call[h].mode,
                           actor |-> call[h].user, created |-> call[h].created]
  BY CommitAppends
<1>2. call[h] \in Calls /\ CallOK(h) /\ call[h].step = "commit" /\ call[h].doc \in Docs
  BY DEF Commit, IInv, TypeOK, Idle, CallOK, Writing, At
<1>3. /\ AbsLog \in Seq({AbsLog[v] : v \in DOMAIN revs})
      /\ Len(AbsLog) = n /\ DOMAIN AbsLog = 1 .. n
  BY <1>1, TableIsLog
<1>4. AbsLog' = [v \in 1 .. n + 1 |-> IF v = n + 1 THEN entry ELSE AbsLog[v]]
  BY <1>1 DEF AbsLog
<1>5. AbsLog' = Append(AbsLog, entry)
  <2> HIDE DEF entry
  <2> QED
    BY <1>3, <1>4, AppendOne
<1>6. AbsMeasured' = AbsMeasured
  <2>1. UNCHANGED observed /\ observed[n + 1] = 0
    BY <1>1 DEF Commit, UncommittedUnseen
  <2>2. \A v \in 1 .. n + 1 : v \in 1 .. n \/ v = n + 1
    OBVIOUS
  <2> QED
    BY <1>1, <2>1, <2>2, StatsAssumption DEF AbsMeasured
<1>7. CASE call[h].mode = "shadow"
  <2>1. \E d \in Docs :
            /\ AbsLog' = Append(AbsLog, [doc |-> d, mode |-> "shadow"])
            /\ AbsMeasured' = AbsMeasured
    BY <1>2, <1>5, <1>6, <1>7
  <2> QED
    BY <2>1 DEF Log!Propose, AbsLog, AbsMeasured
<1>8. CASE call[h].mode = "enforce"
  <2>1. Candidate(h) /\ Measured(h)
    BY <1>2, <1>8 DEF CallOK, Activating, Writing
  <2>2. n \in AbsMeasured /\ AbsLog[n] = [doc |-> call[h].doc, mode |-> "shadow"]
    BY <2>1, <1>1 DEF Candidate, Measured, AbsMeasured, AbsLog
  <2>3. entry = [AbsLog[n] EXCEPT !.mode = "enforce"]
    BY <2>2, <1>8
  <2>4. Len(AbsLog) \in AbsMeasured
        /\ AbsLog' = Append(AbsLog, [AbsLog[Len(AbsLog)] EXCEPT !.mode = "enforce"])
    BY <1>3, <1>5, <2>2, <2>3
  <2> QED
    BY <2>4, <1>6 DEF Log!Enforce, AbsLog, AbsMeasured
<1> QED
  BY <1>2, <1>7, <1>8 DEF Calls, Modes

LEMMA ObservedImplementsLog ==
    ASSUME IInv, StatsAssumption, PolicyAssumption, NEW n \in Nodes,
           NEW v \in Versions, NEW t \in RecentTimes, NEW skipped \in BOOLEAN,
           Observed(n, v, t, skipped)
    PROVE  Log!Measure(v) \/ (UNCHANGED <<AbsLog, AbsMeasured>>)
<1>1. UNCHANGED revs /\ v \in DOMAIN revs /\ revs[v].mode = "shadow"
  BY DEF Observed
<1>2. UNCHANGED AbsLog
  BY <1>1 DEF AbsLog
<1>3. \/ UNCHANGED observed
      \/ /\ observed'[v] = observed[v] + 1
         /\ \A w \in Versions : w # v => observed'[w] = observed[w]
  BY DEF Observed, IInv, TypeOK
<1>4. observed[v] \in Nat /\ DOMAIN revs \subseteq Versions
  BY DEF IInv, TypeOK
<1>5. AbsMeasured' = AbsMeasured \/ AbsMeasured' = AbsMeasured \cup {v}
  BY <1>1, <1>3, <1>4, StatsAssumption DEF AbsMeasured
<1>6. v \in DOMAIN AbsLog /\ AbsLog[v].mode = "shadow"
  BY <1>1 DEF AbsLog
<1> QED
  BY <1>2, <1>5, <1>6 DEF Log!Measure, AbsLog, AbsMeasured

\* The rollout is an append-only log whose documents are enforced only after
\* their own shadow revision was measured: every step of every handler, node
\* and crash is a step of PolicyLog or changes nothing of it.
THEOREM RolloutImplementsLog == Spec => ImplementsLog
<1>1. Init => Log!LogInit
  <2> SUFFICES ASSUME Init PROVE AbsLog = << >> /\ AbsMeasured = {}
    BY DEF Log!LogInit, AbsLog, AbsMeasured
  <2>1. DOMAIN revs = {}
    BY DEF Init, NoStats
  <2> QED
    BY <2>1 DEF AbsLog, AbsMeasured
<1>2. Init => UncommittedUnseen
  BY DEF Init, UncommittedUnseen
<1>3. IInv /\ UncommittedUnseen /\ [Next]_vars => UncommittedUnseen'
  BY UncommittedUnseenInv, StatsAssumption, PolicyAssumption
<1>4. IInv /\ UncommittedUnseen /\ [Next]_vars => [Log!LogNext]_(Log!logVars)
  <2> SUFFICES ASSUME IInv, UncommittedUnseen, [Next]_vars
               PROVE  Log!LogNext \/ UNCHANGED <<AbsLog, AbsMeasured>>
    BY DEF Log!logVars, AbsLog, AbsMeasured
  <2> USE StatsAssumption, PolicyAssumption
  <2>1. ASSUME NEW h \in Handlers, NEW acked \in BOOLEAN, Commit(h, acked)
        PROVE  Log!LogNext
    BY <2>1, CommitImplementsLog DEF Log!LogNext
  <2>2. ASSUME NEW n \in Nodes, NEW v \in Versions, NEW t \in RecentTimes,
               NEW skipped \in BOOLEAN, Observed(n, v, t, skipped)
        PROVE  Log!LogNext \/ UNCHANGED <<AbsLog, AbsMeasured>>
    <3>1. v \in DOMAIN AbsLog
      BY <2>2 DEF Observed, AbsLog
    <3> QED
      BY <2>2, <3>1, ObservedImplementsLog DEF Log!LogNext, AbsLog
  <2>3. CASE UNCHANGED <<revs, observed>>
    BY <2>3 DEF AbsLog, AbsMeasured
  <2> QED
    BY <2>1, <2>2, <2>3
    DEF Next, NewCall, Put, Rollback, Activate, Start, Step, Save, ReadTarget,
        ReadLatest, Measure, BeginTx, LockTenant, CheckVersion, Invalidate, Fail,
        Traffic, Tick, Crash, Replace, vars
<1> QED
  BY <1>1, <1>2, <1>3, <1>4, Invariance, PTL DEF Spec, ImplementsLog, Log!LogSpec
=============================================================================
