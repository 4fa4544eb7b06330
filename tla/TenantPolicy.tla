---------------------------- MODULE TenantPolicy ----------------------------
(***************************************************************************)
(* One tenant's policy rollout: the revision table in Postgres             *)
(* (pkg/tenantpolicy/store.go), the dashboard handlers that write it       *)
(* (pkg/api/tenant_policy.go), and the shadow measurements every proxy     *)
(* node takes in memory (pkg/evidence/shadow.go, pkg/core/guard.go).       *)
(*                                                                         *)
(* A handler is a goroutine that takes one step per database statement or  *)
(* lock, so handlers of all nodes interleave.  A node may crash between    *)
(* any two steps: its handlers vanish, Postgres rolls their transactions   *)
(* back, and its measurements are lost.  They belong to the Tenant object  *)
(* of the tenant store (module TenantStore), so they are also lost, with   *)
(* nothing else, when a second load registers a new object.                *)
(*                                                                         *)
(* Which committed revision a node's proxy evaluates is the business of    *)
(* pkg/policyprovider (module PolicyProvider); here a request may be       *)
(* evaluated against any committed revision, however stale.                *)
(***************************************************************************)
EXTENDS ShadowStats, Sequences

CONSTANTS
    Nodes,          \* processes that serve traffic and the dashboard API
    Handlers,       \* dashboard requests that can be in flight at once
    Users,          \* authenticated dashboard accounts
    Owner,          \* the account that owns the tenant
    Docs,           \* documents that pass Document.Validate
    NoDoc,          \* a document not read yet
    NoHandler,      \* nobody holds the tenant's row lock
    Lag,            \* longest delay from reading the clock to using the time
    MaxRevisions,   \* bound: revisions ever committed
    MaxTime,        \* bound: the clock
    MaxObserved     \* bound: counted evaluations of one revision

ASSUME PolicyAssumption ==
    /\ Owner \in Users
    /\ NoDoc \notin Docs
    /\ NoHandler \notin Handlers
    /\ Lag \in Nat
    /\ MaxRevisions \in Nat
    /\ MaxTime \in Nat \ {0}
    /\ MaxObserved \in Nat

VARIABLES
    now,            \* the time
    revs,           \* tenant_policy_revisions: version -> row
    rowLock,        \* the handler whose transaction locked the tenants row
    call,           \* what each handler is doing
    stats,          \* each node's ShadowStats of the tenant
    observed        \* history: evaluations of each shadow revision, all nodes

vars == <<now, revs, rowLock, call, stats, observed>>

Modes == {"shadow", "enforce"}
Versions == 1 .. MaxRevisions
Rows == [doc : Docs, mode : Modes, actor : Users, created : Nat]

\* A call's next step: read the rollback target, read the latest revision,
\* check the measurements, begin the transaction, lock the tenant's row,
\* check the version, insert and commit, invalidate the node's cache.
Steps == {"target", "latest", "measure", "begin", "lock", "check", "commit",
          "invalidate"}
Idle == [step |-> "idle"]
Calls == [step : Steps, node : Nodes, user : Users, expected : Nat,
          doc : Docs \cup {NoDoc}, mode : Modes, created : Nat]

TypeOK ==
    /\ now \in Nat \ {0}
    /\ DOMAIN revs \subseteq Versions
    /\ revs \in [DOMAIN revs -> Rows]
    /\ rowLock \in Handlers \cup {NoHandler}
    /\ call \in [Handlers -> Calls \cup {Idle}]
    /\ stats = [n \in Nodes |-> stats[n]]
    /\ \A n \in Nodes :
        /\ DOMAIN stats[n] \subseteq DOMAIN revs
        /\ stats[n] \in [DOMAIN stats[n] -> Snapshots]
    /\ observed \in [Versions -> Nat]

Init ==
    /\ now = 1
    /\ revs = NoStats
    /\ rowLock = NoHandler
    /\ call = [h \in Handlers |-> Idle]
    /\ stats = [n \in Nodes |-> NoStats]
    /\ observed = [v \in Versions |-> 0]

-----------------------------------------------------------------------------
(* The table. *)

\* SELECT COALESCE(MAX(version), 0)
Latest == CHOOSE v \in DOMAIN revs \cup {0} : \A w \in DOMAIN revs : w <= v

\* The instant a thread may have read from its clock for use now.
RecentTimes == {t \in 1 .. now : now - t <= Lag}

(* The handlers. *)

At(h, s) == call[h].step = s
Goto(h, s) == call' = [call EXCEPT ![h].step = s]
Return(h) == call' = [call EXCEPT ![h] = Idle]
Unlock(h) == rowLock' = IF rowLock = h THEN NoHandler ELSE rowLock

\* Bound: a call starts only when every call in flight may commit.
MayStart(h) ==
    /\ call[h] = Idle
    /\ Latest + Cardinality({g \in Handlers : call[g] # Idle}) < MaxRevisions

Start(h, n, u, s, expected, d, m) ==
    /\ MayStart(h)
    /\ call' = [call EXCEPT ![h] =
            [step |-> s, node |-> n, user |-> u, expected |-> expected,
             doc |-> d, mode |-> m, created |-> 0]]
    /\ UNCHANGED <<now, revs, rowLock, stats, observed>>

\* PUT policy: only a shadow document goes on to Save.
Put(h, n, u, expected, d, m) ==
    /\ m = "shadow"
    /\ Start(h, n, u, "begin", expected, d, m)

\* POST rollback
Rollback(h, n, u, expected) == Start(h, n, u, "target", expected, NoDoc, "shadow")

\* POST activate
Activate(h, n, u, expected) == Start(h, n, u, "latest", expected, NoDoc, "enforce")

\* Mutant: the historical revision's mode is restored with its document.
ReadTarget_KeepsMode(h, target) ==
    /\ At(h, "target")
    /\ IF call[h].user = Owner /\ target \in DOMAIN revs
       THEN call' = [call EXCEPT ![h].doc = revs[target].doc,
                                 ![h].mode = revs[target].mode, ![h].step = "begin"]
       ELSE Return(h)
    /\ UNCHANGED <<now, revs, rowLock, stats, observed>>

\* Rollback's own read of the version the client names, outside Save's transaction.
ReadTarget(h, target) ==
    /\ At(h, "target")
    /\ IF call[h].user = Owner /\ target \in DOMAIN revs
       THEN call' = [call EXCEPT ![h].doc = revs[target].doc, ![h].step = "begin"]
       ELSE Return(h)
    /\ UNCHANGED <<now, revs, rowLock, stats, observed>>

\* Activate's read of the latest revision, and the two refusals it leads to.
ReadLatest(h) ==
    /\ At(h, "latest")
    /\ IF /\ call[h].user = Owner
          /\ Latest # 0
          /\ call[h].expected = Latest
          /\ revs[Latest].mode = "shadow"
       THEN call' = [call EXCEPT ![h].doc = revs[Latest].doc, ![h].step = "measure"]
       ELSE Return(h)
    /\ UNCHANGED <<now, revs, rowLock, stats, observed>>

\* Mutant: any revision's evidence will do.
Measure_AnyVersion(h, t, loaded) ==
    /\ At(h, "measure")
    /\ t \in RecentTimes
    /\ IF loaded /\ \E v \in Versions : Ready(stats[call[h].node], v, t)
       THEN Goto(h, "begin")
       ELSE Return(h)
    /\ UNCHANGED <<now, revs, rowLock, stats, observed>>

\* Activate's test of this node's measurements; a tenant this node cannot
\* load is refused as an unready one is.
Measure(h, t, loaded) ==
    /\ At(h, "measure")
    /\ t \in RecentTimes
    /\ IF loaded /\ Ready(stats[call[h].node], call[h].expected, t)
       THEN Goto(h, "begin")
       ELSE Return(h)
    /\ UNCHANGED <<now, revs, rowLock, stats, observed>>

\* Save: BEGIN fixes the transaction's now(), which becomes created_at.
BeginTx(h) ==
    /\ At(h, "begin")
    /\ call' = [call EXCEPT ![h].step = "lock", ![h].created = now]
    /\ UNCHANGED <<now, revs, rowLock, stats, observed>>

\* Mutant: the tenants row is read without FOR UPDATE.
LockTenant_NoWait(h) ==
    /\ At(h, "lock")
    /\ \/ /\ call[h].user # Owner
          /\ Return(h)
          /\ UNCHANGED rowLock
       \/ /\ call[h].user = Owner
          /\ rowLock' = h
          /\ Goto(h, "check")
    /\ UNCHANGED <<now, revs, stats, observed>>

\* Save: SELECT ... FOR UPDATE, which waits for the row's holder and finds
\* no row for an account that does not own the tenant.
LockTenant(h) ==
    /\ At(h, "lock")
    /\ \/ /\ call[h].user # Owner
          /\ Return(h)
          /\ UNCHANGED rowLock
       \/ /\ call[h].user = Owner
          /\ rowLock = NoHandler
          /\ rowLock' = h
          /\ Goto(h, "check")
    /\ UNCHANGED <<now, revs, stats, observed>>

\* Mutant: a conflict returns without rolling the transaction back.
CheckVersion_KeepsLock(h) ==
    /\ At(h, "check")
    /\ IF Latest # call[h].expected THEN Return(h) ELSE Goto(h, "commit")
    /\ UNCHANGED <<now, revs, rowLock, stats, observed>>

\* Save: the optimistic version check under the lock.
CheckVersion(h) ==
    /\ At(h, "check")
    /\ \/ /\ Latest # call[h].expected
          /\ Unlock(h)
          /\ Return(h)
       \/ /\ Latest = call[h].expected
          /\ Goto(h, "commit")
          /\ UNCHANGED rowLock
    /\ UNCHANGED <<now, revs, stats, observed>>

\* Save: INSERT and COMMIT; (tenant_id, version) is the primary key.  A
\* commit whose answer is lost is durable, but the handler reports an error
\* and leaves the cache alone.
Commit(h, acked) ==
    LET v == call[h].expected + 1
        row == [doc |-> call[h].doc, mode |-> call[h].mode,
                actor |-> call[h].user, created |-> call[h].created]
    IN  /\ At(h, "commit")
        /\ v \in Versions \ DOMAIN revs
        /\ revs' = [w \in DOMAIN revs \cup {v} |-> IF w = v THEN row ELSE revs[w]]
        /\ Unlock(h)
        /\ IF acked THEN Goto(h, "invalidate") ELSE Return(h)
        /\ UNCHANGED <<now, stats, observed>>

\* Any statement may fail: the transaction rolls back and the call ends.
Fail(h) ==
    /\ call[h].step \in Steps \ {"measure", "invalidate"}
    /\ Unlock(h)
    /\ Return(h)
    /\ UNCHANGED <<now, revs, stats, observed>>

\* provider.InvalidateTenant: its effect is on the provider's state.
Invalidate(h) ==
    /\ At(h, "invalidate")
    /\ Return(h)
    /\ UNCHANGED <<now, revs, rowLock, stats, observed>>

-----------------------------------------------------------------------------
(* Visitor traffic, time and failures. *)

\* A request on node n was evaluated, or skipped, under revision v; the
\* clock was read at t, after the policy was loaded.
Observed(n, v, t, skipped) ==
    /\ v \in DOMAIN revs
    /\ revs[v].mode = "shadow"
    /\ t \in RecentTimes
    /\ t >= revs[v].created
    /\ observed[v] < MaxObserved
    /\ stats' = [stats EXCEPT ![n] = Observe(stats[n], v, skipped, t)]
    /\ observed' = IF skipped THEN observed
                   ELSE [observed EXCEPT ![v] = observed[v] + 1]
    /\ UNCHANGED <<now, revs, rowLock, call>>

Tick ==
    /\ now < MaxTime
    /\ now' = now + 1
    /\ UNCHANGED <<revs, rowLock, call, stats, observed>>

\* Node n restarts: memory is lost, Postgres aborts its transactions.
Crash(n) ==
    LET Lost == {h \in Handlers : call[h] # Idle /\ call[h].node = n}
    IN  /\ call' = [h \in Handlers |-> IF h \in Lost THEN Idle ELSE call[h]]
        /\ rowLock' = IF rowLock \in Lost THEN NoHandler ELSE rowLock
        /\ stats' = [stats EXCEPT ![n] = NoStats]
        /\ UNCHANGED <<now, revs, observed>>

\* A second load of the tenant ends (tenant.Store.Add): its object, with an
\* empty measurement, takes the place of the one that node n has used.  A
\* request that still holds the old one counts in vain, and what a handler
\* that holds it reads, it could have read before the step.
Replace(n) ==
    /\ stats' = [stats EXCEPT ![n] = NoStats]
    /\ UNCHANGED <<now, revs, rowLock, call, observed>>

Save(h) ==
    \/ BeginTx(h)
    \/ LockTenant(h)
    \/ CheckVersion(h)
    \/ \E acked \in BOOLEAN : Commit(h, acked)

Step(h) ==
    \/ \E target \in 0 .. MaxRevisions : ReadTarget(h, target)
    \/ ReadLatest(h)
    \/ \E t \in RecentTimes, loaded \in BOOLEAN : Measure(h, t, loaded)
    \/ Save(h)
    \/ Invalidate(h)

NewCall(h) ==
    \E n \in Nodes, u \in Users, expected \in 0 .. MaxRevisions :
        \/ \E d \in Docs, m \in Modes : Put(h, n, u, expected, d, m)
        \/ Rollback(h, n, u, expected)
        \/ Activate(h, n, u, expected)

Traffic ==
    \E n \in Nodes, v \in Versions, t \in RecentTimes, skipped \in BOOLEAN :
        Observed(n, v, t, skipped)

Next ==
    \/ \E h \in Handlers : NewCall(h) \/ Step(h) \/ Fail(h)
    \/ Traffic
    \/ Tick
    \/ \E n \in Nodes : Crash(n) \/ Replace(n)

Spec == Init /\ [][Next]_vars

\* A goroutine that can run does run, and Postgres grants a row lock to
\* its waiters in turn, so a lock that comes free again and again is granted.
FairSpec ==
    /\ Spec
    /\ \A h \in Handlers : WF_vars(Step(h)) /\ SF_vars(LockTenant(h))
-----------------------------------------------------------------------------
(* What must hold. *)

\* An enforced document is, unchanged, the shadow revision just before it,
\* and at least MinEvaluated requests were evaluated under that revision:
\* the activation handler's checks still hold when its transaction commits,
\* whatever other handlers, nodes and restarts did in between.
EnforcedWasMeasured ==
    \A v \in DOMAIN revs : revs[v].mode = "enforce" =>
        /\ v - 1 \in DOMAIN revs
        /\ revs[v - 1].mode = "shadow"
        /\ revs[v - 1].doc = revs[v].doc
        /\ observed[v - 1] >= MinEvaluated

\* A document spends at least MinSpan as a stored candidate before it is
\* enforced, by the table's own created_at column: no observation that
\* arrives out of order or before the revision can shorten the wait.
EnforcedAfterSoak ==
    \A v \in DOMAIN revs :
        (revs[v].mode = "enforce" /\ v - 1 \in DOMAIN revs)
            => revs[v].created - revs[v - 1].created >= MinSpan

\* Save's row lock at work: a transaction between its version check and its
\* commit holds the row, and no other handler has committed a revision since.
CheckedVersionIsLatest ==
    \A h \in Handlers : At(h, "commit") =>
        rowLock = h /\ call[h].expected = Latest

\* A node's count never exceeds the evaluations that happened, and its first
\* and last evaluation are in order and after the revision's creation, though
\* counts are dropped, restarted and updated out of time order.
MeasurementsAreHonest ==
    \A n \in Nodes : \A v \in DOMAIN stats[n] :
        LET snap == stats[n][v] IN
        /\ revs[v].mode = "shadow"
        /\ snap.evaluated <= observed[v]
        /\ snap.evaluated = 0 => snap.first = 0 /\ snap.last = 0
        /\ snap.evaluated > 0 =>
            snap.first \in revs[v].created .. snap.last /\ snap.last <= now

\* The newest revision's measurement is what an operator is waiting for.  No
\* opinion takes it away, be it late, out of order or of an older revision,
\* and no handler does; its first evaluation never moves forward.  What does
\* is a restart, or a second load whose new object takes the tenant's place.
LatestMeasurementKept ==
    \A n \in Nodes :
        (Latest \in DOMAIN stats[n] /\ ~ Crash(n) /\ ~ Replace(n)) =>
            /\ Latest \in DOMAIN stats'[n]
            /\ stats'[n][Latest].evaluated >= stats[n][Latest].evaluated
            /\ stats[n][Latest].evaluated > 0 =>
                stats'[n][Latest].first <= stats[n][Latest].first

LatestMeasurementNeverLost == [][LatestMeasurementKept]_vars

\* Every dashboard request ends, whatever fails and whoever holds the row:
\* every path out of a transaction gives the lock back.
CallsReturn == \A h \in Handlers : (call[h] # Idle) ~> (call[h] = Idle)

\* The rollout implements the abstract log: a version is measured once
\* MinEvaluated evaluations of it happened anywhere.
Log == INSTANCE PolicyLog WITH
    log <- [v \in DOMAIN revs |-> [doc |-> revs[v].doc, mode |-> revs[v].mode]],
    measured <- {v \in DOMAIN revs : observed[v] >= MinEvaluated}

ImplementsLog == Log!LogSpec
=============================================================================
