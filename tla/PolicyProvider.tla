--------------------------- MODULE PolicyProvider ---------------------------
(***************************************************************************)
(* One node's policy cache (pkg/policyprovider/provider.go) in production, *)
(* that is asynchronous, mode: a request never waits for Postgres; a miss  *)
(* schedules one of a bounded number of background loaders, and a handler  *)
(* that committed a revision invalidates the tenant's entry.               *)
(*                                                                         *)
(* The mutex makes each of the provider's methods one step; a request, a   *)
(* loader and a handler are several steps and interleave.  The database    *)
(* is a version per tenant: this node's handlers and other nodes advance   *)
(* it.  A policy is its version; what an account's legacy rules say is     *)
(* left out, since they never enforce anything.                            *)
(*                                                                         *)
(* Time is relative: an entry carries its remaining lifetime in ticks and  *)
(* a loader what is left of its query's timeout, so the clock never runs   *)
(* out and liveness means what it says.                                    *)
(***************************************************************************)
EXTENDS Integers, FiniteSets

CONSTANTS
    Tenants,        \* tenants this node serves
    Owners,         \* the accounts that own them
    OwnerOf,        \* tenant -> account
    Slots,          \* loader goroutines that can run at once (32)
    Requests,       \* visitor requests in ForTenant at once
    CacheTTL,       \* lifetime of a loaded policy, in ticks (30 s)
    NegativeTTL,    \* lifetime of an absence or an error (10 s)
    DbTimeout,      \* longest a load may take to its store (2 s)
    MaxEntries,     \* entries of each cache (4096)
    MaxVersion      \* bound: revisions ever committed per tenant

ASSUME ProviderAssumption ==
    /\ OwnerOf \in [Tenants -> Owners]
    /\ CacheTTL \in Nat \ {0}
    /\ NegativeTTL \in Nat \ {0}
    /\ NegativeTTL <= CacheTTL
    /\ DbTimeout \in Nat
    /\ MaxEntries \in Nat \ {0}
    /\ MaxVersion \in Nat

VARIABLES
    db,             \* each tenant's latest committed version, 0 for none
    pending,        \* commits of this node's handlers not yet invalidated
    tenantCache,    \* tenant -> [ver, left]; ver 0 is a cached absence
    cache,          \* owner -> [left]: its legacy rules, or their absence
    epoch,          \* invalidations so far
    loading,        \* tenants with a scheduled load
    loader,         \* what each slot's goroutine is doing
    request,        \* what each request is doing
    settled,        \* history: ticks since the tenant's version last changed
    floor,          \* history: version at this node's last invalidation
    highest         \* history: highest version this node ever cached

cacheVars == <<tenantCache, cache>>
vars == <<db, pending, tenantCache, cache, epoch, loading, loader, request,
          settled, floor, highest>>

Versions == 0 .. MaxVersion
Settled == CacheTTL + DbTimeout     \* long enough ago: the counter stops

TenantEntry == [ver : Versions, left : 0 .. CacheTTL]
OwnerEntry == [left : 0 .. CacheTTL]

Free == [step |-> "free"]
LoadSteps == {"read", "store", "legacy", "unmark", "release"}
Load == [step : LoadSteps, tenant : Tenants, epoch : Nat, ver : Versions,
         found : BOOLEAN, budget : 0 .. DbTimeout]

Done == [step |-> "done"]
Asking == [step : {"legacy", "again", "schedule"}, tenant : Tenants]

TypeOK ==
    /\ db \in [Tenants -> Versions]
    /\ pending \in [Tenants -> Nat]
    /\ DOMAIN tenantCache \subseteq Tenants
    /\ tenantCache \in [DOMAIN tenantCache -> TenantEntry]
    /\ DOMAIN cache \subseteq Owners
    /\ cache \in [DOMAIN cache -> OwnerEntry]
    /\ epoch \in Nat
    /\ loading \subseteq Tenants
    /\ loader \in [Slots -> Load \cup {Free}]
    /\ request \in [Requests -> Asking \cup {Done}]
    /\ settled \in [Tenants -> 0 .. Settled]
    /\ floor \in [Tenants -> Versions]
    /\ highest \in [Tenants -> Versions]

NoEntries == [x \in {} |-> 0]

Init ==
    /\ db = [t \in Tenants |-> 0]
    /\ pending = [t \in Tenants |-> 0]
    /\ tenantCache = NoEntries
    /\ cache = NoEntries
    /\ epoch = 0
    /\ loading = {}
    /\ loader = [i \in Slots |-> Free]
    /\ request = [r \in Requests |-> Done]
    /\ settled = [t \in Tenants |-> Settled]
    /\ floor = [t \in Tenants |-> 0]
    /\ highest = [t \in Tenants |-> 0]

-----------------------------------------------------------------------------
(* The caches. *)

Live_Forever(c, k) == k \in DOMAIN c
Live(c, k) == k \in DOMAIN c /\ c[k].left > 0

Keep(c, K) == [k \in DOMAIN c \cap K |-> c[k]]
Set(c, k, e) == [j \in DOMAIN c \cup {k} |-> IF j = k THEN e ELSE c[j]]

Unexpired(c) == {k \in DOMAIN c : c[k].left > 0}

\* The keys a store of k may leave beside it: a full cache drops what has
\* expired and then, if that freed nothing, one entry among "victims".
Survivors(c, k, victims) ==
    IF k \in DOMAIN c \/ Cardinality(DOMAIN c) < MaxEntries
    THEN {DOMAIN c}
    ELSE IF Cardinality(Unexpired(c)) < MaxEntries
         THEN {Unexpired(c)}
         ELSE {Unexpired(c) \ {x} : x \in victims}

\* The owner cache gives up the entry closest to expiry.
SoonestToExpire(c) ==
    {k \in DOMAIN c : \A j \in DOMAIN c : c[k].left <= c[j].left}

StoreTenant_AnyEpoch(t, v, ttl, atEpoch) ==
    /\ \E K \in Survivors(tenantCache, t, DOMAIN tenantCache) :
         tenantCache' = Set(Keep(tenantCache, K), t, [ver |-> v, left |-> ttl])
    /\ highest' = [highest EXCEPT ![t] = IF v > @ THEN v ELSE @]

\* storeTenant: nothing is stored once an invalidation has passed by.
StoreTenant(t, v, ttl, atEpoch) ==
    IF epoch # atEpoch THEN UNCHANGED <<tenantCache, highest>>
    ELSE /\ \E K \in Survivors(tenantCache, t, DOMAIN tenantCache) :
              tenantCache' = Set(Keep(tenantCache, K), t, [ver |-> v, left |-> ttl])
         /\ highest' = [highest EXCEPT ![t] = IF v > @ THEN v ELSE @]

\* store: legacy rules, with no epoch to compare.
StoreOwner(o, ttl) ==
    \E K \in Survivors(cache, o, SoonestToExpire(cache)) :
        cache' = Set(Keep(cache, K), o, [left |-> ttl])

-----------------------------------------------------------------------------
(* Requests: forTenantAsync.  A live entry with a policy is returned at once *)
(* and changes nothing; any other request takes the steps below.            *)

Ask(r, t) ==
    /\ request[r] = Done
    /\ ~ (Live(tenantCache, t) /\ tenantCache[t].ver > 0)
    /\ request' = [request EXCEPT ![r] = [step |-> "legacy", tenant |-> t]]
    /\ UNCHANGED <<db, pending, tenantCache, cache, epoch, loading, loader,
                   settled, floor, highest>>

\* The legacy rules, then the tenant's entry once more, decide whether to
\* load; the request then returns the legacy rules, or nothing.
LookAtLegacy(r) ==
    /\ request[r].step = "legacy"
    /\ request' = [request EXCEPT ![r].step =
            IF Live(cache, OwnerOf[request[r].tenant]) THEN "again" ELSE "schedule"]
    /\ UNCHANGED <<db, pending, tenantCache, cache, epoch, loading, loader,
                   settled, floor, highest>>

LookAgain(r) ==
    /\ request[r].step = "again"
    /\ request' = [request EXCEPT ![r] =
            IF Live(tenantCache, @.tenant) THEN Done
            ELSE [step |-> "schedule", tenant |-> @.tenant]]
    /\ UNCHANGED <<db, pending, tenantCache, cache, epoch, loading, loader,
                   settled, floor, highest>>

ScheduleLoad_Unmarked(r) ==
    /\ request[r].step = "schedule"
    /\ request' = [request EXCEPT ![r] = Done]
    /\ LET t == request[r].tenant
           free == {i \in Slots : loader[i] = Free}
       IN  IF free = {}
           THEN UNCHANGED <<loading, loader>>
           ELSE /\ loading' = loading \cup {t}
                /\ \E i \in free :
                     loader' = [loader EXCEPT ![i] =
                        [step |-> "read", tenant |-> t, epoch |-> epoch,
                         ver |-> 0, found |-> FALSE, budget |-> DbTimeout]]
    /\ UNCHANGED <<db, pending, tenantCache, cache, epoch, settled, floor, highest>>

ScheduleLoad_MarksFirst(r) ==
    /\ request[r].step = "schedule"
    /\ request' = [request EXCEPT ![r] = Done]
    /\ loading' = loading \cup {request[r].tenant}
    /\ LET t == request[r].tenant
           free == {i \in Slots : loader[i] = Free}
       IN  IF t \in loading \/ free = {}
           THEN UNCHANGED loader
           ELSE \E i \in free :
                     loader' = [loader EXCEPT ![i] =
                        [step |-> "read", tenant |-> t, epoch |-> epoch,
                         ver |-> 0, found |-> FALSE, budget |-> DbTimeout]]
    /\ UNCHANGED <<db, pending, tenantCache, cache, epoch, settled, floor, highest>>

\* scheduleLoad: one load per tenant, and none when every slot is taken.
ScheduleLoad(r) ==
    /\ request[r].step = "schedule"
    /\ request' = [request EXCEPT ![r] = Done]
    /\ LET t == request[r].tenant
           free == {i \in Slots : loader[i] = Free}
       IN  IF t \in loading \/ free = {}
           THEN UNCHANGED <<loading, loader>>
           ELSE /\ loading' = loading \cup {t}
                /\ \E i \in free :
                     loader' = [loader EXCEPT ![i] =
                        [step |-> "read", tenant |-> t, epoch |-> epoch,
                         ver |-> 0, found |-> FALSE, budget |-> DbTimeout]]
    /\ UNCHANGED <<db, pending, tenantCache, cache, epoch, settled, floor, highest>>

-----------------------------------------------------------------------------
(* Loaders. *)

At(i, s) == loader[i].step = s
Goto(i, s) == loader' = [loader EXCEPT ![i].step = s]

\* loadTenant's query: the latest revision; or nothing, for an error, a
\* timeout, no row or another owner's row.
ReadTenant(i, ok) ==
    /\ At(i, "read")
    /\ LET l == loader[i]
           v == IF ok THEN db[l.tenant] ELSE 0
       IN  loader' = [loader EXCEPT ![i] =
                        [step |-> "store", tenant |-> l.tenant, epoch |-> l.epoch,
                         ver |-> v, found |-> v > 0, budget |-> l.budget]]
    /\ UNCHANGED <<db, pending, tenantCache, cache, epoch, loading, request,
                   settled, floor, highest>>

\* loadTenant's outcome: a document that is no longer valid counts as found,
\* with no policy.
StoreLoaded(i, valid) ==
    LET l == loader[i]
        v == IF valid THEN l.ver ELSE 0
    IN  /\ At(i, "store")
        /\ StoreTenant(l.tenant, v, IF v > 0 THEN CacheTTL ELSE NegativeTTL, l.epoch)
        /\ Goto(i, IF l.found THEN "unmark" ELSE "legacy")
        /\ UNCHANGED <<db, pending, cache, epoch, loading, request, settled, floor>>

\* load: the owner's legacy rules or none, or an error.
LoadLegacy(i, ok) ==
    /\ At(i, "legacy")
    /\ StoreOwner(OwnerOf[loader[i].tenant], IF ok THEN CacheTTL ELSE NegativeTTL)
    /\ Goto(i, "unmark")
    /\ UNCHANGED <<db, pending, tenantCache, epoch, loading, request, settled,
                   floor, highest>>

Unmark_OnlyFound(i) ==
    /\ At(i, "unmark")
    /\ loading' = IF loader[i].found THEN loading \ {loader[i].tenant} ELSE loading
    /\ Goto(i, "release")
    /\ UNCHANGED <<db, pending, tenantCache, cache, epoch, request, settled,
                   floor, highest>>

\* The goroutine's deferred end: the tenant may be loaded again before the
\* slot is given back.
Unmark(i) ==
    /\ At(i, "unmark")
    /\ loading' = loading \ {loader[i].tenant}
    /\ Goto(i, "release")
    /\ UNCHANGED <<db, pending, tenantCache, cache, epoch, request, settled,
                   floor, highest>>

Release_OnlyFound(i) ==
    /\ At(i, "release")
    /\ loader[i].found
    /\ loader' = [loader EXCEPT ![i] = Free]
    /\ UNCHANGED <<db, pending, tenantCache, cache, epoch, loading, request,
                   settled, floor, highest>>

Release(i) ==
    /\ At(i, "release")
    /\ loader' = [loader EXCEPT ![i] = Free]
    /\ UNCHANGED <<db, pending, tenantCache, cache, epoch, loading, request,
                   settled, floor, highest>>

-----------------------------------------------------------------------------
(* Handlers, other nodes, time and restarts. *)

\* A revision is committed; a handler of this node will invalidate unless
\* the commit's answer was lost, another node's handler never does here.
Commit(t, here) ==
    /\ db[t] < MaxVersion
    /\ db' = [db EXCEPT ![t] = @ + 1]
    /\ settled' = [settled EXCEPT ![t] = 0]
    /\ pending' = IF here THEN [pending EXCEPT ![t] = @ + 1] ELSE pending
    /\ UNCHANGED <<tenantCache, cache, epoch, loading, loader, request, floor, highest>>

InvalidateTenant(t) ==
    /\ pending[t] > 0
    /\ pending' = [pending EXCEPT ![t] = @ - 1]
    /\ epoch' = epoch + 1
    /\ tenantCache' = Keep(tenantCache, Tenants \ {t})
    /\ floor' = [floor EXCEPT ![t] = db[t]]
    /\ UNCHANGED <<db, cache, loading, loader, request, settled, highest>>

\* Loads are prompt: a load's store follows its start within DbTimeout.
Running(i) == loader[i].step \in {"read", "store"}
Aged(c) == [k \in DOMAIN c |-> [c[k] EXCEPT !.left = IF @ > 0 THEN @ - 1 ELSE 0]]

Tick ==
    /\ \A i \in Slots : Running(i) => loader[i].budget > 0
    /\ loader' = [i \in Slots |->
            IF Running(i) THEN [loader[i] EXCEPT !.budget = @ - 1] ELSE loader[i]]
    /\ tenantCache' = Aged(tenantCache)
    /\ cache' = Aged(cache)
    /\ settled' = [t \in Tenants |-> IF settled[t] < Settled THEN settled[t] + 1
                                     ELSE settled[t]]
    /\ UNCHANGED <<db, pending, epoch, loading, request, floor, highest>>

Restart ==
    /\ pending' = [t \in Tenants |-> 0]
    /\ tenantCache' = NoEntries
    /\ cache' = NoEntries
    /\ epoch' = 0
    /\ loading' = {}
    /\ loader' = [i \in Slots |-> Free]
    /\ request' = [r \in Requests |-> Done]
    /\ UNCHANGED <<db, settled, floor, highest>>

RequestStep(r) ==
    \/ \E t \in Tenants : Ask(r, t)
    \/ LookAtLegacy(r)
    \/ LookAgain(r)
    \/ ScheduleLoad(r)

LoaderStep(i) ==
    \/ \E ok \in BOOLEAN : ReadTenant(i, ok)
    \/ \E valid \in BOOLEAN : StoreLoaded(i, valid)
    \/ \E ok \in BOOLEAN : LoadLegacy(i, ok)
    \/ Unmark(i)
    \/ Release(i)

Next ==
    \/ \E r \in Requests : RequestStep(r)
    \/ \E i \in Slots : LoaderStep(i)
    \/ \E t \in Tenants, here \in BOOLEAN : Commit(t, here)
    \/ \E t \in Tenants : InvalidateTenant(t)
    \/ Tick
    \/ Restart

Spec == Init /\ [][Next]_vars

Loading(i, t) == loader[i] # Free /\ loader[i].tenant = t

\* Goroutines run, time passes, Postgres answers some of a tenant's queries
\* with a document that is still valid, visitors keep coming to every
\* tenant, and one day the node stays up.
FairSpec ==
    /\ Spec
    /\ <>[][~ Restart]_vars
    /\ WF_vars(Tick)
    /\ \A r \in Requests :
        WF_vars(LookAtLegacy(r)) /\ WF_vars(LookAgain(r)) /\ WF_vars(ScheduleLoad(r))
    /\ \A t \in Tenants : SF_vars(\E r \in Requests : Ask(r, t))
    /\ \A i \in Slots : WF_vars(LoaderStep(i))
    /\ \A t \in Tenants :
        /\ SF_vars(\E i \in Slots : Loading(i, t) /\ ReadTenant(i, TRUE))
        /\ SF_vars(\E i \in Slots : Loading(i, t) /\ loader[i].found
                                    /\ StoreLoaded(i, TRUE))

-----------------------------------------------------------------------------
(* What must hold. *)

Cached(t) == IF t \in DOMAIN tenantCache THEN tenantCache[t].ver ELSE 0

\* Once InvalidateTenant returned on this node, the node never again holds a
\* revision older than the one the handler had committed, although a loader
\* that read the old revision may still be on its way to the cache.
NotOlderThanInvalidation ==
    \A t \in Tenants : Cached(t) > 0 => Cached(t) >= floor[t]

\* A node never falls back to an older revision than one it has cached, even
\* when the newer one came from another node and nothing invalidated here:
\* loads of one tenant do not overtake each other.
NeverRegresses ==
    \A t \in Tenants : Cached(t) > 0 => Cached(t) = highest[t]

\* What a request for the tenant is given now, if the node knows a policy.
Served(t) == IF Live(tenantCache, t) THEN tenantCache[t].ver ELSE 0

Feed(t) == INSTANCE PolicyFeed WITH answers <- Served(t), newest <- highest[t]

\* The cache, its loaders and invalidations implement what the guard relies
\* on, tenant by tenant: whatever expires, is evicted or invalidated, the
\* policy served is none, or one no older than any served before.
ServesFeed ==
    /\ \A t \in Tenants : Feed(t)!FeedInit
    /\ [][\A t \in Tenants : [Feed(t)!FeedNext]_(Feed(t)!feedVars)]_vars

\* The staleness bound across nodes: a revision that has been the latest for
\* cacheTTL and one database timeout is the only one this node serves.
StaleOnlyUntilSettled ==
    \A t \in Tenants :
        (settled[t] = Settled /\ Live(tenantCache, t) /\ Cached(t) > 0)
            => Cached(t) = db[t]

\* A tenant has at most one load under way, and is marked as loading exactly
\* as long as it has one.
Loads(i) == loader[i].step \in LoadSteps \ {"release"}
OneLoadPerTenant ==
    /\ loading = {loader[i].tenant : i \in {j \in Slots : Loads(j)}}
    /\ \A i, j \in Slots :
        (Loads(i) /\ Loads(j) /\ loader[i].tenant = loader[j].tenant) => i = j

\* Every loader gives its slot back.
SlotsComeFree == \A i \in Slots : (loader[i] # Free) ~> (loader[i] = Free)

\* The last revision of a tenant with traffic reaches the cache, whether or
\* not this node was told of it, unless the loaders are once at capacity.
AtCapacity == \A i \in Slots : loader[i] # Free
LastRevisionArrives ==
    \A t \in Tenants :
        (db[t] = MaxVersion) ~> (Cached(t) = MaxVersion \/ AtCapacity)
=============================================================================
