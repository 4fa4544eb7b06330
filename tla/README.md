# Bot-shield: a TLA+ model of the backend's stateful core

The Go backend (`src/backend`) is a reverse proxy that scores every request,
applies the policy its customer (a tenant) has rolled out, challenges or blocks
bots, and gives the customer a dashboard. Most of a request is a pure function of
its bytes. What is hard to get right is the state that requests, dashboard calls,
background goroutines, nodes and the database share. This project models that
state, checks it with TLC on small instances, and proves its safety properties with TLAPS
for instances of any size.

Source paths below are relative to `src/backend`.

## Inventory

### How the parts interact

A request enters `core.Guard`. It finds its tenant by host (**tenant store**), its
policy (**policy provider**), collects signals (headers, TLS fingerprints,
**Redis-backed velocity and crawl checks behind the circuit breaker**, honeypot
memory, good-bot lookups) for the address its own proxies report (**identity**),
decides, lets a **challenge** be issued or verified, rewrites the page of a
deceived visitor (**proxy**),
records the decision in the tenant's counters, evidence trail and **shadow
measurement**, and offers samples to **label collection**. The dashboard API
(`api`) saves, rolls back and activates policy revisions through the **tenant
policy store** and invalidates the provider of its own node only. A node shares
nothing with another node but Postgres and Redis.

| part | state | operations | what is hard | what makes it correct |
|---|---|---|---|---|
| Tenant policy store and rollout API (`tenantpolicy/store.go`, `api/tenant_policy.go`) | revisions per tenant in Postgres; the tenant row lock | Save, Rollback, LoadLatest, activation | reads outside the transaction that writes; lost commit answers; a node's crash in a transaction | an enforced document was measured, in shadow, for long enough, and nobody committed between the check and the insert |
| Shadow measurement (`evidence/shadow.go`) | per tenant object and node: counts and first/last time of a few versions | Observe, Snapshot | opinions arrive late and out of order; old versions are evicted; memory only, and it goes with the tenant object | never claims more than was seen; the version being rolled out is not lost |
| Policy provider (`policyprovider/provider.go`) | tenant cache, owner cache, epoch, loading marks, loader slots | ForTenant, InvalidateTenant, background load | a load races an invalidation; eviction; slots; no news from other nodes | nothing older than the last invalidation; bounded staleness; the last revision arrives |
| Redis breaker and checks (`signals/redis_circuit.go`, `velocity.go`, `pattern.go`) | openUntil, probeInFlight | allow, success, failure | late reports of calls that were admitted earlier, and calls longer than the cooldown | probes a whole cooldown apart; recovery |
| Tenant store (`tenant/tenant.go`) | byHost, byID, negative host memory, shared lookups, slots | GetByHost, GetByID, Add | two load paths race each other and the table | a host never changes hands; the two maps agree; an active domain is itself routed, unless its host had another owner |
| Label collection (`labels/`) | parked samples, identity cap, queue, batch | ChallengeIssued, ChallengeSolved, HoneypotTripped, Record, Close, the writer | Close while handlers still record; caps and sweeps; a partial batch | one label per challenge; a bounded share per client; no send on a closed queue; nothing queued is forgotten |
| Challenge, verification (`challenge/challenge.go`, `admission.go`) | nonce stores (Redis with a local fallback), verification slots | issue, verify, redeem a token | consume before verify; a store that changes in between; a verify call suspended for long | one challenge is solved once per store in the life of its token; slots come back; nobody is refused for a marker that died long ago |
| Challenge, visitors (`challenge/auth.go`, `adaptive.go`, `telemetry.go`, the page's script) | two signed cookies in the browser: failures counted, the solve | serve a puzzle, verify, record or clear failures, Passed | tabs overwrite each other's cookies; servers' clocks differ; answers come late or never | trust lasts no longer than the puzzle solved buys; nobody is escalated for failures it has not made |
| Guard (`core/guard.go`, `core/measure.go`) | none of its own, a request's locals | ServeHTTP | asks the provider more than once in one request | a request follows one policy; a shadow policy changes nothing |
| Policy evaluation (`policy/`) | none | Evaluate, Validate, route class | first match, modes, route classes | a draft decides nothing; no rule weakens strong evidence |
| Honeypot memory, good bots, JA4 lists (`signals/`) | bounded maps with lifetimes, polled lists | Trip, lookups, replace | expiry by sweep only; cached refusals | bounded memory, no answer older than its lifetime |
| Capture and identity (`core/capture.go`, `identity.go`, `proxy.go` Rewrite) | a request's context | ClientIP, host checks, Rewrite | any header may be forged; several trusted proxies | the visitor is known by its own address and the origin is told only what the node knows |
| Deceived pages (`core/proxy.go`, `deception/`) | a buffer per response | readBody, deceiveResponse, InjectPayload | pages at, below and above buffer and cap; pieces; a connection that ends early | every byte once, and a length that fits |
| Promotion of a model (`decide/evaluation.go`) | none | SplitLeakageSafe, RunPromotion | a visitor on both sides of the split | a model is promoted on visitors it has not seen |
| Dashboard authentication (`auth/jwt.go`) | key set, unknown-key memory, refresh lock | Verify, refresh | rotation during a refresh | a rotation is noticed within the copy's lifetime, a new key within ten seconds |
| Evidence trail, counters (`evidence/evidence.go`, `stats/`) | ring buffer, atomics | Record, Query | two writers of the trail, the guard and a solved challenge; the ring's edge | trail and counters agree when nothing is under way |
| Scoring, the learned model itself, legacy rules, settings, other handlers, wiring, UI | none that interleaves | | | see "Not modelled" |

`PROJECT.json` lists every part with its sources, and every hazard with the line
where it bites.

## The modules

Each module with variables has one action per step that other goroutines can
observe: a method that runs under one mutex is one action; a function that locks
twice, or calls the database in between, is several.

**PolicyLog** is the abstract promise of the rollout: a log of revisions to which
one is appended at a time, a shadow document or the activation of a measured one.

**ShadowStats** (`evidence/shadow.go`) is a library of operators on a measurement:
which versions are kept, Observe with the eviction of the oldest, the readiness
test of the activation handler. Counts and times are capped by named bounds.

**TenantPolicy** (`tenantpolicy/store.go`, `api/tenant_policy.go`, and the guard's
call of Observe) composes the two: nodes with measurements, handlers with a
program counter, the database. A handler reads before the transaction, takes the
tenant's row lock, checks the expected version, inserts, commits, and loses any of
these steps to an error; `Crash` kills a node's handlers and measurement and gives
its locks back. `Replace` is the end of a second load of the tenant (`tenant.Store.Add`),
whose object, with an empty measurement, takes the first one's place. An opinion
may be counted ticks after the guard formed it (`Observed`), so `Observe` can be late. `TenantPolicy` implements `PolicyLog` by the refinement
mapping at its end.

**PolicyProvider** (`policyprovider/provider.go`) is one node's cache in the
asynchronous mode production uses. `ForTenant` is `Ask`, `LookAtLegacy`,
`LookAgain` and `ScheduleLoad` (the code takes the mutex anew for each); a loader
is `ReadTenant`, `StoreLoaded`, `LoadLegacy`, `Unmark`, `Release`. The database is
a version per tenant, advanced by this node's handlers (`Commit(t, TRUE)`, later
followed by `InvalidateTenant`) and by others (`Commit(t, FALSE)`). Time is
relative: entries and queries carry what is left of their lifetime.

**PolicyFeed** is the abstract promise of the provider to the guard, for one tenant: it
answers with no policy, or with one no older than any it has answered with
(`Forget`, `Learn`). `PolicyProvider` implements it once per tenant, by the mapping
`Feed(t)` (what a live entry serves; the highest version ever cached), and `Guard`'s
`ProviderChanges` is a step of it. What Guard assumes of its provider is therefore what
PolicyProvider is shown to give.

**RedisCircuit** is the breaker and the requests that go through it. A request has
a plan of checks; a check asks `allow()`, calls, and reports. The JA4 check may
ask and return without either (`ReturnExempt`), as velocity.go:130-139 does. A call
may outlast the cooldown: the 50 ms context of velocity.go:78 does not bound a read,
because main.go:180-183 leaves go-redis' `ContextTimeoutEnabled` off. `gap` is the time
since the last probe.

**TenantStore** is one node's tenants. A request is `Ask`, `CheckNegative`, `Join`
or `Start` or `Busy`; the shared lookup is `FetchRow` or `FetchFails`, `AddRow`
and `ReturnAdded` or `ReturnMissed`; the dashboard's path is `AskByID`,
`FetchByID`, `AddByID`, `ReturnByID`. Object identity matters, because a tenant's
counters and evidence live in the object: it is a `copy` number.

**PendingSamples** and **IdentityCap** are libraries of operators on the two
bounded maps of `labels/`; each operation of the code runs under one mutex, so
each is one step of whoever calls it. **Labels** composes them with the
collector's queue, its background writer and `Close`. `Record`'s closed check and
its send are two steps under the read lock; the write lock excludes them.

**NonceStore** (`challenge/challenge.go`, `localNonceStore`) is a library of
operators on a node's own memory of used puzzles: sweep, refuse, mark, compact.

**Challenge** composes it with Redis, the verification slots and the age of the
signed tokens. A verify call is `Admit`, `Parse` (the token's age), `ReadClock`
(the `now` its marker will carry), then `SetNX`, or `SetNXFails` and
`ConsumeLocal`, and `End`. Any two may be ticks apart: `lag` is how old a call's
`now` is, and a marker's `left` is what remains of its life. A refusal by the full
ceiling changes nothing and is no step. A page may answer as soon as it likes: the
code measures a fast solve and accepts it. `accepted` is a history variable: how often
each store took a puzzle.

**Policy** (`policy/`) is a library: matching, the first rule that decides, what may
be saved, the class a path gets. A request's facts are its score and its marks
(what conditions can be about).

**Guard** (`core/guard.go`, `signals/honeypot.go`, `evidence/evidence.go`,
`stats/stats.go`) is the way of a request, for one tenant. `Arrive` finds the
tenant, asks the provider once and picks the route: the trap, a verified bot of a
node without a provider, a visitor with the passed cookie, or one that is scored.
`Trap` or `EvaluateSignals` decides; `Count` and `Log` are two steps, in the order
of the route (a scored request is logged first, the others are counted first);
`Reply` ends it. `ObserveSolve` is the trail's other writer, the callback of
main.go:218-228: a solved challenge with shadow signals is recorded as an allow that no
counter counts. `observed` counts those. `ProviderChanges` may come between any two of them and does what
`PolicyFeed` allows, no more and no less. What a
visit looks like (its score without the stateful checks, its marks, its bot claim,
the classes whose buckets it finds crowded) is an input. The guard's calls of
`Observe`, of label collection and of the challenge are in the modules of those
parts.

**GoodBots** (`signals/goodbots.go`) is the lookup that verifies a crawler: `AskBot`
(the cached verdict), `TakeSlot`, `DNSAnswers`, `CacheBotResult`. DNS is the
environment: it confirms a bot or does not, changes its mind, fails. **Keys**
(`auth/jwt.go`) is the choice of the key that checks a dashboard session: `Verify`,
then under the refresh lock `RecallAgain`, the request, `InstallKeys` and `Resolve`.
A token is the identifier of its key; `EmptyKid` is the one of a token that has none.

**ChallengePage** (the script in `challenge/challenge.go`, `telemetry.go`) is a
library: what the page makes of a browser (its signs of automation, its graphics
driver against the systems it claims, the lengths of its two canvases), what it
posts, and what `verify` earns it, in the order of the checks. How long an image gets in
the posted form depends on what was drawn, so a browser brings both lengths. **Visits**
(`challenge/auth.go`, `adaptive.go`) is one browser between challenges: a cookie jar,
tabs that each hold a puzzle (`AskForPage`), an answer under way (`VerifyAnswer`, with
the cookies of the moment it is posted), and its arrival (`ReceiveAnswer`) or loss.
Every cookie is dated by the server that wrote it and read by any other, whose clock
may be `MaxSkew` ticks ahead. `trust` and `streak` are history variables: how much
longer a solve deserves to be trusted, and the failures in a row that are within a
failure's life of each other. Whether the nonce is still unused is an input:
Challenge is about that.

**Forward** (`core/identity.go`, `capture.go`, the `Rewrite` of `proxy.go`) is one
request on its way: the visitor begins X-Forwarded-For as it likes and forges every
header or none, trusted proxies append or begin it anew (`PassProxy`), it arrives over
plain HTTP or TLS (`ArriveOver`), `GuardRequest` checks its host and resolves its
address, `RewriteRequest` sets what the origin is told.

**OriginPage** (`core/proxy.go`, `deception/deception.go`) is one response of an
origin, which sends its body in pieces and may be cut off. `BufferFull`, `GrowBuffer`,
`ReadFails` and `HandBack` are the read of at most `Cap` bytes plus one and its
three ends; `Rewrite` injects and sets the length; what is not rewritten is
copied. A page is its length and the order of its bytes.

**Evaluation** (`decide/evaluation.go`) is the split of labelled requests by time and
visitor and the comparison that promotes a model or holds it (`RunPromotion`). Rates on
one holdout have one denominator, so they are compared by their counts. No program of
the repository calls `RunPromotion` yet; its tests do.

`Visits`, `GoodBots`, `Keys`, `Forward`, `OriginPage` and `Evaluation` share no state
with each other, with PolicyProvider or with Guard: what one of them finds out about a
visitor, Guard leaves open. `MCVisitor` therefore explores the six and PolicyProvider's
two-tenant instance side by side, one `part` per behaviour, and never interleaves them; as no part reads a variable of another, the states of each part
are exactly those of its own specification.

`MCTenantPolicy`, `MCPolicyProvider`, `MCRedisCircuit`, `MCTenantStore`,
`MCLabels`, `MCChallenge`, `MCGuard`, `MCVisitor` and `MCOriginPage` hold what only TLC needs.
`TenantPolicyProofs`, `RedisCircuitProofs`, `TenantStoreProofs`, `LabelsProofs`,
`PolicyProviderProofs`, `GuardProofs`, `ChallengeProofs` and `VisitorProofs` hold the
theorems; those about Evaluation are in `LabelsProofs`, those about Forward, Visits,
GoodBots, Keys and OriginPage in `VisitorProofs`.

Definitions with an underscore (`Holdout_Leaking`) are mutants: plausible wrong
versions of the definition they are named after. No specification uses them;
replacing the original by one of them breaks the property `PROJECT.json` pairs it
with.

## The runs

| run | asks | instance | why it is enough |
|---|---|---|---|
| `rollout_nodes` | what do measurements claim? | 2 nodes, 1 handler, 1 document, 1 kept version, 2 opinions and 2 ticks needed | the eviction, a crash or a replaced object between two opinions, a late opinion and a measurement on the wrong node all happen; 3 revisions are shadow, activation, and one more |
| `rollout_handlers` | do two handlers race safely? | 1 node, 2 handlers, 2 documents, readiness 1/1 | two transactions, and a rollback, overlap at every step; 3 revisions |
| `provider_loads` | do loads and invalidations order? | 1 tenant, 2 slots, 2 versions | two loads of one tenant can overlap only here; 2 versions give old and new |
| `circuit` | spaced probes, and recovery? | 2 requests, cooldown 2, calls of up to 3 ticks | a call outlasts a cooldown, and fails or succeeds while a probe is on the wire |
| `circuit_lost_probe` | does every probe end? | 1 request | expected violation, see Findings |
| `tenants` | do two load paths agree? | 2 IDs that share one host, an unknown host, 2 callers, 1 slot, 1 negative entry | two rows of one host one after the other; negative memory and slots are full after one use |
| `tenant_burst` | does a burst share a tenant? | 1 ID, 1 host, 2 callers | expected violation, see Findings |
| `labels` | caps, queue, shutdown? | 2 clients, 2 nonces, 1 handler, 1 parked sample, 1 tracked identity, queue of 1, batch of 2, window of 2 ticks | each bound is met by the second sample |
| `challenge` | is a puzzle used once per store in its token's life, and is anybody refused needlessly? | 1 node, 2 calls, 2 slots, lifetime 2, pause 1, 2 stored markers; 2 puzzles beside Redis with 1 marker in the fallback, or 3 puzzles with Redis away (`MCSmall`) | two calls race for one puzzle, which can expire between the check of its age and its marker; the full store's front lives while a later marker is dead, and a queue of 2 is compacted; a third call would be turned away and changes nothing |
| `guard` | does a request follow one policy, and do the books agree? | 2 requests of 10 kinds, 2 callers, 4 configurations of a tenant, a draft and its enforced form with 8 rules, 1 trip remembered for 1 tick, 1 solve recorded, a trail of 2 | every route, rule action and answer occurs, and a request of each kind overlaps one of each other and the other writer; the third record drops the first |
| `visitor` | seven questions side by side | see the next table | |
| `truncated_page` | does a cut page reach the visitor as complete? | pages of 0 to 5 bytes | expected violation, see Findings |

The parts of `visitor`:

| part | asks | instance | why it is enough |
|---|---|---|---|
| PolicyProvider | how stale can an answer be? | 2 tenants, 1 cache entry, 1 slot, 2 versions, lifetime 1, loads of up to one tick; `MCFewRevisions` | every store of one tenant evicts the other; a read may be overtaken by a commit |
| Visits | is trust earned, is escalation? | 2 tabs, 2 servers a tick apart, a browser that solves and one that cannot, scores 0 and 50, trust for 2, 1 and 0 ticks, failures remembered for 1, counted to 2 | two tabs' answers cross each other, the clocks and the cookies' lives; 2 failures make one step; score 0 gives difficulty 1, or 2 after two failures, and score 50 gives 3 |
| GoodBots, Keys | how old can a remembered answer be? | 2 bots, 2 claims, 1 slot, 1 verdict kept for 1 tick; 2 identifiers of keys, one of them empty, 2 sessions, 1 remembered, lifetimes of 2 ticks, calls of 1 | the second bot finds the cache full and the slot taken; a key is withdrawn while it is fetched, and the empty identifier keeps its place |
| Forward | can anything be forged? | 1 proxy address, 2 others, garbage; 2 forged entries, 2 hops; 2 host names | a forged entry, a trusted hop and the visitor in every order |
| OriginPage | does the body arrive? | pages of 0 to 5 bytes, a first buffer of 2, a cap of 3 | below, at and one past both limits, in pieces of every size |
| Evaluation | whom is a model promoted on? | 3 requests of one named visitor and of nobody, at 2 times, 2 of 3 held out | the named visitor lies on both sides of the split, with ties in time |

Bounds that exist only in the models: `MaxRevisions`, `MaxTime`, `MaxObserved`
(TenantPolicy), `MaxVersion` (PolicyProvider), `MaxRequests`, `MaxObserved` (Guard), `MaxForged`,
`MaxHops` (Forward), `Lengths` (OriginPage) and `MaxSamples` (Evaluation). The others are the
code's own limits at small values (`MaxEntries`, `MaxPending`, `MaxIdentities`, `QueueSize`,
`LookupSlots`, `CacheTTL`, ...). `MaxPause` (Challenge) is the longest a
verify call is suspended before its marker is written; the theorems hold for any value,
and the runs take one tick of a token's two. `CallTimeout` (RedisCircuit) is the longest
call and is longer than the cooldown in the runs, as it may be in the code.
`MCFewRevisions` allows the two tenants two revisions
together, with at most one invalidation pending for each. Ages and remaining times
stop at the limits they are compared with, so the clock itself is unbounded. `epoch`
in PolicyProvider is bounded by the number of commits between two restarts.

Every component's type invariant is a theorem. TLC checks those that bound a memory
(Guard's `TypeOK` bounds the trips of the trap, Challenge's the markers of a node).

Deadlock is checked in every run: no model may stop. `Forward` has a step for a
request that is done, `OriginPage` one for a visitor that has its page.

## Fairness

- TenantPolicy: weak fairness of each handler's own steps (a goroutine that can
  run does; a database call returns or times out), and strong fairness of taking
  the row lock, because Postgres queues those who wait for a row.
- PolicyProvider: weak fairness of goroutines and the clock. Strong fairness of
  a request for each tenant and of successful reads says "if visitors keep coming
  and Postgres keeps answering some of the queries"; without either nothing
  could ever be loaded. The node restarts finitely often.
- RedisCircuit: weak fairness of requests and the clock; that Redis is back for
  good is a premise of the property, not of the specification.
- TenantStore: weak fairness of calls, lookups and the clock. `ActiveIsRouted`
  states its own premises: visitors keep asking, lookups do not fail for ever, and the
  host is not mapped to a former owner.
- Labels: weak fairness of handlers, `Close`, the writer and the flush ticker;
  nothing forces a challenge to be issued or solved.

## Proofs

The theorems hold for every value of the constants that satisfies the named
assumptions; TLC evaluates those assumptions in each run.

**TenantPolicyProofs.** `IInv` strengthens the safety properties: the table's
versions are contiguous; a call past the lock holds it and no other call does, so
the version it checked is still the latest when it inserts; a measurement's
version is one that was committed as a shadow revision, or is the version of a
committed revision only, with count and span bounded by the opinions the guard
really formed. `Invariance` is the usual three facts with one step per action.
From it follow the type invariant, `EnforcedWasMeasured`, `EnforcedAfterSoak`,
`CheckedVersionIsLatest`, `MeasurementsAreHonest`, and the implementation of
`PolicyLog` (`RolloutImplementsLog`). `LatestIsNeverLost` is an action property: however
opinions come late and versions are evicted, no step drops the measurement of the
tenant's latest version, but for the two that drop the whole object: a restart and the
second load of `tenant_burst`. An evicted version is the one first seen longest ago, and the
latest was first seen after every older one (`FirstIsATime`).

**RedisCircuitProofs.** `ProbesAreSpaced` is not inductive: a late report clears
`probeInFlight` while a probe runs. But the same report closes the breaker or starts
another cooldown. The invariant (`CooldownCovers`) adds that while the breaker is open
and no probe is marked, the time since the last probe and what is left of the cooldown
make up a whole one. Nothing is assumed of how long a call lasts.

**TenantStoreProofs.** The safety of the two maps is nearly inductive. What it lacks
is that a host leads to an object of its own tenant (so replacing a tenant under its
ID leaves other hosts alone), that a host lookup holds a row of its own host, and
that what a load has added is still under its ID when the load returns. `AddRight`
is the heart: one registration under the lock, allowed by `Mappable`. The bound of
the negative memory takes the cardinality of the entries that survive an eviction.

**LabelsProofs.** The invariant `OnePlace` says where a challenge's sample can be:
not yet issued, parked, held by one handler, or counted once, and never in two of
these. `NeverSendsOnClosed` needs only the lock's two guards. The bounds of the
stores and the queue are part of the type invariant, with `BatchWaits`: the writer
goes back to waiting only with room in its batch. `SlidingCap` speaks of the ages of
the samples taken from one client, the code's memory holds only the start of a window
and a count or two: `WindowsKept` says that the memory counts every sample still young
enough to matter (`WindowCounts` for a sample taken, `WindowAges` for a tick), also
when a full table gave the entry up. Evaluation: the places of the requests in the
stable order by time are a bijection onto 1 .. n (`PlacesCount`), so the training side
is the earliest requests, as many as the fraction asks for (`TrainingIsForemost`), and
what is graded is exactly the latest requests of visitors not among them
(`HoldoutIsStrangers`).

**PolicyProviderProofs.** The three promises about staleness need a statement about
what is on its way to the cache. `LoadOK`: a loader about to store holds a version
no older than any cached before and, if no invalidation has passed it by, no older
than the last one; if that version is stale, the clock of its tenant has run less
than its query. `EntryOK` says the same of an entry and what is left of its life.
`StoreLoaded` passes one to the other. That nobody else has raised the highest
cached version meanwhile is exactly `OneLoadPerTenant`, and a restart keeps
`LoadOK` because everything cached was committed (`BoundsOK`).
`ServesTheFeed` is the refinement of `PolicyFeed`: a step leaves what a tenant is served
alone, makes it nothing (`ServesLess`: expiry, eviction for another tenant,
invalidation, a restart, a document that is no longer valid), or stores a policy no
older than the highest (`ServesMore`, by `LoadOK`). `ImplementsTheFeed` says it for one
tenant in the form `Spec => Feed(t)!FeedSpec`; TLC checks `ServesFeed`, the same for all
tenants at once, since it takes no temporal formula under a quantifier.

**GuardProofs.** `JudgedRight` says that a decision is the one of the policy the
request arrived under. With it, that drafts are harmless and that hard evidence
stops a visitor are facts about the operators that decide (`DraftDecidesNothing`,
`HardStaysHard`), for any rules, labels and lists. The books need an account of the
requests between the two: per decision, `RecordsCounted` sets what is in the trail
and what is counted but not logged against the counter and what is logged but not
counted; `TrailFull` says how long the trail is by the same difference and the solves
observed, and `ObservedRight` that the other writer's records are no more than those.

**ChallengeProofs.** `OncePerLife` says that no store takes a puzzle twice before its
token's age reaches `MaxAge`, and it holds because a used puzzle's marker lives as long.
`ChallengeInv` is the type invariant, `SlotsAccounted`, what a call in progress knows
(`CallsRight`), and one statement per store, `RedisRight` and `NodeRight`: a puzzle that
was accepted has a marker as long as its token lives. `Covers` is the heart of it: a
token's age and what is left of its marker's life make up `MaxAge`. Nothing relates the
pauses to the token's life, and an answer may come at once. The store's operators have
lemmas of their own (`SweepRight`, `CompactRight`, `MarkRight`, `ConsumeRight`,
`OlderRight`): the queue holds each marked puzzle once, behind its head, and sweeping
or compacting it forgets nothing that lives. `NoNeedlessRefusal` follows from the
order of the queue: no entry outlives one behind it by more than `MaxPause`, so behind
a head that lives nothing died long ago.

**VisitorProofs.** Forward: once a proxy has handled it, the header ends with the
visitor's address and trusted ones behind it (`EndsWithVisitor`), whatever stands
before and for any number of hops; `Nearest` finds exactly that entry. Visits: a solve's
cookie, in the jar or under way, has no more of its window left than `trust`
(`PassedRight`), and a cookie of failures counts no more than `streak`, whose last
failure is no older than the cookie but for `MaxSkew` (`AttemptRight`). Both histories
carry `MaxSkew` because a server whose clock is ahead dates a cookie into the future
of the others. GoodBots: DNS gave a remembered verdict no longer ago than its entry has
aged and a lookup may take (`CacheRight`), and one about to be stored no longer ago than its
request has paused (`StoresRight`). Keys: the same of the copy of the key set and of the
memory of unknown keys (`MemoryRight`), and of the one refresh under way, whose answer is
as old as it has paused (`SessionsRight`).
OriginPage: `PageInv` lists what a visitor may hold at each step (nothing yet, a prefix
of the origin's bytes on its way, the whole body as it is or with the payload in it and
a length that fits, or an error page); `BytesGrow` and `InjectedPage` are about the
order of bytes.

**Only model-checked.** Every safety property of the runs, invariant or action property,
is a theorem. What stays with TLC is liveness (`CallsReturn`, `SlotsComeFree`,
`LastRevisionArrives`, `Recovers`, `ActiveIsRouted`, `CloseFlushes`,
`NothingStaysQueued`): the prover handles neither fairness nor ENABLED. The three
findings are counterexamples of TLC.

## Findings

- `circuit_lost_probe` (`signals/velocity.go:130`): the JA4 check takes the
  breaker's only probe and returns without a call or a report for a fingerprint it
  does not count. The breaker then refuses everyone for good, against the comment
  at `redis_circuit.go:16-18`.
- `tenant_burst` (`tenant/tenant.go:190`): a visitor that missed before a shared
  lookup ended and joined after it starts a second lookup, whose `Add` replaces the
  tenant others hold; `lookup_test.go:70-71` says a burst must not.
- `truncated_page` (`core/proxy.go:192`): a short read and a connection closed early are
  both `io.ErrUnexpectedEOF`, so a piece of a page is rewritten and sent as complete,
  against the comment at `proxy.go:185-189`.

Not findings, but worth knowing:

- A used puzzle's marker is written to Redis or to the node's own memory, never to both
  (`challenge/challenge.go:302`), so one failed call between two answers lets even a
  single node accept a puzzle twice; `OncePerLife` promises no more.
- A verify call that is suspended between the check of the token's age and the end of the
  token's life finds the marker gone and is accepted again (`challenge.go:742-758`).
- `tenant_policy.go:191-193` says that measurements are reset on process restart; they
  are also lost when a second load replaces the tenant object (`tenant.go:108-132`).
- A host registered by a new owner is never routed to it on a node that has mapped it to
  the deleted domain of another, until that node restarts (`tenant.go:120-124`).
- The trail holds allows that no counter counts: solved challenges with shadow signals
  (main.go:218-228). The outcome recorder beside it (main.go:204-217) touches only the
  counters of solved and failed challenges, which are not modelled.
- A crawler that finds no lookup slot is refused for the six hours of a verdict.
- A token without a key identifier is remembered under the empty string, which the
  loop at `auth/jwt.go:188-195` also uses for "no candidate yet": the memory of unknown
  keys can exceed its cap while that entry lives.
- A success that is reported late closes the breaker before its cooldown ends.
- Any late report clears the mark of a running probe (`signals/redis_circuit.go:52`, `:59`),
  and a call may outlast the cooldown: the client of main.go:183 has no
  ContextTimeoutEnabled, so the 50 ms context of `velocity.go:78` does not bound a read.
  Two probes can then be on the wire together, which `redis_circuit.go:16` ("exactly one
  caller") rules out; they are a cooldown apart (`ProbesAreSpaced`).
  `docs/ARCHITECTURE.md:135` ("Redis capped at 50 ms") and main.go:175 ("their own bounded
  context") take the context for a bound of the call.
- An error of any kind, a timeout included, makes a host unknown for 30 s.
- A trip that has lapsed and was not swept is reported as a repeat (`honeypot.go:97`),
  so a caller that comes back to the trap after six hours may leave no record, although
  `honeypot.go:79-80` says "within the TTL".
- Two comments of `guard.go` are behind its code: a visitor with a solved challenge is
  still scored (lines 106-108), and `evaluateTenantPolicy` enforces (lines 419-421).
- Two tabs that fail together count one failure, and one that fails late brings back
  the count another tab's solve has cleared (`challenge/auth.go:82-83` speaks of a
  clean slate). `EscalationIsEarned` is therefore stated about failures, not about solves.
- A failed solve makes the next puzzle "one step harder" by `auth.go:63-64`; two do, by
  `adaptive.go:51-54`.
- A puzzle or a cookie from a server whose clock is ahead is refused by the others until
  they catch up, and a clock that is set back while the page works yields a negative
  `elapsed` and a 400.
- The driver check "only fires when both sides are legible" (`challenge.go:599-601`), but
  it fires whenever platform and user agent name no system of the driver's.
- A verify call refused for lack of a slot relies on a page that "retries"
  (`challenge.go:726-727`); the page shows a link.
- A settings row that cannot be read leaves the legacy policy with the live threshold
  (`policyprovider/provider.go:290-294`).
- A model is promoted on a holdout of bots only (`decide/evaluation.go:282`), although
  line 261 says that a one-sided one promotes nothing; with equal times the holdout is not
  "strictly later" than the training side (lines 180-182).

## What the models leave out

- The data of requests, documents and samples, as far as no property tells it
  apart: a document is a model value, a policy its version, a sample its nonce.
- Reading the clock and taking the mutex are one step (`labels/cap.go` and the
  breaker read it just before the lock).
- Challenge: signatures, the hashes of the proof of work and the pixels of the canvas
  are one mark each; Redis losing a marker before its time; the telemetry that is only
  counted.
- TenantPolicy: a request or a handler that still holds a replaced tenant object; what it
  counts is lost, and what it reads it could have read before.
- ChallengePage: how much form encoding adds to an image, and with it whether the page's
  limit on two canvases (`challenge.go:635`) fits the verify call's on the body.
- Guard: how a bot claim (GoodBots) or a passed cookie (Visits) is verified; the learned
  model's opinion and the egress meter, which decide nothing; reads of the dashboard.
- Forward and OriginPage: the parsing of addresses, hosts and ClientHello bytes, the
  choice of a public address of the origin, WebSocket upgrades, HEAD requests.
- Evaluation: probabilities, calibration, and the report's other numbers.
- PolicyProvider's synchronous mode, used by tests only.
- `Close` of the collector is modelled once; a second call returns at once.

### Not modelled

- The stateless signals of headers and user agents, apart from what Guard and Forward use
  of them: functions of one request's strings, covered by tests.
- The learned model and its training: floating point over files.
- JA4 lists: a poll replaces two lists under one lock and keeps the old ones after an
  error; whether a fingerprint is listed is an input of RedisCircuit and Guard.
- Legacy rules and settings, the other dashboard handlers, the database wrapper: reads
  and writes of one row each, without state of their own.
- Process wiring (flags, start-up, a periodic delete; the order of shutdown is in Labels),
  the dashboard's user interface, test clients and deployment files.

## Plan

What could be added, in this order:

1. **Policy**: evaluation against a reference definition over all small rule sets.
2. **Sample retention** beside the recorder, and the JA4 poll beside its readers.
3. An abstract specification of the tenant maps (one object per host in service), and
   one of a redeemed puzzle per store, for TenantStore and Challenge to implement.
