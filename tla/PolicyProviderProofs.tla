------------------------ MODULE PolicyProviderProofs ------------------------
(***************************************************************************)
(* Proofs about PolicyProvider, for any tenants, accounts, slots, requests *)
(* and lifetimes: what the cache may hold, whatever loads, commits and     *)
(* invalidations race.                                                     *)
(***************************************************************************)
EXTENDS PolicyProvider, TLAPS

(***************************************************************************)
(* The inductive invariant.  A cached policy is the highest this node has  *)
(* cached, is no older than its last invalidation, and if it is stale and  *)
(* still live it dies before its tenant settles.  What a loader is about   *)
(* to store is the same, if no invalidation has passed by; if it is stale  *)
(* the commit is more recent than its query.                               *)
(***************************************************************************)
EntryOK(t) ==
    (t \in DOMAIN tenantCache /\ tenantCache[t].ver > 0) =>
        /\ tenantCache[t].ver = highest[t]
        /\ tenantCache[t].ver >= floor[t]
        /\ (tenantCache[t].left > 0 /\ tenantCache[t].ver # db[t]) =>
               settled[t] + tenantCache[t].left <= Settled

LoadOK(i) ==
    loader[i] # Free =>
        /\ loader[i].epoch <= epoch
        /\ (loader[i].step = "store" /\ loader[i].ver > 0) =>
            LET t == loader[i].tenant IN
            /\ highest[t] <= loader[i].ver /\ loader[i].ver <= db[t]
            /\ loader[i].epoch = epoch => loader[i].ver >= floor[t]
            /\ loader[i].ver # db[t] => settled[t] + loader[i].budget <= DbTimeout

BoundsOK == \A t \in Tenants : highest[t] <= db[t] /\ floor[t] <= db[t]

IInv ==
    /\ TypeOK
    /\ BoundsOK
    /\ \A t \in Tenants : EntryOK(t)
    /\ \A i \in Slots : LoadOK(i)
    /\ OneLoadPerTenant

USE ProviderAssumption DEF ProviderAssumption

-----------------------------------------------------------------------------
(* Loaders and caches. *)

\* A loader that goes on keeps everything but its step.
LEMMA StepChange ==
    ASSUME NEW x \in Load, NEW s \in LoadSteps
    PROVE  /\ [x EXCEPT !.step = s] \in Load
           /\ [x EXCEPT !.step = s].step = s
           /\ [x EXCEPT !.step = s].tenant = x.tenant
           /\ [x EXCEPT !.step = s].epoch = x.epoch
BY DEF Load, LoadSteps

LEMMA NotFree ==
    ASSUME NEW x \in Load \cup {Free}
    PROVE  /\ x # Free => x \in Load
           /\ x.step \in LoadSteps <=> x # Free
           /\ x = Free <=> x.step = "free"
BY DEF Load, LoadSteps, Free

\* Storing replaces one entry and may evict others; what stays is unchanged.
LEMMA StoreEffect ==
    ASSUME TypeOK, NEW t \in Tenants, NEW v \in Versions, NEW ttl \in 0 .. CacheTTL,
           NEW e, epoch = e, StoreTenant(t, v, ttl, e)
    PROVE  /\ DOMAIN tenantCache' \subseteq Tenants
           /\ tenantCache' \in [DOMAIN tenantCache' -> TenantEntry]
           /\ t \in DOMAIN tenantCache'
           /\ tenantCache'[t].ver = v /\ tenantCache'[t].left = ttl
           /\ \A u \in DOMAIN tenantCache' \ {t} :
                 u \in DOMAIN tenantCache /\ tenantCache'[u] = tenantCache[u]
           /\ highest' = [highest EXCEPT ![t] = IF v > @ THEN v ELSE @]
<1> DEFINE entry == [ver |-> v, left |-> ttl]
<1>1. entry \in TenantEntry /\ entry.ver = v /\ entry.left = ttl
    BY DEF TenantEntry
<1>2. PICK K : tenantCache' = Set(Keep(tenantCache, K), t, entry)
    BY DEF StoreTenant
<1>3. highest' = [highest EXCEPT ![t] = IF v > @ THEN v ELSE @]
    BY DEF StoreTenant
<1> HIDE DEF entry
<1> DEFINE D == (DOMAIN tenantCache \cap K) \cup {t}
<1>4. tenantCache' = [u \in D |-> IF u = t THEN entry ELSE tenantCache[u]]
  <2>1. DOMAIN Keep(tenantCache, K) = DOMAIN tenantCache \cap K
      BY DEF Keep
  <2>2. \A u \in DOMAIN tenantCache \cap K : Keep(tenantCache, K)[u] = tenantCache[u]
      BY DEF Keep
  <2>3. Set(Keep(tenantCache, K), t, entry)
        = [u \in DOMAIN Keep(tenantCache, K) \cup {t} |->
              IF u = t THEN entry ELSE Keep(tenantCache, K)[u]]
      BY DEF Set
  <2> QED BY <1>2, <2>1, <2>2, <2>3
<1>5. DOMAIN tenantCache' = D
    BY <1>4
<1>6. \A u \in D \ {t} : tenantCache'[u] = tenantCache[u] /\ tenantCache[u] \in TenantEntry
    BY <1>4 DEF TypeOK
<1>7. tenantCache'[t] = entry
    BY <1>4
<1>8. tenantCache' \in [D -> TenantEntry]
    BY <1>1, <1>4, <1>6
<1> QED BY <1>1, <1>3, <1>5, <1>6, <1>7, <1>8 DEF TypeOK

LEMMA StoreOwnerType ==
    ASSUME TypeOK, NEW o \in Owners, NEW ttl \in 0 .. CacheTTL, StoreOwner(o, ttl)
    PROVE  DOMAIN cache' \subseteq Owners /\ cache' \in [DOMAIN cache' -> OwnerEntry]
<1> DEFINE entry == [left |-> ttl]
<1>1. entry \in OwnerEntry
    BY DEF OwnerEntry
<1>2. PICK K : cache' = Set(Keep(cache, K), o, entry)
    BY DEF StoreOwner
<1> HIDE DEF entry
<1>3. DOMAIN cache' = (DOMAIN cache \cap K) \cup {o}
    BY <1>2 DEF Set, Keep
<1>4. \A u \in DOMAIN cache' : cache'[u] \in OwnerEntry
    BY <1>1, <1>2 DEF Set, Keep, TypeOK
<1>5. cache' = [u \in DOMAIN cache' |-> cache'[u]]
    BY <1>2 DEF Set
<1> QED BY <1>3, <1>4, <1>5 DEF TypeOK

LEMMA InitIInv == Init => IInv
<1> SUFFICES ASSUME Init PROVE IInv
    OBVIOUS
<1>1. DOMAIN NoEntries = {}
    BY DEF NoEntries
<1>2. tenantCache \in [DOMAIN tenantCache -> TenantEntry] /\ cache \in [DOMAIN cache -> OwnerEntry]
    BY <1>1 DEF Init, NoEntries
<1>3. TypeOK
    BY <1>1, <1>2 DEF Init, TypeOK, Settled, Versions
<1>4. \A t \in Tenants : EntryOK(t)
    BY <1>1 DEF Init, EntryOK
<1>5. (\A i \in Slots : LoadOK(i)) /\ OneLoadPerTenant /\ BoundsOK
  <2>1. \A i \in Slots : loader[i] = Free /\ ~ Loads(i)
      BY DEF Init, Loads, Free, LoadSteps
  <2>2. loading = {}
      BY DEF Init
  <2>3. OneLoadPerTenant
      BY <2>1, <2>2 DEF OneLoadPerTenant
  <2> QED BY <2>1, <2>3 DEF Init, LoadOK, BoundsOK
<1> QED BY <1>3, <1>4, <1>5 DEF IInv

-----------------------------------------------------------------------------
(* Requests. *)

RequestType == request \in [Requests -> Asking \cup {Done}]

LEMMA RequestSteps ==
    ASSUME IInv, NEW r \in Requests,
           (\E t \in Tenants : Ask(r, t)) \/ LookAtLegacy(r) \/ LookAgain(r)
    PROVE  IInv'
<1>1. UNCHANGED <<db, pending, tenantCache, cache, epoch, loading, loader, settled, floor, highest>>
    BY DEF Ask, LookAtLegacy, LookAgain
<1>2. RequestType
    BY DEF IInv, TypeOK, RequestType
<1>3. RequestType'
  <2>1. ASSUME NEW t \in Tenants, Ask(r, t) PROVE RequestType'
      BY <1>2, <2>1 DEF Ask, RequestType, Asking
  <2>2. CASE LookAtLegacy(r)
    <3>1. request[r] \in Asking
        BY <1>2, <2>2 DEF LookAtLegacy, RequestType, Done
    <3>2. PICK s \in {"again", "schedule"} : request' = [request EXCEPT ![r].step = s]
        BY <2>2 DEF LookAtLegacy
    <3>3. [request[r] EXCEPT !.step = s] \in Asking
        BY <3>1 DEF Asking
    <3> QED BY <1>2, <3>2, <3>3 DEF RequestType
  <2>3. CASE LookAgain(r)
    <3>1. request[r] \in Asking
        BY <1>2, <2>3 DEF LookAgain, RequestType, Done
    <3>2. [step |-> "schedule", tenant |-> request[r].tenant] \in Asking
        BY <3>1 DEF Asking
    <3>3. \/ request' = [request EXCEPT ![r] = Done]
          \/ request' = [request EXCEPT ![r] = [step |-> "schedule", tenant |-> request[r].tenant]]
        BY <1>2, <2>3 DEF LookAgain, RequestType
    <3> QED BY <1>2, <3>2, <3>3 DEF RequestType
  <2> QED BY <2>1, <2>2, <2>3
<1>4. TypeOK'
    BY <1>1, <1>3 DEF IInv, TypeOK, RequestType
<1>5. (\A i \in Slots : Loads(i)' <=> Loads(i))
    BY <1>1 DEF Loads
<1>6. OneLoadPerTenant'
    BY <1>1, <1>5 DEF IInv, OneLoadPerTenant
<1> QED BY <1>1, <1>4, <1>6 DEF IInv, BoundsOK, EntryOK, LoadOK

\* A load starts: its tenant had none, and a free slot takes it.
LEMMA ScheduleLoadStep ==
    ASSUME IInv, NEW r \in Requests, ScheduleLoad(r)
    PROVE  IInv'
<1> DEFINE t == request[r].tenant
           x == [step |-> "read", tenant |-> t, epoch |-> epoch,
                 ver |-> 0, found |-> FALSE, budget |-> DbTimeout]
<1>1. /\ UNCHANGED <<db, pending, tenantCache, cache, epoch, settled, floor, highest>>
      /\ request' = [request EXCEPT ![r] = Done]
    BY DEF ScheduleLoad
<1>2. t \in Tenants
    BY DEF ScheduleLoad, IInv, TypeOK, Asking, Done
<1>3. request' \in [Requests -> Asking \cup {Done}]
    BY <1>1 DEF IInv, TypeOK
<1>4. CASE UNCHANGED <<loading, loader>>
  <2>1. TypeOK'
      BY <1>1, <1>3, <1>4 DEF IInv, TypeOK
  <2>2. (\A i \in Slots : Loads(i)' <=> Loads(i))
      BY <1>4 DEF Loads
  <2>3. OneLoadPerTenant'
      BY <1>4, <2>2 DEF IInv, OneLoadPerTenant
  <2> QED BY <1>1, <1>4, <2>1, <2>3 DEF IInv, BoundsOK, EntryOK, LoadOK
<1>5. CASE ~ UNCHANGED <<loading, loader>>
  <2>1. t \notin loading /\ loading' = loading \cup {t}
      BY <1>5 DEF ScheduleLoad
  <2>2. PICK i \in Slots : loader[i] = Free /\ loader' = [loader EXCEPT ![i] = x]
      BY <1>5 DEF ScheduleLoad
  <2>3. x \in Load /\ x.step = "read" /\ x.tenant = t /\ x.epoch = epoch
      BY <1>2 DEF Load, LoadSteps, Versions, IInv, TypeOK
  <2>4. loader \in [Slots -> Load \cup {Free}]
      BY DEF IInv, TypeOK
  <2> HIDE DEF x, t
  <2>5. TypeOK'
      BY <1>1, <1>2, <1>3, <2>1, <2>2, <2>3 DEF IInv, TypeOK
  <2>6. \A j \in Slots : LoadOK(j)'
      BY <1>1, <2>2, <2>3, <2>4 DEF IInv, LoadOK, TypeOK
  <2>7. /\ ~ Loads(i) /\ Loads(i)' /\ loader'[i].tenant = t
        /\ \A j \in Slots \ {i} : (Loads(j)' <=> Loads(j)) /\ loader'[j] = loader[j]
      BY <2>2, <2>3, <2>4, NotFree DEF Loads, Free, LoadSteps
  <2>8. OneLoadPerTenant'
    <3>1. loading' = {loader'[j].tenant : j \in {k \in Slots : Loads(k)'}}
        BY <2>1, <2>7 DEF IInv, OneLoadPerTenant
    <3>2. \A j, k \in Slots : (Loads(j)' /\ Loads(k)' /\ loader'[j].tenant = loader'[k].tenant) => j = k
        BY <2>1, <2>7 DEF IInv, OneLoadPerTenant
    <3> QED BY <3>1, <3>2 DEF OneLoadPerTenant
  <2> QED BY <1>1, <2>5, <2>6, <2>8 DEF IInv, BoundsOK, EntryOK
<1> QED BY <1>4, <1>5

-----------------------------------------------------------------------------
(* Loaders. *)

\* A loader's step that neither begins nor ends a load.
LEMMA SameLoads ==
    ASSUME OneLoadPerTenant, loader \in [Slots -> Load \cup {Free}],
           NEW i \in Slots, NEW x \in Load, Loads(i), x.step \in LoadSteps \ {"release"},
           x.tenant = loader[i].tenant, loader' = [loader EXCEPT ![i] = x],
           loading' = loading
    PROVE  OneLoadPerTenant'
<1>1. \A j \in Slots : (Loads(j)' <=> Loads(j)) /\ loader'[j].tenant = loader[j].tenant
    BY DEF Loads
<1>2. loading = {loader[j].tenant : j \in {k \in Slots : Loads(k)}}
    BY DEF OneLoadPerTenant
<1>3. loading' = {loader'[j].tenant : j \in {k \in Slots : Loads(k)'}}
    BY <1>1, <1>2
<1>4. \A j, k \in Slots : (Loads(j)' /\ Loads(k)' /\ loader'[j].tenant = loader'[k].tenant) => j = k
    BY <1>1 DEF OneLoadPerTenant
<1> QED BY <1>3, <1>4 DEF OneLoadPerTenant

\* What the query returns is the latest revision, or nothing.
LEMMA ReadTenantStep ==
    ASSUME IInv, NEW i \in Slots, NEW ok \in BOOLEAN, ReadTenant(i, ok)
    PROVE  IInv'
<1> DEFINE l == loader[i]
           v == IF ok THEN db[l.tenant] ELSE 0
           x == [step |-> "store", tenant |-> l.tenant, epoch |-> l.epoch,
                 ver |-> v, found |-> v > 0, budget |-> l.budget]
<1>1. UNCHANGED <<db, pending, tenantCache, cache, epoch, loading, request, settled, floor, highest>>
    BY DEF ReadTenant
<1>2. loader \in [Slots -> Load \cup {Free}]
    BY DEF IInv, TypeOK
<1>3. l \in Load /\ l.step = "read"
    BY <1>2, NotFree DEF ReadTenant, At, LoadSteps
<1>4. l.tenant \in Tenants /\ l.epoch \in Nat /\ l.budget \in 0 .. DbTimeout /\ l.found \in BOOLEAN
    BY <1>3 DEF Load
<1>5. v \in Versions /\ (v > 0 => v = db[l.tenant]) /\ (v > 0) \in BOOLEAN
    BY <1>4 DEF IInv, TypeOK, Versions
<1>6. loader' = [loader EXCEPT ![i] = x]
    BY DEF ReadTenant
<1>7. x \in Load
    BY <1>4, <1>5 DEF Load, LoadSteps
<1>8. x.step = "store" /\ x.tenant = l.tenant /\ x.epoch = l.epoch /\ x.ver = v
    OBVIOUS
<1> HIDE DEF x, v
<1>9. TypeOK'
    BY <1>1, <1>2, <1>6, <1>7 DEF IInv, TypeOK
<1>10. \A j \in Slots : LoadOK(j)'
  <2>1. LoadOK(i)'
    <3>1. loader'[i] = x /\ l.epoch <= epoch
        BY <1>2, <1>3, <1>6, NotFree DEF IInv, LoadOK, LoadSteps
    <3>2. v > 0 => highest[l.tenant] <= v /\ v <= db[l.tenant] /\ v >= floor[l.tenant]
        BY <1>4, <1>5 DEF IInv, BoundsOK, TypeOK, Versions
    <3> QED BY <1>1, <1>5, <1>8, <3>1, <3>2 DEF LoadOK
  <2>2. \A j \in Slots \ {i} : LoadOK(j)'
      BY <1>1, <1>2, <1>6 DEF IInv, LoadOK
  <2> QED BY <2>1, <2>2
<1>11. OneLoadPerTenant'
    BY <1>1, <1>2, <1>3, <1>6, <1>7, <1>8, SameLoads DEF IInv, Loads, LoadSteps
<1> QED BY <1>1, <1>9, <1>10, <1>11 DEF IInv, BoundsOK, EntryOK

\* A loader that only goes on to another step of its load, past the store.
LEMMA GoOn ==
    ASSUME IInv, NEW i \in Slots, NEW s \in LoadSteps \ {"release", "store"},
           Loads(i), Goto(i, s), UNCHANGED <<epoch, loading>>
    PROVE  /\ loader' \in [Slots -> Load \cup {Free}]
           /\ OneLoadPerTenant'
           /\ LoadOK(i)'
           /\ \A j \in Slots \ {i} : loader'[j] = loader[j]
<1>1. loader \in [Slots -> Load \cup {Free}]
    BY DEF IInv, TypeOK
<1>2. loader[i] \in Load
    BY <1>1, NotFree DEF Loads, LoadSteps
<1> DEFINE x == [loader[i] EXCEPT !.step = s]
<1>3. x \in Load /\ x.step = s /\ x.tenant = loader[i].tenant /\ x.epoch = loader[i].epoch
    BY <1>2, StepChange
<1>4. loader' = [loader EXCEPT ![i] = x]
    BY <1>1 DEF Goto
<1> HIDE DEF x
<1>5. loader' \in [Slots -> Load \cup {Free}] /\ \A j \in Slots \ {i} : loader'[j] = loader[j]
    BY <1>1, <1>3, <1>4
<1>6. OneLoadPerTenant'
    BY <1>1, <1>3, <1>4, SameLoads DEF IInv
<1>7. LoadOK(i)'
  <2>1. loader'[i] = x /\ loader[i] # Free
      BY <1>1, <1>2, <1>4, NotFree DEF Loads, Free, LoadSteps
  <2> QED BY <1>3, <2>1 DEF IInv, LoadOK
<1> QED BY <1>5, <1>6, <1>7

\* What is stored was highest when it was read, and nobody else stored since.
LEMMA StoreLoadedStep ==
    ASSUME IInv, NEW i \in Slots, NEW valid \in BOOLEAN, StoreLoaded(i, valid)
    PROVE  IInv'
<1> DEFINE l == loader[i]
           v == IF valid THEN l.ver ELSE 0
           ttl == IF v > 0 THEN CacheTTL ELSE NegativeTTL
           t == l.tenant
           s == IF l.found THEN "unmark" ELSE "legacy"
<1>1. /\ UNCHANGED <<db, pending, cache, epoch, loading, request, settled, floor>>
      /\ StoreTenant(t, v, ttl, l.epoch) /\ Goto(i, s) /\ l.step = "store"
    BY DEF StoreLoaded, At
<1>2. loader \in [Slots -> Load \cup {Free}] /\ l \in Load /\ l # Free /\ Loads(i)
    BY <1>1, NotFree DEF IInv, TypeOK, LoadSteps, Loads
<1>3. t \in Tenants /\ v \in Versions /\ ttl \in 0 .. CacheTTL /\ l.epoch \in Nat
      /\ l.budget \in 0 .. DbTimeout
    BY <1>2 DEF Load, Versions
<1>4. s \in LoadSteps \ {"release", "store"}
    BY DEF LoadSteps
<1>5. /\ loader' \in [Slots -> Load \cup {Free}] /\ OneLoadPerTenant' /\ LoadOK(i)'
      /\ \A j \in Slots \ {i} : loader'[j] = loader[j]
  <2> HIDE DEF s
  <2> QED BY <1>1, <1>2, <1>4, GoOn
<1>6. v > 0 => v = l.ver /\ ttl = CacheTTL
    OBVIOUS
<1>7. v > 0 => /\ highest[t] <= v /\ v <= db[t]
               /\ l.epoch = epoch => v >= floor[t]
               /\ v # db[t] => settled[t] + l.budget <= DbTimeout
    BY <1>1, <1>2, <1>6 DEF IInv, LoadOK
<1> HIDE DEF v, ttl, t, l, s
<1>8. CASE epoch # l.epoch
  <2>1. UNCHANGED <<tenantCache, highest>>
      BY <1>1, <1>8 DEF StoreTenant
  <2>2. TypeOK'
      BY <1>1, <1>5, <2>1 DEF IInv, TypeOK
  <2>3. \A j \in Slots : LoadOK(j)'
      BY <1>1, <1>5, <2>1 DEF IInv, LoadOK
  <2> QED BY <1>1, <1>5, <2>1, <2>2, <2>3 DEF IInv, BoundsOK, EntryOK
<1>9. CASE epoch = l.epoch
  <2>1. /\ DOMAIN tenantCache' \subseteq Tenants
        /\ tenantCache' \in [DOMAIN tenantCache' -> TenantEntry]
        /\ t \in DOMAIN tenantCache'
        /\ tenantCache'[t].ver = v /\ tenantCache'[t].left = ttl
        /\ \A u \in DOMAIN tenantCache' \ {t} :
              u \in DOMAIN tenantCache /\ tenantCache'[u] = tenantCache[u]
        /\ highest' = [highest EXCEPT ![t] = IF v > @ THEN v ELSE @]
    <3>1. TypeOK
        BY DEF IInv
    <3> QED BY <1>1, <1>3, <1>9, <3>1, StoreEffect
  <2>2. highest' \in [Tenants -> Versions]
      BY <1>3, <2>1 DEF IInv, TypeOK
  <2>3. TypeOK'
      BY <1>1, <1>5, <2>1, <2>2 DEF IInv, TypeOK
  <2>4. /\ \A u \in Tenants \ {t} : highest'[u] = highest[u]
        /\ v > 0 => highest'[t] = v
        /\ ~ (v > 0) => highest'[t] = highest[t]
      BY <1>3, <1>7, <2>1 DEF IInv, TypeOK, Versions
  <2>5. BoundsOK'
    <3> SUFFICES ASSUME NEW u \in Tenants PROVE highest'[u] <= db[u] /\ floor[u] <= db[u]
        BY <1>1 DEF BoundsOK
    <3>1. CASE u = t /\ v > 0
        BY <1>7, <2>4, <3>1 DEF IInv, BoundsOK
    <3>2. CASE ~ (u = t /\ v > 0)
        BY <2>4, <3>2 DEF IInv, BoundsOK
    <3> QED BY <3>1, <3>2
  <2>6. \A u \in Tenants : EntryOK(u)'
    <3> SUFFICES ASSUME NEW u \in Tenants PROVE EntryOK(u)'
        OBVIOUS
    <3>1. CASE u = t
      <4>1. (v > 0 /\ v # db[t]) => settled[t] + ttl <= Settled
        <5>1. settled[t] \in Nat /\ (v > 0 => ttl = CacheTTL)
            BY <1>3, <1>6 DEF IInv, TypeOK, Settled
        <5> QED BY <1>3, <1>7, <5>1 DEF Settled
      <4> QED BY <1>1, <1>7, <1>9, <2>1, <2>4, <3>1, <4>1 DEF EntryOK
    <3>2. CASE u # t
        BY <1>1, <2>1, <2>4, <3>2 DEF IInv, EntryOK
    <3> QED BY <3>1, <3>2
  <2>7. \A j \in Slots : LoadOK(j)'
    <3> SUFFICES ASSUME NEW j \in Slots \ {i} PROVE LoadOK(j)'
        BY <1>5
    <3>1. loader'[j] = loader[j]
        BY <1>5
    <3>2. CASE loader[j].step = "store"
      <4>1. Loads(j) /\ loader[j] \in Load
          BY <1>2, <3>2, NotFree DEF Loads, LoadSteps
      <4>2. loader[j].tenant # t /\ loader[j].tenant \in Tenants
          BY <1>2, <4>1 DEF IInv, OneLoadPerTenant, Load, t, l
      <4> QED BY <1>1, <2>4, <3>1, <4>2 DEF IInv, LoadOK
    <3>3. CASE loader[j].step # "store"
        BY <1>1, <3>1, <3>3 DEF IInv, LoadOK
    <3> QED BY <3>2, <3>3
  <2> QED BY <1>5, <2>3, <2>5, <2>6, <2>7 DEF IInv
<1> QED BY <1>8, <1>9

LEMMA LoadLegacyStep ==
    ASSUME IInv, NEW i \in Slots, NEW ok \in BOOLEAN, LoadLegacy(i, ok)
    PROVE  IInv'
<1>1. /\ UNCHANGED <<db, pending, tenantCache, epoch, loading, request, settled, floor, highest>>
      /\ StoreOwner(OwnerOf[loader[i].tenant], IF ok THEN CacheTTL ELSE NegativeTTL)
      /\ Goto(i, "unmark") /\ loader[i].step = "legacy"
    BY DEF LoadLegacy, At
<1>2. Loads(i) /\ loader[i] \in Load
    BY <1>1, NotFree DEF Loads, LoadSteps, IInv, TypeOK
<1>3. /\ loader' \in [Slots -> Load \cup {Free}] /\ OneLoadPerTenant' /\ LoadOK(i)'
      /\ \A j \in Slots \ {i} : loader'[j] = loader[j]
    BY <1>1, <1>2, GoOn DEF LoadSteps
<1>4. DOMAIN cache' \subseteq Owners /\ cache' \in [DOMAIN cache' -> OwnerEntry]
  <2> DEFINE o == OwnerOf[loader[i].tenant]
             ttl == IF ok THEN CacheTTL ELSE NegativeTTL
  <2>1. o \in Owners /\ ttl \in 0 .. CacheTTL /\ TypeOK /\ StoreOwner(o, ttl)
      BY <1>1, <1>2 DEF Load, IInv
  <2> HIDE DEF o, ttl
  <2> QED BY <2>1, StoreOwnerType
<1>5. TypeOK'
    BY <1>1, <1>3, <1>4 DEF IInv, TypeOK
<1>6. \A j \in Slots : LoadOK(j)'
    BY <1>1, <1>3 DEF IInv, LoadOK
<1> QED BY <1>1, <1>3, <1>5, <1>6 DEF IInv, BoundsOK, EntryOK

\* The mark and the load end together.
LEMMA UnmarkStep ==
    ASSUME IInv, NEW i \in Slots, Unmark(i)
    PROVE  IInv'
<1>1. /\ UNCHANGED <<db, pending, tenantCache, cache, epoch, request, settled, floor, highest>>
      /\ loading' = loading \ {loader[i].tenant}
      /\ Goto(i, "release") /\ loader[i].step = "unmark"
    BY DEF Unmark, At
<1>2. loader \in [Slots -> Load \cup {Free}] /\ Loads(i) /\ loader[i] \in Load /\ loader[i] # Free
    BY <1>1, NotFree DEF Loads, LoadSteps, IInv, TypeOK
<1> DEFINE x == [loader[i] EXCEPT !.step = "release"]
<1>3. x \in Load /\ x.step = "release" /\ x.epoch = loader[i].epoch
    BY <1>2, StepChange DEF LoadSteps
<1>4. loader' = [loader EXCEPT ![i] = x]
    BY <1>1, <1>2 DEF Goto
<1> HIDE DEF x
<1>5. TypeOK'
    BY <1>1, <1>2, <1>3, <1>4 DEF IInv, TypeOK
<1>6. \A j \in Slots : LoadOK(j)'
    BY <1>1, <1>2, <1>3, <1>4 DEF IInv, LoadOK
<1>7. ~ Loads(i)' /\ \A j \in Slots \ {i} : (Loads(j)' <=> Loads(j)) /\ loader'[j] = loader[j]
    BY <1>2, <1>3, <1>4 DEF Loads
<1>8. OneLoadPerTenant'
  <2>1. loading' = {loader'[j].tenant : j \in {k \in Slots : Loads(k)'}}
      BY <1>1, <1>2, <1>7 DEF IInv, OneLoadPerTenant
  <2>2. \A j, k \in Slots : (Loads(j)' /\ Loads(k)' /\ loader'[j].tenant = loader'[k].tenant) => j = k
      BY <1>7 DEF IInv, OneLoadPerTenant
  <2> QED BY <2>1, <2>2 DEF OneLoadPerTenant
<1> QED BY <1>1, <1>5, <1>6, <1>8 DEF IInv, BoundsOK, EntryOK

LEMMA ReleaseStep ==
    ASSUME IInv, NEW i \in Slots, Release(i)
    PROVE  IInv'
<1>1. /\ UNCHANGED <<db, pending, tenantCache, cache, epoch, loading, request, settled, floor, highest>>
      /\ loader' = [loader EXCEPT ![i] = Free] /\ loader[i].step = "release"
    BY DEF Release, At
<1>2. loader \in [Slots -> Load \cup {Free}]
    BY DEF IInv, TypeOK
<1>3. TypeOK'
    BY <1>1, <1>2 DEF IInv, TypeOK
<1>4. \A j \in Slots : LoadOK(j)'
    BY <1>1, <1>2 DEF IInv, LoadOK
<1>5. ~ Loads(i) /\ \A j \in Slots : (Loads(j)' <=> Loads(j)) /\ (j # i => loader'[j] = loader[j])
    BY <1>1, <1>2 DEF Loads, Free, LoadSteps
<1>6. OneLoadPerTenant'
  <2>1. loading' = {loader'[j].tenant : j \in {k \in Slots : Loads(k)'}}
      BY <1>1, <1>5 DEF IInv, OneLoadPerTenant
  <2>2. \A j, k \in Slots : (Loads(j)' /\ Loads(k)' /\ loader'[j].tenant = loader'[k].tenant) => j = k
      BY <1>5 DEF IInv, OneLoadPerTenant
  <2> QED BY <2>1, <2>2 DEF OneLoadPerTenant
<1> QED BY <1>1, <1>3, <1>4, <1>6 DEF IInv, BoundsOK, EntryOK

-----------------------------------------------------------------------------
(* Handlers, time and restarts. *)

\* A commit makes what is cached or under way stale, and starts the clock.
LEMMA CommitStep ==
    ASSUME IInv, NEW t \in Tenants, NEW here \in BOOLEAN, Commit(t, here)
    PROVE  IInv'
<1>1. /\ UNCHANGED <<tenantCache, cache, epoch, loading, loader, request, floor, highest>>
      /\ db[t] < MaxVersion /\ db' = [db EXCEPT ![t] = db[t] + 1]
      /\ settled' = [settled EXCEPT ![t] = 0]
    BY DEF Commit
<1>2. /\ db \in [Tenants -> 0 .. MaxVersion] /\ settled \in [Tenants -> 0 .. Settled]
      /\ pending \in [Tenants -> Nat] /\ loader \in [Slots -> Load \cup {Free}]
      /\ floor \in [Tenants -> 0 .. MaxVersion] /\ highest \in [Tenants -> 0 .. MaxVersion]
    BY DEF IInv, TypeOK, Versions
<1>3. db' \in [Tenants -> 0 .. MaxVersion] /\ db'[t] = db[t] + 1 /\ \A u \in Tenants \ {t} : db'[u] = db[u]
    BY <1>1, <1>2
<1>4. settled' \in [Tenants -> 0 .. Settled] /\ settled'[t] = 0
      /\ \A u \in Tenants \ {t} : settled'[u] = settled[u]
    BY <1>1, <1>2 DEF Settled
<1>5. pending' \in [Tenants -> Nat]
    BY <1>2 DEF Commit
<1>6. TypeOK'
    BY <1>1, <1>3, <1>4, <1>5 DEF IInv, TypeOK, Versions
<1>7. BoundsOK'
  <2> SUFFICES ASSUME NEW u \in Tenants PROVE highest[u] <= db'[u] /\ floor[u] <= db'[u]
      BY <1>1 DEF BoundsOK
  <2>1. db[u] <= db'[u] /\ db[u] \in Int /\ db'[u] \in Int /\ highest[u] \in Int /\ floor[u] \in Int
      BY <1>2, <1>3
  <2> QED BY <2>1 DEF IInv, BoundsOK
<1>8. \A u \in Tenants : EntryOK(u)'
  <2>1. ASSUME NEW u \in Tenants \ {t} PROVE EntryOK(u)'
      BY <1>1, <1>3, <1>4 DEF IInv, EntryOK
  <2>2. EntryOK(t)'
    <3>1. t \in DOMAIN tenantCache => tenantCache[t].left \in 0 .. CacheTTL
        BY DEF IInv, TypeOK, TenantEntry
    <3> QED BY <1>1, <1>4, <3>1 DEF IInv, EntryOK, Settled
  <2> QED BY <2>1, <2>2
<1>9. \A i \in Slots : LoadOK(i)'
  <2> SUFFICES ASSUME NEW i \in Slots, loader[i] # Free PROVE LoadOK(i)'
      BY <1>1 DEF LoadOK
  <2>1. loader[i] \in Load
      BY <1>2
  <2>2. /\ loader[i].tenant \in Tenants /\ loader[i].ver \in 0 .. MaxVersion
        /\ loader[i].budget \in 0 .. DbTimeout
      BY <2>1 DEF Load, Versions
  <2>3. CASE loader[i].tenant # t
      BY <1>1, <1>3, <1>4, <2>2, <2>3 DEF IInv, LoadOK
  <2>4. CASE loader[i].tenant = t
      BY <1>1, <1>2, <1>3, <1>4, <2>2, <2>4 DEF IInv, LoadOK
  <2> QED BY <2>3, <2>4
<1>10. OneLoadPerTenant'
    BY <1>1 DEF IInv, OneLoadPerTenant, Loads
<1> QED BY <1>6, <1>7, <1>8, <1>9, <1>10 DEF IInv

\* Every load under way carries an epoch that has passed: it stores nothing.
LEMMA InvalidateTenantStep ==
    ASSUME IInv, NEW t \in Tenants, InvalidateTenant(t)
    PROVE  IInv'
<1>1. /\ UNCHANGED <<db, cache, loading, loader, request, settled, highest>>
      /\ pending[t] > 0 /\ pending' = [pending EXCEPT ![t] = pending[t] - 1]
      /\ epoch' = epoch + 1
      /\ tenantCache' = Keep(tenantCache, Tenants \ {t})
      /\ floor' = [floor EXCEPT ![t] = db[t]]
    BY DEF InvalidateTenant
<1>2. DOMAIN tenantCache' = DOMAIN tenantCache \ {t}
      /\ \A u \in DOMAIN tenantCache' : tenantCache'[u] = tenantCache[u]
    BY <1>1 DEF Keep, IInv, TypeOK
<1>3. tenantCache' \in [DOMAIN tenantCache' -> TenantEntry]
  <2>1. tenantCache' = [u \in DOMAIN tenantCache' |-> tenantCache'[u]]
      BY <1>1 DEF Keep
  <2>2. \A u \in DOMAIN tenantCache' : tenantCache'[u] \in TenantEntry
      BY <1>2 DEF IInv, TypeOK
  <2> QED BY <2>1, <2>2
<1>4. floor' \in [Tenants -> Versions] /\ \A u \in Tenants : floor'[u] = IF u = t THEN db[t] ELSE floor[u]
    BY <1>1 DEF IInv, TypeOK
<1>5. pending' \in [Tenants -> Nat] /\ epoch' \in Nat
    BY <1>1 DEF IInv, TypeOK
<1>6. TypeOK'
    BY <1>1, <1>2, <1>3, <1>4, <1>5 DEF IInv, TypeOK
<1>7. BoundsOK'
  <2>1. db[t] \in Int
      BY DEF IInv, TypeOK, Versions
  <2> QED BY <1>1, <1>4, <2>1 DEF IInv, BoundsOK
<1>8. \A u \in Tenants : EntryOK(u)'
    BY <1>1, <1>2, <1>4 DEF IInv, EntryOK
<1>9. \A i \in Slots : LoadOK(i)'
  <2> SUFFICES ASSUME NEW i \in Slots, loader[i] # Free PROVE LoadOK(i)'
      BY <1>1 DEF LoadOK
  <2>1. loader[i].epoch \in Nat /\ epoch \in Nat
      BY DEF IInv, TypeOK, Load
  <2>2. loader[i].epoch <= epoch
      BY DEF IInv, LoadOK
  <2>3. loader'[i].epoch <= epoch' /\ loader'[i].epoch # epoch'
      BY <1>1, <2>1, <2>2
  <2> QED BY <1>1, <2>3 DEF IInv, LoadOK
<1>10. OneLoadPerTenant'
    BY <1>1 DEF IInv, OneLoadPerTenant, Loads
<1> QED BY <1>6, <1>7, <1>8, <1>9, <1>10 DEF IInv

\* Time: what settles by a tick also dies, or runs out of its budget, by one.
LEMMA TickStep ==
    ASSUME IInv, Tick
    PROVE  IInv'
<1>1. /\ UNCHANGED <<db, pending, epoch, loading, request, floor, highest>>
      /\ \A i \in Slots : Running(i) => loader[i].budget > 0
      /\ loader' = [i \in Slots |->
            IF Running(i) THEN [loader[i] EXCEPT !.budget = loader[i].budget - 1]
            ELSE loader[i]]
      /\ tenantCache' = Aged(tenantCache) /\ cache' = Aged(cache)
      /\ settled' = [t \in Tenants |-> IF settled[t] < Settled THEN settled[t] + 1
                                       ELSE settled[t]]
    BY DEF Tick
<1>2. TypeOK
    BY DEF IInv
<1>3. settled' \in [Tenants -> 0 .. Settled] /\ \A t \in Tenants : settled'[t] <= settled[t] + 1
  <2>1. Settled \in Nat /\ \A t \in Tenants : settled[t] \in 0 .. Settled
      BY <1>2 DEF TypeOK, Settled
  <2> QED BY <1>1, <2>1
<1>4. /\ DOMAIN tenantCache' = DOMAIN tenantCache
      /\ tenantCache' \in [DOMAIN tenantCache -> TenantEntry]
      /\ \A t \in DOMAIN tenantCache :
            /\ tenantCache'[t].ver = tenantCache[t].ver
            /\ tenantCache'[t].left > 0 => /\ tenantCache[t].left > 0
                                           /\ tenantCache'[t].left = tenantCache[t].left - 1
  <2>1. tenantCache' = [k \in DOMAIN tenantCache |->
            [tenantCache[k] EXCEPT !.left = IF tenantCache[k].left > 0 THEN tenantCache[k].left - 1 ELSE 0]]
      BY <1>1 DEF Aged
  <2>2. ASSUME NEW k \in DOMAIN tenantCache
        PROVE  /\ tenantCache'[k] \in TenantEntry
               /\ tenantCache'[k].ver = tenantCache[k].ver
               /\ tenantCache'[k].left > 0 => /\ tenantCache[k].left > 0
                                              /\ tenantCache'[k].left = tenantCache[k].left - 1
    <3>1. tenantCache[k] \in TenantEntry
        BY <1>2 DEF TypeOK
    <3> QED BY <2>1, <3>1 DEF TenantEntry
  <2> QED BY <2>1, <2>2
<1>5. DOMAIN cache' = DOMAIN cache /\ cache' \in [DOMAIN cache -> OwnerEntry]
  <2>1. cache' = [k \in DOMAIN cache |->
            [cache[k] EXCEPT !.left = IF cache[k].left > 0 THEN cache[k].left - 1 ELSE 0]]
      BY <1>1 DEF Aged
  <2>2. ASSUME NEW k \in DOMAIN cache PROVE cache'[k] \in OwnerEntry
    <3>1. cache[k] \in OwnerEntry
        BY <1>2 DEF TypeOK
    <3> QED BY <2>1, <3>1 DEF OwnerEntry
  <2> QED BY <2>1, <2>2
<1>6. ASSUME NEW i \in Slots
      PROVE  /\ loader'[i] \in Load \cup {Free}
             /\ loader'[i] = Free <=> loader[i] = Free
             /\ loader'[i].step = loader[i].step /\ loader'[i].tenant = loader[i].tenant
             /\ loader'[i].epoch = loader[i].epoch /\ loader'[i].ver = loader[i].ver
             /\ loader[i].step = "store" =>
                   loader[i].budget > 0 /\ loader'[i].budget = loader[i].budget - 1
  <2>1. loader[i] \in Load \cup {Free}
      BY <1>2 DEF TypeOK
  <2>2. CASE Running(i)
    <3>1. loader[i] \in Load
        BY <2>1, <2>2, NotFree DEF Running, LoadSteps
    <3>2. loader'[i] = [loader[i] EXCEPT !.budget = loader[i].budget - 1] /\ loader[i].budget > 0
        BY <1>1, <2>2
    <3>3. loader'[i] \in Load
        BY <3>1, <3>2 DEF Load
    <3> QED BY <3>1, <3>2, <3>3, NotFree DEF Load
  <2>3. CASE ~ Running(i)
      BY <1>1, <2>1, <2>3 DEF Running
  <2> QED BY <2>2, <2>3
<1>7. loader' \in [Slots -> Load \cup {Free}]
  <2>1. loader' = [i \in Slots |-> loader'[i]]
      BY <1>1
  <2> QED BY <1>6, <2>1
<1>8. TypeOK'
    BY <1>1, <1>2, <1>3, <1>4, <1>5, <1>7 DEF TypeOK
<1>9. \A t \in Tenants : EntryOK(t)'
  <2> SUFFICES ASSUME NEW t \in Tenants, t \in DOMAIN tenantCache PROVE EntryOK(t)'
      BY <1>4 DEF EntryOK
  <2>1. /\ settled[t] \in Int /\ settled'[t] \in Int /\ Settled \in Int
        /\ tenantCache[t].left \in Int /\ tenantCache'[t].left \in Int
      BY <1>2, <1>3, <1>4 DEF TypeOK, TenantEntry, Settled
  <2> QED BY <1>1, <1>3, <1>4, <2>1 DEF IInv, EntryOK
<1>10. \A i \in Slots : LoadOK(i)'
  <2> SUFFICES ASSUME NEW i \in Slots, loader[i] # Free PROVE LoadOK(i)'
      BY <1>6 DEF LoadOK
  <2>1. loader[i] \in Load
      BY <1>2 DEF TypeOK
  <2>2. loader[i].tenant \in Tenants /\ loader[i].budget \in Int
      BY <2>1 DEF Load
  <2>3. settled[loader[i].tenant] \in Int /\ settled'[loader[i].tenant] \in Int
      BY <1>2, <1>3, <2>2 DEF TypeOK
  <2> DEFINE u == loader[i].tenant
  <2>4. /\ loader'[i].step = loader[i].step /\ loader'[i].tenant = u
        /\ loader'[i].epoch = loader[i].epoch /\ loader'[i].ver = loader[i].ver
        /\ loader[i].step = "store" =>
              loader[i].budget > 0 /\ loader'[i].budget = loader[i].budget - 1
      BY <1>6
  <2>5. settled'[u] <= settled[u] + 1
      BY <1>3, <2>2
  <2>6. settled[u] + loader[i].budget <= DbTimeout /\ loader[i].step = "store"
        => settled'[u] + loader'[i].budget <= DbTimeout
      BY <2>2, <2>3, <2>4, <2>5
  <2>7. /\ loader[i].epoch <= epoch
        /\ (loader[i].step = "store" /\ loader[i].ver > 0) =>
              /\ highest[u] <= loader[i].ver /\ loader[i].ver <= db[u]
              /\ loader[i].epoch = epoch => loader[i].ver >= floor[u]
              /\ loader[i].ver # db[u] => settled[u] + loader[i].budget <= DbTimeout
      BY DEF IInv, LoadOK
  <2> HIDE DEF u
  <2> QED BY <1>1, <2>4, <2>6, <2>7 DEF LoadOK
<1>11. OneLoadPerTenant'
  <2>1. \A j \in Slots : (Loads(j)' <=> Loads(j)) /\ loader'[j].tenant = loader[j].tenant
      BY <1>6 DEF Loads
  <2>2. loading' = {loader'[j].tenant : j \in {k \in Slots : Loads(k)'}}
      BY <1>1, <2>1 DEF IInv, OneLoadPerTenant
  <2>3. \A j, k \in Slots : (Loads(j)' /\ Loads(k)' /\ loader'[j].tenant = loader'[k].tenant) => j = k
      BY <2>1 DEF IInv, OneLoadPerTenant
  <2> QED BY <2>2, <2>3 DEF OneLoadPerTenant
<1> QED BY <1>1, <1>8, <1>9, <1>10, <1>11 DEF IInv, BoundsOK

\* A restarted node holds nothing; what it loads next is the latest revision.
LEMMA RestartStep ==
    ASSUME IInv, Restart
    PROVE  IInv'
<1>1. /\ UNCHANGED <<db, settled, floor, highest>>
      /\ DOMAIN tenantCache' = {} /\ DOMAIN cache' = {} /\ epoch' = 0 /\ loading' = {}
      /\ \A i \in Slots : loader'[i] = Free
    BY DEF Restart, NoEntries
<1>2. /\ tenantCache' \in [DOMAIN tenantCache' -> TenantEntry]
      /\ cache' \in [DOMAIN cache' -> OwnerEntry]
    BY <1>1 DEF Restart, NoEntries
<1>3. /\ pending' \in [Tenants -> Nat] /\ loader' \in [Slots -> Load \cup {Free}]
      /\ request' \in [Requests -> Asking \cup {Done}]
    BY DEF Restart
<1>4. TypeOK'
    BY <1>1, <1>2, <1>3 DEF IInv, TypeOK
<1>5. \A i \in Slots : ~ Loads(i)'
    BY <1>1 DEF Loads, Free, LoadSteps
<1>6. OneLoadPerTenant'
    BY <1>1, <1>5 DEF OneLoadPerTenant
<1> QED BY <1>1, <1>4, <1>6 DEF IInv, BoundsOK, EntryOK, LoadOK

LEMMA NextStep == IInv /\ [Next]_vars => IInv'
<1> SUFFICES ASSUME IInv, [Next]_vars PROVE IInv'
    OBVIOUS
<1>1. ASSUME NEW r \in Requests, RequestStep(r) PROVE IInv'
    BY <1>1, RequestSteps, ScheduleLoadStep DEF RequestStep
<1>2. ASSUME NEW i \in Slots, LoaderStep(i) PROVE IInv'
  <2>1. CASE \E ok \in BOOLEAN : ReadTenant(i, ok)
      BY <2>1, ReadTenantStep
  <2>2. CASE \E valid \in BOOLEAN : StoreLoaded(i, valid)
      BY <2>2, StoreLoadedStep
  <2>3. CASE \E ok \in BOOLEAN : LoadLegacy(i, ok)
      BY <2>3, LoadLegacyStep
  <2>4. CASE Unmark(i) \/ Release(i)
      BY <2>4, UnmarkStep, ReleaseStep
  <2> QED BY <1>2, <2>1, <2>2, <2>3, <2>4 DEF LoaderStep
<1>3. ASSUME NEW t \in Tenants, NEW here \in BOOLEAN, Commit(t, here) PROVE IInv'
    BY <1>3, CommitStep
<1>4. ASSUME NEW t \in Tenants, InvalidateTenant(t) PROVE IInv'
    BY <1>4, InvalidateTenantStep
<1>5. CASE Tick \/ Restart
    BY <1>5, TickStep, RestartStep
<1>6. CASE UNCHANGED vars
  <2>1. UNCHANGED <<db, pending, tenantCache, cache, epoch, loading, loader,
                    request, settled, floor, highest>>
      BY <1>6 DEF vars
  <2>2. TypeOK'
      BY <2>1 DEF IInv, TypeOK
  <2>3. OneLoadPerTenant'
      BY <2>1 DEF IInv, OneLoadPerTenant, Loads
  <2> QED BY <2>1, <2>2, <2>3 DEF IInv, BoundsOK, EntryOK, LoadOK
<1> QED BY <1>1, <1>2, <1>3, <1>4, <1>5, <1>6 DEF Next

-----------------------------------------------------------------------------
(* What holds of every behaviour. *)

\* The inductive invariant holds, however requests, loads, commits,
\* invalidations, ticks and restarts interleave (provider.go).
THEOREM Invariance == Spec => []IInv
<1>1. Init => IInv
    BY InitIInv
<1>2. IInv /\ [Next]_vars => IInv'
    BY NextStep
<1> QED BY <1>1, <1>2, PTL DEF Spec

\* Type correctness: in particular a load always has a slot, a tenant and an
\* epoch of its own (provider.go, scheduleLoad).
THEOREM TypeCorrect == Spec => []TypeOK
<1>1. IInv => TypeOK
    BY DEF IInv
<1> QED BY <1>1, Invariance, PTL

\* After InvalidateTenant the node never holds a revision older than the
\* committed one: storeTenant's epoch comparison is enough.
THEOREM InvalidationHolds == Spec => []NotOlderThanInvalidation
<1>1. IInv => NotOlderThanInvalidation
  <2> SUFFICES ASSUME IInv, NEW t \in Tenants, Cached(t) > 0 PROVE Cached(t) >= floor[t]
      BY DEF NotOlderThanInvalidation
  <2>1. t \in DOMAIN tenantCache /\ Cached(t) = tenantCache[t].ver
      BY DEF Cached
  <2> QED BY <2>1 DEF IInv, EntryOK
<1> QED BY <1>1, Invariance, PTL

\* A node never falls back to an older revision than one it has cached: the
\* loading marks serialise a tenant's loads, so none overtakes another.
THEOREM NoFallBack == Spec => []NeverRegresses
<1>1. IInv => NeverRegresses
  <2> SUFFICES ASSUME IInv, NEW t \in Tenants, Cached(t) > 0 PROVE Cached(t) = highest[t]
      BY DEF NeverRegresses
  <2>1. t \in DOMAIN tenantCache /\ Cached(t) = tenantCache[t].ver
      BY DEF Cached
  <2> QED BY <2>1 DEF IInv, EntryOK
<1> QED BY <1>1, Invariance, PTL

\* The staleness bound: whatever node committed it, a revision that has been
\* the latest for the cache's lifetime and one load is the one served.
THEOREM StalenessBound == Spec => []StaleOnlyUntilSettled
<1>1. IInv => StaleOnlyUntilSettled
  <2> SUFFICES ASSUME IInv, NEW t \in Tenants, settled[t] = Settled,
                      Live(tenantCache, t), Cached(t) > 0
               PROVE  Cached(t) = db[t]
      BY DEF StaleOnlyUntilSettled
  <2>1. t \in DOMAIN tenantCache /\ Cached(t) = tenantCache[t].ver /\ tenantCache[t].left > 0
      BY DEF Cached, Live
  <2>2. tenantCache[t].left \in Int /\ Settled \in Int
      BY <2>1 DEF IInv, TypeOK, TenantEntry, Settled
  <2> QED BY <2>1, <2>2 DEF IInv, EntryOK
<1> QED BY <1>1, Invariance, PTL

\* At most one load of a tenant runs, and the mark is there exactly as long:
\* a mark left behind would stop the tenant's refreshes for ever.
THEOREM LoadsAreSingle == Spec => []OneLoadPerTenant
<1>1. IInv => OneLoadPerTenant
    BY DEF IInv
<1> QED BY <1>1, Invariance, PTL

-----------------------------------------------------------------------------
(* The promise to the guard: each tenant's entry implements PolicyFeed.     *)

ServeStep(t) == [Feed(t)!FeedNext]_(Feed(t)!feedVars)

\* A step that leaves a tenant's entry alone, or makes it unfit to serve.
LEMMA ServesLess ==
    ASSUME NEW t \in Tenants, Served(t)' \in {0, Served(t)}, highest'[t] = highest[t]
    PROVE  ServeStep(t)
BY DEF ServeStep, Feed!FeedNext, Feed!Forget, Feed!feedVars

\* A policy that is stored is newer than what was served, or the same again.
LEMMA ServesMore ==
    ASSUME NEW t \in Tenants, NEW v \in Versions, v > 0, Served(t)' = v,
           highest'[t] = v, highest[t] \in Versions, highest[t] <= v,
           Served(t) \in {0, highest[t]}
    PROVE  ServeStep(t)
<1>1. CASE Served(t) = v
    BY <1>1 DEF ServeStep, Feed!feedVars
<1>2. CASE Served(t) # v
    BY <1>2 DEF ServeStep, Feed!FeedNext, Feed!Learn, Versions
<1> QED BY <1>1, <1>2

\* What is served is the newest policy this node ever cached.
LEMMA ServedIsHighest ==
    ASSUME IInv, NEW t \in Tenants
    PROVE  Served(t) \in {0, highest[t]} /\ highest[t] \in Versions
<1>1. highest[t] \in Versions
    BY DEF IInv, TypeOK
<1>2. t \in DOMAIN tenantCache => tenantCache[t].ver \in Nat
    BY DEF IInv, TypeOK, TenantEntry, Versions
<1>3. t \in DOMAIN tenantCache /\ tenantCache[t].ver > 0 => tenantCache[t].ver = highest[t]
    BY DEF IInv, EntryOK
<1> QED BY <1>1, <1>2, <1>3 DEF Served, Live

\* The entry of a store's tenant is new; another's stays, or is evicted.
LEMMA StoreServes ==
    ASSUME IInv, NEW i \in Slots, NEW valid \in BOOLEAN, StoreLoaded(i, valid),
           NEW u \in Tenants
    PROVE  ServeStep(u)
<1> DEFINE l == loader[i]
           v == IF valid THEN l.ver ELSE 0
           ttl == IF v > 0 THEN CacheTTL ELSE NegativeTTL
           t == l.tenant
<1>1. StoreTenant(t, v, ttl, l.epoch) /\ l.step = "store"
    BY DEF StoreLoaded, At
<1>2. l \in Load /\ l # Free
    BY <1>1, NotFree DEF IInv, TypeOK, LoadSteps
<1>3. t \in Tenants /\ v \in Versions /\ ttl \in 0 .. CacheTTL /\ ttl > 0
    BY <1>2 DEF Load, Versions
<1>4. v > 0 => highest[t] <= v
    BY <1>1, <1>2 DEF IInv, LoadOK
<1> HIDE DEF v, ttl, t, l
<1>5. CASE epoch # l.epoch
  <2>1. UNCHANGED <<tenantCache, highest>>
      BY <1>1, <1>5 DEF StoreTenant
  <2> QED BY <2>1, ServesLess DEF Served, Live
<1>6. CASE epoch = l.epoch
  <2>1. /\ t \in DOMAIN tenantCache'
        /\ tenantCache'[t].ver = v /\ tenantCache'[t].left = ttl
        /\ \A w \in DOMAIN tenantCache' \ {t} :
              w \in DOMAIN tenantCache /\ tenantCache'[w] = tenantCache[w]
        /\ highest' = [highest EXCEPT ![t] = IF v > @ THEN v ELSE @]
    <3>1. TypeOK
        BY DEF IInv
    <3> QED BY <1>1, <1>3, <1>6, <3>1, StoreEffect
  <2>2. highest \in [Tenants -> Versions] /\ highest[t] \in Versions
        /\ Served(t) \in {0, highest[t]}
      BY <1>3, ServedIsHighest DEF IInv, TypeOK
  <2>3. u = t => Served(u)' = v
      BY <1>3, <2>1 DEF Served, Live
  <2>4. CASE u # t
    <3>1. highest'[u] = highest[u]
        BY <2>1, <2>2, <2>4
    <3>2. Served(u)' \in {0, Served(u)}
        BY <2>1, <2>4 DEF Served, Live
    <3> QED BY <3>1, <3>2, ServesLess
  <2>5. CASE u = t /\ v > 0
    <3>1. highest'[u] = v
        BY <1>3, <1>4, <2>1, <2>2, <2>5 DEF Versions
    <3> QED BY <1>3, <1>4, <2>2, <2>3, <2>5, <3>1, ServesMore
  <2>6. CASE u = t /\ ~ (v > 0)
    <3>1. v = 0 /\ highest'[u] = highest[u]
        BY <1>3, <2>1, <2>2, <2>6 DEF Versions
    <3> QED BY <2>3, <2>6, <3>1, ServesLess
  <2> QED BY <2>4, <2>5, <2>6
<1> QED BY <1>5, <1>6

LEMMA EveryStepServes == IInv /\ [Next]_vars => \A t \in Tenants : ServeStep(t)
<1> SUFFICES ASSUME IInv, [Next]_vars, NEW t \in Tenants PROVE ServeStep(t)
    OBVIOUS
<1>1. CASE UNCHANGED <<tenantCache, highest>>
    BY <1>1, ServesLess DEF Served, Live
<1>2. ASSUME NEW r \in Requests, RequestStep(r) PROVE ServeStep(t)
    BY <1>1, <1>2 DEF RequestStep, Ask, LookAtLegacy, LookAgain, ScheduleLoad
<1>3. ASSUME NEW i \in Slots, LoaderStep(i) PROVE ServeStep(t)
  <2>1. CASE \E valid \in BOOLEAN : StoreLoaded(i, valid)
      BY <2>1, StoreServes
  <2>2. CASE ~ \E valid \in BOOLEAN : StoreLoaded(i, valid)
      BY <1>1, <1>3, <2>2 DEF LoaderStep, ReadTenant, LoadLegacy, Unmark, Release
  <2> QED BY <2>1, <2>2
<1>4. ASSUME NEW u \in Tenants, NEW here \in BOOLEAN, Commit(u, here) PROVE ServeStep(t)
    BY <1>1, <1>4 DEF Commit
<1>5. ASSUME NEW u \in Tenants, InvalidateTenant(u) PROVE ServeStep(t)
  <2>1. tenantCache' = Keep(tenantCache, Tenants \ {u}) /\ highest' = highest
      BY <1>5 DEF InvalidateTenant
  <2>2. \A w \in DOMAIN tenantCache' :
            w \in DOMAIN tenantCache /\ tenantCache'[w] = tenantCache[w]
      BY <2>1 DEF Keep
  <2>3. Served(t)' \in {0, Served(t)}
      BY <2>2 DEF Served, Live
  <2> QED BY <2>1, <2>3, ServesLess
<1>6. CASE Tick
  <2>1. tenantCache' = Aged(tenantCache) /\ highest' = highest
      BY <1>6 DEF Tick
  <2>2. DOMAIN tenantCache' = DOMAIN tenantCache
      BY <2>1 DEF Aged
  <2>3. ASSUME t \in DOMAIN tenantCache
        PROVE  /\ tenantCache'[t].ver = tenantCache[t].ver
               /\ tenantCache'[t].left > 0 => tenantCache[t].left > 0
    <3>1. tenantCache[t] \in TenantEntry
        BY <2>3 DEF IInv, TypeOK
    <3>2. tenantCache'[t] = [tenantCache[t] EXCEPT !.left = IF @ > 0 THEN @ - 1 ELSE 0]
        BY <2>1, <2>3 DEF Aged
    <3>3. tenantCache'[t].left = IF tenantCache[t].left > 0 THEN tenantCache[t].left - 1 ELSE 0
        BY <3>1, <3>2 DEF TenantEntry
    <3>4. tenantCache'[t].ver = tenantCache[t].ver
        BY <3>1, <3>2 DEF TenantEntry
    <3> QED BY <3>1, <3>3, <3>4 DEF TenantEntry
  <2>4. Served(t)' \in {0, Served(t)}
      BY <2>2, <2>3 DEF Served, Live
  <2> QED BY <2>1, <2>4, ServesLess
<1>7. CASE Restart
  <2>1. DOMAIN tenantCache' = {} /\ highest' = highest
      BY <1>7 DEF Restart, NoEntries
  <2>2. Served(t)' = 0
      BY <2>1 DEF Served, Live
  <2> QED BY <2>1, <2>2, ServesLess
<1>8. CASE UNCHANGED vars
    BY <1>1, <1>8 DEF vars
<1> QED BY <1>2, <1>3, <1>4, <1>5, <1>6, <1>7, <1>8 DEF Next

LEMMA InitServes == Init => \A t \in Tenants : Feed(t)!FeedInit
<1> SUFFICES ASSUME Init, NEW t \in Tenants PROVE Feed(t)!FeedInit
    OBVIOUS
<1>1. DOMAIN tenantCache = {} /\ highest[t] = 0
    BY DEF Init, NoEntries
<1>2. Served(t) = 0
    BY <1>1 DEF Served, Live
<1> QED BY <1>1, <1>2 DEF Feed!FeedInit

\* The cache implements what the guard relies on: each tenant's policies are
\* served as PolicyFeed says, whatever other tenants' loads evict
\* (provider.go, forTenantAsync and storeTenant).
THEOREM ServesTheFeed == Spec => ServesFeed
<1>1. Init => \A t \in Tenants : Feed(t)!FeedInit
    BY InitServes
<1>2. IInv /\ [Next]_vars => [\A t \in Tenants : ServeStep(t)]_vars
    BY EveryStepServes
<1>3. Spec => [][\A t \in Tenants : ServeStep(t)]_vars
    BY <1>2, Invariance, PTL DEF Spec
<1> QED BY <1>1, <1>3, PTL DEF Spec, ServesFeed, ServeStep

\* The same for one tenant, as its guard sees it: a behaviour of the
\* provider is a behaviour of PolicyFeed.
THEOREM ImplementsTheFeed == ASSUME NEW t \in Tenants PROVE Spec => Feed(t)!FeedSpec
<1>1. Init => Feed(t)!FeedInit
    BY InitServes
<1>2. IInv /\ [Next]_vars => [Feed(t)!FeedNext]_(Feed(t)!feedVars)
    BY EveryStepServes DEF ServeStep
<1> QED BY <1>1, <1>2, Invariance, PTL DEF Spec, Feed!FeedSpec
=============================================================================
