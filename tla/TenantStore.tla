----------------------------- MODULE TenantStore -----------------------------
(***************************************************************************)
(* The in-memory tenants of one node (pkg/tenant/tenant.go).  The request  *)
(* path finds a tenant by host, the dashboard by ID; both load a missing   *)
(* one from the tenants table and register it under both.  Host lookups    *)
(* share one query per host and a few slots; a failed one is remembered.   *)
(*                                                                         *)
(* A Tenant is a heap object that holds its counters and evidence: two     *)
(* objects of one tenant differ in "copy", a number no live reference      *)
(* uses.  The wildcard tenant and "not found" are one answer, "fallback":  *)
(* what a request gets that no exact tenant served.                        *)
(***************************************************************************)
EXTENDS Integers, FiniteSets

CONSTANTS
    Ids,            \* tenant IDs
    Hosts,
    HostOf,         \* the host of each ID; hosts are unique among the rows
    Callers,        \* requests and dashboard calls in progress
    LookupSlots,    \* maxConcurrentHostLookups
    NegativeTTL,    \* how long a failed lookup is remembered, in ticks
    MaxNegative,    \* maxNegativeHostEntries
    None

ASSUME StoreAssumption ==
    /\ HostOf \in [Ids -> Hosts]
    /\ LookupSlots \in Nat \ {0}
    /\ NegativeTTL \in Nat \ {0}
    /\ MaxNegative \in Nat \ {0}
    /\ IsFiniteSet(Hosts)
    /\ IsFiniteSet(Callers)
    /\ None \notin [id : Ids, status : {"active", "pending"}, copy : Nat]

VARIABLES
    rows,           \* the tenants table
    byHost, byID,   \* the loaded tenants
    negative,       \* what is left of each remembered failure; Gone: no entry
    flight,         \* the shared lookup of each host
    call            \* what each caller is doing

maps == <<byHost, byID, negative>>
vars == <<rows, byHost, byID, negative, flight, call>>

Gone == -1
Statuses == {"active", "pending"}
Tenant == [id : Ids, status : Statuses, copy : Nat]
Row == [id : Ids, status : Statuses]

\* A host lookup: querying, holding the row it read, or with the row added.
NoFlight == [step |-> "none", row |-> None]
Flight == {NoFlight, [step |-> "query", row |-> None], [step |-> "missed", row |-> None]}
          \cup [step : {"read", "added"}, row : Row]

\* "tenant" is the answer a caller holds until it is done.
At(step, host, row, tenant) ==
    [step |-> step, host |-> host, row |-> row, tenant |-> tenant]
Idle == At("idle", None, None, None)
HostSteps == {"missed", "lookup", "waiting"}
Empty == {"fallback", "refused", "not found"}
Call == {Idle} \cup
    [step : HostSteps, host : Hosts, row : {None}, tenant : {None}] \cup
    [step : {"served"}, host : Hosts \cup {None}, row : {None}, tenant : Tenant] \cup
    [step : {"query"}, host : {None}, row : Ids, tenant : {None}] \cup
    [step : {"read", "added"}, host : {None}, row : Row, tenant : {None}] \cup
    [step : Empty, host : {None}, row : {None}, tenant : {None}]

TypeOK ==
    /\ rows \in [Ids -> Statuses \cup {None}]
    /\ byHost \in [Hosts -> Tenant \cup {None}]
    /\ byID \in [Ids -> Tenant \cup {None}]
    /\ negative \in [Hosts -> Gone .. NegativeTTL]
    /\ Cardinality({h \in Hosts : negative[h] # Gone}) <= MaxNegative
    /\ flight \in [Hosts -> Flight]
    /\ call \in [Callers -> Call]

Ready(c) == call[c].step \in {"idle"} \cup Empty
InFlight == {h \in Hosts : flight[h] # NoFlight}

Init ==
    /\ rows = [i \in Ids |-> None]
    /\ byHost = [h \in Hosts |-> None]
    /\ byID = [i \in Ids |-> None]
    /\ negative = [h \in Hosts |-> Gone]
    /\ flight = [h \in Hosts |-> NoFlight]
    /\ call = [c \in Callers |-> Idle]

-----------------------------------------------------------------------------
(* Registering a row. *)

References(i) ==
    {t \in {byID[i]} \cup {byHost[h] : h \in Hosts} \cup {call[c].tenant : c \in Callers} :
        t # None /\ t.id = i}
NewTenant(row) ==
    LET used == {t.copy : t \in References(row.id)}
    IN  [id |-> row.id, status |-> row.status,
         copy |-> CHOOSE n \in 0 .. Cardinality(used) : n \notin used]

\* The host is free, or already this tenant's.
Mappable_Always(row) == TRUE
Mappable(row) ==
    \A t \in {byHost[HostOf[row.id]]} \ {None} : t.id = row.id

\* Add: a tenant that routes no traffic is registered under its ID only.
Add_RoutesPending(row) ==
    LET h == HostOf[row.id]
    IN  /\ byID' = [byID EXCEPT ![row.id] = NewTenant(row)]
        /\ byHost' = [byHost EXCEPT ![h] = NewTenant(row)]
        /\ negative' = [negative EXCEPT ![h] = Gone]
Add_KeepsHost(row) ==
    LET h == HostOf[row.id]
    IN  /\ byID' = [byID EXCEPT ![row.id] = NewTenant(row)]
        /\ byHost' = [byHost EXCEPT ![h] = IF @ = None /\ row.status = "active"
                                           THEN NewTenant(row) ELSE @]
        /\ negative' = [negative EXCEPT ![h] = Gone]
Add(row) ==
    LET h == HostOf[row.id]
    IN  /\ byID' = [byID EXCEPT ![row.id] = NewTenant(row)]
        /\ byHost' = [byHost EXCEPT ![h] = IF row.status = "active"
                                           THEN NewTenant(row) ELSE @]
        /\ negative' = [negative EXCEPT ![h] = Gone]

\* rememberNegativeHost: when full, expired entries leave first, then the one
\* soonest to expire.
Entries(f) == {h \in Hosts : f[h] # Gone}
Swept ==
    IF Cardinality(Entries(negative)) < MaxNegative THEN negative
    ELSE [h \in Hosts |-> IF negative[h] > 0 THEN negative[h] ELSE Gone]
Evictable ==
    IF Cardinality(Entries(Swept)) < MaxNegative THEN {None}
    ELSE {h \in Entries(Swept) : \A g \in Entries(Swept) : Swept[h] <= Swept[g]}
Remember(host) ==
    \E gone \in Evictable :
        negative' = [h \in Hosts |-> IF h = host THEN NegativeTTL
                                     ELSE IF h = gone THEN Gone ELSE Swept[h]]

-----------------------------------------------------------------------------
(* GetByHost. *)

End(step) == At(step, None, None, None)
Become(c, step) == call' = [call EXCEPT ![c].step = step]

\* The first look, under the read lock.
Ask(c, h) ==
    /\ Ready(c)
    /\ call' = [call EXCEPT ![c] =
                   IF byHost[h] = None THEN At("missed", h, None, None)
                   ELSE At("served", h, None, byHost[h])]
    /\ UNCHANGED <<rows, maps, flight>>

CheckNegative(c) ==
    /\ call[c].step = "missed"
    /\ call' = [call EXCEPT ![c] = IF negative[call[c].host] > 0 THEN End("fallback")
                                   ELSE [@ EXCEPT !.step = "lookup"]]
    /\ UNCHANGED <<rows, maps, flight>>

\* lookupHost: join the host's lookup, or start one in a free slot.
Join(c) ==
    /\ call[c].step = "lookup"
    /\ call[c].host \in InFlight
    /\ Become(c, "waiting")
    /\ UNCHANGED <<rows, maps, flight>>

Start(c) ==
    /\ call[c].step = "lookup"
    /\ call[c].host \notin InFlight
    /\ Cardinality(InFlight) < LookupSlots
    /\ flight' = [flight EXCEPT ![call[c].host].step = "query"]
    /\ Become(c, "waiting")
    /\ UNCHANGED <<rows, maps>>

\* No slot: answered as if missing, but not remembered.
Busy(c) ==
    /\ call[c].step = "lookup"
    /\ call[c].host \notin InFlight
    /\ Cardinality(InFlight) >= LookupSlots
    /\ call' = [call EXCEPT ![c] = End("fallback")]
    /\ UNCHANGED <<rows, maps, flight>>

\* fetchFromDB: the row of the host, if it has one.
FetchRow(h) ==
    /\ flight[h].step = "query"
    /\ \E i \in Ids :
          /\ HostOf[i] = h /\ rows[i] # None
          /\ flight' = [flight EXCEPT ![h] =
                           [step |-> "read", row |-> [id |-> i, status |-> rows[i]]]]
    /\ UNCHANGED <<rows, maps, call>>

\* No row, a timeout, an unusable target: all are "not found".
FetchFails(h) ==
    /\ flight[h].step = "query"
    /\ flight' = [flight EXCEPT ![h].step = "missed"]
    /\ UNCHANGED <<rows, maps, call>>

\* addFromDBRow: Add fails on a host mapped to another tenant.
AddRow(h) ==
    /\ flight[h].step = "read"
    /\ \/ /\ Mappable(flight[h].row)
          /\ Add(flight[h].row)
          /\ flight' = [flight EXCEPT ![h].step = "added"]
       \/ /\ ~ Mappable(flight[h].row)
          /\ flight' = [flight EXCEPT ![h] = [step |-> "missed", row |-> None]]
          /\ UNCHANGED maps
    /\ UNCHANGED <<rows, call>>

Waiting(h) == {c \in Callers : call[c].step = "waiting" /\ call[c].host = h}

\* The lookup answers everyone who joined it with the tenant now under the ID.
ReturnAdded(h) ==
    /\ flight[h].step = "added"
    /\ LET t == byID[flight[h].row.id]
       IN  call' = [c \in Callers |->
                IF c \notin Waiting(h) THEN call[c]
                ELSE IF t.status = "active"
                     THEN At("served", h, None, t)
                     ELSE End("refused")]
    /\ flight' = [flight EXCEPT ![h] = NoFlight]
    /\ UNCHANGED <<rows, maps>>

ReturnMissed_KeepsSlot(h) ==
    /\ flight[h].step = "missed"
    /\ Remember(h)
    /\ call' = [c \in Callers |-> IF c \in Waiting(h)
                                  THEN End("fallback") ELSE call[c]]
    /\ UNCHANGED <<rows, byHost, byID, flight>>
ReturnMissed(h) ==
    /\ flight[h].step = "missed"
    /\ Remember(h)
    /\ call' = [c \in Callers |-> IF c \in Waiting(h)
                                  THEN End("fallback") ELSE call[c]]
    /\ flight' = [flight EXCEPT ![h] = NoFlight]
    /\ UNCHANGED <<rows, byHost, byID>>

-----------------------------------------------------------------------------
(* GetByID: its own query, neither shared nor limited. *)

AskByID(c, i) ==
    /\ Ready(c)
    /\ call' = [call EXCEPT ![c] =
                   IF byID[i] = None THEN At("query", None, i, None)
                   ELSE At("served", None, None, byID[i])]
    /\ UNCHANGED <<rows, maps, flight>>

FetchByID(c) ==
    /\ call[c].step = "query"
    /\ LET i == call[c].row
       IN  \/ /\ rows[i] # None
              /\ call' = [call EXCEPT ![c] =
                             At("read", None, [id |-> i, status |-> rows[i]], None)]
           \/ call' = [call EXCEPT ![c] = End("not found")]
    /\ UNCHANGED <<rows, maps, flight>>

AddByID(c) ==
    /\ call[c].step = "read"
    /\ \/ /\ Mappable(call[c].row)
          /\ Add(call[c].row)
          /\ Become(c, "added")
       \/ /\ ~ Mappable(call[c].row)
          /\ call' = [call EXCEPT ![c] = End("not found")]
          /\ UNCHANGED maps
    /\ UNCHANGED <<rows, flight>>

ReturnByID(c) ==
    /\ call[c].step = "added"
    /\ call' = [call EXCEPT ![c] =
                   At("served", None, None, byID[call[c].row.id])]
    /\ UNCHANGED <<rows, maps, flight>>

-----------------------------------------------------------------------------
(* The environment: a caller is done with its tenant, the table changes      *)
(* (a domain is added, activated, suspended, deleted), time passes.          *)

Done(c) ==
    /\ call[c].step = "served"
    /\ call' = [call EXCEPT ![c] = Idle]
    /\ UNCHANGED <<rows, maps, flight>>

ChangeRow(i, status) ==
    /\ rows[i] # status
    /\ status # None => \A j \in Ids \ {i} : HostOf[j] = HostOf[i] => rows[j] = None
    /\ rows' = [rows EXCEPT ![i] = status]
    /\ UNCHANGED <<maps, flight, call>>

Tick ==
    /\ \E h \in Hosts : negative[h] > 0
    /\ negative' = [h \in Hosts |-> IF negative[h] > 0 THEN negative[h] - 1 ELSE negative[h]]
    /\ UNCHANGED <<rows, byHost, byID, flight, call>>

Lookup(h) ==
    FetchRow(h) \/ FetchFails(h) \/ AddRow(h) \/ ReturnAdded(h) \/ ReturnMissed(h)
Work(c) ==
    \/ CheckNegative(c) \/ Join(c) \/ Start(c) \/ Busy(c)
    \/ FetchByID(c) \/ AddByID(c) \/ ReturnByID(c)

Next ==
    \/ \E c \in Callers : \E h \in Hosts : Ask(c, h)
    \/ \E c \in Callers : \E i \in Ids : AskByID(c, i)
    \/ \E c \in Callers : Work(c) \/ Done(c)
    \/ \E h \in Hosts : Lookup(h)
    \/ \E i \in Ids, s \in Statuses \cup {None} : ChangeRow(i, s)
    \/ Tick

Spec == Init /\ [][Next]_vars

\* The code a caller or a lookup runs goes on, and the clock runs.
FairSpec ==
    /\ Spec
    /\ \A c \in Callers : WF_vars(Work(c))
    /\ \A h \in Hosts : WF_vars(Lookup(h))
    /\ WF_vars(Tick)

-----------------------------------------------------------------------------
(* Properties. *)

(* The request path and the dashboard read the same object, except when the  *)
(* tenant left service: then the object under the ID routes nothing.  (Add   *)
(* replaces both entries under one lock; tenant.go:108-132.)                 *)
SplitOnlyOutOfService ==
    \A h \in Hosts : byHost[h] # None =>
        LET listed == byID[byHost[h].id]
        IN  /\ listed # None
            /\ listed # byHost[h] => listed.status # "active"

(* A visitor of a host is only ever served by a tenant of that host whose    *)
(* row routed traffic when it was read, whichever loads raced                *)
(* (tenant.go:136-167).                                                      *)
ServesOwnActiveHost ==
    \A c \in Callers : call[c].step = "served" /\ call[c].host # None =>
        /\ HostOf[call[c].tenant.id] = call[c].host
        /\ call[c].tenant.status = "active"

(* Once a host is mapped it stays mapped to the same tenant, also when its   *)
(* row is deleted and another tenant registers the host (tenant.go:120-124). *)
HostKeepsTenant ==
    [][\A h \in Hosts : byHost[h] # None =>
          byHost'[h] # None /\ byHost'[h].id = byHost[h].id]_vars

(* A domain that stays active is itself routed after a while, whatever       *)
(* failures were remembered before: as long as visitors keep asking for its  *)
(* host and lookups do not fail, or find no slot, for ever.  The one domain  *)
(* that is never routed is the one whose host this node has mapped to        *)
(* another tenant before (HostKeepsTenant; tenant.go:120-124, 150-158,       *)
(* 190-245).                                                                 *)
Routed(i) == byHost[HostOf[i]] # None /\ byHost[HostOf[i]].id = i
ActiveIsRouted ==
    \A i \in Ids : LET h == HostOf[i] IN
        /\ <>[](rows[i] = "active")
        /\ []<>(\E c \in Callers : call[c].host = h)
        /\ <>[][/\ ~ FetchFails(h)
                 /\ \A c \in Callers : call[c].host = h => ~ Busy(c)]_vars
        /\ [](byHost[h] # None => Routed(i))
        => <>Routed(i)

(* Visitors served at the same time for one tenant hold the same counters:   *)
(* lookup_test.go:70-71, "the burst must share one database lookup rather    *)
(* than each request querying and replacing the tenant (which would split    *)
(* its stats and evidence)".                                                 *)
BurstSharesTenant ==
    \A c, d \in Callers :
        /\ call[c].step = "served" /\ call[c].host # None
        /\ call[d].step = "served" /\ call[d].host # None
        /\ call[c].tenant.id = call[d].tenant.id
        => call[c].tenant = call[d].tenant
=============================================================================
