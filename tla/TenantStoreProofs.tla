-------------------------- MODULE TenantStoreProofs --------------------------
(***************************************************************************)
(* Proofs about TenantStore, for any tenants, hosts, callers and limits:   *)
(* the two maps agree, a host never changes hands, and nobody is served by *)
(* a tenant of another host.                                               *)
(***************************************************************************)
EXTENDS TenantStore, FiniteSetTheorems, TLAPS

(***************************************************************************)
(* The inductive invariant.  A host leads to an object of its own tenant   *)
(* that routed traffic when it was read; an ID leads to its own tenant; a  *)
(* host lookup holds a row of its host; and what a load has added can      *)
(* still be found under its ID.                                            *)
(***************************************************************************)
HostsRight ==
    \A h \in Hosts : byHost[h] # None =>
        HostOf[byHost[h].id] = h /\ byHost[h].status = "active"
IdsRight == \A i \in Ids : byID[i] # None => byID[i].id = i
LookupsRight ==
    \A h \in Hosts :
        /\ flight[h].step \in {"read", "added"} => HostOf[flight[h].row.id] = h
        /\ flight[h].step = "added" => byID[flight[h].row.id] # None
LoadsRight == \A c \in Callers : call[c].step = "added" => byID[call[c].row.id] # None

IInv ==
    /\ TypeOK
    /\ HostsRight /\ IdsRight /\ SplitOnlyOutOfService
    /\ LookupsRight /\ LoadsRight
    /\ ServesOwnActiveHost

\* What one step does to the maps, so that the rest of the invariant holds.
MapsType ==
    /\ byHost \in [Hosts -> Tenant \cup {None}]
    /\ byID \in [Ids -> Tenant \cup {None}]
    /\ negative \in [Hosts -> Gone .. NegativeTTL]
    /\ Cardinality(Entries(negative)) <= MaxNegative
MapsRight == MapsType /\ HostsRight /\ IdsRight /\ SplitOnlyOutOfService
IdsStay == \A i \in Ids : byID[i] # None => byID'[i] # None
HostsStay ==
    \A h \in Hosts : byHost[h] # None => byHost'[h] # None /\ byHost'[h].id = byHost[h].id

USE StoreAssumption DEF StoreAssumption

-----------------------------------------------------------------------------
(* Finite sets and the number of a new object. *)

\* The values a function takes on a finite set are finitely many.
LEMMA FiniteImage ==
    ASSUME NEW S, IsFiniteSet(S), NEW f
    PROVE  IsFiniteSet({f[x] : x \in S})
<1> DEFINE T == {f[x] : x \in S}
           g == [x \in S |-> f[x]]
<1>1. g \in Surjection(S, T)
    BY DEF Surjection
<1> HIDE DEF T, g
<1>2. IsFiniteSet(T)
    BY <1>1, FS_Surjection
<1> QED BY <1>2 DEF T

\* Some number up to a finite set's size is not in it.
LEMMA FreshNumber ==
    ASSUME NEW S, IsFiniteSet(S)
    PROVE  \E n \in 0 .. Cardinality(S) : n \notin S
<1> DEFINE k == Cardinality(S)
<1>1. k \in Nat
    BY FS_CardinalityType
<1> SUFFICES ASSUME \A n \in 0 .. k : n \in S PROVE FALSE
    OBVIOUS
<1>2. (0 .. k) \in SUBSET S
    OBVIOUS
<1>3. Cardinality(0 .. k) <= k
    BY <1>2, FS_Subset
<1>4. Cardinality(0 .. k) = k + 1
  <2>1. 0 \in Int /\ k \in Int /\ ~ (0 > k) /\ k - 0 + 1 = k + 1
      BY <1>1
  <2> HIDE DEF k
  <2> QED BY <2>1, FS_Interval
<1> HIDE DEF k
<1> QED BY <1>1, <1>3, <1>4

\* A new object is a tenant with the data of its row.
LEMMA NewTenantType ==
    ASSUME NEW row \in Row, TypeOK
    PROVE  /\ NewTenant(row) \in Tenant
           /\ NewTenant(row) # None
           /\ NewTenant(row).id = row.id
           /\ NewTenant(row).status = row.status
<1> DEFINE i == row.id
           holds == [c \in Callers |-> call[c].tenant]
           A == {byHost[h] : h \in Hosts}
           B == {holds[c] : c \in Callers}
           all == {byID[i]} \cup A \cup B
           copies == [t \in References(i) |-> t.copy]
           used == {t.copy : t \in References(i)}
<1>1. IsFiniteSet(A)
    BY FiniteImage
<1>2. IsFiniteSet(B)
  <2> HIDE DEF holds
  <2> QED BY FiniteImage
<1>3. IsFiniteSet({byID[i]})
    BY FS_Singleton
<1>4. IsFiniteSet(all)
  <2> HIDE DEF A, B
  <2>1. IsFiniteSet({byID[i]} \cup A)
      BY <1>1, <1>3, FS_Union
  <2> QED BY <2>1, <1>2, FS_Union
<1>5. References(i) \in SUBSET all
    BY DEF References
<1>6. IsFiniteSet(References(i))
  <2> HIDE DEF all
  <2> QED BY <1>4, <1>5, FS_Subset
<1>7. {copies[t] : t \in References(i)} = used
    OBVIOUS
<1>8. IsFiniteSet(used)
  <2>1. IsFiniteSet({copies[t] : t \in References(i)})
    <3> HIDE DEF copies
    <3> QED BY <1>6, FiniteImage
  <2> QED BY <2>1, <1>7
<1> DEFINE n == CHOOSE m \in 0 .. Cardinality(used) : m \notin used
<1>9. n \in Nat
  <2> HIDE DEF used
  <2>1. \E m \in 0 .. Cardinality(used) : m \notin used
      BY <1>8, FreshNumber
  <2> QED BY <2>1
<1>10. NewTenant(row) = [id |-> row.id, status |-> row.status, copy |-> n]
    BY DEF NewTenant
<1> HIDE DEF n
<1>11. NewTenant(row) \in Tenant
    BY <1>9, <1>10 DEF Tenant, Row
<1>12. None \notin Tenant
    BY DEF Tenant, Statuses
<1> QED BY <1>10, <1>11, <1>12

-----------------------------------------------------------------------------
(* The negative memory. *)

\* A set that gains one element, and is no larger than its bound allows.
LEMMA OneMore ==
    ASSUME NEW S, IsFiniteSet(S), NEW x, NEW T \in SUBSET (S \cup {x}), NEW m \in Nat,
           Cardinality(S) < m
    PROVE  Cardinality(T) <= m
<1>0. Cardinality(S) \in Nat
    BY FS_CardinalityType
<1>1. IsFiniteSet(S \cup {x}) /\ Cardinality(S \cup {x}) <= Cardinality(S) + 1
  <2>1. /\ IsFiniteSet(S \cup {x})
        /\ Cardinality(S \cup {x}) = IF x \in S THEN Cardinality(S) ELSE Cardinality(S) + 1
      BY FS_AddElement
  <2> QED BY <1>0, <2>1
<1>2. IsFiniteSet(T) /\ Cardinality(T) <= Cardinality(S \cup {x})
    BY <1>1, FS_Subset
<1>3. Cardinality(T) \in Nat /\ Cardinality(S \cup {x}) \in Nat
    BY <1>1, <1>2, FS_CardinalityType
<1> QED BY <1>0, <1>1, <1>2, <1>3

LEMMA EntriesFinite ==
    ASSUME NEW f PROVE IsFiniteSet(Entries(f)) /\ Cardinality(Entries(f)) \in Nat
<1>1. Entries(f) \in SUBSET Hosts
    BY DEF Entries
<1> QED BY <1>1, FS_Subset, FS_CardinalityType

\* Remembering a failed host keeps the memory within its bound.
LEMMA RememberBounded ==
    ASSUME MapsType, NEW host \in Hosts, Remember(host)
    PROVE  /\ negative' \in [Hosts -> Gone .. NegativeTTL]
           /\ Cardinality(Entries(negative')) <= MaxNegative
<1> PICK gone \in Evictable :
        negative' = [h \in Hosts |-> IF h = host THEN NegativeTTL
                                     ELSE IF h = gone THEN Gone ELSE Swept[h]]
    BY DEF Remember
<1>1. Swept \in [Hosts -> Gone .. NegativeTTL]
    BY DEF Swept, MapsType, Gone
<1>2. negative' \in [Hosts -> Gone .. NegativeTTL]
    BY <1>1 DEF Gone
<1>3. Entries(Swept) \in SUBSET Entries(negative)
    BY DEF Entries, Swept, MapsType, Gone
<1>4. Cardinality(Entries(Swept)) <= MaxNegative
  <2>1. Cardinality(Entries(Swept)) <= Cardinality(Entries(negative))
      BY <1>3, EntriesFinite, FS_Subset
  <2>2. /\ Cardinality(Entries(Swept)) \in Nat
        /\ Cardinality(Entries(negative)) \in Nat
      BY EntriesFinite
  <2> QED BY <2>1, <2>2 DEF MapsType
<1>5. CASE Cardinality(Entries(Swept)) < MaxNegative
  <2>1. Entries(negative') \in SUBSET (Entries(Swept) \cup {host})
      BY DEF Entries
  <2>2. IsFiniteSet(Entries(Swept))
      BY EntriesFinite
  <2> HIDE DEF Entries
  <2>3. Cardinality(Entries(negative')) <= MaxNegative
      BY <1>5, <2>1, <2>2, OneMore
  <2> QED BY <1>2, <2>3
<1>6. CASE ~ (Cardinality(Entries(Swept)) < MaxNegative)
  <2>1. gone \in Entries(Swept)
    <3>1. Evictable = {h \in Entries(Swept) : \A g \in Entries(Swept) : Swept[h] <= Swept[g]}
        BY <1>6 DEF Evictable
    <3> QED BY <3>1
  <2> DEFINE rest == Entries(Swept) \ {gone}
  <2>2. Entries(negative') \in SUBSET (rest \cup {host})
      BY DEF Entries
  <2>3. IsFiniteSet(rest) /\ Cardinality(rest) < MaxNegative
    <3>1. IsFiniteSet(Entries(Swept)) /\ Cardinality(Entries(Swept)) \in Nat
        BY EntriesFinite
    <3>2. /\ IsFiniteSet(rest)
          /\ Cardinality(rest) = IF gone \in Entries(Swept)
                                 THEN Cardinality(Entries(Swept)) - 1
                                 ELSE Cardinality(Entries(Swept))
        BY <3>1, FS_RemoveElement
    <3>3. Cardinality(rest) = Cardinality(Entries(Swept)) - 1
        BY <3>2, <2>1
    <3> HIDE DEF rest
    <3>4. Cardinality(rest) < MaxNegative
        BY <3>1, <3>3, <1>4
    <3> QED BY <3>2, <3>4
  <2> HIDE DEF rest
  <2>4. Cardinality(Entries(negative')) <= MaxNegative
      BY <2>2, <2>3, OneMore
  <2> QED BY <1>2, <2>4
<1> QED BY <1>5, <1>6

\* An entry fewer is no more than the bound allows.
LEMMA FewerEntries ==
    ASSUME MapsType, NEW f, \A h \in Hosts : f[h] # Gone => negative[h] # Gone
    PROVE  Cardinality(Entries(f)) <= MaxNegative
<1>1. Entries(f) \in SUBSET Entries(negative)
    BY DEF Entries
<1>2. Cardinality(Entries(f)) <= Cardinality(Entries(negative))
    BY <1>1, EntriesFinite, FS_Subset
<1>3. Cardinality(Entries(f)) \in Nat /\ Cardinality(Entries(negative)) \in Nat
    BY EntriesFinite
<1> QED BY <1>2, <1>3 DEF MapsType

-----------------------------------------------------------------------------
(* Registering a row, under one lock.  The object under the host and the     *)
(* one under its ID are the same, unless the new one is out of service.      *)

LEMMA AddRight ==
    ASSUME TypeOK, MapsRight, NEW row \in Row, Mappable(row), Add(row)
    PROVE  MapsRight' /\ IdsStay /\ HostsStay /\ byID'[row.id] # None
<1> DEFINE h == HostOf[row.id]
           new == NewTenant(row)
<1>1. new \in Tenant /\ new # None /\ new.id = row.id /\ new.status = row.status
    BY NewTenantType
<1>2. h \in Hosts /\ row.id \in Ids /\ row.status \in Statuses
    BY DEF Row
<1>3. /\ byID' = [byID EXCEPT ![row.id] = new]
      /\ byHost' = [byHost EXCEPT ![h] = IF row.status = "active" THEN new ELSE @]
      /\ negative' = [negative EXCEPT ![h] = Gone]
    BY DEF Add
<1>4. byHost[h] # None => byHost[h].id = row.id
    BY DEF Mappable
<1> HIDE DEF new, h
<1>5. MapsType'
  <2>1. negative' \in [Hosts -> Gone .. NegativeTTL]
      BY <1>2, <1>3 DEF MapsRight, MapsType, Gone
  <2>2. \A g \in Hosts : negative'[g] # Gone => negative[g] # Gone
      BY <1>2, <1>3 DEF MapsRight, MapsType
  <2>3. Cardinality(Entries(negative')) <= MaxNegative
      BY <2>2, FewerEntries DEF MapsRight
  <2>4. byHost' \in [Hosts -> Tenant \cup {None}] /\ byID' \in [Ids -> Tenant \cup {None}]
      BY <1>1, <1>2, <1>3 DEF MapsRight, MapsType
  <2>5. Entries(negative)' = Entries(negative')
      BY DEF Entries
  <2> QED BY <2>1, <2>3, <2>4, <2>5 DEF MapsType
<1>6. HostsRight'
    BY <1>1, <1>2, <1>3 DEF h, MapsRight, MapsType, HostsRight
<1>7. IdsRight'
    BY <1>1, <1>2, <1>3 DEF MapsRight, MapsType, IdsRight
<1>8. SplitOnlyOutOfService'
  <2> SUFFICES ASSUME NEW g \in Hosts, byHost'[g] # None
               PROVE  LET listed == byID'[byHost'[g].id]
                      IN  /\ listed # None
                          /\ listed # byHost'[g] => listed.status # "active"
      BY DEF SplitOnlyOutOfService
  <2>1. CASE g = h
    <3>1. CASE row.status = "active"
        BY <1>1, <1>2, <1>3, <2>1, <3>1 DEF MapsRight, MapsType
    <3>2. CASE row.status # "active"
      <4>1. byHost'[g] = byHost[g] /\ byHost[g].id = row.id
          BY <1>2, <1>3, <1>4, <2>1, <3>2 DEF MapsRight, MapsType
      <4> QED BY <1>1, <1>2, <1>3, <3>2, <4>1 DEF MapsRight, MapsType
    <3> QED BY <3>1, <3>2
  <2>2. CASE g # h
    <3>1. byHost'[g] = byHost[g]
        BY <1>2, <1>3, <2>2 DEF MapsRight, MapsType
    <3>2. HostOf[byHost[g].id] = g /\ byHost[g].id \in Ids
      <4>1. byHost[g] \in Tenant
          BY <3>1 DEF MapsRight, MapsType
      <4> QED BY <3>1, <4>1 DEF MapsRight, HostsRight, Tenant
    <3>3. byHost[g].id # row.id
        BY <2>2, <3>2 DEF h
    <3>4. byID'[byHost[g].id] = byID[byHost[g].id]
        BY <1>3, <3>2, <3>3 DEF MapsRight, MapsType
    <3> QED BY <3>1, <3>4 DEF MapsRight, SplitOnlyOutOfService
  <2> QED BY <2>1, <2>2
<1>9. IdsStay
    BY <1>1, <1>2, <1>3 DEF IdsStay, MapsRight, MapsType
<1>10. HostsStay
    BY <1>1, <1>2, <1>3, <1>4 DEF HostsStay, MapsRight, MapsType
<1>11. byID'[row.id] # None
    BY <1>1, <1>2, <1>3 DEF MapsRight, MapsType
<1> QED BY <1>5, <1>6, <1>7, <1>8, <1>9, <1>10, <1>11 DEF MapsRight

-----------------------------------------------------------------------------
(* Steps. *)

\* What the type invariant says of the maps.
LEMMA MapsOfInvariant == ASSUME IInv PROVE MapsRight
BY DEF IInv, MapsRight, MapsType, TypeOK, Entries

LEMMA InitIInv == Init => IInv
<1> SUFFICES ASSUME Init PROVE IInv
    OBVIOUS
<1>1. negative \in [Hosts -> Gone .. NegativeTTL]
    BY DEF Init, Gone
<1>2. Cardinality({h \in Hosts : negative[h] # Gone}) <= MaxNegative
  <2>1. {h \in Hosts : negative[h] # Gone} = {}
      BY DEF Init
  <2> QED BY <2>1, FS_EmptySet
<1>3. TypeOK
  <2>1. flight \in [Hosts -> Flight] /\ call \in [Callers -> Call]
      BY DEF Init, Flight, Call
  <2>2. rows \in [Ids -> Statuses \cup {None}]
      BY DEF Init
  <2>3. byHost \in [Hosts -> Tenant \cup {None}] /\ byID \in [Ids -> Tenant \cup {None}]
      BY DEF Init
  <2> QED BY <1>1, <1>2, <2>1, <2>2, <2>3 DEF TypeOK
<1>4. HostsRight /\ IdsRight /\ SplitOnlyOutOfService
    BY DEF Init, HostsRight, IdsRight, SplitOnlyOutOfService
<1>5. LookupsRight
    BY DEF Init, LookupsRight, NoFlight
<1>6. LoadsRight /\ ServesOwnActiveHost
    BY DEF Init, LoadsRight, ServesOwnActiveHost, Idle, At
<1> QED BY <1>3, <1>4, <1>5, <1>6 DEF IInv

\* The shapes a call and a lookup have at each step.
LEMMA CallShapes ==
    ASSUME NEW x \in Call
    PROVE  /\ x.step \in HostSteps =>
                x.host \in Hosts /\ x = At(x.step, x.host, None, None)
           /\ x.step = "query" => x.row \in Ids
           /\ x.step \in {"read", "added"} =>
                x.row \in Row /\ x = At(x.step, None, x.row, None)
           /\ x.step = "served" => x.tenant \in Tenant
<1>1. CASE x = Idle
    BY <1>1 DEF Idle, At, HostSteps
<1>2. CASE x \in [step : HostSteps, host : Hosts, row : {None}, tenant : {None}]
    BY <1>2 DEF At, HostSteps
<1>3. CASE x \in [step : {"served"}, host : Hosts \cup {None}, row : {None}, tenant : Tenant]
    BY <1>3 DEF At, HostSteps
<1>4. CASE x \in [step : {"query"}, host : {None}, row : Ids, tenant : {None}]
    BY <1>4 DEF At, HostSteps
<1>5. CASE x \in [step : {"read", "added"}, host : {None}, row : Row, tenant : {None}]
    BY <1>5 DEF At, HostSteps
<1>6. CASE x \in [step : Empty, host : {None}, row : {None}, tenant : {None}]
    BY <1>6 DEF At, HostSteps, Empty
<1> QED BY <1>1, <1>2, <1>3, <1>4, <1>5, <1>6 DEF Call

LEMMA FlightShapes ==
    ASSUME NEW x \in Flight
    PROVE  /\ x.step \in {"none", "query", "missed"} => x = [step |-> x.step, row |-> None]
           /\ x.step \in {"read", "added"} => x.row \in Row /\ x = [step |-> x.step, row |-> x.row]
           /\ x.step = "none" <=> x = NoFlight
           /\ x.step \in {"none", "query", "missed", "read", "added"}
BY DEF Flight, NoFlight

\* A step that changes nothing but one call.
LEMMA OneCall ==
    ASSUME IInv, UNCHANGED <<rows, maps, flight>>,
           NEW c \in Callers, NEW x \in Call, call' = [call EXCEPT ![c] = x],
           x.step = "added" => byID[x.row.id] # None,
           x.step = "served" /\ x.host # None =>
               HostOf[x.tenant.id] = x.host /\ x.tenant.status = "active"
    PROVE  IInv' /\ HostsStay
<1>1. UNCHANGED <<rows, byHost, byID, negative, flight>>
    BY DEF maps
<1>2. TypeOK'
  <2>1. call' \in [Callers -> Call]
      BY DEF IInv, TypeOK
  <2> QED BY <1>1, <2>1 DEF IInv, TypeOK
<1>3. HostsRight' /\ IdsRight' /\ SplitOnlyOutOfService'
    BY <1>1 DEF IInv, HostsRight, IdsRight, SplitOnlyOutOfService
<1>4. LookupsRight'
    BY <1>1 DEF IInv, LookupsRight
<1>5. LoadsRight'
    BY <1>1 DEF IInv, LoadsRight, TypeOK
<1>6. ServesOwnActiveHost'
    BY DEF IInv, ServesOwnActiveHost, TypeOK
<1> QED BY <1>1, <1>2, <1>3, <1>4, <1>5, <1>6 DEF IInv, HostsStay

\* The calls the steps below make.
LEMMA CallTypes ==
    /\ Idle \in Call
    /\ \A s \in Empty : End(s) \in Call
    /\ \A s \in HostSteps, h \in Hosts : At(s, h, None, None) \in Call
    /\ \A h \in Hosts \cup {None}, t \in Tenant : At("served", h, None, t) \in Call
    /\ \A i \in Ids : At("query", None, i, None) \in Call
    /\ \A s \in {"read", "added"}, row \in Row : At(s, None, row, None) \in Call
BY DEF At, End, Empty, Call, HostSteps

LEMMA AskStep ==
    ASSUME IInv, NEW c \in Callers, NEW h \in Hosts, Ask(c, h)
    PROVE  IInv' /\ HostsStay
<1> DEFINE x == IF byHost[h] = None THEN At("missed", h, None, None)
                ELSE At("served", h, None, byHost[h])
<1>1. call' = [call EXCEPT ![c] = x] /\ UNCHANGED <<rows, maps, flight>>
    BY DEF Ask
<1>2. CASE byHost[h] = None
  <2>1. x = At("missed", h, None, None)
      BY <1>2
  <2>2. x \in Call /\ x.step = "missed"
      BY <2>1, CallTypes DEF HostSteps, At
  <2> HIDE DEF x
  <2> QED BY <1>1, <2>2, OneCall
<1>3. CASE byHost[h] # None
  <2>1. x = At("served", h, None, byHost[h])
      BY <1>3
  <2>2. byHost[h] \in Tenant
      BY <1>3 DEF IInv, TypeOK
  <2>3. x \in Call
      BY <2>1, <2>2, CallTypes
  <2>4. HostOf[byHost[h].id] = h /\ byHost[h].status = "active"
      BY <1>3 DEF IInv, HostsRight
  <2>5. x.step = "served" /\ x.host = h /\ x.tenant = byHost[h]
      BY <2>1 DEF At
  <2> HIDE DEF x
  <2> QED BY <1>1, <2>3, <2>4, <2>5, OneCall
<1> QED BY <1>2, <1>3

\* A call in a host lookup goes on, or ends without a tenant.
LEMMA HostLookupStep ==
    ASSUME IInv, NEW c \in Callers, call[c].step \in HostSteps,
           UNCHANGED <<rows, maps, flight>>,
           \/ \E s \in HostSteps : call' = [call EXCEPT ![c].step = s]
           \/ \E s \in Empty : call' = [call EXCEPT ![c] = End(s)]
    PROVE  IInv' /\ HostsStay
<1>1. call \in [Callers -> Call] /\ call[c] \in Call
    BY DEF IInv, TypeOK
<1>2. call[c].host \in Hosts /\ call[c] = At(call[c].step, call[c].host, None, None)
    BY <1>1, CallShapes
<1>3. ASSUME NEW s \in HostSteps, call' = [call EXCEPT ![c].step = s]
      PROVE  IInv' /\ HostsStay
  <2> DEFINE x == At(s, call[c].host, None, None)
  <2>0. [call[c] EXCEPT !.step = s] = x
    <3> DEFINE st == call[c].step
               h == call[c].host
    <3>1. call[c] = [step |-> st, host |-> h, row |-> None, tenant |-> None]
        BY <1>2 DEF At
    <3> HIDE DEF st, h
    <3>2. [call[c] EXCEPT !.step = s] = At(s, h, None, None)
        BY <3>1 DEF At
    <3> QED BY <3>2 DEF h
  <2>1. call' = [call EXCEPT ![c] = x]
    <3>1. call' = [call EXCEPT ![c] = [call[c] EXCEPT !.step = s]]
        BY <1>1, <1>3
    <3> HIDE DEF x
    <3> QED BY <2>0, <3>1
  <2>2. x \in Call /\ x.step \notin {"added", "served"}
      BY <1>2, CallTypes DEF At, HostSteps
  <2> HIDE DEF x
  <2> QED BY <2>1, <2>2, OneCall
<1>4. ASSUME NEW s \in Empty, call' = [call EXCEPT ![c] = End(s)]
      PROVE  IInv' /\ HostsStay
  <2>1. End(s) \in Call /\ End(s).step \notin {"added", "served"}
      BY CallTypes DEF End, At, Empty
  <2> QED BY <1>4, <2>1, OneCall
<1> QED BY <1>3, <1>4

LEMMA CheckNegativeStep ==
    ASSUME IInv, NEW c \in Callers, CheckNegative(c)
    PROVE  IInv' /\ HostsStay
<1>1. call \in [Callers -> Call]
    BY DEF IInv, TypeOK
<1>2. call[c].step \in HostSteps
    BY DEF CheckNegative, HostSteps
<1>3. CASE negative[call[c].host] > 0
  <2>1. call' = [call EXCEPT ![c] = End("fallback")]
      BY <1>1, <1>3 DEF CheckNegative
  <2> QED BY <1>2, <2>1, HostLookupStep DEF CheckNegative, Empty
<1>4. CASE ~ (negative[call[c].host] > 0)
  <2>1. call' = [call EXCEPT ![c].step = "lookup"]
      BY <1>1, <1>4 DEF CheckNegative
  <2>2. UNCHANGED <<rows, maps, flight>>
      BY DEF CheckNegative
  <2>3. "lookup" \in HostSteps
      BY DEF HostSteps
  <2>4. \E s \in HostSteps : call' = [call EXCEPT ![c].step = s]
      BY <2>1, <2>3
  <2> QED BY <1>2, <2>2, <2>4, HostLookupStep
<1> QED BY <1>3, <1>4

LEMMA JoinStep ==
    ASSUME IInv, NEW c \in Callers, Join(c) \/ Busy(c)
    PROVE  IInv' /\ HostsStay
<1>1. call[c].step \in HostSteps /\ UNCHANGED <<rows, maps, flight>>
    BY DEF Join, Busy, HostSteps
<1>2. \/ \E s \in HostSteps : call' = [call EXCEPT ![c].step = s]
      \/ \E s \in Empty : call' = [call EXCEPT ![c] = End(s)]
    BY DEF Join, Busy, Become, HostSteps, Empty
<1> QED BY <1>1, <1>2, HostLookupStep

\* A step of a host lookup, which may end the calls that wait for it.
LEMMA OneFlight ==
    ASSUME IInv, UNCHANGED <<rows, maps, call>>,
           NEW h \in Hosts, NEW x \in Flight, flight' = [flight EXCEPT ![h] = x],
           x.step \in {"read", "added"} => HostOf[x.row.id] = h,
           x.step = "added" => byID[x.row.id] # None
    PROVE  IInv' /\ HostsStay
<1>1. UNCHANGED <<rows, byHost, byID, negative, call>>
    BY DEF maps
<1>2. TypeOK'
  <2>1. flight' \in [Hosts -> Flight]
      BY DEF IInv, TypeOK
  <2> QED BY <1>1, <2>1 DEF IInv, TypeOK
<1>3. HostsRight' /\ IdsRight' /\ SplitOnlyOutOfService'
    BY <1>1 DEF IInv, HostsRight, IdsRight, SplitOnlyOutOfService
<1>4. LookupsRight'
    BY <1>1 DEF IInv, LookupsRight, TypeOK
<1>5. LoadsRight' /\ ServesOwnActiveHost'
    BY <1>1 DEF IInv, LoadsRight, ServesOwnActiveHost
<1> QED BY <1>1, <1>2, <1>3, <1>4, <1>5 DEF IInv, HostsStay

LEMMA FlightTypes ==
    /\ NoFlight \in Flight /\ NoFlight.step = "none"
    /\ \A s \in {"query", "missed"} : [step |-> s, row |-> None] \in Flight
    /\ \A s \in {"read", "added"}, row \in Row : [step |-> s, row |-> row] \in Flight
BY DEF Flight, NoFlight

LEMMA FetchRowStep ==
    ASSUME IInv, NEW h \in Hosts, FetchRow(h)
    PROVE  IInv' /\ HostsStay
<1> PICK i \in Ids :
        /\ HostOf[i] = h /\ rows[i] # None
        /\ flight' = [flight EXCEPT ![h] =
                         [step |-> "read", row |-> [id |-> i, status |-> rows[i]]]]
    BY DEF FetchRow
<1> DEFINE row == [id |-> i, status |-> rows[i]]
           x == [step |-> "read", row |-> row]
<1>1. row \in Row
    BY DEF Row, IInv, TypeOK
<1>2. x \in Flight
    BY <1>1, FlightTypes
<1>3. x.step = "read" /\ x.row.id = i
    OBVIOUS
<1>4. flight' = [flight EXCEPT ![h] = x] /\ UNCHANGED <<rows, maps, call>>
    BY DEF FetchRow
<1> HIDE DEF x, row
<1> QED BY <1>2, <1>3, <1>4, OneFlight

LEMMA FetchFailsStep ==
    ASSUME IInv, NEW h \in Hosts, FetchFails(h)
    PROVE  IInv' /\ HostsStay
<1> DEFINE x == [step |-> "missed", row |-> None]
<1>1. flight \in [Hosts -> Flight] /\ flight[h] = [step |-> "query", row |-> None]
    BY FlightShapes DEF FetchFails, IInv, TypeOK
<1>2. flight' = [flight EXCEPT ![h] = x] /\ UNCHANGED <<rows, maps, call>>
  <2>1. flight' = [flight EXCEPT ![h] = [flight[h] EXCEPT !.step = "missed"]]
      BY <1>1 DEF FetchFails
  <2>2. [flight[h] EXCEPT !.step = "missed"] = x
      BY <1>1
  <2> HIDE DEF x
  <2> QED BY <2>1, <2>2 DEF FetchFails
<1>3. x \in Flight /\ x.step = "missed"
    BY FlightTypes
<1> HIDE DEF x
<1> QED BY <1>2, <1>3, OneFlight

LEMMA StartStep ==
    ASSUME IInv, NEW c \in Callers, Start(c)
    PROVE  IInv' /\ HostsStay
<1> DEFINE h == call[c].host
           x == [step |-> "query", row |-> None]
           y == At("waiting", h, None, None)
<1>1. /\ call \in [Callers -> Call] /\ flight \in [Hosts -> Flight]
      /\ UNCHANGED <<rows, byHost, byID, negative>>
    BY DEF Start, maps, IInv, TypeOK
<1>2. h \in Hosts /\ call[c] = At("lookup", h, None, None)
    BY <1>1, CallShapes DEF Start, HostSteps
<1>3. flight[h] = [step |-> "none", row |-> None]
    BY <1>1, <1>2 DEF Start, InFlight, NoFlight
<1>4. flight' = [flight EXCEPT ![h] = x]
  <2>1. flight' = [flight EXCEPT ![h] = [flight[h] EXCEPT !.step = "query"]]
      BY <1>1, <1>2 DEF Start
  <2>2. [flight[h] EXCEPT !.step = "query"] = x
      BY <1>3
  <2> HIDE DEF x, h
  <2> QED BY <2>1, <2>2
<1>5. call' = [call EXCEPT ![c] = y]
  <2>1. call' = [call EXCEPT ![c] = [call[c] EXCEPT !.step = "waiting"]]
      BY <1>1 DEF Start, Become
  <2>2. [call[c] EXCEPT !.step = "waiting"] = y
    <3> HIDE DEF h
    <3> QED BY <1>2 DEF At
  <2> HIDE DEF y, h
  <2> QED BY <2>1, <2>2
<1>6. x \in Flight /\ y \in Call
    BY <1>2, FlightTypes, CallTypes DEF HostSteps
<1>7. x.step = "query" /\ y.step = "waiting"
    BY DEF At
<1> HIDE DEF x, y, h
<1>8. TypeOK'
  <2>1. flight' \in [Hosts -> Flight] /\ call' \in [Callers -> Call]
      BY <1>1, <1>4, <1>5, <1>6
  <2> QED BY <1>1, <2>1 DEF IInv, TypeOK
<1>9. HostsRight' /\ IdsRight' /\ SplitOnlyOutOfService'
    BY <1>1 DEF IInv, HostsRight, IdsRight, SplitOnlyOutOfService
<1>10. LookupsRight'
    BY <1>1, <1>4, <1>7 DEF IInv, LookupsRight
<1>11. LoadsRight' /\ ServesOwnActiveHost'
    BY <1>1, <1>5, <1>7 DEF IInv, LoadsRight, ServesOwnActiveHost
<1> QED BY <1>1, <1>8, <1>9, <1>10, <1>11 DEF IInv, HostsStay

\* What a step that adds a row leaves of the invariant's other parts.
LEMMA TypeAfterAdd ==
    ASSUME TypeOK, MapsRight', rows' = rows,
           flight' \in [Hosts -> Flight], call' \in [Callers -> Call]
    PROVE  TypeOK'
BY DEF TypeOK, MapsRight, MapsType, Entries

LEMMA AddRowStep ==
    ASSUME IInv, NEW h \in Hosts, AddRow(h)
    PROVE  IInv' /\ HostsStay
<1> DEFINE row == flight[h].row
<1>1. flight \in [Hosts -> Flight] /\ call \in [Callers -> Call] /\ TypeOK
    BY DEF IInv, TypeOK
<1>2. row \in Row /\ flight[h] = [step |-> "read", row |-> row] /\ HostOf[row.id] = h
    BY <1>1, FlightShapes DEF AddRow, IInv, LookupsRight
<1>3. UNCHANGED <<rows, call>>
    BY DEF AddRow
<1>4. CASE Mappable(row)
  <2> DEFINE x == [step |-> "added", row |-> row]
  <2>1. Add(row)
      BY <1>4 DEF AddRow
  <2>2. flight' = [flight EXCEPT ![h] = x]
    <3>1. flight' = [flight EXCEPT ![h] = [flight[h] EXCEPT !.step = "added"]]
        BY <1>1, <1>4 DEF AddRow
    <3>2. [flight[h] EXCEPT !.step = "added"] = x
      <4> HIDE DEF row
      <4> QED BY <1>2
    <3> HIDE DEF x, row
    <3> QED BY <3>1, <3>2
  <2> HIDE DEF row
  <2>3. MapsRight' /\ IdsStay /\ HostsStay /\ byID'[row.id] # None
    <3>1. MapsRight
        BY MapsOfInvariant
    <3> QED BY <1>1, <1>2, <1>4, <2>1, <3>1, AddRight
  <2>4. x \in Flight /\ x.step = "added" /\ x.row = row
      BY <1>2, FlightTypes
  <2> HIDE DEF x
  <2>5. flight' \in [Hosts -> Flight]
      BY <1>1, <2>2, <2>4
  <2>6. TypeOK'
      BY <1>1, <1>3, <2>3, <2>5, TypeAfterAdd
  <2>7. LookupsRight'
    <3> SUFFICES ASSUME NEW g \in Hosts, flight'[g].step \in {"read", "added"}
                 PROVE  /\ HostOf[flight'[g].row.id] = g
                        /\ flight'[g].step = "added" => byID'[flight'[g].row.id] # None
        BY DEF LookupsRight
    <3>1. CASE g = h
        BY <1>1, <1>2, <2>2, <2>3, <2>4, <3>1
    <3>2. CASE g # h
      <4>1. flight'[g] = flight[g] /\ flight[g].row \in Row
          BY <1>1, <2>2, <3>2, FlightShapes
      <4>2. flight[g].row.id \in Ids
          BY <4>1 DEF Row
      <4> QED BY <2>3, <4>1, <4>2 DEF IInv, LookupsRight, IdsStay
    <3> QED BY <3>1, <3>2
  <2>8. LoadsRight'
    <3> SUFFICES ASSUME NEW c \in Callers, call[c].step = "added"
                 PROVE  byID'[call[c].row.id] # None
        BY <1>3 DEF LoadsRight
    <3>1. call[c].row.id \in Ids
        BY <1>1, CallShapes DEF Row
    <3> QED BY <2>3, <3>1 DEF IInv, LoadsRight, IdsStay
  <2>9. ServesOwnActiveHost'
      BY <1>3 DEF IInv, ServesOwnActiveHost
  <2> QED BY <2>3, <2>6, <2>7, <2>8, <2>9 DEF IInv, MapsRight
<1>5. CASE ~ Mappable(row)
  <2> DEFINE x == [step |-> "missed", row |-> None]
  <2>1. flight' = [flight EXCEPT ![h] = x] /\ UNCHANGED <<rows, maps, call>>
      BY <1>5, <1>3 DEF AddRow
  <2>2. x \in Flight /\ x.step = "missed"
      BY FlightTypes
  <2> HIDE DEF x
  <2> QED BY <2>1, <2>2, OneFlight
<1> QED BY <1>4, <1>5

\* A lookup ends: everyone who waited for it gets one answer.
LEMMA EndOfLookup ==
    ASSUME IInv, NEW h \in Hosts, UNCHANGED <<rows, byHost, byID>>,
           NEW x \in Call, call' = [c \in Callers |-> IF c \in Waiting(h) THEN x ELSE call[c]],
           flight' = [flight EXCEPT ![h] = NoFlight],
           negative' \in [Hosts -> Gone .. NegativeTTL],
           Cardinality(Entries(negative')) <= MaxNegative,
           x.step # "added",
           x.step = "served" => HostOf[x.tenant.id] = x.host /\ x.tenant.status = "active"
    PROVE  IInv' /\ HostsStay
<1>1. TypeOK'
  <2>1. call' \in [Callers -> Call] /\ flight' \in [Hosts -> Flight]
      BY FlightTypes DEF IInv, TypeOK
  <2> QED BY <2>1 DEF IInv, TypeOK, Entries
<1>2. HostsRight' /\ IdsRight' /\ SplitOnlyOutOfService'
    BY DEF IInv, HostsRight, IdsRight, SplitOnlyOutOfService
<1>3. LookupsRight'
    BY FlightTypes DEF IInv, LookupsRight, TypeOK
<1>4. LoadsRight' /\ ServesOwnActiveHost'
    BY DEF IInv, LoadsRight, ServesOwnActiveHost
<1> QED BY <1>1, <1>2, <1>3, <1>4 DEF IInv, HostsStay

LEMMA ReturnAddedStep ==
    ASSUME IInv, NEW h \in Hosts, ReturnAdded(h)
    PROVE  IInv' /\ HostsStay
<1> DEFINE t == byID[flight[h].row.id]
           x == IF t.status = "active" THEN At("served", h, None, t) ELSE End("refused")
<1>1. flight[h].row \in Row /\ HostOf[flight[h].row.id] = h /\ t # None
    BY FlightShapes DEF ReturnAdded, IInv, TypeOK, LookupsRight
<1>2. t \in Tenant /\ t.id = flight[h].row.id
    BY <1>1 DEF Row, IInv, TypeOK, IdsRight
<1>3. x \in Call
    BY <1>2, CallTypes DEF Empty
<1>4. x.step # "added" /\ (x.step = "served" =>
            HostOf[x.tenant.id] = x.host /\ x.tenant.status = "active")
    BY <1>1, <1>2 DEF At, End
<1>5. call' = [c \in Callers |-> IF c \in Waiting(h) THEN x ELSE call[c]]
    BY DEF ReturnAdded
<1>6. /\ flight' = [flight EXCEPT ![h] = NoFlight]
      /\ UNCHANGED <<rows, byHost, byID, negative>>
    BY DEF ReturnAdded, maps
<1>7. /\ negative' \in [Hosts -> Gone .. NegativeTTL]
      /\ Cardinality(Entries(negative')) <= MaxNegative
    BY <1>6, MapsOfInvariant DEF MapsRight, MapsType
<1> HIDE DEF x, t
<1> QED BY <1>3, <1>4, <1>5, <1>6, <1>7, EndOfLookup

LEMMA ReturnMissedStep ==
    ASSUME IInv, NEW h \in Hosts, ReturnMissed(h)
    PROVE  IInv' /\ HostsStay
<1>1. End("fallback") \in Call /\ End("fallback").step = "fallback"
    BY CallTypes DEF Empty, End, At
<1>2. /\ negative' \in [Hosts -> Gone .. NegativeTTL]
      /\ Cardinality(Entries(negative')) <= MaxNegative
    BY MapsOfInvariant, RememberBounded DEF ReturnMissed, MapsRight
<1>3. /\ call' = [c \in Callers |-> IF c \in Waiting(h) THEN End("fallback") ELSE call[c]]
      /\ flight' = [flight EXCEPT ![h] = NoFlight]
      /\ UNCHANGED <<rows, byHost, byID>>
    BY DEF ReturnMissed
<1> QED BY <1>1, <1>2, <1>3, EndOfLookup

LEMMA AskByIDStep ==
    ASSUME IInv, NEW c \in Callers, NEW i \in Ids, AskByID(c, i)
    PROVE  IInv' /\ HostsStay
<1> DEFINE x == IF byID[i] = None THEN At("query", None, i, None)
                ELSE At("served", None, None, byID[i])
<1>1. call' = [call EXCEPT ![c] = x] /\ UNCHANGED <<rows, maps, flight>>
    BY DEF AskByID
<1>2. byID[i] \in Tenant \cup {None}
    BY DEF IInv, TypeOK
<1>3. x \in Call
    BY <1>2, CallTypes
<1>4. x.step # "added" /\ x.host = None
    BY DEF At
<1> HIDE DEF x
<1> QED BY <1>1, <1>3, <1>4, OneCall

LEMMA FetchByIDStep ==
    ASSUME IInv, NEW c \in Callers, FetchByID(c)
    PROVE  IInv' /\ HostsStay
<1> DEFINE i == call[c].row
           x == At("read", None, [id |-> i, status |-> rows[i]], None)
<1>1. UNCHANGED <<rows, maps, flight>>
    BY DEF FetchByID
<1>2. i \in Ids
    BY CallShapes DEF FetchByID, IInv, TypeOK
<1>3. ASSUME rows[i] # None, call' = [call EXCEPT ![c] = x]
      PROVE  IInv' /\ HostsStay
  <2>1. rows[i] \in Statuses
      BY <1>2, <1>3 DEF IInv, TypeOK
  <2>2. [id |-> i, status |-> rows[i]] \in Row
      BY <1>2, <2>1 DEF Row
  <2>3. x \in Call
      BY <2>2, CallTypes
  <2>4. x.step = "read"
      BY DEF At
  <2> HIDE DEF x
  <2> QED BY <1>1, <1>3, <2>3, <2>4, OneCall
<1>4. ASSUME call' = [call EXCEPT ![c] = End("not found")]
      PROVE  IInv' /\ HostsStay
  <2>1. End("not found") \in Call /\ End("not found").step = "not found"
      BY CallTypes DEF Empty, End, At
  <2> QED BY <1>1, <1>4, <2>1, OneCall
<1> QED BY <1>3, <1>4 DEF FetchByID

LEMMA AddByIDStep ==
    ASSUME IInv, NEW c \in Callers, AddByID(c)
    PROVE  IInv' /\ HostsStay
<1> DEFINE row == call[c].row
<1>1. flight \in [Hosts -> Flight] /\ call \in [Callers -> Call] /\ TypeOK
    BY DEF IInv, TypeOK
<1>2. row \in Row /\ call[c] = At("read", None, row, None)
    BY <1>1, CallShapes DEF AddByID
<1>3. UNCHANGED <<rows, flight>>
    BY DEF AddByID
<1>4. ASSUME Mappable(row), Add(row), Become(c, "added")
      PROVE  IInv' /\ HostsStay
  <2> DEFINE x == At("added", None, row, None)
  <2>1. call' = [call EXCEPT ![c] = x]
    <3>1. call' = [call EXCEPT ![c] = [call[c] EXCEPT !.step = "added"]]
        BY <1>1, <1>4 DEF Become
    <3>2. [call[c] EXCEPT !.step = "added"] = x
      <4> HIDE DEF row
      <4> QED BY <1>2 DEF At
    <3> HIDE DEF x, row
    <3> QED BY <3>1, <3>2
  <2>2. MapsRight' /\ IdsStay /\ HostsStay /\ byID'[row.id] # None
    <3>1. MapsRight
        BY MapsOfInvariant
    <3> HIDE DEF row
    <3> QED BY <1>1, <1>2, <1>4, <3>1, AddRight
  <2>3. x \in Call /\ x.step = "added" /\ x.row = row
      BY <1>2, CallTypes DEF At
  <2> HIDE DEF x, row
  <2>4. TypeOK'
    <3>1. call' \in [Callers -> Call]
        BY <1>1, <2>1, <2>3
    <3> QED BY <1>1, <1>3, <2>2, <3>1, TypeAfterAdd
  <2>5. LookupsRight'
    <3> SUFFICES ASSUME NEW g \in Hosts, flight[g].step \in {"read", "added"}
                 PROVE  /\ HostOf[flight[g].row.id] = g
                        /\ flight[g].step = "added" => byID'[flight[g].row.id] # None
        BY <1>3 DEF LookupsRight
    <3>1. flight[g].row.id \in Ids
        BY <1>1, FlightShapes DEF Row
    <3> QED BY <2>2, <3>1 DEF IInv, LookupsRight, IdsStay
  <2>6. LoadsRight'
    <3> SUFFICES ASSUME NEW d \in Callers, call'[d].step = "added"
                 PROVE  byID'[call'[d].row.id] # None
        BY DEF LoadsRight
    <3>1. CASE d = c
        BY <1>1, <2>1, <2>2, <2>3, <3>1
    <3>2. CASE d # c
      <4>1. call'[d] = call[d]
          BY <1>1, <2>1, <3>2
      <4>2. call[d].row.id \in Ids
          BY <1>1, <4>1, CallShapes DEF Row
      <4> QED BY <2>2, <4>1, <4>2 DEF IInv, LoadsRight, IdsStay
    <3> QED BY <3>1, <3>2
  <2>7. ServesOwnActiveHost'
      BY <1>1, <2>1, <2>3 DEF IInv, ServesOwnActiveHost
  <2> QED BY <2>2, <2>4, <2>5, <2>6, <2>7 DEF IInv, MapsRight
<1>5. ASSUME call' = [call EXCEPT ![c] = End("not found")], UNCHANGED maps
      PROVE  IInv' /\ HostsStay
  <2>1. End("not found") \in Call /\ End("not found").step = "not found"
      BY CallTypes DEF Empty, End, At
  <2> QED BY <1>3, <1>5, <2>1, OneCall
<1> QED BY <1>4, <1>5 DEF AddByID

LEMMA ReturnByIDStep ==
    ASSUME IInv, NEW c \in Callers, ReturnByID(c)
    PROVE  IInv' /\ HostsStay
<1> DEFINE t == byID[call[c].row.id]
           x == At("served", None, None, t)
<1>1. call[c].row.id \in Ids /\ t # None
    BY CallShapes DEF ReturnByID, IInv, TypeOK, LoadsRight, Row
<1>2. t \in Tenant
    BY <1>1 DEF IInv, TypeOK
<1>3. x \in Call /\ x.step = "served" /\ x.host = None
    BY <1>2, CallTypes DEF At
<1>4. call' = [call EXCEPT ![c] = x] /\ UNCHANGED <<rows, maps, flight>>
    BY DEF ReturnByID
<1> HIDE DEF x
<1> QED BY <1>3, <1>4, OneCall

LEMMA DoneStep ==
    ASSUME IInv, NEW c \in Callers, Done(c)
    PROVE  IInv' /\ HostsStay
<1>1. Idle \in Call /\ Idle.step = "idle"
    BY CallTypes DEF Idle, At
<1> QED BY <1>1, OneCall DEF Done

\* The table's changes and the clock touch none of the maps the rest is about.
LEMMA ChangeRowStep ==
    ASSUME IInv, NEW i \in Ids, NEW s \in Statuses \cup {None}, ChangeRow(i, s)
    PROVE  IInv' /\ HostsStay
<1>1. UNCHANGED <<byHost, byID, negative, flight, call>>
    BY DEF ChangeRow, maps
<1>2. TypeOK'
  <2>1. rows' \in [Ids -> Statuses \cup {None}]
      BY DEF ChangeRow, IInv, TypeOK
  <2> QED BY <1>1, <2>1 DEF IInv, TypeOK
<1> QED BY <1>1, <1>2 DEF IInv, HostsRight, IdsRight, SplitOnlyOutOfService,
                          LookupsRight, LoadsRight, ServesOwnActiveHost, HostsStay

LEMMA TickStep ==
    ASSUME IInv, Tick
    PROVE  IInv' /\ HostsStay
<1>1. UNCHANGED <<rows, byHost, byID, flight, call>>
    BY DEF Tick
<1>2. negative' \in [Hosts -> Gone .. NegativeTTL]
    BY DEF Tick, IInv, TypeOK, Gone
<1>3. Cardinality(Entries(negative')) <= MaxNegative
  <2>1. \A h \in Hosts : negative'[h] # Gone => negative[h] # Gone
      BY DEF Tick, IInv, TypeOK, Gone
  <2> QED BY <2>1, MapsOfInvariant, FewerEntries DEF MapsRight
<1>4. TypeOK'
    BY <1>1, <1>2, <1>3 DEF IInv, TypeOK, Entries
<1> QED BY <1>1, <1>4 DEF IInv, HostsRight, IdsRight, SplitOnlyOutOfService,
                          LookupsRight, LoadsRight, ServesOwnActiveHost, HostsStay

LEMMA NextStep ==
    ASSUME IInv, [Next]_vars
    PROVE  IInv' /\ HostsStay
<1>1. CASE UNCHANGED vars
  <2>1. UNCHANGED <<rows, byHost, byID, negative, flight, call>>
      BY <1>1 DEF vars
  <2> QED BY <2>1 DEF IInv, TypeOK, HostsRight, IdsRight, SplitOnlyOutOfService,
                      LookupsRight, LoadsRight, ServesOwnActiveHost, HostsStay
<1>2. ASSUME NEW c \in Callers, NEW h \in Hosts, Ask(c, h)
      PROVE  IInv' /\ HostsStay
    BY <1>2, AskStep
<1>3. ASSUME NEW c \in Callers, NEW i \in Ids, AskByID(c, i)
      PROVE  IInv' /\ HostsStay
    BY <1>3, AskByIDStep
<1>4. ASSUME NEW c \in Callers, Work(c) \/ Done(c)
      PROVE  IInv' /\ HostsStay
    BY <1>4, CheckNegativeStep, JoinStep, StartStep, FetchByIDStep, AddByIDStep,
       ReturnByIDStep, DoneStep DEF Work
<1>5. ASSUME NEW h \in Hosts, Lookup(h)
      PROVE  IInv' /\ HostsStay
    BY <1>5, FetchRowStep, FetchFailsStep, AddRowStep, ReturnAddedStep,
       ReturnMissedStep DEF Lookup
<1>6. ASSUME NEW i \in Ids, NEW s \in Statuses \cup {None}, ChangeRow(i, s)
      PROVE  IInv' /\ HostsStay
    BY <1>6, ChangeRowStep
<1>7. CASE Tick
    BY <1>7, TickStep
<1> QED BY <1>1, <1>2, <1>3, <1>4, <1>5, <1>6, <1>7 DEF Next

-----------------------------------------------------------------------------

(* The invariant holds: the maps lead to the right tenants, whatever loads   *)
(* race (tenant.go:108-132, 190-204, 326-344).                               *)
THEOREM Invariance == Spec => []IInv
<1>1. Init => IInv
    BY InitIInv
<1>2. IInv /\ [Next]_vars => IInv'
    BY NextStep
<1> QED BY <1>1, <1>2, PTL DEF Spec

(* Every variable keeps its type, and the negative memory its bound          *)
(* (maxNegativeHostEntries).                                                 *)
THEOREM TypeCorrect == Spec => []TypeOK
<1>1. IInv => TypeOK
    BY DEF IInv
<1> QED BY <1>1, Invariance, PTL

(* The request path and the dashboard read the same object of a tenant, save *)
(* one that left service (Add replaces both entries under one lock).         *)
THEOREM MapsAgree == Spec => []SplitOnlyOutOfService
<1>1. IInv => SplitOnlyOutOfService
    BY DEF IInv
<1> QED BY <1>1, Invariance, PTL

(* No visitor is served by a tenant of another host, or by one that was out  *)
(* of service when it was loaded (GetByHost).                                *)
THEOREM VisitorsAreServedTheirHost == Spec => []ServesOwnActiveHost
<1>1. IInv => ServesOwnActiveHost
    BY DEF IInv
<1> QED BY <1>1, Invariance, PTL

(* A host that is mapped stays mapped to its tenant (Add refuses any other). *)
THEOREM HostsNeverChangeHands == Spec => HostKeepsTenant
<1>1. IInv /\ [Next]_vars =>
        [\A h \in Hosts : byHost[h] # None =>
            byHost'[h] # None /\ byHost'[h].id = byHost[h].id]_vars
    BY NextStep DEF HostsStay
<1> QED BY <1>1, Invariance, PTL DEF Spec, HostKeepsTenant
=============================================================================
