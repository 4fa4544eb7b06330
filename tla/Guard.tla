------------------------------- MODULE Guard --------------------------------
(***************************************************************************)
(* The way of a request through a node (pkg/core/guard.go): the tenant's   *)
(* policy, the trap and its memory, scoring, the decision, the answer, and *)
(* the tenant's counters and evidence trail (pkg/stats, pkg/evidence).  A   *)
(* solved challenge writes to the trail too, past the counters.            *)
(*                                                                         *)
(* Requests run concurrently.  The policy provider may change its mind at  *)
(* any time, also between the two questions of one request.                *)
(***************************************************************************)
EXTENDS Policy

CONSTANTS
    Requests,       \* handlers under way at once
    Callers,        \* (address, fingerprint) pairs
    Visits,         \* what a request may look like
    Tenants,        \* configurations a tenant may have
    Policies,       \* sequence: the tenant's revisions, by version
    TrapLife,       \* how long a trip counts (6 h)
    MaxTrips,       \* trips remembered (50 000)
    SweepEvery,     \* least time between sweeps of a full memory (1 min)
    TrailSize,      \* records the trail keeps (1000)
    MaxRequests,    \* bound of the model: requests answered in all
    MaxObserved     \* bound of the model: solves recorded in all

\* Saved revisions have passed validation.
ASSUME GuardAssumption ==
    /\ IsFiniteSet(Requests) /\ IsFiniteSet(Callers)
    /\ MaxTrips \in Nat \ {0} /\ TrailSize \in Nat \ {0}
    /\ TrapLife \in Nat \ {0} /\ SweepEvery \in Nat /\ MaxRequests \in Nat /\ MaxObserved \in Nat
    /\ \A visit \in Visits :
            /\ visit.trap \in BOOLEAN /\ visit.bot \in BOOLEAN
            /\ visit.passed \in BOOLEAN /\ visit.score \in Nat
    /\ Len(Policies) \in Nat
    /\ \A v \in DOMAIN Policies : \A i \in DOMAIN Policies[v].rules :
            ValidateRule(Policies[v].rules[i])

VARIABLES
    tenant,         \* the tenant's configuration
    answers,        \* the version the provider answers with, 0 for none
    newest,         \* the highest it has ever answered with
    trips,          \* caller -> time since its trip, TrapLife if lapsed, or Absent
    sinceSweep,     \* time since the memory was swept
    counters,       \* decision -> how often it was counted
    trail,          \* the evidence kept, newest last
    observed,       \* history: solves recorded for their shadow signals
    request         \* what each handler is doing

vars == <<tenant, answers, newest, trips, sinceSweep, counters, trail, observed, request>>

Absent == -1
Decisions == {"allow", "challenge", "block", "deceive", "rate_limit"}
NoPolicy == [mode |-> "none", rules |-> <<>>, labelled |-> {}, allowlist |-> {}]
PolicyOf(v) == IF v = 0 THEN NoPolicy ELSE Policies[v]

\* A record of evidence, and which of the two writers made it.
Records == [by : {"guard", "challenge"}, decision : Decisions]
Evidence(d) == [by |-> "guard", decision |-> d]
Observation == [by |-> "challenge", decision |-> "allow"]

Free == [step |-> "free"]
Handled == [step : {"routed", "decided", "logged", "counted", "answer"},
            route : {"trap", "bot", "relief", "scored"},
            caller : Callers, visit : Visits,
            version : 0 .. Len(Policies),   \* the policy the request is under
            tripped : BOOLEAN,              \* what scoring read of the trap's memory
            decision : Decisions]

Remembered == {c \in Callers : trips[c] # Absent}
Total == counters["allow"] + counters["challenge"] + counters["block"]
         + counters["deceive"] + counters["rate_limit"]

TypeOK ==
    /\ tenant \in Tenants
    /\ answers \in 0 .. Len(Policies) /\ newest \in 0 .. Len(Policies)
    /\ trips \in [Callers -> Absent .. TrapLife]
    /\ Cardinality(Remembered) <= MaxTrips
    /\ sinceSweep \in 0 .. SweepEvery
    /\ counters \in [Decisions -> Nat]
    /\ trail \in Seq(Records)
    /\ Len(trail) <= TrailSize
    /\ observed \in Nat
    /\ request \in [Requests -> Handled \cup {Free}]

Init ==
    /\ tenant \in Tenants
    /\ answers = 0 /\ newest = 0
    /\ trips = [c \in Callers |-> Absent]
    /\ sinceSweep = SweepEvery
    /\ counters = [d \in Decisions |-> 0]
    /\ trail = <<>>
    /\ observed = 0
    /\ request = [r \in Requests |-> Free]

-----------------------------------------------------------------------------
(* Scoring and deciding, for a tenant with configuration t. *)

\* Every class of routes counts requests in a bucket of its own.
Spikes(visit, p) == ClassifyRoute(p, visit) \in visit.crowded

Agents(visit, listed) ==
    IF visit.bot THEN {"search"} ELSE IF listed THEN {"monitor"} ELSE {}

\* What scoring and the rules see of a request.
Facts(q, p, tripped) ==
    LET fired == (IF Spikes(q.visit, p) THEN {"velocity_spike"} ELSE {})
                 \cup (IF tripped THEN {"honeypot_trap"} ELSE {})
    IN  [score |-> q.visit.score + 50 * Cardinality(fired),
         marks |-> q.visit.marks \cup fired \cup {ClassifyRoute(p, q.visit)}
                   \cup Agents(q.visit, q.caller \in p.allowlist)]

DecideWithPolicy(score, strict) ==
    CASE score >= HardBlock -> "block"
      [] score < HardBlock /\ (strict \/ score # 0) -> "challenge"
      [] OTHER -> "allow"

\* The decision without the tenant's rules.
Baseline(t, visit, score) ==
    LET d == IF visit.bot THEN "allow" ELSE DecideWithPolicy(score, t.strict)
    IN  IF d = "block" /\ t.deception THEN "deceive" ELSE d

Proposed_Overrules(action, base, score, trusted) ==
    CASE action = "PASS"       -> "allow"
      [] action = "CHALLENGE"  -> "challenge"
      [] action = "BLOCK"      -> "block"
      [] action = "RATE_LIMIT" -> "rate_limit"
      [] action = "DECEIVE" /\ score > HardBlock -> "deceive"
      [] OTHER -> base

Proposed(action, base, score, trusted) ==
    CASE action = "PASS" /\ (score < HardBlock \/ trusted) -> "allow"
      [] action = "CHALLENGE"  -> "challenge"
      [] action = "BLOCK"      -> "block"
      [] action = "RATE_LIMIT" -> "rate_limit"
      [] action = "DECEIVE" /\ score > HardBlock -> "deceive"
      [] OTHER -> base

\* evaluateTenantPolicy: an ambiguous path is left to the score alone.
Decided(t, q, p, facts) ==
    LET base == Baseline(t, q.visit, facts.score) IN
    IF p.mode = "enforce" /\ t.enforced /\ ~ q.visit.ambiguous
    THEN Proposed(Evaluate(p, facts), base, facts.score,
                  q.visit.bot \/ q.caller \in p.allowlist)
    ELSE base

\* A visitor who solved a challenge is not challenged again, whatever the
\* tenant's rules say; a hard score or a crowd still stops it.
Relieved(facts) ==
    CASE facts.score >= HardBlock -> "block"
      [] facts.score < HardBlock /\ "velocity_spike" \in facts.marks -> "rate_limit"
      [] OTHER -> "allow"

Answer(decision) ==
    IF decision = "allow" \/ ~ tenant.enforced THEN "forward" ELSE decision

-----------------------------------------------------------------------------
(* The handler. *)

InFlight == {r \in Requests : request[r] # Free}
At(r, step) == request[r].step = step
On(r, routes) == request[r] # Free /\ request[r].route \in routes

Move(r, step, tripped, decision) ==
    request' = [request EXCEPT ![r] =
        [step |-> step, route |-> @.route, caller |-> @.caller, visit |-> @.visit,
         version |-> @.version, tripped |-> tripped, decision |-> decision]]
Goto(r, step) == Move(r, step, request[r].tripped, request[r].decision)

RouteOf(t, visit) ==
    CASE visit.trap -> "trap"
      [] ~ visit.trap /\ visit.bot /\ ~ t.provider -> "bot"
      [] ~ visit.trap /\ ~ visit.bot /\ visit.passed -> "relief"
      [] OTHER -> "scored"

\* The host is the tenant's, the provider is asked, and the visitor's bot
\* claim and passed cookie are checked.
Arrive(r, c, visit) ==
    /\ request[r] = Free
    /\ Total + Cardinality(InFlight) < MaxRequests
    /\ request' = [request EXCEPT ![r] =
            [step |-> "routed", route |-> RouteOf(tenant, visit), caller |-> c, visit |-> visit,
             version |-> IF tenant.provider THEN answers ELSE 0,
             tripped |-> FALSE, decision |-> "allow"]]
    /\ UNCHANGED <<tenant, answers, newest, trips, sinceSweep, counters, trail, observed>>

Full(memory) == Cardinality({c \in Callers : memory[c] # Absent}) >= MaxTrips

RecordTrip_Unbounded(c) ==
    /\ trips' = [trips EXCEPT ![c] = 0]
    /\ UNCHANGED sinceSweep

\* RecordHoneypotTrip: a known caller is refreshed, lapsed or not; a full
\* memory is swept now and then, and a newcomer is forgotten if in vain.
RecordTrip(c) ==
    LET sweeps == c \notin Remembered /\ Full(trips) /\ sinceSweep = SweepEvery
        memory == IF sweeps
                  THEN [d \in Callers |-> IF trips[d] = TrapLife THEN Absent ELSE trips[d]]
                  ELSE trips
    IN  /\ trips' = IF c \notin Remembered /\ Full(memory) THEN memory
                    ELSE [memory EXCEPT ![c] = 0]
        /\ sinceSweep' = IF sweeps THEN 0 ELSE sinceSweep

\* The trap.  Only a trip that is new to the memory is counted and recorded.
Trap(r) ==
    LET c == request[r].caller IN
    /\ At(r, "routed") /\ On(r, {"trap"})
    /\ RecordTrip(c)
    /\ Move(r, IF c \notin Remembered /\ trips'[c] # Absent THEN "decided" ELSE "answer",
            FALSE, "block")
    /\ UNCHANGED <<tenant, answers, newest, counters, trail, observed>>

\* HoneypotTripped
Tripped(c) == trips[c] # Absent /\ trips[c] < TrapLife

DecisionOf(t, q, p, tripped) ==
    LET facts == Facts(q, p, tripped) IN
    CASE q.route = "bot"    -> "allow"
      [] q.route = "relief" -> Relieved(facts)
      [] q.route = "scored" -> Decided(t, q, p, facts)

EvaluateSignals_AsksAgain(r) ==
    LET q == request[r] IN
    /\ At(r, "routed") /\ On(r, {"bot", "relief", "scored"})
    /\ LET tripped == Tripped(q.caller)
       IN  Move(r, "decided", tripped, DecisionOf(tenant, q, PolicyOf(answers), tripped))
    /\ UNCHANGED <<tenant, answers, newest, trips, sinceSweep, counters, trail, observed>>

\* The signals are evaluated and the decision made, under the policy that
\* the request arrived under.
EvaluateSignals(r) ==
    LET q == request[r] IN
    /\ At(r, "routed") /\ On(r, {"bot", "relief", "scored"})
    /\ LET tripped == Tripped(q.caller)
       IN  Move(r, "decided", tripped, DecisionOf(tenant, q, PolicyOf(q.version), tripped))
    /\ UNCHANGED <<tenant, answers, newest, trips, sinceSweep, counters, trail, observed>>

\* A scored request is recorded, then counted; any other is counted first.
Count(r) ==
    /\ \/ At(r, "decided") /\ On(r, {"trap", "bot", "relief"}) /\ Goto(r, "counted")
       \/ At(r, "logged") /\ Goto(r, "answer")
    /\ counters' = [counters EXCEPT ![request[r].decision] = @ + 1]
    /\ UNCHANGED <<tenant, answers, newest, trips, sinceSweep, trail, observed>>

\* The ring drops its oldest record for a new one.
Kept(records) ==
    IF Len(records) > TrailSize THEN Tail(records) ELSE records

Log_SkipsRelief(r) ==
    /\ \/ At(r, "decided") /\ On(r, {"scored"}) /\ Goto(r, "logged")
       \/ At(r, "counted") /\ Goto(r, "answer")
    /\ trail' = IF On(r, {"relief"}) THEN trail
                ELSE Kept(Append(trail, Evidence(request[r].decision)))
    /\ UNCHANGED <<tenant, answers, newest, trips, sinceSweep, counters, observed>>

Log(r) ==
    /\ \/ At(r, "decided") /\ On(r, {"scored"}) /\ Goto(r, "logged")
       \/ At(r, "counted") /\ Goto(r, "answer")
    /\ trail' = Kept(Append(trail, Evidence(request[r].decision)))
    /\ UNCHANGED <<tenant, answers, newest, trips, sinceSweep, counters, observed>>

Reply(r) ==
    /\ At(r, "answer")
    /\ request' = [request EXCEPT ![r] = Free]
    /\ UNCHANGED <<tenant, answers, newest, trips, sinceSweep, counters, trail, observed>>

-----------------------------------------------------------------------------
(* The challenge's shadow recorder, the provider, the clock. *)

\* A solve with shadow signals is recorded as an enforced "allow", if the
\* tenant is cached; no decision was made and none is counted.
ObserveSolve ==
    /\ observed < MaxObserved
    /\ trail' = Kept(Append(trail, Observation))
    /\ observed' = observed + 1
    /\ UNCHANGED <<tenant, answers, newest, trips, sinceSweep, counters, request>>

Feed == INSTANCE PolicyFeed

\* A cache entry of the provider's came or went, if there is a provider: it
\* promises what PolicyFeed says, and PolicyProvider keeps that promise.
ProviderChanges(v) ==
    /\ tenant.provider
    /\ answers' = v
    /\ Feed!FeedNext
    /\ UNCHANGED <<tenant, trips, sinceSweep, counters, trail, observed, request>>

Tick ==
    /\ trips' = [c \in Callers |->
            IF trips[c] \in 0 .. TrapLife - 1 THEN trips[c] + 1 ELSE trips[c]]
    /\ sinceSweep' = IF sinceSweep < SweepEvery THEN sinceSweep + 1 ELSE sinceSweep
    /\ UNCHANGED <<tenant, answers, newest, counters, trail, observed, request>>

Handle(r) ==
    \/ Trap(r)
    \/ EvaluateSignals(r)
    \/ Count(r)
    \/ Log(r)
    \/ Reply(r)

Next ==
    \/ \E r \in Requests, c \in Callers, visit \in Visits : Arrive(r, c, visit)
    \/ \E r \in Requests : Handle(r)
    \/ \E v \in 0 .. Len(Policies) : ProviderChanges(v)
    \/ ObserveSolve
    \/ Tick

Spec == Init /\ [][Next]_vars

-----------------------------------------------------------------------------
(* What must hold. *)

Judged(r) == request[r] # Free /\ request[r].step # "routed" /\ request[r].route # "trap"
Under(r) == PolicyOf(request[r].version)

\* A policy that is not enforced when the request arrives changes nothing:
\* neither its rules nor its labels, which could crowd a bucket, make the
\* decision another than with no policy, whatever is activated meanwhile.
ShadowHarmless ==
    \A r \in Requests : Judged(r) /\ Under(r).mode # "enforce" =>
        request[r].decision = DecisionOf(tenant, request[r], NoPolicy, request[r].tripped)

\* Strong evidence stops a visitor, in enforcing mode: no rule of a path or
\* user agent and no solved challenge lets it through, unless it is a
\* verified search bot or the policy lists its address.
HardEvidenceStops ==
    \A r \in Requests :
        LET q == request[r] IN
        /\ Judged(r) /\ tenant.enforced
        /\ ~ q.visit.bot /\ q.caller \notin Under(r).allowlist
        /\ Facts(q, Under(r), q.tripped).score >= HardBlock
        => Answer(q.decision) # "forward"

\* When no request is under way the dashboard's two sources agree, although
\* the trail has a writer that counts nothing: the trail holds a record for
\* every decision counted and every solve observed, or as many as it can, and
\* none of the guard's that was not counted: a trap fetched in a loop leaves
\* one record, and the records beyond the counters are the observed solves.
CountersMatchTrail ==
    InFlight = {} =>
        /\ Len(trail) = IF Total + observed < TrailSize THEN Total + observed ELSE TrailSize
        /\ \A d \in Decisions :
            Cardinality({i \in DOMAIN trail : trail[i] = Evidence(d)}) <= counters[d]
        /\ Cardinality({i \in DOMAIN trail : trail[i] = Observation}) <= observed
=============================================================================
