---------------------------- MODULE ShadowStats ----------------------------
(***************************************************************************)
(* Per-revision rollout measurements (pkg/evidence/shadow.go).             *)
(*                                                                         *)
(* A ShadowStats value maps the few policy versions a node remembers to    *)
(* what it measured of each.  The code guards the map with one mutex, so   *)
(* an observation and a readiness test are each one step; this module      *)
(* defines them as operators on the map's value.                           *)
(*                                                                         *)
(* Time is a natural number; 0 is Go's zero time, which no observation     *)
(* carries.  The Matched, Disagreed, Skipped and Actions tallies are left  *)
(* out: nothing in the program decides anything from them.                 *)
(***************************************************************************)
EXTENDS Integers, FiniteSets

CONSTANTS
    KeptVersions,   \* versions remembered at once (4)
    MinEvaluated,   \* evaluations a version needs to be ready (100)
    MinSpan,        \* age its first evaluation needs (30 minutes)
    MaxIdle         \* age its last evaluation may have (5 minutes)

ASSUME StatsAssumption ==
    /\ KeptVersions \in Nat \ {0}
    /\ MinEvaluated \in Nat \ {0}
    /\ MinSpan \in Nat
    /\ MaxIdle \in Nat

Snapshots == [evaluated : Nat, first : Nat, last : Nat]

NoStats == [v \in {} |-> 0]

Fresh == [evaluated |-> 0, first |-> 0, last |-> 0]

\* Mutant: an opinion older than everything kept still claims a place.
Dropped_Never(s, v) == FALSE

\* The version is new, the map is full and everything in it is newer.
Dropped(s, v) ==
    /\ v \notin DOMAIN s
    /\ Cardinality(DOMAIN s) >= KeptVersions
    /\ \A w \in DOMAIN s : v < w

\* What remains of the map once there is room for v: an unknown version in a
\* full map costs the smallest one its place.
Remaining(s, v) ==
    IF v \in DOMAIN s \/ Cardinality(DOMAIN s) < KeptVersions
    THEN DOMAIN s
    ELSE {w \in DOMAIN s : \E x \in DOMAIN s : x < w}

Counted(snap, at) ==
    [evaluated |-> snap.evaluated + 1,
     first     |-> IF snap.first = 0 \/ at < snap.first THEN at ELSE snap.first,
     last      |-> IF at > snap.last THEN at ELSE snap.last]

\* Mutant: skipped opinions count as evaluations.
Observe_CountsSkipped(s, v, skipped, at) ==
    LET old == IF v \in DOMAIN s THEN s[v] ELSE Fresh
    IN  IF Dropped(s, v) THEN s
        ELSE [w \in Remaining(s, v) \cup {v} |->
                IF w = v THEN Counted(old, at) ELSE s[w]]

\* Observe an opinion of shadow version v at time "at".  A skipped opinion
\* claims a place in the map and counts for nothing else.
Observe(s, v, skipped, at) ==
    LET old  == IF v \in DOMAIN s THEN s[v] ELSE Fresh
        new  == IF skipped THEN old ELSE Counted(old, at)
    IN  IF Dropped(s, v) THEN s
        ELSE [w \in Remaining(s, v) \cup {v} |-> IF w = v THEN new ELSE s[w]]

\* Mutant: a burst of traffic is enough.
Ready_NoSpan(s, v, now) ==
    /\ v \in DOMAIN s
    /\ s[v].evaluated >= MinEvaluated
    /\ now - s[v].last <= MaxIdle
    /\ s[v].last <= now

\* Snapshot(v, now).Ready: the evidence an activation asks for.
Ready(s, v, now) ==
    /\ v \in DOMAIN s
    /\ s[v].evaluated >= MinEvaluated
    /\ s[v].first # 0
    /\ now - s[v].first >= MinSpan
    /\ now - s[v].last <= MaxIdle
    /\ s[v].last <= now
=============================================================================
