---------------------------- MODULE RedisCircuit ----------------------------
(***************************************************************************)
(* The breaker every request-path Redis signal shares                      *)
(* (pkg/signals/redis_circuit.go) and the checks that go through it        *)
(* (velocity.go, pattern.go).  A request runs its checks in turn; each     *)
(* asks allow(), makes one Redis call and reports success() or failure().  *)
(* Requests run concurrently.  A call gives its context 50 ms, but main.go *)
(* does not let contexts bound the client's reads (ContextTimeoutEnabled), *)
(* so it may last as long as the client's own read timeout, 3 s, which is  *)
(* longer than the cooldown: nothing is assumed of the two.                *)
(*                                                                         *)
(* A check is "counted" when it goes on to call Redis, or "exempt" when it *)
(* returns between allow() and the call: the JA4 check of a common browser *)
(* or of a node without browser prefixes.  Checks that return before       *)
(* allow() never reach the breaker and are left out of a request's plan.   *)
(*                                                                         *)
(* Time is relative: what is left of the cooldown and of each call, in     *)
(* ticks.  Reading the clock and taking the mutex are one step.            *)
(***************************************************************************)
EXTENDS Integers, Sequences, FiniteSets

CONSTANTS
    Callers,        \* requests being scored at once
    OpenFor,        \* the cooldown, in ticks (1 s)
    CallTimeout     \* the longest a call may take to its report, in ticks

ASSUME CircuitAssumption ==
    /\ OpenFor \in Nat
    /\ CallTimeout \in Nat

VARIABLES
    openUntil,      \* what is left of the cooldown, or Closed
    probeInFlight,
    redisUp,        \* Redis answers within the timeout
    caller,         \* what each request is doing
    gap             \* history: ticks since a probe was last admitted, up to
                    \* OpenFor

circuit == <<openUntil, probeInFlight>>
vars == <<openUntil, probeInFlight, redisUp, caller, gap>>

Closed == -1

\* A request's checks: its endpoint's rate, then its fingerprint's, then the
\* crawl pattern; a visitor who passed a challenge skips the last.
Plans == {<<"counted">> \o ja4 \o crawl :
            ja4 \in {<<>>, <<"exempt">>, <<"counted">>}, crawl \in {<<>>, <<"counted">>}}

\* A request: its remaining checks, how the first of them stands, what is
\* left of its call, and whether the call is the probe.
Kinds == {"counted", "exempt"}
Steps == {"check", "asking", "ok", "error"}
Caller == [todo : Seq(Kinds), step : Steps, left : 0 .. CallTimeout,
           probe : BOOLEAN, shaky : BOOLEAN]
InCall(c) == caller[c].step # "check"

TypeOK ==
    /\ openUntil \in Closed .. OpenFor
    /\ probeInFlight \in BOOLEAN
    /\ openUntil = Closed => ~ probeInFlight
    /\ redisUp \in BOOLEAN
    /\ gap \in 0 .. OpenFor
    /\ caller \in [Callers -> Caller]
    /\ \A c \in Callers : InCall(c) => /\ caller[c].todo # <<>>
                                       /\ Head(caller[c].todo) = "counted"

Between(todo) ==
    [todo |-> todo, step |-> "check", left |-> 0, probe |-> FALSE, shaky |-> FALSE]

Init ==
    /\ openUntil = Closed
    /\ probeInFlight = FALSE
    /\ redisUp \in BOOLEAN
    /\ gap = OpenFor
    /\ caller = [c \in Callers |-> Between(<<>>)]

-----------------------------------------------------------------------------
(* The breaker. *)

Allowed == openUntil = Closed \/ (openUntil = 0 /\ ~ probeInFlight)

\* allow(): the first caller after the cooldown becomes the probe.
AsProbe == openUntil # Closed

Allow ==
    /\ Allowed
    /\ probeInFlight' = AsProbe
    /\ gap' = IF AsProbe THEN 0 ELSE gap
    /\ UNCHANGED openUntil

Refuse == ~ Allowed /\ UNCHANGED <<circuit, gap>>

Success_KeepsCooldown ==
    /\ openUntil' = openUntil
    /\ probeInFlight' = FALSE

Success ==
    /\ openUntil' = Closed
    /\ probeInFlight' = FALSE

Failure_KeepsCooldown ==
    /\ openUntil' = IF openUntil = Closed THEN OpenFor ELSE openUntil
    /\ probeInFlight' = FALSE

Failure ==
    /\ openUntil' = OpenFor
    /\ probeInFlight' = FALSE

-----------------------------------------------------------------------------
(* Requests. *)

Begin(c) ==
    /\ caller[c].todo = <<>>
    /\ \E p \in Plans : caller' = [caller EXCEPT ![c] = Between(p)]
    /\ UNCHANGED <<openUntil, probeInFlight, redisUp, gap>>

AtCheck(c, kind) ==
    /\ caller[c].todo # <<>>
    /\ caller[c].step = "check"
    /\ kind = Head(caller[c].todo)

NextCheck(c) == caller' = [caller EXCEPT ![c] = Between(Tail(@.todo))]

\* The breaker refuses and the signal stays silent.
FailOpen(c) ==
    /\ \E kind \in Kinds : AtCheck(c, kind)
    /\ Refuse
    /\ NextCheck(c)
    /\ UNCHANGED redisUp

\* checkJA4VelocitySpike asks the breaker first, and then returns for a
\* fingerprint it does not count: no call, and no report.
ReturnExempt(c) ==
    /\ AtCheck(c, "exempt")
    /\ Allow
    /\ NextCheck(c)
    /\ UNCHANGED redisUp

StartCall(c) ==
    /\ AtCheck(c, "counted")
    /\ Allow
    /\ caller' = [caller EXCEPT ![c].step = "asking", ![c].left = CallTimeout,
                                ![c].probe = AsProbe,
                                ![c].shaky = ~ redisUp]
    /\ UNCHANGED redisUp

\* The pipeline returns: an error is possible if Redis was away at any time
\* since the call began.
Hear(c) ==
    /\ caller[c].step = "asking"
    /\ \/ redisUp /\ caller' = [caller EXCEPT ![c].step = "ok"]
       \/ caller[c].shaky /\ caller' = [caller EXCEPT ![c].step = "error"]
    /\ UNCHANGED <<openUntil, probeInFlight, redisUp, gap>>

\* A counter over its limit ends VelocityExceeded early.
ReportSuccess(c) ==
    /\ caller[c].step = "ok"
    /\ Success
    /\ NextCheck(c) \/ caller' = [caller EXCEPT ![c] = Between(<<>>)]
    /\ UNCHANGED <<redisUp, gap>>

ReportFailure(c) ==
    /\ caller[c].step = "error"
    /\ Failure
    /\ NextCheck(c)
    /\ UNCHANGED <<redisUp, gap>>

CallerStep(c) ==
    \/ FailOpen(c)
    \/ ReturnExempt(c)
    \/ StartCall(c)
    \/ Hear(c)
    \/ ReportSuccess(c)
    \/ ReportFailure(c)

-----------------------------------------------------------------------------
(* Redis and the clock. *)

RedisFails ==
    /\ redisUp
    /\ redisUp' = FALSE
    /\ caller' = [c \in Callers |->
            [caller[c] EXCEPT !.shaky = caller[c].step = "asking"]]
    /\ UNCHANGED <<circuit, gap>>

RedisRecovers ==
    /\ ~ redisUp
    /\ redisUp' = TRUE
    /\ UNCHANGED <<openUntil, probeInFlight, caller, gap>>

Tick ==
    /\ \A c \in Callers : InCall(c) => caller[c].left > 0
    /\ openUntil' = IF openUntil > 0 THEN openUntil - 1 ELSE openUntil
    /\ gap' = IF gap < OpenFor THEN gap + 1 ELSE gap
    /\ caller' = [c \in Callers |->
            IF InCall(c) THEN [caller[c] EXCEPT !.left = @ - 1] ELSE caller[c]]
    /\ UNCHANGED <<probeInFlight, redisUp>>

Next ==
    \/ \E c \in Callers : Begin(c) \/ CallerStep(c)
    \/ RedisFails
    \/ RedisRecovers
    \/ Tick

Spec == Init /\ [][Next]_vars

\* Goroutines run, visitors keep coming and time passes.
FairSpec ==
    /\ Spec
    /\ WF_vars(Tick)
    /\ \A c \in Callers : WF_vars(Begin(c)) /\ WF_vars(CallerStep(c))

-----------------------------------------------------------------------------
(* What must hold. *)

Probing(c) == InCall(c) /\ caller[c].probe
Orphaned == probeInFlight /\ \A c \in Callers : ~ Probing(c)

\* However late calls report, and whatever a report resets, whoever would be
\* admitted as the probe comes a whole cooldown after the probe before it:
\* an outage is never answered by two attempts within one cooldown.
ProbesAreSpaced == (AsProbe /\ Allowed) => gap = OpenFor

\* Once Redis is back for good the breaker closes, unless a probe was given
\* to a check that makes no call.
Recovers ==
    (<>[]redisUp) => ((openUntil # Closed) ~> (openUntil = Closed \/ Orphaned))

\* The comment's promise without that exception: a probe ends, in a success
\* or in another error.
ProbeEnds == probeInFlight ~> ~ probeInFlight
=============================================================================
