------------------------- MODULE RedisCircuitProofs -------------------------
(***************************************************************************)
(* Probes are a cooldown apart, for any number of requests and calls of    *)
(* any length.  A late report may clear the probing flag while a probe is  *)
(* on the wire, but it also closes the breaker or starts the cooldown      *)
(* again; so whenever the breaker is open and no probe is marked, the time *)
(* since the last probe and what is left of the cooldown make up at least  *)
(* one cooldown.                                                           *)
(***************************************************************************)
EXTENDS RedisCircuit, SequenceTheorems, TLAPS

CooldownCovers ==
    (openUntil # Closed /\ ~ probeInFlight) => gap + openUntil >= OpenFor

IInv == TypeOK /\ CooldownCovers

USE CircuitAssumption DEF CircuitAssumption

LEMMA PlansType == ASSUME NEW p \in Plans PROVE p \in Seq(Kinds)
<1>1. PICK j \in {<<>>, <<"exempt">>, <<"counted">>}, k \in {<<>>, <<"counted">>} :
          p = <<"counted">> \o j \o k
    BY DEF Plans
<1>2. <<>> \in Seq(Kinds) /\ <<"counted">> \in Seq(Kinds) /\ <<"exempt">> \in Seq(Kinds)
  <2>1. "counted" \in Kinds /\ "exempt" \in Kinds
      BY DEF Kinds
  <2> QED BY <2>1
<1>3. <<"counted">> \o j \in Seq(Kinds)
    BY <1>2, ConcatProperties
<1>4. <<"counted">> \o j \o k \in Seq(Kinds)
    BY <1>2, <1>3, ConcatProperties
<1> QED BY <1>1, <1>4

LEMMA BetweenType ==
    ASSUME NEW todo \in Seq(Kinds) PROVE Between(todo) \in Caller
BY DEF Between, Caller, Steps

LEMMA TailType ==
    ASSUME NEW s \in Seq(Kinds), s # <<>> PROVE Tail(s) \in Seq(Kinds)
BY HeadTailProperties

LEMMA InitIInv == Init => IInv
<1> SUFFICES ASSUME Init PROVE IInv
    OBVIOUS
<1>0. <<>> \in Seq(Kinds)
    OBVIOUS
<1>1. Between(<<>>) \in Caller
    BY <1>0, BetweenType
<1>2. \A c \in Callers : ~ InCall(c)
    BY DEF Init, InCall, Between
<1>3. openUntil = Closed /\ probeInFlight = FALSE /\ redisUp \in BOOLEAN /\ gap = OpenFor
    BY DEF Init
<1>4. caller \in [Callers -> Caller]
    BY <1>1 DEF Init
<1>5. TypeOK
  <2>1. openUntil \in Closed .. OpenFor /\ gap \in 0 .. OpenFor
      BY <1>3 DEF Closed
  <2> QED BY <1>2, <1>3, <1>4, <2>1 DEF TypeOK
<1> QED BY <1>3, <1>5 DEF IInv, CooldownCovers

\* What TypeOK asks of the callers, beside their type.
CallsAreCounted ==
    \A c \in Callers : InCall(c) => /\ caller[c].todo # <<>>
                                   /\ Head(caller[c].todo) = "counted"

\* A caller that moves on to its next check is in no call; the others are
\* as they were.
LEMMA MovesOn ==
    ASSUME TypeOK, NEW c \in Callers, NEW todo \in Seq(Kinds),
           caller' = [caller EXCEPT ![c] = Between(todo)]
    PROVE  /\ caller' \in [Callers -> Caller]
           /\ ~ InCall(c)'
           /\ \A d \in Callers : d # c => caller'[d] = caller[d]
           /\ \A d \in Callers :
                InCall(d)' => /\ InCall(d)
                              /\ caller'[d] = caller[d]
BY BetweenType DEF TypeOK, InCall, Between

LEMMA NextCheckMovesOn ==
    ASSUME TypeOK, NEW c \in Callers, caller[c].todo # <<>>, NextCheck(c)
    PROVE  \E todo \in Seq(Kinds) : caller' = [caller EXCEPT ![c] = Between(todo)]
<1>1. caller[c].todo \in Seq(Kinds)
    BY DEF TypeOK, Caller
<1> QED BY <1>1, TailType DEF NextCheck

-----------------------------------------------------------------------------
(* Each action keeps the invariant. *)

LEMMA BeginIInv == ASSUME IInv, NEW c \in Callers, Begin(c) PROVE IInv'
<1>1. PICK p \in Plans : caller' = [caller EXCEPT ![c] = Between(p)]
    BY DEF Begin
<1>2. p \in Seq(Kinds)
    BY PlansType
<1>3. UNCHANGED <<openUntil, probeInFlight, redisUp, gap>>
    BY DEF Begin
<1> QED BY <1>1, <1>2, <1>3, MovesOn DEF IInv, TypeOK, CooldownCovers

\* What IInv says of the breaker alone.
BreakerOK ==
    /\ openUntil \in Closed .. OpenFor
    /\ probeInFlight \in BOOLEAN
    /\ openUntil = Closed => ~ probeInFlight
    /\ gap \in 0 .. OpenFor
    /\ CooldownCovers

\* allow() says yes: an open breaker marks the probe.
Admitted ==
    /\ probeInFlight' = (openUntil # Closed)
    /\ gap' = IF openUntil # Closed THEN 0 ELSE gap
    /\ UNCHANGED openUntil

LEMMA AdmittedOK == ASSUME IInv, Admitted PROVE BreakerOK'
<1>1. /\ openUntil' = openUntil
      /\ openUntil \in Closed .. OpenFor
      /\ gap' \in 0 .. OpenFor
    BY DEF Admitted, IInv, TypeOK
<1>2. /\ probeInFlight' \in BOOLEAN
      /\ (openUntil' = Closed => ~ probeInFlight')
      /\ (openUntil' # Closed => probeInFlight')
    BY Zenon DEF Admitted
<1> QED BY <1>1, <1>2, Zenon DEF BreakerOK, CooldownCovers

\* A request at a check moves on while the breaker refuses, or takes the
\* probe for a check that makes no call.
LEMMA SilentIInv ==
    ASSUME IInv, NEW c \in Callers, FailOpen(c) \/ ReturnExempt(c) PROVE IInv'
<1>1. caller[c].todo # <<>> /\ NextCheck(c) /\ UNCHANGED redisUp
    BY DEF FailOpen, ReturnExempt, AtCheck
<1>2. PICK todo \in Seq(Kinds) : caller' = [caller EXCEPT ![c] = Between(todo)]
    BY <1>1, NextCheckMovesOn DEF IInv
<1>3. Admitted \/ UNCHANGED <<openUntil, probeInFlight, gap>>
    BY DEF FailOpen, ReturnExempt, Refuse, Allow, AsProbe, Admitted, circuit
<1>4. /\ caller' \in [Callers -> Caller]
      /\ \A d \in Callers : InCall(d)' => InCall(d) /\ caller'[d] = caller[d]
    BY <1>2, MovesOn DEF IInv
<1>5. BreakerOK'
  <2>1. CASE Admitted
      BY <2>1, AdmittedOK
  <2>2. CASE UNCHANGED <<openUntil, probeInFlight, gap>>
      BY <2>2 DEF IInv, TypeOK, BreakerOK, CooldownCovers
  <2> QED BY <1>3, <2>1, <2>2
<1>6. CallsAreCounted'
    BY <1>4 DEF IInv, TypeOK, CallsAreCounted
<1> QED BY <1>1, <1>4, <1>5, <1>6, Zenon DEF IInv, TypeOK, CallsAreCounted, BreakerOK

Asking(x, p, q) == [x EXCEPT !.step = "asking", !.left = CallTimeout,
                             !.probe = p, !.shaky = q]

LEMMA AskingType ==
    ASSUME NEW x \in Caller, NEW p \in BOOLEAN, NEW q \in BOOLEAN
    PROVE  /\ Asking(x, p, q) \in Caller
           /\ Asking(x, p, q).todo = x.todo
           /\ Asking(x, p, q).probe = p
<1>1. [x EXCEPT !.step = "asking"] \in Caller
    BY DEF Caller, Steps
<1>2. PICK y \in Caller : y = [x EXCEPT !.step = "asking"]
    BY <1>1
<1>3. [y EXCEPT !.left = CallTimeout] \in Caller
    BY DEF Caller
<1>4. PICK z \in Caller : z = [y EXCEPT !.left = CallTimeout]
    BY <1>3
<1>5. [z EXCEPT !.probe = p, !.shaky = q] \in Caller
    BY Zenon DEF Caller
<1>6. Asking(x, p, q) = [z EXCEPT !.probe = p, !.shaky = q]
    BY <1>2, <1>4 DEF Asking
<1> QED BY <1>2, <1>4, <1>5, <1>6 DEF Caller

LEMMA StartCallIInv == ASSUME IInv, NEW c \in Callers, StartCall(c) PROVE IInv'
<1>1. /\ caller[c].todo # <<>> /\ caller[c].step = "check"
      /\ Head(caller[c].todo) = "counted"
      /\ Admitted
      /\ UNCHANGED redisUp
      /\ caller' = [caller EXCEPT ![c].step = "asking", ![c].left = CallTimeout,
                                  ![c].probe = (openUntil # Closed),
                                  ![c].shaky = ~ redisUp]
    BY DEF StartCall, AtCheck, Allow, AsProbe, Admitted
<1>2. /\ \A d \in Callers : d # c => caller'[d] = caller[d]
      /\ caller'[c] \in Caller /\ caller'[c].todo = caller[c].todo
      /\ caller'[c].probe = (openUntil # Closed)
      /\ caller' \in [Callers -> Caller]
  <2>1. caller[c] \in Caller /\ caller \in [Callers -> Caller]
      BY DEF IInv, TypeOK
  <2>2. PICK p \in BOOLEAN, q \in BOOLEAN :
            /\ p = (openUntil # Closed)
            /\ q = ~ redisUp
      OBVIOUS
  <2>3. caller' = [caller EXCEPT ![c].step = "asking", ![c].left = CallTimeout,
                                 ![c].probe = p, ![c].shaky = q]
      BY <1>1, <2>2
  <2>4. caller' = [caller EXCEPT ![c] = Asking(caller[c], p, q)]
      BY <2>1, <2>3 DEF Asking
  <2> QED BY <2>1, <2>2, <2>4, AskingType
<1>3. BreakerOK'
    BY <1>1, AdmittedOK
<1>4. CallsAreCounted'
    BY <1>1, <1>2 DEF IInv, TypeOK, InCall, CallsAreCounted
<1>5. redisUp' \in BOOLEAN
    BY <1>1 DEF IInv, TypeOK
<1> QED BY <1>2, <1>3, <1>4, <1>5, Zenon DEF IInv, TypeOK, CallsAreCounted, BreakerOK

LEMMA HearIInv == ASSUME IInv, NEW c \in Callers, Hear(c) PROVE IInv'
<1>1. /\ caller[c].step = "asking"
      /\ UNCHANGED <<openUntil, probeInFlight, redisUp, gap>>
      /\ \E s \in {"ok", "error"} : caller' = [caller EXCEPT ![c].step = s]
    BY DEF Hear
<1>2. /\ caller' \in [Callers -> Caller]
      /\ \A d \in Callers : /\ InCall(d)' <=> InCall(d)
                            /\ caller'[d].left = caller[d].left
                            /\ caller'[d].probe = caller[d].probe
                            /\ caller'[d].todo = caller[d].todo
  <2>1. PICK s \in {"ok", "error"} : caller' = [caller EXCEPT ![c].step = s]
      BY <1>1
  <2>2. s \in Steps /\ s # "check"
      BY DEF Steps
  <2>3. ASSUME NEW d \in Callers
        PROVE  /\ caller'[d] \in Caller
               /\ caller'[d].left = caller[d].left
               /\ caller'[d].probe = caller[d].probe
               /\ caller'[d].todo = caller[d].todo
               /\ InCall(d)' <=> InCall(d)
    <3>1. caller[d] \in Caller /\ caller \in [Callers -> Caller]
        BY DEF IInv, TypeOK
    <3>2. caller'[d] = IF d = c THEN [caller[d] EXCEPT !.step = s] ELSE caller[d]
        BY <2>1, <3>1
    <3> QED BY <1>1, <2>2, <3>1, <3>2 DEF Caller, InCall
  <2>4. caller' \in [Callers -> Caller]
      BY <2>1, <2>3 DEF IInv, TypeOK
  <2> QED BY <2>3, <2>4
<1>3. CallsAreCounted'
    BY <1>2 DEF IInv, TypeOK, CallsAreCounted
<1>4. CooldownCovers'
    BY <1>1 DEF IInv, CooldownCovers
<1> QED BY <1>1, <1>2, <1>3, <1>4, Zenon DEF IInv, TypeOK, CallsAreCounted

LEMMA ReportIInv ==
    ASSUME IInv, NEW c \in Callers, ReportSuccess(c) \/ ReportFailure(c) PROVE IInv'
<1>1. caller[c].todo # <<>>
    BY DEF IInv, TypeOK, InCall, ReportSuccess, ReportFailure
<1>2. \E todo \in Seq(Kinds) : caller' = [caller EXCEPT ![c] = Between(todo)]
    <2>1. <<>> \in Seq(Kinds)
        OBVIOUS
    <2> QED BY <1>1, <2>1, NextCheckMovesOn DEF IInv, ReportSuccess, ReportFailure
<1>3. PICK todo \in Seq(Kinds) : caller' = [caller EXCEPT ![c] = Between(todo)]
    BY <1>2
<1>4. /\ openUntil' \in {Closed, OpenFor}
      /\ probeInFlight' = FALSE
      /\ UNCHANGED <<redisUp, gap>>
    BY DEF ReportSuccess, ReportFailure, Success, Failure
<1>5. /\ caller' \in [Callers -> Caller]
      /\ \A d \in Callers : InCall(d)' => InCall(d) /\ caller'[d] = caller[d]
    BY <1>3, MovesOn DEF IInv
<1>6. openUntil' \in Closed .. OpenFor /\ gap' \in 0 .. OpenFor /\ CooldownCovers'
  <2>1. gap' \in 0 .. OpenFor
      BY <1>4 DEF IInv, TypeOK
  <2>2. openUntil' \in Closed .. OpenFor /\ (openUntil' # Closed => openUntil' = OpenFor)
      BY <1>4 DEF Closed
  <2>3. ASSUME openUntil' # Closed PROVE gap' + openUntil' >= OpenFor
    <3>1. openUntil' = OpenFor
        BY <2>2, <2>3
    <3>2. \A g \in 0 .. OpenFor : g + OpenFor >= OpenFor
        OBVIOUS
    <3> QED BY <2>1, <3>1, <3>2
  <2> QED BY <2>1, <2>2, <2>3, Zenon DEF CooldownCovers
<1>7. redisUp' \in BOOLEAN
    BY <1>4 DEF IInv, TypeOK
<1>8. CallsAreCounted'
    BY <1>5 DEF IInv, TypeOK, CallsAreCounted
<1> QED BY <1>4, <1>5, <1>6, <1>7, <1>8, Zenon DEF IInv, TypeOK, CallsAreCounted

LEMMA RedisIInv == ASSUME IInv, RedisFails \/ RedisRecovers PROVE IInv'
<1>1. /\ UNCHANGED <<openUntil, probeInFlight, gap>>
      /\ redisUp' \in BOOLEAN
      /\ caller' \in [Callers -> Caller]
      /\ \A d \in Callers : /\ InCall(d)' <=> InCall(d)
                            /\ caller'[d].left = caller[d].left
                            /\ caller'[d].probe = caller[d].probe
                            /\ caller'[d].todo = caller[d].todo
  <2>1. CASE RedisFails
    <3>1. /\ UNCHANGED <<openUntil, probeInFlight, gap>>
          /\ redisUp' = FALSE
          /\ caller' = [c \in Callers |->
                [caller[c] EXCEPT !.shaky = caller[c].step = "asking"]]
        BY <2>1 DEF RedisFails, circuit
    <3>2. ASSUME NEW d \in Callers
          PROVE  /\ caller'[d] \in Caller
                 /\ caller'[d].left = caller[d].left
                 /\ caller'[d].probe = caller[d].probe
                 /\ caller'[d].todo = caller[d].todo
                 /\ caller'[d].step = caller[d].step
      <4>1. caller[d] \in Caller
          BY DEF IInv, TypeOK
      <4>2. caller'[d] = [caller[d] EXCEPT !.shaky = caller[d].step = "asking"]
          BY <3>1
      <4> QED BY <4>1, <4>2 DEF Caller
    <3>3. caller' \in [Callers -> Caller]
        BY <3>1, <3>2
    <3> QED BY <3>1, <3>2, <3>3 DEF InCall
  <2>2. CASE RedisRecovers
      BY <2>2 DEF RedisRecovers, IInv, TypeOK, InCall
  <2> QED BY <2>1, <2>2
<1>2. CallsAreCounted'
    BY <1>1 DEF IInv, TypeOK, CallsAreCounted
<1>3. CooldownCovers'
    BY <1>1 DEF IInv, CooldownCovers
<1> QED BY <1>1, <1>2, <1>3, Zenon DEF IInv, TypeOK, CallsAreCounted

LEMMA TickIInv == ASSUME IInv, Tick PROVE IInv'
<1>1. /\ \A d \in Callers : InCall(d) => caller[d].left > 0
      /\ openUntil' = IF openUntil > 0 THEN openUntil - 1 ELSE openUntil
      /\ gap' = IF gap < OpenFor THEN gap + 1 ELSE gap
      /\ UNCHANGED <<probeInFlight, redisUp>>
    BY DEF Tick
<1>2. /\ caller' \in [Callers -> Caller]
      /\ \A d \in Callers :
            /\ InCall(d)' <=> InCall(d)
            /\ caller'[d].todo = caller[d].todo
  <2>1. ASSUME NEW d \in Callers
        PROVE  /\ caller'[d] \in Caller
               /\ InCall(d)' <=> InCall(d)
               /\ caller'[d].todo = caller[d].todo
    <3>1. caller[d] \in Caller
        BY DEF IInv, TypeOK
    <3>2. caller'[d] = IF InCall(d) THEN [caller[d] EXCEPT !.left = @ - 1] ELSE caller[d]
        BY DEF Tick
    <3>3. InCall(d) => caller[d].left - 1 \in 0 .. CallTimeout
        BY <1>1, <3>1 DEF Caller
    <3> QED BY <3>1, <3>2, <3>3 DEF Caller, InCall
  <2>2. caller' \in [Callers -> Caller]
      BY <2>1 DEF Tick
  <2> QED BY <2>1, <2>2
<1>3. /\ openUntil' \in Closed .. OpenFor
      /\ openUntil' = Closed <=> openUntil = Closed
      /\ gap' \in 0 .. OpenFor
      /\ gap + openUntil >= OpenFor => gap' + openUntil' >= OpenFor
  <2>1. openUntil \in Closed .. OpenFor /\ gap \in 0 .. OpenFor
      BY DEF IInv, TypeOK
  <2> QED BY <1>1, <2>1 DEF Closed
<1>4. CallsAreCounted'
    BY <1>2 DEF IInv, TypeOK, CallsAreCounted
<1>5. CooldownCovers'
    BY <1>1, <1>3 DEF IInv, CooldownCovers
<1> QED BY <1>1, <1>2, <1>3, <1>4, <1>5, Zenon DEF IInv, TypeOK, CallsAreCounted

LEMMA StepIInv == IInv /\ [Next]_vars => IInv'
<1> SUFFICES ASSUME IInv, [Next]_vars PROVE IInv'
    OBVIOUS
<1>1. ASSUME NEW c \in Callers, Begin(c) \/ CallerStep(c) PROVE IInv'
    BY <1>1, BeginIInv, SilentIInv, StartCallIInv, HearIInv, ReportIInv
       DEF CallerStep
<1>2. ASSUME RedisFails \/ RedisRecovers \/ Tick PROVE IInv'
    BY <1>2, RedisIInv, TickIInv
<1>3. ASSUME UNCHANGED vars PROVE IInv'
    BY <1>3 DEF vars, IInv, TypeOK, InCall, CooldownCovers
<1> QED BY <1>1, <1>2, <1>3 DEF Next

-----------------------------------------------------------------------------
\* The strengthened invariant holds of every reachable state.
THEOREM Invariance == Spec => []IInv
BY InitIInv, StepIInv, PTL DEF Spec

\* The breaker and every request stay well-typed.
THEOREM TypeCorrect == Spec => []TypeOK
<1>1. IInv => TypeOK
    BY DEF IInv
<1> QED BY <1>1, Invariance, PTL

\* Whatever late reports reset, redis_circuit.go never admits two probes
\* within one cooldown, for any number of requests and any length of a call.
THEOREM ProbesKeepApart == Spec => []ProbesAreSpaced
<1>1. IInv => ProbesAreSpaced
  <2>1. SUFFICES ASSUME IInv, openUntil = 0, ~ probeInFlight PROVE gap = OpenFor
      BY DEF ProbesAreSpaced, AsProbe, Allowed
  <2>2. gap \in 0 .. OpenFor /\ gap + openUntil >= OpenFor
      BY <2>1 DEF IInv, TypeOK, CooldownCovers, Closed
  <2> QED BY <2>1, <2>2
<1> QED BY <1>1, Invariance, PTL
=============================================================================
