----------------------------- MODULE Challenge ------------------------------
(***************************************************************************)
(* Issuing and verifying browser challenges (pkg/challenge): the signed    *)
(* token and its age, the admission ceiling of the verify path, and the    *)
(* one use of each puzzle, kept in Redis for all nodes and, when a Redis   *)
(* call fails, in the node's own store.                                    *)
(*                                                                         *)
(* A verify call reads the clock twice, for the token's age and for the    *)
(* marker, and then goes to Redis; it may be suspended between any two of  *)
(* these, for at most MaxPause ticks in all.                               *)
(***************************************************************************)
EXTENDS NonceStore

CONSTANTS
    Nodes,
    Calls,          \* verify requests under way at once
    Admissions,     \* verify calls one node runs at once (64)
    MaxPause        \* longest a verify call takes to its nonce's marker

ASSUME ChallengeAssumption ==
    /\ IsFiniteSet(Calls)
    /\ "redis" \notin Nodes
    /\ Admissions \in Nat \ {0}
    /\ MaxPause \in Nat

VARIABLES
    age,            \* nonce -> age of its token, Expired, or Unissued
    redis,          \* nonce -> what is left of its marker in Redis, 0 for none
    local,          \* node -> its fallback store
    verifyRunning,  \* node -> verify calls holding a slot
    call,           \* what each verify call is doing
    accepted        \* history: nonce -> store -> times it was accepted there

vars == <<age, redis, local, verifyRunning, call, accepted>>

Redis == "redis"
Stores == Nodes \cup {Redis}

Unissued == -1
Expired == MaxAge + 1

Idle == [step |-> "idle"]
Steps == {"parse", "clock", "redis", "fallback", "end"}
Verify == [step : Steps, node : Nodes, nonce : Nonces,
           pause : 0 .. MaxPause,   \* since the token's age was read
           lag : 0 .. MaxPause]     \* since "now" was read

Admitted(c, i) == call[c] # Idle /\ call[c].node = i

\* How far past its death a marker's age still matters.
Overdue == - (2 * MaxPause)
Entry == [nonce : Nonces, left : Overdue .. MaxAge]
Store == [used : SUBSET Nonces, ordered : Seq(Entry \cup {Blank}), head : Nat]

TypeOK ==
    /\ age \in [Nonces -> Unissued .. Expired]
    /\ redis \in [Nonces -> 0 .. MaxAge]
    /\ local \in [Nodes -> Store]
    /\ \A i \in Nodes :
        /\ Cardinality(local[i].used) <= MaxStored
        /\ local[i].head <= Len(local[i].ordered)
    /\ verifyRunning \in [Nodes -> 0 .. Admissions]
    /\ call \in [Calls -> Verify \cup {Idle}]
    /\ accepted \in [Nonces -> [Stores -> Nat]]

Init ==
    /\ age = [n \in Nonces |-> Unissued]
    /\ redis = [n \in Nonces |-> 0]
    /\ local = [i \in Nodes |-> EmptyStore]
    /\ verifyRunning = [i \in Nodes |-> 0]
    /\ call = [c \in Calls |-> Idle]
    /\ accepted = [n \in Nonces |-> [s \in Stores |-> 0]]

-----------------------------------------------------------------------------
(* Pages. *)

\* A nonce is random: no token, marker or call knows it.
Fresh(n) ==
    /\ age[n] \in {Unissued, Expired}
    /\ redis[n] = 0
    /\ \A i \in Nodes : n \notin local[i].used
    /\ \A c \in Calls : call[c] # Idle => call[c].nonce # n

\* Serve: the token carries the second that has begun, not the instant.
Serve(n, truncated) ==
    /\ Fresh(n)
    /\ age' = [age EXCEPT ![n] = truncated]
    /\ accepted' = [accepted EXCEPT ![n] = [s \in Stores |-> 0]]
    /\ UNCHANGED <<redis, local, verifyRunning, call>>

-----------------------------------------------------------------------------
(* The verify call. *)

At(c, step) == call[c].step = step
Goto(c, step) == call' = [call EXCEPT ![c].step = step]

\* A page posts its answer, for the first time or again, to any node and as
\* soon as it likes: a fast solve is only measured.
\* TryAdmitVerify takes a slot or refuses with no effect; it never waits.
Admit(c, i, n) ==
    /\ call[c] = Idle
    /\ age[n] # Unissued
    /\ verifyRunning[i] < Admissions
    /\ verifyRunning' = [verifyRunning EXCEPT ![i] = @ + 1]
    /\ call' = [call EXCEPT ![c] =
                    [step |-> "parse", node |-> i, nonce |-> n, pause |-> 0, lag |-> 0]]
    /\ UNCHANGED <<age, redis, local, accepted>>

\* parseToken and parseTelemetry: a token past its age, or anything
\* malformed, ends the call before the nonce is touched.
Parse(c, wellFormed) ==
    /\ At(c, "parse")
    /\ Goto(c, IF wellFormed /\ age[call[c].nonce] <= MaxAge THEN "clock" ELSE "end")
    /\ UNCHANGED <<age, redis, local, verifyRunning, accepted>>

ReadClock(c) ==
    /\ At(c, "clock")
    /\ Goto(c, "redis")
    /\ UNCHANGED <<age, redis, local, verifyRunning, accepted>>

AcceptedBy(n, s) == accepted' = [accepted EXCEPT ![n][s] = @ + 1]

\* SET NX on Redis, and its answer.
SetNX(c) ==
    LET n == call[c].nonce IN
    /\ At(c, "redis")
    /\ IF redis[n] > 0
       THEN UNCHANGED <<redis, accepted>>
       ELSE redis' = [redis EXCEPT ![n] = MaxAge] /\ AcceptedBy(n, Redis)
    /\ Goto(c, "end")
    /\ UNCHANGED <<age, local, verifyRunning>>

\* Redis fails, or answers too late to what it has done.
SetNXFails(c, executed) ==
    LET n == call[c].nonce IN
    /\ At(c, "redis")
    /\ redis' = IF executed /\ redis[n] = 0 THEN [redis EXCEPT ![n] = MaxAge] ELSE redis
    /\ Goto(c, "fallback")
    /\ UNCHANGED <<age, local, verifyRunning, accepted>>

\* localNonceStore.Consume
ConsumeLocal(c) ==
    LET n == call[c].nonce
        i == call[c].node
        accepts == Accepts(Sweep(local[i], call[c].lag), n)
    IN  /\ At(c, "fallback")
        /\ local' = [local EXCEPT ![i] = Consumed(@, n, call[c].lag)]
        /\ IF accepts THEN AcceptedBy(n, i) ELSE UNCHANGED accepted
        /\ Goto(c, "end")
        /\ UNCHANGED <<age, redis, verifyRunning>>

End_KeepsSlot(c) ==
    /\ At(c, "end")
    /\ call' = [call EXCEPT ![c] = Idle]
    /\ verifyRunning' = IF age[call[c].nonce] > MaxAge THEN verifyRunning
                        ELSE [verifyRunning EXCEPT ![call[c].node] = @ - 1]
    /\ UNCHANGED <<age, redis, local, accepted>>

\* The answer, the canvas and the telemetry decide what the visitor is told;
\* the puzzle is spent either way.  The slot's release is deferred.
End(c) ==
    /\ At(c, "end")
    /\ call' = [call EXCEPT ![c] = Idle]
    /\ verifyRunning' = [verifyRunning EXCEPT ![call[c].node] = @ - 1]
    /\ UNCHANGED <<age, redis, local, accepted>>

-----------------------------------------------------------------------------
(* Time and restarts. *)

Waiting(c) == call[c].step \in {"clock", "redis", "fallback"}
Dated(c) == call[c].step \in {"redis", "fallback"}

Tick ==
    /\ \A c \in Calls : Waiting(c) => call[c].pause < MaxPause
    /\ age' = [n \in Nonces |->
            IF age[n] \in 0 .. MaxAge THEN age[n] + 1 ELSE age[n]]
    /\ redis' = [n \in Nonces |-> IF redis[n] > 0 THEN redis[n] - 1 ELSE 0]
    /\ local' = [i \in Nodes |-> Older(local[i], Overdue)]
    /\ call' = [c \in Calls |->
            IF ~ Waiting(c) THEN call[c]
            ELSE [step |-> call[c].step, node |-> call[c].node, nonce |-> call[c].nonce,
                  pause |-> call[c].pause + 1,
                  lag |-> IF Dated(c) THEN call[c].lag + 1 ELSE 0]]
    /\ UNCHANGED <<verifyRunning, accepted>>

\* A node forgets its store, its slots and its calls; Redis and the pages stay.
Restart(i) ==
    /\ local' = [local EXCEPT ![i] = EmptyStore]
    /\ verifyRunning' = [verifyRunning EXCEPT ![i] = 0]
    /\ call' = [c \in Calls |->
            IF call[c] # Idle /\ call[c].node = i THEN Idle ELSE call[c]]
    /\ accepted' = [n \in Nonces |-> [accepted[n] EXCEPT ![i] = 0]]
    /\ UNCHANGED <<age, redis>>

VerifyStep(c) ==
    \/ \E wellFormed \in BOOLEAN : Parse(c, wellFormed)
    \/ ReadClock(c)
    \/ SetNX(c)
    \/ \E executed \in BOOLEAN : SetNXFails(c, executed)
    \/ ConsumeLocal(c)
    \/ End(c)

Next ==
    \/ \E n \in Nonces, truncated \in {0, 1} : Serve(n, truncated)
    \/ \E c \in Calls, i \in Nodes, n \in Nonces : Admit(c, i, n)
    \/ \E c \in Calls : VerifyStep(c)
    \/ Tick
    \/ \E i \in Nodes : Restart(i)

Spec == Init /\ [][Next]_vars

-----------------------------------------------------------------------------
(* What must hold. *)

\* Redis, for all nodes together, and each node's fallback accept a puzzle
\* once in the life of its token, although a marker lives no longer than the
\* token, begins with another reading of the clock, and is swept by calls
\* that read theirs at other times.  A second acceptance takes a call that
\* was suspended, after the token's check, to the end of the token's life.
OncePerLife ==
    [][\A n \in Nonces, s \in Stores :
          (accepted[n][s] > 0 /\ accepted'[n][s] > accepted[n][s])
              => age[n] >= MaxAge]_vars

\* The ceiling counts exactly the calls that hold a slot: whatever way a call
\* ends, the node can verify as many again.
SlotsAccounted ==
    \A i \in Nodes : verifyRunning[i] = Cardinality({c \in Calls : Admitted(c, i)})

\* The fallback refuses a puzzle only if it is in the store already or the
\* store is full of markers, none of which died longer ago than two pauses
\* (the clock of a marker and of the call that finds the store full may both
\* be late): full storage recovers by itself as visitors come.
Refuses(c) ==
    /\ At(c, "fallback") /\ call'[c] # Idle /\ call'[c].step = "end"
    /\ UNCHANGED accepted
NoNeedlessRefusal ==
    [][\A c \in Calls : Refuses(c) =>
        LET s == local[call[c].node] IN
        \/ call[c].nonce \in s.used
        \/ Cardinality({i \in Queued(s) : s.ordered[i].left > Overdue}) >= MaxStored
      ]_vars
=============================================================================
