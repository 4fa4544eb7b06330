-------------------------------- MODULE Keys --------------------------------
(***************************************************************************)
(* Which key a dashboard session is checked with (pkg/auth/jwt.go): the    *)
(* project's published keys are fetched under a lock and trusted for a     *)
(* while; a key that was not among them is remembered for a shorter while. *)
(***************************************************************************)
EXTENDS Integers, FiniteSets

CONSTANTS
    Kids,           \* key identifiers that tokens name
    EmptyKid,       \* the one of a token that names none
    Sessions,       \* calls of Verify under way at once
    KeysTTL,        \* how long a fetched set is trusted (1 h)
    UnknownTTL,     \* how long a missing key is remembered (10 s)
    MaxUnknown,     \* missing keys remembered (1024)
    FetchTime       \* longest a refresh takes (5 s)

ASSUME KeysAssumption ==
    /\ IsFiniteSet(Kids) /\ IsFiniteSet(Sessions) /\ EmptyKid \in Kids
    /\ KeysTTL \in Nat \ {0} /\ UnknownTTL \in Nat \ {0}
    /\ MaxUnknown \in Nat \ {0} /\ FetchTime \in Nat

VARIABLES
    published,      \* the keys the project publishes now
    keys,           \* the node's copy
    keysLeft,       \* what is left of the copy's trust
    unknown,        \* kid -> what is left of its being remembered, or Forgotten
    session,        \* what each call is doing
    turned          \* history: kid -> time since it was published or withdrawn

keysVars == <<published, keys, keysLeft, unknown, session, turned>>

Forgotten == -1

NoSession == [step |-> "none"]
Locked == {"again", "fetch", "install", "resolve"}     \* refreshMu is held
Checking == [step : {"lock", "accepted", "unknown", "failed"} \cup Locked,
             kid : Kids, got : SUBSET Kids, pause : 0 .. FetchTime]

\* The longest that a withdrawn key is still accepted, and a published one
\* still refused.
LateAccept == KeysTTL + FetchTime
LateRefuse == UnknownTTL + FetchTime
LongTurned == IF LateAccept > LateRefuse THEN LateAccept ELSE LateRefuse

KeysTypeOK ==
    /\ published \subseteq Kids \ {EmptyKid} /\ keys \subseteq Kids
    /\ keysLeft \in 0 .. KeysTTL
    /\ unknown \in [Kids -> Forgotten .. UnknownTTL]
    /\ session \in [Sessions -> Checking \cup {NoSession}]
    /\ \A s, r \in Sessions :
            session[s].step \in Locked /\ session[r].step \in Locked => s = r
    /\ turned \in [Kids -> 0 .. LongTurned]

KeysInit ==
    /\ published \in SUBSET (Kids \ {EmptyKid})
    /\ keys = {} /\ keysLeft = 0
    /\ unknown = [k \in Kids |-> Forgotten]
    /\ session = [s \in Sessions |-> NoSession]
    /\ turned = [k \in Kids |-> LongTurned]

-----------------------------------------------------------------------------
(* Verify. *)

SessionAt(s, step) == session[s].step = step
Checks(s, step, k, got, pause) ==
    session' = [session EXCEPT ![s] = [step |-> step, kid |-> k, got |-> got, pause |-> pause]]

\* What the node's memory says of a key, or the step to take if nothing.
Recalled_Stale(k, otherwise) ==
    CASE k \in keys -> "accepted"
      [] k \notin keys /\ unknown[k] > 0 -> "unknown"
      [] OTHER -> otherwise

Recalled(k, otherwise) ==
    CASE k \in keys /\ keysLeft > 0 -> "accepted"
      [] ~ (k \in keys /\ keysLeft > 0) /\ unknown[k] > 0 -> "unknown"
      [] OTHER -> otherwise

Verify(s, k) ==
    /\ session[s] = NoSession
    /\ Checks(s, Recalled(k, "lock"), k, {}, 0)
    /\ UNCHANGED <<published, keys, keysLeft, unknown, turned>>

\* refreshMu: one refresh at a time.
LockRefresh(s) ==
    /\ SessionAt(s, "lock")
    /\ \A r \in Sessions : session[r].step \notin Locked
    /\ Checks(s, "again", session[s].kid, {}, 0)
    /\ UNCHANGED <<published, keys, keysLeft, unknown, turned>>

\* Another call may have refreshed while this one waited.
RecallAgain(s) ==
    LET k == session[s].kid IN
    /\ SessionAt(s, "again")
    /\ Checks(s, Recalled(k, "fetch"), k, {}, 0)
    /\ UNCHANGED <<published, keys, keysLeft, unknown, turned>>

\* The server answers with what is published; a set without a usable key is
\* an error.
JWKSAnswers(s) ==
    /\ SessionAt(s, "fetch")
    /\ published # {}
    /\ Checks(s, "install", session[s].kid, published, session[s].pause)
    /\ UNCHANGED <<published, keys, keysLeft, unknown, turned>>

\* An error ends the call; the old copy stays, and is not used.
RefreshFails(s) ==
    /\ SessionAt(s, "fetch") \/ SessionAt(s, "install")
    /\ Checks(s, "failed", session[s].kid, {}, 0)
    /\ UNCHANGED <<published, keys, keysLeft, unknown, turned>>

InstallKeys(s) ==
    /\ SessionAt(s, "install")
    /\ keys' = session[s].got /\ keysLeft' = KeysTTL
    /\ Checks(s, "resolve", session[s].kid, {}, session[s].pause)
    /\ UNCHANGED <<published, unknown, turned>>

\* Which key makes room, of those still remembered.  The loop takes an empty
\* "oldest" to mean "none yet": the empty identifier never leaves, and when it
\* is older than all others the loop ends with any of them, or with none.
Evicted(live) ==
    LET named == live \ {EmptyKid} IN
    IF EmptyKid \in live /\ \A k \in named : unknown[EmptyKid] < unknown[k]
    THEN {{}} \cup {{k} : k \in named}
    ELSE {{k} : k \in {j \in named : \A i \in live : unknown[j] <= unknown[i]}}

\* rememberUnknownKid: what has lapsed goes first.  EmptyKid can leave the
\* memory above MaxUnknown.
Remember(k) ==
    LET live == {j \in Kids : unknown[j] > 0} IN
    \E gone \in IF Cardinality(live) < MaxUnknown THEN {{}} ELSE Evicted(live) :
        unknown' = [j \in Kids |-> IF j = k THEN UnknownTTL
                                   ELSE IF j \in live \ gone THEN unknown[j] ELSE Forgotten]

\* Nobody else writes while the lock is held, so the last look, the memory
\* and the unlock are one step.
Resolve(s) ==
    LET k == session[s].kid IN
    /\ SessionAt(s, "resolve")
    /\ \/ k \in keys /\ Checks(s, "accepted", k, {}, 0) /\ UNCHANGED unknown
       \/ k \notin keys /\ Checks(s, "unknown", k, {}, 0) /\ Remember(k)
    /\ UNCHANGED <<published, keys, keysLeft, turned>>

Answered(s) == session[s].step \in {"accepted", "unknown", "failed"}

EndCheck(s) ==
    /\ Answered(s)
    /\ session' = [session EXCEPT ![s] = NoSession]
    /\ UNCHANGED <<published, keys, keysLeft, unknown, turned>>

-----------------------------------------------------------------------------
(* Rotation and the clock. *)

\* A key is published or withdrawn.  Published keys have names.
Rotate(k) ==
    /\ published' = (published \cup {k}) \ (published \cap {k})
    /\ turned' = [turned EXCEPT ![k] = 0]
    /\ UNCHANGED <<keys, keysLeft, unknown, session>>

Refreshing(s) == session[s].step \in {"fetch", "install", "resolve"}

KeysTick ==
    /\ \A s \in Sessions : Refreshing(s) => session[s].pause < FetchTime
    /\ keysLeft' = IF keysLeft > 0 THEN keysLeft - 1 ELSE 0
    /\ unknown' = [k \in Kids |-> IF unknown[k] > 0 THEN unknown[k] - 1 ELSE unknown[k]]
    /\ session' = [s \in Sessions |->
            IF Refreshing(s) THEN [session[s] EXCEPT !.pause = @ + 1] ELSE session[s]]
    /\ turned' = [k \in Kids |-> IF turned[k] < LongTurned THEN turned[k] + 1 ELSE LongTurned]
    /\ UNCHANGED <<published, keys>>

Check(s) ==
    \/ LockRefresh(s)
    \/ RecallAgain(s)
    \/ JWKSAnswers(s)
    \/ RefreshFails(s)
    \/ InstallKeys(s)
    \/ Resolve(s)
    \/ EndCheck(s)

KeysNext ==
    \/ \E s \in Sessions, k \in Kids : Verify(s, k)
    \/ \E s \in Sessions : Check(s)
    \/ \E k \in Kids \ {EmptyKid} : Rotate(k)
    \/ KeysTick

KeysSpec == KeysInit /\ [][KeysNext]_keysVars

-----------------------------------------------------------------------------
(* What must hold. *)

\* However refreshes, rotations and waiting calls overlap: a session is
\* accepted only under a key that was published less than one lifetime of the
\* copy and one refresh ago, and refused as unknown only under a key that was
\* not published less than ten seconds and one refresh ago.
KeysRecent ==
    [][\A s \in Sessions :
        LET k == session'[s].kid IN
        /\ ~ Answered(s) /\ session'[s].step = "accepted" =>
                k \in published \/ turned[k] < LateAccept
        /\ ~ Answered(s) /\ session'[s].step = "unknown" =>
                k \notin published \/ turned[k] < LateRefuse
      ]_keysVars
=============================================================================
