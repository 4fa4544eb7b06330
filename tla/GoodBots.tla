------------------------------ MODULE GoodBots ------------------------------
(***************************************************************************)
(* Which callers are the search engines they claim to be                   *)
(* (pkg/signals/goodbots.go): a DNS lookup in one of a few slots, and a    *)
(* bounded cache of its verdicts.  A "bot" is an address with the family   *)
(* its user agent claims, the cache's key.                                 *)
(***************************************************************************)
EXTENDS Integers, FiniteSets

CONSTANTS
    Bots,
    Visitors,       \* requests that claim to be one, under way at once
    BotTTL,         \* life of a verdict (6 h)
    MaxBots,        \* verdicts kept (100 000)
    LookupSlots,    \* lookups at once (64)
    LookupTime      \* longest from a slot to the verdict's storage (2 s)

ASSUME BotsAssumption ==
    /\ IsFiniteSet(Bots) /\ IsFiniteSet(Visitors)
    /\ BotTTL \in Nat \ {0} /\ MaxBots \in Nat \ {0}
    /\ LookupSlots \in Nat \ {0} /\ LookupTime \in Nat

VARIABLES
    genuine,        \* bots that DNS confirms now
    botCache,       \* bot -> its verdict and what is left of it, or NotCached
    visitor,        \* what each request is doing
    confirmed,      \* history: bot -> time since a lookup confirmed it
    doubted         \* history: bot -> time since a lookup did not, or was refused

botsVars == <<genuine, botCache, visitor, confirmed, doubted>>

NotCached == [left |-> -1]
Verdict == [verified : BOOLEAN, left : 0 .. BotTTL]
CachedBots == {b \in Bots : botCache[b] # NotCached}

Arriving == [step |-> "arriving"]
Claim == [step : {"slot", "lookup", "store", "answered"}, bot : Bots,
          verified : BOOLEAN, pause : 0 .. LookupTime]

\* Beyond this a history's age no longer matters.
LongAgo == BotTTL + LookupTime

BotsTypeOK ==
    /\ genuine \subseteq Bots
    /\ botCache \in [Bots -> Verdict \cup {NotCached}]
    /\ Cardinality(CachedBots) <= MaxBots
    /\ visitor \in [Visitors -> Claim \cup {Arriving}]
    /\ confirmed \in [Bots -> 0 .. LongAgo] /\ doubted \in [Bots -> 0 .. LongAgo]

BotsInit ==
    /\ genuine \in SUBSET Bots
    /\ botCache = [b \in Bots |-> NotCached]
    /\ visitor = [v \in Visitors |-> Arriving]
    /\ confirmed = [b \in Bots |-> LongAgo]
    /\ doubted = [b \in Bots |-> LongAgo]

-----------------------------------------------------------------------------
(* The request. *)

VisitorAt(v, step) == visitor[v].step = step
Claims(v, step, b, verified, pause) ==
    visitor' = [visitor EXCEPT ![v] =
        [step |-> step, bot |-> b, verified |-> verified, pause |-> pause]]

LiveVerdict_Forever(b) == botCache[b] # NotCached

LiveVerdict(b) == botCache[b] # NotCached /\ botCache[b].left > 0

\* IsVerifiedGoodBot: a live verdict is the answer.
AskBot(v, b) ==
    /\ visitor[v] = Arriving
    /\ IF LiveVerdict(b)
       THEN Claims(v, "answered", b, botCache[b].verified, 0)
       ELSE Claims(v, "slot", b, FALSE, 0)
    /\ UNCHANGED <<genuine, botCache, confirmed, doubted>>

LookingUp == {v \in Visitors : VisitorAt(v, "lookup")}

\* verifyDNS: no slot is waited for; a claim without one is not verified.
TakeSlot(v) ==
    LET b == visitor[v].bot IN
    /\ VisitorAt(v, "slot")
    /\ IF Cardinality(LookingUp) < LookupSlots
       THEN Claims(v, "lookup", b, FALSE, 0) /\ UNCHANGED doubted
       ELSE Claims(v, "store", b, FALSE, 0) /\ doubted' = [doubted EXCEPT ![b] = 0]
    /\ UNCHANGED <<genuine, botCache, confirmed>>

\* The resolver answers, or fails or times out.  The slot is free again
\* before the verdict is stored.
DNSAnswers(v, fails) ==
    LET b == visitor[v].bot
        verified == b \in genuine /\ ~ fails
    IN  /\ VisitorAt(v, "lookup")
        /\ Claims(v, "store", b, verified, visitor[v].pause)
        /\ IF verified
           THEN confirmed' = [confirmed EXCEPT ![b] = 0] /\ UNCHANGED doubted
           ELSE doubted' = [doubted EXCEPT ![b] = 0] /\ UNCHANGED confirmed
        /\ UNCHANGED <<genuine, botCache>>

\* What a full cache may give up for a new verdict: any one that has lapsed.
Reclaimed ==
    LET lapsed == {b \in CachedBots : botCache[b].left = 0} IN
    IF Cardinality(CachedBots) < MaxBots \/ lapsed = {} THEN {botCache}
    ELSE {[botCache EXCEPT ![b] = NotCached] : b \in lapsed}

StoreVerdict(cache, b, verdict) ==
    IF Cardinality({d \in Bots : cache[d] # NotCached}) >= MaxBots THEN cache
    ELSE [cache EXCEPT ![b] = verdict]

\* cacheBotResult: if it finds no room the verdict only answers this request.
CacheBotResult(v) ==
    LET b == visitor[v].bot IN
    /\ VisitorAt(v, "store")
    /\ \E cache \in Reclaimed :
        botCache' = StoreVerdict(cache, b, [verified |-> visitor[v].verified, left |-> BotTTL])
    /\ Claims(v, "answered", b, visitor[v].verified, 0)
    /\ UNCHANGED <<genuine, confirmed, doubted>>

Leave(v) ==
    /\ VisitorAt(v, "answered")
    /\ visitor' = [visitor EXCEPT ![v] = Arriving]
    /\ UNCHANGED <<genuine, botCache, confirmed, doubted>>

-----------------------------------------------------------------------------
(* DNS and the clock. *)

\* Addresses change hands.
ChangeDNS(b) ==
    /\ genuine' = (genuine \cup {b}) \ (genuine \cap {b})
    /\ UNCHANGED <<botCache, visitor, confirmed, doubted>>

Hurried(v) == VisitorAt(v, "lookup") \/ VisitorAt(v, "store")
BotsAged(ages) == [b \in Bots |-> IF ages[b] < LongAgo THEN ages[b] + 1 ELSE LongAgo]

BotsTick ==
    /\ \A v \in Visitors : Hurried(v) => visitor[v].pause < LookupTime
    /\ botCache' = [b \in Bots |->
            IF botCache[b].left > 0 THEN [botCache[b] EXCEPT !.left = @ - 1] ELSE botCache[b]]
    /\ visitor' = [v \in Visitors |->
            IF Hurried(v) THEN [visitor[v] EXCEPT !.pause = @ + 1] ELSE visitor[v]]
    /\ confirmed' = BotsAged(confirmed) /\ doubted' = BotsAged(doubted)
    /\ UNCHANGED genuine

IsVerifiedGoodBot(v) ==
    \/ TakeSlot(v)
    \/ \E fails \in BOOLEAN : DNSAnswers(v, fails)
    \/ CacheBotResult(v)
    \/ Leave(v)

BotsNext ==
    \/ \E v \in Visitors, b \in Bots : AskBot(v, b)
    \/ \E v \in Visitors : IsVerifiedGoodBot(v)
    \/ \E b \in Bots : ChangeDNS(b)
    \/ BotsTick

BotsSpec == BotsInit /\ [][BotsNext]_botsVars

-----------------------------------------------------------------------------
(* What must hold. *)

\* However lookups, verdicts and full caches overlap, a caller is treated as
\* a search engine only if DNS has confirmed it less than one verdict's life
\* and one lookup ago; and a claim is turned down only if it was within the
\* same time that a lookup failed it, or found no slot.  So one busy moment
\* costs a genuine crawler at most six hours.
VerdictsRecent ==
    [][\A v \in Visitors :
        ~ VisitorAt(v, "answered") /\ visitor'[v].step = "answered" =>
            LET b == visitor'[v].bot IN
            IF visitor'[v].verified THEN confirmed[b] < LongAgo ELSE doubted[b] < LongAgo
      ]_botsVars
=============================================================================
