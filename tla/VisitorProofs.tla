---------------------------- MODULE VisitorProofs ---------------------------
(***************************************************************************)
(* Theorems about what a node makes of a visitor: Forward, for any         *)
(* addresses, trusted proxies and hops and whatever a visitor begins the   *)
(* header with; Visits, for any browsers, tabs, servers, clocks and        *)
(* lifetimes; GoodBots, for any crawlers, resolvers and lifetimes of what  *)
(* is remembered; Keys, for any keys, sessions and lifetimes; OriginPage,  *)
(* for any pages, cap and first buffer.                                    *)
(***************************************************************************)
EXTENDS Forward, Visits, GoodBots, Keys, OriginPage, SequenceTheorems, FiniteSetTheorems, TLAPS

-----------------------------------------------------------------------------
(* Who a visitor is. *)

\* A header in which the visitor's address is followed by proxies' only.
EndsWithVisitor(forwarded, addr) ==
    \E k \in 1 .. Len(forwarded) :
        /\ forwarded[k] = addr
        /\ \A j \in k + 1 .. Len(forwarded) : forwarded[j] \in Trusted

\* What the proxies have made of the header by now.
HeaderRight ==
    IF message.hops = 0 THEN message.peer = message.visitor
    ELSE /\ message.peer \in Trusted
         /\ EndsWithVisitor(message.forwarded, message.visitor)

\* The address the node has to find.
Expected ==
    IF /\ message.hops > 0
       /\ \E i \in DOMAIN message.forwarded : message.forwarded[i] = Garbage
    THEN message.peer
    ELSE message.visitor

KnownRight ==
    /\ message.at = "network" => known.ip = None
    /\ message.at = "origin" => known.ip # None
    /\ known.ip # None => known.ip = Expected

ToldRight ==
    message.at = "origin" =>
        /\ Identity \subseteq DOMAIN told
        /\ \A h \in Identity : told[h] = known.ip
        /\ \A h \in DOMAIN told : told[h] # "forged"

ForwardInv == ForwardTypeOK /\ HeaderRight /\ KnownRight /\ ToldRight

-----------------------------------------------------------------------------
(* The address. *)

LEMMA AppendKeepsEnd ==
  ASSUME NEW S, NEW forwarded \in Seq(S), NEW addr, NEW p \in S, p \in Trusted,
         EndsWithVisitor(forwarded, addr)
  PROVE  EndsWithVisitor(Append(forwarded, p), addr)
<1>1. PICK k \in 1 .. Len(forwarded) :
        /\ forwarded[k] = addr
        /\ \A j \in k + 1 .. Len(forwarded) : forwarded[j] \in Trusted
  BY DEF EndsWithVisitor
<1>2. /\ Len(Append(forwarded, p)) = Len(forwarded) + 1
      /\ \A j \in 1 .. Len(forwarded) : Append(forwarded, p)[j] = forwarded[j]
      /\ Append(forwarded, p)[Len(forwarded) + 1] = p
      /\ Len(forwarded) \in Nat
  OBVIOUS
<1> QED BY <1>1, <1>2 DEF EndsWithVisitor

LEMMA AppendEnds ==
  ASSUME NEW S, NEW forwarded \in Seq(S), NEW addr \in S
  PROVE  EndsWithVisitor(Append(forwarded, addr), addr)
<1>1. /\ Len(Append(forwarded, addr)) = Len(forwarded) + 1
      /\ Append(forwarded, addr)[Len(forwarded) + 1] = addr
      /\ Len(forwarded) \in Nat
  OBVIOUS
<1> QED BY <1>1 DEF EndsWithVisitor

\* A visitor whose own proxies are behind it in the header is the nearest
\* address that is not one of them.
LEMMA NearestIsVisitor ==
  ASSUME NEW S, NEW forwarded \in Seq(S), NEW addr, addr \notin Trusted,
         EndsWithVisitor(forwarded, addr)
  PROVE  /\ Untrusted(forwarded) # {}
         /\ forwarded[Nearest(Untrusted(forwarded))] = addr
<1> DEFINE U == Untrusted(forwarded)
<1>1. PICK k \in 1 .. Len(forwarded) :
        /\ forwarded[k] = addr
        /\ \A j \in k + 1 .. Len(forwarded) : forwarded[j] \in Trusted
  BY DEF EndsWithVisitor
<1>2. DOMAIN forwarded = 1 .. Len(forwarded) /\ Len(forwarded) \in Nat
  OBVIOUS
<1>3. k \in U /\ U \subseteq Nat
  BY <1>1, <1>2 DEF Untrusted
<1>4. \A j \in U : j <= k
  BY <1>1, <1>2 DEF Untrusted
<1>5. Nearest(U) \in U /\ \A j \in U : j <= Nearest(U)
  BY <1>3, <1>4 DEF Nearest
<1>6. Nearest(U) = k
  BY <1>3, <1>4, <1>5
<1> QED BY <1>1, <1>3, <1>6

\* The node finds the address it has to find.
LEMMA ClientFound ==
  ASSUME ForwardTypeOK, HeaderRight
  PROVE  /\ ClientIP(message.peer, message.forwarded) = Expected
         /\ Expected \in Addresses
<1> USE ForwardAssumption
<1>1. /\ message.visitor \in Outside /\ message.peer \in Addresses
      /\ message.forwarded \in Seq(Addresses \cup {Garbage})
      /\ message.hops \in Nat
      /\ message.visitor \notin Trusted /\ message.visitor \in Addresses
  BY DEF ForwardTypeOK, Messages, Addresses
<1>2. CASE message.hops = 0
  BY <1>1, <1>2 DEF HeaderRight, ClientIP, Expected
<1>3. CASE message.hops # 0
  <2>1. message.peer \in Trusted /\ EndsWithVisitor(message.forwarded, message.visitor)
    BY <1>3 DEF HeaderRight
  <2>2. /\ Untrusted(message.forwarded) # {}
        /\ message.forwarded[Nearest(Untrusted(message.forwarded))] = message.visitor
    BY <1>1, <2>1, NearestIsVisitor
  <2>3. message.forwarded # <<>>
    BY <2>1, <1>1 DEF EndsWithVisitor
  <2>4. CASE Legible(message.forwarded)
    BY <1>1, <1>3, <2>1, <2>2, <2>4 DEF ClientIP, Expected, Legible
  <2>5. CASE ~ Legible(message.forwarded)
    BY <1>1, <1>3, <2>3, <2>5 DEF ClientIP, Expected, Legible
  <2> QED BY <2>4, <2>5
<1> QED BY <1>2, <1>3

-----------------------------------------------------------------------------
(* The headers. *)

LEMMA OwnHeadersRight ==
  ASSUME ForwardTypeOK, known.ip # None, NEW mismatch \in BOOLEAN
  PROVE  LET own == OwnHeaders(mismatch)
         IN  /\ DOMAIN own \subseteq Headers /\ Identity \subseteq DOMAIN own
             /\ \A h \in Identity : own[h] = known.ip
             /\ \A h \in DOMAIN own : own[h] # "forged"
<1> DEFINE own == OwnHeaders(mismatch)
           ja4 == JA4FromContext(message.connection)
<1>1. message.connection \in Connections /\ known.ip \in Addresses
  BY DEF ForwardTypeOK, Messages
<1>2. ja4 \in {None, "unreadable", "fingerprint"} /\ ja4 # "forged"
  BY <1>1 DEF JA4FromContext, Connections, None
<1>3. known.ip # "forged"
  BY <1>1, ForwardAssumption DEF Addresses
<1>4. /\ DOMAIN own = Identity
               \cup (IF ja4 = None THEN {} ELSE {Ja4Header})
               \cup (IF mismatch THEN {UAMismatchHeader} ELSE {})
               \cup (IF known.deceived THEN Verdicts ELSE {})
      /\ \A h \in DOMAIN own : own[h] =
            IF h \in Identity THEN known.ip
            ELSE IF h = Ja4Header THEN ja4
            ELSE IF h = UAMismatchHeader THEN "true" ELSE "deceive"
  BY Zenon DEF OwnHeaders
<1>5. DOMAIN own \subseteq Headers /\ Identity \subseteq DOMAIN own
  BY <1>4 DEF Headers
<1>6. \A h \in Identity : own[h] = known.ip
  BY <1>4 DEF Identity, Ja4Header, UAMismatchHeader, Verdicts
<1>7. \A h \in DOMAIN own : own[h] # "forged"
  BY <1>2, <1>3, <1>4 DEF Identity, Ja4Header, UAMismatchHeader, Verdicts
<1> QED BY <1>5, <1>6, <1>7 DEF OwnHeaders

-----------------------------------------------------------------------------
(* The invariant. *)

LEMMA ForwardInitRight == ForwardInit => ForwardInv
<1> SUFFICES ASSUME ForwardInit PROVE ForwardInv
  OBVIOUS
<1>1. PICK v \in Outside, n \in 0 .. MaxForged, forged \in {{}, Headers},
          host \in Hosts \cup {Malformed} :
       \E begun \in [1 .. n -> Addresses \cup {Garbage}] :
        message = [visitor |-> v, peer |-> v, forwarded |-> begun, hops |-> 0, forged |-> forged,
                   connection |-> "plain", host |-> host, sni |-> None, at |-> "network"]
  BY DEF ForwardInit
<1>2. PICK begun \in [1 .. n -> Addresses \cup {Garbage}] :
        message = [visitor |-> v, peer |-> v, forwarded |-> begun, hops |-> 0, forged |-> forged,
                   connection |-> "plain", host |-> host, sni |-> None, at |-> "network"]
  BY <1>1
<1>3. n \in Nat /\ MaxHops \in Nat
  BY ForwardAssumption
<1>4. begun \in Seq(Addresses \cup {Garbage})
  BY <1>3
<1>5. message \in Messages
  BY <1>2, <1>3, <1>4 DEF Messages, Addresses, Connections
<1>6. known = [ip |-> None, deceived |-> FALSE] /\ told = <<>>
  BY DEF ForwardInit
<1>7. ForwardTypeOK
  BY <1>5, <1>6 DEF ForwardTypeOK
<1> QED BY <1>2, <1>6, <1>7 DEF ForwardInv, HeaderRight, KnownRight, ToldRight

LEMMA PassRight ==
  ASSUME ForwardInv, NEW p \in Trusted, NEW anew \in BOOLEAN, PassProxy(p, anew)
  PROVE  ForwardInv'
<1> USE ForwardAssumption
<1> DEFINE F == IF anew THEN <<message.peer>> ELSE Append(message.forwarded, message.peer)
<1>1. message \in Messages /\ message.hops < MaxHops /\ message.at = "network"
  BY DEF ForwardInv, ForwardTypeOK, PassProxy
<1>0. message.peer \in Addresses \cup {Garbage} /\ message.forwarded \in Seq(Addresses \cup {Garbage})
  BY <1>1 DEF Messages
<1>2. F \in Seq(Addresses \cup {Garbage})
  <2>1. <<message.peer>> \in Seq(Addresses \cup {Garbage})
    BY <1>0
  <2>2. Append(message.forwarded, message.peer) \in Seq(Addresses \cup {Garbage})
    BY <1>0
  <2> QED BY <2>1, <2>2
<1>3. message' = [message EXCEPT !.forwarded = F, !.peer = p, !.hops = message.hops + 1]
  BY DEF PassProxy
<1>4. message' \in Messages
  <2>1. message.hops + 1 \in 0 .. MaxHops
    BY <1>1 DEF Messages
  <2> HIDE DEF F
  <2> QED BY <1>1, <1>2, <1>3, <2>1 DEF Messages, Addresses
<1>5. /\ message'.forwarded = F /\ message'.peer = p /\ message'.hops = message.hops + 1
      /\ message'.visitor = message.visitor /\ message'.at = "network"
  BY <1>1, <1>3 DEF Messages
<1>6. ForwardTypeOK'
  BY <1>4 DEF ForwardInv, ForwardTypeOK, PassProxy
<1>7. EndsWithVisitor(F, message.visitor)
  <2>1. CASE message.hops = 0
    <3>1. message.peer = message.visitor
      BY <2>1 DEF ForwardInv, HeaderRight
    <3>2. EndsWithVisitor(<<message.peer>>, message.visitor)
      BY <3>1 DEF EndsWithVisitor
    <3>3. EndsWithVisitor(Append(message.forwarded, message.peer), message.visitor)
      BY <1>0, <3>1, AppendEnds
    <3> QED BY <3>2, <3>3
  <2>2. CASE message.hops # 0
    <3>1. /\ ~ anew /\ message.peer \in Trusted
          /\ EndsWithVisitor(message.forwarded, message.visitor)
      BY <2>2 DEF PassProxy, ForwardInv, HeaderRight
    <3> QED BY <1>0, <3>1, AppendKeepsEnd
  <2> QED BY <2>1, <2>2
<1>8. HeaderRight'
  <2>1. message'.hops # 0
    BY <1>1, <1>5 DEF Messages
  <2> QED BY <1>5, <1>7, <2>1 DEF HeaderRight
<1>9. KnownRight' /\ ToldRight'
  BY <1>1, <1>5 DEF ForwardInv, KnownRight, ToldRight, PassProxy
<1> QED BY <1>6, <1>8, <1>9 DEF ForwardInv

LEMMA ArriveRight ==
  ASSUME ForwardInv, NEW connection \in Connections, NEW sni \in Hosts \cup {Malformed, None},
         ArriveOver(connection, sni)
  PROVE  ForwardInv'
<1>1. message \in Messages /\ message.at = "network" /\ known.ip = None
  BY DEF ForwardInv, ForwardTypeOK, KnownRight, ArriveOver
<1>2. /\ message' = [message EXCEPT !.at = "node", !.connection = connection, !.sni = sni]
      /\ UNCHANGED <<known, told>>
  BY DEF ArriveOver
<1>3. message' \in Messages
  BY <1>1, <1>2 DEF Messages
<1>4. /\ message'.forwarded = message.forwarded /\ message'.peer = message.peer
      /\ message'.hops = message.hops /\ message'.visitor = message.visitor
      /\ message'.at = "node"
  BY <1>1, <1>2 DEF Messages
<1>5. ForwardTypeOK'
  BY <1>2, <1>3 DEF ForwardInv, ForwardTypeOK
<1>6. HeaderRight'
  BY <1>4 DEF ForwardInv, HeaderRight
<1>7. KnownRight' /\ ToldRight'
  BY <1>1, <1>2, <1>4 DEF KnownRight, ToldRight
<1> QED BY <1>5, <1>6, <1>7 DEF ForwardInv

LEMMA GuardRight ==
  ASSUME ForwardInv, NEW deceived \in BOOLEAN, GuardRequest(deceived)
  PROVE  ForwardInv'
<1>1. /\ message \in Messages /\ known \in [ip : Addresses \cup {None}, deceived : BOOLEAN]
      /\ message.at = "node" /\ known.ip = None /\ UNCHANGED told
  BY DEF ForwardInv, ForwardTypeOK, GuardRequest
<1>2. CASE HostMatchesTLS(message.host, message.sni)
  <2>1. /\ known' = [known EXCEPT !.ip = ClientIP(message.peer, message.forwarded),
                                  !.deceived = deceived]
        /\ UNCHANGED message
    BY <1>2 DEF GuardRequest
  <2>2. /\ ClientIP(message.peer, message.forwarded) = Expected
        /\ Expected \in Addresses
    BY ClientFound DEF ForwardInv
  <2>3. known' \in [ip : Addresses \cup {None}, deceived : BOOLEAN] /\ known'.ip = Expected
    BY <1>1, <2>1, <2>2
  <2>4. ForwardTypeOK'
    BY <1>1, <2>1, <2>3 DEF ForwardInv, ForwardTypeOK
  <2>5. HeaderRight'
    BY <2>1 DEF ForwardInv, HeaderRight
  <2>6. KnownRight' /\ ToldRight'
    BY <1>1, <2>1, <2>3 DEF KnownRight, ToldRight, Expected
  <2> QED BY <2>4, <2>5, <2>6 DEF ForwardInv
<1>3. CASE ~ HostMatchesTLS(message.host, message.sni)
  <2>1. message' = [message EXCEPT !.at = "refused"] /\ UNCHANGED known
    BY <1>3 DEF GuardRequest
  <2>2. message' \in Messages
    BY <1>1, <2>1 DEF Messages
  <2>3. /\ message'.forwarded = message.forwarded /\ message'.peer = message.peer
        /\ message'.hops = message.hops /\ message'.visitor = message.visitor
        /\ message'.at = "refused"
    BY <1>1, <2>1 DEF Messages
  <2>4. ForwardTypeOK'
    BY <1>1, <2>1, <2>2 DEF ForwardInv, ForwardTypeOK
  <2>5. HeaderRight' /\ KnownRight' /\ ToldRight'
    BY <1>1, <2>1, <2>3 DEF ForwardInv, HeaderRight, KnownRight, ToldRight
  <2> QED BY <2>4, <2>5 DEF ForwardInv
<1> QED BY <1>2, <1>3

LEMMA RewriteRight ==
  ASSUME ForwardInv, NEW claims \in BOOLEAN, NEW unlike \in BOOLEAN, RewriteRequest(claims, unlike)
  PROVE  ForwardInv'
<1> DEFINE mismatch == UAMismatch(claims, JA4FromContext(message.connection), unlike)
           own == OwnHeaders(mismatch)
           unstripped == Unstripped(message.forged) \ DOMAIN own
<1>1. /\ message \in Messages /\ message.at = "node" /\ known.ip # None /\ UNCHANGED known
      /\ message' = [message EXCEPT !.at = "origin"]
  BY DEF ForwardInv, ForwardTypeOK, RewriteRequest
<1>2. /\ DOMAIN own \subseteq Headers /\ Identity \subseteq DOMAIN own
      /\ \A h \in Identity : own[h] = known.ip
      /\ \A h \in DOMAIN own : own[h] # "forged"
  <2>1. mismatch \in BOOLEAN
    BY DEF UAMismatch
  <2> QED BY <1>1, <2>1, OwnHeadersRight DEF ForwardInv
<1>3. unstripped = {}
  BY <1>1 DEF Messages, Unstripped
<1>4. told' = [h \in DOMAIN own |-> own[h]]
  <2>1. told' = [h \in DOMAIN own \cup unstripped |->
                        IF h \in DOMAIN own THEN own[h] ELSE "forged"]
    BY DEF RewriteRequest
  <2> HIDE DEF own, unstripped
  <2> QED BY <1>3, <2>1
<1>5. message' \in Messages
  BY <1>1 DEF Messages
<1>6. /\ message'.forwarded = message.forwarded /\ message'.peer = message.peer
      /\ message'.hops = message.hops /\ message'.visitor = message.visitor
      /\ message'.at = "origin"
  BY <1>1 DEF Messages
<1> HIDE DEF own, unstripped, mismatch
<1>7. ForwardTypeOK'
  BY <1>1, <1>2, <1>4, <1>5 DEF ForwardInv, ForwardTypeOK
<1>8. HeaderRight' /\ KnownRight'
  BY <1>1, <1>6 DEF ForwardInv, HeaderRight, KnownRight, Expected
<1>9. ToldRight'
  BY <1>1, <1>2, <1>4 DEF ToldRight
<1> QED BY <1>7, <1>8, <1>9 DEF ForwardInv

\* The invariant: the header ends with the visitor's address and those of
\* trusted proxies, so the node finds the visitor's, and nothing forged is
\* left in what it passes on.
THEOREM ForwardInvariant == ForwardSpec => []ForwardInv
<1>1. ForwardInit => ForwardInv
  BY ForwardInitRight
<1>2. ForwardInv /\ [ForwardNext]_forwardVars => ForwardInv'
  <2> SUFFICES ASSUME ForwardInv, [ForwardNext]_forwardVars PROVE ForwardInv'
    OBVIOUS
  <2>1. CASE \E p \in Trusted, anew \in BOOLEAN : PassProxy(p, anew)
    BY <2>1, PassRight
  <2>2. CASE \E connection \in Connections, sni \in Hosts \cup {Malformed, None} :
                ArriveOver(connection, sni)
    BY <2>2, ArriveRight
  <2>3. CASE \E deceived \in BOOLEAN : GuardRequest(deceived)
    BY <2>3, GuardRight
  <2>4. CASE \E claims, unlike \in BOOLEAN : RewriteRequest(claims, unlike)
    BY <2>4, RewriteRight
  <2>5. CASE UNCHANGED forwardVars
    BY <2>5 DEF forwardVars, ForwardInv, ForwardTypeOK, HeaderRight, KnownRight, ToldRight,
                Expected
  <2> QED BY <2>1, <2>2, <2>3, <2>4, <2>5 DEF ForwardNext, RequestDone
<1> QED BY <1>1, <1>2, PTL DEF ForwardSpec

\* Every variable keeps its type (ForwardTypeOK).
THEOREM ForwardTypeCorrect == ForwardSpec => []ForwardTypeOK
<1>1. ForwardInv => ForwardTypeOK
  BY DEF ForwardInv
<1> QED BY <1>1, ForwardInvariant, PTL

\* Through any number of trusted proxies, and whatever X-Forwarded-For began
\* with (ClientIPResolver.ClientIP), a visitor is known by its own address,
\* and the origin is told that and nothing it made up (Rewrite).
THEOREM OriginIsToldTheTruth == ForwardSpec => []NeverForged
<1>1. ForwardInv => NeverForged
  BY DEF ForwardInv, KnownRight, ToldRight, NeverForged, Expected, Identity
<1> QED BY <1>1, ForwardInvariant, PTL

-----------------------------------------------------------------------------
(* What a visitor has earned. *)

\* A cookie of a solve is no more than its solve deserves.
PassedRight(c) ==
    c # NoCookie /\ c.age <= TrustWindow[c.difficulty] => trust >= TrustWindow[c.difficulty] - c.age

\* A cookie of failures counts no more than there were, none long before.
AttemptRight(c) ==
    c # NoCookie /\ c.age <= AttemptLife => streak.n >= c.n /\ streak.age <= c.age + MaxSkew

CookiesRight ==
    /\ PassedRight(jar.passed) /\ AttemptRight(jar.attempt)
    /\ \A t \in Tabs : /\ tab[t] \in Solved => PassedRight(tab[t].cookie)
                       /\ tab[t] \in Failed => AttemptRight(tab[t].cookie)

VisitsInv == VisitsTypeOK /\ CookiesRight

-----------------------------------------------------------------------------

(* Numbers and records. *)

LEMMA Numbers ==
  /\ MaxSkew \in Nat /\ AttemptLife \in Nat /\ TokenLife \in Nat /\ MaxAttempts \in Nat \ {0}
  /\ \A d \in Difficulties : TrustWindow[d] \in Nat /\ TrustWindow[d] <= Longest
  /\ Longest \in Nat
  /\ \A i \in Servers : Ahead[i] \in 0 .. MaxSkew
  /\ Oldest \in Nat
  /\ \A i \in Servers : Stamp(i) \in Ages /\ Stamp(i) = - Ahead[i]
<1> USE VisitsAssumption DEF Longest, MinDifficulty, MaxDifficulty, Difficulties
<1>1. /\ MaxSkew \in Nat /\ AttemptLife \in Nat /\ TokenLife \in Nat /\ MaxAttempts \in Nat \ {0}
      /\ \A i \in Servers : Ahead[i] \in 0 .. MaxSkew
  OBVIOUS
<1>2. /\ \A d \in Difficulties : TrustWindow[d] \in Nat /\ TrustWindow[d] <= Longest
      /\ Longest \in Nat
  OBVIOUS
<1>3. Oldest \in Nat
  BY <1>1, <1>2 DEF Oldest
<1>4. \A i \in Servers : Stamp(i) \in Ages /\ Stamp(i) = - Ahead[i]
  BY <1>1, <1>3 DEF Stamp, Ages
<1> QED BY <1>1, <1>2, <1>3, <1>4

LEMMA Apart ==
  /\ \A c \in AttemptCookie \cup PassedCookie \cup Token : c # NoCookie /\ c.age \in Ages /\ c.age \in Int
  /\ \A d \in Solving \cup Solved \cup Failed : d # NoTab
<1>1. Ages \subseteq Int
  BY Numbers DEF Ages
<1>2. ASSUME NEW c \in AttemptCookie PROVE c # NoCookie /\ c.age \in Ages
  <2>1. DOMAIN c = {"n", "age"} /\ DOMAIN NoCookie = {"age"}
    BY DEF AttemptCookie, NoCookie
  <2> QED BY <2>1 DEF AttemptCookie
<1>3. ASSUME NEW c \in PassedCookie \cup Token PROVE c # NoCookie /\ c.age \in Ages
  <2>1. DOMAIN c = {"difficulty", "age"} /\ DOMAIN NoCookie = {"age"}
    BY DEF PassedCookie, Token, NoCookie
  <2> QED BY <2>1 DEF PassedCookie, Token
<1>4. \A d \in Solving \cup Solved \cup Failed : d # NoTab
  BY DEF Solving, Solved, Failed, NoTab
<1> QED BY <1>1, <1>2, <1>3, <1>4

\* A cookie grows older by a tick, unless it is past its life already.
LEMMA ElderAttempt ==
  ASSUME NEW c \in AttemptCookie
  PROVE  LET e == Elder(c, AttemptLife)
         IN  e \in AttemptCookie /\ e.n = c.n
             /\ e.age = IF c.age > AttemptLife THEN c.age ELSE c.age + 1
<1>1. c # NoCookie /\ c.age \in Ages /\ c.age \in Int
  BY Apart
<1>2. Elder(c, AttemptLife) = [c EXCEPT !.age = IF @ > AttemptLife THEN @ ELSE @ + 1]
  BY <1>1 DEF Elder
<1>3. (IF c.age > AttemptLife THEN c.age ELSE c.age + 1) \in Ages
  BY <1>1, Numbers DEF Ages, Oldest, Longest
<1> QED BY <1>2, <1>3 DEF AttemptCookie

LEMMA ElderPassed ==
  ASSUME NEW c \in PassedCookie
  PROVE  LET e == Elder(c, Longest)
         IN  e \in PassedCookie /\ e.difficulty = c.difficulty
             /\ e.age = IF c.age > Longest THEN c.age ELSE c.age + 1
<1>1. c # NoCookie /\ c.age \in Ages /\ c.age \in Int
  BY Apart
<1>2. Elder(c, Longest) = [c EXCEPT !.age = IF @ > Longest THEN @ ELSE @ + 1]
  BY <1>1 DEF Elder
<1>3. (IF c.age > Longest THEN c.age ELSE c.age + 1) \in Ages
  BY <1>1, Numbers DEF Ages, Oldest, Longest
<1> QED BY <1>2, <1>3 DEF PassedCookie

LEMMA ElderToken ==
  ASSUME NEW c \in Token PROVE Elder(c, TokenLife) \in Token
<1>1. c # NoCookie /\ c.age \in Ages /\ c.age \in Int
  BY Apart
<1>2. Elder(c, TokenLife) = [c EXCEPT !.age = IF @ > TokenLife THEN @ ELSE @ + 1]
  BY <1>1 DEF Elder
<1>3. (IF c.age > TokenLife THEN c.age ELSE c.age + 1) \in Ages
  BY <1>1, Numbers DEF Ages, Oldest, Longest
<1> QED BY <1>2, <1>3 DEF Token

LEMMA RecordedRight ==
  ASSUME VisitsTypeOK, NEW i \in Servers
  PROVE  LET c == RecordAttempt(jar.attempt, i)
         IN  /\ c \in AttemptCookie /\ c.age = - Ahead[i]
             /\ AttemptRight(jar.attempt) =>
                    c.n <= (IF streak.n < MaxAttempts THEN streak.n + 1 ELSE MaxAttempts)
<1> DEFINE k == Attempts(jar.attempt, i)
<1>1. jar.attempt \in AttemptCookie \cup {NoCookie} /\ streak.n \in 0 .. MaxAttempts
  BY DEF VisitsTypeOK
<1>2. k \in 0 .. MaxAttempts /\ (AttemptRight(jar.attempt) => k <= streak.n)
  <2>1. CASE jar.attempt = NoCookie
    BY <1>1, <2>1, Numbers DEF Attempts
  <2>2. CASE jar.attempt \in AttemptCookie
    BY <1>1, <2>2, Numbers, Apart DEF Attempts, AttemptRight, AttemptCookie, AgeSeen
  <2> QED BY <1>1, <2>1, <2>2
<1>3. (IF k < MaxAttempts THEN k + 1 ELSE MaxAttempts) \in 1 .. MaxAttempts
  BY <1>2, Numbers
<1>4. /\ AttemptRight(jar.attempt) =>
            (IF k < MaxAttempts THEN k + 1 ELSE MaxAttempts)
              <= (IF streak.n < MaxAttempts THEN streak.n + 1 ELSE MaxAttempts)
  BY <1>1, <1>2, Numbers
<1> HIDE DEF k
<1>5. RecordAttempt(jar.attempt, i) =
        [n |-> IF k < MaxAttempts THEN k + 1 ELSE MaxAttempts, age |-> Stamp(i)]
  BY DEF RecordAttempt, k
<1> QED BY <1>3, <1>4, <1>5, Numbers DEF AttemptCookie

LEMMA DifficultyType ==
  ASSUME NEW score \in Scores, NEW k \in Nat PROVE DifficultyFor(score, k) \in Difficulties
<1>1. DifficultyForScore(score) \in Difficulties
  BY VisitsAssumption DEF DifficultyForScore, Difficulties, MinDifficulty, MaxDifficulty
<1>2. k \div AttemptsPerStep \in Nat
  BY DEF AttemptsPerStep
<1> QED BY <1>1, <1>2 DEF DifficultyFor, Difficulties, MinDifficulty, MaxDifficulty
LEMMA VisitsInitRight == VisitsInit => VisitsInv
<1> SUFFICES ASSUME VisitsInit PROVE VisitsInv
  OBVIOUS
<1>1. /\ jar = [attempt |-> NoCookie, passed |-> NoCookie] /\ trust = -1
      /\ tab = [t \in Tabs |-> NoTab] /\ streak = [n |-> 0, age |-> 0] /\ browser \in Browsers
  BY DEF VisitsInit
<1>2. -1 \in -1 .. TrustWindow[MinDifficulty] + MaxSkew
  BY Numbers DEF Longest
<1>3. VisitsTypeOK
  BY <1>1, <1>2, Numbers DEF VisitsTypeOK
<1>4. PassedRight(jar.passed) /\ AttemptRight(jar.attempt)
  BY <1>1 DEF PassedRight, AttemptRight
<1>5. \A t \in Tabs : tab[t] = NoTab
  BY <1>1
<1> QED BY <1>3, <1>4, <1>5, Apart DEF VisitsInv, CookiesRight

\* What a step that leaves the cookies, the trust and the streak alone does
\* to one tab at most.
LEMMA TabRight ==
  ASSUME VisitsInv, UNCHANGED <<browser, jar, trust, streak>>,
         NEW t \in Tabs, NEW does \in {NoTab} \cup Solving, TabDoes(t, does)
  PROVE  VisitsInv'
<1>1. /\ VisitsTypeOK /\ CookiesRight /\ tab \in [Tabs -> {NoTab} \cup Solving \cup Solved \cup Failed]
  BY DEF VisitsInv, VisitsTypeOK
<1>2. tab' = [tab EXCEPT ![t] = does]
  BY DEF TabDoes
<1>3. tab' \in [Tabs -> {NoTab} \cup Solving \cup Solved \cup Failed]
  BY <1>1, <1>2
<1>4. VisitsTypeOK'
  BY <1>1, <1>3 DEF VisitsTypeOK, Reports
<1>5. does \notin Solved /\ does \notin Failed
  BY DEF NoTab, Solving, Solved, Failed
<1>6. \A u \in Tabs : tab'[u] \in Solved \cup Failed => tab'[u] = tab[u]
  BY <1>1, <1>2, <1>5
<1>7. CookiesRight'
  BY <1>1, <1>6 DEF CookiesRight, PassedRight, AttemptRight
<1> QED BY <1>4, <1>7 DEF VisitsInv

LEMMA AskRight ==
  ASSUME VisitsInv, NEW t \in Tabs, NEW i \in Servers, NEW score \in Scores, AskForPage(t, i, score)
  PROVE  VisitsInv'
<1> DEFINE d == DifficultyFor(score, Attempts(jar.attempt, i))
<1>1. Attempts(jar.attempt, i) \in Nat
  <2>1. jar.attempt \in AttemptCookie \cup {NoCookie}
    BY DEF VisitsInv, VisitsTypeOK
  <2> QED BY <2>1, Numbers DEF Attempts, AttemptCookie
<1>2. d \in Difficulties
  BY <1>1, DifficultyType
<1> HIDE DEF d
<1>3. [step |-> "solving", token |-> [difficulty |-> d, age |-> Stamp(i)]] \in Solving
  BY <1>2, Numbers DEF Solving, Token
<1>4. /\ TabDoes(t, [step |-> "solving", token |-> [difficulty |-> d, age |-> Stamp(i)]])
      /\ UNCHANGED <<browser, jar, trust, streak>>
  BY DEF AskForPage, d
<1> QED BY <1>3, <1>4, TabRight

LEMMA LoseRight ==
  ASSUME VisitsInv, NEW t \in Tabs, LoseAnswer(t) PROVE VisitsInv'
  BY TabRight DEF LoseAnswer

LEMMA DropRight ==
  ASSUME VisitsInv, NEW which \in {"attempt", "passed"}, DropCookie(which) PROVE VisitsInv'
<1>1. /\ VisitsTypeOK /\ CookiesRight /\ UNCHANGED <<browser, tab, trust, streak>>
      /\ jar' = [jar EXCEPT ![which] = NoCookie]
      /\ jar \in [attempt : AttemptCookie \cup {NoCookie}, passed : PassedCookie \cup {NoCookie}]
  BY DEF VisitsInv, VisitsTypeOK, DropCookie
<1>2. /\ jar' \in [attempt : AttemptCookie \cup {NoCookie}, passed : PassedCookie \cup {NoCookie}]
      /\ jar'.attempt \in {jar.attempt, NoCookie} /\ jar'.passed \in {jar.passed, NoCookie}
  BY <1>1
<1>3. VisitsTypeOK'
  BY <1>1, <1>2 DEF VisitsTypeOK
<1>4. PassedRight(jar.passed)' /\ AttemptRight(jar.attempt)'
  BY <1>1, <1>2 DEF CookiesRight, PassedRight, AttemptRight
<1>5. CookiesRight'
  BY <1>1, <1>4 DEF CookiesRight, PassedRight, AttemptRight
<1> QED BY <1>3, <1>5 DEF VisitsInv

LEMMA ReceiveRight ==
  ASSUME VisitsInv, NEW t \in Tabs, ReceiveAnswer(t) PROVE VisitsInv'
<1>1. /\ VisitsTypeOK /\ CookiesRight /\ UNCHANGED <<browser, trust, streak>>
      /\ tab \in [Tabs -> {NoTab} \cup Solving \cup Solved \cup Failed]
      /\ jar \in [attempt : AttemptCookie \cup {NoCookie}, passed : PassedCookie \cup {NoCookie}]
      /\ tab' = [tab EXCEPT ![t] = NoTab]
  BY DEF VisitsInv, VisitsTypeOK, ReceiveAnswer, TabDoes
<1>2. /\ jar' \in [attempt : AttemptCookie \cup {NoCookie}, passed : PassedCookie \cup {NoCookie}]
      /\ PassedRight(jar'.passed) /\ AttemptRight(jar'.attempt)
  <2>1. CASE TabAt(t, "solved") /\ jar' = [attempt |-> NoCookie, passed |-> tab[t].cookie]
    <3>1. tab[t] \in Solved
      BY <1>1, <2>1 DEF TabAt, NoTab, Solving, Solved, Failed
    <3>2. tab[t].cookie \in PassedCookie
      BY <3>1 DEF Solved
    <3> QED BY <1>1, <2>1, <3>1, <3>2 DEF CookiesRight, AttemptRight
  <2>2. CASE TabAt(t, "failed") /\ jar' = [attempt |-> tab[t].cookie, passed |-> jar.passed]
    <3>1. tab[t] \in Failed
      BY <1>1, <2>2 DEF TabAt, NoTab, Solving, Solved, Failed
    <3>2. tab[t].cookie \in AttemptCookie
      BY <3>1 DEF Failed
    <3> QED BY <1>1, <2>2, <3>1, <3>2 DEF CookiesRight
  <2> QED BY <2>1, <2>2 DEF ReceiveAnswer
<1>3. VisitsTypeOK'
  BY <1>1, <1>2 DEF VisitsTypeOK
<1>4. \A u \in Tabs : tab'[u] \in Solved \cup Failed => tab'[u] = tab[u]
  BY <1>1, Apart
<1>5. CookiesRight'
  BY <1>1, <1>2, <1>4 DEF CookiesRight, PassedRight, AttemptRight
<1> QED BY <1>3, <1>5 DEF VisitsInv
\* Trust and streak may grow: what was right stays right.
LEMMA MoreIsRight ==
  ASSUME VisitsTypeOK, trust' \in Int, trust' >= trust, streak'.n \in Int, streak'.n >= streak.n,
         streak'.age \in Int, streak'.age = 0 \/ streak'.age <= streak.age
  PROVE  /\ \A c \in PassedCookie \cup {NoCookie} :
                PassedRight(c) => (c # NoCookie /\ c.age <= TrustWindow[c.difficulty] =>
                                      trust' >= TrustWindow[c.difficulty] - c.age)
         /\ \A c \in AttemptCookie \cup {NoCookie} :
                AttemptRight(c) => (c # NoCookie /\ c.age <= AttemptLife =>
                                      streak'.n >= c.n /\ streak'.age <= c.age + MaxSkew)
<1>1. /\ trust \in Int /\ streak.n \in Int /\ streak.age \in Int
  BY Numbers DEF VisitsTypeOK
<1>2. ASSUME NEW c \in PassedCookie, PassedRight(c), c.age <= TrustWindow[c.difficulty]
      PROVE  trust' >= TrustWindow[c.difficulty] - c.age
  <2>1. c.age \in Int /\ c # NoCookie
    BY Apart
  <2>2. c.difficulty \in Difficulties
    BY DEF PassedCookie
  <2>3. TrustWindow[c.difficulty] \in Nat
    BY <2>2, Numbers
  <2> QED BY <1>1, <1>2, <2>1, <2>3 DEF PassedRight
<1>3. ASSUME NEW c \in AttemptCookie, AttemptRight(c), c.age <= AttemptLife
      PROVE  streak'.n >= c.n /\ streak'.age <= c.age + MaxSkew
  <2>1. c.age \in Ages /\ c.age \in Int /\ c # NoCookie
    BY Apart
  <2>2. c.n \in Int /\ MaxSkew \in Nat /\ c.age >= - MaxSkew
    BY <2>1, Numbers DEF AttemptCookie, Ages
  <2> QED BY <1>1, <1>3, <2>1, <2>2 DEF AttemptRight
<1> QED BY <1>2, <1>3

LEMMA VerifyRight ==
  ASSUME VisitsInv, NEW t \in Tabs, NEW i \in Servers, NEW report, NEW consumed,
         VerifyAnswer(t, i, report, consumed)
  PROVE  VisitsInv'
<1> DEFINE outcome == OutcomeAt(t, i, report, consumed)
           difficulty == tab[t].token.difficulty
           passed == SetPassedCookie(difficulty, i)
           failed == RecordAttempt(jar.attempt, i)
           does == IF outcome = "solved" THEN [step |-> "solved", cookie |-> passed]
                   ELSE IF outcome = "failed" THEN [step |-> "failed", cookie |-> failed]
                   ELSE NoTab
<1>1. /\ VisitsTypeOK /\ CookiesRight /\ UNCHANGED <<browser, jar>>
      /\ tab \in [Tabs -> {NoTab} \cup Solving \cup Solved \cup Failed]
      /\ jar \in [attempt : AttemptCookie \cup {NoCookie}, passed : PassedCookie \cup {NoCookie}]
      /\ trust \in -1 .. Longest + MaxSkew
      /\ streak \in [n : 0 .. MaxAttempts, age : 0 .. AttemptLife + MaxSkew]
  BY DEF VisitsInv, VisitsTypeOK, VerifyAnswer, Longest
<1>2. tab[t] \in Solving
  BY <1>1 DEF VerifyAnswer, TabAt, NoTab, Solving, Solved, Failed
<1>3. difficulty \in Difficulties
  BY <1>2 DEF Solving, Token
<1>4. /\ tab' = [tab EXCEPT ![t] = does]
      /\ trust' = IF outcome = "solved" /\ trust < Lasting(difficulty)
                  THEN Lasting(difficulty) ELSE trust
      /\ streak' = IF outcome # "failed" THEN streak
                   ELSE [n |-> IF streak.n < MaxAttempts THEN streak.n + 1 ELSE MaxAttempts,
                         age |-> 0]
  BY DEF VerifyAnswer, TabDoes
<1> HIDE DEF outcome, difficulty
<1>5. passed \in PassedCookie /\ passed.age = - Ahead[i] /\ passed.difficulty = difficulty
  BY <1>3, Numbers DEF SetPassedCookie, PassedCookie
<1>6. /\ failed \in AttemptCookie /\ failed.age = - Ahead[i]
      /\ failed.n <= (IF streak.n < MaxAttempts THEN streak.n + 1 ELSE MaxAttempts)
  BY <1>1, RecordedRight DEF CookiesRight
<1> HIDE DEF passed, failed
<1>7. Lasting(difficulty) \in 0 .. Longest + MaxSkew /\ Lasting(difficulty) = TrustWindow[difficulty] + MaxSkew
  BY <1>3, Numbers DEF Lasting
<1>8. trust' \in -1 .. Longest + MaxSkew /\ trust' >= trust
      /\ (outcome = "solved" => trust' >= Lasting(difficulty))
  BY <1>1, <1>4, <1>7, Numbers
<1>9. /\ streak' \in [n : 0 .. MaxAttempts, age : 0 .. AttemptLife + MaxSkew]
      /\ streak'.n >= streak.n /\ (streak'.age = 0 \/ streak'.age <= streak.age)
      /\ outcome = "failed" => streak'.n >= failed.n /\ streak'.age = 0
  <2>1. CASE outcome # "failed"
    BY <1>1, <1>4, <2>1, Numbers
  <2>2. CASE outcome = "failed"
    <3>1. streak.n \in 0 .. MaxAttempts /\ failed.n \in Int
      BY <1>1, <1>6 DEF AttemptCookie
    <3> QED BY <1>4, <1>6, <2>2, <3>1, Numbers
  <2> QED BY <2>1, <2>2
<1>10. does \in {NoTab} \cup Solved \cup Failed
  BY <1>5, <1>6 DEF Solved, Failed
<1>11. VisitsTypeOK'
  <2>1. tab' \in [Tabs -> {NoTab} \cup Solving \cup Solved \cup Failed]
    <3> HIDE DEF does
    <3> QED BY <1>1, <1>4, <1>10
  <2> QED BY <1>1, <1>8, <1>9, <2>1 DEF VisitsTypeOK, Longest
<1>12. /\ \A c \in PassedCookie \cup {NoCookie} : PassedRight(c) =>
                (c # NoCookie /\ c.age <= TrustWindow[c.difficulty] =>
                    trust' >= TrustWindow[c.difficulty] - c.age)
       /\ \A c \in AttemptCookie \cup {NoCookie} : AttemptRight(c) =>
                (c # NoCookie /\ c.age <= AttemptLife =>
                    streak'.n >= c.n /\ streak'.age <= c.age + MaxSkew)
  BY <1>1, <1>8, <1>9, Numbers, MoreIsRight
<1>13. PassedRight(jar.passed)' /\ AttemptRight(jar.attempt)'
  <2>1. /\ jar.passed \in PassedCookie \cup {NoCookie} /\ jar.attempt \in AttemptCookie \cup {NoCookie}
        /\ PassedRight(jar.passed) /\ AttemptRight(jar.attempt) /\ jar' = jar
    BY <1>1 DEF CookiesRight
  <2> QED BY <1>12, <2>1 DEF PassedRight, AttemptRight
<1>14. ASSUME NEW u \in Tabs, u # t
       PROVE  /\ tab'[u] \in Solved => PassedRight(tab[u].cookie)'
              /\ tab'[u] \in Failed => AttemptRight(tab[u].cookie)'
  <2>1. tab'[u] = tab[u]
    BY <1>1, <1>4, <1>14
  <2>2. /\ tab[u] \in Solved => tab[u].cookie \in PassedCookie /\ PassedRight(tab[u].cookie)
        /\ tab[u] \in Failed => tab[u].cookie \in AttemptCookie /\ AttemptRight(tab[u].cookie)
    BY <1>1 DEF CookiesRight, Solved, Failed
  <2> QED BY <1>12, <2>1, <2>2 DEF PassedRight, AttemptRight
<1>15. /\ tab'[t] \in Solved => PassedRight(tab[t].cookie)'
       /\ tab'[t] \in Failed => AttemptRight(tab[t].cookie)'
  <2>1. tab'[t] = does
    BY <1>1, <1>4
  <2>2. Ahead[i] \in 0 .. MaxSkew /\ MaxSkew \in Nat
    BY Numbers
  <2>3. CASE outcome = "solved"
    <3>1. tab'[t].cookie = passed /\ tab'[t] \notin Failed
      BY <2>1, <2>3 DEF Failed
    <3>2. trust' >= TrustWindow[difficulty] - passed.age
      <4>1. TrustWindow[difficulty] \in Nat /\ trust' \in Int
        BY <1>3, <1>8, Numbers
      <4> QED BY <1>5, <1>7, <1>8, <2>2, <2>3, <4>1
    <3> QED BY <1>5, <3>1, <3>2 DEF PassedRight
  <2>4. CASE outcome = "failed"
    <3>1. tab'[t].cookie = failed /\ tab'[t] \notin Solved
      BY <2>1, <2>4 DEF Solved
    <3>2. streak'.n >= failed.n /\ streak'.age <= failed.age + MaxSkew
      BY <1>6, <1>9, <2>2, <2>4
    <3> QED BY <3>1, <3>2 DEF AttemptRight
  <2>5. CASE outcome # "solved" /\ outcome # "failed"
    BY <2>1, <2>5, Apart
  <2> QED BY <2>3, <2>4, <2>5
<1>16. CookiesRight'
  BY <1>13, <1>14, <1>15 DEF CookiesRight
<1> QED BY <1>11, <1>16 DEF VisitsInv
LEMMA TabTicks ==
  ASSUME NEW d \in {NoTab} \cup Solving \cup Solved \cup Failed
  PROVE  /\ TabTick(d) \in {NoTab} \cup Solving \cup Solved \cup Failed
         /\ TabTick(d) \in Solved => d \in Solved /\ TabTick(d).cookie = Elder(d.cookie, Longest)
         /\ TabTick(d) \in Failed => d \in Failed /\ TabTick(d).cookie = Elder(d.cookie, AttemptLife)
<1>1. CASE d = NoTab
  BY <1>1, Apart DEF TabTick, NoTab
<1>2. CASE d \in Solving
  <2>1. TabTick(d) = [d EXCEPT !.token = Elder(d.token, TokenLife)]
    BY <1>2 DEF TabTick, Solving
  <2>2. Elder(d.token, TokenLife) \in Token
    BY <1>2, ElderToken DEF Solving
  <2>3. TabTick(d) \in Solving
    BY <1>2, <2>1, <2>2 DEF Solving
  <2> QED BY <2>3 DEF Solving, Solved, Failed
<1>3. CASE d \in Solved
  <2>1. TabTick(d) = [d EXCEPT !.cookie = Elder(d.cookie, Longest)]
    BY <1>3 DEF TabTick, Solved
  <2>2. Elder(d.cookie, Longest) \in PassedCookie
    BY <1>3, ElderPassed DEF Solved
  <2>3. TabTick(d) \in Solved /\ TabTick(d).cookie = Elder(d.cookie, Longest)
    BY <1>3, <2>1, <2>2 DEF Solved
  <2> QED BY <1>3, <2>3 DEF Solved, Failed
<1>4. CASE d \in Failed
  <2>1. TabTick(d) = [d EXCEPT !.cookie = Elder(d.cookie, AttemptLife)]
    BY <1>4 DEF TabTick, Failed
  <2>2. Elder(d.cookie, AttemptLife) \in AttemptCookie
    BY <1>4, ElderAttempt DEF Failed
  <2>3. TabTick(d) \in Failed /\ TabTick(d).cookie = Elder(d.cookie, AttemptLife)
    BY <1>4, <2>1, <2>2 DEF Failed
  <2> QED BY <1>4, <2>3 DEF Solved, Failed
<1> QED BY <1>1, <1>2, <1>3, <1>4

\* A tick takes as much from the trust as it adds to a cookie's age.
LEMMA PassedTicks ==
  ASSUME VisitsTypeOK, VisitsTick, NEW c \in PassedCookie, PassedRight(c)
  PROVE  LET e == Elder(c, Longest)
         IN  e.age <= TrustWindow[e.difficulty] => trust' >= TrustWindow[e.difficulty] - e.age
<1> DEFINE e == Elder(c, Longest)
<1>1. /\ e.difficulty = c.difficulty
      /\ e.age = IF c.age > Longest THEN c.age ELSE c.age + 1
      /\ c.age \in Int /\ c # NoCookie /\ c.difficulty \in Difficulties
  BY ElderPassed, Apart DEF PassedCookie
<1>2. TrustWindow[c.difficulty] \in Nat /\ TrustWindow[c.difficulty] <= Longest /\ Longest \in Nat
  BY <1>1, Numbers
<1>3. trust \in Int /\ trust' = IF trust >= 0 THEN trust - 1 ELSE trust
  BY Numbers DEF VisitsTypeOK, VisitsTick
<1> HIDE DEF e
<1>4. ASSUME e.age <= TrustWindow[e.difficulty]
      PROVE  trust' >= TrustWindow[e.difficulty] - e.age
  <2>1. e.age = c.age + 1 /\ c.age <= TrustWindow[c.difficulty]
    BY <1>1, <1>2, <1>4
  <2>2. trust >= TrustWindow[c.difficulty] - c.age
    BY <1>1, <2>1 DEF PassedRight
  <2> QED BY <1>1, <1>2, <1>3, <1>4, <2>1, <2>2
<1> QED BY <1>4 DEF e

LEMMA AttemptTicks ==
  ASSUME VisitsTypeOK, VisitsTick, NEW c \in AttemptCookie, AttemptRight(c)
  PROVE  LET e == Elder(c, AttemptLife)
         IN  e.age <= AttemptLife => streak'.n >= e.n /\ streak'.age <= e.age + MaxSkew
<1> DEFINE e == Elder(c, AttemptLife)
<1>1. /\ e.n = c.n /\ c.n \in 1 .. MaxAttempts
      /\ e.age = IF c.age > AttemptLife THEN c.age ELSE c.age + 1
      /\ c.age \in Int /\ c # NoCookie
  BY ElderAttempt, Apart DEF AttemptCookie
<1>2. /\ streak \in [n : 0 .. MaxAttempts, age : 0 .. AttemptLife + MaxSkew]
      /\ streak' = IF streak.age = AttemptLife + MaxSkew \/ streak.n = 0
                   THEN [n |-> 0, age |-> 0]
                   ELSE [streak EXCEPT !.age = @ + 1]
  BY DEF VisitsTypeOK, VisitsTick
<1> HIDE DEF e
<1>3. ASSUME e.age <= AttemptLife
      PROVE  streak'.n >= e.n /\ streak'.age <= e.age + MaxSkew
  <2>1. e.age = c.age + 1 /\ c.age < AttemptLife
    BY <1>1, <1>3, Numbers
  <2>2. streak.n >= c.n /\ streak.age <= c.age + MaxSkew
    BY <1>1, <2>1, Numbers DEF AttemptRight
  <2>3. streak.age # AttemptLife + MaxSkew /\ streak.n # 0
    BY <1>1, <1>2, <2>1, <2>2, Numbers
  <2>4. streak'.n = streak.n /\ streak'.age = streak.age + 1
    BY <1>2, <2>3
  <2> QED BY <1>1, <1>2, <2>1, <2>2, <2>4, Numbers
<1> QED BY <1>3 DEF e

LEMMA TickRight == ASSUME VisitsInv, VisitsTick PROVE VisitsInv'
<1>1. /\ VisitsTypeOK /\ CookiesRight /\ UNCHANGED browser
      /\ tab \in [Tabs -> {NoTab} \cup Solving \cup Solved \cup Failed]
      /\ jar \in [attempt : AttemptCookie \cup {NoCookie}, passed : PassedCookie \cup {NoCookie}]
      /\ jar' = [attempt |-> Elder(jar.attempt, AttemptLife), passed |-> Elder(jar.passed, Longest)]
      /\ tab' = [t \in Tabs |-> TabTick(tab[t])]
  BY DEF VisitsInv, VisitsTypeOK, VisitsTick
<1>2. \A life : Elder(NoCookie, life) = NoCookie
  BY DEF Elder
<1>3. jar' \in [attempt : AttemptCookie \cup {NoCookie}, passed : PassedCookie \cup {NoCookie}]
  BY <1>1, <1>2, ElderAttempt, ElderPassed
<1>4. tab' \in [Tabs -> {NoTab} \cup Solving \cup Solved \cup Failed]
  BY <1>1, TabTicks
<1>5. trust' \in -1 .. TrustWindow[MinDifficulty] + MaxSkew
  BY Numbers DEF VisitsInv, VisitsTypeOK, VisitsTick, Longest
<1>6. streak' \in [n : 0 .. MaxAttempts, age : 0 .. AttemptLife + MaxSkew]
  <2>1. streak \in [n : 0 .. MaxAttempts, age : 0 .. AttemptLife + MaxSkew]
    BY <1>1 DEF VisitsTypeOK
  <2>2. CASE streak.age = AttemptLife + MaxSkew \/ streak.n = 0
    BY <2>2, Numbers DEF VisitsTick
  <2>3. CASE ~ (streak.age = AttemptLife + MaxSkew \/ streak.n = 0)
    <3>1. streak' = [streak EXCEPT !.age = @ + 1]
      BY <2>3 DEF VisitsTick
    <3>2. streak.age + 1 \in 0 .. AttemptLife + MaxSkew
      BY <2>1, <2>3, Numbers
    <3> QED BY <2>1, <3>1, <3>2
  <2> QED BY <2>2, <2>3
<1>7. VisitsTypeOK'
  BY <1>1, <1>3, <1>4, <1>5, <1>6 DEF VisitsTypeOK
<1>8. PassedRight(jar.passed)'
  <2>1. CASE jar.passed = NoCookie
    BY <1>1, <1>2, <2>1 DEF PassedRight
  <2>2. CASE jar.passed \in PassedCookie
    BY <1>1, <2>2, PassedTicks DEF CookiesRight, PassedRight
  <2> QED BY <1>1, <2>1, <2>2
<1>9. AttemptRight(jar.attempt)'
  <2>1. CASE jar.attempt = NoCookie
    BY <1>1, <1>2, <2>1 DEF AttemptRight
  <2>2. CASE jar.attempt \in AttemptCookie
    BY <1>1, <2>2, AttemptTicks DEF CookiesRight, AttemptRight
  <2> QED BY <1>1, <2>1, <2>2
<1>10. ASSUME NEW t \in Tabs
       PROVE  /\ tab'[t] \in Solved => PassedRight(tab[t].cookie)'
              /\ tab'[t] \in Failed => AttemptRight(tab[t].cookie)'
  <2>1. tab'[t] = TabTick(tab[t]) /\ tab[t] \in {NoTab} \cup Solving \cup Solved \cup Failed
    BY <1>1
  <2>2. ASSUME tab'[t] \in Solved PROVE PassedRight(tab[t].cookie)'
    <3>1. tab[t] \in Solved /\ tab'[t].cookie = Elder(tab[t].cookie, Longest)
      BY <2>1, <2>2, TabTicks
    <3>2. tab[t].cookie \in PassedCookie /\ PassedRight(tab[t].cookie)
      BY <1>1, <3>1 DEF Solved, CookiesRight
    <3> QED BY <1>1, <3>1, <3>2, PassedTicks DEF PassedRight
  <2>3. ASSUME tab'[t] \in Failed PROVE AttemptRight(tab[t].cookie)'
    <3>1. tab[t] \in Failed /\ tab'[t].cookie = Elder(tab[t].cookie, AttemptLife)
      BY <2>1, <2>3, TabTicks
    <3>2. tab[t].cookie \in AttemptCookie /\ AttemptRight(tab[t].cookie)
      BY <1>1, <3>1 DEF Failed, CookiesRight
    <3> QED BY <1>1, <3>1, <3>2, AttemptTicks DEF AttemptRight
  <2> QED BY <2>2, <2>3
<1>11. CookiesRight'
  BY <1>8, <1>9, <1>10 DEF CookiesRight
<1> QED BY <1>7, <1>11 DEF VisitsInv

\* The invariant: a cookie, in the jar or on its way, is dated so that its
\* solve or its failures still count when it does.
THEOREM VisitsInvariant == VisitsSpec => []VisitsInv
<1>1. VisitsInit => VisitsInv
  BY VisitsInitRight
<1>2. VisitsInv /\ [VisitsNext]_visitsVars => VisitsInv'
  <2> SUFFICES ASSUME VisitsInv, [VisitsNext]_visitsVars PROVE VisitsInv'
    OBVIOUS
  <2>1. CASE \E t \in Tabs, i \in Servers, score \in Scores : AskForPage(t, i, score)
    BY <2>1, AskRight
  <2>2. CASE \E t \in Tabs, i \in Servers, report \in Reports, consumed \in BOOLEAN :
                VerifyAnswer(t, i, report, consumed)
    BY <2>2, VerifyRight
  <2>3. CASE \E t \in Tabs : ReceiveAnswer(t) \/ LoseAnswer(t)
    BY <2>3, ReceiveRight, LoseRight
  <2>4. CASE \E which \in {"attempt", "passed"} : DropCookie(which)
    BY <2>4, DropRight
  <2>5. CASE VisitsTick
    BY <2>5, TickRight
  <2>6. CASE UNCHANGED visitsVars
    BY <2>6 DEF visitsVars, VisitsInv, VisitsTypeOK, CookiesRight, PassedRight, AttemptRight
  <2> QED BY <2>1, <2>2, <2>3, <2>4, <2>5, <2>6 DEF VisitsNext
<1> QED BY <1>1, <1>2, PTL DEF VisitsSpec

\* Every variable keeps its type (VisitsTypeOK).
THEOREM VisitsTypeCorrect == VisitsSpec => []VisitsTypeOK
<1>1. VisitsInv => VisitsTypeOK
  BY DEF VisitsInv
<1> QED BY <1>1, VisitsInvariant, PTL

\* For any tabs, servers and clocks (Challenge.Passed): a browser is let
\* through only while a solve of its own deserves it.
THEOREM TrustEarned == VisitsSpec => []TrustIsEarned
<1>1. VisitsInv => TrustIsEarned
  <2> SUFFICES ASSUME VisitsInv, NEW i \in Servers, Passed(jar.passed, i) PROVE trust >= 0
    BY DEF TrustIsEarned
  <2>1. jar.passed \in PassedCookie /\ PassedRight(jar.passed) /\ trust \in Int
    BY Numbers DEF VisitsInv, VisitsTypeOK, CookiesRight, Passed
  <2>2. /\ jar.passed.age \in Int /\ jar.passed # NoCookie
        /\ TrustWindow[jar.passed.difficulty] \in Nat /\ Ahead[i] \in Nat
    BY <2>1, Numbers, Apart DEF PassedCookie
  <2>3. jar.passed.age + Ahead[i] <= TrustWindow[jar.passed.difficulty]
    BY <2>2 DEF Passed, AgeSeen
  <2> QED BY <2>1, <2>2, <2>3 DEF PassedRight
<1> QED BY <1>1, VisitsInvariant, PTL

\* For any tabs, servers and clocks (difficultyFor, Challenge.attempts): a
\* puzzle is harder than its score calls for only after as many failures.
THEOREM EscalationEarned == VisitsSpec => []EscalationIsEarned
<1>1. VisitsInv => EscalationIsEarned
  <2> SUFFICES ASSUME VisitsInv, NEW i \in Servers, NEW score \in Scores
               PROVE  DifficultyFor(score, Attempts(jar.attempt, i))
                        <= DifficultyForScore(score) + streak.n \div AttemptsPerStep
    BY DEF EscalationIsEarned
  <2> DEFINE k == Attempts(jar.attempt, i)
  <2>1. /\ jar.attempt \in AttemptCookie \cup {NoCookie} /\ AttemptRight(jar.attempt)
        /\ streak.n \in Nat
    BY Numbers DEF VisitsInv, VisitsTypeOK, CookiesRight
  <2>2. k \in Nat /\ k <= streak.n
    <3>1. CASE jar.attempt = NoCookie
      BY <2>1, <3>1 DEF Attempts
    <3>2. CASE jar.attempt \in AttemptCookie
      BY <2>1, <3>2, Numbers, Apart DEF Attempts, AttemptRight, AttemptCookie, AgeSeen
    <3> QED BY <2>1, <3>1, <3>2
  <2>3. DifficultyForScore(score) \in Int
    BY DEF DifficultyForScore, MinDifficulty, MaxDifficulty
  <2> HIDE DEF k
  <2>4. k \div AttemptsPerStep <= streak.n \div AttemptsPerStep
    BY <2>1, <2>2 DEF AttemptsPerStep
  <2>5. DifficultyFor(score, k) <= DifficultyForScore(score) + k \div AttemptsPerStep
    BY <2>2, <2>3 DEF DifficultyFor, AttemptsPerStep, MaxDifficulty
  <2>6. /\ k \div AttemptsPerStep \in Int /\ streak.n \div AttemptsPerStep \in Int
        /\ DifficultyFor(score, k) \in Int
    BY <2>1, <2>2, <2>3 DEF DifficultyFor, AttemptsPerStep, MaxDifficulty
  <2> QED BY <2>3, <2>4, <2>5, <2>6 DEF k
<1> QED BY <1>1, VisitsInvariant, PTL

-----------------------------------------------------------------------------
(* Which claims of being a search engine are believed. *)

\* A verdict on b that a lookup gave no longer than that ago.
SaidWithin(b, verified, age) ==
    IF verified THEN confirmed[b] <= age ELSE doubted[b] <= age

\* A verdict is as old as its entry has aged, and as its lookup took before
\* that; one still to be stored is as old as its request has paused.
CacheRight ==
    \A b \in Bots : botCache[b].left > 0 =>
        SaidWithin(b, botCache[b].verified, BotTTL - botCache[b].left + LookupTime)
StoresRight ==
    \A v \in Visitors : VisitorAt(v, "store") =>
        SaidWithin(visitor[v].bot, visitor[v].verified, visitor[v].pause)

BotsInv == BotsTypeOK /\ CacheRight /\ StoresRight

\* A bound on a finite set, with one element more or with fewer.
LEMMA BoundKept ==
  ASSUME NEW S, IsFiniteSet(S), NEW m \in Nat
  PROVE  /\ \A T \in SUBSET S : Cardinality(S) <= m => Cardinality(T) <= m
         /\ \A x : \A T \in SUBSET (S \cup {x}) :
              ~ (Cardinality(S) >= m) => Cardinality(T) <= m
<1>1. Cardinality(S) \in Nat
  BY FS_CardinalityType
<1>2. ASSUME NEW T \in SUBSET S PROVE Cardinality(S) <= m => Cardinality(T) <= m
  <2>1. IsFiniteSet(T) /\ Cardinality(T) <= Cardinality(S)
    BY FS_Subset
  <2>2. Cardinality(T) \in Nat
    BY <2>1, FS_CardinalityType
  <2> QED BY <1>1, <2>1, <2>2
<1>3. ASSUME NEW x, NEW T \in SUBSET (S \cup {x}), ~ (Cardinality(S) >= m)
      PROVE  Cardinality(T) <= m
  <2>1. /\ IsFiniteSet(S \cup {x})
        /\ Cardinality(S \cup {x}) \in {Cardinality(S), Cardinality(S) + 1}
    BY FS_AddElement
  <2>2. IsFiniteSet(T) /\ Cardinality(T) <= Cardinality(S \cup {x})
    BY <2>1, FS_Subset
  <2>3. Cardinality(T) \in Nat
    BY <2>2, FS_CardinalityType
  <2> QED BY <1>1, <1>3, <2>1, <2>2, <2>3
<1> QED BY <1>2, <1>3

\* One request moves; what the resolver says of a bot only renews its history.
LEMMA StoresKept ==
  ASSUME BotsInv, NEW v \in Visitors, NEW c \in Claim \cup {Arriving},
         visitor' = [visitor EXCEPT ![v] = c],
         confirmed' \in [Bots -> 0 .. LongAgo], doubted' \in [Bots -> 0 .. LongAgo],
         \A b \in Bots : confirmed'[b] <= confirmed[b] /\ doubted'[b] <= doubted[b],
         c.step = "store" =>
             IF c.verified THEN confirmed'[c.bot] <= c.pause ELSE doubted'[c.bot] <= c.pause
  PROVE  StoresRight' /\ visitor' \in [Visitors -> Claim \cup {Arriving}]
<1>1. /\ visitor \in [Visitors -> Claim \cup {Arriving}]
      /\ confirmed \in [Bots -> 0 .. LongAgo] /\ doubted \in [Bots -> 0 .. LongAgo]
  BY DEF BotsInv, BotsTypeOK
<1> SUFFICES ASSUME NEW u \in Visitors, VisitorAt(u, "store")'
             PROVE  SaidWithin(visitor[u].bot, visitor[u].verified, visitor[u].pause)'
  BY <1>1 DEF StoresRight
<1>2. CASE u = v
  BY <1>1, <1>2 DEF VisitorAt, SaidWithin
<1>3. CASE u # v
  <2>1. visitor'[u] = visitor[u] /\ visitor[u].step = "store"
    BY <1>1, <1>3 DEF VisitorAt
  <2>2. visitor[u] \in Claim
    BY <1>1, <2>1 DEF Arriving
  <2>3. /\ visitor[u].bot \in Bots /\ visitor[u].pause \in Nat
        /\ confirmed[visitor[u].bot] \in Int /\ doubted[visitor[u].bot] \in Int
        /\ confirmed'[visitor[u].bot] \in Int /\ doubted'[visitor[u].bot] \in Int
    BY <1>1, <2>2 DEF Claim
  <2>4. SaidWithin(visitor[u].bot, visitor[u].verified, visitor[u].pause)
    BY <2>1 DEF BotsInv, StoresRight, VisitorAt
  <2> QED BY <2>1, <2>3, <2>4 DEF SaidWithin
<1> QED BY <1>2, <1>3

\* One request moves and leaves the cache alone.
LEMMA ClaimMoves ==
  ASSUME BotsAssumption, BotsInv, NEW v \in Visitors, NEW c \in Claim \cup {Arriving},
         visitor' = [visitor EXCEPT ![v] = c], UNCHANGED <<genuine, botCache>>,
         confirmed' \in [Bots -> 0 .. LongAgo], doubted' \in [Bots -> 0 .. LongAgo],
         \A b \in Bots : confirmed'[b] <= confirmed[b] /\ doubted'[b] <= doubted[b],
         c.step = "store" =>
             IF c.verified THEN confirmed'[c.bot] <= c.pause ELSE doubted'[c.bot] <= c.pause
  PROVE  BotsInv'
<1>1. /\ botCache \in [Bots -> Verdict \cup {NotCached}]
      /\ confirmed \in [Bots -> 0 .. LongAgo] /\ doubted \in [Bots -> 0 .. LongAgo]
  BY DEF BotsInv, BotsTypeOK
<1>2. BotsTypeOK' /\ StoresRight'
  BY StoresKept DEF BotsInv, BotsTypeOK, CachedBots
<1>3. CacheRight'
  <2> SUFFICES ASSUME NEW b \in Bots, botCache[b].left > 0
               PROVE  SaidWithin(b, botCache[b].verified,
                                 BotTTL - botCache[b].left + LookupTime)'
    BY DEF CacheRight
  <2>1. botCache[b] \in Verdict
    BY <1>1 DEF NotCached
  <2>2. SaidWithin(b, botCache[b].verified, BotTTL - botCache[b].left + LookupTime)
    BY DEF BotsInv, CacheRight
  <2> QED BY <1>1, <2>1, <2>2 DEF SaidWithin, Verdict, LongAgo, BotsAssumption
<1> QED BY <1>2, <1>3 DEF BotsInv

LEMMA BotsInitRight == ASSUME BotsAssumption, BotsInit PROVE BotsInv
<1>1. CachedBots = {}
  BY DEF BotsInit, CachedBots
<1>2. Cardinality(CachedBots) = 0
  BY <1>1, FS_EmptySet
<1>3. BotsTypeOK
  BY <1>2 DEF BotsInit, BotsTypeOK, BotsAssumption, LongAgo
<1>4. CacheRight /\ StoresRight
  BY DEF BotsInit, CacheRight, StoresRight, NotCached, Arriving, VisitorAt
<1> QED BY <1>3, <1>4 DEF BotsInv

LEMMA AskBotRight ==
  ASSUME BotsAssumption, BotsInv, NEW v \in Visitors, NEW b \in Bots, AskBot(v, b)
  PROVE  BotsInv'
<1>1. UNCHANGED <<genuine, botCache, confirmed, doubted>>
  BY DEF AskBot
<1>2. /\ botCache \in [Bots -> Verdict \cup {NotCached}]
      /\ confirmed \in [Bots -> 0 .. LongAgo] /\ doubted \in [Bots -> 0 .. LongAgo]
  BY DEF BotsInv, BotsTypeOK
<1> DEFINE c == IF LiveVerdict(b)
                THEN [step |-> "answered", bot |-> b,
                      verified |-> botCache[b].verified, pause |-> 0]
                ELSE [step |-> "slot", bot |-> b, verified |-> FALSE, pause |-> 0]
<1>3. visitor' = [visitor EXCEPT ![v] = c]
  BY DEF AskBot, Claims
<1>4. c \in Claim /\ c.step # "store"
  <2>1. LiveVerdict(b) => botCache[b].verified \in BOOLEAN
    BY <1>2 DEF LiveVerdict, Verdict
  <2> QED BY <2>1 DEF Claim, BotsAssumption
<1>5. \A d \in Bots : confirmed'[d] <= confirmed[d] /\ doubted'[d] <= doubted[d]
  BY <1>1, <1>2 DEF LongAgo
<1> HIDE DEF c
<1> QED BY <1>1, <1>2, <1>3, <1>4, <1>5, ClaimMoves

\* A request that claims to be someone has been told who.
LEMMA ClaimShape ==
  ASSUME BotsInv, NEW v \in Visitors, visitor[v].step # "arriving"
  PROVE  visitor[v] \in Claim
BY DEF BotsInv, BotsTypeOK, Arriving

LEMMA SlotRight ==
  ASSUME BotsAssumption, BotsInv, NEW v \in Visitors, TakeSlot(v)
  PROVE  BotsInv'
<1> DEFINE b == visitor[v].bot
           busy == ~ (Cardinality(LookingUp) < LookupSlots)
           c == [step |-> IF busy THEN "store" ELSE "lookup", bot |-> b,
                 verified |-> FALSE, pause |-> 0]
<1>1. b \in Bots
  BY ClaimShape DEF TakeSlot, VisitorAt, Claim
<1>2. confirmed \in [Bots -> 0 .. LongAgo] /\ doubted \in [Bots -> 0 .. LongAgo]
  BY DEF BotsInv, BotsTypeOK
<1>3. /\ UNCHANGED <<genuine, botCache, confirmed>> /\ visitor' = [visitor EXCEPT ![v] = c]
      /\ doubted' = IF busy THEN [doubted EXCEPT ![b] = 0] ELSE doubted
  BY DEF TakeSlot, Claims
<1>4. c \in Claim
  BY <1>1 DEF Claim, BotsAssumption
<1> HIDE DEF b, busy
<1>5. /\ confirmed' \in [Bots -> 0 .. LongAgo] /\ doubted' \in [Bots -> 0 .. LongAgo]
      /\ \A d \in Bots : confirmed'[d] <= confirmed[d] /\ doubted'[d] <= doubted[d]
      /\ busy => doubted'[b] <= 0
  BY <1>1, <1>2, <1>3 DEF LongAgo, BotsAssumption
<1>6. c.step = "store" =>
        IF c.verified THEN confirmed'[c.bot] <= c.pause ELSE doubted'[c.bot] <= c.pause
  BY <1>5
<1> HIDE DEF c
<1> QED BY <1>3, <1>4, <1>5, <1>6, ClaimMoves

LEMMA DNSRight ==
  ASSUME BotsAssumption, BotsInv, NEW v \in Visitors, NEW fails \in BOOLEAN,
         DNSAnswers(v, fails)
  PROVE  BotsInv'
<1> DEFINE b == visitor[v].bot
           verified == b \in genuine /\ ~ fails
           p == visitor[v].pause
           c == [step |-> "store", bot |-> b, verified |-> verified, pause |-> p]
<1>1. b \in Bots /\ p \in 0 .. LookupTime
  BY ClaimShape DEF DNSAnswers, VisitorAt, Claim
<1>2. confirmed \in [Bots -> 0 .. LongAgo] /\ doubted \in [Bots -> 0 .. LongAgo]
  BY DEF BotsInv, BotsTypeOK
<1>3. /\ UNCHANGED <<genuine, botCache>> /\ visitor' = [visitor EXCEPT ![v] = c]
      /\ confirmed' = IF verified THEN [confirmed EXCEPT ![b] = 0] ELSE confirmed
      /\ doubted' = IF verified THEN doubted ELSE [doubted EXCEPT ![b] = 0]
  BY DEF DNSAnswers, Claims
<1>4. c \in Claim
  BY <1>1 DEF Claim
<1> HIDE DEF b, verified, p
<1>5. /\ confirmed' \in [Bots -> 0 .. LongAgo] /\ doubted' \in [Bots -> 0 .. LongAgo]
      /\ \A d \in Bots : confirmed'[d] <= confirmed[d] /\ doubted'[d] <= doubted[d]
      /\ IF verified THEN confirmed'[b] <= p ELSE doubted'[b] <= p
  BY <1>1, <1>2, <1>3 DEF LongAgo, BotsAssumption
<1>6. c.step = "store" =>
        IF c.verified THEN confirmed'[c.bot] <= c.pause ELSE doubted'[c.bot] <= c.pause
  BY <1>5
<1> HIDE DEF c
<1> QED BY <1>3, <1>4, <1>5, <1>6, ClaimMoves

\* Whatever gives way to it, a stored verdict keeps the cache within its bound.
LEMMA StoreFits ==
  ASSUME BotsAssumption, BotsInv, NEW cache \in Reclaimed, NEW b \in Bots,
         NEW verdict \in Verdict
  PROVE  LET next == StoreVerdict(cache, b, verdict) IN
         /\ next \in [Bots -> Verdict \cup {NotCached}]
         /\ Cardinality({d \in Bots : next[d] # NotCached}) <= MaxBots
         /\ \A d \in Bots : next[d] \in {botCache[d], NotCached}
                            \/ (d = b /\ next[d] = verdict)
<1> DEFINE kept == {d \in Bots : cache[d] # NotCached}
           next == StoreVerdict(cache, b, verdict)
<1>1. botCache \in [Bots -> Verdict \cup {NotCached}] /\ Cardinality(CachedBots) <= MaxBots
  BY DEF BotsInv, BotsTypeOK
<1>2. /\ cache \in [Bots -> Verdict \cup {NotCached}]
      /\ \A d \in Bots : cache[d] \in {botCache[d], NotCached}
  BY <1>1 DEF Reclaimed
<1>3. IsFiniteSet(Bots) /\ MaxBots \in Nat
  BY DEF BotsAssumption
<1>4. kept \in SUBSET CachedBots /\ CachedBots \in SUBSET Bots
  BY <1>2 DEF CachedBots
<1>5. IsFiniteSet(CachedBots) /\ IsFiniteSet(kept)
  <2> HIDE DEF kept
  <2> QED BY <1>3, <1>4, FS_Subset
<1>6. Cardinality(kept) <= MaxBots
  <2> HIDE DEF kept
  <2> QED BY <1>1, <1>3, <1>4, <1>5, BoundKept
<1>7. CASE Cardinality(kept) >= MaxBots
  <2>1. next = cache
    BY <1>7 DEF StoreVerdict
  <2> QED BY <1>2, <1>6, <2>1
<1>8. CASE ~ (Cardinality(kept) >= MaxBots)
  <2>1. next = [cache EXCEPT ![b] = verdict]
    BY <1>8 DEF StoreVerdict
  <2> DEFINE after == {d \in Bots : next[d] # NotCached}
  <2> HIDE DEF next
  <2>2. after \in SUBSET (kept \cup {b})
    BY <1>2, <2>1
  <2>3. Cardinality(after) <= MaxBots
    <3> HIDE DEF after, kept
    <3> QED BY <1>3, <1>5, <1>8, <2>2, BoundKept
  <2>4. /\ next \in [Bots -> Verdict \cup {NotCached}]
        /\ \A d \in Bots : next[d] \in {botCache[d], NotCached} \/ (d = b /\ next[d] = verdict)
    BY <1>2, <2>1
  <2> QED BY <2>3, <2>4 DEF next
<1> QED BY <1>7, <1>8

LEMMA CacheBotRight ==
  ASSUME BotsAssumption, BotsInv, NEW v \in Visitors, CacheBotResult(v)
  PROVE  BotsInv'
<1> DEFINE b == visitor[v].bot
           verdict == [verified |-> visitor[v].verified, left |-> BotTTL]
           c == [step |-> "answered", bot |-> b, verified |-> visitor[v].verified, pause |-> 0]
<1>1. visitor[v] \in Claim /\ visitor[v].step = "store"
  BY ClaimShape DEF CacheBotResult, VisitorAt
<1>2. /\ b \in Bots /\ verdict \in Verdict /\ c \in Claim
      /\ visitor[v].pause \in 0 .. LookupTime
  BY <1>1 DEF Claim, Verdict, BotsAssumption
<1>3. /\ visitor' = [visitor EXCEPT ![v] = c] /\ UNCHANGED <<genuine, confirmed, doubted>>
  BY DEF CacheBotResult, Claims
<1>4. PICK cache \in Reclaimed : botCache' = StoreVerdict(cache, b, verdict)
  BY DEF CacheBotResult
<1>5. /\ confirmed \in [Bots -> 0 .. LongAgo] /\ doubted \in [Bots -> 0 .. LongAgo]
      /\ botCache \in [Bots -> Verdict \cup {NotCached}]
  BY DEF BotsInv, BotsTypeOK
<1>6. \A d \in Bots : confirmed'[d] <= confirmed[d] /\ doubted'[d] <= doubted[d]
  BY <1>3, <1>5 DEF LongAgo
<1>7. c.step = "answered"
  OBVIOUS
<1> HIDE DEF b, verdict, c
<1>8. StoresRight' /\ visitor' \in [Visitors -> Claim \cup {Arriving}]
  BY <1>2, <1>3, <1>5, <1>6, <1>7, StoresKept
<1>9. /\ botCache' \in [Bots -> Verdict \cup {NotCached}]
      /\ Cardinality({d \in Bots : botCache'[d] # NotCached}) <= MaxBots
      /\ \A d \in Bots : botCache'[d] \in {botCache[d], NotCached}
                         \/ (d = b /\ botCache'[d] = verdict)
  BY <1>2, <1>4, StoreFits
<1>10. BotsTypeOK'
  BY <1>3, <1>5, <1>8, <1>9 DEF BotsInv, BotsTypeOK, CachedBots
<1>11. CacheRight'
  <2> SUFFICES ASSUME NEW d \in Bots, botCache'[d].left > 0
               PROVE  SaidWithin(d, botCache'[d].verified,
                                 BotTTL - botCache'[d].left + LookupTime)
    BY <1>3 DEF CacheRight, SaidWithin
  <2>1. CASE botCache'[d] = botCache[d]
    BY <2>1 DEF BotsInv, CacheRight
  <2>2. CASE d = b /\ botCache'[d] = verdict
    <3>1. SaidWithin(b, visitor[v].verified, visitor[v].pause)
      BY <1>1 DEF BotsInv, StoresRight, VisitorAt, b
    <3>2. SaidWithin(b, visitor[v].verified, LookupTime)
      BY <1>2, <1>5, <3>1 DEF SaidWithin, LongAgo, BotsAssumption
    <3> QED BY <2>2, <3>2 DEF verdict, BotsAssumption
  <2>3. botCache'[d] # NotCached
    BY DEF NotCached
  <2> QED BY <1>9, <2>1, <2>2, <2>3
<1> QED BY <1>8, <1>10, <1>11 DEF BotsInv

LEMMA LeaveRight ==
  ASSUME BotsAssumption, BotsInv, NEW v \in Visitors, Leave(v)
  PROVE  BotsInv'
<1>1. UNCHANGED <<genuine, botCache, confirmed, doubted>>
      /\ visitor' = [visitor EXCEPT ![v] = Arriving]
  BY DEF Leave
<1>2. confirmed \in [Bots -> 0 .. LongAgo] /\ doubted \in [Bots -> 0 .. LongAgo]
  BY DEF BotsInv, BotsTypeOK
<1>3. \A d \in Bots : confirmed'[d] <= confirmed[d] /\ doubted'[d] <= doubted[d]
  BY <1>1, <1>2 DEF LongAgo
<1>4. Arriving.step # "store"
  BY DEF Arriving
<1> QED BY <1>1, <1>2, <1>3, <1>4, ClaimMoves

\* Time passes for the verdicts, for the requests and for the histories alike.
LEMMA BotsTickRight == ASSUME BotsAssumption, BotsInv, BotsTick PROVE BotsInv'
<1>1. /\ botCache \in [Bots -> Verdict \cup {NotCached}]
      /\ visitor \in [Visitors -> Claim \cup {Arriving}]
      /\ confirmed \in [Bots -> 0 .. LongAgo] /\ doubted \in [Bots -> 0 .. LongAgo]
      /\ BotTTL \in Nat \ {0} /\ LookupTime \in Nat
  BY DEF BotsInv, BotsTypeOK, BotsAssumption
<1>2. \A b \in Bots :
        botCache'[b] = IF botCache[b].left > 0
                       THEN [botCache[b] EXCEPT !.left = @ - 1] ELSE botCache[b]
  BY DEF BotsTick
<1>3. \A b \in Bots :
        /\ confirmed'[b] \in 0 .. LongAgo /\ confirmed'[b] <= confirmed[b] + 1
        /\ doubted'[b] \in 0 .. LongAgo /\ doubted'[b] <= doubted[b] + 1
  BY <1>1 DEF BotsTick, BotsAged, LongAgo
<1>4. ASSUME NEW b \in Bots
      PROVE  /\ botCache'[b] \in Verdict \cup {NotCached}
             /\ botCache'[b] # NotCached => botCache[b] # NotCached
             /\ botCache'[b].left > 0 =>
                    /\ botCache[b] \in Verdict /\ botCache[b].left > 0
                    /\ botCache'[b].left = botCache[b].left - 1
                    /\ botCache'[b].verified = botCache[b].verified
  <2>1. CASE botCache[b].left > 0
    <3>1. botCache[b] \in Verdict
      BY <1>1, <2>1 DEF NotCached
    <3>2. botCache'[b] = [verified |-> botCache[b].verified, left |-> botCache[b].left - 1]
      BY <1>2, <2>1, <3>1 DEF Verdict
    <3>3. botCache'[b] \in Verdict
      BY <1>1, <2>1, <3>1, <3>2 DEF Verdict
    <3> QED BY <2>1, <3>1, <3>2, <3>3 DEF NotCached
  <2>2. CASE ~ (botCache[b].left > 0)
    BY <1>1, <1>2, <2>2
  <2> QED BY <2>1, <2>2
<1>5. BotsTypeOK'
  <2>1. botCache' \in [Bots -> Verdict \cup {NotCached}]
    BY <1>4 DEF BotsTick
  <2>2. Cardinality(CachedBots)' <= MaxBots
    <3>1. CachedBots' \in SUBSET CachedBots /\ CachedBots \in SUBSET Bots
      BY <1>4 DEF CachedBots
    <3>2. IsFiniteSet(CachedBots) /\ Cardinality(CachedBots) <= MaxBots /\ MaxBots \in Nat
      BY <3>1, FS_Subset DEF BotsInv, BotsTypeOK, BotsAssumption
    <3> QED BY <3>1, <3>2, BoundKept
  <2>3. visitor' \in [Visitors -> Claim \cup {Arriving}]
    <3> SUFFICES ASSUME NEW v \in Visitors
                 PROVE  (IF Hurried(v) THEN [visitor[v] EXCEPT !.pause = @ + 1]
                         ELSE visitor[v]) \in Claim \cup {Arriving}
      BY DEF BotsTick
    <3>1. CASE Hurried(v)
      <4>1. visitor[v] \in Claim /\ visitor[v].pause < LookupTime
        BY <1>1, <3>1, ClaimShape DEF BotsTick, Hurried, VisitorAt
      <4> QED BY <1>1, <3>1, <4>1 DEF Claim
    <3>2. CASE ~ Hurried(v)
      BY <1>1, <3>2
    <3> QED BY <3>1, <3>2
  <2>4. confirmed' \in [Bots -> 0 .. LongAgo] /\ doubted' \in [Bots -> 0 .. LongAgo]
    BY <1>3 DEF BotsTick, BotsAged
  <2>5. genuine' \subseteq Bots
    BY DEF BotsTick, BotsInv, BotsTypeOK
  <2> QED BY <2>1, <2>2, <2>3, <2>4, <2>5 DEF BotsTypeOK
<1>6. CacheRight'
  <2> SUFFICES ASSUME NEW b \in Bots, botCache'[b].left > 0
               PROVE  IF botCache'[b].verified
                      THEN confirmed'[b] <= BotTTL - botCache'[b].left + LookupTime
                      ELSE doubted'[b] <= BotTTL - botCache'[b].left + LookupTime
    BY DEF CacheRight, SaidWithin
  <2>1. /\ botCache[b] \in Verdict /\ botCache[b].left > 0
        /\ botCache'[b].left = botCache[b].left - 1
        /\ botCache'[b].verified = botCache[b].verified
    BY <1>4
  <2>2. SaidWithin(b, botCache[b].verified, BotTTL - botCache[b].left + LookupTime)
    BY <2>1 DEF BotsInv, CacheRight
  <2>3. botCache[b].left \in Nat /\ confirmed[b] \in Int /\ doubted[b] \in Int
        /\ confirmed'[b] \in Int /\ doubted'[b] \in Int
    BY <1>1, <1>3, <2>1 DEF Verdict, LongAgo
  <2> QED BY <1>1, <1>3, <2>1, <2>2, <2>3 DEF SaidWithin
<1>7. StoresRight'
  <2> SUFFICES ASSUME NEW v \in Visitors, visitor'[v].step = "store"
               PROVE  IF visitor'[v].verified
                      THEN confirmed'[visitor'[v].bot] <= visitor'[v].pause
                      ELSE doubted'[visitor'[v].bot] <= visitor'[v].pause
    BY DEF StoresRight, SaidWithin, VisitorAt
  <2>1. visitor'[v] = IF Hurried(v) THEN [visitor[v] EXCEPT !.pause = @ + 1] ELSE visitor[v]
    BY DEF BotsTick
  <2>2. Hurried(v) /\ visitor[v] \in Claim
    <3>1. CASE Hurried(v)
      BY <3>1, ClaimShape DEF Hurried, VisitorAt
    <3>2. CASE ~ Hurried(v)
      BY <2>1, <3>2 DEF Hurried, VisitorAt
    <3> QED BY <3>1, <3>2
  <2> DEFINE b == visitor[v].bot
             p == visitor[v].pause
  <2>3. /\ visitor'[v].step = visitor[v].step /\ visitor'[v].bot = b
        /\ visitor'[v].verified = visitor[v].verified /\ visitor'[v].pause = p + 1
        /\ b \in Bots /\ p \in Nat
    BY <2>1, <2>2 DEF Claim
  <2>4. SaidWithin(b, visitor[v].verified, p)
    BY <2>3 DEF BotsInv, StoresRight, VisitorAt
  <2> HIDE DEF b, p
  <2>5. confirmed[b] \in Int /\ doubted[b] \in Int /\ confirmed'[b] \in Int /\ doubted'[b] \in Int
    BY <1>1, <1>3, <2>3 DEF LongAgo
  <2> QED BY <1>3, <2>3, <2>4, <2>5 DEF SaidWithin
<1> QED BY <1>5, <1>6, <1>7 DEF BotsInv

\* The invariant of the cache and its lookups (goodbots.go:93-200).
THEOREM BotsInvariant == BotsSpec => []BotsInv
<1>1. BotsInit => BotsInv
  BY BotsInitRight, BotsAssumption
<1>2. BotsInv /\ [BotsNext]_botsVars => BotsInv'
  <2> SUFFICES ASSUME BotsInv, [BotsNext]_botsVars PROVE BotsInv'
    OBVIOUS
  <2>1. ASSUME NEW v \in Visitors, NEW b \in Bots, AskBot(v, b) PROVE BotsInv'
    BY <2>1, AskBotRight, BotsAssumption
  <2>2. ASSUME NEW v \in Visitors, IsVerifiedGoodBot(v) PROVE BotsInv'
    BY <2>2, SlotRight, DNSRight, CacheBotRight, LeaveRight, BotsAssumption
    DEF IsVerifiedGoodBot
  <2>3. CASE (\E b \in Bots : ChangeDNS(b)) \/ UNCHANGED botsVars
    <3>1. UNCHANGED <<botCache, visitor, confirmed, doubted>> /\ genuine' \subseteq Bots
      BY <2>3 DEF ChangeDNS, botsVars, BotsInv, BotsTypeOK
    <3> QED BY <3>1 DEF BotsInv, BotsTypeOK, CachedBots, CacheRight, StoresRight, SaidWithin, VisitorAt
  <2>4. CASE BotsTick
    BY <2>4, BotsTickRight, BotsAssumption
  <2> QED BY <2>1, <2>2, <2>3, <2>4 DEF BotsNext
<1> QED BY <1>1, <1>2, PTL DEF BotsSpec

\* Every variable keeps its type, and the cache its bound (goodBotCacheMax).
THEOREM BotsTypeCorrect == BotsSpec => []BotsTypeOK
<1>1. BotsInv => BotsTypeOK
  BY DEF BotsInv
<1> QED BY <1>1, BotsInvariant, PTL

\* A caller is believed, or not, on what DNS said of it less than one verdict's
\* life and one lookup ago, for any number of callers, slots and cached
\* verdicts (goodbots.go:93-200).
THEOREM VerdictsAreRecent == BotsSpec => VerdictsRecent
<1> DEFINE Recent ==
        \A v \in Visitors :
            ~ VisitorAt(v, "answered") /\ visitor'[v].step = "answered" =>
                LET b == visitor'[v].bot IN
                IF visitor'[v].verified THEN confirmed[b] < LongAgo ELSE doubted[b] < LongAgo
<1>1. BotsInv /\ [BotsNext]_botsVars => Recent
  <2> SUFFICES ASSUME BotsInv, [BotsNext]_botsVars, NEW v \in Visitors,
                      ~ VisitorAt(v, "answered"), visitor'[v].step = "answered"
               PROVE  LET b == visitor'[v].bot IN
                      IF visitor'[v].verified THEN confirmed[b] < LongAgo
                      ELSE doubted[b] < LongAgo
    OBVIOUS
  <2>0. /\ visitor \in [Visitors -> Claim \cup {Arriving}]
        /\ botCache \in [Bots -> Verdict \cup {NotCached}]
        /\ confirmed \in [Bots -> 0 .. LongAgo] /\ doubted \in [Bots -> 0 .. LongAgo]
        /\ BotTTL \in Nat \ {0} /\ LookupTime \in Nat
    BY BotsAssumption DEF BotsInv, BotsTypeOK, BotsAssumption
  <2>1. ASSUME NEW b \in Bots, AskBot(v, b)
        PROVE  /\ visitor'[v].bot = b
               /\ SaidWithin(b, visitor'[v].verified, BotTTL - 1 + LookupTime)
    <3>1. LiveVerdict(b)
      BY <2>0, <2>1 DEF AskBot, Claims
    <3>2. visitor'[v].bot = b /\ visitor'[v].verified = botCache[b].verified
      BY <2>0, <2>1, <3>1 DEF AskBot, Claims
    <3>3. botCache[b] \in Verdict /\ botCache[b].left > 0
      BY <2>0, <3>1 DEF LiveVerdict
    <3>4. SaidWithin(b, botCache[b].verified, BotTTL - botCache[b].left + LookupTime)
      BY <3>3 DEF BotsInv, CacheRight
    <3> QED BY <2>0, <3>2, <3>3, <3>4 DEF SaidWithin, Verdict, LongAgo
  <2>2. ASSUME CacheBotResult(v)
        PROVE  /\ visitor'[v].bot \in Bots
               /\ SaidWithin(visitor'[v].bot, visitor'[v].verified, LookupTime)
    <3>1. visitor[v] \in Claim /\ visitor[v].step = "store"
      BY <2>2, ClaimShape DEF CacheBotResult, VisitorAt
    <3>2. visitor'[v].bot = visitor[v].bot /\ visitor'[v].verified = visitor[v].verified
      BY <2>0, <2>2 DEF CacheBotResult, Claims
    <3>3. SaidWithin(visitor[v].bot, visitor[v].verified, visitor[v].pause)
      BY <3>1 DEF BotsInv, StoresRight, VisitorAt
    <3>4. visitor[v].bot \in Bots /\ visitor[v].pause \in 0 .. LookupTime
      BY <3>1 DEF Claim
    <3> QED BY <2>0, <3>2, <3>3, <3>4 DEF SaidWithin, LongAgo
  <2>3. (\E b \in Bots : AskBot(v, b)) \/ CacheBotResult(v)
    <3>1. CASE UNCHANGED visitor
      BY <3>1 DEF VisitorAt
    <3>2. ASSUME NEW u \in Visitors, NEW b \in Bots, AskBot(u, b) PROVE AskBot(v, b)
      BY <2>0, <3>2 DEF AskBot, Claims, VisitorAt
    <3>3. ASSUME NEW u \in Visitors, IsVerifiedGoodBot(u) PROVE CacheBotResult(v)
      <4>1. u = v
        BY <2>0, <3>3 DEF IsVerifiedGoodBot, TakeSlot, DNSAnswers, CacheBotResult, Leave,
                          Claims, VisitorAt
      <4> QED BY <2>0, <3>3, <4>1 DEF IsVerifiedGoodBot, TakeSlot, DNSAnswers, Leave, Claims,
                                      VisitorAt, Arriving
    <3>4. CASE BotsTick
      <4>1. visitor'[v] = IF Hurried(v) THEN [visitor[v] EXCEPT !.pause = @ + 1] ELSE visitor[v]
        BY <3>4 DEF BotsTick
      <4>2. CASE Hurried(v)
        <5>1. visitor[v] \in Claim
          BY <4>2, ClaimShape DEF Hurried, VisitorAt
        <5>2. visitor'[v].step = visitor[v].step
          BY <4>1, <4>2, <5>1 DEF Claim
        <5> QED BY <5>2 DEF VisitorAt
      <4>3. CASE ~ Hurried(v)
        BY <4>1, <4>3 DEF VisitorAt
      <4> QED BY <4>2, <4>3
    <3> QED BY <3>1, <3>2, <3>3, <3>4 DEF BotsNext, ChangeDNS, botsVars
  <2> QED BY <2>0, <2>1, <2>2, <2>3 DEF SaidWithin, LongAgo
<1>2. BotsInv /\ [BotsNext]_botsVars => [Recent]_botsVars
  BY <1>1
<1> HIDE DEF Recent
<1>3. BotsSpec => [][Recent]_botsVars
  BY <1>2, BotsInvariant, PTL DEF BotsSpec
<1> QED BY <1>3, PTL DEF VerdictsRecent, Recent

-----------------------------------------------------------------------------
(* Which key a dashboard session is checked with. *)

\* That k is published, or that it is not, as it was no longer than that ago.
Knows(k, has, age) == (has <=> k \in published) \/ turned[k] <= age

\* What the node remembers has been true within its age and one refresh.
MemoryRight ==
    /\ published \subseteq Kids \ {EmptyKid} /\ keys \subseteq Kids
    /\ keysLeft \in 0 .. KeysTTL
    /\ unknown \in [Kids -> Forgotten .. UnknownTTL]
    /\ turned \in [Kids -> 0 .. LongTurned]
    /\ keysLeft > 0 => \A k \in keys : Knows(k, TRUE, KeysTTL - keysLeft + FetchTime)
    /\ \A k \in Kids : unknown[k] > 0 => Knows(k, FALSE, UnknownTTL - unknown[k] + FetchTime)

\* The one refresh under way has its answer for as long as it has paused, and
\* has just installed it before its last look.
SessionsRight ==
    /\ session \in [Sessions -> Checking \cup {NoSession}]
    /\ \A s, r \in Sessions :
            session[s].step \in Locked /\ session[r].step \in Locked => s = r
    /\ \A s \in Sessions, k \in Kids :
            /\ SessionAt(s, "install") => Knows(k, k \in session[s].got, session[s].pause)
            /\ SessionAt(s, "resolve") => Knows(k, k \in keys, session[s].pause)

KeysInv == MemoryRight /\ SessionsRight

LEMMA KeysNumbers ==
    /\ KeysTTL \in Nat \ {0} /\ UnknownTTL \in Nat \ {0} /\ FetchTime \in Nat
    /\ LateAccept = KeysTTL + FetchTime /\ LateRefuse = UnknownTTL + FetchTime
    /\ LongTurned \in Nat
    /\ Forgotten = -1
  BY KeysAssumption DEF KeysAssumption, LateAccept, LateRefuse, LongTurned, Forgotten

\* A call that does not answer yet is a call.
LEMMA CheckShape ==
  ASSUME SessionsRight, NEW s \in Sessions, session[s].step # "none"
  PROVE  session[s] \in Checking
  BY DEF SessionsRight, NoSession

\* One call moves; it takes the lock only when nobody has it.
LEMMA SessionMoves ==
  ASSUME SessionsRight, NEW s \in Sessions, NEW c \in Checking \cup {NoSession},
         session' = [session EXCEPT ![s] = c], UNCHANGED <<published, keys, turned>>,
         c.step \in Locked => session[s].step \in Locked
                              \/ \A r \in Sessions : session[r].step \notin Locked,
         \A k \in Kids : /\ c.step = "install" => Knows(k, k \in c.got, c.pause)
                         /\ c.step = "resolve" => Knows(k, k \in keys, c.pause)
  PROVE  SessionsRight'
<1>1. /\ session' \in [Sessions -> Checking \cup {NoSession}]
      /\ session'[s] = c /\ \A r \in Sessions \ {s} : session'[r] = session[r]
  BY DEF SessionsRight
<1>2. \A q, r \in Sessions : session'[q].step \in Locked /\ session'[r].step \in Locked => q = r
  BY <1>1 DEF SessionsRight
<1>3. ASSUME NEW r \in Sessions, NEW k \in Kids
      PROVE  /\ SessionAt(r, "install")' => Knows(k, k \in session[r].got, session[r].pause)'
             /\ SessionAt(r, "resolve")' => Knows(k, k \in keys, session[r].pause)'
  <2>1. CASE r = s
    BY <1>1, <2>1 DEF SessionAt, Knows
  <2>2. CASE r # s
    BY <1>1, <2>2 DEF SessionsRight, SessionAt, Knows
  <2> QED BY <2>1, <2>2
<1> QED BY <1>1, <1>2, <1>3 DEF SessionsRight

\* A call that moves on, or ends, and changes nothing that the node remembers.
LEMMA CallGoesOn ==
  ASSUME KeysInv, NEW s \in Sessions, NEW c \in Checking \cup {NoSession},
         session' = [session EXCEPT ![s] = c],
         UNCHANGED <<published, keys, keysLeft, unknown, turned>>,
         c.step \in Locked => session[s].step \in Locked
                              \/ \A r \in Sessions : session[r].step \notin Locked,
         c.step \notin {"install", "resolve"}
  PROVE  KeysInv'
<1>1. SessionsRight'
  BY SessionMoves DEF KeysInv
<1> QED BY <1>1 DEF KeysInv, MemoryRight, Knows

LEMMA KeysInitRight == ASSUME KeysInit PROVE KeysInv
<1>1. MemoryRight
  BY KeysNumbers DEF KeysInit, MemoryRight, Knows
<1>2. SessionsRight
  BY DEF KeysInit, SessionsRight, NoSession, Locked, SessionAt
<1> QED BY <1>1, <1>2 DEF KeysInv

\* Verify and the second look under the lock.
LEMMA RecallRight ==
  ASSUME KeysInv, NEW s \in Sessions, (\E k \in Kids : Verify(s, k)) \/ RecallAgain(s)
  PROVE  KeysInv'
<1>1. PICK k \in Kids, otherwise \in {"lock", "fetch"} :
        /\ Checks(s, Recalled(k, otherwise), k, {}, 0)
        /\ otherwise = "fetch" => session[s].step \in Locked
        /\ UNCHANGED <<published, keys, keysLeft, unknown, turned>>
  <2>1. RecallAgain(s) => session[s].kid \in Kids
    BY CheckShape DEF RecallAgain, SessionAt, KeysInv, Checking
  <2> QED BY <2>1 DEF Verify, RecallAgain, SessionAt, Locked
<1> DEFINE c == [step |-> Recalled(k, otherwise), kid |-> k, got |-> {}, pause |-> 0]
<1>2. Recalled(k, otherwise) \in {"accepted", "unknown", otherwise}
  BY DEF Recalled
<1>3. c \in Checking
  BY <1>2, KeysNumbers DEF Checking, Locked
<1>4. session' = [session EXCEPT ![s] = c]
  BY <1>1 DEF Checks
<1>5. /\ c.step \in Locked => session[s].step \in Locked
      /\ c.step \notin {"install", "resolve"}
  BY <1>1, <1>2 DEF Locked
<1> HIDE DEF c
<1> QED BY <1>1, <1>3, <1>4, <1>5, CallGoesOn

LEMMA RefreshRight ==
  ASSUME KeysInv, NEW s \in Sessions, LockRefresh(s) \/ RefreshFails(s) \/ EndCheck(s)
  PROVE  KeysInv'
<1>1. UNCHANGED <<published, keys, keysLeft, unknown, turned>>
  BY DEF LockRefresh, RefreshFails, EndCheck
<1>2. CASE EndCheck(s)
  <2>1. session' = [session EXCEPT ![s] = NoSession] /\ NoSession.step = "none"
    BY <1>2 DEF EndCheck, NoSession
  <2> QED BY <1>1, <2>1, CallGoesOn DEF Locked
<1>3. CASE LockRefresh(s) \/ RefreshFails(s)
  <2> DEFINE step == IF LockRefresh(s) THEN "again" ELSE "failed"
             c == [step |-> step, kid |-> session[s].kid, got |-> {}, pause |-> 0]
  <2>1. session' = [session EXCEPT ![s] = c]
    BY <1>3 DEF LockRefresh, RefreshFails, Checks
  <2>2. c \in Checking
    BY <1>3, CheckShape, KeysNumbers
    DEF LockRefresh, RefreshFails, SessionAt, KeysInv, Checking, Locked
  <2>3. c.step \in Locked => \A r \in Sessions : session[r].step \notin Locked
    BY DEF LockRefresh, Locked
  <2>4. c.step \notin {"install", "resolve"}
    OBVIOUS
  <2> HIDE DEF c
  <2> QED BY <1>1, <2>1, <2>2, <2>3, <2>4, CallGoesOn
<1> QED BY <1>2, <1>3

\* The answer is what is published as the server gives it.
LEMMA AnswerRight ==
  ASSUME KeysInv, NEW s \in Sessions, JWKSAnswers(s)
  PROVE  KeysInv'
<1> DEFINE c == [step |-> "install", kid |-> session[s].kid, got |-> published,
                 pause |-> session[s].pause]
<1>1. /\ session' = [session EXCEPT ![s] = c] /\ session[s].step \in Locked
      /\ UNCHANGED <<published, keys, keysLeft, unknown, turned>>
  BY DEF JWKSAnswers, Checks, SessionAt, Locked
<1>2. c \in Checking
  BY CheckShape DEF JWKSAnswers, SessionAt, KeysInv, MemoryRight, Checking, Locked
<1>3. c.step = "install" /\ \A k \in Kids : Knows(k, k \in c.got, c.pause)
  BY DEF Knows
<1> HIDE DEF c
<1>4. SessionsRight'
  BY <1>1, <1>2, <1>3, SessionMoves DEF KeysInv
<1> QED BY <1>1, <1>4 DEF KeysInv, MemoryRight, Knows

LEMMA InstallRight ==
  ASSUME KeysInv, NEW s \in Sessions, InstallKeys(s)
  PROVE  KeysInv'
<1> DEFINE c == [step |-> "resolve", kid |-> session[s].kid, got |-> {},
                 pause |-> session[s].pause]
<1>1. /\ session' = [session EXCEPT ![s] = c] /\ session[s].step = "install"
      /\ keys' = session[s].got /\ keysLeft' = KeysTTL
      /\ UNCHANGED <<published, unknown, turned>>
  BY DEF InstallKeys, Checks, SessionAt
<1>2. session[s] \in Checking
  BY <1>1, CheckShape DEF KeysInv
<1>3. c \in Checking /\ session[s].got \subseteq Kids /\ session[s].pause \in 0 .. FetchTime
  BY <1>2 DEF Checking, Locked
<1>4. \A k \in Kids : Knows(k, k \in session[s].got, session[s].pause)
  BY <1>1 DEF KeysInv, SessionsRight, SessionAt
<1>5. \A r \in Sessions \ {s} : session[r].step \notin Locked
  BY <1>1 DEF KeysInv, SessionsRight, Locked
<1>6. c.step = "resolve" /\ c.pause = session[s].pause
  OBVIOUS
<1> HIDE DEF c
<1>7. /\ session' \in [Sessions -> Checking \cup {NoSession}]
      /\ session'[s] = c /\ \A r \in Sessions \ {s} : session'[r].step \notin Locked
  BY <1>1, <1>3, <1>5 DEF KeysInv, SessionsRight
<1>8. SessionsRight'
  <2>1. ASSUME NEW r \in Sessions, NEW k \in Kids
        PROVE  /\ SessionAt(r, "install")' => Knows(k, k \in session[r].got, session[r].pause)'
               /\ SessionAt(r, "resolve")' => Knows(k, k \in keys, session[r].pause)'
    BY <1>1, <1>4, <1>6, <1>7 DEF SessionAt, Knows, Locked
  <2> QED BY <1>7, <2>1 DEF SessionsRight
<1>9. MemoryRight'
  <2>1. \A k \in keys' : Knows(k, TRUE, FetchTime)'
    BY <1>1, <1>3, <1>4, KeysNumbers DEF Knows, KeysInv, MemoryRight
  <2> QED BY <1>1, <1>3, <2>1, KeysNumbers DEF KeysInv, MemoryRight, Knows
<1> QED BY <1>8, <1>9 DEF KeysInv

\* Whatever makes room for it, only what was remembered is.
LEMMA RememberRight ==
  ASSUME MemoryRight, NEW k \in Kids, Remember(k)
  PROVE  /\ unknown' \in [Kids -> Forgotten .. UnknownTTL]
         /\ \A j \in Kids : unknown'[j] > 0 =>
                (j = k /\ unknown'[j] = UnknownTTL) \/ unknown'[j] = unknown[j]
<1> DEFINE live == {j \in Kids : unknown[j] > 0}
<1>1. PICK gone : unknown' = [j \in Kids |-> IF j = k THEN UnknownTTL
                                ELSE IF j \in live \ gone THEN unknown[j] ELSE Forgotten]
  BY DEF Remember
<1> QED BY <1>1, KeysNumbers DEF MemoryRight

LEMMA ResolveRight ==
  ASSUME KeysInv, NEW s \in Sessions, Resolve(s)
  PROVE  KeysInv'
<1> DEFINE k == session[s].kid
           step == IF k \in keys THEN "accepted" ELSE "unknown"
           c == [step |-> step, kid |-> k, got |-> {}, pause |-> 0]
<1>1. session[s] \in Checking /\ session[s].step = "resolve"
  BY CheckShape DEF Resolve, SessionAt, KeysInv
<1>2. k \in Kids /\ c \in Checking /\ session[s].pause \in 0 .. FetchTime
  BY <1>1, KeysNumbers DEF Checking
<1>3. /\ session' = [session EXCEPT ![s] = c] /\ UNCHANGED <<published, keys, keysLeft, turned>>
      /\ k \in keys => UNCHANGED unknown
      /\ k \notin keys => Remember(k)
  BY DEF Resolve, Checks
<1>4. c.step \notin Locked /\ c.step \notin {"install", "resolve"}
  BY DEF Locked
<1>5. k \notin keys => Knows(k, FALSE, FetchTime)
  <2>1. Knows(k, k \in keys, session[s].pause) /\ turned[k] \in 0 .. LongTurned
    BY <1>1, <1>2 DEF KeysInv, SessionsRight, MemoryRight, SessionAt
  <2> QED BY <1>2, <2>1, KeysNumbers DEF Knows
<1> HIDE DEF k, c
<1>6. CASE k \in keys
  BY <1>2, <1>3, <1>4, <1>6, CallGoesOn
<1>7. CASE k \notin keys
  <2>1. SessionsRight'
    BY <1>2, <1>3, <1>4, SessionMoves DEF KeysInv
  <2>2. /\ unknown' \in [Kids -> Forgotten .. UnknownTTL]
        /\ \A j \in Kids : unknown'[j] > 0 =>
               (j = k /\ unknown'[j] = UnknownTTL) \/ unknown'[j] = unknown[j]
    BY <1>2, <1>3, <1>7, RememberRight DEF KeysInv
  <2>3. ASSUME NEW j \in Kids, unknown'[j] > 0
        PROVE  Knows(j, FALSE, UnknownTTL - unknown'[j] + FetchTime)
    <3>1. CASE j = k /\ unknown'[j] = UnknownTTL
      BY <1>5, <1>7, <3>1, KeysNumbers DEF Knows
    <3>2. CASE unknown'[j] = unknown[j]
      BY <2>3, <3>2 DEF KeysInv, MemoryRight
    <3> QED BY <2>2, <2>3, <3>1, <3>2
  <2>4. MemoryRight'
    BY <1>3, <2>2, <2>3 DEF KeysInv, MemoryRight, Knows
  <2> QED BY <2>1, <2>4 DEF KeysInv
<1> QED BY <1>6, <1>7

\* A key that has just been published or withdrawn contradicts no memory.
LEMMA RotateRight ==
  ASSUME KeysInv, NEW k \in Kids \ {EmptyKid}, Rotate(k)
  PROVE  KeysInv'
<1>1. /\ published' = (published \cup {k}) \ (published \cap {k})
      /\ turned' = [turned EXCEPT ![k] = 0]
      /\ UNCHANGED <<keys, keysLeft, unknown, session>>
  BY DEF Rotate
<1>2. \A j \in Kids : turned'[j] = 0 \/ (turned'[j] = turned[j]
                                        /\ (j \in published' <=> j \in published))
  BY <1>1 DEF KeysInv, MemoryRight
<1>3. MemoryRight'
  <2>1. /\ published' \subseteq Kids \ {EmptyKid}
        /\ turned' \in [Kids -> 0 .. LongTurned]
    BY <1>1, KeysNumbers DEF KeysInv, MemoryRight
  <2>2. ASSUME keysLeft > 0, NEW j \in keys
        PROVE  Knows(j, TRUE, KeysTTL - keysLeft + FetchTime)'
    <3>1. j \in Kids /\ Knows(j, TRUE, KeysTTL - keysLeft + FetchTime)
      BY <2>2 DEF KeysInv, MemoryRight
    <3>2. KeysTTL - keysLeft + FetchTime >= 0
      BY KeysNumbers DEF KeysInv, MemoryRight
    <3> QED BY <1>1, <1>2, <3>1, <3>2 DEF Knows
  <2>3. ASSUME NEW j \in Kids, unknown[j] > 0
        PROVE  Knows(j, FALSE, UnknownTTL - unknown[j] + FetchTime)'
    <3>1. Knows(j, FALSE, UnknownTTL - unknown[j] + FetchTime)
      BY <2>3 DEF KeysInv, MemoryRight
    <3>2. UnknownTTL - unknown[j] + FetchTime >= 0
      BY KeysNumbers DEF KeysInv, MemoryRight
    <3> QED BY <1>1, <1>2, <3>1, <3>2 DEF Knows
  <2> QED BY <1>1, <2>1, <2>2, <2>3 DEF KeysInv, MemoryRight
<1>4. SessionsRight'
  <2>1. ASSUME NEW s \in Sessions, NEW j \in Kids
        PROVE  /\ SessionAt(s, "install")' => Knows(j, j \in session[s].got, session[s].pause)'
               /\ SessionAt(s, "resolve")' => Knows(j, j \in keys, session[s].pause)'
    <3>1. SessionAt(s, "install") \/ SessionAt(s, "resolve") => session[s].pause >= 0
      BY CheckShape, KeysNumbers DEF KeysInv, SessionAt, Checking
    <3> QED BY <1>1, <1>2, <3>1 DEF KeysInv, SessionsRight, SessionAt, Knows
  <2> QED BY <1>1, <2>1 DEF KeysInv, SessionsRight
<1> QED BY <1>3, <1>4 DEF KeysInv

LEMMA KeysTickRight == ASSUME KeysInv, KeysTick PROVE KeysInv'
<1>1. /\ keysLeft' = (IF keysLeft > 0 THEN keysLeft - 1 ELSE 0)
      /\ unknown' = [k \in Kids |-> IF unknown[k] > 0 THEN unknown[k] - 1 ELSE unknown[k]]
      /\ turned' = [k \in Kids |-> IF turned[k] < LongTurned THEN turned[k] + 1 ELSE LongTurned]
      /\ UNCHANGED <<published, keys>>
  BY DEF KeysTick
<1>2. \A k \in Kids : turned[k] \in Int /\ turned'[k] \in Int /\ turned'[k] <= turned[k] + 1
  BY <1>1, KeysNumbers DEF KeysInv, MemoryRight
<1>3. MemoryRight'
  <2>1. /\ published' \subseteq Kids \ {EmptyKid} /\ keys' \subseteq Kids
        /\ keysLeft' \in 0 .. KeysTTL
        /\ unknown' \in [Kids -> Forgotten .. UnknownTTL]
        /\ turned' \in [Kids -> 0 .. LongTurned]
    BY <1>1, KeysNumbers DEF KeysInv, MemoryRight
  <2>2. ASSUME keysLeft' > 0, NEW k \in keys
        PROVE  Knows(k, TRUE, KeysTTL - keysLeft + FetchTime)'
    <3>1. /\ k \in Kids /\ keysLeft > 0 /\ keysLeft' = keysLeft - 1
          /\ KeysTTL - keysLeft + FetchTime \in Nat
          /\ KeysTTL - keysLeft' + FetchTime = (KeysTTL - keysLeft + FetchTime) + 1
      BY <1>1, <2>2, KeysNumbers DEF KeysInv, MemoryRight
    <3>2. Knows(k, TRUE, KeysTTL - keysLeft + FetchTime)
      BY <3>1 DEF KeysInv, MemoryRight
    <3> QED BY <1>1, <1>2, <2>1, <3>1, <3>2, KeysNumbers DEF Knows
  <2>3. ASSUME NEW k \in Kids, unknown'[k] > 0
        PROVE  Knows(k, FALSE, UnknownTTL - unknown[k] + FetchTime)'
    <3>1. /\ unknown[k] > 0 /\ unknown'[k] = unknown[k] - 1
          /\ UnknownTTL - unknown[k] + FetchTime \in Nat
          /\ UnknownTTL - unknown'[k] + FetchTime = (UnknownTTL - unknown[k] + FetchTime) + 1
      BY <1>1, <2>3, KeysNumbers DEF KeysInv, MemoryRight
    <3>2. Knows(k, FALSE, UnknownTTL - unknown[k] + FetchTime)
      BY <3>1 DEF KeysInv, MemoryRight
    <3> QED BY <1>1, <1>2, <2>1, <3>1, <3>2, KeysNumbers DEF Knows
  <2> QED BY <1>1, <2>1, <2>2, <2>3 DEF MemoryRight
<1>4. SessionsRight'
  <2>1. \A s \in Sessions :
          session'[s] = IF Refreshing(s) THEN [session[s] EXCEPT !.pause = @ + 1] ELSE session[s]
    BY DEF KeysTick
  <2>2. ASSUME NEW s \in Sessions
        PROVE  /\ session'[s] \in Checking \cup {NoSession}
               /\ session'[s].step = session[s].step
               /\ session[s].step \in {"install", "resolve"} =>
                    /\ session'[s].got = session[s].got
                    /\ session[s].pause \in Nat /\ session'[s].pause = session[s].pause + 1
    <3>1. CASE Refreshing(s)
      <4>1. session[s] \in Checking /\ session[s].pause < FetchTime
        BY <3>1, CheckShape DEF KeysTick, KeysInv, Refreshing
      <4>2. session'[s] = [session[s] EXCEPT !.pause = @ + 1]
        BY <2>1, <3>1
      <4> QED BY <4>1, <4>2, KeysNumbers DEF Checking
    <3>2. CASE ~ Refreshing(s)
      BY <2>1, <3>2 DEF KeysInv, SessionsRight, Refreshing
    <3> QED BY <3>1, <3>2
  <2>3. session' \in [Sessions -> Checking \cup {NoSession}]
    BY <2>2 DEF KeysTick
  <2>4. ASSUME NEW s \in Sessions, NEW k \in Kids
        PROVE  /\ SessionAt(s, "install")' => Knows(k, k \in session[s].got, session[s].pause)'
               /\ SessionAt(s, "resolve")' => Knows(k, k \in keys, session[s].pause)'
    <3>1. CASE SessionAt(s, "install")
      <4>1. Knows(k, k \in session[s].got, session[s].pause)
        BY <3>1 DEF KeysInv, SessionsRight
      <4> QED BY <1>1, <1>2, <2>2, <3>1, <4>1 DEF Knows, SessionAt
    <3>2. CASE SessionAt(s, "resolve")
      <4>1. Knows(k, k \in keys, session[s].pause)
        BY <3>2 DEF KeysInv, SessionsRight
      <4> QED BY <1>1, <1>2, <2>2, <3>2, <4>1 DEF Knows, SessionAt
    <3>3. CASE ~ SessionAt(s, "install") /\ ~ SessionAt(s, "resolve")
      BY <2>2, <3>3 DEF SessionAt
    <3> QED BY <3>1, <3>2, <3>3
  <2> QED BY <2>2, <2>3, <2>4 DEF KeysInv, SessionsRight
<1> QED BY <1>3, <1>4 DEF KeysInv

\* The invariant of the copy, of the memory and of the refresh (jwt.go:125-246).
THEOREM KeysInvariant == KeysSpec => []KeysInv
<1>1. KeysInit => KeysInv
  BY KeysInitRight
<1>2. KeysInv /\ [KeysNext]_keysVars => KeysInv'
  <2> SUFFICES ASSUME KeysInv, [KeysNext]_keysVars PROVE KeysInv'
    OBVIOUS
  <2>1. ASSUME NEW s \in Sessions, NEW k \in Kids, Verify(s, k) PROVE KeysInv'
    BY <2>1, RecallRight
  <2>2. ASSUME NEW s \in Sessions, Check(s) PROVE KeysInv'
    BY <2>2, RecallRight, RefreshRight, AnswerRight, InstallRight, ResolveRight DEF Check
  <2>3. CASE \E k \in Kids \ {EmptyKid} : Rotate(k)
    BY <2>3, RotateRight
  <2>4. CASE KeysTick
    BY <2>4, KeysTickRight
  <2>5. CASE UNCHANGED keysVars
    BY <2>5 DEF keysVars, KeysInv, MemoryRight, SessionsRight, SessionAt, Knows
  <2> QED BY <2>1, <2>2, <2>3, <2>4, <2>5 DEF KeysNext
<1> QED BY <1>1, <1>2, PTL DEF KeysSpec

\* Every variable keeps its type, and one call at a time refreshes (refreshMu).
THEOREM KeysTypeCorrect == KeysSpec => []KeysTypeOK
<1>1. KeysInv => KeysTypeOK
  BY DEF KeysInv, MemoryRight, SessionsRight, KeysTypeOK
<1> QED BY <1>1, KeysInvariant, PTL

\* A session is accepted under a key, or refused as unknown, only on what was
\* true of the key within the lifetime of the memory and one refresh, for any
\* keys, calls and rotations (jwt.go:99-246).
THEOREM KeysAreRecent == KeysSpec => KeysRecent
<1> DEFINE Recent ==
        \A s \in Sessions :
            LET k == session'[s].kid IN
            /\ ~ Answered(s) /\ session'[s].step = "accepted" =>
                    k \in published \/ turned[k] < LateAccept
            /\ ~ Answered(s) /\ session'[s].step = "unknown" =>
                    k \notin published \/ turned[k] < LateRefuse
<1>1. ASSUME KeysInv, NEW s \in Sessions, NEW k \in Kids, NEW otherwise \in {"lock", "fetch"}
      PROVE  /\ Recalled(k, otherwise) = "accepted" =>
                    k \in published \/ turned[k] < LateAccept
             /\ Recalled(k, otherwise) = "unknown" =>
                    k \notin published \/ turned[k] < LateRefuse
  <2>0. keysLeft \in 0 .. KeysTTL /\ turned[k] \in Int /\ unknown[k] \in Int
    BY <1>1, KeysNumbers DEF KeysInv, MemoryRight
  <2>1. /\ keysLeft > 0 /\ k \in keys => Knows(k, TRUE, KeysTTL - keysLeft + FetchTime)
        /\ unknown[k] > 0 => Knows(k, FALSE, UnknownTTL - unknown[k] + FetchTime)
    BY <1>1 DEF KeysInv, MemoryRight
  <2>2. /\ Recalled(k, otherwise) = "accepted" => k \in keys /\ keysLeft > 0
        /\ Recalled(k, otherwise) = "unknown" => unknown[k] > 0
    BY <1>1 DEF Recalled
  <2>3. CASE Recalled(k, otherwise) = "accepted"
    BY <2>0, <2>1, <2>2, <2>3, KeysNumbers DEF Knows
  <2>4. CASE Recalled(k, otherwise) = "unknown"
    BY <2>0, <2>1, <2>2, <2>4, KeysNumbers DEF Knows
  <2> QED BY <2>3, <2>4
<1>2. ASSUME KeysInv, NEW s \in Sessions, Resolve(s)
      PROVE  /\ session'[s].kid = session[s].kid
             /\ session'[s].step = "accepted" =>
                    session[s].kid \in published \/ turned[session[s].kid] < LateAccept
             /\ session'[s].step = "unknown" =>
                    session[s].kid \notin published \/ turned[session[s].kid] < LateRefuse
  <2> DEFINE k == session[s].kid
  <2>1. session[s] \in Checking /\ session[s].step = "resolve"
    BY <1>2, CheckShape DEF Resolve, SessionAt, KeysInv
  <2>2. k \in Kids /\ session[s].pause \in 0 .. FetchTime
    BY <2>1 DEF Checking
  <2>3. Knows(k, k \in keys, session[s].pause) /\ turned[k] \in Int
    BY <1>2, <2>1, <2>2, KeysNumbers DEF KeysInv, SessionsRight, MemoryRight, SessionAt
  <2>4. session'[s] = [step |-> IF k \in keys THEN "accepted" ELSE "unknown",
                       kid |-> k, got |-> {}, pause |-> 0]
    <3>1. session \in [Sessions -> Checking \cup {NoSession}]
      BY <1>2 DEF KeysInv, SessionsRight
    <3>2. CASE k \in keys
      BY <1>2, <3>1, <3>2 DEF Resolve, Checks
    <3>3. CASE k \notin keys
      BY <1>2, <3>1, <3>3 DEF Resolve, Checks
    <3> QED BY <3>2, <3>3
  <2> HIDE DEF k
  <2>5. /\ k \in keys => k \in published \/ turned[k] < LateAccept
        /\ k \notin keys => k \notin published \/ turned[k] < LateRefuse
    BY <2>2, <2>3, KeysNumbers DEF Knows
  <2> QED BY <2>4, <2>5 DEF k
<1>3. KeysInv /\ [KeysNext]_keysVars => Recent
  <2> SUFFICES ASSUME KeysInv, [KeysNext]_keysVars, NEW s \in Sessions, ~ Answered(s),
                      session'[s].step \in {"accepted", "unknown"}
               PROVE  /\ session'[s].step = "accepted" =>
                             session'[s].kid \in published
                             \/ turned[session'[s].kid] < LateAccept
                      /\ session'[s].step = "unknown" =>
                             session'[s].kid \notin published
                             \/ turned[session'[s].kid] < LateRefuse
    OBVIOUS
  <2>0. session \in [Sessions -> Checking \cup {NoSession}] /\ session'[s].step # session[s].step
    BY DEF KeysInv, SessionsRight, Answered
  <2>1. ASSUME NEW k \in Kids, NEW otherwise \in {"lock", "fetch"},
               Checks(s, Recalled(k, otherwise), k, {}, 0)
        PROVE  session'[s].kid = k /\ session'[s].step = Recalled(k, otherwise)
    BY <2>0, <2>1 DEF Checks
  <2>2. ASSUME RecallAgain(s) PROVE session[s].kid \in Kids
    BY <2>2, CheckShape DEF RecallAgain, SessionAt, KeysInv, Checking
  <2>3. \/ \E k \in Kids : Verify(s, k)
        \/ RecallAgain(s)
        \/ Resolve(s)
    <3>1. ASSUME NEW r \in Sessions, NEW k \in Kids, Verify(r, k) PROVE Verify(s, k)
      BY <2>0, <3>1 DEF Verify, Checks
    <3>2. ASSUME NEW r \in Sessions, Check(r) PROVE RecallAgain(s) \/ Resolve(s)
      <4>1. r = s
        BY <2>0, <3>2 DEF Check, LockRefresh, RecallAgain, JWKSAnswers, RefreshFails,
                          InstallKeys, Resolve, EndCheck, Checks
      <4>2. ~ (LockRefresh(s) \/ JWKSAnswers(s) \/ RefreshFails(s) \/ InstallKeys(s)
               \/ EndCheck(s))
        BY <2>0 DEF LockRefresh, JWKSAnswers, RefreshFails, InstallKeys, EndCheck, Checks,
                    NoSession
      <4> QED BY <3>2, <4>1, <4>2 DEF Check
    <3>3. ~ KeysTick
      <4> SUFFICES ASSUME KeysTick PROVE FALSE
        OBVIOUS
      <4>1. session'[s] = IF Refreshing(s) THEN [session[s] EXCEPT !.pause = @ + 1]
                          ELSE session[s]
        BY DEF KeysTick
      <4>2. Refreshing(s) => session[s] \in Checking
        BY CheckShape DEF KeysInv, Refreshing
      <4> QED BY <2>0, <4>1, <4>2 DEF Checking
    <3>4. ~ (\E k \in Kids \ {EmptyKid} : Rotate(k)) /\ ~ UNCHANGED keysVars
      BY <2>0 DEF Rotate, keysVars
    <3> QED BY <3>1, <3>2, <3>3, <3>4 DEF KeysNext
  <2>4. ASSUME NEW k \in Kids, Verify(s, k)
        PROVE  session'[s].kid = k /\ session'[s].step = Recalled(k, "lock")
    BY <2>1, <2>4 DEF Verify
  <2>5. ASSUME RecallAgain(s)
        PROVE  /\ session'[s].kid = session[s].kid
               /\ session'[s].step = Recalled(session[s].kid, "fetch")
    BY <2>1, <2>2, <2>5 DEF RecallAgain
  <2> QED BY <1>1, <1>2, <2>2, <2>3, <2>4, <2>5
<1>4. KeysInv /\ [KeysNext]_keysVars => [Recent]_keysVars
  BY <1>3
<1> HIDE DEF Recent
<1>5. KeysSpec => [][Recent]_keysVars
  BY <1>4, KeysInvariant, PTL DEF KeysSpec
<1> QED BY <1>5, PTL DEF KeysRecent, Recent

-----------------------------------------------------------------------------
(* The origin's page on its way to a visitor. *)

\* The beginning of a page, and a page with a payload in it.
LEMMA BytesShape ==
  ASSUME NEW n \in Nat
  PROVE  /\ Bytes(n) \in Seq(Nat) /\ Len(Bytes(n)) = n
         /\ \A i \in 1 .. n : Bytes(n)[i] = i
         /\ OfOrigin(Bytes(n)) = n
<1>1. Bytes(n) \in Seq(Nat) /\ Len(Bytes(n)) = n /\ \A i \in 1 .. n : Bytes(n)[i] = i
  BY DEF Bytes
<1>2. DOMAIN Bytes(n) = 1 .. n
  BY DEF Bytes
<1> QED BY <1>1, <1>2 DEF OfOrigin, Payload

LEMMA WithPayloadShape ==
  ASSUME NEW n \in Nat, NEW at \in 0 .. n
  PROVE  /\ WithPayload(n, at) \in Seq(Nat) /\ Len(WithPayload(n, at)) = n + 1
         /\ \A i \in 1 .. n + 1 : WithPayload(n, at)[i] =
               IF i <= at THEN i ELSE IF i = at + 1 THEN Payload ELSE i - 1
         /\ OfOrigin(WithPayload(n, at)) = n
<1> DEFINE body == WithPayload(n, at)
<1>1. /\ DOMAIN body = 1 .. n + 1
      /\ \A i \in 1 .. n + 1 :
            body[i] = IF i <= at THEN i ELSE IF i = at + 1 THEN Payload ELSE i - 1
  BY DEF WithPayload
<1>2. body = [i \in 1 .. n + 1 |-> body[i]]
  BY DEF WithPayload
<1> HIDE DEF body
<1>3. \A i \in 1 .. n + 1 : body[i] \in Nat
  BY <1>1 DEF Payload
<1>4. body \in Seq(Nat) /\ Len(body) = n + 1
  <2>1. body \in [1 .. n + 1 -> Nat] /\ n + 1 \in Nat
    BY <1>2, <1>3
  <2> QED BY <2>1
<1>5. OfOrigin(body) = n
  <2>1. at + 1 \in DOMAIN body /\ body[at + 1] = Payload
    BY <1>1
  <2> QED BY <1>4, <2>1 DEF OfOrigin
<1> QED BY <1>1, <1>4, <1>5 DEF body

\* One more byte of the page.
LEMMA BytesGrow ==
  ASSUME NEW n \in Nat
  PROVE  Append(Bytes(n), n + 1) = Bytes(n + 1)
<1>1. Bytes(n) \in Seq(Nat) /\ Len(Bytes(n)) = n /\ \A i \in 1 .. n : Bytes(n)[i] = i
  BY BytesShape
<1>2. /\ Bytes(n + 1) \in Seq(Nat) /\ Len(Bytes(n + 1)) = n + 1
      /\ \A i \in 1 .. n + 1 : Bytes(n + 1)[i] = i
  BY BytesShape
<1>3. /\ Append(Bytes(n), n + 1) \in Seq(Nat) /\ Len(Append(Bytes(n), n + 1)) = n + 1
      /\ \A i \in 1 .. n : Append(Bytes(n), n + 1)[i] = Bytes(n)[i]
      /\ Append(Bytes(n), n + 1)[n + 1] = n + 1
  BY <1>1, AppendProperties
<1>4. \A i \in 1 .. n + 1 : Append(Bytes(n), n + 1)[i] = Bytes(n + 1)[i]
  BY <1>1, <1>2, <1>3
<1> QED BY <1>2, <1>3, <1>4, SeqEqual

\* Where the payload goes, the bytes before and after it stay as they are.
LEMMA InjectedPage ==
  ASSUME NEW n \in Nat \ {0}, NEW at \in 0 .. n
  PROVE  InjectPayload(Bytes(n), at) = WithPayload(n, at)
<1> DEFINE page1 == Bytes(n)
           before == SubSeq(page1, 1, at)
           after == SubSeq(page1, at + 1, n)
<1>1. page1 \in Seq(Nat) /\ Len(page1) = n /\ \A i \in 1 .. n : page1[i] = i
  BY BytesShape
<1>2. InjectPayload(page1, at) = before \o <<Payload>> \o after
  BY <1>1 DEF InjectPayload, Prefix
<1> HIDE DEF page1
<1>3. before \in Seq(Nat) /\ Len(before) = at /\ \A i \in 1 .. at : before[i] = i
  BY <1>1
<1>4. after \in Seq(Nat) /\ Len(after) = n - at /\ \A i \in 1 .. n - at : after[i] = at + i
  BY <1>1
<1>5. <<Payload>> \in Seq(Nat) /\ Len(<<Payload>>) = 1 /\ <<Payload>>[1] = Payload
  BY DEF Payload
<1> HIDE DEF before, after
<1> DEFINE whole == before \o <<Payload>> \o after
<1>6. /\ whole \in Seq(Nat) /\ Len(whole) = n + 1
      /\ \A i \in 1 .. n + 1 : whole[i] =
            IF i <= at THEN i ELSE IF i = at + 1 THEN Payload ELSE i - 1
  <2> DEFINE front == before \o <<Payload>>
  <2>1. /\ front \in Seq(Nat) /\ Len(front) = at + 1
        /\ \A i \in 1 .. at + 1 : front[i] = IF i <= at THEN i ELSE Payload
    BY <1>3, <1>5, ConcatProperties
  <2>2. whole = front \o after
    OBVIOUS
  <2> HIDE DEF front, whole
  <2>3. /\ whole \in Seq(Nat) /\ Len(whole) = Len(front) + Len(after)
        /\ \A i \in 1 .. Len(front) + Len(after) :
              whole[i] = IF i <= Len(front) THEN front[i] ELSE after[i - Len(front)]
    BY <1>4, <2>1, <2>2, ConcatProperties
  <2>4. ASSUME NEW i \in 1 .. n + 1
        PROVE  whole[i] = IF i <= at THEN i ELSE IF i = at + 1 THEN Payload ELSE i - 1
    <3>1. CASE i <= at + 1
      BY <1>4, <2>1, <2>3, <3>1
    <3>2. CASE i > at + 1
      <4>1. i - (at + 1) \in 1 .. n - at
        BY <3>2
      <4> QED BY <1>4, <2>1, <2>3, <3>2, <4>1
    <3> QED BY <3>1, <3>2
  <2> QED BY <1>4, <2>1, <2>3, <2>4
<1> HIDE DEF whole
<1>7. whole = WithPayload(n, at)
  <2>1. /\ WithPayload(n, at) \in Seq(Nat) /\ Len(WithPayload(n, at)) = n + 1
        /\ \A i \in 1 .. n + 1 : WithPayload(n, at)[i] =
               IF i <= at THEN i ELSE IF i = at + 1 THEN Payload ELSE i - 1
    BY WithPayloadShape
  <2> QED BY <1>6, <2>1, SeqEqual
<1> QED BY <1>2, <1>7 DEF whole, page1

\* What the visitor has got at each step of the proxy.
Untouched == received = [body |-> <<>>, length |-> Unknown, as |-> "nothing"]
Passing ==
    received = [body |-> Bytes(rewriting.taken), length |-> Declared, as |-> "open"]
PassedOn ==
    /\ received.as = IF page.end = "whole" THEN "complete" ELSE "aborted"
    /\ received.body = Bytes(page.sent)
    /\ received.length = Declared
Rewritten ==
    /\ received.as = "complete"
    /\ received.length = Len(received.body)
    /\ \/ received.body = Bytes(page.sent)
       \/ \E at \in 0 .. page.sent : received.body = WithPayload(page.sent, at)
Refused == received.as = "error page" /\ received.body = <<>>


\* The types, one party at a time.
OriginTypes ==
    /\ page \in [length : Lengths, declared : BOOLEAN, rewritable : BOOLEAN,
                 sent : Nat, end : Ends]
    /\ page.sent <= page.length
    /\ page.end = "whole" => page.sent = page.length
ProxyTypes ==
    /\ rewriting \in [step : {"headers", "buffer", "stream", "done"},
                      size : 0 .. Cap + 1, taken : 0 .. page.sent]
    /\ rewriting.step = "buffer" => rewriting.taken <= rewriting.size
VisitorTypes ==
    received \in [body : Seq(Nat), length : Nat \cup {Unknown},
                  as : {"nothing", "open", "complete", "aborted", "error page"}]

PageInv ==
    /\ OriginTypes /\ ProxyTypes /\ VisitorTypes
    /\ rewriting.step = "headers" => rewriting.taken = 0
    /\ rewriting.step \in {"headers", "buffer"} => Untouched
    /\ rewriting.step = "stream" => Passing
    /\ rewriting.step = "done" => page.end # "open" /\ (PassedOn \/ Rewritten \/ Refused)

LEMMA PageNumbers ==
  /\ Lengths \subseteq Nat /\ Cap \in Nat /\ FirstBuffer \in 1 .. Cap
  /\ Unknown = -1
  BY OriginPageAssumption DEF OriginPageAssumption, Unknown

\* The numbers on the way.
LEMMA PageShape ==
  ASSUME PageInv
  PROVE  /\ page.length \in Nat /\ page.sent \in Nat /\ page.sent <= page.length
         /\ page.declared \in BOOLEAN /\ page.end \in Ends
         /\ rewriting.size \in Nat /\ rewriting.taken \in Nat
         /\ Declared \in Nat \cup {Unknown}
<1>1. OriginTypes /\ ProxyTypes
  BY DEF PageInv
<1>2. page.length \in Nat /\ page.sent \in Nat /\ page.sent <= page.length
  BY <1>1, PageNumbers DEF OriginTypes
<1>3. page.declared \in BOOLEAN /\ page.end \in Ends
  BY <1>1 DEF OriginTypes
<1>4. rewriting.size \in Nat /\ rewriting.taken \in Nat
  BY <1>1, <1>2, PageNumbers DEF ProxyTypes
<1> QED BY <1>2, <1>3, <1>4 DEF Declared

\* A step that leaves the origin's page and its declared length alone.
LEMMA DeclaredStays ==
  ASSUME page'.length = page.length, page'.declared = page.declared
  PROVE  Declared' = Declared
  BY DEF Declared

LEMMA NoBytes == Bytes(0) = <<>> /\ <<>> \in Seq(Nat) /\ Len(<<>>) = 0
<1>1. Bytes(0) \in Seq(Nat) /\ Len(Bytes(0)) = 0
  BY BytesShape
<1> QED BY <1>1, EmptySeq

LEMMA PageInitRight ==
  ASSUME PageInit
  PROVE  PageInv
<1>1. OriginTypes
  <2>1. page \in [length : Lengths, declared : BOOLEAN, rewritable : BOOLEAN,
                  sent : {0}, end : {"open"}]
    BY DEF PageInit
  <2>2. /\ page \in [length : Lengths, declared : BOOLEAN, rewritable : BOOLEAN,
                      sent : Nat, end : Ends]
        /\ page.end = "open"
    BY <2>1 DEF Ends
  <2>3. page.sent = 0 /\ page.length \in Lengths
    BY <2>1
  <2>4. page.length \in Nat
    BY <2>3, PageNumbers
  <2>5. page.sent <= page.length
    BY <2>3, <2>4
  <2> QED BY <2>2, <2>5 DEF OriginTypes
<1>2. page.sent = 0
  BY DEF PageInit
<1>3. ProxyTypes
  BY <1>2, PageNumbers DEF PageInit, ProxyTypes
<1>4. VisitorTypes
  BY NoBytes DEF PageInit, VisitorTypes
<1> QED BY <1>1, <1>3, <1>4 DEF PageInit, PageInv, Untouched

LEMMA OriginSendsRight ==
  ASSUME PageInv, NEW n \in Lengths, OriginSends(n)
  PROVE  PageInv'
<1>1. /\ page.length \in Nat /\ page.sent \in Nat /\ n \in Nat
      /\ rewriting.taken \in Nat
  BY PageShape, PageNumbers
<1>2. /\ OriginTypes /\ ProxyTypes /\ VisitorTypes
      /\ page.end = "open" /\ page.sent + n <= page.length
      /\ page' = [page EXCEPT !.sent = page.sent + n]
      /\ rewriting' = rewriting /\ received' = received
  BY DEF OriginSends, PageInv
<1>3. page \in [length : Lengths, declared : BOOLEAN, rewritable : BOOLEAN,
                sent : Nat, end : Ends]
  BY <1>2 DEF OriginTypes
<1>4. /\ page' \in [length : Lengths, declared : BOOLEAN, rewritable : BOOLEAN,
                    sent : Nat, end : Ends]
      /\ page'.sent = page.sent + n /\ page'.length = page.length
      /\ page'.declared = page.declared /\ page'.end = "open"
  BY <1>1, <1>2, <1>3
<1>5. OriginTypes'
  BY <1>2, <1>4 DEF OriginTypes
<1>6. ProxyTypes'
  BY <1>1, <1>2, <1>4 DEF ProxyTypes
<1>7. VisitorTypes' /\ Declared' = Declared
  BY <1>2, <1>4, DeclaredStays DEF VisitorTypes
<1> QED BY <1>2, <1>5, <1>6, <1>7 DEF PageInv, Untouched, Passing

LEMMA OriginEndsRight ==
  ASSUME PageInv, NEW how \in Ends \ {"open"}, OriginEnds(how)
  PROVE  PageInv'
<1>1. /\ OriginTypes /\ ProxyTypes /\ VisitorTypes
      /\ page.end = "open" /\ (how = "whole" => page.sent = page.length)
      /\ page' = [page EXCEPT !.end = how]
      /\ rewriting' = rewriting /\ received' = received
  BY DEF OriginEnds, PageInv
<1>2. page \in [length : Lengths, declared : BOOLEAN, rewritable : BOOLEAN,
                sent : Nat, end : Ends]
  BY <1>1 DEF OriginTypes
<1>3. /\ page' \in [length : Lengths, declared : BOOLEAN, rewritable : BOOLEAN,
                    sent : Nat, end : Ends]
      /\ page'.sent = page.sent /\ page'.length = page.length
      /\ page'.declared = page.declared /\ page'.end = how
  BY <1>1, <1>2
<1>4. OriginTypes'
  BY <1>1, <1>3 DEF OriginTypes
<1>5. ProxyTypes'
  BY <1>1, <1>3 DEF ProxyTypes
<1>6. VisitorTypes' /\ Declared' = Declared
  BY <1>1, <1>3, DeclaredStays DEF VisitorTypes
<1> QED BY <1>1, <1>4, <1>5, <1>6 DEF PageInv, Untouched, Passing

LEMMA DeceiveResponseRight ==
  ASSUME PageInv, DeceiveResponse
  PROVE  PageInv'
<1>1. /\ page.length \in Nat /\ page.sent \in Nat /\ Declared \in Nat \cup {Unknown}
  BY PageShape
<1>2. /\ OriginTypes /\ ProxyTypes /\ VisitorTypes /\ Untouched
      /\ rewriting.step = "headers" /\ rewriting.taken = 0 /\ page' = page
  BY DEF DeceiveResponse, PageInv
<1>3. OriginTypes' /\ Declared' = Declared
  BY <1>2, DeclaredStays DEF OriginTypes
<1>4. CASE ~ page.rewritable \/ Declared > Cap
  <2>1. /\ rewriting' = [rewriting EXCEPT !.step = "stream"]
        /\ received' = [body |-> <<>>, length |-> Declared, as |-> "open"]
    BY <1>4 DEF DeceiveResponse
  <2>2. ProxyTypes' /\ rewriting'.step = "stream" /\ rewriting'.taken = 0
    BY <1>1, <1>2, <2>1 DEF ProxyTypes
  <2>3. VisitorTypes'
    BY <1>1, <2>1, NoBytes DEF VisitorTypes
  <2>4. Passing'
    BY <1>3, <2>1, <2>2, NoBytes DEF Passing
  <2> QED BY <1>3, <2>2, <2>3, <2>4 DEF PageInv
<1>5. CASE ~ (~ page.rewritable \/ Declared > Cap)
  <2>1. /\ rewriting' = [step |-> "buffer", taken |-> 0,
                         size |-> IF page.declared THEN page.length + 1 ELSE FirstBuffer]
        /\ received' = received
    BY <1>5 DEF DeceiveResponse
  <2>2. rewriting'.size \in 0 .. Cap + 1
    <3>1. page.declared => page.length <= Cap
      BY <1>1, <1>5, PageNumbers DEF Declared
    <3> QED BY <1>1, <2>1, <3>1, PageNumbers
  <2>3. ProxyTypes' /\ rewriting'.step = "buffer"
    BY <1>1, <1>2, <2>1, <2>2 DEF ProxyTypes
  <2> QED BY <1>2, <1>3, <2>1, <2>3 DEF PageInv, VisitorTypes, Untouched
<1> QED BY <1>4, <1>5

LEMMA GrowBufferRight ==
  ASSUME PageInv, GrowBuffer
  PROVE  PageInv'
<1>1. /\ page.sent \in Nat /\ rewriting.size \in Nat /\ Cap \in Nat
  BY PageShape, PageNumbers
<1>2. /\ OriginTypes /\ ProxyTypes /\ VisitorTypes /\ Untouched
      /\ rewriting.step = "buffer" /\ rewriting.size <= page.sent /\ rewriting.size <= Cap
      /\ rewriting' = [rewriting EXCEPT !.taken = rewriting.size, !.size = Cap + 1]
      /\ page' = page /\ received' = received
  BY <1>1 DEF GrowBuffer, BufferFull, PageInv
<1>3. OriginTypes' /\ VisitorTypes' /\ Untouched'
  BY <1>2 DEF OriginTypes, VisitorTypes, Untouched
<1>4. rewriting' = [step |-> "buffer", size |-> Cap + 1, taken |-> rewriting.size]
  BY <1>2 DEF ProxyTypes
<1>5. ProxyTypes' /\ rewriting'.step = "buffer"
  BY <1>1, <1>2, <1>4 DEF ProxyTypes
<1> QED BY <1>3, <1>5, <1>4 DEF PageInv

LEMMA HandBackRight ==
  ASSUME PageInv, HandBack
  PROVE  PageInv'
<1>1. /\ page.sent \in Nat /\ rewriting.size \in Nat
      /\ Declared \in Nat \cup {Unknown}
  BY PageShape
<1>2. /\ OriginTypes /\ ProxyTypes
      /\ rewriting.size <= page.sent
      /\ rewriting' = [rewriting EXCEPT !.step = "stream", !.taken = rewriting.size]
      /\ received' = [body |-> Bytes(rewriting.size), length |-> Declared, as |-> "open"]
      /\ page' = page
  BY <1>1 DEF HandBack, BufferFull, PageInv
<1>3. OriginTypes' /\ Declared' = Declared
  BY <1>2, DeclaredStays DEF OriginTypes
<1>4. ProxyTypes' /\ rewriting'.step = "stream" /\ rewriting'.taken = rewriting.size
  <2>1. /\ rewriting.size \in 0 .. Cap + 1
        /\ rewriting' = [step |-> "stream", size |-> rewriting.size, taken |-> rewriting.size]
    BY <1>2 DEF ProxyTypes
  <2> QED BY <1>1, <1>2, <2>1 DEF ProxyTypes
<1>5. VisitorTypes'
  BY <1>1, <1>2, BytesShape DEF VisitorTypes
<1> QED BY <1>2, <1>3, <1>4, <1>5 DEF PageInv, Passing

LEMMA PageRewriteRight ==
  ASSUME PageInv, NEW at \in 0 .. Cap, Rewrite(at)
  PROVE  PageInv'
<1> DEFINE body == InjectPayload(Bytes(page.sent), at)
<1>1. page.sent \in Nat /\ rewriting.size \in Nat /\ at \in 0 .. page.sent
  BY PageShape DEF Rewrite
<1>2. /\ OriginTypes /\ ProxyTypes /\ page.end # "open"
      /\ rewriting' = [rewriting EXCEPT !.step = "done", !.taken = page.sent]
      /\ received' = [body |-> body, length |-> Len(body), as |-> "complete"]
      /\ page' = page
  BY DEF Rewrite, PageInv, LengthSent
<1>3. /\ body \in Seq(Nat) /\ Len(body) \in Nat
      /\ body = Bytes(page.sent) \/ body = WithPayload(page.sent, at)
  <2>1. CASE page.sent = 0
    <3>1. body = <<>> /\ Bytes(page.sent) = <<>>
      BY <2>1, NoBytes DEF InjectPayload
    <3> QED BY <3>1, NoBytes
  <2>2. CASE page.sent # 0
    <3>1. body = WithPayload(page.sent, at)
      BY <1>1, <2>2, InjectedPage
    <3>2. /\ WithPayload(page.sent, at) \in Seq(Nat)
          /\ Len(WithPayload(page.sent, at)) = page.sent + 1
      BY <1>1, WithPayloadShape
    <3> QED BY <1>1, <3>1, <3>2
  <2> QED BY <2>1, <2>2
<1> HIDE DEF body
<1>4. OriginTypes' /\ page'.end # "open"
  BY <1>2 DEF OriginTypes
<1>5. ProxyTypes' /\ rewriting'.step = "done"
  <2>1. /\ rewriting.size \in 0 .. Cap + 1
        /\ rewriting' = [step |-> "done", size |-> rewriting.size, taken |-> page.sent]
    BY <1>2 DEF ProxyTypes
  <2>2. page.sent \in 0 .. page.sent /\ page' = page
    BY <1>1, <1>2
  <2> QED BY <2>1, <2>2 DEF ProxyTypes
<1>6. VisitorTypes'
  BY <1>2, <1>3 DEF VisitorTypes
<1>7. Rewritten'
  BY <1>1, <1>2, <1>3 DEF Rewritten
<1> QED BY <1>4, <1>5, <1>6, <1>7 DEF PageInv

LEMMA ReadFailsRight ==
  ASSUME PageInv, ReadFails
  PROVE  PageInv'
<1>1. /\ OriginTypes /\ ProxyTypes /\ Untouched /\ page.end = "broken"
      /\ page.sent \in Nat
      /\ rewriting' = [rewriting EXCEPT !.step = "done"]
      /\ received' = [received EXCEPT !.as = "error page"]
      /\ page' = page
  BY PageShape DEF ReadFails, PageInv
<1>2. OriginTypes' /\ page'.end # "open"
  BY <1>1 DEF OriginTypes
<1>3. ProxyTypes' /\ rewriting'.step = "done"
  BY <1>1 DEF ProxyTypes
<1>4. received' = [body |-> <<>>, length |-> Unknown, as |-> "error page"]
  BY <1>1 DEF Untouched
<1>5. VisitorTypes' /\ Refused'
  BY <1>4, NoBytes DEF VisitorTypes, Refused
<1> QED BY <1>2, <1>3, <1>5 DEF PageInv

LEMMA CopyMoreRight ==
  ASSUME PageInv, CopyMore
  PROVE  PageInv'
<1>1. /\ page.sent \in Nat /\ rewriting.taken \in Nat /\ rewriting.size \in Nat
      /\ Declared \in Nat \cup {Unknown}
  BY PageShape
<1>2. /\ OriginTypes /\ ProxyTypes /\ Passing
      /\ rewriting.step = "stream" /\ rewriting.taken < page.sent
      /\ received' = [received EXCEPT !.body = Append(received.body, rewriting.taken + 1)]
      /\ rewriting' = [rewriting EXCEPT !.taken = rewriting.taken + 1]
      /\ page' = page
  BY DEF CopyMore, PageInv
<1>3. received' = [body |-> Bytes(rewriting.taken + 1), length |-> Declared, as |-> "open"]
  BY <1>1, <1>2, BytesGrow DEF Passing
<1>4. OriginTypes' /\ Declared' = Declared
  BY <1>2, DeclaredStays DEF OriginTypes
<1>5. /\ ProxyTypes' /\ rewriting'.step = "stream"
      /\ rewriting'.taken = rewriting.taken + 1
  BY <1>1, <1>2 DEF ProxyTypes
<1>6. VisitorTypes'
  BY <1>1, <1>3, BytesShape DEF VisitorTypes
<1> QED BY <1>3, <1>4, <1>5, <1>6 DEF PageInv, Passing

LEMMA CopyEndsRight ==
  ASSUME PageInv, CopyEnds
  PROVE  PageInv'
<1>1. /\ page.sent \in Nat /\ Declared \in Nat \cup {Unknown}
      /\ Bytes(page.sent) \in Seq(Nat)
  BY PageShape, BytesShape
<1>2. /\ OriginTypes /\ ProxyTypes /\ Passing
      /\ rewriting.taken = page.sent /\ page.end # "open"
      /\ received' = [received EXCEPT !.as = IF page.end = "whole" THEN "complete" ELSE "aborted"]
      /\ rewriting' = [rewriting EXCEPT !.step = "done"]
      /\ page' = page
  BY DEF CopyEnds, PageInv
<1>3. received' = [body |-> Bytes(page.sent), length |-> Declared,
                   as |-> IF page.end = "whole" THEN "complete" ELSE "aborted"]
  BY <1>2 DEF Passing
<1>4. OriginTypes' /\ Declared' = Declared /\ page'.end # "open"
  BY <1>2, DeclaredStays DEF OriginTypes
<1>5. ProxyTypes' /\ rewriting'.step = "done"
  BY <1>1, <1>2 DEF ProxyTypes
<1>6. VisitorTypes'
  BY <1>1, <1>3 DEF VisitorTypes
<1>7. PassedOn'
  BY <1>2, <1>3, <1>4 DEF PassedOn
<1> QED BY <1>4, <1>5, <1>6, <1>7 DEF PageInv

LEMMA PageStutters ==
  ASSUME PageInv, UNCHANGED pageVars
  PROVE  PageInv'
<1>1. page' = page /\ rewriting' = rewriting /\ received' = received
  BY DEF pageVars
<1>2. Declared' = Declared
  BY <1>1, DeclaredStays
<1> QED BY <1>1, <1>2 DEF PageInv, OriginTypes, ProxyTypes, VisitorTypes,
  Untouched, Passing, PassedOn, Rewritten, Refused

\* What a visitor holds of a page is what the step of the proxy says it is.
THEOREM PageInvariant == PageSpec => []PageInv
<1>1. PageInit => PageInv
  BY PageInitRight
<1>2. PageInv /\ [PageNext]_pageVars => PageInv'
  <2> SUFFICES ASSUME PageInv, [PageNext]_pageVars PROVE PageInv'
    OBVIOUS
  <2>1. CASE UNCHANGED pageVars
    BY <2>1, PageStutters
  <2>2. CASE \E n \in Lengths : n > 0 /\ OriginSends(n)
    BY <2>2, OriginSendsRight
  <2>3. CASE \E how \in Ends \ {"open"} : OriginEnds(how)
    BY <2>3, OriginEndsRight
  <2>4. CASE DeceiveResponse
    BY <2>4, DeceiveResponseRight
  <2>5. CASE GrowBuffer
    BY <2>5, GrowBufferRight
  <2>6. CASE HandBack
    BY <2>6, HandBackRight
  <2>7. CASE \E at \in 0 .. Cap : Rewrite(at)
    BY <2>7, PageRewriteRight
  <2>8. CASE ReadFails
    BY <2>8, ReadFailsRight
  <2>9. CASE CopyMore
    BY <2>9, CopyMoreRight
  <2>10. CASE CopyEnds
    BY <2>10, CopyEndsRight
  <2>11. CASE PageDone
    BY <2>11, PageStutters DEF PageDone
  <2> QED BY <2>1, <2>2, <2>3, <2>4, <2>5, <2>6, <2>7, <2>8, <2>9, <2>10, <2>11 DEF PageNext
<1> QED BY <1>1, <1>2, PTL DEF PageSpec

\* The types of the page on its way (pkg/core/proxy.go, pkg/deception).
THEOREM PageTypeCorrect == PageSpec => []PageTypeOK
<1>1. PageInv => PageTypeOK
  BY DEF PageInv, OriginTypes, ProxyTypes, VisitorTypes, PageTypeOK
<1> QED BY <1>1, PageInvariant, PTL

\* The beginning of a page is intact, and so is a page with a payload in it.
LEMMA StartIsIntact ==
  ASSUME NEW n \in Nat, received.body = Bytes(n)
  PROVE  /\ OfOrigin(received.body) = n /\ Len(received.body) = n
         /\ received.body = Bytes(OfOrigin(received.body))
  BY BytesShape

LEMMA InjectedIsIntact ==
  ASSUME NEW n \in Nat, NEW at \in 0 .. n, received.body = WithPayload(n, at)
  PROVE  /\ OfOrigin(received.body) = n
         /\ \E a \in 0 .. OfOrigin(received.body) :
               received.body = WithPayload(OfOrigin(received.body), a)
  BY WithPayloadShape

\* Whatever the origin, its pace, the cap and the buffers: a visitor gets the
\* origin's bytes in their order with at most one payload among them, and a
\* complete answer is as long as it says and is whole if the page was
\* (deceiveResponse and readBody, pkg/core/proxy.go; InjectPayload).
THEOREM PageArrivesIntact == PageSpec => []BodyIntact
<1>1. PageInv => BodyIntact
  <2> SUFFICES ASSUME PageInv PROVE BodyIntact
    OBVIOUS
  <2> DEFINE n == OfOrigin(received.body)
  <2>1. /\ page.sent \in Nat /\ page.length \in Nat /\ rewriting.taken \in Nat
        /\ page.end = "whole" => page.sent = page.length
        /\ rewriting.step \in {"headers", "buffer", "stream", "done"}
    BY PageShape DEF PageInv, OriginTypes, ProxyTypes
  <2>2. CASE Untouched
    <3>1. received.body = Bytes(0) /\ received.as = "nothing"
      BY <2>2, NoBytes DEF Untouched
    <3>2. received.body = Bytes(n)
      BY <3>1, StartIsIntact
    <3> QED BY <3>1, <3>2 DEF BodyIntact
  <2>3. CASE Passing
    <3>1. received.body = Bytes(rewriting.taken) /\ received.as = "open"
      BY <2>3 DEF Passing
    <3>2. received.body = Bytes(n)
      BY <2>1, <3>1, StartIsIntact
    <3> QED BY <3>1, <3>2 DEF BodyIntact
  <2>4. CASE PassedOn
    <3>1. received.body = Bytes(n) /\ n = page.sent /\ Len(received.body) = page.sent
      BY <2>1, <2>4, StartIsIntact DEF PassedOn
    <3>2. ASSUME received.as = "complete"
          PROVE  n = page.length /\ received.length \in {Unknown, Len(received.body)}
      <4>1. page.end = "whole"
        BY <2>4, <3>2 DEF PassedOn
      <4> QED BY <2>1, <2>4, <3>1, <4>1 DEF PassedOn, Declared
    <3> QED BY <3>1, <3>2 DEF BodyIntact
  <2>5. CASE Rewritten
    <3>1. received.length = Len(received.body)
      BY <2>5 DEF Rewritten
    <3>2. CASE received.body = Bytes(page.sent)
      <4>1. received.body = Bytes(n) /\ n = page.sent
        BY <2>1, <3>2, StartIsIntact
      <4> QED BY <2>1, <3>1, <4>1 DEF BodyIntact
    <3>3. CASE \E at \in 0 .. page.sent : received.body = WithPayload(page.sent, at)
      <4>1. n = page.sent /\ \E a \in 0 .. n : received.body = WithPayload(n, a)
        BY <2>1, <3>3, InjectedIsIntact
      <4> QED BY <2>1, <3>1, <4>1 DEF BodyIntact
    <3> QED BY <2>5, <3>2, <3>3 DEF Rewritten
  <2>6. CASE Refused
    <3>1. received.body = Bytes(0) /\ received.as = "error page"
      BY <2>6, NoBytes DEF Refused
    <3>2. received.body = Bytes(n)
      BY <3>1, StartIsIntact
    <3> QED BY <3>1, <3>2 DEF BodyIntact
  <2> QED BY <2>1, <2>2, <2>3, <2>4, <2>5, <2>6 DEF PageInv
<1> QED BY <1>1, PageInvariant, PTL
=============================================================================
