------------------------------- MODULE Forward -------------------------------
(***************************************************************************)
(* Who a request is from, and what the origin is told of it (pkg/core:     *)
(* identity.go, capture.go, proxy.go).                                     *)
(*                                                                         *)
(* A request reaches the node through any number of the operator's own     *)
(* proxies.  Each appends the address it was called from to                *)
(* X-Forwarded-For, which the visitor may have begun, and filled with      *)
(* anything; so may be every other header.                                 *)
(***************************************************************************)
EXTENDS Integers, Sequences

CONSTANTS
    Trusted,        \* addresses of the operator's proxies
    Outside,        \* all others
    Garbage,        \* what is no address
    Hosts,          \* names a request may ask for
    MaxForged,      \* entries a visitor begins the header with
    MaxHops         \* proxies on the way

ASSUME ForwardAssumption ==
    /\ Trusted \cap Outside = {}
    /\ Garbage \notin Trusted \cup Outside
    /\ "forged" \notin Trusted \cup Outside
    /\ MaxForged \in Nat /\ MaxHops \in Nat

VARIABLES
    message,        \* the request on its way
    known,          \* what the node makes of it
    told            \* the headers the origin gets

forwardVars == <<message, known, told>>

Addresses == Trusted \cup Outside
None == "none"
Malformed == "malformed"    \* a name that canonicalHost empties

\* Headers that only the node may set.
Identity == {"X-Forwarded-For", "X-Real-IP"}
OtherIdentity == {"True-Client-IP", "CF-Connecting-IP", "X-Client-IP",
                  "Fastly-Client-IP", "X-Cluster-Client-IP"}
Verdicts == {"X-HakaiShield-Decision", "X-HakaiShield-Score"}
Ja4Header == "X-HakaiShield-JA4"
UAMismatchHeader == "X-HakaiShield-UA-Mismatch"
SignalsHeader == "X-HakaiShield-Signals"
Headers == Identity \cup OtherIdentity \cup Verdicts
           \cup {Ja4Header, UAMismatchHeader, SignalsHeader}

Connections == {"plain", "unreadable", "readable"}

Messages ==
    [visitor : Outside, peer : Addresses, forwarded : Seq(Addresses \cup {Garbage}),
     hops : 0 .. MaxHops, forged : SUBSET Headers, connection : Connections,
     host : Hosts \cup {Malformed}, sni : Hosts \cup {Malformed, None},
     at : {"network", "node", "origin", "refused"}]

ForwardTypeOK ==
    /\ message \in Messages
    /\ known \in [ip : Addresses \cup {None}, deceived : BOOLEAN]
    /\ DOMAIN told \subseteq Headers

\* The visitor sends what it likes.
ForwardInit ==
    /\ \E v \in Outside, n \in 0 .. MaxForged, forged \in {{}, Headers},
          host \in Hosts \cup {Malformed} :
       \E begun \in [1 .. n -> Addresses \cup {Garbage}] :
        message = [visitor |-> v, peer |-> v, forwarded |-> begun, hops |-> 0, forged |-> forged,
                   connection |-> "plain", host |-> host, sni |-> None, at |-> "network"]
    /\ known = [ip |-> None, deceived |-> FALSE]
    /\ told = <<>>

-----------------------------------------------------------------------------
(* On the way. *)

\* A proxy appends to the header; the first may also begin it anew.
PassProxy(p, anew) ==
    /\ message.at = "network" /\ message.hops < MaxHops
    /\ anew => message.hops = 0
    /\ message' = [message EXCEPT
            !.forwarded = IF anew THEN <<message.peer>> ELSE Append(@, message.peer),
            !.peer = p, !.hops = @ + 1]
    /\ UNCHANGED <<known, told>>

\* Only TLS names a host of its own, if the client wants.
ArriveOver(connection, sni) ==
    /\ message.at = "network"
    /\ connection = "plain" => sni = None
    /\ message' = [message EXCEPT !.at = "node", !.connection = connection, !.sni = sni]
    /\ UNCHANGED <<known, told>>

-----------------------------------------------------------------------------
(* The node. *)

\* forwardedIPs: one entry that is no address spoils the header.
Legible(forwarded) ==
    forwarded # <<>> /\ \A i \in DOMAIN forwarded : forwarded[i] # Garbage

Untrusted(forwarded) == {i \in DOMAIN forwarded : forwarded[i] \notin Trusted}

Nearest_Farthest(positions) == CHOOSE i \in positions : \A j \in positions : i <= j

\* Of those in the header, the one its end is closest to.
Nearest(positions) == CHOOSE i \in positions : \A j \in positions : j <= i

\* A header is worth reading only if a trusted proxy hands it over.
ClientIP(peer, forwarded) ==
    IF \/ peer \notin Trusted
       \/ ~ Legible(forwarded)
       \/ Untrusted(forwarded) = {}
    THEN peer
    ELSE forwarded[Nearest(Untrusted(forwarded))]

\* validatedRequestHost and hostMatchesTLS
HostMatchesTLS(host, sni) == host # Malformed /\ (sni = None \/ sni = host)

\* Guard: the host is checked, the address resolved (WithClientIP), and a
\* visitor that goes on to the origin may be one to deceive (WithDecision).
GuardRequest(deceived) ==
    /\ message.at = "node" /\ known.ip = None
    /\ IF HostMatchesTLS(message.host, message.sni)
       THEN /\ known' = [known EXCEPT !.ip = ClientIP(message.peer, message.forwarded),
                                      !.deceived = deceived]
            /\ UNCHANGED message
       ELSE message' = [message EXCEPT !.at = "refused"] /\ UNCHANGED known
    /\ UNCHANGED told

\* JA4FromContext: a handshake that could not be read is not the lack of one.
JA4FromContext(connection) ==
    IF connection = "plain" THEN None
    ELSE IF connection = "unreadable" THEN "unreadable" ELSE "fingerprint"

\* UAMismatch, of a user agent that claims a browser or does not: without
\* TLS there is nothing to compare.
UAMismatch(claims, ja4, unlike) == claims /\ (ja4 = "unreadable" \/ (ja4 # None /\ unlike))

\* What the node itself has to say.
OwnHeaders(mismatch) ==
    LET ja4 == JA4FromContext(message.connection)
        own == Identity
               \cup (IF ja4 = None THEN {} ELSE {Ja4Header})
               \cup (IF mismatch THEN {UAMismatchHeader} ELSE {})
               \cup (IF known.deceived THEN Verdicts ELSE {})
    IN  [h \in own |-> IF h \in Identity THEN known.ip
                         ELSE IF h = Ja4Header THEN ja4
                         ELSE IF h = UAMismatchHeader THEN "true" ELSE "deceive"]

\* Of what the visitor made up: every such header is deleted first.
Unstripped(forged) == forged \ Headers

\* Rewrite
RewriteRequest(claims, unlike) ==
    LET mismatch == UAMismatch(claims, JA4FromContext(message.connection), unlike)
        own == OwnHeaders(mismatch)
        unstripped == Unstripped(message.forged) \ DOMAIN own
    IN  /\ message.at = "node" /\ known.ip # None
        /\ message' = [message EXCEPT !.at = "origin"]
        /\ UNCHANGED known
        /\ told' = [h \in DOMAIN own \cup unstripped |->
                        IF h \in DOMAIN own THEN own[h] ELSE "forged"]

RequestDone == message.at \in {"origin", "refused"} /\ UNCHANGED forwardVars

ForwardNext ==
    \/ \E p \in Trusted, anew \in BOOLEAN : PassProxy(p, anew)
    \/ \E connection \in Connections, sni \in Hosts \cup {Malformed, None} :
            ArriveOver(connection, sni)
    \/ \E deceived \in BOOLEAN : GuardRequest(deceived)
    \/ \E claims, unlike \in BOOLEAN : RewriteRequest(claims, unlike)
    \/ RequestDone

ForwardSpec == ForwardInit /\ [][ForwardNext]_forwardVars

-----------------------------------------------------------------------------
(* What must hold. *)

\* Whatever a visitor begins X-Forwarded-For with and however many proxies
\* add to it, it is known by the address it called the first of them from.
\* With something illegible in the header it goes by the last proxy's, never
\* by one it chose.  And the origin is told that address, and nothing that
\* the visitor made up.
NeverForged ==
    /\ known.ip # None =>
        known.ip = IF /\ message.hops > 0
                      /\ \E i \in DOMAIN message.forwarded : message.forwarded[i] = Garbage
                   THEN message.peer
                   ELSE message.visitor
    /\ message.at = "origin" =>
        /\ told["X-Forwarded-For"] = known.ip /\ told["X-Real-IP"] = known.ip
        /\ \A h \in DOMAIN told : told[h] # "forged"
=============================================================================
