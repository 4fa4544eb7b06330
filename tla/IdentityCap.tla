----------------------------- MODULE IdentityCap -----------------------------
(***************************************************************************)
(* How many samples one client may contribute (pkg/labels/cap.go), as      *)
(* operators on the cap's value: the entry of each identity, with the age  *)
(* of its window, and the time since the last sweep.  Every operation runs *)
(* under the cap's mutex, so each is one step of whoever calls it.         *)
(***************************************************************************)
EXTENDS Integers, FiniteSets

CONSTANTS
    Identities,         \* (tenant, IP, JA4) triples
    MaxPerIdentity,
    CapWindow,          \* ticks (one hour)
    MaxIdentities,      \* maxTrackedIdentities
    MinCapSweep,        \* ticks between sweeps (one minute)
    NoEntry

ASSUME CapAssumption ==
    /\ MaxPerIdentity \in Nat \ {0}
    /\ CapWindow \in Nat \ {0}
    /\ MaxIdentities \in Nat
    /\ MinCapSweep \in Nat
    /\ NoEntry \notin [count : Nat, age : Nat]

\* Ages stop at the limit they are compared with.
CapEntry == [count : 1 .. MaxPerIdentity, age : 0 .. CapWindow]
Caps == [seen : [Identities -> CapEntry \cup {NoEntry}], swept : 0 .. MinCapSweep]
NoCaps == [seen |-> [i \in Identities |-> NoEntry], swept |-> MinCapSweep]

Tracked(seen) == {i \in Identities : seen[i] # NoEntry}
InWindow(entry) == entry # NoEntry /\ entry.age < CapWindow

\* sweepLocked: entries whose window has passed are dropped.
SweptCaps(cap) ==
    [seen |-> [i \in Identities |-> IF InWindow(cap.seen[i]) THEN cap.seen[i] ELSE NoEntry],
     swept |-> 0]

\* A full table is swept before a new identity is tracked, but not too often.
CapFull(cap) == Cardinality(Tracked(cap.seen)) >= MaxIdentities
MadeRoom(cap, i) ==
    IF cap.seen[i] = NoEntry /\ CapFull(cap) /\ cap.swept >= MinCapSweep
    THEN SweptCaps(cap) ELSE cap

\* allow: may this identity contribute another sample?
Allows_OffByOne(cap, i) ==
    IF InWindow(cap.seen[i]) THEN cap.seen[i].count <= MaxPerIdentity
    ELSE cap.seen[i] # NoEntry \/ ~ CapFull(MadeRoom(cap, i))
Allows(cap, i) ==
    IF InWindow(cap.seen[i]) THEN cap.seen[i].count < MaxPerIdentity
    ELSE cap.seen[i] # NoEntry \/ ~ CapFull(MadeRoom(cap, i))

\* A sample counts in its identity's window, or starts a new one.
Incremented(entry) ==
    IF InWindow(entry) THEN [entry EXCEPT !.count = @ + 1] ELSE [count |-> 1, age |-> 0]

\* What allow leaves behind, whatever it answers.
AfterAllow(cap, i) ==
    LET roomy == MadeRoom(cap, i)
    IN  IF ~ Allows(cap, i) THEN roomy
        ELSE [roomy EXCEPT !.seen[i] = Incremented(@)]

OlderCaps(cap) ==
    [seen |-> [i \in Identities |->
                 IF InWindow(cap.seen[i]) THEN [cap.seen[i] EXCEPT !.age = @ + 1]
                 ELSE cap.seen[i]],
     swept |-> IF cap.swept < MinCapSweep THEN cap.swept + 1 ELSE cap.swept]
=============================================================================
