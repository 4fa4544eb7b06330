---------------------------- MODULE PendingSamples ----------------------------
(***************************************************************************)
(* Samples of challenges that were issued and not yet solved               *)
(* (pkg/labels/pending.go), as operators on the store's value: the sample  *)
(* parked under each nonce, with its age, and the time since the last      *)
(* sweep.  Every operation runs under the store's mutex.                   *)
(***************************************************************************)
EXTENDS Integers, FiniteSets

CONSTANTS
    Nonces,             \* challenges; a nonce is random, so issued once
    Clients,            \* who a sample counts against
    PendingTTL,         \* ticks (ten minutes)
    MaxPending,
    MinPendingSweep,    \* ticks between sweeps (one minute)
    NotParked

ASSUME PendingAssumption ==
    /\ PendingTTL \in Nat \ {0}
    /\ MaxPending \in Nat
    /\ MinPendingSweep \in Nat

\* Ages stop at the limit they are compared with.
PendingEntry == [identity : Clients, age : 0 .. PendingTTL]
Pendings == [parked : [Nonces -> PendingEntry \cup {NotParked}],
             swept : 0 .. MinPendingSweep]
NoPendings == [parked |-> [n \in Nonces |-> NotParked], swept |-> MinPendingSweep]

Parked(pending) == {n \in Nonces : pending.parked[n] # NotParked}
Unexpired(entry) == entry # NotParked /\ entry.age < PendingTTL
PendingFull(pending) == Cardinality(Parked(pending)) >= MaxPending

SweptPendings(pending) ==
    [parked |-> [n \in Nonces |-> IF Unexpired(pending.parked[n])
                                  THEN pending.parked[n] ELSE NotParked],
     swept |-> 0]

\* park: a full store is swept, and if it stays full the sample is lost.
Park(pending, n, i) ==
    LET roomy == IF PendingFull(pending) /\ pending.swept >= MinPendingSweep
                 THEN SweptPendings(pending) ELSE pending
    IN  IF PendingFull(roomy) THEN roomy
        ELSE [roomy EXCEPT !.parked[n] = [identity |-> i, age |-> 0]]

\* claim: the entry goes, and its sample is handed out unless it expired.
Claimable(pending, n) == Unexpired(pending.parked[n])
AfterClaim_Keeps(pending, n) == pending
AfterClaim(pending, n) == [pending EXCEPT !.parked[n] = NotParked]

OlderPendings(pending) ==
    [parked |-> [n \in Nonces |->
                   IF Unexpired(pending.parked[n])
                   THEN [pending.parked[n] EXCEPT !.age = @ + 1]
                   ELSE pending.parked[n]],
     swept |-> IF pending.swept < MinPendingSweep THEN pending.swept + 1 ELSE pending.swept]
=============================================================================
