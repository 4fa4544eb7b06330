----------------------------- MODULE NonceStore -----------------------------
(***************************************************************************)
(* A node's own memory of used challenges, localNonceStore                 *)
(* (pkg/challenge/challenge.go).  One call of Consume is one step: it runs *)
(* under the store's mutex.                                                *)
(*                                                                         *)
(* A marker carries what is left of its lifetime, which may be negative    *)
(* when nothing has swept it yet.  The caller's clock reading can be older *)
(* than the step by "lag" ticks, so the queue need not be chronological.   *)
(***************************************************************************)
EXTENDS Integers, Sequences, FiniteSets

CONSTANTS
    Nonces,         \* puzzles
    MaxAge,         \* lifetime of a puzzle and of its marker (2 min), in ticks
    MaxStored,      \* markers kept (50 000)
    CompactAfter    \* dropped queue slots kept before compaction (1024)

ASSUME StoreAssumption ==
    /\ IsFiniteSet(Nonces)
    /\ MaxAge \in Nat \ {0}
    /\ MaxStored \in Nat \ {0}
    /\ CompactAfter \in Nat

\* "used" is the map's keys; "ordered" the queue, of which "head" slots are blank.
EmptyStore == [used |-> {}, ordered |-> <<>>, head |-> 0]

Blank == [nonce |-> "none", left |-> 0]

Queued(s) == s.head + 1 .. Len(s.ordered)
Lapsed_Early(s, i, lag) == s.ordered[i].left + lag <= 1

Lapsed(s, i, lag) == s.ordered[i].left + lag <= 0

\* The sweep stops at the first marker that is still alive.
Swept(s, lag) == {i \in Queued(s) : \A j \in Queued(s) : j <= i => Lapsed(s, j, lag)}

Sweep_KeepsMap(s, lag) ==
    LET gone == Swept(s, lag)
    IN  [used |-> s.used,
         ordered |-> [i \in 1 .. Len(s.ordered) |->
                         IF i \in gone THEN Blank ELSE s.ordered[i]],
         head |-> s.head + Cardinality(gone)]

\* popOldest, as often as the front of the queue has expired.
Sweep(s, lag) ==
    LET gone == Swept(s, lag)
    IN  [used |-> s.used \ {s.ordered[i].nonce : i \in gone},
         ordered |-> [i \in 1 .. Len(s.ordered) |->
                         IF i \in gone THEN Blank ELSE s.ordered[i]],
         head |-> s.head + Cardinality(gone)]

Accepts_Unbounded(s, n) == n \notin s.used

\* A full store refuses: it never gives up a marker that is still alive.
Accepts(s, n) == n \notin s.used /\ Cardinality(s.used) < MaxStored

Compact(s) ==
    IF s.head > CompactAfter /\ s.head * 2 >= Len(s.ordered)
    THEN [used |-> s.used,
          ordered |-> SubSeq(s.ordered, s.head + 1, Len(s.ordered)), head |-> 0]
    ELSE s

Mark(s, n, lag) ==
    Compact([used |-> s.used \cup {n},
             ordered |-> Append(s.ordered, [nonce |-> n, left |-> MaxAge - lag]),
             head |-> s.head])

\* Consume is Sweep, then Accepts, then Mark if accepted.
Consumed(s, n, lag) ==
    LET swept == Sweep(s, lag)
    IN  IF Accepts(swept, n) THEN Mark(swept, n, lag) ELSE swept

\* A tick passes.
Older(s, floor) ==
    [s EXCEPT !.ordered = [i \in 1 .. Len(s.ordered) |->
        IF i \in Queued(s) /\ s.ordered[i].left > floor
        THEN [s.ordered[i] EXCEPT !.left = @ - 1] ELSE s.ordered[i]]]
=============================================================================
