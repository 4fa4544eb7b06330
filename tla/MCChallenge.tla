---------------------------- MODULE MCChallenge -----------------------------
(***************************************************************************)
(* Challenge on small instances: puzzles, calls and nodes of one kind.     *)
(***************************************************************************)
EXTENDS Challenge, TLC

MCSymmetry == Permutations(Nonces) \cup Permutations(Calls) \cup Permutations(Nodes)

\* Two instances of one: two puzzles beside Redis and a fallback that holds
\* one marker, or three while Redis is away and the fallback may be full.
MCBesideRedis ==
    /\ Cardinality({n \in Nonces : age[n] # Unissued}) <= 2
    /\ \A i \in Nodes : Cardinality(local[i].used) <= 1
MCRedisAway == \A n \in Nonces : redis[n] = 0 /\ accepted[n][Redis] = 0
MCSmall == MCBesideRedis \/ MCRedisAway
=============================================================================
