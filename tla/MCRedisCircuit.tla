--------------------------- MODULE MCRedisCircuit ---------------------------
(***************************************************************************)
(* RedisCircuit on small instances; requests are interchangeable.          *)
(***************************************************************************)
EXTENDS RedisCircuit, TLC

MCSymmetry == Permutations(Callers)
=============================================================================
