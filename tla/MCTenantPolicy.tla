--------------------------- MODULE MCTenantPolicy ---------------------------
(***************************************************************************)
(* TenantPolicy on small instances.                                        *)
(***************************************************************************)
EXTENDS TenantPolicy, TLC

MCSymmetry == Permutations(Nodes) \cup Permutations(Handlers) \cup Permutations(Docs)
=============================================================================
