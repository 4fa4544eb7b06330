-------------------------- MODULE MCPolicyProvider --------------------------
(***************************************************************************)
(* PolicyProvider on a small instance: a tenant has an owner of its own,   *)
(* which goes by the tenant's name.                                        *)
(***************************************************************************)
EXTENDS PolicyProvider

MCOwnerOf == [t \in Tenants |-> t]
=============================================================================
