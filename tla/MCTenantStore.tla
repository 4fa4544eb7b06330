---------------------------- MODULE MCTenantStore ----------------------------
(* Two tenants that have had the same host one after the other, and a host   *)
(* nobody owns.                                                              *)
EXTENDS TenantStore

CONSTANTS shop, other
MCHostOf == [i \in Ids |-> shop]
=============================================================================
