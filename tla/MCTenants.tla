------------------------------ MODULE MCTenants ------------------------------
(* Two runs of two tenants over two connections, one extra partition.       *)
EXTENDS TenantSession, TLC

CONSTANTS t1, t2, acme, beta

MCTenantOf == t1 :> acme @@ t2 :> beta
=============================================================================
