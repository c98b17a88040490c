------------------------- MODULE MCTenantDeployment -------------------------
(***************************************************************************)
(* Instances of TenantDeployment for TLC: at most two tenants, two sets of *)
(* ports and two requests, which the cfgs name. Their symmetry is not      *)
(* used: the runs check temporal properties.                               *)
(***************************************************************************)
EXTENDS TenantDeployment
=============================================================================
