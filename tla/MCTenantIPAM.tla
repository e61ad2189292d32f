---------------------------- MODULE MCTenantIPAM ----------------------------
(* TenantIPAM on a small subnet, for TLC. *)
EXTENDS TenantIPAM
=============================================================================
