------------------------- MODULE MCTenantController -------------------------
(* TenantController for TLC: a node with a handful of subnets. *)
EXTENDS TenantController

CONSTANTS red, green, s1, s2, s3

OneSubnet    == <<s1>>
ThreeSubnets == <<s1, s2, s3>>

=============================================================================
