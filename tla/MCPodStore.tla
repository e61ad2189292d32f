----------------------------- MODULE MCPodStore -----------------------------
(* PodStore for TLC: two pods of two tenants and one on the host's network.  *)
EXTENDS PodStore, TLC

CONSTANTS p1, p2, h, red, default, n1, n2, nh

MCAnnotation == (p1 :> red) @@ (p2 :> None) @@ (h :> red)

\* No two namespaces use the same name.
OwnNames == (p1 :> n1) @@ (p2 :> n2) @@ (h :> nh)

\* Once entries are lost every property but OwnTenantsNetwork holds trivially: such
\* behaviours are followed only as long as they are free of faults.
FewFaultsOnceTorn == torn => faults = 0

=============================================================================
