--------------------------- MODULE MCClusterStart ---------------------------
(* ClusterStart for TLC. *)
EXTENDS ClusterStart

CONSTANTS n1, n2, n3

=============================================================================
