---------------------------- MODULE MCPodMetrics ----------------------------
(* Small instances of PodMetrics for TLC.                                  *)
EXTENDS PodMetrics, TLC

\* Tenants are interchangeable in every safety property.
Symmetry == Permutations(Tenants)
=============================================================================
