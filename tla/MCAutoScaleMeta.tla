-------------------------- MODULE MCAutoScaleMeta --------------------------
(* Small instances of AutoScaleMeta for TLC.                               *)
EXTENDS AutoScaleLedger, TLC

\* Tenants, pods and goroutines are interchangeable in every safety property.
Symmetry ==
  Permutations(Tenants) \cup Permutations(Pods) \cup Permutations(Threads)

\* The instance with two pods stops where a pod is contested (every property
\* excludes it from then on) and lets Kubernetes delete one of the pods.
OneDeletion == contested = {} /\ Cardinality(gone) < 2
=============================================================================
