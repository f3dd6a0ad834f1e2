--------------------------- MODULE MCClusterManager --------------------------
(***************************************************************************)
(* A small instance of ClusterManager: one pod, from the first event of    *)
(* its life to the last, and two tenants that may hold it, over two        *)
(* faults, which is one more than makes a process find what another left   *)
(* behind and fail to ask about it.  Of the periodic loops only            *)
(* manageAnalyzeTasks does anything here; the others end like it.          *)
(***************************************************************************)
EXTENDS ClusterManager
=============================================================================
