------------------------------ MODULE ApiServer ------------------------------
(***************************************************************************)
(* What the autoscaler sees of the Kubernetes API server: the pods of its  *)
(* CloneSet, revision by revision.  A list answers with the pods of the    *)
(* last revision; a watch from a revision answers with the events after    *)
(* it, one for each later revision, unless the server no longer has them.  *)
(* The server is outside the repository; this is what cluster.go relies    *)
(* on.                                                                     *)
(***************************************************************************)
EXTENDS Naturals, Sequences

CONSTANTS
  Pods,          \* names of pods, none of which is used twice
  MaxRevision    \* bound: the last revision

ASSUME RevisionAssumption == MaxRevision \in Nat

VARIABLES
  history,       \* the pods of each revision
  compacted      \* a watch from an earlier revision is answered with an error

serverVars == <<history, compacted>>

\* A pod is pending until it has an IP.
Lives == {"unborn", "pending", "running", "dead"}

Revision == Len(history)

NoPods == [p \in Pods |-> "unborn"]

ServerInit == history = <<NoPods>> /\ compacted = 1

\* What may become of a pod: it is added, with its IP or without, modified or
\* deleted.
Succession(old, new) ==
  \/ old = "unborn" /\ new \in {"pending", "running"}
  \/ old = "pending" /\ new \in {"running", "dead"}
  \/ old = "running" /\ new = "dead"

\* An event: one pod changes.
PodEvent(p, life) ==
  /\ Revision < MaxRevision
  /\ Succession(history[Revision][p], life)
  /\ history' = Append(history, [history[Revision] EXCEPT ![p] = life])
  /\ UNCHANGED compacted

Compact ==
  /\ compacted < Revision
  /\ compacted' = Revision
  /\ UNCHANGED history
=============================================================================
