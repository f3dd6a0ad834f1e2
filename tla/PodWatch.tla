------------------------------ MODULE PodWatch -------------------------------
(***************************************************************************)
(* How the autoscaler follows the pods of its CloneSet: watchPodsLoop and  *)
(* loadPods of autoscale/cluster.go, with UpdatePod, HandleK8sDelPodEvent  *)
(* and TryToRemoveExpriedPod of autoscale/meta.go.                         *)
(*                                                                         *)
(* The loop watches from a revision on.  When its channel is closed, by    *)
(* the server, after an error of the watch, or by Shutdown, it lists the   *)
(* pods, updates those it finds, removes those it does not find, and       *)
(* watches from the revision of the list.  No other goroutine changes      *)
(* PodDescMap, so what loadPods does to one pod after the other is one     *)
(* step.  A definition whose comment begins with "Mutant" is a plausible   *)
(* bug in the next definition, which the specification never uses.         *)
(***************************************************************************)
EXTENDS ApiServer

VARIABLES
  wpc,       \* where watchPodsLoop, or loadPods at start-up, is
  rv,        \* resourceVersion
  channel,   \* of the watch: none, open, failed (it holds an error), closed
  listed,    \* the revision of the last list, 0 when it has been applied
  known      \* PodDescMap: pod -> "absent", "pending" (no IP), "running"

watchVars == <<wpc, rv, channel, listed, known>>

Absent == [p \in Pods |-> "absent"]

WatchInit ==
  wpc = "off" /\ rv = 0 /\ channel = "none" /\ listed = 0 /\ known = Absent

\* The process dies: nothing is known.
Forget ==
  /\ wpc' = "off" /\ rv' = 0 /\ channel' = "none" /\ listed' = 0
  /\ known' = Absent

-----------------------------------------------------------------------------
(* Changes of PodDescMap                                                   *)

Living == {"pending", "running"}

\* How a pod is known once its life has been reported.
Seen(life) == IF life \in Living THEN life ELSE "absent"

\* UpdatePod: an IP that is known is not taken back.
Updated(old, life) == IF old = "running" THEN old ELSE life

\* Mutant: pods that are not in the list are kept.
NothingExpired(pods) == {}

\* TryToRemoveExpriedPod: known pods that are not in the list.
Expired(pods) == {p \in Pods : pods[p] \notin Living}

\* What loadPods makes of PodDescMap.
Loaded(pods) ==
  [p \in Pods |->
     IF pods[p] \in Living THEN Updated(known[p], pods[p])
     ELSE IF p \in Expired(pods) THEN "absent" ELSE known[p]]

\* What an event of pod p makes of it.
Handled(p, life) ==
  [known EXCEPT ![p] = IF life \in Living THEN Updated(@, life) ELSE "absent"]

-----------------------------------------------------------------------------
(* loadPods                                                                *)

List ==
  /\ wpc = "list"
  /\ listed' = Revision
  /\ wpc' = "apply"
  /\ UNCHANGED <<rv, channel, known>>

\* Mutant: the watch goes on from the newest revision.
RevisionOfNow == Revision

\* The result of loadPods.
ListedRevision == listed

\* loadPods returns, to the step next.
Apply(next) ==
  /\ wpc = "apply"
  /\ known' = Loaded(history[listed])
  /\ rv' = ListedRevision
  /\ wpc' = next
  /\ listed' = 0
  /\ UNCHANGED channel

-----------------------------------------------------------------------------
(* watchPodsLoop                                                           *)

Check(stop) ==
  /\ wpc = "check"
  /\ wpc' = IF stop THEN "off" ELSE "watch"
  /\ UNCHANGED <<rv, channel, listed, known>>

\* A revision the server no longer has is answered by an error event.
Watch ==
  /\ wpc = "watch"
  /\ channel' = IF rv < compacted THEN "failed" ELSE "open"
  /\ wpc' = "install"
  /\ UNCHANGED <<rv, listed, known>>

WatchFails ==
  /\ wpc = "watch"
  /\ wpc' = "check"
  /\ UNCHANGED <<rv, channel, listed, known>>

Install ==
  /\ wpc = "install"
  /\ wpc' = "read"
  /\ UNCHANGED <<rv, channel, listed, known>>

\* An event of a pod: its revision is kept, then it is handled.
Receive ==
  /\ wpc = "read" /\ channel = "open" /\ rv < Revision
  /\ rv' = rv + 1
  /\ \E p \in Pods :
       /\ history[rv + 1][p] # history[rv][p]
       /\ known' = Handled(p, history[rv + 1][p])
  /\ UNCHANGED <<wpc, channel, listed>>

\* An error event holds no pod and is skipped; the server then ends the watch.
Skip ==
  /\ wpc = "read" /\ channel = "failed"
  /\ channel' = "closed"
  /\ UNCHANGED <<wpc, rv, listed, known>>

\* The pods are listed again.
Closed ==
  /\ wpc = "read" /\ channel = "closed"
  /\ channel' = "none"
  /\ wpc' = "list"
  /\ UNCHANGED <<rv, listed, known>>

\* Outside the repository: the server ends a watch.
EndWatch ==
  /\ channel = "open"
  /\ channel' = "closed"
  /\ UNCHANGED <<wpc, rv, listed, known>>

-----------------------------------------------------------------------------
(* Properties                                                              *)

\* The types of the watch's variables and of the server's.
WatchTypeOK ==
  /\ history \in Seq([Pods -> Lives]) /\ compacted \in 1..Revision
  /\ wpc \in {"off", "list", "apply", "check", "watch", "install", "read"}
  /\ rv \in 0..Revision /\ listed \in 0..Revision
  /\ channel \in {"none", "open", "failed", "closed"}
  /\ known \in [Pods -> Living \cup {"absent"}]

\* PodDescMap is at all times the cluster as it was at resourceVersion, the
\* revision from which the next watch goes on: however watches end, expire or
\* fail, and whatever happens between a list and the watch after it, no event is
\* missed and none is handled twice (cluster.go, watchPodsLoop and loadPods).  A
\* pod that was deleted meanwhile does not come back, and one that has been lent
\* does not join the pool a second time.
MirrorsRevision ==
  rv > 0 => \A p \in Pods : known[p] = Seen(history[rv][p])
=============================================================================
