-------------------------- MODULE AutoScaleLedger ---------------------------
(***************************************************************************)
(* AutoScaleMeta implements PodLedger: where a pod is, read off the        *)
(* containers, the goroutines, the timers and the history.                 *)
(***************************************************************************)
EXTENDS AutoScaleMeta

At(where) == [at |-> where, of |-> Pool]

Disputed == contested \cup lateDeleted \cup wild

\* The ways of a pod that a resize holds.
Under(p) ==
  {[at |-> IF op[th] \in Adding THEN "lending" ELSE "reclaiming",
    of |-> opTenant[th]] : th \in {u \in Threads : InJob(u, p)}}

\* The containers that list a pod.
In(p) ==
  {[at |-> IF o = Pool THEN "pool" ELSE "tenant", of |-> o] :
     o \in {u \in Owners : p \in podMap[u]}}

\* Where everything that knows the pod has it.
Found(p) ==
  Under(p) \cup In(p)
    \cup {At("parked") : x \in {p} \cap timers}
    \cup {At("trim") : x \in {p} \cap warmDel}
    \cup {At("out") : x \in {p} \cap (released \ gone)}
    \cup {At("gone") : x \in {p} \cap gone}

\* A pod that is found twice is torn, which the ledger knows nothing of.
PlaceOf(p) ==
  IF p \in Disputed THEN At("disputed")
  ELSE IF Found(p) = {} THEN At("none")
  ELSE IF \E here \in Found(p) : Found(p) = {here}
       THEN CHOOSE here \in Found(p) : TRUE
       ELSE At("torn")

Ledger == INSTANCE PodLedger WITH place <- [p \in Pods |-> PlaceOf(p)]

\* Whatever resizes, timers, deletions, scans and trims interleave, a pod has one
\* place, goes from tenant to tenant through the pool alone and comes back from
\* nowhere once it is removed (meta.go, all that moves pods), unless the code
\* gives it up as PodLedger says.
LedgerKept == Ledger!Spec
=============================================================================
