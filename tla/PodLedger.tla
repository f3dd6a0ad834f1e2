----------------------------- MODULE PodLedger ------------------------------
(***************************************************************************)
(* What the bookkeeping of pods (autoscale/meta.go) promises: every pod    *)
(* has one place at a time, a tenant gets pods from the pool alone and     *)
(* gives them back to the pool alone, and a pod that has been removed      *)
(* stays removed.  AutoScaleLedger shows that AutoScaleMeta, with its      *)
(* containers, goroutines, timers and counters, implements this.           *)
(*                                                                         *)
(* A pod goes out of the ledger as disputed, for good, where the code does *)
(* not keep the promise: a scan corrected it under a running resize, it    *)
(* was deleted while in flight, or its supervisor serves a tenant that     *)
(* nobody knows.                                                           *)
(***************************************************************************)
CONSTANTS
  Tenants,   \* names of tenants
  Pods,      \* names of pods
  Pool       \* no tenant

VARIABLE place   \* pod -> where it is

\* A pod is in one of these places, or with a tenant, or on its way to a tenant
\* or from it.
At(where) == [at |-> where, of |-> Pool]
With(t) == [at |-> "tenant", of |-> t]
Lending(t) == [at |-> "lending", of |-> t]
Reclaiming(t) == [at |-> "reclaiming", of |-> t]

Places ==
  {At(w) : w \in {"none", "pool", "parked", "trim", "out", "gone", "disputed"}}
    \cup UNION {{With(t), Lending(t), Reclaiming(t)} : t \in Tenants}

Final == {At("gone"), At("disputed")}

Init == place = [p \in Pods |-> At("none")]

Move(S, from, to) ==
  /\ \A p \in S : place[p] = from
  /\ place' = [p \in Pods |-> IF p \in S THEN to ELSE place[p]]

\* The pod has an IP.
Join(p) == Move({p}, At("none"), At("pool"))

\* Pods of the pool are asked to serve t, pods of t to serve it no longer.
Lend(t, S) == Move(S, At("pool"), Lending(t))
Reclaim(t, S) == Move(S, With(t), Reclaiming(t))

\* The pod agrees, or it turns out to serve another tenant already.
Lent(t, p) == \E u \in Tenants : Move({p}, Lending(t), With(u))
Reclaimed(t, p) == Move({p}, Reclaiming(t), At("pool"))

\* The calls failed.
NotLent(t, S) == Move(S, Lending(t), At("pool"))
NotReclaimed(t, S) == Move(S, Reclaiming(t), With(t))

\* The supervisor is busy with its last tenant; the pod waits.
Park(t, p) == Move({p}, Lending(t), At("parked")) \/ Move({p}, Reclaiming(t), At("parked"))
Unpark(p) == Move({p}, At("parked"), At("pool"))

\* The supervisor has lost its tenant.
Correct(t, p) == Move({p}, With(t), At("pool"))

\* Surplus pods are removed, or kept after all.
Trim(S) == Move(S, At("pool"), At("trim"))
Trimmed(S) == Move(S, At("trim"), At("out")) \/ Move(S, At("trim"), At("pool"))

\* The pod is deleted, or it is not accounted for any longer.
Finish(p) ==
  /\ place[p] \in Places \ Final
  /\ \E to \in Final : Move({p}, place[p], to)

Next ==
  \/ \E p \in Pods : Join(p) \/ Unpark(p) \/ Finish(p)
  \/ \E t \in Tenants, p \in Pods :
       Lent(t, p) \/ Reclaimed(t, p) \/ Park(t, p) \/ Correct(t, p)
  \/ \E t \in Tenants, S \in SUBSET Pods :
       Lend(t, S) \/ Reclaim(t, S) \/ NotLent(t, S) \/ NotReclaimed(t, S)
  \/ \E S \in SUBSET Pods : Trim(S) \/ Trimmed(S)

Spec == Init /\ [][Next]_place
=============================================================================
