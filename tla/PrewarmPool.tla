---------------------------- MODULE PrewarmPool ----------------------------
(***************************************************************************)
(* The pool of warmed pods and how its size is kept (autoscale/meta.go,    *)
(* PrewarmPool, and addNewPods and removePods of autoscale/cluster.go).    *)
(*                                                                         *)
(* Once a second the loop podPrepareLoop runs DoPodsWarm.  It compares the *)
(* pods in the pool and the pods on order (cntOfPending) with the wanted   *)
(* size and the recent unmet demand of the tenants, and then either orders *)
(* pods, by raising the replicas of a CloneSet, or takes surplus pods out  *)
(* of the pool and names them in the CloneSet's PodsToDelete.  The Kruise  *)
(* controller brings the pods of the cluster in line with the CloneSet in  *)
(* its own time.  Tenants take pods and give them back in the meantime.    *)
(*                                                                         *)
(* The CloneSet is written with optimistic concurrency: the autoscaler     *)
(* keeps a copy (local) whose resourceVersion must be the server's, else   *)
(* the update fails, the copy is read again and the update is retried. A   *)
(* copy of an old version is refused whatever it holds: it is Stale, and   *)
(* its contents are left out of the model. An update that succeeds         *)
(* replaces the names in PodsToDelete whatever Kruise has done with them:  *)
(* forgotten holds the pods whose name was dropped while they were alive.  *)
(* The definitions called mutants are plausible bugs in the definition     *)
(* after them, which the specification never uses.                         *)
(*                                                                         *)
(* A pod is a slot: a name is used again only after nothing refers to the  *)
(* pod that had it, where the program would use a new name.                *)
(***************************************************************************)
EXTENDS Integers, FiniteSets

CONSTANTS
  Stale,       \* a copy of the CloneSet with an old resourceVersion
  Tenants,     \* names of tenants
  Pods,        \* slots for pods
  SoftLimit,   \* expected size of the pool
  MaxHeld,     \* bound: most pods a tenant asks for in all
  MaxDrift,    \* bound: cntOfPending does not fall below -MaxDrift
  MaxRetry,    \* retryCnt that DoPodsWarm passes on, 2 in the program
  Faults,      \* what may go wrong: a subset of AllFaults
  MaxFaults    \* bound: most crashes, lost replies and leftovers

\* "error": an update may fail with no effect, or the read after a failure;
\* "lost": an update may take effect and its reply be lost;
\* "crash": a pod may die; "leftover": the autoscaler may start over a CloneSet
\* that Kruise has not brought to its replicas yet.  All but the first are counted.
Counted == {"lost", "crash", "leftover"}
AllFaults == Counted \cup {"error"}

ASSUME SizesAssumption ==
  /\ SoftLimit \in Nat \ {0} /\ MaxHeld \in Nat /\ MaxDrift \in Nat
  /\ MaxRetry \in Nat /\ MaxFaults \in Nat
  /\ IsFiniteSet(Pods) /\ IsFiniteSet(Tenants)
ASSUME FaultsAssumption == Faults \subseteq AllFaults

CloneSets == [replicas : Int, podsToDelete : SUBSET Pods]

ASSUME StaleAssumption == Stale \notin CloneSets

VARIABLES
  warmed,        \* pods of WarmedPods
  held,          \* tenant -> pods it took from the pool
  cntOfPending,  \* pods on order that have not come
  failCnt,       \* tenant -> unmet demand of tenantLastOpResultMap
  pc,            \* where DoPodsWarm is
  delta,         \* its delta, or its removeCnt once pc is "take"
  podsToDel,     \* the pods it took out of the pool to delete them
  retryCnt,      \* retries addNewPods or removePods has left
  local,         \* c.CloneSet: [replicas, podsToDelete], or Stale
  spec,          \* external: the CloneSet on the server
  exist,         \* external: pods of the cluster
  known,         \* pods reported with an IP whose deletion was not reported
  faults,        \* history: the faults that are counted, so far
  forgotten      \* history: pods of the cluster that an update named for
                 \* deletion and a later one no longer did

poolVars == <<warmed, held, failCnt>>
loopVars == <<pc, delta, podsToDel, retryCnt>>
vars == <<poolVars, cntOfPending, loopVars, local, spec, exist, known,
          faults, forgotten>>

-----------------------------------------------------------------------------
(* State formulae                                                          *)

HeldPods == UNION {held[t] : t \in Tenants}

\* The sum of the unmet demands, of which none is above MaxHeld: the number of
\* pods that the tenants miss.
FailCntTotal(F) ==
  Cardinality({m \in Tenants \X (1..MaxHeld) : m[2] <= F[m[1]]})

\* What a getWarmedPods of n pods may take.
Taken(n, S) ==
  {T \in SUBSET S :
     Cardinality(T) = IF n < Cardinality(S) THEN n ELSE Cardinality(S)}

FaultCount == faults["lost"] + faults["crash"] + faults["leftover"]

\* Fault f happens.
Fault(f) ==
  /\ f \in Faults /\ FaultCount < MaxFaults
  /\ faults' = [faults EXCEPT ![f] = @ + 1]

\* Nothing refers to the pod any more: its slot can be used again.
Unused(p) ==
  p \notin exist \cup known \cup warmed \cup HeldPods \cup podsToDel
             \cup spec.podsToDelete

\* Pods the CloneSet keeps unless it has too many of them.
Kept == exist \ spec.podsToDelete

\* The copy has the resourceVersion of the server's CloneSet.
Fresh == local # Stale

\* Kruise has no pod left to delete.
Settled ==
  spec.podsToDelete \cap exist = {} /\ Cardinality(exist) <= spec.replicas

-----------------------------------------------------------------------------
\* createCloneSet: the replicas of the new CloneSet are counted as pending.
Created ==
  /\ exist = {} /\ known = {} /\ warmed = {}
  /\ held = [t \in Tenants |-> {}]
  /\ cntOfPending = SoftLimit
  /\ spec = [replicas |-> SoftLimit, podsToDelete |-> {}]
  /\ faults = [f \in Counted |-> 0]

\* The autoscaler starts again over the CloneSet that is there, with the names it
\* has and whatever Kruise has made of it: loadPods has listed the pods with an IP,
\* and the scan at start-up has found the tenants'.  Nothing is on order.
Adopted ==
  /\ known \in SUBSET Pods /\ warmed \in SUBSET known
  /\ held \in [Tenants -> SUBSET (known \ warmed)]
  /\ known = warmed \cup HeldPods
  /\ \A t, u \in Tenants : t # u => held[t] \cap held[u] = {}
  /\ \A t \in Tenants : Cardinality(held[t]) <= MaxHeld
  /\ exist \in {known \cup S : S \in SUBSET Pods}
  /\ Cardinality(exist) <= SoftLimit + MaxHeld
  /\ cntOfPending = 0
  /\ spec \in [replicas : 0..Cardinality(Pods), podsToDelete : SUBSET exist]
  /\ \/ Settled /\ faults = [f \in Counted |-> 0]
     \/ /\ ~Settled
        /\ "leftover" \in Faults /\ MaxFaults > 0
        /\ faults = [f \in Counted |-> IF f = "leftover" THEN 1 ELSE 0]

Init ==
  /\ Created \/ Adopted
  /\ failCnt = [t \in Tenants |-> 0]
  /\ pc = "idle" /\ delta = 0 /\ podsToDel = {} /\ retryCnt = 0
  /\ local = spec
  /\ forgotten = {}

-----------------------------------------------------------------------------
(* The pool, as the tenants and the watch of pods use it                   *)

\* getWarmedPods for a tenant that wants n more pods.
GetWarmedPods(t, n) ==
  /\ Cardinality(held[t]) + n <= MaxHeld
  /\ \E S \in Taken(n, warmed) :
       /\ warmed' = warmed \ S
       /\ held' = [held EXCEPT ![t] = @ \cup S]
       /\ failCnt' = [failCnt EXCEPT ![t] = n - Cardinality(S)]
  /\ UNCHANGED <<cntOfPending, loopVars, local, spec, exist, known, faults, forgotten>>

\* putWarmedPod of a pod that tenant t gives back.
PutWarmedPod(t, p) ==
  /\ p \in held[t]
  /\ warmed' = warmed \cup {p}
  /\ held' = [held EXCEPT ![t] = @ \ {p}]
  /\ failCnt' = [failCnt EXCEPT ![t] = 0]
  /\ UNCHANGED <<cntOfPending, loopVars, local, spec, exist, known, faults, forgotten>>

\* Mutant: a new pod is not taken off the pending ones.
StillPending == cntOfPending

\* putWarmedPod with isNewPod.
Arrived == IF cntOfPending > 0 THEN cntOfPending - 1 ELSE cntOfPending

\* addPreWarmFromPending: a pod is reported with its IP for the first time.
AddPreWarmFromPending(p) ==
  /\ p \in exist \ known
  /\ known' = known \cup {p}
  /\ warmed' = warmed \cup {p}
  /\ cntOfPending' = Arrived
  /\ UNCHANGED <<held, failCnt, loopVars, local, spec, exist, faults,
                 forgotten>>

\* HandleK8sDelPodEvent: the pod leaves the container it is in.
HandleK8sDelPodEvent(p) ==
  /\ p \in known \ exist
  /\ known' = known \ {p}
  /\ warmed' = warmed \ {p}
  /\ held' = [t \in Tenants |-> held[t] \ {p}]
  /\ UNCHANGED <<cntOfPending, failCnt, loopVars, local, spec, exist, faults,
                 forgotten>>

-----------------------------------------------------------------------------
(* DoPodsWarm                                                              *)

Missing(fails) ==
  fails + SoftLimit - (cntOfPending + Cardinality(warmed))

\* The section under the pool's mutex.  Unmet demand counts for
\* FailCntCheckTimeWindow; which demand is that old is left open.
DoPodsWarm ==
  /\ pc = "idle"
  /\ \E old \in SUBSET Tenants :
       failCnt' = [t \in Tenants |-> IF t \in old THEN 0 ELSE failCnt[t]]
  /\ delta' = Missing(FailCntTotal(failCnt'))
  /\ pc' = IF delta' = 0 THEN "idle" ELSE "decided"
  /\ UNCHANGED <<warmed, held, cntOfPending, podsToDel, retryCnt, local,
                 spec, exist, known, faults, forgotten>>

\* The order is counted as pending before it is made.
CountOrder ==
  /\ pc = "decided" /\ delta > 0
  /\ cntOfPending' = cntOfPending + delta
  /\ pc' = "add" /\ retryCnt' = MaxRetry
  /\ UNCHANGED <<poolVars, delta, podsToDel, local, spec, exist, known, faults, forgotten>>

RemoveCnt(over) == IF over < -delta THEN over ELSE -delta

\* The pool is read again: overCnt bounds the pods to remove.
CountSurplus ==
  LET over == Cardinality(warmed) - SoftLimit
  IN /\ pc = "decided" /\ delta < 0
     /\ \/ /\ over > 0
           /\ pc' = "take" /\ delta' = RemoveCnt(over)
        \/ /\ over <= 0
           /\ pc' = "idle" /\ delta' = 0
     /\ UNCHANGED <<poolVars, cntOfPending, podsToDel, retryCnt, local, spec, exist, known, faults, forgotten>>

\* getWarmedPods("", removeCnt), another section under the mutex.
TakeSurplus ==
  /\ pc = "take"
  /\ \E S \in Taken(delta, warmed) :
       warmed' = warmed \ S /\ podsToDel' = S
  /\ pc' = "remove" /\ delta' = 0 /\ retryCnt' = MaxRetry
  /\ UNCHANGED <<held, failCnt, cntOfPending, local, spec, exist, known, faults, forgotten>>

-----------------------------------------------------------------------------
(* addNewPods and removePods: one attempt to update the CloneSet           *)

\* Mutant: the pods to delete are not named.
Unnamed(c) == [c EXCEPT !.replicas = @ - Cardinality(podsToDel)]

\* The CloneSet of removePods: the names replace those of the last update.
WithoutPods(c) ==
  [replicas |-> c.replicas - Cardinality(podsToDel),
   podsToDelete |-> podsToDel]

Desired ==
  IF pc = "add" THEN [local EXCEPT !.replicas = @ + delta]
  ELSE WithoutPods(local)

\* What the copy is after a failure, before it is read again.
Reverted ==
  IF pc = "add" THEN local ELSE [local EXCEPT !.podsToDelete = {}]

\* The server takes the update: of a copy of its version, with no negative number
\* of replicas.  The upper bound, which only faults can reach, is the model's.
Accepted == Fresh /\ Desired.replicas \in 0..Cardinality(Pods)

\* A pod whose name the update drops stays.
Write ==
  /\ Accepted
  /\ spec' = Desired
  /\ forgotten' =
       (forgotten \cup (spec.podsToDelete \cap exist)) \ Desired.podsToDelete

UpdateOk ==
  /\ pc \in {"add", "remove"}
  /\ Write
  /\ local' = Desired
  /\ pc' = "idle" /\ delta' = 0 /\ podsToDel' = {} /\ retryCnt' = 0
  /\ UNCHANGED <<poolVars, cntOfPending, exist, known, faults>>

\* Mutant: the order that failed stays counted.
NotReverted == cntOfPending

PendingAfterFailure == IF pc = "add" THEN cntOfPending - delta ELSE cntOfPending

\* Mutant: the pods are not put back.
NotPutBack == warmed

WarmedAfterFailure == warmed \cup podsToDel

\* The last failure: DoPodsWarm reverts what it did to the pool.
GiveUp ==
  /\ cntOfPending' = PendingAfterFailure
  /\ cntOfPending' >= -MaxDrift
  /\ warmed' = WarmedAfterFailure
  /\ pc' = "idle" /\ delta' = 0 /\ podsToDel' = {} /\ retryCnt' = 0
  /\ UNCHANGED <<held, failCnt>>

\* Mutant: the retries are not counted.
AlwaysRetry == TRUE

RetryLeft == retryCnt > 0

\* handleCloneSetApiError: the copy is read again, then the update is retried.
Reread ==
  /\ local' = spec'
  /\ \/ /\ RetryLeft
        /\ retryCnt' = retryCnt - 1
        /\ UNCHANGED <<poolVars, cntOfPending, pc, delta, podsToDel>>
     \/ /\ ~RetryLeft
        /\ GiveUp

\* The update fails: the version is old, or an error, or its reply is lost.
UpdateFails ==
  /\ pc \in {"add", "remove"}
  /\ \/ /\ ~Accepted \/ "error" \in Faults
        /\ UNCHANGED <<spec, forgotten, faults>>
     \/ /\ Write
        /\ Fault("lost")
  /\ \/ Reread
     \/ /\ "error" \in Faults
        /\ local' = IF Fresh /\ spec' = spec THEN Reverted ELSE Stale
        /\ GiveUp
  /\ UNCHANGED <<exist, known>>

-----------------------------------------------------------------------------
(* The cluster, outside the repository                                     *)

\* A status or spec written by Kruise changes the resourceVersion.
KruiseWrites ==
  local' = Stale /\ UNCHANGED <<poolVars, cntOfPending, loopVars, known>>

KruiseCreate(p) ==
  /\ Unused(p)
  /\ Cardinality(Kept) < spec.replicas
  /\ exist' = exist \cup {p}
  /\ UNCHANGED <<spec, forgotten, faults>>
  /\ KruiseWrites

\* Named pods are deleted, and surplus ones, those that are not ready first.
KruiseDelete(p) ==
  /\ p \in exist
  /\ \/ p \in spec.podsToDelete
     \/ /\ Cardinality(Kept) > spec.replicas
        /\ p \in Kept /\ (p \in known => Kept \subseteq known)
  /\ exist' = exist \ {p} /\ forgotten' = forgotten \ {p}
  /\ UNCHANGED <<spec, faults>>
  /\ KruiseWrites

\* Names of pods that are gone are dropped from the CloneSet.
KruiseTruncate ==
  /\ ~(spec.podsToDelete \subseteq exist)
  /\ spec' = [spec EXCEPT !.podsToDelete = @ \cap exist]
  /\ UNCHANGED <<exist, forgotten, faults>>
  /\ KruiseWrites

\* The status of the CloneSet follows that of the pods.
KruiseStatus ==
  /\ Fresh
  /\ UNCHANGED <<spec, exist, forgotten, faults>>
  /\ KruiseWrites

PodCrash(p) ==
  /\ Fault("crash")
  /\ p \in exist
  /\ exist' = exist \ {p} /\ forgotten' = forgotten \ {p}
  /\ UNCHANGED spec
  /\ KruiseWrites

-----------------------------------------------------------------------------
Loop ==
  DoPodsWarm \/ CountOrder \/ CountSurplus \/ TakeSurplus \/ UpdateOk
    \/ UpdateFails
Kruise ==
  KruiseTruncate \/ \E p \in Pods : KruiseCreate(p) \/ KruiseDelete(p)
Watch ==
  \E p \in Pods : AddPreWarmFromPending(p) \/ HandleK8sDelPodEvent(p)

Next ==
  \/ Loop \/ Kruise \/ Watch \/ KruiseStatus
  \/ \E t \in Tenants :
       \/ \E n \in 1..MaxHeld : GetWarmedPods(t, n)
       \/ \E p \in Pods : PutWarmedPod(t, p)
  \/ \E p \in Pods : PodCrash(p)

Spec == Init /\ [][Next]_vars

\* The loop runs for ever, Kruise and the watch make progress, and if updates
\* and reads of the CloneSet are tried again and again, some succeed.
FairSpec ==
  /\ Spec
  /\ WF_vars(Loop) /\ SF_vars(UpdateOk) /\ SF_vars(UpdateFails /\ Fresh')
  /\ WF_vars(Kruise) /\ WF_vars(Watch)

-----------------------------------------------------------------------------
(* Properties                                                              *)

\* No reply was lost, no pod died and the autoscaler did not start over an unfinished
\* CloneSet.  One such fault is enough to break the properties that ask for none:
\* the pool may take a pod that is dead, and not yet reported so, for surplus, and
\* lowers the replicas by a pod that Kruise has replaced already; a live pod is
\* deleted, or one on order never comes.
NoFault == FaultCount = 0

\* The types of the variables.
TypeOK ==
  /\ warmed \subseteq Pods /\ held \in [Tenants -> SUBSET Pods]
  /\ cntOfPending \in Int /\ failCnt \in [Tenants -> 0..MaxHeld]
  /\ pc \in {"idle", "decided", "take", "add", "remove"}
  /\ delta \in Int /\ podsToDel \subseteq Pods /\ retryCnt \in 0..MaxRetry
  /\ local \in CloneSets \cup {Stale} /\ spec \in CloneSets
  /\ exist \subseteq Pods /\ known \subseteq Pods /\ forgotten \subseteq exist
  /\ faults \in [Counted -> 0..MaxFaults]

\* The pods the autoscaler has: in the pool, with a tenant, or about to be removed.
Owned == warmed \cup HeldPods \cup podsToDel

\* The autoscaler waits for no pod that nobody will create, but for one at most per
\* forgotten pod: the pods it counts as pending are covered by the replicas of the
\* CloneSet beyond the pods that have been reported, or by the order it is making.
\* A forgotten pod fills a replica that a pending pod needs; a pending count above
\* that would keep the pool short of its expected size for no such reason.
PendingCovered ==
  NoFault =>
    cntOfPending <= spec.replicas - Cardinality(Kept \cap known)
                      + Cardinality(forgotten)
                      + IF pc = "add" THEN delta ELSE 0

\* The autoscaler loses sight of a pod by dropping its name too early and in no
\* other way: a pod that was reported is in the pool, with a tenant, about to be
\* removed, named for deletion, or an update replaced its name before Kruise acted.
NoOrphan == known \cap exist \subseteq Owned \cup spec.podsToDelete \cup forgotten

\* Where there was no fault, Kruise's scale-in kills a pod that the autoscaler has,
\* in the pool or with a tenant, in place of a forgotten one only: removePods names
\* the pods it wants removed, and as many replicas as it names pods.
KilledForForgotten ==
  NoFault => Cardinality(Owned \ exist) <= Cardinality(forgotten)

\* The pool is refilled to its expected size again and again, however the tenants'
\* demand varies and whatever updates fail without effect, as long as no name is
\* dropped too early: a forgotten pod may keep the pool short for ever.
PoolRefills ==
  [](NoFault /\ forgotten = {}) => []<>(Cardinality(warmed) >= SoftLimit)

\* What the comment of meta.go:641 says of a negative cntOfPending: it is
\* harmless, for it will be correct after the start.
PendingRecovers == []<>(cntOfPending >= 0)

\* What removePods names its pods for (cluster.go:1077, and the reset that line 1095
\* announces): the scale-in deletes those and none that a tenant uses.
NoTenantPodKilled ==
  [][NoFault' => \A t \in Tenants : held[t] \cap exist \subseteq exist']_vars
=============================================================================
