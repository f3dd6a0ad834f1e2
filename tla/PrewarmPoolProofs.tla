------------------------- MODULE PrewarmPoolProofs -------------------------
(***************************************************************************)
(* The autoscaler loses sight of a pod in one way only: by dropping its    *)
(* name from the CloneSet before Kruise has deleted it.  This holds        *)
(* whatever updates of the CloneSet fail, whatever replies are lost,       *)
(* whichever pods die and whatever CloneSet the autoscaler starts over,    *)
(* for any pods, tenants, sizes, retries and numbers of faults.            *)
(***************************************************************************)
EXTENDS PrewarmPool, TLAPS

\* The variables as far as names of pods are concerned.
Shape ==
  /\ held = [t \in Tenants |-> held[t]]
  /\ spec = [replicas |-> spec.replicas, podsToDelete |-> spec.podsToDelete]
  /\ Fresh => local = [replicas |-> local.replicas, podsToDelete |-> local.podsToDelete]
  /\ pc \in {"idle", "decided", "take", "add", "remove"}

\* Pods are about to be removed only while an update that names them is tried.
Removing == pc # "remove" => podsToDel = {}

IInv == Shape /\ Removing /\ NoOrphan

-----------------------------------------------------------------------------
LEMMA InitIInv == Init => IInv
<1> SUFFICES ASSUME Init PROVE IInv
  OBVIOUS
<1> USE DEF Init
<1>1. /\ held = [t \in Tenants |-> held[t]] /\ known \subseteq warmed \cup HeldPods
      /\ spec = [replicas |-> spec.replicas, podsToDelete |-> spec.podsToDelete]
  BY DEF Created, Adopted
<1> QED BY <1>1 DEF IInv, Shape, Fresh, Removing, NoOrphan, Owned

-----------------------------------------------------------------------------
(* Tenants and the watch                                                   *)

LEMMA TenantStep ==
  ASSUME IInv, NEW t \in Tenants,
         \/ \E n \in 1..MaxHeld : GetWarmedPods(t, n)
         \/ \E p \in Pods : PutWarmedPod(t, p)
  PROVE  IInv'
<1> USE DEF IInv
<1>1. UNCHANGED <<loopVars, local, spec, exist, known, forgotten>>
  BY DEF GetWarmedPods, PutWarmedPod
<1>2. Shape' /\ warmed \cup HeldPods \subseteq warmed' \cup HeldPods'
  <2>1. ASSUME NEW n \in 1..MaxHeld, GetWarmedPods(t, n)
        PROVE  Shape' /\ warmed \cup HeldPods \subseteq warmed' \cup HeldPods'
    <3>1. PICK S \in Taken(n, warmed) :
            /\ warmed' = warmed \ S
            /\ held' = [held EXCEPT ![t] = @ \cup S]
      BY <2>1 DEF GetWarmedPods
    <3> QED BY <1>1, <3>1 DEF HeldPods, Shape, Fresh, loopVars
  <2>2. ASSUME NEW p \in Pods, PutWarmedPod(t, p)
        PROVE  Shape' /\ warmed \cup HeldPods \subseteq warmed' \cup HeldPods'
    BY <1>1, <2>2 DEF PutWarmedPod, HeldPods, Shape, Fresh, loopVars
  <2> QED BY <2>1, <2>2
<1> QED BY <1>1, <1>2 DEF Removing, NoOrphan, Owned, loopVars

LEMMA WatchStep ==
  ASSUME IInv, NEW p \in Pods, AddPreWarmFromPending(p) \/ HandleK8sDelPodEvent(p)
  PROVE  IInv'
<1> USE DEF IInv
<1>1. UNCHANGED <<loopVars, local, spec, exist, forgotten>>
  BY DEF AddPreWarmFromPending, HandleK8sDelPodEvent
<1>2. CASE AddPreWarmFromPending(p)
  BY <1>1, <1>2 DEF AddPreWarmFromPending, Shape, Fresh, Removing, NoOrphan, Owned, HeldPods,
                    loopVars
<1>3. CASE HandleK8sDelPodEvent(p)
  <2>1. held' = [t \in Tenants |-> held'[t]] /\ HeldPods \ {p} \subseteq HeldPods'
    BY <1>3 DEF HandleK8sDelPodEvent, HeldPods
  <2>2. Shape' /\ Removing'
    BY <1>1, <2>1 DEF Shape, Fresh, Removing, loopVars
  <2>3. NoOrphan'
    BY <1>1, <1>3, <2>1 DEF HandleK8sDelPodEvent, NoOrphan, Owned, loopVars
  <2> QED BY <2>2, <2>3
<1> QED BY <1>2, <1>3

-----------------------------------------------------------------------------
(* The cluster                                                             *)

LEMMA ClusterStep ==
  ASSUME IInv,
         \/ KruiseTruncate \/ KruiseStatus
         \/ \E p \in Pods : KruiseCreate(p) \/ KruiseDelete(p) \/ PodCrash(p)
  PROVE  IInv'
<1> USE DEF IInv
<1>1. UNCHANGED <<warmed, held, loopVars, known>> /\ local' = Stale
  BY DEF KruiseTruncate, KruiseStatus, KruiseCreate, KruiseDelete, PodCrash,
         KruiseWrites, poolVars
<1>2. Owned' = Owned /\ Removing'
  BY <1>1 DEF Owned, HeldPods, Removing, loopVars
<1>3. CASE KruiseTruncate
  <2>1. /\ spec' = [spec EXCEPT !.podsToDelete = @ \cap exist]
        /\ exist' = exist /\ forgotten' = forgotten
    BY <1>3 DEF KruiseTruncate
  <2> QED BY <1>1, <1>2, <2>1 DEF Shape, Fresh, NoOrphan, loopVars
<1>4. CASE KruiseStatus
  BY <1>1, <1>2, <1>4 DEF KruiseStatus, Shape, Fresh, NoOrphan, loopVars
<1>5. ASSUME NEW p \in Pods, KruiseCreate(p)
      PROVE  IInv'
  <2>1. exist' = exist \cup {p} /\ p \notin known /\ UNCHANGED <<spec, forgotten>>
    BY <1>5 DEF KruiseCreate, Unused
  <2> QED BY <1>1, <1>2, <2>1 DEF Shape, Fresh, NoOrphan, loopVars
<1>6. ASSUME NEW p \in Pods, KruiseDelete(p) \/ PodCrash(p)
      PROVE  IInv'
  <2>1. exist' = exist \ {p} /\ forgotten' = forgotten \ {p} /\ spec' = spec
    BY <1>6 DEF KruiseDelete, PodCrash
  <2> QED BY <1>1, <1>2, <2>1 DEF Shape, Fresh, NoOrphan, loopVars
<1> QED BY <1>3, <1>4, <1>5, <1>6

-----------------------------------------------------------------------------
(* The loop                                                                *)

LEMMA WarmStep ==
  ASSUME IInv, DoPodsWarm \/ CountOrder \/ CountSurplus \/ TakeSurplus
  PROVE  IInv'
<1> USE DEF IInv
<1>1. UNCHANGED <<held, local, spec, exist, known, forgotten>>
  BY DEF DoPodsWarm, CountOrder, CountSurplus, TakeSurplus, poolVars
<1>2. CASE UNCHANGED <<warmed, podsToDel>> /\ pc # "remove" /\ pc' # "remove"
  <2>1. pc' \in {"idle", "decided", "take", "add"}
    BY <1>2 DEF DoPodsWarm, CountOrder, CountSurplus, TakeSurplus
  <2> QED BY <1>1, <1>2, <2>1 DEF Shape, Fresh, Removing, NoOrphan, Owned, HeldPods
<1>3. CASE TakeSurplus
  <2>1. PICK S \in Taken(delta, warmed) : warmed' = warmed \ S /\ podsToDel' = S
    BY <1>3 DEF TakeSurplus
  <2>2. pc = "take" /\ pc' = "remove"
    BY <1>3 DEF TakeSurplus
  <2> QED BY <1>1, <2>1, <2>2 DEF Shape, Fresh, Removing, NoOrphan, Owned, HeldPods
<1> QED BY <1>2, <1>3 DEF DoPodsWarm, CountOrder, CountSurplus, poolVars

\* The names of an update are those being removed, or those of the copy.
LEMMA DesiredNames ==
  ASSUME IInv, pc \in {"add", "remove"}, Fresh
  PROVE  /\ Desired = [replicas |-> Desired.replicas,
                       podsToDelete |-> Desired.podsToDelete]
         /\ pc = "remove" => Desired.podsToDelete = podsToDel
BY DEF IInv, Shape, Desired, WithoutPods

\* An update that takes effect leaves no pod unaccounted for: the pods being removed
\* are named, and those named before are so still or forgotten.
LEMMA WriteStep ==
  ASSUME IInv, pc \in {"add", "remove"}, Write
  PROVE  /\ podsToDel \cup (spec.podsToDelete \cap exist) \cup forgotten
              \subseteq spec'.podsToDelete \cup forgotten'
         /\ spec' = [replicas |-> spec'.replicas, podsToDelete |-> spec'.podsToDelete]
<1>1. /\ spec' = Desired /\ Fresh
      /\ forgotten' = (forgotten \cup (spec.podsToDelete \cap exist)) \ spec'.podsToDelete
  BY DEF Write, Accepted
<1>2. podsToDel \subseteq spec'.podsToDelete
  BY <1>1, DesiredNames DEF IInv, Removing
<1> QED BY <1>1, <1>2, DesiredNames

LEMMA UpdateOkStep ==
  ASSUME IInv, UpdateOk
  PROVE  IInv'
<1> USE DEF IInv
<1>1. /\ pc \in {"add", "remove"} /\ pc' = "idle" /\ podsToDel' = {} /\ Write
      /\ local' = spec'
      /\ UNCHANGED <<warmed, held, exist, known>>
  BY DEF UpdateOk, Write, poolVars
<1>2. Shape' /\ Removing'
  BY <1>1, WriteStep DEF Shape, Fresh, Removing
<1>3. NoOrphan'
  BY <1>1, WriteStep DEF NoOrphan, Owned, HeldPods
<1> QED BY <1>2, <1>3

LEMMA UpdateFailsStep ==
  ASSUME IInv, UpdateFails
  PROVE  IInv'
<1> USE DEF IInv
<1>1. /\ pc \in {"add", "remove"} /\ UNCHANGED <<exist, known>>
      /\ Write \/ UNCHANGED <<spec, forgotten>>
  BY DEF UpdateFails
<1>2. \/ UNCHANGED <<warmed, held, pc, podsToDel>>
      \/ /\ warmed' = warmed \cup podsToDel /\ held' = held
         /\ pc' = "idle" /\ podsToDel' = {}
  BY DEF UpdateFails, Reread, GiveUp, WarmedAfterFailure, poolVars
<1>3. Shape' /\ Removing'
  <2>1. local' \in {spec', Stale} \/ (Fresh /\ local' = Reverted)
    BY DEF UpdateFails, Reread
  <2>2. Fresh => Reverted = [replicas |-> Reverted.replicas,
                             podsToDelete |-> Reverted.podsToDelete]
    BY DEF Reverted, Shape
  <2> QED BY <1>1, <1>2, <2>1, <2>2, WriteStep DEF Shape, Fresh, Removing
<1>4. /\ Owned \subseteq Owned'
      /\ (spec.podsToDelete \cap exist) \cup forgotten \subseteq spec'.podsToDelete \cup forgotten'
  BY <1>1, <1>2, WriteStep DEF Owned, HeldPods
<1>5. NoOrphan'
  BY <1>1, <1>4 DEF NoOrphan
<1> QED BY <1>3, <1>5

-----------------------------------------------------------------------------
LEMMA NextIInv == IInv /\ [Next]_vars => IInv'
<1> SUFFICES ASSUME IInv, [Next]_vars PROVE IInv'
  OBVIOUS
<1>1. CASE Loop
  BY <1>1, WarmStep, UpdateOkStep, UpdateFailsStep DEF Loop
<1>2. CASE Kruise \/ KruiseStatus \/ \E p \in Pods : PodCrash(p)
  BY <1>2, ClusterStep DEF Kruise
<1>3. CASE Watch
  BY <1>3, WatchStep DEF Watch
<1>4. ASSUME NEW t \in Tenants,
             \/ \E n \in 1..MaxHeld : GetWarmedPods(t, n)
             \/ \E p \in Pods : PutWarmedPod(t, p)
      PROVE  IInv'
  BY <1>4, TenantStep
<1>5. CASE UNCHANGED vars
  BY <1>5 DEF vars, poolVars, loopVars, IInv, Shape, Fresh, Removing, NoOrphan, Owned, HeldPods
<1> QED BY <1>1, <1>2, <1>3, <1>4, <1>5 DEF Next

\* The autoscaler loses sight of a pod by dropping its name too early and in no other
\* way (meta.go, DoPodsWarm; cluster.go, addNewPods and removePods), with lost
\* replies, retries, crashes and restarts, for any number of pods.
THEOREM PodsNotOrphaned == Spec => []NoOrphan
<1>1. IInv => NoOrphan
  BY DEF IInv
<1> QED BY <1>1, InitIInv, NextIInv, PTL DEF Spec
=============================================================================
