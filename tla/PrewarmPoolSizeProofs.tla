----------------------- MODULE PrewarmPoolSizeProofs -----------------------
(***************************************************************************)
(* What the rounds of the pool and the acts of Kruise do to the number of  *)
(* pods, if no reply is lost, no pod dies and the autoscaler starts over a *)
(* CloneSet that is in order: for any pods, tenants, sizes and retries,    *)
(* and whatever names of pods are dropped before Kruise has deleted them.  *)
(*                                                                         *)
(* The argument keeps one account: the pods the CloneSet keeps and the     *)
(* dead ones the autoscaler still has are together no more than the        *)
(* replicas and the forgotten pods.  So where Kruise has a pod too many to *)
(* delete, there are fewer dead ones than forgotten ones.                  *)
(***************************************************************************)
EXTENDS PrewarmPoolProofs, FiniteSetTheorems

-----------------------------------------------------------------------------
(* Types                                                                   *)

\* The pods that may be taken are of the pool, and no more than were asked for.
LEMMA TakenType ==
  ASSUME NEW n \in Int, NEW S \in SUBSET Pods, NEW T \in Taken(n, S)
  PROVE  /\ T \subseteq S /\ Cardinality(T) \in Nat
         /\ Cardinality(T) <= n
<1>1. T \in SUBSET S /\ Cardinality(T) = IF n < Cardinality(S) THEN n ELSE Cardinality(S)
  BY DEF Taken
<1>2. \A U \in SUBSET Pods : Cardinality(U) \in Nat
  BY FS_Subset, FS_CardinalityType, SizesAssumption
<1> QED BY <1>1, <1>2

\* The unmet demand is a number.
LEMMA TotalType == \A F : FailCntTotal(F) \in Nat
<1>1. IsFiniteSet(1..MaxHeld)
  BY FS_Interval, SizesAssumption
<1>2. IsFiniteSet(Tenants \X (1..MaxHeld))
  BY <1>1, FS_Product, SizesAssumption
<1> QED BY <1>2, FS_Subset, FS_CardinalityType DEF FailCntTotal

\* So is the size of a set of pods.
LEMMA SizeType == \A S \in SUBSET Pods : IsFiniteSet(S) /\ Cardinality(S) \in Nat
BY FS_Subset, FS_CardinalityType, SizesAssumption

\* Faults are only counted.
LEMMA FaultType ==
  ASSUME NEW f \in Counted, Fault(f), faults \in [Counted -> 0..MaxFaults]
  PROVE  faults' \in [Counted -> 0..MaxFaults] /\ FaultCount' # 0
<1>1. \A g \in Counted : faults[g] \in 0..MaxFaults
  OBVIOUS
<1> QED BY <1>1, SizesAssumption DEF Fault, FaultCount, Counted

LEMMA InitType == Init => TypeOK
<1> SUFFICES ASSUME Init PROVE TypeOK
  OBVIOUS
<1> USE SizesAssumption
<1>1. Cardinality(Pods) \in Nat
  BY SizeType
<1>2. /\ known \subseteq Pods /\ exist \subseteq Pods /\ warmed \subseteq Pods
      /\ held \in [Tenants -> SUBSET Pods] /\ spec \in CloneSets
      /\ cntOfPending \in Int /\ faults \in [Counted -> 0..MaxFaults]
  <2>1. CASE Created
    BY <2>1 DEF Created, CloneSets
  <2>2. CASE Adopted
    BY <1>1, <2>2 DEF Adopted, CloneSets
  <2> QED BY <2>1, <2>2 DEF Init
<1> QED BY <1>2 DEF Init, TypeOK

LEMMA TenantType ==
  ASSUME TypeOK, NEW t \in Tenants,
         \/ \E n \in 1..MaxHeld : GetWarmedPods(t, n)
         \/ \E p \in Pods : PutWarmedPod(t, p)
  PROVE  TypeOK'
<1> USE DEF TypeOK
<1>1. ASSUME NEW n \in 1..MaxHeld, GetWarmedPods(t, n)
      PROVE  TypeOK'
  <2>1. PICK S \in Taken(n, warmed) :
          /\ warmed' = warmed \ S
          /\ held' = [held EXCEPT ![t] = @ \cup S]
          /\ failCnt' = [failCnt EXCEPT ![t] = n - Cardinality(S)]
    BY <1>1 DEF GetWarmedPods
  <2>2. S \subseteq Pods /\ n - Cardinality(S) \in 0..MaxHeld
    BY TakenType, SizesAssumption
  <2> QED BY <1>1, <2>1, <2>2 DEF GetWarmedPods, loopVars
<1>2. ASSUME NEW p \in Pods, PutWarmedPod(t, p)
      PROVE  TypeOK'
  BY <1>2, SizesAssumption DEF PutWarmedPod, loopVars
<1> QED BY <1>1, <1>2

LEMMA WatchType ==
  ASSUME TypeOK, NEW p \in Pods, AddPreWarmFromPending(p) \/ HandleK8sDelPodEvent(p)
  PROVE  TypeOK'
BY DEF TypeOK, AddPreWarmFromPending, HandleK8sDelPodEvent, Arrived, loopVars

LEMMA ClusterType ==
  ASSUME TypeOK,
         \/ KruiseTruncate \/ KruiseStatus
         \/ \E p \in Pods : KruiseCreate(p) \/ KruiseDelete(p) \/ PodCrash(p)
  PROVE  TypeOK'
<1> USE DEF TypeOK
<1>1. CASE KruiseTruncate \/ KruiseStatus
  BY <1>1 DEF KruiseTruncate, KruiseStatus, KruiseWrites, CloneSets, poolVars, loopVars
<1>2. ASSUME NEW p \in Pods, KruiseCreate(p) \/ KruiseDelete(p)
      PROVE  TypeOK'
  BY <1>2 DEF KruiseCreate, KruiseDelete, KruiseWrites, poolVars, loopVars
<1>3. ASSUME NEW p \in Pods, PodCrash(p)
      PROVE  TypeOK'
  BY <1>3, FaultType DEF Counted, PodCrash, KruiseWrites, poolVars, loopVars
<1> QED BY <1>1, <1>2, <1>3

LEMMA WarmType ==
  ASSUME TypeOK, DoPodsWarm \/ CountOrder \/ CountSurplus \/ TakeSurplus
  PROVE  TypeOK'
<1> USE DEF TypeOK
<1>1. Cardinality(warmed) \in Nat
  BY SizeType
<1>2. CASE DoPodsWarm
  <2>1. failCnt' \in [Tenants -> 0..MaxHeld]
    BY <1>2, SizesAssumption DEF DoPodsWarm
  <2>2. delta' \in Int
    BY <1>1, <1>2, TotalType, SizesAssumption DEF DoPodsWarm, Missing
  <2> QED BY <1>2, <2>1, <2>2 DEF DoPodsWarm
<1>3. CASE CountOrder
  BY <1>3, SizesAssumption DEF CountOrder, poolVars
<1>4. CASE CountSurplus
  BY <1>1, <1>4, SizesAssumption DEF CountSurplus, RemoveCnt, poolVars
<1>5. CASE TakeSurplus
  BY <1>5, TakenType, SizesAssumption DEF TakeSurplus
<1> QED BY <1>2, <1>3, <1>4, <1>5

LEMMA DesiredType == TypeOK /\ Fresh => Desired \in CloneSets /\ Reverted \in CloneSets
<1>1. TypeOK => Cardinality(podsToDel) \in Nat
  BY SizeType DEF TypeOK
<1> QED BY <1>1 DEF TypeOK, Fresh, Desired, WithoutPods, Reverted, CloneSets

LEMMA WriteType ==
  ASSUME TypeOK, Write
  PROVE  spec' \in CloneSets /\ forgotten' \subseteq exist
BY DesiredType DEF TypeOK, Write, Accepted

LEMMA UpdateType ==
  ASSUME TypeOK, UpdateOk \/ UpdateFails
  PROVE  TypeOK'
<1> USE DEF TypeOK
<1>1. CASE UpdateOk
  <2>1. local' = spec' /\ Write
    BY <1>1 DEF UpdateOk, Write
  <2> QED BY <1>1, <2>1, WriteType, SizesAssumption DEF UpdateOk, poolVars
<1>2. CASE UpdateFails
  <2>1. /\ spec' \in CloneSets /\ faults' \in [Counted -> 0..MaxFaults]
        /\ forgotten' \subseteq exist
    BY <1>2, WriteType, FaultType DEF UpdateFails, Counted
  <2>2. local' \in CloneSets \cup {Stale}
    BY <1>2, <2>1, DesiredType DEF UpdateFails, Reread
  <2>3. \/ /\ RetryLeft /\ retryCnt' = retryCnt - 1
           /\ UNCHANGED <<poolVars, cntOfPending, pc, delta, podsToDel>>
        \/ GiveUp
    BY <1>2 DEF UpdateFails, Reread
  <2>4. UNCHANGED <<exist, known>>
    BY <1>2 DEF UpdateFails
  <2>5. CASE GiveUp
    BY <2>1, <2>2, <2>4, <2>5, SizesAssumption
       DEF GiveUp, PendingAfterFailure, WarmedAfterFailure
  <2> QED BY <2>1, <2>2, <2>3, <2>4, <2>5, SizesAssumption DEF RetryLeft, poolVars
<1> QED BY <1>1, <1>2

LEMMA NextType == TypeOK /\ [Next]_vars => TypeOK'
<1> SUFFICES ASSUME TypeOK, [Next]_vars PROVE TypeOK'
  OBVIOUS
<1>1. CASE Loop
  BY <1>1, WarmType, UpdateType DEF Loop
<1>2. CASE Kruise \/ KruiseStatus \/ \E p \in Pods : PodCrash(p)
  BY <1>2, ClusterType DEF Kruise
<1>3. CASE Watch
  BY <1>3, WatchType DEF Watch
<1>4. ASSUME NEW t \in Tenants,
             \/ \E n \in 1..MaxHeld : GetWarmedPods(t, n)
             \/ \E p \in Pods : PutWarmedPod(t, p)
      PROVE  TypeOK'
  BY <1>4, TenantType
<1>5. CASE UNCHANGED vars
  BY <1>5 DEF vars, poolVars, loopVars, TypeOK
<1> QED BY <1>1, <1>2, <1>3, <1>4, <1>5 DEF Next

\* The variables have their types, whatever fails: the retries of an update stay
\* within their number, and the demand of a tenant within what it asked for.
THEOREM TypeCorrect == Spec => []TypeOK
BY InitType, NextType, PTL DEF Spec

-----------------------------------------------------------------------------
(* The invariant about places and numbers, while there is no fault         *)

\* Pods that will be deleted: named, and alive.
Doomed == spec.podsToDelete \cap exist

\* A pod the autoscaler has was reported, unless it is dead, and is in one place only;
\* it is neither forgotten nor about to be deleted.  Only reported pods are.
Places ==
  /\ Owned \cap exist \subseteq known
  /\ Doomed \subseteq known /\ forgotten \subseteq known
  /\ Owned \cap Doomed = {} /\ Owned \cap forgotten = {} /\ Doomed \cap forgotten = {}
  /\ warmed \cap HeldPods = {} /\ podsToDel \cap (warmed \cup HeldPods) = {}
  /\ \A t, u \in Tenants : t # u => held[t] \cap held[u] = {}

\* The account of the pods: those kept and the dead ones the autoscaler has are no
\* more than the replicas and the forgotten ones.
Account ==
  Cardinality(Kept) + Cardinality(Owned \ exist)
    <= spec.replicas + Cardinality(forgotten)

\* A pod that the autoscaler has was killed for a forgotten one.
Killed == Cardinality(Owned \ exist) <= Cardinality(forgotten)

\* The pods on order and those the autoscaler has are covered by the replicas.
Ordered ==
  cntOfPending + Cardinality(Owned)
    <= spec.replicas + IF pc = "add" THEN delta ELSE 0

\* The copy has the server's replicas, and no name that the server's has not.
CopyFresh ==
  Fresh => /\ local.replicas = spec.replicas
           /\ local.podsToDelete \subseteq spec.podsToDelete

\* What is ordered is not nothing.
OrderMade == pc = "add" => delta > 0

Numbers == Places /\ Account /\ Killed /\ Ordered /\ CopyFresh /\ OrderMade

NInv == TypeOK /\ IInv /\ (NoFault => Numbers)

\* The sets whose sizes the invariant is about are finite.
LEMMA Sizes ==
  ASSUME TypeOK
  PROVE  /\ Owned \subseteq Pods /\ Kept \subseteq Pods
         /\ \A S \in SUBSET Pods : IsFiniteSet(S) /\ Cardinality(S) \in Nat
BY SizeType DEF TypeOK, Owned, HeldPods, Kept

\* Sizes of sets of pods, one of which is a part of the other, or apart from it.
LEMMA SizeOfParts ==
  ASSUME NEW S \in SUBSET Pods, NEW T \in SUBSET Pods
  PROVE  /\ T \subseteq S => Cardinality(S \ T) = Cardinality(S) - Cardinality(T)
         /\ S \cap T = {} => Cardinality(S \cup T) = Cardinality(S) + Cardinality(T)
         /\ T \subseteq S => Cardinality(T) <= Cardinality(S)
<1>1. IsFiniteSet(S) /\ IsFiniteSet(T)
  BY SizeType
<1>2. T \subseteq S => S \cap T = T
  OBVIOUS
<1>3. Cardinality(S \ T) = Cardinality(S) - Cardinality(S \cap T)
  BY <1>1, FS_Difference
<1>4. Cardinality(S \cup T) = Cardinality(S) + Cardinality(T) - Cardinality(S \cap T)
  BY <1>1, FS_Union
<1>5. T \subseteq S => Cardinality(T) <= Cardinality(S)
  BY <1>1, FS_Subset
<1> QED BY <1>2, <1>3, <1>4, <1>5, FS_EmptySet, SizeType

\* A fault stays counted.
LEMMA FaultStays == TypeOK /\ [Next]_vars /\ NoFault' => NoFault
<1> SUFFICES ASSUME TypeOK, [Next]_vars, NoFault' PROVE NoFault
  OBVIOUS
<1>1. CASE UNCHANGED faults
  BY <1>1 DEF NoFault, FaultCount
<1>2. ASSUME NEW f \in Counted, Fault(f)
      PROVE  NoFault
  BY <1>2, FaultType DEF TypeOK, NoFault
<1>3. UNCHANGED faults \/ Fault("lost") \/ Fault("crash")
  BY DEF Next, vars, Loop, DoPodsWarm, CountOrder, CountSurplus, TakeSurplus, UpdateOk,
         UpdateFails, Kruise, KruiseTruncate, KruiseCreate, KruiseDelete, Watch,
         AddPreWarmFromPending, HandleK8sDelPodEvent, KruiseStatus, GetWarmedPods,
         PutWarmedPod, PodCrash
<1> QED BY <1>1, <1>2, <1>3 DEF Counted

LEMMA InitNumbers == Init /\ NoFault => Numbers
<1> SUFFICES ASSUME Init, NoFault PROVE Numbers
  OBVIOUS
<1>0. TypeOK
  BY InitType
<1>1. /\ podsToDel = {} /\ pc = "idle" /\ forgotten = {} /\ local = spec
      /\ Doomed = {} /\ Owned = known /\ known \subseteq exist
      /\ warmed \cap HeldPods = {}
      /\ \A t, u \in Tenants : t # u => held[t] \cap held[u] = {}
      /\ Cardinality(exist) <= spec.replicas
      /\ cntOfPending + Cardinality(known) <= spec.replicas
  <2>1. CASE Created
    BY <2>1, FS_EmptySet, SizesAssumption DEF Init, Created, Doomed, Owned, HeldPods
  <2>2. CASE Adopted
    <3>1. Settled
      BY <2>2, <1>0 DEF Adopted, NoFault, FaultCount, Counted
    <3>2. /\ known \subseteq exist /\ cntOfPending = 0 /\ spec.replicas \in Int
          /\ warmed \cap HeldPods = {}
      BY <2>2, <1>0 DEF Adopted, HeldPods, TypeOK, CloneSets
    <3>3. Cardinality(known) <= Cardinality(exist)
      BY <1>0, <3>2, SizeOfParts DEF TypeOK
    <3>4. Cardinality(known) \in Nat /\ Cardinality(exist) \in Nat
      BY <1>0, SizeType DEF TypeOK
    <3> QED BY <2>2, <3>1, <3>2, <3>3, <3>4 DEF Init, Adopted, Doomed, Owned, Settled
  <2> QED BY <2>1, <2>2 DEF Init
<1>2. Kept = exist /\ Owned \ exist = {} /\ Cardinality({}) = 0
  BY <1>1, FS_EmptySet DEF Kept, Doomed
<1>3. /\ Cardinality(exist) \in Nat /\ Cardinality(known) \in Nat
      /\ spec.replicas \in Int /\ cntOfPending \in Int
  BY <1>0, SizeType DEF TypeOK, CloneSets
<1>4. Places /\ CopyFresh /\ OrderMade
  BY <1>1 DEF Places, CopyFresh, OrderMade
<1>5. Account /\ Killed
  <2>1. /\ Cardinality(Kept) = Cardinality(exist) /\ Cardinality(forgotten) = 0
        /\ Cardinality(Owned \ exist) = 0
    BY <1>1, <1>2
  <2> QED BY <1>1, <1>3, <2>1 DEF Account, Killed
<1>6. Ordered
  BY <1>1, <1>3 DEF Ordered
<1> QED BY <1>4, <1>5, <1>6 DEF Numbers

-----------------------------------------------------------------------------
(* Tenants and the watch                                                   *)

LEMMA TenantNumbers ==
  ASSUME NInv, Numbers, NEW t \in Tenants,
         \/ \E n \in 1..MaxHeld : GetWarmedPods(t, n)
         \/ \E p \in Pods : PutWarmedPod(t, p)
  PROVE  Numbers'
<1> USE DEF NInv, Numbers
<1>1. UNCHANGED <<cntOfPending, loopVars, local, spec, exist, known, forgotten>>
  BY DEF GetWarmedPods, PutWarmedPod
<1>2. Owned' = Owned /\ Places'
  <2>1. ASSUME NEW n \in 1..MaxHeld, GetWarmedPods(t, n)
        PROVE  Owned' = Owned /\ Places'
    <3>1. PICK S \in Taken(n, warmed) :
            warmed' = warmed \ S /\ held' = [held EXCEPT ![t] = @ \cup S]
      BY <2>1 DEF GetWarmedPods
    <3>2. S \subseteq warmed
      BY DEF Taken
    <3>3. HeldPods' = HeldPods \cup S
      BY <3>1 DEF HeldPods, TypeOK
    <3>4. Owned' = Owned
      BY <1>1, <3>1, <3>2, <3>3 DEF Owned, loopVars
    <3>5. \A u, v \in Tenants : u # v => held'[u] \cap held'[v] = {}
      BY <3>1, <3>2 DEF Places, HeldPods, TypeOK
    <3> QED BY <1>1, <3>1, <3>2, <3>3, <3>4, <3>5 DEF Places, Doomed, loopVars
  <2>2. ASSUME NEW p \in Pods, PutWarmedPod(t, p)
        PROVE  Owned' = Owned /\ Places'
    <3>1. /\ p \in held[t] /\ warmed' = warmed \cup {p}
          /\ held' = [held EXCEPT ![t] = @ \ {p}]
      BY <2>2 DEF PutWarmedPod
    <3>2. HeldPods' = HeldPods \ {p} /\ p \in HeldPods
      BY <3>1 DEF HeldPods, TypeOK, Places
    <3>3. Owned' = Owned
      BY <1>1, <3>1, <3>2 DEF Owned, loopVars
    <3>4. \A u, v \in Tenants : u # v => held'[u] \cap held'[v] = {}
      BY <3>1 DEF Places, TypeOK
    <3> QED BY <1>1, <3>1, <3>2, <3>3, <3>4 DEF Places, Doomed, loopVars
  <2> QED BY <2>1, <2>2
<1> QED BY <1>1, <1>2
        DEF Account, Killed, Ordered, CopyFresh, Fresh, OrderMade, Kept, loopVars

\* A pod that was not reported was on order, or there is a replica to spare.
LEMMA ArrivalNumbers ==
  ASSUME NInv, Numbers, NEW p \in Pods, AddPreWarmFromPending(p)
  PROVE  Numbers'
<1> USE DEF NInv, Numbers
<1>1. /\ UNCHANGED <<held, loopVars, local, spec, exist, forgotten>>
      /\ p \in exist /\ p \notin known /\ known' = known \cup {p}
      /\ warmed' = warmed \cup {p} /\ cntOfPending' = Arrived
  BY DEF AddPreWarmFromPending
<1>2. /\ Owned' = Owned \cup {p} /\ p \notin Owned /\ Kept' = Kept
      /\ Owned' \ exist' = Owned \ exist /\ p \in Kept /\ p \notin forgotten
  BY <1>1 DEF Owned, HeldPods, Kept, Places, Doomed, loopVars
<1>3. Places'
  BY <1>1, <1>2 DEF Places, Doomed, Owned, HeldPods, loopVars
<1>4. (Account /\ Killed /\ CopyFresh /\ OrderMade)'
  BY <1>1, <1>2 DEF Account, Killed, CopyFresh, Fresh, OrderMade, loopVars
<1>5. Cardinality(Owned') = Cardinality(Owned) + 1 /\ Cardinality(Owned) \in Nat
  BY <1>2, Sizes, FS_AddElement
\* The pods it has with the new one are kept and not forgotten, or dead.
<1>6. Cardinality(Owned) + 1 <= spec.replicas
  <2> DEFINE Live == (Owned \cap exist) \cup {p}
  <2>1. /\ Live \subseteq Kept \ forgotten /\ forgotten \subseteq Kept
        /\ Owned \cup {p} = Live \cup (Owned \ exist) /\ Live \cap (Owned \ exist) = {}
    BY <1>1, <1>2 DEF Kept, Places, Doomed, TypeOK
  <2>2. /\ Live \subseteq Pods /\ Owned \ exist \subseteq Pods /\ Kept \subseteq Pods
        /\ Kept \ forgotten \subseteq Pods /\ forgotten \subseteq Pods
    BY Sizes DEF TypeOK
  <2> HIDE DEF Live
  <2>3. Cardinality(Owned \cup {p}) = Cardinality(Live) + Cardinality(Owned \ exist)
    BY <2>1, <2>2, SizeOfParts
  <2>4. Cardinality(Live) <= Cardinality(Kept) - Cardinality(forgotten)
    <3>1. Cardinality(Live) <= Cardinality(Kept \ forgotten)
      BY <2>1, <2>2, SizeOfParts
    <3>2. Cardinality(Kept \ forgotten) = Cardinality(Kept) - Cardinality(forgotten)
      BY <2>1, <2>2, SizeOfParts
    <3> QED BY <3>1, <3>2
  <2>5. /\ Cardinality(Live) \in Nat /\ Cardinality(Owned \ exist) \in Nat
        /\ Cardinality(Kept) \in Nat /\ Cardinality(forgotten) \in Nat
        /\ spec.replicas \in Int
    BY <2>2, SizeType DEF TypeOK, CloneSets
  <2> QED BY <1>2, <1>5, <2>3, <2>4, <2>5 DEF Account
<1>7. Ordered'
  <2>1. UNCHANGED <<spec, pc, delta>> /\ cntOfPending \in Int /\ delta \in Int
        /\ spec.replicas \in Int
    BY <1>1 DEF loopVars, TypeOK, CloneSets
  <2> QED BY <1>1, <1>5, <1>6, <2>1 DEF Ordered, Arrived, OrderMade
<1> QED BY <1>3, <1>4, <1>7

LEMMA DeletionNumbers ==
  ASSUME NInv, Numbers, NEW p \in Pods, HandleK8sDelPodEvent(p)
  PROVE  Numbers'
<1> USE DEF NInv, Numbers
<1>1. /\ UNCHANGED <<cntOfPending, loopVars, local, spec, exist, forgotten>>
      /\ p \notin exist /\ known' = known \ {p} /\ warmed' = warmed \ {p}
      /\ held' = [t \in Tenants |-> held[t] \ {p}]
  BY DEF HandleK8sDelPodEvent
<1>2. HeldPods' = HeldPods \ {p}
  BY <1>1 DEF HeldPods
<1>3. /\ Owned' \subseteq Owned /\ Owned' \ exist' \subseteq Owned \ exist
      /\ Kept' = Kept
  BY <1>1, <1>2 DEF Owned, Kept, loopVars
<1>4. Places'
  <2>1. p \notin Doomed /\ p \notin forgotten /\ Doomed' = Doomed
    BY <1>1 DEF Doomed, TypeOK
  <2>2. Owned' \cap exist' \subseteq known'
    BY <1>1, <1>3 DEF Places
  <2> QED BY <1>1, <1>2, <1>3, <2>1, <2>2 DEF Places, loopVars
<1>5. /\ Cardinality(Owned') <= Cardinality(Owned)
      /\ Cardinality(Owned' \ exist') <= Cardinality(Owned \ exist)
  <2>1. /\ Owned \in SUBSET Pods /\ Owned' \in SUBSET Pods
        /\ Owned \ exist \in SUBSET Pods /\ Owned' \ exist' \in SUBSET Pods
    BY <1>3, Sizes
  <2> QED BY <1>3, <2>1, SizeOfParts
<1>6. Cardinality(Owned) \in Nat /\ Cardinality(Owned') \in Nat
      /\ Cardinality(Owned \ exist) \in Nat /\ Cardinality(Owned' \ exist') \in Nat
      /\ Cardinality(Kept) \in Nat /\ Cardinality(forgotten) \in Nat
  BY <1>3, Sizes DEF TypeOK
<1>7. UNCHANGED <<spec, pc, delta, cntOfPending, forgotten, Kept>>
  BY <1>1, <1>3 DEF loopVars
<1>8. (Account /\ Killed /\ Ordered)'
  BY <1>5, <1>6, <1>7 DEF Account, Killed, Ordered, TypeOK, CloneSets
<1>9. (CopyFresh /\ OrderMade)'
  BY <1>1 DEF CopyFresh, Fresh, OrderMade, loopVars
<1> QED BY <1>4, <1>8, <1>9

-----------------------------------------------------------------------------
(* The cluster                                                             *)

\* A pod is gone: it was named, and nothing changes, or it was surplus, and then more
\* forgotten pods are left than dead ones.
LEMMA DeleteNumbers ==
  ASSUME NInv, Numbers, NEW p \in Pods, KruiseDelete(p)
  PROVE  Numbers'
<1> USE DEF NInv, Numbers
<1>1. /\ exist' = exist \ {p} /\ forgotten' = forgotten \ {p} /\ spec' = spec
      /\ p \in exist /\ local' = Stale
      /\ UNCHANGED <<warmed, held, cntOfPending, pc, delta, podsToDel, known>>
  BY DEF KruiseDelete, KruiseWrites, poolVars, loopVars
<1>2. Owned' = Owned /\ HeldPods' = HeldPods /\ Doomed' = Doomed \ {p} /\ Kept' = Kept \ {p}
  BY <1>1 DEF Owned, HeldPods, Doomed, Kept
<1>3. Places' /\ Ordered' /\ CopyFresh' /\ OrderMade'
  BY <1>1, <1>2 DEF Places, Ordered, CopyFresh, Fresh, OrderMade
<1>4. /\ Owned \ exist \in SUBSET Pods /\ Kept \in SUBSET Pods
      /\ forgotten \in SUBSET Pods /\ forgotten \subseteq Kept
  BY Sizes DEF TypeOK, Kept, Places, Doomed
<1>5. /\ Cardinality(Owned \ exist) \in Nat /\ Cardinality(Kept) \in Nat
      /\ Cardinality(forgotten) \in Nat /\ spec.replicas \in Int
  BY <1>4, SizeType DEF TypeOK, CloneSets
<1>6. CASE p \in spec.podsToDelete
  <2>1. Kept' = Kept /\ Owned' \ exist' = Owned \ exist /\ forgotten' = forgotten
    BY <1>1, <1>2, <1>6 DEF Kept, Places, Doomed
  <2> QED BY <1>1, <1>3, <2>1 DEF Account, Killed
<1>7. CASE p \notin spec.podsToDelete
  <2>1. p \in Kept /\ Cardinality(Kept) > spec.replicas
    BY <1>7 DEF KruiseDelete
  <2>2. Cardinality(Kept') = Cardinality(Kept) - 1
    BY <1>2, <1>4, <2>1, SizeType, FS_RemoveElement
  <2>3. Cardinality(Owned \ exist) < Cardinality(forgotten)
    BY <1>5, <2>1 DEF Account
  <2>4. CASE p \in Owned
    <3>1. /\ Owned' \ exist' = (Owned \ exist) \cup {p} /\ p \notin Owned \ exist
          /\ forgotten' = forgotten
      BY <1>1, <1>2, <2>4 DEF Places
    <3>2. Cardinality(Owned' \ exist') = Cardinality(Owned \ exist) + 1
      BY <1>4, <3>1, SizeType, FS_AddElement
    <3>3. Cardinality(forgotten') = Cardinality(forgotten)
      BY <3>1
    <3>4. Account' /\ Killed'
      BY <1>1, <1>5, <2>2, <2>3, <3>2, <3>3 DEF Account, Killed
    <3> QED BY <1>3, <3>4
  <2>5. CASE p \notin Owned
    <3>1. Owned' \ exist' = Owned \ exist
      BY <1>1, <1>2, <2>5
    <3>2. \/ Cardinality(forgotten') = Cardinality(forgotten)
          \/ Cardinality(forgotten') = Cardinality(forgotten) - 1
      <4>1. CASE p \in forgotten
        BY <1>1, <1>4, <4>1, SizeType, FS_RemoveElement
      <4>2. CASE p \notin forgotten
        <5>1. forgotten' = forgotten
          BY <1>1, <4>2
        <5> QED BY <5>1
      <4> QED BY <4>1, <4>2
    <3>3. Cardinality(Owned' \ exist') = Cardinality(Owned \ exist)
      BY <3>1
    <3>4. Account' /\ Killed'
      BY <1>1, <1>5, <2>2, <2>3, <3>2, <3>3 DEF Account, Killed
    <3> QED BY <1>3, <3>4
  <2> QED BY <2>4, <2>5
<1> QED BY <1>6, <1>7

LEMMA KruiseNumbers ==
  ASSUME NInv, Numbers, KruiseTruncate \/ KruiseStatus \/ \E p \in Pods : KruiseCreate(p)
  PROVE  Numbers'
<1> USE DEF NInv, Numbers
<1>1. /\ local' = Stale /\ forgotten' = forgotten /\ spec'.replicas = spec.replicas
      /\ UNCHANGED <<warmed, held, cntOfPending, pc, delta, podsToDel, known>>
  BY DEF KruiseTruncate, KruiseStatus, KruiseCreate, KruiseWrites, poolVars, loopVars,
         TypeOK, CloneSets
<1>2. CopyFresh' /\ OrderMade' /\ Owned' = Owned /\ HeldPods' = HeldPods /\ Ordered'
  BY <1>1 DEF CopyFresh, Fresh, OrderMade, Owned, HeldPods, Ordered
<1>3. CASE KruiseTruncate \/ KruiseStatus
  <2>1. exist' = exist /\ Doomed' = Doomed
    BY <1>3 DEF KruiseTruncate, KruiseStatus, Doomed, TypeOK, CloneSets
  <2>2. Kept' = Kept
    BY <2>1 DEF Kept, Doomed
  <2> QED BY <1>1, <1>2, <2>1, <2>2 DEF Places, Account, Killed
<1>4. ASSUME NEW p \in Pods, KruiseCreate(p)
      PROVE  Numbers'
  <2>1. /\ exist' = exist \cup {p} /\ spec' = spec /\ p \notin exist
        /\ p \notin known \cup spec.podsToDelete \cup Owned
        /\ Cardinality(Kept) < spec.replicas
    BY <1>4 DEF KruiseCreate, Unused, Owned
  <2>2. /\ Kept' = Kept \cup {p} /\ p \notin Kept /\ Doomed' = Doomed
        /\ Owned' \ exist' = Owned \ exist
    BY <1>2, <2>1 DEF Kept, Doomed
  <2>3. Cardinality(Kept') = Cardinality(Kept) + 1
    BY <2>2, Sizes, FS_AddElement
  <2>4. /\ Cardinality(Owned \ exist) \in Nat /\ Cardinality(Kept) \in Nat
        /\ Cardinality(forgotten) \in Nat /\ spec.replicas \in Int
    BY Sizes DEF TypeOK, CloneSets
  <2>5. Account' /\ Killed'
    BY <1>1, <2>1, <2>2, <2>3, <2>4 DEF Account, Killed
  <2>6. Places'
    BY <1>1, <1>2, <2>1, <2>2 DEF Places
  <2> QED BY <1>2, <2>5, <2>6
<1> QED BY <1>3, <1>4

-----------------------------------------------------------------------------
(* The loop                                                                *)

LEMMA WarmNumbers ==
  ASSUME NInv, Numbers, DoPodsWarm \/ CountOrder \/ CountSurplus \/ TakeSurplus
  PROVE  Numbers'
<1> USE DEF NInv, Numbers
<1>1. UNCHANGED <<held, local, spec, exist, known, forgotten>>
  BY DEF DoPodsWarm, CountOrder, CountSurplus, TakeSurplus, poolVars
<1>2. Owned' = Owned /\ HeldPods' = HeldPods /\ Places'
  <2>1. CASE TakeSurplus
    <3>1. PICK S \in Taken(delta, warmed) : warmed' = warmed \ S /\ podsToDel' = S
      BY <2>1 DEF TakeSurplus
    <3>2. S \subseteq warmed /\ podsToDel = {}
      BY <2>1 DEF Taken, TakeSurplus, IInv, Removing
    <3> QED BY <1>1, <3>1, <3>2 DEF Places, Owned, HeldPods, Doomed
  <2>2. CASE UNCHANGED <<warmed, podsToDel>>
    BY <1>1, <2>2 DEF Places, Owned, HeldPods, Doomed
  <2> QED BY <2>1, <2>2 DEF DoPodsWarm, CountOrder, CountSurplus, poolVars
<1>3. (Account /\ Killed /\ CopyFresh)'
  BY <1>1, <1>2 DEF Account, Killed, CopyFresh, Fresh, Kept
<1>4. OrderMade'
  BY DEF DoPodsWarm, CountOrder, CountSurplus, TakeSurplus, OrderMade
<1>5. Ordered'
  <2>1. /\ Cardinality(Owned) \in Nat /\ spec.replicas \in Int /\ cntOfPending \in Int
        /\ delta \in Int
    BY Sizes DEF TypeOK, CloneSets
  <2> QED BY <1>1, <1>2, <2>1 DEF DoPodsWarm, CountOrder, CountSurplus, TakeSurplus, Ordered
<1> QED BY <1>2, <1>3, <1>4, <1>5

\* An update names no forgotten pod: the pods whose names it drops are forgotten too,
\* and kept from then on.
LEMMA ForgottenByWrite ==
  ASSUME NInv, Numbers, pc \in {"add", "remove"}, Write, UNCHANGED exist
  PROVE  \E D \in SUBSET Doomed :
           /\ forgotten' = forgotten \cup D
           /\ Doomed = D \cup (Doomed \cap spec'.podsToDelete)
           /\ D \cap spec'.podsToDelete = {}
           /\ Cardinality(forgotten') = Cardinality(forgotten) + Cardinality(D)
<1> USE DEF NInv, Numbers
<1> DEFINE D == Doomed \ spec'.podsToDelete
<1>1. forgotten' = (forgotten \cup Doomed) \ spec'.podsToDelete
  BY DEF Write, Doomed
<1>2. spec'.podsToDelete \cap forgotten = {}
  <2>1. spec' = Desired /\ Fresh
    BY DEF Write, Accepted
  <2>2. CASE pc = "add"
    BY <2>1, <2>2 DEF Desired, CopyFresh, Places, Doomed, TypeOK, CloneSets, Fresh
  <2>3. CASE pc = "remove"
    BY <2>1, <2>3, DesiredNames DEF Owned, Places
  <2> QED BY <2>2, <2>3
<1>3. forgotten' = forgotten \cup D /\ forgotten \cap D = {}
  BY <1>1, <1>2 DEF Places
<1>4. forgotten \in SUBSET Pods /\ D \in SUBSET Pods
  BY DEF TypeOK, Doomed
<1>5. Cardinality(forgotten') = Cardinality(forgotten) + Cardinality(D)
  BY <1>3, <1>4, SizeOfParts
<1> QED BY <1>3, <1>5

\* An order raises the replicas by what was counted as pending.
LEMMA OrderNumbers ==
  ASSUME NInv, Numbers, UpdateOk, pc = "add"
  PROVE  Numbers'
<1> USE DEF NInv, Numbers
<1>1. /\ pc' = "idle" /\ podsToDel' = podsToDel /\ local' = spec' /\ Write
      /\ spec' = [local EXCEPT !.replicas = @ + delta] /\ Fresh
      /\ UNCHANGED <<warmed, held, cntOfPending, exist, known>>
  BY DEF UpdateOk, Write, Accepted, Desired, poolVars, IInv, Removing
<1>2. /\ spec'.replicas = spec.replicas + delta
      /\ spec'.podsToDelete \subseteq spec.podsToDelete
  BY <1>1 DEF CopyFresh, TypeOK, CloneSets, Fresh
<1>3. PICK D \in SUBSET Doomed :
        /\ forgotten' = forgotten \cup D
        /\ Doomed = D \cup (Doomed \cap spec'.podsToDelete)
        /\ D \cap spec'.podsToDelete = {}
        /\ Cardinality(forgotten') = Cardinality(forgotten) + Cardinality(D)
  BY <1>1, ForgottenByWrite
<1>4. /\ Owned' = Owned /\ HeldPods' = HeldPods /\ Doomed' = Doomed \ D
      /\ Kept' = Kept \cup D /\ Kept \cap D = {}
  BY <1>1, <1>2, <1>3 DEF Owned, HeldPods, Doomed, Kept
<1>5. Cardinality(Kept') = Cardinality(Kept) + Cardinality(D)
  <2>1. Kept \in SUBSET Pods /\ D \in SUBSET Pods
    BY Sizes DEF TypeOK, Doomed
  <2> QED BY <1>4, <2>1, SizeOfParts
<1>6. /\ Cardinality(Owned \ exist) \in Nat /\ Cardinality(Kept) \in Nat
      /\ Cardinality(forgotten) \in Nat /\ Cardinality(D) \in Nat
      /\ Cardinality(Owned) \in Nat /\ spec.replicas \in Int /\ cntOfPending \in Int
      /\ delta \in Int
  BY Sizes DEF TypeOK, CloneSets, Doomed
<1>7. (Account /\ Killed)'
  BY <1>1, <1>2, <1>3, <1>4, <1>5, <1>6 DEF Account, Killed, OrderMade
<1>8. Ordered'
  BY <1>1, <1>2, <1>4, <1>6 DEF Ordered
<1>9. Places'
  BY <1>1, <1>3, <1>4 DEF Places
<1>10. CopyFresh' /\ OrderMade'
  BY <1>1 DEF CopyFresh, OrderMade
<1> QED BY <1>7, <1>8, <1>9, <1>10

\* A removal lowers the replicas by the number of pods it names.  Each of them was
\* kept, or is dead and was in the account.
LEMMA RemovalNumbers ==
  ASSUME NInv, Numbers, UpdateOk, pc = "remove"
  PROVE  Numbers'
<1> USE DEF NInv, Numbers
<1>1. /\ pc' = "idle" /\ podsToDel' = {} /\ local' = spec' /\ Write
      /\ spec' = WithoutPods(local) /\ Fresh
      /\ UNCHANGED <<warmed, held, cntOfPending, exist, known>>
  BY DEF UpdateOk, Write, Accepted, Desired, poolVars
<1>2. /\ spec'.replicas = spec.replicas - Cardinality(podsToDel)
      /\ spec'.podsToDelete = podsToDel
  BY <1>1 DEF WithoutPods, CopyFresh
<1>3. PICK D \in SUBSET Doomed :
        /\ forgotten' = forgotten \cup D
        /\ Doomed = D \cup (Doomed \cap spec'.podsToDelete)
        /\ D \cap spec'.podsToDelete = {}
        /\ Cardinality(forgotten') = Cardinality(forgotten) + Cardinality(D)
  BY <1>1, ForgottenByWrite
<1> DEFINE Live == podsToDel \cap exist
           Dead == podsToDel \ exist
<1>4. /\ Doomed = D /\ Doomed' = Live /\ HeldPods' = HeldPods
      /\ Kept' = (Kept \cup D) \ Live /\ Kept \cap D = {} /\ Live \subseteq Kept \cup D
      /\ Owned' = Owned \ podsToDel /\ podsToDel \subseteq Owned
      /\ Owned' \ exist' = (Owned \ exist) \ Dead /\ Dead \subseteq Owned \ exist
      /\ podsToDel = Live \cup Dead /\ Live \cap Dead = {}
  BY <1>1, <1>2, <1>3 DEF Owned, HeldPods, Doomed, Kept, Places
<1>5. /\ Kept \in SUBSET Pods /\ D \in SUBSET Pods /\ Kept \cup D \in SUBSET Pods
      /\ Owned \in SUBSET Pods /\ podsToDel \in SUBSET Pods /\ Live \in SUBSET Pods
      /\ Dead \in SUBSET Pods /\ Owned \ exist \in SUBSET Pods
      /\ forgotten \in SUBSET Pods
  BY Sizes DEF TypeOK, Doomed
<1>6. /\ Cardinality(Owned \ exist) \in Nat /\ Cardinality(Kept) \in Nat
      /\ Cardinality(forgotten) \in Nat /\ Cardinality(D) \in Nat
      /\ Cardinality(Owned) \in Nat /\ Cardinality(podsToDel) \in Nat
      /\ Cardinality(Live) \in Nat /\ Cardinality(Dead) \in Nat
      /\ spec.replicas \in Int /\ cntOfPending \in Int
  BY <1>5, SizeType DEF TypeOK, CloneSets
<1>7. /\ Cardinality(Kept \cup D) = Cardinality(Kept) + Cardinality(D)
      /\ Cardinality((Kept \cup D) \ Live) = Cardinality(Kept \cup D) - Cardinality(Live)
      /\ Cardinality(Owned \ podsToDel) = Cardinality(Owned) - Cardinality(podsToDel)
      /\ Cardinality((Owned \ exist) \ Dead) = Cardinality(Owned \ exist) - Cardinality(Dead)
      /\ Cardinality(podsToDel) = Cardinality(Live) + Cardinality(Dead)
  <2> HIDE DEF Live, Dead
  <2> QED BY <1>4, <1>5, SizeOfParts
<1>8. Places'
  BY <1>1, <1>2, <1>3, <1>4 DEF Places
<1> HIDE DEF Live, Dead
<1>9. (Account /\ Killed)'
  <2>1. Cardinality(Kept') = Cardinality(Kept) + Cardinality(D) - Cardinality(Live)
    BY <1>4, <1>6, <1>7
  <2>2. Cardinality(Owned' \ exist') = Cardinality(Owned \ exist) - Cardinality(Dead)
    BY <1>4, <1>7
  <2> QED BY <1>2, <1>3, <1>6, <1>7, <2>1, <2>2 DEF Account, Killed
<1>10. Ordered'
  BY <1>1, <1>2, <1>4, <1>6, <1>7 DEF Ordered
<1>11. CopyFresh' /\ OrderMade'
  BY <1>1 DEF CopyFresh, OrderMade
<1> QED BY <1>8, <1>9, <1>10, <1>11

\* What a failure without effect reverts is what was done before it.
LEMMA FailureNumbers ==
  ASSUME NInv, Numbers, UpdateFails, NoFault'
  PROVE  Numbers'
<1> USE DEF NInv, Numbers
<1>1. UNCHANGED <<spec, forgotten, exist, known>> /\ pc \in {"add", "remove"}
  BY FaultType DEF UpdateFails, TypeOK, NoFault, Counted
<1>2. CopyFresh'
  <2>1. local' \in {spec', Stale} \/ (Fresh /\ local' = Reverted)
    BY DEF UpdateFails, Reread
  <2>2. Fresh => /\ Reverted.replicas = spec.replicas
                 /\ Reverted.podsToDelete \subseteq spec.podsToDelete
    BY DEF Reverted, CopyFresh, TypeOK, CloneSets, Fresh
  <2> QED BY <1>1, <2>1, <2>2 DEF CopyFresh, Fresh
<1>3. Doomed' = Doomed /\ Kept' = Kept
  BY <1>1 DEF Doomed, Kept
<1>4. UNCHANGED <<poolVars, cntOfPending, pc, delta, podsToDel>> \/ GiveUp
  BY DEF UpdateFails, Reread
<1>5. CASE UNCHANGED <<poolVars, cntOfPending, pc, delta, podsToDel>>
  BY <1>1, <1>2, <1>3, <1>5
     DEF Places, Account, Killed, Ordered, Owned, HeldPods, OrderMade, poolVars
<1>6. CASE GiveUp
  <2>1. /\ warmed' = warmed \cup podsToDel /\ podsToDel' = {} /\ held' = held
        /\ pc' = "idle" /\ cntOfPending' = PendingAfterFailure
    BY <1>6 DEF GiveUp, WarmedAfterFailure
  <2>2. Owned' = Owned /\ HeldPods' = HeldPods
    BY <2>1 DEF Owned, HeldPods
  <2>3. Places' /\ OrderMade'
    BY <1>1, <1>3, <2>1, <2>2 DEF Places, OrderMade
  <2>4. (Account /\ Killed)'
    BY <1>1, <1>3, <2>2 DEF Account, Killed
  <2>5. Ordered'
    <3>1. /\ Cardinality(Owned) \in Nat /\ spec.replicas \in Int /\ cntOfPending \in Int
          /\ delta \in Int
      BY Sizes DEF TypeOK, CloneSets
    <3> QED BY <1>1, <2>1, <2>2, <3>1 DEF Ordered, PendingAfterFailure
  <2> QED BY <1>2, <2>3, <2>4, <2>5
<1> QED BY <1>4, <1>5, <1>6

-----------------------------------------------------------------------------
LEMMA NextNumbers == NInv /\ [Next]_vars => NInv'
<1> SUFFICES ASSUME NInv, [Next]_vars PROVE NInv'
  OBVIOUS
<1>1. TypeOK' /\ IInv'
  BY NextType, NextIInv DEF NInv
<1>2. ASSUME NoFault' PROVE Numbers'
  <2>1. Numbers
    BY <1>2, FaultStays DEF NInv
  <2>2. CASE Loop
    BY <1>2, <2>1, <2>2, WarmNumbers, OrderNumbers, RemovalNumbers, FailureNumbers
       DEF Loop, UpdateOk
  <2>3. CASE Kruise \/ KruiseStatus
    BY <2>1, <2>3, KruiseNumbers, DeleteNumbers DEF Kruise
  <2>4. CASE Watch
    BY <2>1, <2>4, ArrivalNumbers, DeletionNumbers DEF Watch
  <2>5. ASSUME NEW t \in Tenants,
               \/ \E n \in 1..MaxHeld : GetWarmedPods(t, n)
               \/ \E p \in Pods : PutWarmedPod(t, p)
        PROVE  Numbers'
    BY <2>1, <2>5, TenantNumbers
  <2>6. ASSUME NEW p \in Pods, PodCrash(p)
        PROVE  FALSE
    BY <1>2, <2>6, FaultType DEF PodCrash, NInv, TypeOK, NoFault, Counted
  <2>7. CASE UNCHANGED vars
    BY <2>1, <2>7 DEF vars, poolVars, loopVars, Numbers, Places, Doomed, Owned, HeldPods,
       Kept, Account, Killed, Ordered, CopyFresh, Fresh, OrderMade
  <2> QED BY <2>2, <2>3, <2>4, <2>5, <2>6, <2>7 DEF Next
<1> QED BY <1>1, <1>2 DEF NInv

LEMMA NumbersInvariant == Spec => []NInv
<1>1. Init => NInv
  BY InitType, InitIInv, InitNumbers DEF NInv
<1> QED BY <1>1, NextNumbers, PTL DEF Spec

\* The autoscaler waits for no pod that nobody will create, but for one at most per
\* forgotten pod (meta.go, DoPodsWarm and putWarmedPod; cluster.go, addNewPods and
\* removePods), however many updates and reads of the CloneSet fail, in whatever order
\* pods, tenants, rounds and Kruise act.
THEOREM PendingIsCovered == Spec => []PendingCovered
<1>1. ASSUME NInv, NoFault
      PROVE  cntOfPending <= spec.replicas - Cardinality(Kept \cap known)
                               + Cardinality(forgotten)
                               + IF pc = "add" THEN delta ELSE 0
  <2>1. Numbers
    BY <1>1 DEF NInv
  <2>2. /\ Kept \cap known \subseteq Owned \cup forgotten
        /\ Kept \cap known \in SUBSET Pods /\ Owned \cup forgotten \in SUBSET Pods
        /\ Owned \in SUBSET Pods /\ forgotten \in SUBSET Pods /\ Owned \cap forgotten = {}
    BY <1>1, <2>1, Sizes DEF NInv, IInv, NoOrphan, Kept, TypeOK, Numbers, Places
  <2>3. Cardinality(Kept \cap known) <= Cardinality(Owned) + Cardinality(forgotten)
    <3>1. Cardinality(Kept \cap known) <= Cardinality(Owned \cup forgotten)
      BY <2>2, SizeOfParts
    <3>2. Cardinality(Owned \cup forgotten) = Cardinality(Owned) + Cardinality(forgotten)
      BY <2>2, SizeOfParts
    <3> QED BY <3>1, <3>2
  <2>4. /\ Cardinality(Kept \cap known) \in Nat /\ Cardinality(Owned) \in Nat
        /\ Cardinality(forgotten) \in Nat /\ spec.replicas \in Int
        /\ cntOfPending \in Int /\ delta \in Int
    BY <1>1, <2>2, SizeType DEF NInv, TypeOK, CloneSets
  <2> QED BY <2>1, <2>3, <2>4 DEF Numbers, Ordered
<1>2. NInv => PendingCovered
  BY <1>1 DEF PendingCovered
<1> QED BY <1>2, NumbersInvariant, PTL

\* Kruise's scale-in kills pods of the pool and of tenants in place of forgotten ones
\* only (cluster.go, removePods): there are never more dead pods that the autoscaler
\* has than pods that it forgot.
THEOREM KillsAreForForgotten == Spec => []KilledForForgotten
<1>1. NInv => KilledForForgotten
  BY DEF NInv, Numbers, Killed, KilledForForgotten
<1> QED BY <1>1, NumbersInvariant, PTL
=============================================================================
