--------------------------- MODULE AutoScaleMeta ---------------------------
(***************************************************************************)
(* The bookkeeping core of the autoscaler (autoscale/meta.go): which       *)
(* container, a tenant's pod map or the pool of warmed pods, owns each     *)
(* TiFlash compute pod, and the goroutines that move pods between them.    *)
(*                                                                         *)
(* A resize of a tenant (scale out, scale in, pause, resume) takes its     *)
(* pods out of a container under the lock c.mu, releases the lock, calls   *)
(* the supervisor of each pod in a goroutine of its own, and puts the pods *)
(* back into a container as the replies arrive.  Between the two a pod is  *)
(* in flight: no container lists it and only the resize knows it.          *)
(* Meanwhile the scan of pod states, the deletion events of Kubernetes,    *)
(* the 60 second timers of pods that are still unassigning and the trim of *)
(* the pool all work on the same pods.                                     *)
(*                                                                         *)
(* One action is one critical section of c.mu or of the pool's mutex, or   *)
(* one call together with the section that handles its reply.  Merging the *)
(* call with the handling of its reply loses nothing for a pod that one    *)
(* goroutine holds: until the reply is handled its tenantName is "", so    *)
(* the scan ignores it, and what its supervisor does on its own in between *)
(* commutes with the handling.  The order of podList is abstracted: a pop  *)
(* takes any pods of the container.  The pool's pending and failure        *)
(* counters belong to the sizing of the pool and are not modelled here.    *)
(***************************************************************************)
EXTENDS Naturals, FiniteSets

CONSTANTS
  Tenants,       \* names of tenants
  Pods,          \* names of pods; CloneSet never reuses a name
  Threads,       \* goroutines that can run a resize at the same time
  Pool,          \* the owner "", the warmed pods
  NoScan,        \* no correction of this pod is pending
  InitCnt,       \* GetInitCntOfPod, the pods a resume asks for
  MaxDelta,      \* most pods one scaling step asks for or gives back
  SoftLimit,     \* expected size of the pool
  AutoRegister   \* run mode Local or Serverless: unknown tenants are created

ASSUME OwnersAssumption == Pool \notin Tenants
ASSUME ScanAssumption == NoScan \notin Tenants \cup {Pool}
ASSUME CountAssumption ==
  InitCnt \in Nat /\ MaxDelta \in Nat /\ SoftLimit \in Nat
ASSUME ModeAssumption == AutoRegister \in BOOLEAN

VARIABLES
  tenantState,   \* state of each tenant, "unregistered" outside tenantMap
  podDescMap,    \* keys of PodDescMap
  hasIP,         \* pods whose PodDesc has an IP
  podMap,        \* owner -> pods of its podMap and podList
  tenantName,    \* pod -> PodDesc.tenantName
  inSync,        \* pods whose startTimeOfAssign is the supervisor's StartTime
  changing,      \* pods with isStateChanging set
  op,            \* goroutine -> the resize it runs
  pc,            \* goroutine -> where it is in that resize
  opTenant,      \* goroutine -> the tenant it resizes
  batch,         \* goroutine -> podsToAssign or podsToUnassign
  calls,         \* goroutine -> pods whose supervisor call is outstanding
  undo,          \* goroutine -> undoList
  scan,          \* pod -> tenant a scan decided to correct the pod to
  timers,        \* pods HandleUnassingCase will put back into the pool
  overCnt,       \* surplus DoPodsWarm has computed, 0 when it is not trimming
  warmDel,       \* pods DoPodsWarm took out of the pool to remove them
  sup,           \* external: tenant served by the pod's supervisor
  unassigning,   \* external: pods whose supervisor is still unassigning
  gone,          \* external: pods whose deletion event has been handled
  released,      \* history: pods whose removal the API server has accepted
  wild,          \* history: pods reported as wild
  contested,     \* history: pods a scan corrected while a goroutine held them
  lateDeleted    \* history: pods deleted while in flight or being corrected

metaVars == <<tenantState, podDescMap, hasIP, podMap, tenantName, inSync>>
jobVars == <<op, pc, opTenant, batch, calls, undo>>
warmVars == <<overCnt, warmDel>>
supVars == <<sup, unassigning>>
histVars == <<released, wild, contested, lateDeleted>>
vars == <<metaVars, changing, jobVars, scan, timers, warmVars, supVars, gone,
          histVars>>

Owners == Tenants \cup {Pool}
TenantStates == {"unregistered", "resumed", "resuming", "paused", "pausing"}
Ops == {"none", "pause", "resume", "scaleOut", "scaleIn"}
Adding == {"resume", "scaleOut"}
Removing == {"pause", "scaleIn"}

-----------------------------------------------------------------------------
(* State formulae                                                          *)

\* The pod is in flight inside the resize that thread th runs.
InJob(th, p) == p \in calls[th] \cup undo[th]

\* Some goroutine holds the pod: no container is expected to list it.
Held(p) == p \in timers \cup warmDel \/ \E th \in Threads : InJob(th, p)

\* What a pop of n pods may take from a container: n of them, or all.
Taken(n, S) ==
  {T \in SUBSET S :
     Cardinality(T) = IF n < Cardinality(S) THEN n ELSE Cardinality(S)}

-----------------------------------------------------------------------------
(* Helpers of the handlers                                                 *)
(*                                                                         *)
(* A definition whose comment begins with "Mutant" is a plausible bug in   *)
(* the definition that follows it.  The specification never uses it; a     *)
(* property is expected to fail when it takes that definition's place.     *)

\* The compare-and-swap of a tenant's state.
CAS(t, from, to) ==
  [tenantState EXCEPT ![t] = IF @ = from THEN to ELSE @]

\* Mutant: the state is never synced.
SyncForgotten(t) == tenantState

SyncStatePaused(t) == CAS(t, "pausing", "paused")
SyncStateResumed(t) == CAS(t, "resuming", "resumed")

\* muOfGrpc of the pod is free: no scan holds it while it waits for c.mu.
\* Mutant: calls do not take muOfGrpc.
AlwaysFree(p) == TRUE

MuOfGrpcFree(p) == scan[p] = NoScan

\* Mutant: apiWg.Done() is forgotten.
NotDone(th, p) == UNCHANGED calls

ApiWgDone(th, p) == calls' = [calls EXCEPT ![th] = @ \ {p}]

\* Mutant: ClearTenantInfo is forgotten.
TakeNamed(o, S) ==
  /\ podMap' = [podMap EXCEPT ![o] = @ \ S]
  /\ UNCHANGED <<tenantName, inSync>>

\* RemovePod and PopPods: the pods leave the container with no tenant.
TakePods(o, S) ==
  /\ podMap' = [podMap EXCEPT ![o] = @ \ S]
  /\ tenantName' = [p \in Pods |-> IF p \in S THEN Pool ELSE tenantName[p]]
  /\ inSync' = inSync \ S

\* SetPod of every pod of S: startTimeOfAssign stays as it is.
SetPods(o, S) ==
  /\ podMap' = [podMap EXCEPT ![o] = @ \cup S]
  /\ tenantName' = [p \in Pods |-> IF p \in S THEN o ELSE tenantName[p]]
  /\ UNCHANGED inSync

PutWarmedPod(p) == SetPods(Pool, {p})

\* Mutant: the pod is not removed from its old container.
NotStripped(p, o) == podMap

\* The containers without pod p in the one its tenantName says, unless it is o.
Stripped(p, o) ==
  IF tenantName[p] = o THEN podMap
  ELSE [podMap EXCEPT ![tenantName[p]] = @ \ {p}]

\* The pod is listed by o alone of its old container and o, with the tenant
\* and the start time its supervisor reported; an unknown tenant is created
\* or, in the dedicated mode, the pod is left with no container (wild).
UpdateLocalMetaPodOfTenant(p, o) ==
  LET old == tenantName[p]
      known == o = Pool \/ tenantState[o] # "unregistered" \/ AutoRegister
  IN IF known
     THEN /\ podMap' = [Stripped(p, o) EXCEPT ![o] = @ \cup {p}]
          /\ tenantName' = [tenantName EXCEPT ![p] = o]
          /\ tenantState' = [t \in Tenants |->
                               IF t = o THEN "resumed" ELSE tenantState[t]]
          /\ inSync' = inSync \cup {p}
          /\ UNCHANGED wild
     ELSE /\ podMap' = Stripped(p, o)
          /\ tenantName' = [tenantName EXCEPT
               ![p] = IF old # o /\ p \in podMap[old] THEN Pool ELSE old]
          /\ inSync' = inSync \ {p}
          /\ wild' = wild \cup {p}
          /\ UNCHANGED tenantState

-----------------------------------------------------------------------------
\* The runtime begins, no pod is listed yet.  A supervisor may already serve a
\* tenant of an earlier run of the autoscaler: the scan at start-up gives a pod
\* up when its call fails, and the pod then joins the pool like a new one.
Init ==
  /\ tenantState \in [Tenants -> {"unregistered", "paused", "resumed"}]
  /\ podDescMap = {} /\ hasIP = {} /\ inSync = {} /\ changing = {}
  /\ podMap = [o \in Owners |-> {}]
  /\ tenantName = [p \in Pods |-> Pool]
  /\ op = [th \in Threads |-> "none"]
  /\ pc = [th \in Threads |-> "idle"]
  /\ opTenant = [th \in Threads |-> Pool]
  /\ batch = [th \in Threads |-> {}]
  /\ calls = [th \in Threads |-> {}]
  /\ undo = [th \in Threads |-> {}]
  /\ scan = [p \in Pods |-> NoScan]
  /\ timers = {} /\ overCnt = 0 /\ warmDel = {}
  /\ sup \in [Pods -> Owners]
  /\ unassigning = {} /\ gone = {}
  /\ released = {} /\ wild = {} /\ contested = {} /\ lateDeleted = {}

-----------------------------------------------------------------------------
(* Requests: a tenant is registered, paused or resumed                     *)

\* SetupAutoPauseTenantWithPausedState on the first resume of a tenant.
RegisterTenant(t) ==
  /\ tenantState[t] = "unregistered"
  /\ tenantState' = [tenantState EXCEPT ![t] = "paused"]
  /\ UNCHANGED <<podDescMap, hasIP, podMap, tenantName, inSync, changing,
                 jobVars, scan, timers, warmVars, supVars, gone, histVars>>

\* The compare-and-swap of a request that spawns goroutine th.
Spawn(th, t, kind, from, to) ==
  /\ pc[th] = "idle"
  /\ tenantState[t] = from
  /\ tenantState' = [tenantState EXCEPT ![t] = to]
  /\ op' = [op EXCEPT ![th] = kind]
  /\ pc' = [pc EXCEPT ![th] = "start"]
  /\ opTenant' = [opTenant EXCEPT ![th] = t]
  /\ UNCHANGED <<podDescMap, hasIP, podMap, tenantName, inSync, changing,
                 batch, calls, undo, scan, timers, warmVars, supVars, gone,
                 histVars>>

AsyncPause(th, t) == Spawn(th, t, "pause", "resumed", "pausing")
AsyncResume(th, t) == Spawn(th, t, "resume", "paused", "resuming")

-----------------------------------------------------------------------------
(* The first critical section of a resize: check the state, take the pods  *)

\* Goroutine th starts one supervisor call for every pod of S.
StartCalls(th, S) ==
  /\ pc' = [pc EXCEPT ![th] = "calls"]
  /\ batch' = [batch EXCEPT ![th] = S]
  /\ calls' = [calls EXCEPT ![th] = S]
  /\ changing' = changing \cup S
  /\ UNCHANGED undo

\* Mutant: the goroutine forgets its tenant and goes on.
EndJobStays(th) ==
  /\ opTenant' = [opTenant EXCEPT ![th] = Pool]
  /\ UNCHANGED <<pc, op, batch, calls, undo>>

EndJob(th) ==
  /\ pc' = [pc EXCEPT ![th] = "idle"]
  /\ op' = [op EXCEPT ![th] = "none"]
  /\ opTenant' = [opTenant EXCEPT ![th] = Pool]
  /\ batch' = [batch EXCEPT ![th] = {}]
  /\ UNCHANGED <<calls, undo>>

\* removePodFromTenant with isPause: all pods leave, Paused is synced early.
RunPause(th) ==
  LET t == opTenant[th]
  IN /\ pc[th] = "start" /\ op[th] = "pause"
     /\ \/ /\ tenantState[t] = "pausing"
           /\ TakePods(t, podMap[t])
           /\ tenantState' = SyncStatePaused(t)
           /\ StartCalls(th, podMap[t])
           /\ UNCHANGED <<op, opTenant>>
        \/ /\ tenantState[t] # "pausing"
           /\ EndJob(th)
           /\ UNCHANGED <<tenantState, podMap, tenantName, inSync, changing>>
     /\ UNCHANGED <<podDescMap, hasIP, scan, timers, warmVars, supVars, gone,
                    histVars>>

\* addPodIntoTenant with isResume: InitCnt warmed pods, or all there are.
RunResume(th) ==
  LET t == opTenant[th]
  IN /\ pc[th] = "start" /\ op[th] = "resume"
     /\ \/ /\ tenantState[t] = "resuming"
           /\ \E S \in Taken(InitCnt, podMap[Pool]) :
                /\ TakePods(Pool, S)
                /\ StartCalls(th, S)
           /\ UNCHANGED <<op, opTenant>>
        \/ /\ tenantState[t] # "resuming"
           /\ EndJob(th)
           /\ UNCHANGED <<podMap, tenantName, inSync, changing>>
     /\ UNCHANGED <<tenantState, podDescMap, hasIP, scan, timers, warmVars,
                    supVars, gone, histVars>>

\* The analyze task of t calls ResizePodsOfTenant; there is one such task for
\* a tenant, so it starts no second scaling step before the first is over.
Scale(th, t, kind) ==
  /\ pc[th] = "idle"
  /\ \A u \in Threads :
       ~(op[u] \in {"scaleOut", "scaleIn"} /\ opTenant[u] = t)
  /\ tenantState[t] = "resumed"
  /\ op' = [op EXCEPT ![th] = kind]
  /\ opTenant' = [opTenant EXCEPT ![th] = t]
  /\ UNCHANGED <<tenantState, podDescMap, hasIP, scan, timers, warmVars,
                 supVars, gone, histVars>>

ScaleOut(th, t) ==
  /\ Scale(th, t, "scaleOut")
  /\ \E n \in 1..MaxDelta : \E S \in Taken(n, podMap[Pool]) :
       TakePods(Pool, S) /\ StartCalls(th, S)

ScaleIn(th, t) ==
  /\ Scale(th, t, "scaleIn")
  /\ \E n \in 1..MaxDelta : \E S \in Taken(n, podMap[t]) :
       TakePods(t, S) /\ StartCalls(th, S)

-----------------------------------------------------------------------------
(* A supervisor call of goroutine th for pod p, with the handling of its   *)
(* reply.  The call needs muOfGrpc, which a scan of the pod may hold.      *)

Calling(th, p, kinds) ==
  /\ p \in calls[th]
  /\ op[th] \in kinds
  /\ MuOfGrpcFree(p)
  /\ ApiWgDone(th, p)
  /\ UNCHANGED <<podDescMap, hasIP, changing, op, pc, opTenant, batch, scan,
                 warmVars, gone, released, contested, lateDeleted>>

AssignOk(th, p) ==
  LET t == opTenant[th]
  IN /\ Calling(th, p, Adding)
     /\ sup[p] \in {Pool, t} /\ p \notin unassigning
     /\ sup' = [sup EXCEPT ![p] = t]
     /\ podMap' = [podMap EXCEPT ![t] = @ \cup {p}]
     /\ tenantName' = [tenantName EXCEPT ![p] = t]
     /\ inSync' = inSync \cup {p}
     /\ UNCHANGED <<tenantState, undo, timers, unassigning, wild>>

UnassignOk(th, p) ==
  /\ Calling(th, p, Removing)
  /\ sup[p] \in {Pool, opTenant[th]}
  /\ sup' = [sup EXCEPT ![p] = Pool]
  /\ unassigning' = unassigning \ {p}
  /\ PutWarmedPod(p)
  /\ UNCHANGED <<tenantState, undo, timers, wild>>

\* A gRPC error: the pod is put on the undo list, whether the supervisor did
\* nothing, did what it was asked, or is still unassigning.
CallFails(th, p) ==
  LET t == opTenant[th]
  IN /\ Calling(th, p, Adding \cup Removing)
     /\ undo' = [undo EXCEPT ![th] = @ \cup {p}]
     /\ \/ UNCHANGED supVars
        \/ /\ op[th] \in Adding /\ sup[p] = Pool
           /\ sup' = [sup EXCEPT ![p] = t]
           /\ UNCHANGED unassigning
        \/ /\ op[th] \in Removing /\ sup[p] = t
           /\ \/ sup' = [sup EXCEPT ![p] = Pool]
                 /\ unassigning' = unassigning \ {p}
              \/ unassigning' = unassigning \cup {p}
                 /\ UNCHANGED sup
     /\ UNCHANGED <<tenantState, podMap, tenantName, inSync, timers, wild>>

\* An application error: the local state is corrected to what the supervisor
\* reports, or HandleUnassingCase starts a timer for the pod.
CallRejected(th, p) ==
  /\ Calling(th, p, Adding \cup Removing)
  /\ \/ /\ p \notin unassigning
        /\ UpdateLocalMetaPodOfTenant(p, sup[p])
        /\ UNCHANGED timers
     \/ /\ p \in unassigning
        /\ timers' = timers \cup {p}
        /\ UNCHANGED <<tenantState, podMap, tenantName, inSync, wild>>
  /\ UNCHANGED <<undo, supVars>>

-----------------------------------------------------------------------------
(* The last critical section of a resize, when every call has returned     *)

\* Mutant: the undo list is dropped.
NothingUndone(th) == {}

\* Pods k8s has deleted meanwhile are not put back.
Undone(th) == undo[th] \cap podDescMap

Join(th, kinds) ==
  /\ pc[th] = "calls" /\ calls[th] = {} /\ op[th] \in kinds
  /\ pc' = [pc EXCEPT ![th] = "leave"]
  /\ undo' = [undo EXCEPT ![th] = {}]
  /\ UNCHANGED <<podDescMap, hasIP, changing, op, opTenant, batch, calls,
                 scan, timers, warmVars, supVars, gone, histVars>>

JoinAdd(th) ==
  LET t == opTenant[th]
  IN /\ Join(th, Adding)
     /\ SetPods(Pool, Undone(th))
     /\ tenantState' = IF op[th] = "resume" THEN SyncStateResumed(t)
                       ELSE tenantState

JoinRemove(th) ==
  /\ Join(th, Removing)
  /\ SetPods(opTenant[th], Undone(th))
  /\ UNCHANGED tenantState

\* The deferred isStateChanging.Store(false), after c.mu has been released.
Leave(th) ==
  /\ pc[th] = "leave"
  /\ changing' = changing \ batch[th]
  /\ EndJob(th)
  /\ UNCHANGED <<metaVars, scan, timers, warmVars, supVars, gone, histVars>>

-----------------------------------------------------------------------------
(* Other goroutines that move pods                                         *)

\* HandleUnassingCase, MaxUnassignWaitTimeSec later: put the pod back.
UnassignTimer(p) ==
  /\ p \in timers
  /\ timers' = timers \ {p}
  /\ PutWarmedPod(p)
  /\ UNCHANGED <<tenantState, podDescMap, hasIP, changing, jobVars, scan,
                 warmVars, supVars, gone, histVars>>

\* UpdatePod: a pod is added or modified, with its IP or without.
UpdatePod(p) ==
  /\ p \notin gone
  /\ podDescMap' = podDescMap \cup {p}
  /\ \/ /\ p \notin podDescMap
        /\ UNCHANGED <<hasIP, podMap, tenantName, inSync>>
     \/ /\ p \notin hasIP
        /\ hasIP' = hasIP \cup {p}
        /\ PutWarmedPod(p)
  /\ UNCHANGED <<tenantState, changing, jobVars, scan, timers, warmVars,
                 supVars, gone, histVars>>

\* Mutant: the pod is looked for in the pool only.
RemoveFromPoolOnly(p) ==
  /\ TakePods(Pool, {p})
  /\ podDescMap' = podDescMap \ {p}

removePodFromClusterWithoutLock(p) ==
  /\ TakePods(tenantName[p], {p})
  /\ podDescMap' = podDescMap \ {p}

\* HandleK8sDelPodEvent and TryToRemoveExpriedPod.
HandleK8sDelPodEvent(p) ==
  /\ p \in podDescMap
  /\ removePodFromClusterWithoutLock(p)
  /\ gone' = gone \cup {p}
  /\ lateDeleted' = IF Held(p) \/ scan[p] # NoScan
                    THEN lateDeleted \cup {p} ELSE lateDeleted
  /\ UNCHANGED <<tenantState, hasIP, changing, jobVars, scan, timers,
                 warmVars, supVars, released, wild, contested>>

\* ApiGetCurrentTenantAndCorrect up to the call of UpdateLocalMeta..., which
\* waits for c.mu: the scan holds muOfGrpc and has decided what to correct.
ScanDecide(p) ==
  /\ p \in podDescMap /\ p \in hasIP
  /\ scan[p] = NoScan
  /\ p \notin changing
  /\ tenantName[p] # Pool
  /\ p \notin unassigning
  /\ sup[p] # tenantName[p] \/ p \notin inSync
  /\ scan' = [scan EXCEPT ![p] = sup[p]]
  /\ UNCHANGED <<metaVars, changing, jobVars, timers, warmVars, supVars, gone,
                 histVars>>

ScanCorrect(p) ==
  /\ scan[p] # NoScan
  /\ UpdateLocalMetaPodOfTenant(p, scan[p])
  /\ scan' = [scan EXCEPT ![p] = NoScan]
  /\ contested' = IF Held(p) THEN contested \cup {p} ELSE contested
  /\ UNCHANGED <<podDescMap, hasIP, changing, jobVars, timers, warmVars,
                 supVars, gone, released, lateDeleted>>

\* DoPodsWarm with a negative delta: removeCnt is computed, then the pool's
\* mutex is released before the pods are taken.
WarmDecide ==
  /\ overCnt = 0 /\ warmDel = {}
  /\ \E n \in 1..Cardinality(podMap[Pool]) :
       /\ SoftLimit + n <= Cardinality(podMap[Pool])
       /\ overCnt' = n
  /\ UNCHANGED <<metaVars, changing, jobVars, scan, timers, warmDel, supVars,
                 gone, histVars>>

WarmTake ==
  /\ overCnt > 0
  /\ \E S \in Taken(overCnt, podMap[Pool]) :
       TakePods(Pool, S) /\ warmDel' = S
  /\ overCnt' = 0
  /\ UNCHANGED <<tenantState, podDescMap, hasIP, changing, jobVars, scan,
                 timers, supVars, gone, histVars>>

\* removePods succeeded, or failed and the pods are put back.
WarmDone ==
  /\ warmDel # {}
  /\ warmDel' = {}
  /\ \/ /\ released' = released \cup warmDel
        /\ UNCHANGED <<podMap, tenantName, inSync>>
     \/ /\ SetPods(Pool, warmDel)
        /\ UNCHANGED released
  /\ UNCHANGED <<tenantState, podDescMap, hasIP, changing, jobVars, scan,
                 timers, overCnt, supVars, gone, wild, contested, lateDeleted>>

-----------------------------------------------------------------------------
(* The supervisor process of a pod, outside the repository                 *)

SupFinishUnassign(p) ==
  /\ p \in unassigning
  /\ unassigning' = unassigning \ {p}
  /\ sup' = [sup EXCEPT ![p] = Pool]
  /\ UNCHANGED <<metaVars, changing, jobVars, scan, timers, warmVars, gone,
                 histVars>>

SupRestart(p) ==
  /\ sup[p] # Pool
  /\ sup' = [sup EXCEPT ![p] = Pool]
  /\ unassigning' = unassigning \ {p}
  /\ UNCHANGED <<metaVars, changing, jobVars, scan, timers, warmVars, gone,
                 histVars>>

-----------------------------------------------------------------------------
Request(th) == \E t \in Tenants : AsyncPause(th, t) \/ AsyncResume(th, t)
Resize(th) == \E t \in Tenants : ScaleOut(th, t) \/ ScaleIn(th, t)
Reply(th, p) ==
  AssignOk(th, p) \/ UnassignOk(th, p) \/ CallFails(th, p)
    \/ CallRejected(th, p)
Proceed(th) ==
  RunPause(th) \/ RunResume(th) \/ JoinAdd(th) \/ JoinRemove(th) \/ Leave(th)

Next ==
  \/ \E t \in Tenants : RegisterTenant(t)
  \/ \E th \in Threads :
       \/ Request(th) \/ Resize(th) \/ Proceed(th)
       \/ \E p \in Pods : Reply(th, p)
  \/ \E p \in Pods :
       \/ UnassignTimer(p) \/ UpdatePod(p) \/ HandleK8sDelPodEvent(p)
       \/ ScanDecide(p) \/ ScanCorrect(p)
       \/ SupFinishUnassign(p) \/ SupRestart(p)
  \/ WarmDecide \/ WarmTake \/ WarmDone

Spec == Init /\ [][Next]_vars

\* Goroutines run, every call returns (a supervisor call has a deadline of
\* 120 s), and a waiter of a Go mutex is not starved by the scans: a reply is
\* handled when muOfGrpc is free again and again.
Fairness ==
  /\ \A th \in Threads :
       /\ WF_vars(Proceed(th))
       /\ \A p \in Pods : SF_vars(Reply(th, p))
  /\ \A p \in Pods : WF_vars(ScanCorrect(p)) /\ WF_vars(UnassignTimer(p))
  /\ WF_vars(WarmTake) /\ WF_vars(WarmDone)

FairSpec == Spec /\ Fairness

-----------------------------------------------------------------------------
(* Properties                                                              *)

\* The types of the variables, and that a goroutine's pods are in its batch.
TypeOK ==
  /\ tenantState \in [Tenants -> TenantStates]
  /\ podDescMap \subseteq Pods /\ hasIP \subseteq Pods
  /\ podMap \in [Owners -> SUBSET Pods]
  /\ tenantName \in [Pods -> Owners]
  /\ inSync \subseteq Pods /\ changing \subseteq Pods
  /\ op \in [Threads -> Ops]
  /\ pc \in [Threads -> {"idle", "start", "calls", "leave"}]
  /\ opTenant \in [Threads -> Owners]
  /\ batch \in [Threads -> SUBSET Pods]
  /\ calls \in [Threads -> SUBSET Pods]
  /\ undo \in [Threads -> SUBSET Pods]
  /\ scan \in [Pods -> Owners \cup {NoScan}]
  /\ timers \subseteq Pods /\ warmDel \subseteq Pods /\ overCnt \in Nat
  /\ sup \in [Pods -> Owners] /\ unassigning \subseteq Pods
  /\ gone \subseteq Pods /\ released \subseteq Pods /\ wild \subseteq Pods
  /\ contested \subseteq Pods /\ lateDeleted \subseteq Pods
  /\ \A th \in Threads : pc[th] # "idle" => opTenant[th] \in Tenants
  /\ \A th \in Threads : calls[th] \cup undo[th] \subseteq batch[th]

\* A pod has at most one owner at a time.  It is listed by at most one
\* container and by none while a goroutine holds it, and no two goroutines
\* hold it, whatever resizes, timers, deletions and trims interleave; only a
\* pod that a scan corrected under a running resize (meta.go:160-163) escapes.
Ownership ==
  \A p \in Pods \ contested :
    /\ \A o1, o2 \in Owners : p \in podMap[o1] /\ p \in podMap[o2] => o1 = o2
    /\ Held(p) => \A o \in Owners : p \notin podMap[o]
    /\ \A th1, th2 \in Threads :
         InJob(th1, p) /\ InJob(th2, p) => th1 = th2
    /\ p \in timers \cup warmDel => \A th \in Threads : ~InJob(th, p)
    /\ ~(p \in timers /\ p \in warmDel)

\* The two indexes agree: a container that lists a pod is the one the pod's
\* tenantName says, and a pod with a tenant is listed by it.  Removal of a pod
\* (meta.go:1105) finds the container through tenantName alone.
NameMatches ==
  \A p \in Pods \ contested :
    /\ \A o \in Owners : p \in podMap[o] => tenantName[p] = o
    /\ tenantName[p] \in Tenants => p \in podMap[tenantName[p]]

\* A deleted pod leaves every container for good, so the topology of a tenant
\* lists no dead pod, unless the deletion was handled while the pod was in
\* flight: then the reply puts it back (meta.go:1290, 1330, 1421, 595).
DeletedPodsReleased ==
  \A p \in gone \ (lateDeleted \cup contested) :
    /\ \A o \in Owners : p \notin podMap[o]
    /\ ~Held(p)

\* No tenant's topology holds a pod that serves another tenant, in spite of
\* lost replies, restarts of supervisors and concurrent resizes.
CrossTenantSafety ==
  \A t \in Tenants : \A p \in podMap[t] \ contested : sup[p] \in {t, Pool}

\* No pod is leaked: one with an IP is in a container, held by a goroutine,
\* accepted for removal, or was reported as wild.
NoLostPod ==
  \A p \in podDescMap \cap hasIP :
    \/ \E o \in Owners : p \in podMap[o]
    \/ Held(p)
    \/ p \in released \cup wild

\* A tenant in a transient state has a goroutine that will end it, although a
\* correction may resume it and a later request start a second transition.
TransitionOwned ==
  \A t \in Tenants :
    /\ tenantState[t] = "pausing" =>
         \E th \in Threads :
           pc[th] = "start" /\ op[th] = "pause" /\ opTenant[th] = t
    /\ tenantState[t] = "resuming" =>
         \E th \in Threads :
           pc[th] \in {"start", "calls"} /\ op[th] = "resume"
             /\ opTenant[th] = t

\* What the message of meta.go:1304 takes for granted: a pod that k8s has
\* deleted is not put back into a container.
DeletedPodsStayOut == \A p \in gone : \A o \in Owners : p \notin podMap[o]

\* What the message of meta.go:151 says: a scan leaves a pod alone while its
\* state is changing.
NoCorrectionWhileChanging ==
  [][\A p \in Pods : scan[p] # NoScan /\ scan'[p] = NoScan
                       => p \notin changing]_vars

\* A pause or a resume that was accepted ends.
PauseEnds == \A t \in Tenants : tenantState[t] = "pausing" ~>
                                  tenantState[t] # "pausing"
ResumeEnds == \A t \in Tenants : tenantState[t] = "resuming" ~>
                                   tenantState[t] # "resuming"

\* A pod in flight does not stay in flight: its resize, its timer or the trim
\* puts it into a container or has its removal accepted.
HeldPodsReturn == \A p \in Pods : Held(p) ~> (~Held(p) \/ p \in contested)
=============================================================================
