------------------------ MODULE AutoScaleMetaProofs ------------------------
(***************************************************************************)
(* The safety invariants of AutoScaleMeta hold for any tenants, pods,      *)
(* goroutines and counts.  None of them is inductive alone; IInv is:       *)
(*   - JobShape ties a goroutine's program counter to what it holds;       *)
(*   - CleanPod says that a pod that was never contested has one owner and *)
(*     that its tenantName names its container;                            *)
(*   - SupKnown bounds what the supervisor of a pod may be serving by the  *)
(*     container, the correction or the unassigning resize that has it;    *)
(*   - DeadPod and NewPod: pods that are gone, or have no IP yet, are      *)
(*     nowhere; NoLostPod and TransitionOwned are inductive with JobShape. *)
(***************************************************************************)
EXTENDS AutoScaleMeta, TLAPS

JobShape ==
  \A th \in Threads :
    /\ pc[th] = "start" => op[th] \in {"pause", "resume"}
    /\ pc[th] # "calls" => calls[th] = {} /\ undo[th] = {}
    /\ pc[th] = "idle" => op[th] = "none"
    /\ calls[th] \cap undo[th] = {}

TrimShape == overCnt > 0 => warmDel = {}

OneOwner(p) ==
  /\ \A o \in Owners : p \in podMap[o] => tenantName[p] = o
  /\ tenantName[p] \in Tenants => p \in podMap[tenantName[p]]

OneHolder(p) ==
  /\ \A th1, th2 \in Threads : InJob(th1, p) /\ InJob(th2, p) => th1 = th2
  /\ p \in timers \cup warmDel => \A th \in Threads : ~InJob(th, p)
  /\ ~(p \in timers /\ p \in warmDel)

CleanPod(p) ==
  /\ OneOwner(p)
  /\ OneHolder(p)
  /\ Held(p) => \A o \in Owners : p \notin podMap[o]

ScanKnown(p) == scan[p] # NoScan => sup[p] \in {scan[p], Pool}

SupKnown(p) ==
  /\ \A t \in Tenants : p \in podMap[t] => sup[p] \in {t, Pool}
  /\ \A th \in Threads : InJob(th, p) /\ op[th] \in Removing
                           => sup[p] \in {opTenant[th], Pool}

Nowhere(p) ==
  /\ \A o \in Owners : p \notin podMap[o]
  /\ ~Held(p)
  /\ scan[p] = NoScan

DeadPod(p) ==
  /\ p \in gone => p \notin podDescMap
  /\ p \in gone \ (lateDeleted \cup contested) => Nowhere(p)

NewPod(p) ==
  /\ p \notin hasIP => Nowhere(p) /\ tenantName[p] = Pool /\ p \notin contested
  /\ p \in hasIP => p \in podDescMap \cup gone

PodOK(p) ==
  /\ p \notin contested => CleanPod(p) /\ SupKnown(p)
  /\ ScanKnown(p) /\ DeadPod(p) /\ NewPod(p)

PodInv == \A p \in Pods : PodOK(p)

IInv ==
  /\ TypeOK /\ JobShape /\ TrimShape /\ PodInv
  /\ NoLostPod /\ TransitionOwned

USE OwnersAssumption, ScanAssumption

-----------------------------------------------------------------------------
(* Type correctness                                                        *)

LEMMA TypeInit == Init => TypeOK
  BY DEF Init, TypeOK, Owners, TenantStates, Ops

\* JobShape: a goroutine that ends lets go of its batch, and has no pods then.
LEMMA TypeStep == TypeOK /\ JobShape /\ [Next]_vars => TypeOK'
<1> SUFFICES ASSUME TypeOK, JobShape, [Next]_vars PROVE TypeOK'
  OBVIOUS
<1> USE DEF TypeOK, Owners, TenantStates, Ops
<1>1. ASSUME NEW t \in Tenants, RegisterTenant(t) PROVE TypeOK'
  BY <1>1 DEF RegisterTenant, jobVars, warmVars, supVars, histVars
<1>2. ASSUME NEW th \in Threads, Request(th) PROVE TypeOK'
  BY <1>2 DEF Request, AsyncPause, AsyncResume, Spawn, warmVars, supVars,
              histVars
<1>3. ASSUME NEW th \in Threads, Resize(th) PROVE TypeOK'
  BY SMTT(30), <1>3 DEF Resize, ScaleOut, ScaleIn, Scale, Taken, TakePods,
                        StartCalls, JobShape, warmVars, supVars, histVars
<1>4. ASSUME NEW th \in Threads, Proceed(th) PROVE TypeOK'
  <2>1. CASE RunPause(th)
    BY SMTT(30), <2>1 DEF RunPause, SyncStatePaused, CAS, TakePods,
                          StartCalls, EndJob, JobShape, warmVars, supVars,
                          histVars
  <2>2. CASE RunResume(th)
    BY SMTT(30), <2>2 DEF RunResume, Taken, TakePods, StartCalls, EndJob,
                          JobShape, warmVars, supVars, histVars
  <2>3. CASE JoinAdd(th)
    BY <2>3 DEF JoinAdd, SyncStateResumed, CAS, Join, Undone, SetPods,
                warmVars, supVars, histVars
  <2>4. CASE JoinRemove(th)
    BY <2>4 DEF JoinRemove, Join, Undone, SetPods, warmVars, supVars, histVars
  <2>5. CASE Leave(th)
    BY <2>5 DEF Leave, EndJob, JobShape, metaVars, warmVars, supVars, histVars
  <2> QED BY <1>4, <2>1, <2>2, <2>3, <2>4, <2>5 DEF Proceed
<1>5. ASSUME NEW th \in Threads, NEW p \in Pods, Reply(th, p) PROVE TypeOK'
  <2> USE DEF Calling, MuOfGrpcFree, ApiWgDone, warmVars
  <2>1. CASE AssignOk(th, p)
    BY <2>1 DEF AssignOk
  <2>2. CASE UnassignOk(th, p)
    BY <2>2 DEF UnassignOk, PutWarmedPod, SetPods
  <2>3. CASE CallFails(th, p)
    BY <2>3 DEF CallFails, supVars
  <2>4. CASE CallRejected(th, p)
    BY <2>4 DEF CallRejected, UpdateLocalMetaPodOfTenant, Stripped, supVars
  <2> QED BY <1>5, <2>1, <2>2, <2>3, <2>4 DEF Reply
<1>6. ASSUME NEW p \in Pods, UnassignTimer(p) PROVE TypeOK'
  BY <1>6 DEF UnassignTimer, PutWarmedPod, SetPods, jobVars, warmVars,
              supVars, histVars
<1>7. ASSUME NEW p \in Pods, UpdatePod(p) PROVE TypeOK'
  BY <1>7 DEF UpdatePod, PutWarmedPod, SetPods, jobVars, warmVars, supVars,
              histVars
<1>8. ASSUME NEW p \in Pods, HandleK8sDelPodEvent(p) PROVE TypeOK'
  BY <1>8 DEF HandleK8sDelPodEvent, removePodFromClusterWithoutLock, TakePods,
              jobVars, warmVars, supVars
<1>9. ASSUME NEW p \in Pods, ScanDecide(p) PROVE TypeOK'
  BY <1>9 DEF ScanDecide, metaVars, jobVars, warmVars, supVars, histVars
<1>10. ASSUME NEW p \in Pods, ScanCorrect(p) PROVE TypeOK'
  BY SMTT(30), <1>10 DEF ScanCorrect, UpdateLocalMetaPodOfTenant, Stripped,
                         jobVars, warmVars, supVars
<1>11. CASE WarmDecide
  BY <1>11 DEF WarmDecide, metaVars, jobVars, supVars, histVars
<1>12. CASE WarmTake
  BY <1>12 DEF WarmTake, Taken, TakePods, jobVars, supVars, histVars
<1>13. CASE WarmDone
  BY <1>13 DEF WarmDone, SetPods, jobVars, supVars
<1>14. ASSUME NEW p \in Pods, SupFinishUnassign(p) \/ SupRestart(p)
       PROVE TypeOK'
  BY <1>14 DEF SupFinishUnassign, SupRestart, metaVars, jobVars, warmVars,
               histVars
<1>15. CASE UNCHANGED vars
  BY <1>15 DEF vars, metaVars, jobVars, warmVars, supVars, histVars
<1> QED
  BY <1>1, <1>2, <1>3, <1>4, <1>5, <1>6, <1>7, <1>8, <1>9, <1>10, <1>11,
     <1>12, <1>13, <1>14, <1>15 DEF Next

-----------------------------------------------------------------------------
(* Goroutines and the transitions they own                                 *)

JobStep(th) ==
  Request(th) \/ Resize(th) \/ Proceed(th) \/ \E p \in Pods : Reply(th, p)

JobsKept ==
  /\ UNCHANGED jobVars
  /\ \A t \in Tenants :
       tenantState'[t] \in {tenantState[t], "paused", "resumed"}

\* What other goroutines and the environment do leaves every resize alone and
\* starts no transition.
LEMMA OthersKeepJobs ==
  TypeOK /\ [Next]_vars => (\E th \in Threads : JobStep(th)) \/ JobsKept
<1> SUFFICES ASSUME TypeOK, [Next]_vars
             PROVE  (\E th \in Threads : JobStep(th)) \/ JobsKept
  OBVIOUS
<1>1. ASSUME NEW t \in Tenants, RegisterTenant(t) PROVE JobsKept
  BY <1>1 DEF RegisterTenant, JobsKept, TypeOK
<1>2. ASSUME NEW p \in Pods, ScanCorrect(p) PROVE JobsKept
  BY <1>2 DEF ScanCorrect, UpdateLocalMetaPodOfTenant, Stripped, JobsKept,
              TypeOK
<1>3. ASSUME NEW p \in Pods,
             \/ UnassignTimer(p) \/ UpdatePod(p) \/ HandleK8sDelPodEvent(p)
             \/ ScanDecide(p) \/ SupFinishUnassign(p) \/ SupRestart(p)
      PROVE  JobsKept
  BY <1>3 DEF UnassignTimer, UpdatePod, HandleK8sDelPodEvent,
              removePodFromClusterWithoutLock, ScanDecide, SupFinishUnassign,
              SupRestart, JobsKept, metaVars
<1>4. CASE WarmDecide \/ WarmTake \/ WarmDone
  BY <1>4 DEF WarmDecide, WarmTake, WarmDone, JobsKept, metaVars
<1>5. CASE UNCHANGED vars
  BY <1>5 DEF vars, metaVars, JobsKept
<1> QED
  BY <1>1, <1>2, <1>3, <1>4, <1>5 DEF Next, JobStep

LEMMA ShapeStep == TypeOK /\ JobShape /\ [Next]_vars => JobShape'
<1> SUFFICES ASSUME TypeOK, JobShape, [Next]_vars PROVE JobShape'
  OBVIOUS
<1> USE DEF TypeOK, JobShape
<1>1. ASSUME NEW th \in Threads, Request(th) PROVE JobShape'
  BY <1>1 DEF Request, AsyncPause, AsyncResume, Spawn
<1>2. ASSUME NEW th \in Threads, Resize(th) PROVE JobShape'
  BY <1>2 DEF Resize, ScaleOut, ScaleIn, Scale, StartCalls
<1>3. ASSUME NEW th \in Threads, Proceed(th) PROVE JobShape'
  BY <1>3 DEF Proceed, RunPause, SyncStatePaused, CAS, RunResume, JoinAdd,
              SyncStateResumed, CAS, JoinRemove, Join, Leave, StartCalls,
              EndJob
<1>4. ASSUME NEW th \in Threads, NEW p \in Pods, Reply(th, p) PROVE JobShape'
  BY <1>4 DEF Reply, AssignOk, UnassignOk, CallFails, CallRejected, Calling,
              MuOfGrpcFree, ApiWgDone
<1>5. CASE JobsKept
  BY <1>5 DEF JobsKept, jobVars
<1> HIDE DEF TypeOK, JobShape
<1> QED
  BY <1>1, <1>2, <1>3, <1>4, <1>5, OthersKeepJobs DEF JobStep

LEMMA TrimStep == TrimShape /\ [Next]_vars => TrimShape'
<1> SUFFICES ASSUME TrimShape, [Next]_vars PROVE TrimShape'
  OBVIOUS
<1> USE DEF TrimShape, warmVars
<1>1. ASSUME NEW th \in Threads, Request(th) \/ Resize(th) \/ Proceed(th)
      PROVE  UNCHANGED warmVars
  BY <1>1 DEF Request, AsyncPause, AsyncResume, Spawn, Resize, ScaleOut,
              ScaleIn, Scale, Proceed, RunPause, SyncStatePaused, CAS,
              RunResume, JoinAdd, SyncStateResumed, CAS, JoinRemove, Join,
              Leave
<1>2. ASSUME NEW th \in Threads, NEW p \in Pods, Reply(th, p)
      PROVE  UNCHANGED warmVars
  BY <1>2 DEF Reply, AssignOk, UnassignOk, CallFails, CallRejected, Calling,
              MuOfGrpcFree, ApiWgDone
<1>3. ASSUME NEW p \in Pods,
             \/ UnassignTimer(p) \/ UpdatePod(p) \/ HandleK8sDelPodEvent(p)
             \/ ScanDecide(p) \/ ScanCorrect(p)
             \/ SupFinishUnassign(p) \/ SupRestart(p)
      PROVE  UNCHANGED warmVars
  BY <1>3 DEF UnassignTimer, UpdatePod, HandleK8sDelPodEvent,
              removePodFromClusterWithoutLock, ScanDecide, ScanCorrect,
              SupFinishUnassign, SupRestart
<1>4. ASSUME NEW t \in Tenants, RegisterTenant(t) PROVE UNCHANGED warmVars
  BY <1>4 DEF RegisterTenant
<1>5. CASE WarmDecide \/ WarmTake \/ WarmDone
  BY <1>5 DEF WarmDecide, WarmTake, WarmDone
<1>6. CASE UNCHANGED vars
  BY <1>6 DEF vars
<1> QED BY <1>1, <1>2, <1>3, <1>4, <1>5, <1>6 DEF Next

PauseOwner(th, t) == pc[th] = "start" /\ op[th] = "pause" /\ opTenant[th] = t
ResumeOwner(th, t) ==
  pc[th] \in {"start", "calls"} /\ op[th] = "resume" /\ opTenant[th] = t

LEMMA OwnedStep ==
  TypeOK /\ JobShape /\ TransitionOwned /\ [Next]_vars => TransitionOwned'
<1> SUFFICES ASSUME TypeOK, JobShape, TransitionOwned, [Next]_vars
             PROVE  TransitionOwned'
  OBVIOUS
<1> USE DEF TypeOK, JobShape, TransitionOwned
<1>1. ASSUME NEW th \in Threads, NEW u \in Tenants,
             AsyncPause(th, u) \/ AsyncResume(th, u)
      PROVE  TransitionOwned'
  <2> SUFFICES ASSUME NEW t \in Tenants,
                      tenantState'[t] \in {"pausing", "resuming"}
               PROVE  \/ /\ tenantState'[t] = "pausing"
                         /\ \E w \in Threads : PauseOwner(w, t)'
                      \/ /\ tenantState'[t] = "resuming"
                         /\ \E w \in Threads : ResumeOwner(w, t)'
    BY DEF PauseOwner, ResumeOwner
  <2>1. CASE t = u
    <3>1. tenantState'[t] = "pausing" => PauseOwner(th, t)'
      BY <1>1, <2>1 DEF AsyncPause, AsyncResume, Spawn, PauseOwner
    <3>2. tenantState'[t] = "resuming" => ResumeOwner(th, t)'
      BY <1>1, <2>1 DEF AsyncPause, AsyncResume, Spawn, ResumeOwner
    <3> QED BY <3>1, <3>2
  <2>2. CASE t # u
    <3>1. tenantState'[t] = tenantState[t] /\ pc[th] = "idle"
      BY <1>1, <2>2 DEF AsyncPause, AsyncResume, Spawn
    <3>2. \A w \in Threads : pc[w] # "idle" =>
            pc'[w] = pc[w] /\ op'[w] = op[w] /\ opTenant'[w] = opTenant[w]
      BY <1>1, <3>1 DEF AsyncPause, AsyncResume, Spawn
    <3> QED BY <3>1, <3>2 DEF PauseOwner, ResumeOwner
  <2> QED BY <2>1, <2>2
<1>2. ASSUME NEW th \in Threads, Resize(th) PROVE TransitionOwned'
  BY <1>2 DEF Resize, ScaleOut, ScaleIn, Scale, StartCalls
<1>3. ASSUME NEW th \in Threads, RunPause(th) PROVE TransitionOwned'
  BY <1>3 DEF RunPause, SyncStatePaused, CAS, StartCalls, EndJob
<1>4. ASSUME NEW th \in Threads, RunResume(th) PROVE TransitionOwned'
  BY <1>4 DEF RunResume, StartCalls, EndJob
<1>5. ASSUME NEW th \in Threads, JoinAdd(th) PROVE TransitionOwned'
  BY <1>5 DEF JoinAdd, SyncStateResumed, CAS, Join, Adding
<1>6. ASSUME NEW th \in Threads, JoinRemove(th) PROVE TransitionOwned'
  BY <1>6 DEF JoinRemove, Join, Removing
<1>7. ASSUME NEW th \in Threads, Leave(th) PROVE TransitionOwned'
  BY <1>7 DEF Leave, EndJob, metaVars
<1>8. ASSUME NEW th \in Threads, NEW p \in Pods, Reply(th, p)
      PROVE  TransitionOwned'
  BY <1>8 DEF Reply, AssignOk, UnassignOk, CallFails, CallRejected, Calling,
              MuOfGrpcFree, ApiWgDone, UpdateLocalMetaPodOfTenant, Stripped
<1>9. CASE JobsKept
  BY <1>9 DEF JobsKept, jobVars
<1> HIDE DEF TypeOK, JobShape, TransitionOwned
<1>10. ASSUME NEW th \in Threads, JobStep(th) PROVE TransitionOwned'
  <2>1. CASE Request(th)
    BY <1>1, <2>1 DEF Request
  <2>2. CASE Proceed(th)
    BY <1>3, <1>4, <1>5, <1>6, <1>7, <2>2 DEF Proceed
  <2> QED BY <1>2, <1>8, <1>10, <2>1, <2>2 DEF JobStep
<1> QED BY <1>9, <1>10, OthersKeepJobs

-----------------------------------------------------------------------------
(* One owner, one holder, and a supervisor that serves no other tenant     *)

\* The step moves pod q nowhere, and no goroutine that holds q changes job.
SamePod(q) ==
  /\ \A o \in Owners : q \in podMap'[o] <=> q \in podMap[o]
  /\ tenantName'[q] = tenantName[q]
  /\ \A th \in Threads : InJob(th, q)' <=> InJob(th, q)
  /\ \A th \in Threads : InJob(th, q) =>
       op'[th] = op[th] /\ opTenant'[th] = opTenant[th]
  /\ (q \in timers' <=> q \in timers) /\ (q \in warmDel' <=> q \in warmDel)
  /\ scan'[q] = scan[q] /\ sup'[q] = sup[q]
  /\ (q \in podDescMap' <=> q \in podDescMap) /\ (q \in hasIP' <=> q \in hasIP)
  /\ (q \in gone' <=> q \in gone) /\ (q \in contested' <=> q \in contested)
  /\ q \in lateDeleted' <=> q \in lateDeleted

LEMMA Frame == ASSUME NEW q \in Pods, PodOK(q), SamePod(q) PROVE PodOK(q)'
<1>1. Held(q)' <=> Held(q)
  BY DEF SamePod, Held
<1>2. Nowhere(q)' <=> Nowhere(q)
  BY <1>1 DEF SamePod, Nowhere
<1>3. CleanPod(q) => CleanPod(q)'
  BY <1>1 DEF SamePod, CleanPod, OneOwner, OneHolder, Owners
<1>4. SupKnown(q) => SupKnown(q)'
  BY DEF SamePod, SupKnown, Owners
<1> QED
  BY <1>2, <1>3, <1>4 DEF PodOK, SamePod, ScanKnown, DeadPod, NewPod

\* The rest of what a step leaves alone when it moves pod q.
SameRest(q) ==
  /\ (q \in podDescMap' <=> q \in podDescMap) /\ (q \in hasIP' <=> q \in hasIP)
  /\ (q \in gone' <=> q \in gone) /\ (q \in contested' <=> q \in contested)
  /\ q \in lateDeleted' <=> q \in lateDeleted
  /\ scan'[q] = scan[q]

\* A held pod is put into container o, and its only holder lets go of it.
Settled(q, o) ==
  /\ Held(q) /\ SameRest(q)
  /\ \A c \in Owners : q \in podMap'[c] <=> q \in podMap[c] \/ c = o
  /\ tenantName'[q] = o
  /\ q \notin contested => ~Held(q)'
  /\ o \in Tenants => sup'[q] \in {o, Pool}

LEMMA Settle ==
  ASSUME NEW q \in Pods, NEW o \in Owners, PodOK(q), Settled(q, o),
         ScanKnown(q)'
  PROVE  PodOK(q)'
<1>1. ASSUME q \notin contested
      PROVE  \A c \in Owners : q \in podMap'[c] <=> c = o
  BY <1>1 DEF Settled, PodOK, CleanPod
<1>2. ASSUME q \notin contested PROVE CleanPod(q)'
  BY <1>1, <1>2 DEF Settled, CleanPod, OneOwner, OneHolder, Held, Owners
<1>3. ASSUME q \notin contested PROVE SupKnown(q)'
  BY <1>1, <1>3 DEF Settled, SupKnown, Held, Owners
<1>4. DeadPod(q)' /\ NewPod(q)'
  BY DEF Settled, SameRest, PodOK, DeadPod, NewPod, Nowhere
<1> QED BY <1>2, <1>3, <1>4 DEF PodOK, Settled, SameRest

\* Pod q leaves container o; the goroutine in hs holds it, or, when hs is
\* empty, the trim of the pool.
TakenBy(q, o, hs) ==
  /\ q \in podMap[o] /\ SameRest(q)
  /\ \A c \in Owners : q \in podMap'[c] <=> q \in podMap[c] /\ c # o
  /\ tenantName'[q] = Pool
  /\ \A th \in Threads : InJob(th, q)' <=> InJob(th, q) \/ th \in hs
  /\ \A th \in Threads : InJob(th, q) =>
       op'[th] = op[th] /\ opTenant'[th] = opTenant[th]
  /\ q \in timers' <=> q \in timers
  /\ q \in warmDel' <=> q \in warmDel \/ hs = {}
  /\ \A h \in hs : op'[h] \in Removing => o \in Tenants /\ opTenant'[h] = o
  /\ sup'[q] = sup[q]

LEMMA Take ==
  ASSUME NEW q \in Pods, NEW o \in Owners, NEW hs \in SUBSET Threads,
         PodOK(q), TakenBy(q, o, hs), \A h1, h2 \in hs : h1 = h2
  PROVE  PodOK(q)'
<1>1. ASSUME q \notin contested
      PROVE  /\ \A c \in Owners : q \notin podMap'[c]
             /\ ~Held(q)
             /\ o \in Tenants => sup[q] \in {o, Pool}
  BY <1>1 DEF TakenBy, PodOK, CleanPod, OneOwner, SupKnown
<1>2. ASSUME q \notin contested PROVE CleanPod(q)'
  BY <1>1, <1>2 DEF TakenBy, CleanPod, OneOwner, OneHolder, Held, Owners
<1>3. ASSUME q \notin contested PROVE SupKnown(q)'
  BY <1>1, <1>3 DEF TakenBy, SupKnown, Held, Owners
<1>4. ScanKnown(q)' /\ DeadPod(q)' /\ NewPod(q)'
  BY DEF TakenBy, SameRest, PodOK, ScanKnown, DeadPod, NewPod, Nowhere
<1> QED BY <1>2, <1>3, <1>4 DEF PodOK, TakenBy, SameRest

\* A correction by a scan or a rejected call: afterwards the pod is contested,
\* or no goroutine holds it and the reported tenant alone lists it.
Corrected(q, o) ==
  /\ UpdateLocalMetaPodOfTenant(q, o)
  /\ sup'[q] \in {o, Pool}
  /\ q \notin contested' => q \notin contested /\ ~Held(q)'
  /\ q \in hasIP /\ q \in hasIP'
  /\ q \in podDescMap' <=> q \in podDescMap
  /\ q \in gone' <=> q \in gone
  /\ q \in lateDeleted' <=> q \in lateDeleted
  /\ q \in gone => q \in lateDeleted \cup contested

LEMMA Correct ==
  ASSUME TypeOK, NEW q \in Pods, NEW o \in Owners, PodOK(q), Corrected(q, o),
         q \in contested => q \in contested', ScanKnown(q)'
  PROVE  PodOK(q)'
<1>1. ASSUME q \notin contested'
      PROVE  /\ \A c \in Owners : q \in podMap[c] => tenantName[q] = c
             /\ q \notin podMap[tenantName[q]] => tenantName[q] = Pool
             /\ ~Held(q)'
  BY <1>1 DEF Corrected, PodOK, CleanPod, OneOwner, TypeOK, Owners
<1>2. ASSUME q \notin contested'
      PROVE  /\ \A c \in Owners : q \in podMap'[c] => c = o
             /\ \A c \in Owners : q \in podMap'[c] => tenantName'[q] = c
             /\ tenantName'[q] \in Tenants => q \in podMap'[tenantName'[q]]
  <2>1. tenantName[q] \in Owners
    BY DEF TypeOK
  <2>2. CASE o = Pool \/ tenantState[o] # "unregistered" \/ AutoRegister
    <3>1. /\ podMap' = [(IF tenantName[q] = o THEN podMap
                         ELSE [podMap EXCEPT ![tenantName[q]] = @ \ {q}])
                        EXCEPT ![o] = @ \cup {q}]
          /\ tenantName' = [tenantName EXCEPT ![q] = o]
      BY <2>2 DEF Corrected, UpdateLocalMetaPodOfTenant, Stripped
    <3>2. tenantName'[q] = o /\ q \in podMap'[o]
      BY <3>1 DEF TypeOK, Owners
    <3>3. \A c \in Owners : q \in podMap'[c] => c = o
      BY <1>1, <1>2, <2>1, <3>1 DEF TypeOK, Owners
    <3> QED BY <3>2, <3>3
  <2>3. CASE ~(o = Pool \/ tenantState[o] # "unregistered" \/ AutoRegister)
    <3>1. /\ podMap' = IF tenantName[q] = o THEN podMap
                       ELSE [podMap EXCEPT ![tenantName[q]] = @ \ {q}]
          /\ tenantName'[q] =
               IF tenantName[q] # o /\ q \in podMap[tenantName[q]]
               THEN Pool ELSE tenantName[q]
      BY <2>3 DEF Corrected, UpdateLocalMetaPodOfTenant, Stripped, TypeOK
    <3>2. CASE tenantName[q] = o
      BY <1>1, <1>2, <2>1, <3>1, <3>2 DEF TypeOK, Owners
    <3>3. CASE tenantName[q] # o
      BY <1>1, <1>2, <2>1, <3>1, <3>3 DEF TypeOK, Owners
    <3> QED BY <3>2, <3>3
  <2> QED BY <2>2, <2>3
<1>3. ASSUME q \notin contested' PROVE CleanPod(q)' /\ SupKnown(q)'
  BY <1>1, <1>2, <1>3
     DEF Corrected, CleanPod, OneOwner, OneHolder, SupKnown, Held, Owners
<1>4. DeadPod(q)' /\ NewPod(q)'
  BY DEF Corrected, PodOK, DeadPod, NewPod
<1> QED BY <1>3, <1>4 DEF PodOK

LEMMA PodReply ==
  ASSUME TypeOK, JobShape, PodInv, NEW th \in Threads, NEW p \in Pods,
         Reply(th, p), NEW q \in Pods
  PROVE  PodOK(q)'
<1> USE DEF TypeOK, Calling, MuOfGrpcFree, ApiWgDone, InJob, warmVars, Owners
<1>0. PodOK(q)
  BY DEF PodInv
<1>1. CASE q # p
  <2>1. SamePod(q)
    BY <1>1 DEF Reply, AssignOk, UnassignOk, CallFails, CallRejected,
                UpdateLocalMetaPodOfTenant, Stripped, PutWarmedPod, SetPods,
                SamePod, supVars
  <2> HIDE DEF TypeOK, InJob
  <2> QED BY <1>0, <2>1, Frame
<1>2. CASE q = p
  <2>1. InJob(th, q) /\ Held(q) /\ scan[q] = NoScan /\ pc[th] = "calls"
    BY <1>2 DEF Reply, AssignOk, UnassignOk, CallFails, CallRejected, Held,
                JobShape
  <2>2. ASSUME q \notin contested
        PROVE  /\ q \notin timers /\ q \notin warmDel
               /\ \A w \in Threads : w # th => ~InJob(w, q)
    BY <1>0, <2>1, <2>2 DEF PodOK, CleanPod, OneHolder
  <2>3. calls' = [calls EXCEPT ![th] = @ \ {q}]
        /\ UNCHANGED <<op, opTenant, warmDel>> /\ SameRest(q)
        /\ opTenant[th] \in Tenants
    BY <1>2, <2>1 DEF Reply, AssignOk, UnassignOk, CallFails, CallRejected,
                      SameRest
  <2>4. ASSUME UNCHANGED <<undo, timers>>, q \notin contested,
               q \notin undo[th]
        PROVE  ~Held(q)'
    BY <2>2, <2>3, <2>4 DEF Held
  <2>5. q \notin undo[th]
    BY <1>2, <2>1, <2>3 DEF JobShape, Reply, AssignOk, UnassignOk, CallFails,
                            CallRejected
  <2>6. CASE AssignOk(th, p)
    <3>1. /\ \A c \in Owners : q \in podMap'[c] <=> q \in podMap[c]
                                                    \/ c = opTenant[th]
          /\ tenantName'[q] = opTenant[th] /\ sup'[q] = opTenant[th]
          /\ UNCHANGED <<undo, timers>>
      BY <1>2, <2>3, <2>6 DEF AssignOk
    <3>2. Settled(q, opTenant[th])
      BY <2>1, <2>3, <2>4, <2>5, <3>1 DEF Settled
    <3> QED
      BY <1>0, <2>1, <2>3, <3>2, Settle DEF SameRest, ScanKnown
  <2>7. CASE UnassignOk(th, p)
    <3>1. /\ \A c \in Owners : q \in podMap'[c] <=> q \in podMap[c] \/ c = Pool
          /\ tenantName'[q] = Pool
          /\ UNCHANGED <<undo, timers>>
      BY <1>2, <2>7 DEF UnassignOk, PutWarmedPod, SetPods
    <3>2. Settled(q, Pool)
      BY <2>1, <2>3, <2>4, <2>5, <3>1 DEF Settled
    <3> QED
      BY <1>0, <2>1, <2>3, <3>2, Settle DEF SameRest, ScanKnown
  <2>8. CASE CallFails(th, p)
    <3>1. /\ \A w \in Threads : InJob(w, q)' <=> InJob(w, q)
          /\ UNCHANGED <<podMap, tenantName, timers>>
      BY <1>2, <2>1, <2>8 DEF CallFails
    <3>2. op[th] \in Removing /\ sup[q] = opTenant[th]
            => sup'[q] \in {opTenant[th], Pool}
      BY <1>2, <2>8 DEF CallFails, supVars
    <3>3. op[th] \in Removing /\ sup[q] # opTenant[th] => sup'[q] = sup[q]
      BY <1>2, <2>8 DEF CallFails, supVars, Adding, Removing
    <3>4. ASSUME q \notin contested PROVE SupKnown(q)'
      BY <1>0, <2>1, <2>2, <2>3, <3>1, <3>2, <3>3, <3>4
         DEF PodOK, CleanPod, SupKnown
    <3>5. Held(q)'
      BY <2>1, <3>1 DEF Held
    <3>6. CleanPod(q) => CleanPod(q)'
      BY <2>1, <2>3, <3>1 DEF CleanPod, OneOwner, OneHolder
    <3> QED
      BY <1>0, <2>1, <2>3, <3>4, <3>5, <3>6
         DEF PodOK, SameRest, ScanKnown, DeadPod, NewPod, Nowhere
  <2>9. CASE CallRejected(th, p) /\ p \notin unassigning
    <3>1. UpdateLocalMetaPodOfTenant(q, sup[q]) /\ sup'[q] = sup[q]
          /\ UNCHANGED <<undo, timers>>
      BY <1>2, <2>9 DEF CallRejected, supVars
    <3>2. Corrected(q, sup[q])
      BY <1>0, <2>1, <2>3, <2>4, <2>5, <3>1
         DEF Corrected, SameRest, PodOK, DeadPod, NewPod, Nowhere
    <3> QED
      BY <1>0, <2>1, <2>3, <3>1, <3>2, Correct DEF SameRest, ScanKnown
  <2>10. CASE CallRejected(th, p) /\ p \in unassigning
    <3>1. /\ q \in timers' /\ sup'[q] = sup[q]
          /\ UNCHANGED <<podMap, tenantName, undo>>
      BY <1>2, <2>10 DEF CallRejected, supVars
    <3>2. q \notin contested => \A w \in Threads : ~InJob(w, q)'
      BY <2>2, <2>3, <2>5, <3>1
    <3>3. ASSUME q \notin contested PROVE CleanPod(q)'
      BY <1>0, <2>1, <2>2, <2>3, <3>1, <3>2, <3>3
         DEF PodOK, CleanPod, OneOwner, OneHolder
    <3>4. ASSUME q \notin contested PROVE SupKnown(q)'
      BY <1>0, <2>1, <3>1, <3>2, <3>4 DEF PodOK, CleanPod, SupKnown
    <3> QED
      BY <1>0, <2>1, <2>3, <3>1, <3>3, <3>4
         DEF PodOK, SameRest, ScanKnown, DeadPod, NewPod, Nowhere
  <2> QED
    BY <2>6, <2>7, <2>8, <2>9, <2>10 DEF Reply, CallRejected
<1> QED BY <1>1, <1>2

\* A resize takes the pods of S out of container o into goroutine th.
LEMMA PodStart ==
  ASSUME TypeOK, JobShape, PodInv, NEW th \in Threads, NEW o \in Owners,
         NEW S \in SUBSET podMap[o], TakePods(o, S), StartCalls(th, S),
         pc[th] # "calls",
         \A w \in Threads \ {th} :
           op'[w] = op[w] /\ opTenant'[w] = opTenant[w],
         op'[th] \in Removing => o \in Tenants /\ opTenant'[th] = o,
         UNCHANGED <<podDescMap, hasIP, scan, timers, warmVars, supVars, gone,
                     histVars>>,
         NEW q \in Pods
  PROVE  PodOK(q)'
<1> USE DEF TypeOK, InJob, warmVars, supVars, histVars
<1>0. PodOK(q)
  BY DEF PodInv
<1>1. calls[th] = {} /\ undo[th] = {} /\ undo' = undo
      /\ calls' = [calls EXCEPT ![th] = S]
  BY DEF JobShape, StartCalls
<1>2. CASE q \in S
  <2>1. TakenBy(q, o, {th})
    BY <1>1, <1>2 DEF TakenBy, TakePods, SameRest
  <2> HIDE DEF TypeOK, InJob
  <2> QED BY <1>0, <2>1, Take
<1>3. CASE q \notin S
  <2>1. SamePod(q)
    BY <1>1, <1>3 DEF SamePod, TakePods
  <2> HIDE DEF TypeOK, InJob
  <2> QED BY <1>0, <2>1, Frame
<1> QED BY <1>2, <1>3

LEMMA PodEnd ==
  ASSUME TypeOK, JobShape, PodInv, NEW th \in Threads, EndJob(th),
         pc[th] # "calls",
         UNCHANGED <<podDescMap, hasIP, podMap, tenantName, scan, timers,
                     warmVars, supVars, gone, histVars>>,
         NEW q \in Pods
  PROVE  PodOK(q)'
<1>1. SamePod(q)
  BY DEF SamePod, EndJob, JobShape, TypeOK, InJob, warmVars, supVars, histVars
<1> QED BY <1>1, Frame DEF PodInv

\* A resize puts the pods of its undo list that are still known into o.
LEMMA PodJoin ==
  ASSUME TypeOK, JobShape, PodInv, NEW th \in Threads, NEW o \in Owners,
         NEW kinds, Join(th, kinds), SetPods(o, Undone(th)),
         o \in Tenants => op[th] \in Removing /\ opTenant[th] = o,
         NEW q \in Pods
  PROVE  PodOK(q)'
<1> USE DEF TypeOK, InJob, warmVars, supVars, histVars
<1>0. PodOK(q)
  BY DEF PodInv
<1>1. calls[th] = {} /\ undo' = [undo EXCEPT ![th] = {}]
      /\ UNCHANGED <<calls, op, opTenant, timers, warmDel, sup>>
      /\ SameRest(q)
  BY DEF Join, SameRest
<1>2. \A w \in Threads : InJob(w, q)' <=> InJob(w, q) /\ w # th
  BY <1>1
<1>3. CASE q \in Undone(th)
  <2>1. Held(q) /\ InJob(th, q)
    BY <1>3 DEF Held, Undone
  <2>2. q \notin contested => ~Held(q)'
    BY <1>0, <1>1, <1>2, <2>1 DEF PodOK, CleanPod, OneHolder, Held
  <2>3. Settled(q, o) \/ q \in contested
    BY <1>0, <1>1, <1>3, <2>1, <2>2 DEF Settled, SetPods, PodOK, SupKnown
  <2>4. ScanKnown(q)' /\ DeadPod(q)' /\ NewPod(q)'
    BY <1>0, <1>1, <2>1
       DEF SameRest, PodOK, ScanKnown, DeadPod, NewPod, Nowhere
  <2> HIDE DEF TypeOK, InJob
  <2>5. CASE q \in contested
    BY <1>1, <2>4, <2>5 DEF PodOK, SameRest
  <2> QED BY <1>0, <2>3, <2>4, <2>5, Settle
<1>4. CASE q \notin Undone(th)
  <2>1. /\ \A c \in Owners : q \in podMap'[c] <=> q \in podMap[c]
        /\ tenantName'[q] = tenantName[q]
    BY <1>4 DEF SetPods
  <2>2. Held(q)' => Held(q)
    BY <1>1, <1>2 DEF Held
  <2>3. CleanPod(q) => CleanPod(q)'
    BY <1>1, <1>2, <2>1, <2>2 DEF CleanPod, OneOwner, OneHolder
  <2>4. SupKnown(q) => SupKnown(q)'
    <3> HIDE DEF TypeOK, InJob
    <3> QED BY <1>1, <1>2, <2>1 DEF SupKnown, Owners
  <2> QED
    BY <1>0, <1>1, <2>1, <2>2, <2>3, <2>4
       DEF PodOK, SameRest, ScanKnown, DeadPod, NewPod, Nowhere
<1> QED BY <1>3, <1>4

LEMMA PodResize ==
  ASSUME TypeOK, JobShape, PodInv, NEW th \in Threads,
         Request(th) \/ Resize(th) \/ Proceed(th), NEW q \in Pods
  PROVE  PodOK(q)'
<1>1. CASE Request(th)
  <2>1. /\ pc[th] = "idle"
        /\ \A w \in Threads \ {th} :
             op'[w] = op[w] /\ opTenant'[w] = opTenant[w]
        /\ UNCHANGED <<podDescMap, hasIP, podMap, tenantName, calls, undo,
                       scan, timers, warmVars, supVars, gone, histVars>>
    BY <1>1 DEF Request, AsyncPause, AsyncResume, Spawn, TypeOK
  <2>2. ~InJob(th, q)
    BY <2>1 DEF JobShape, InJob
  <2>3. \A w \in Threads : InJob(w, q)' <=> InJob(w, q)
    BY <2>1 DEF InJob
  <2>4. SamePod(q)
    BY <2>1, <2>2, <2>3 DEF SamePod, warmVars, supVars, histVars
  <2> QED BY <2>4, Frame DEF PodInv
<1>2. ASSUME NEW t \in Tenants, ScaleOut(th, t) PROVE PodOK(q)'
  <2>1. PICK S \in SUBSET podMap[Pool] : TakePods(Pool, S) /\ StartCalls(th, S)
    BY <1>2 DEF ScaleOut, Taken
  <2> QED
    BY <1>2, <2>1, PodStart
       DEF ScaleOut, Scale, Owners, TypeOK, Removing
<1>3. ASSUME NEW t \in Tenants, ScaleIn(th, t) PROVE PodOK(q)'
  <2>1. PICK S \in SUBSET podMap[t] : TakePods(t, S) /\ StartCalls(th, S)
    BY <1>3 DEF ScaleIn, Taken
  <2> QED
    BY <1>3, <2>1, PodStart
       DEF ScaleIn, Scale, Owners, TypeOK, Removing
<1>4. CASE RunPause(th)
  <2>1. CASE TakePods(opTenant[th], podMap[opTenant[th]])
             /\ StartCalls(th, podMap[opTenant[th]])
             /\ UNCHANGED <<op, opTenant>>
    BY <1>4, <2>1, PodStart DEF RunPause, SyncStatePaused, CAS, TypeOK, Owners
  <2>2. CASE EndJob(th) /\ UNCHANGED <<podMap, tenantName>>
    BY <1>4, <2>2, PodEnd DEF RunPause, SyncStatePaused, CAS
  <2> QED BY <1>4, <2>1, <2>2 DEF RunPause, SyncStatePaused, CAS
<1>5. CASE RunResume(th)
  <2>1. ASSUME NEW S \in SUBSET podMap[Pool], TakePods(Pool, S),
               StartCalls(th, S), UNCHANGED <<op, opTenant>>
        PROVE  PodOK(q)'
    BY <1>5, <2>1, PodStart DEF RunResume, TypeOK, Owners, Removing
  <2>2. CASE EndJob(th) /\ UNCHANGED <<podMap, tenantName>>
    BY <1>5, <2>2, PodEnd DEF RunResume
  <2> QED BY <1>5, <2>1, <2>2 DEF RunResume, Taken
<1>6. CASE JoinAdd(th)
  BY <1>6, PodJoin DEF JoinAdd, SyncStateResumed, CAS, Owners
<1>7. CASE JoinRemove(th)
  BY <1>7, PodJoin DEF JoinRemove, Join, Owners, TypeOK
<1>8. CASE Leave(th)
  BY <1>8, PodEnd DEF Leave, metaVars
<1> QED
  BY <1>1, <1>2, <1>3, <1>4, <1>5, <1>6, <1>7, <1>8 DEF Resize, Proceed

\* Timers, pod events, scans, the trim of the pool and the supervisors.
LEMMA PodOthers ==
  ASSUME TypeOK, TrimShape, PodInv, NEW q \in Pods,
         \/ \E p \in Pods :
              \/ UnassignTimer(p) \/ UpdatePod(p) \/ HandleK8sDelPodEvent(p)
              \/ ScanDecide(p) \/ ScanCorrect(p)
              \/ SupFinishUnassign(p) \/ SupRestart(p)
         \/ WarmDecide \/ WarmTake \/ WarmDone
         \/ \E t \in Tenants : RegisterTenant(t)
  PROVE  PodOK(q)'
<1> USE DEF TypeOK, InJob, jobVars, warmVars, supVars, histVars, metaVars
<1>0. PodOK(q)
  BY DEF PodInv
<1>1. ASSUME NEW p \in Pods, UnassignTimer(p) PROVE PodOK(q)'
  <2>1. CASE q # p
    <3>1. SamePod(q)
      BY <1>1, <2>1 DEF UnassignTimer, PutWarmedPod, SetPods, SamePod
    <3> QED BY <1>0, <3>1, Frame
  <2>2. CASE q = p
    <3>1. Held(q) /\ (q \notin contested => ~Held(q)')
      BY <1>0, <1>1, <2>2
         DEF UnassignTimer, PodOK, CleanPod, OneHolder, Held
    <3>2. Settled(q, Pool)
      BY <1>1, <2>2, <3>1
         DEF UnassignTimer, PutWarmedPod, SetPods, Settled, SameRest, Owners
    <3> QED
      BY <1>0, <1>1, <3>2, Settle
         DEF UnassignTimer, PodOK, ScanKnown, Owners
  <2> QED BY <2>1, <2>2
<1>2. ASSUME NEW p \in Pods, UpdatePod(p) PROVE PodOK(q)'
  <2>1. CASE q # p
    <3>1. SamePod(q)
      BY <1>2, <2>1 DEF UpdatePod, PutWarmedPod, SetPods, SamePod
    <3> QED BY <1>0, <3>1, Frame
  <2>2. CASE q = p /\ UNCHANGED <<hasIP, podMap, tenantName>>
    <3>1. Held(q)' <=> Held(q)
      BY <1>2 DEF UpdatePod, Held
    <3>2. CleanPod(q)' <=> CleanPod(q)
      BY <1>2, <2>2, <3>1 DEF UpdatePod, CleanPod, OneOwner, OneHolder
    <3>3. SupKnown(q)' <=> SupKnown(q)
      BY <1>2, <2>2 DEF UpdatePod, SupKnown
    <3> QED
      BY <1>0, <1>2, <2>2, <3>1, <3>2, <3>3
         DEF UpdatePod, PodOK, ScanKnown, DeadPod, NewPod, Nowhere
  <2>3. CASE q = p /\ q \notin hasIP /\ hasIP' = hasIP \cup {q}
             /\ PutWarmedPod(q)
    <3>1. Nowhere(q) /\ tenantName[q] = Pool /\ q \notin contested
      BY <1>0, <2>3 DEF PodOK, NewPod
    <3>2. ~Held(q)' /\ tenantName'[q] = Pool
          /\ \A o \in Owners : q \in podMap'[o] <=> o = Pool
      BY <1>2, <2>3, <3>1
         DEF UpdatePod, PutWarmedPod, SetPods, Nowhere, Held, Owners
    <3>3. CleanPod(q)' /\ SupKnown(q)'
      BY <3>2 DEF CleanPod, OneOwner, OneHolder, SupKnown, Held, Owners
    <3> QED
      BY <1>0, <1>2, <2>2, <2>3, <3>1, <3>2, <3>3
         DEF UpdatePod, PodOK, ScanKnown, DeadPod, NewPod, Nowhere
  <2> QED BY <1>2, <2>1, <2>2, <2>3 DEF UpdatePod
<1>3. ASSUME NEW p \in Pods, HandleK8sDelPodEvent(p) PROVE PodOK(q)'
  <2>1. CASE q # p
    <3>1. SamePod(q)
      BY <1>3, <2>1 DEF HandleK8sDelPodEvent, removePodFromClusterWithoutLock,
                        TakePods, SamePod
    <3> QED BY <1>0, <3>1, Frame
  <2>2. CASE q = p
    <3>1. Held(q)' <=> Held(q)
      BY <1>3 DEF HandleK8sDelPodEvent, removePodFromClusterWithoutLock, Held
    <3>2. /\ tenantName'[q] = Pool
          /\ \A o \in Owners : q \in podMap'[o] <=>
                                 q \in podMap[o] /\ o # tenantName[q]
      BY <1>3, <2>2 DEF HandleK8sDelPodEvent, removePodFromClusterWithoutLock,
                        TakePods
    <3>3. ASSUME q \notin contested
          PROVE  /\ \A o \in Owners : q \notin podMap'[o]
                 /\ CleanPod(q)'
      BY <1>0, <1>3, <3>1, <3>2, <3>3 DEF HandleK8sDelPodEvent,
                                          removePodFromClusterWithoutLock,
                                          PodOK, CleanPod, OneOwner,
                                          OneHolder, Owners
    <3>4. SupKnown(q) => SupKnown(q)'
      BY <1>3, <3>2 DEF HandleK8sDelPodEvent, removePodFromClusterWithoutLock,
                        SupKnown, Owners
    <3>5. scan' = scan /\ (q \in contested' <=> q \in contested)
          /\ q \notin podDescMap' /\ sup' = sup /\ q \in gone'
          /\ (q \in lateDeleted' <=>
                q \in lateDeleted \/ Held(q) \/ scan[q] # NoScan)
          /\ hasIP' = hasIP
      BY <1>3, <2>2 DEF HandleK8sDelPodEvent, removePodFromClusterWithoutLock
    <3> HIDE DEF TypeOK, InJob
    <3>6. Nowhere(q)' <=> /\ \A o \in Owners : q \notin podMap'[o]
                          /\ ~Held(q) /\ scan[q] = NoScan
      BY <3>1, <3>5 DEF Nowhere
    <3>7. DeadPod(q)'
      BY <3>3, <3>5, <3>6 DEF DeadPod
    <3>8. NewPod(q)'
      BY <1>0, <3>2, <3>5, <3>6 DEF PodOK, NewPod, Nowhere
    <3> QED
      BY <1>0, <3>3, <3>4, <3>5, <3>7, <3>8 DEF PodOK, ScanKnown
  <2> QED BY <2>1, <2>2
<1>4. ASSUME NEW p \in Pods, ScanDecide(p) PROVE PodOK(q)'
  <2>1. CASE q # p
    <3>1. SamePod(q)
      BY <1>4, <2>1 DEF ScanDecide, SamePod
    <3> QED BY <1>0, <3>1, Frame
  <2>2. CASE q = p
    <3>1. (Held(q)' <=> Held(q)) /\ (CleanPod(q)' <=> CleanPod(q))
          /\ (SupKnown(q)' <=> SupKnown(q))
      BY <1>4 DEF ScanDecide, Held, CleanPod, OneOwner, OneHolder, SupKnown
    <3>2. ScanKnown(q)'
      BY <1>4, <2>2 DEF ScanDecide, ScanKnown
    <3>3. DeadPod(q)' /\ NewPod(q)'
      BY <1>0, <1>4, <2>2, <3>1
         DEF ScanDecide, PodOK, DeadPod, NewPod, Nowhere
    <3> QED BY <1>0, <1>4, <3>1, <3>2, <3>3 DEF ScanDecide, PodOK
  <2> QED BY <2>1, <2>2
<1>5. ASSUME NEW p \in Pods, ScanCorrect(p) PROVE PodOK(q)'
  <2>1. CASE q # p
    <3>1. SamePod(q)
      BY SMTT(30), <1>5, <2>1 DEF ScanCorrect, UpdateLocalMetaPodOfTenant,
                                  Stripped, SamePod
    <3> QED BY <1>0, <3>1, Frame
  <2>2. CASE q = p
    <3>1. /\ scan[q] # NoScan /\ scan[q] \in Owners
          /\ UpdateLocalMetaPodOfTenant(q, scan[q])
      BY <1>5, <2>2 DEF ScanCorrect
    <3>2. /\ scan'[q] = NoScan /\ sup' = sup /\ podDescMap' = podDescMap
          /\ hasIP' = hasIP /\ gone' = gone /\ lateDeleted' = lateDeleted
          /\ (q \in contested' <=> q \in contested \/ Held(q))
          /\ (Held(q)' <=> Held(q))
      BY <1>5, <2>2 DEF ScanCorrect, Held
    <3> HIDE DEF TypeOK, InJob
    <3>3. Corrected(q, scan[q])
      BY <1>0, <3>1, <3>2
         DEF Corrected, PodOK, ScanKnown, DeadPod, NewPod, Nowhere
    <3> QED BY <1>0, <3>1, <3>2, <3>3, Correct DEF ScanKnown
  <2> QED BY <2>1, <2>2
<1>6. ASSUME NEW p \in Pods, SupFinishUnassign(p) \/ SupRestart(p)
      PROVE  PodOK(q)'
  <2>1. \A o \in Owners : sup[q] \in {o, Pool} => sup'[q] \in {o, Pool}
    BY <1>6 DEF SupFinishUnassign, SupRestart
  <2>2. (Held(q)' <=> Held(q)) /\ (CleanPod(q)' <=> CleanPod(q))
    BY <1>6 DEF SupFinishUnassign, SupRestart, Held, CleanPod, OneOwner,
                OneHolder
  <2>3. SupKnown(q) => SupKnown(q)'
    BY <1>6, <2>1 DEF SupFinishUnassign, SupRestart, SupKnown, Owners
  <2>4. ScanKnown(q) => ScanKnown(q)'
    BY <1>6, <2>1 DEF SupFinishUnassign, SupRestart, ScanKnown
  <2> QED
    BY <1>0, <1>6, <2>2, <2>3, <2>4
       DEF SupFinishUnassign, SupRestart, PodOK, DeadPod, NewPod, Nowhere
<1>7. CASE WarmDecide
  <2>1. SamePod(q)
    BY <1>7 DEF WarmDecide, SamePod
  <2> QED BY <1>0, <2>1, Frame
<1>8. CASE WarmTake
  <2>1. PICK S \in SUBSET podMap[Pool] : TakePods(Pool, S) /\ warmDel' = S
    BY <1>8 DEF WarmTake, Taken
  <2>2. warmDel = {}
    BY <1>8 DEF WarmTake, TrimShape
  <2>3. CASE q \in S
    <3>1. TakenBy(q, Pool, {})
      BY <1>8, <2>1, <2>2, <2>3 DEF WarmTake, TakePods, TakenBy, SameRest,
                                    Owners
    <3> HIDE DEF TypeOK, InJob
    <3> QED BY <1>0, <3>1, Take DEF Owners
  <2>4. CASE q \notin S
    <3>1. SamePod(q)
      BY <1>8, <2>1, <2>2, <2>4 DEF WarmTake, TakePods, SamePod
    <3> QED BY <1>0, <3>1, Frame
  <2> QED BY <2>3, <2>4
<1>9. CASE WarmDone
  <2>1. CASE q \notin warmDel
    <3>1. SamePod(q)
      BY <1>9, <2>1 DEF WarmDone, SetPods, SamePod
    <3> QED BY <1>0, <3>1, Frame
  <2>2. ASSUME q \notin contested, q \in warmDel PROVE ~Held(q)'
    BY <1>0, <1>9, <2>2 DEF WarmDone, PodOK, CleanPod, OneHolder, Held
  <2>3. CASE q \in warmDel /\ SetPods(Pool, warmDel)
    <3>1. Settled(q, Pool)
      BY <1>9, <2>2, <2>3 DEF WarmDone, SetPods, Settled, SameRest, Held,
                              Owners
    <3>2. ScanKnown(q)'
      BY <1>0, <1>9 DEF WarmDone, PodOK, ScanKnown
    <3> HIDE DEF TypeOK, InJob
    <3> QED BY <1>0, <3>1, <3>2, Settle DEF Owners
  <2>4. CASE q \in warmDel /\ UNCHANGED <<podMap, tenantName>>
    <3>1. Held(q) /\ (q \notin contested => ~Held(q)')
      BY <2>2, <2>4 DEF Held
    <3>2. CleanPod(q) /\ q \notin contested => CleanPod(q)'
      BY <1>9, <2>4, <3>1 DEF WarmDone, CleanPod, OneOwner, OneHolder
    <3>3. (SupKnown(q)' <=> SupKnown(q)) /\ (ScanKnown(q)' <=> ScanKnown(q))
      BY <1>9, <2>4 DEF WarmDone, SupKnown, ScanKnown
    <3>4. /\ (q \in gone' <=> q \in gone) /\ (q \in hasIP' <=> q \in hasIP)
          /\ (q \in podDescMap' <=> q \in podDescMap)
          /\ (q \in contested' <=> q \in contested)
          /\ (q \in lateDeleted' <=> q \in lateDeleted)
      BY <1>9 DEF WarmDone
    <3> HIDE DEF TypeOK, InJob
    <3> QED
      BY <1>0, <3>1, <3>2, <3>3, <3>4 DEF PodOK, DeadPod, NewPod, Nowhere
  <2> QED BY <1>9, <2>1, <2>3, <2>4 DEF WarmDone
<1>10. ASSUME NEW t \in Tenants, RegisterTenant(t) PROVE PodOK(q)'
  <2>1. SamePod(q)
    BY <1>10 DEF RegisterTenant, SamePod
  <2> QED BY <1>0, <2>1, Frame
<1> QED
  BY <1>1, <1>2, <1>3, <1>4, <1>5, <1>6, <1>7, <1>8, <1>9, <1>10

LEMMA PodStep ==
  TypeOK /\ JobShape /\ TrimShape /\ PodInv /\ [Next]_vars => PodInv'
<1> SUFFICES ASSUME TypeOK, JobShape, TrimShape, PodInv, [Next]_vars,
                    NEW q \in Pods
             PROVE  PodOK(q)'
  BY DEF PodInv
<1>1. ASSUME UNCHANGED vars PROVE PodOK(q)'
  <2>1. SamePod(q)
    BY <1>1 DEF SamePod, InJob, vars, metaVars, jobVars, warmVars, supVars,
                histVars
  <2> QED BY <2>1, Frame DEF PodInv
<1> QED
  BY <1>1, PodReply, PodResize, PodOthers DEF Next

-----------------------------------------------------------------------------
(* No pod is leaked                                                        *)

Accounted(q) ==
  (\E o \in Owners : q \in podMap[o]) \/ Held(q) \/ q \in released \cup wild

\* The step makes no pod known, and accounts for q if it was accounted for.
Keeps(q) ==
  /\ q \in podDescMap' \cap hasIP' => q \in podDescMap \cap hasIP
  /\ Accounted(q) => Accounted(q)' \/ q \notin podDescMap'

LEMMA KeepsReply ==
  ASSUME TypeOK, JobShape, NEW th \in Threads, NEW p \in Pods, Reply(th, p),
         NEW q \in Pods
  PROVE  Keeps(q)
<1> USE DEF TypeOK, Calling, MuOfGrpcFree, ApiWgDone, InJob, warmVars, Owners,
            Keeps, Accounted, Held
<1>1. CASE AssignOk(th, p)
  BY <1>1 DEF AssignOk
<1>2. CASE UnassignOk(th, p)
  BY <1>2 DEF UnassignOk, PutWarmedPod, SetPods
<1>3. CASE CallFails(th, p)
  BY <1>3 DEF CallFails, supVars
<1>4. CASE CallRejected(th, p) /\ p \notin unassigning
  BY <1>4 DEF CallRejected, UpdateLocalMetaPodOfTenant, Stripped
<1>5. CASE CallRejected(th, p) /\ p \in unassigning
  BY <1>5 DEF CallRejected
<1> QED BY <1>1, <1>2, <1>3, <1>4, <1>5 DEF Reply

LEMMA KeepsResize ==
  ASSUME TypeOK, JobShape, NEW th \in Threads,
         Request(th) \/ Resize(th) \/ Proceed(th), NEW q \in Pods
  PROVE  Keeps(q)
<1> USE DEF TypeOK, JobShape, InJob, warmVars, histVars, Owners, Keeps,
            Accounted, Held
<1>1. CASE Request(th)
  BY <1>1 DEF Request, AsyncPause, AsyncResume, Spawn
<1>2. CASE Resize(th)
  BY SMTT(30), <1>2 DEF Resize, ScaleOut, ScaleIn, Scale, Taken, TakePods,
                        StartCalls
<1>3. CASE RunPause(th)
  BY <1>3 DEF RunPause, SyncStatePaused, CAS, TakePods, StartCalls, EndJob
<1>4. CASE RunResume(th)
  BY <1>4 DEF RunResume, Taken, TakePods, StartCalls, EndJob
<1>5. CASE JoinAdd(th) \/ JoinRemove(th)
  BY <1>5 DEF JoinAdd, SyncStateResumed, CAS, JoinRemove, Join, SetPods, Undone
<1>6. CASE Leave(th)
  BY <1>6 DEF Leave, EndJob, metaVars
<1> QED BY <1>1, <1>2, <1>3, <1>4, <1>5, <1>6 DEF Proceed

LEMMA LostStep ==
  TypeOK /\ JobShape /\ TrimShape /\ PodInv /\ NoLostPod /\ [Next]_vars
    => NoLostPod'
<1> SUFFICES ASSUME TypeOK, JobShape, TrimShape, PodInv, NoLostPod,
                    [Next]_vars, NEW q \in Pods,
                    q \in podDescMap' \cap hasIP'
             PROVE  Accounted(q)'
  BY TypeStep DEF NoLostPod, Accounted, TypeOK
<1>0. q \in podDescMap \cap hasIP => Accounted(q)
  BY DEF NoLostPod, Accounted
<1>a. Keeps(q) => Accounted(q)'
  BY <1>0 DEF Keeps
<1> USE DEF TypeOK, InJob, jobVars, warmVars, histVars, Owners, Keeps,
            Accounted, Held
<1>1. ASSUME NEW p \in Pods, UpdatePod(p) PROVE Accounted(q)'
  <2>1. CASE PutWarmedPod(p) /\ q = p
    BY <2>1 DEF PutWarmedPod, SetPods
  <2>2. CASE PutWarmedPod(p) /\ q # p
    BY <1>0, <1>1, <2>2 DEF UpdatePod, PutWarmedPod, SetPods
  <2>3. CASE UNCHANGED <<hasIP, podMap>>
    <3>1. q \in hasIP => q \in podDescMap \/ q \in gone
      BY DEF PodInv, PodOK, NewPod
    <3> QED BY <1>0, <1>1, <2>3, <3>1 DEF UpdatePod
  <2> QED BY <1>1, <2>1, <2>2, <2>3 DEF UpdatePod
<1>2. ASSUME NEW p \in Pods, UnassignTimer(p) PROVE Accounted(q)'
  BY <1>0, <1>2 DEF UnassignTimer, PutWarmedPod, SetPods
<1>3. ASSUME NEW p \in Pods, HandleK8sDelPodEvent(p) PROVE Accounted(q)'
  BY <1>0, <1>3 DEF HandleK8sDelPodEvent, removePodFromClusterWithoutLock,
                    TakePods
<1>4. ASSUME NEW p \in Pods, ScanCorrect(p) PROVE Accounted(q)'
  BY <1>0, <1>4 DEF ScanCorrect, UpdateLocalMetaPodOfTenant, Stripped
<1>5. ASSUME NEW p \in Pods,
             ScanDecide(p) \/ SupFinishUnassign(p) \/ SupRestart(p)
      PROVE  Accounted(q)'
  BY <1>0, <1>5 DEF ScanDecide, SupFinishUnassign, SupRestart, metaVars
<1>6. CASE WarmDecide \/ WarmTake \/ WarmDone
  BY <1>0, <1>6 DEF WarmDecide, WarmTake, WarmDone, Taken, TakePods, SetPods,
                    metaVars, TrimShape
<1>7. ASSUME NEW t \in Tenants, RegisterTenant(t) PROVE Accounted(q)'
  BY <1>0, <1>7 DEF RegisterTenant
<1>8. CASE UNCHANGED vars
  BY <1>0, <1>8 DEF vars, metaVars
<1> HIDE DEF TypeOK, InJob, Keeps, Accounted, Held
<1> QED
  BY <1>a, <1>1, <1>2, <1>3, <1>4, <1>5, <1>6, <1>7, <1>8, KeepsReply,
     KeepsResize DEF Next

-----------------------------------------------------------------------------
(* The theorems                                                            *)

LEMMA InvInit == Init => IInv
<1> SUFFICES ASSUME Init PROVE IInv
  OBVIOUS
<1>1. JobShape /\ TrimShape
  BY DEF Init, JobShape, TrimShape
<1>2. ASSUME NEW p \in Pods PROVE PodOK(p)
  <2>1. ~Held(p) /\ \A o \in Owners : p \notin podMap[o]
    BY DEF Init, Held, InJob
  <2>2. CleanPod(p) /\ SupKnown(p)
    BY <2>1 DEF Init, CleanPod, OneOwner, OneHolder, InJob, SupKnown, Owners
  <2> QED
    BY <2>1, <2>2
       DEF Init, PodOK, ScanKnown, DeadPod, NewPod, Nowhere
<1>3. NoLostPod /\ TransitionOwned
  BY DEF Init, NoLostPod, TransitionOwned
<1> QED BY <1>1, <1>2, <1>3, TypeInit DEF IInv, PodInv

LEMMA InvStep == IInv /\ [Next]_vars => IInv'
  BY TypeStep, ShapeStep, TrimStep, PodStep, LostStep, OwnedStep DEF IInv

\* The inductive invariant holds in every reachable state.
THEOREM Invariance == Spec => []IInv
  BY InvInit, InvStep, PTL DEF Spec

\* Every variable keeps its type, and a goroutine holds only pods of its batch.
THEOREM TypeCorrect == Spec => []TypeOK
  BY Invariance, PTL DEF IInv

\* A pod has at most one owner: one container or one goroutine.
THEOREM OwnershipHolds == Spec => []Ownership
<1>1. IInv => Ownership
  BY DEF IInv, TypeOK, PodInv, PodOK, CleanPod, OneOwner, OneHolder, Ownership
<1> QED BY <1>1, Invariance, PTL

\* The container of a pod and its tenantName agree.
THEOREM NameMatchesHolds == Spec => []NameMatches
<1>1. IInv => NameMatches
  BY DEF IInv, PodInv, PodOK, CleanPod, OneOwner, NameMatches
<1> QED BY <1>1, Invariance, PTL

\* A deleted pod is in no container, unless its deletion met it in flight.
THEOREM DeletedPodsReleasedHolds == Spec => []DeletedPodsReleased
<1>1. IInv => DeletedPodsReleased
  BY DEF IInv, TypeOK, PodInv, PodOK, DeadPod, Nowhere, DeletedPodsReleased
<1> QED BY <1>1, Invariance, PTL

\* The topology of a tenant holds no pod that serves another tenant.
THEOREM CrossTenantSafetyHolds == Spec => []CrossTenantSafety
<1>1. IInv => CrossTenantSafety
  BY DEF IInv, TypeOK, PodInv, PodOK, SupKnown, CrossTenantSafety, Owners
<1> QED BY <1>1, Invariance, PTL

\* Every known pod with an IP is accounted for.
THEOREM NoLostPodHolds == Spec => []NoLostPod
  BY Invariance, PTL DEF IInv

\* A tenant that is pausing or resuming has a goroutine that will end it.
THEOREM TransitionOwnedHolds == Spec => []TransitionOwned
  BY Invariance, PTL DEF IInv
=============================================================================
