--------------------------- MODULE ClusterManager ----------------------------
(***************************************************************************)
(* The life of the autoscaler's process (autoscale/cluster.go): how it     *)
(* starts over whatever an earlier run left behind, the goroutines it      *)
(* runs, the analysis tasks of tenants, its shutdown, crashes and panics.  *)
(* The watch of the pods is PodWatch's.                                    *)
(*                                                                         *)
(* A crash loses every variable but those of the cluster: the pods, the    *)
(* CloneSet and the supervisors, which go on serving their tenants.  The   *)
(* bookkeeping of pods is reduced to whom a pod is lent to; how resizes    *)
(* lend and return pods is AutoScaleMeta's.  A definition whose comment    *)
(* begins with "Mutant" is a plausible bug in the next definition, which   *)
(* the specification never uses.                                           *)
(***************************************************************************)
EXTENDS PodWatch

CONSTANTS
  Tenants,    \* names of tenants
  Pool,       \* the pool of warmed pods, or no tenant
  Loops,      \* the periodic loops that only run until the flag is set
  Early,      \* those of them that are counted before they are started
  MaxFaults   \* bound: crashes, and calls that fail

ASSUME OwnersAssumption == Pool \notin Tenants
\* manageAnalyzeTasks is started by go and counts itself in c.wg.
ASSUME LoopsAssumption == Early \subseteq Loops /\ "manage" \in Loops \ Early
ASSUME FaultsAssumption == MaxFaults \in Nat

VARIABLES
  phase,      \* of the process: down, cloneSet, load, scan, up
  toScan,     \* pods whose call of the scan at start-up is outstanding
  lent,       \* pod -> the tenant or the pool that lists it
  astray,     \* history: pods a failed call of this process left in the pool
              \* although their supervisor serves a tenant
  tenants,    \* tenantMap
  tasks,      \* tenant -> the number of its goroutines analyzeTaskLoop
  starting,   \* the tenant whose task runs and has no entry yet, or Pool
  mapped,     \* tenants with an entry in analyzeTaskMap
  told,       \* tenants whose entry has endSyn set
  loops,      \* loop -> none, new (not yet counted by c.wg), running, ended
  shutdown,   \* the flag
  stopper,    \* the call of Shutdown: none, stop, wait, returned
  watcher,    \* c.watcher: nil, old (a channel that was closed), current
  cloneSet,   \* external: none, old (of another version), current
  sup,        \* external: pod -> the tenant its supervisor serves
  faults      \* the faults so far

bookVars == <<toScan, lent, astray>>
taskVars == <<tenants, tasks, starting, mapped, told>>
lifeVars == <<phase, loops, shutdown, stopper, watcher>>
clusterVars == <<cloneSet, sup>>
vars == <<serverVars, watchVars, bookVars, taskVars, lifeVars, clusterVars, faults>>

Owners == Tenants \cup {Pool}

\* An operation fails, or the process dies.
Fault == faults < MaxFaults /\ faults' = faults + 1

-----------------------------------------------------------------------------
(* Nothing of an earlier run is left but what the cluster holds.           *)

Lost ==
  /\ Forget
  /\ phase' = "down" /\ toScan' = {}
  /\ lent' = [p \in Pods |-> Pool] /\ astray' = {}
  /\ tenants' = {} /\ tasks' = [t \in Tenants |-> 0]
  /\ starting' = Pool /\ mapped' = {} /\ told' = {}
  /\ loops' = [l \in Loops |-> "none"]
  /\ shutdown' = FALSE /\ stopper' = "none" /\ watcher' = "nil"

Init ==
  /\ ServerInit /\ WatchInit
  /\ phase = "down" /\ toScan = {}
  /\ lent = [p \in Pods |-> Pool] /\ astray = {}
  /\ tenants = {} /\ tasks = [t \in Tenants |-> 0]
  /\ starting = Pool /\ mapped = {} /\ told = {}
  /\ loops = [l \in Loops |-> "none"]
  /\ shutdown = FALSE /\ stopper = "none" /\ watcher = "nil"
  /\ cloneSet \in {"none", "old", "current"} /\ sup = [p \in Pods |-> Pool]
  /\ faults = 0

Crash ==
  /\ phase # "down" /\ Fault
  /\ Lost
  /\ UNCHANGED <<serverVars, clusterVars>>

-----------------------------------------------------------------------------
(* Start-up: initK8sComponents and NewClusterManager                       *)

Start ==
  /\ phase = "down"
  /\ phase' = "cloneSet"
  /\ UNCHANGED <<serverVars, watchVars, bookVars, taskVars, loops, shutdown,
                 stopper, watcher, clusterVars, faults>>

\* The CloneSet of another version is deleted.
DeleteCloneSet ==
  /\ phase = "cloneSet" /\ cloneSet = "old"
  /\ cloneSet' = "none"
  /\ UNCHANGED <<serverVars, watchVars, bookVars, taskVars, lifeVars, sup, faults>>

createCloneSet ==
  /\ phase = "cloneSet" /\ cloneSet = "none"
  /\ cloneSet' = "current"
  /\ UNCHANGED <<serverVars, watchVars, bookVars, taskVars, lifeVars, sup, faults>>

BeginLoad ==
  /\ phase = "cloneSet" /\ cloneSet = "current"
  /\ phase' = "load" /\ wpc' = "list"
  /\ UNCHANGED <<serverVars, rv, channel, listed, known, bookVars,
                 taskVars, loops, shutdown, stopper, watcher, clusterVars, faults>>

\* A call of start-up, or the list of a reload, fails: the process panics.
Panic ==
  /\ phase = "cloneSet" \/ wpc = "list"
  /\ Fault
  /\ Lost
  /\ UNCHANGED <<serverVars, clusterVars>>

ListPods ==
  /\ List
  /\ UNCHANGED <<serverVars, bookVars, taskVars, lifeVars, clusterVars, faults>>

\* A pod that gets its IP joins the pool, and one that is removed leaves its
\* container.
Listing ==
  [p \in Pods |-> IF known'[p] = "running" /\ known[p] = "running" THEN lent[p]
                  ELSE Pool]

\* Mutant: the pods of the list are not scanned.
NoneToScan == {}

\* The scan asks the pods that have an IP.
ToScan == {p \in Pods : known'[p] = "running"}

\* loadPods returns to initK8sComponents.
LoadedAtStart ==
  /\ phase = "load"
  /\ Apply("off")
  /\ phase' = "scan" /\ toScan' = ToScan
  /\ lent' = Listing
  /\ UNCHANGED <<serverVars, astray, taskVars, loops, shutdown, stopper, watcher,
                 clusterVars, faults>>

\* UpdateLocalMetaPodOfTenant: the pod goes to whom its supervisor reports, and
\* a tenant that is not known is created.
Corrected(p, o) ==
  /\ lent' = [lent EXCEPT ![p] = o]
  /\ tenants' = tenants \cup ({o} \ {Pool})

\* The pod is known to the process and still there to answer a call.
Answers(p) == known[p] = "running" /\ history[Revision][p] = "running"

\* ScanStateOfPods at start-up: a pod that does not answer is given up, and is
\* one of the pool.
ScanPod(p) ==
  /\ p \in toScan
  /\ toScan' = toScan \ {p}
  /\ \/ Corrected(p, sup[p]) /\ UNCHANGED <<astray, faults>>
     \/ /\ Fault
        /\ astray' = astray \cup {p}
        /\ UNCHANGED <<lent, tenants>>
  /\ UNCHANGED <<serverVars, watchVars, tasks, starting, mapped, told, lifeVars,
                 clusterVars>>

\* A later scan passes over the pods of the pool.
ScanAgain(p) ==
  /\ phase = "up" /\ Answers(p)
  /\ lent[p] # Pool /\ sup[p] # lent[p]
  /\ Corrected(p, sup[p])
  /\ UNCHANGED <<serverVars, watchVars, toScan, astray, tasks, starting, mapped,
                 told, lifeVars, clusterVars, faults>>

\* The goroutines are started.
Ready ==
  /\ phase = "scan" /\ toScan = {}
  /\ phase' = "up" /\ wpc' = "check"
  /\ loops' = [l \in Loops |-> IF l \in Early THEN "running" ELSE "new"]
  /\ UNCHANGED <<serverVars, rv, channel, listed, known, bookVars, taskVars,
                 shutdown, stopper, watcher, clusterVars, faults>>

-----------------------------------------------------------------------------
(* watchPodsLoop, with c.watcher and the flag                              *)

\* Mutant: the flag is not read.
NeverStops == FALSE

\* The flag is set.
StopSeen == shutdown

WatchStep ==
  /\ \/ Check(StopSeen) \/ Watch \/ Skip \/ Closed
  /\ watcher' = IF wpc = "read" /\ wpc' # "read" THEN "old" ELSE watcher
  /\ UNCHANGED <<serverVars, phase, loops, shutdown, stopper, bookVars, taskVars,
                 clusterVars, faults>>

NoWatch ==
  /\ WatchFails
  /\ Fault
  /\ UNCHANGED <<serverVars, lifeVars, bookVars, taskVars, clusterVars>>

InstallWatcher ==
  /\ Install
  /\ watcher' = "current"
  /\ UNCHANGED <<serverVars, phase, loops, shutdown, stopper, bookVars, taskVars,
                 clusterVars, faults>>

HandleEvent ==
  /\ Receive
  /\ lent' = Listing
  /\ UNCHANGED <<serverVars, toScan, astray, lifeVars, taskVars, clusterVars, faults>>

LoadedAgain ==
  /\ phase = "up"
  /\ Apply("check")
  /\ lent' = Listing
  /\ UNCHANGED <<serverVars, toScan, astray, lifeVars, taskVars, clusterVars, faults>>

-----------------------------------------------------------------------------
(* Tenants and their analysis tasks                                        *)

\* A request for a tenant that is not known yet.
NewTenant(t) ==
  /\ phase = "up" /\ t \notin tenants
  /\ tenants' = tenants \cup {t}
  /\ UNCHANGED <<serverVars, watchVars, bookVars, tasks, starting, mapped, told,
                 lifeVars, clusterVars, faults>>

\* Mutant: a task is made in every round.
WithoutCheck == tenants

\* Mutant: a tenant that holds no pod gets none.
WithPodsOnly == {t \in tenants \ mapped : \E p \in Pods : lent[p] = t}

\* The tenants of a round that need a task.
WithoutTask == tenants \ mapped

\* manageAnalyzeTasks finds no entry for the tenant, and starts the goroutine.
StartTask(t) ==
  /\ loops["manage"] = "running" /\ starting = Pool /\ t \in WithoutTask
  /\ tasks[t] < 2 /\ tasks' = [tasks EXCEPT ![t] = @ + 1]
  /\ starting' = t
  /\ UNCHANGED <<serverVars, watchVars, bookVars, tenants, mapped, told, lifeVars,
                 clusterVars, faults>>

\* Only then it stores the entry, through which alone the task can be told to end.
StoreTask ==
  /\ starting # Pool
  /\ mapped' = mapped \cup {starting} /\ starting' = Pool
  /\ UNCHANGED <<serverVars, watchVars, bookVars, tenants, tasks, told, lifeVars,
                 clusterVars, faults>>

\* Mutant: the tasks are not told to end.
NobodyTold == told

\* Mutant: the tenants are told, and not the entries of the map.
TenantsTold == tenants

\* The entries of analyzeTaskMap are told to end.
AllTold == mapped

LoopBegins(l) ==
  /\ loops[l] = "new"
  /\ loops' = [loops EXCEPT ![l] = "running"]
  /\ UNCHANGED <<serverVars, watchVars, bookVars, taskVars, phase, shutdown, stopper,
                 watcher, clusterVars, faults>>

LoopEnds(l) ==
  /\ loops[l] = "running" /\ shutdown
  /\ l = "manage" => starting = Pool
  /\ loops' = [loops EXCEPT ![l] = "ended"]
  /\ told' = IF l = "manage" THEN AllTold ELSE told
  /\ UNCHANGED <<serverVars, watchVars, bookVars, tenants, tasks, starting, mapped,
                 phase, shutdown, stopper, watcher, clusterVars, faults>>

TaskEnds(t) ==
  /\ t \in told
  /\ tasks' = [tasks EXCEPT ![t] = @ - 1]
  /\ mapped' = mapped \ {t} /\ told' = told \ {t}
  /\ UNCHANGED <<serverVars, watchVars, bookVars, tenants, starting, lifeVars,
                 clusterVars, faults>>

-----------------------------------------------------------------------------
(* A pod of the pool is assigned to a tenant, and given back.  The reply   *)
(* of the call may be lost after it took effect: the undo list then puts   *)
(* the pod back where it came from.  A call that fails without effect      *)
(* changes nothing here.                                                   *)

\* A supervisor that serves another tenant already rejects the call, and the
\* pod goes to that tenant.
Lend(p, t) ==
  /\ phase = "up" /\ t \in tenants
  /\ Answers(p) /\ lent[p] = Pool
  /\ sup' = [sup EXCEPT ![p] = IF @ = Pool THEN t ELSE @]
  /\ \/ /\ Corrected(p, sup'[p])
        /\ astray' = astray \ {p}
        /\ UNCHANGED faults
     \/ /\ sup[p] = Pool /\ Fault
        /\ UNCHANGED <<lent, tenants>>
        /\ astray' = astray \cup {p}
  /\ UNCHANGED <<serverVars, watchVars, toScan, tasks, starting, mapped, told,
                 lifeVars, cloneSet>>

GiveBack(p) ==
  /\ phase = "up"
  /\ Answers(p) /\ lent[p] # Pool
  /\ sup' = [sup EXCEPT ![p] = IF @ = lent[p] THEN Pool ELSE @]
  /\ \/ /\ Corrected(p, sup'[p])
        /\ UNCHANGED faults
     \/ /\ sup[p] = lent[p] /\ Fault
        /\ UNCHANGED <<lent, tenants>>
  /\ UNCHANGED <<serverVars, watchVars, toScan, astray, tasks, starting, mapped,
                 told, lifeVars, cloneSet>>

-----------------------------------------------------------------------------
(* Shutdown                                                                *)

Shutdown ==
  /\ phase = "up" /\ ~shutdown
  /\ shutdown' = TRUE /\ stopper' = "stop"
  /\ UNCHANGED <<serverVars, watchVars, bookVars, taskVars, phase, loops, watcher,
                 clusterVars, faults>>

\* c.watcher.Stop() under watchMu.  A watcher that was replaced or is about to
\* be is not the one the loop will read from.
StopWatcher ==
  /\ stopper = "stop"
  /\ \/ /\ watcher = "nil"
        /\ Lost
     \/ /\ watcher # "nil"
        /\ channel' = IF watcher = "current" THEN "closed" ELSE channel
        /\ stopper' = "wait"
        /\ UNCHANGED <<wpc, rv, listed, known, bookVars, taskVars, phase,
                       loops, shutdown, watcher>>
  /\ UNCHANGED <<serverVars, clusterVars, faults>>

Counted == {l \in Loops : loops[l] = "running"}

WaitReturns ==
  /\ stopper = "wait"
  /\ wpc = "off" /\ Counted = {}
  /\ stopper' = "returned"
  /\ UNCHANGED <<serverVars, watchVars, bookVars, taskVars, phase, loops, shutdown,
                 watcher, clusterVars, faults>>

-----------------------------------------------------------------------------
(* The cluster                                                             *)

\* A pod is created by Kruise for the CloneSet, gets its IP, or is deleted.
PodChanges(p) ==
  /\ \E life \in Lives :
       /\ PodEvent(p, life)
       /\ life # "dead" => cloneSet # "none"
       /\ sup' = IF life = "dead" THEN [sup EXCEPT ![p] = Pool] ELSE sup
  /\ UNCHANGED <<watchVars, bookVars, taskVars, lifeVars, cloneSet, faults>>

ServerCompacts ==
  /\ Compact
  /\ UNCHANGED <<watchVars, bookVars, taskVars, lifeVars, clusterVars, faults>>

ServerEndsWatch ==
  /\ EndWatch
  /\ UNCHANGED <<serverVars, bookVars, taskVars, lifeVars, clusterVars, faults>>

-----------------------------------------------------------------------------
StartUp ==
  \/ Start \/ DeleteCloneSet \/ createCloneSet \/ BeginLoad \/ LoadedAtStart
  \/ Ready \/ \E p \in Pods : ScanPod(p)
WatchLoop ==
  \/ ListPods \/ WatchStep \/ InstallWatcher \/ HandleEvent
  \/ LoadedAgain
ManageRound == StoreTask \/ \E t \in Tenants : StartTask(t)
Goroutine(l) == LoopBegins(l) \/ LoopEnds(l)

Next ==
  \/ StartUp \/ WatchLoop \/ NoWatch
  \/ \E l \in Loops : Goroutine(l)
  \/ ManageRound
  \/ \E t \in Tenants : NewTenant(t) \/ TaskEnds(t)
  \/ \E p \in Pods : PodChanges(p) \/ ScanAgain(p) \/ GiveBack(p)
  \/ \E p \in Pods, t \in Tenants : Lend(p, t)
  \/ Shutdown \/ StopWatcher \/ WaitReturns
  \/ Crash \/ Panic
  \/ ServerCompacts \/ ServerEndsWatch

Spec == Init /\ [][Next]_vars

FairSpec ==
  /\ Spec
  /\ WF_vars(StartUp) /\ WF_vars(WatchLoop) /\ WF_vars(ManageRound)
  /\ \A l \in Loops : WF_vars(Goroutine(l))
  /\ \A t \in Tenants : WF_vars(TaskEnds(t))
  /\ WF_vars(StopWatcher) /\ WF_vars(WaitReturns)
  /\ WF_vars(ServerEndsWatch)

-----------------------------------------------------------------------------
(* Properties                                                              *)

\* Every variable keeps its type: a state of the process is lost as a whole.
TypeOK ==
  /\ WatchTypeOK
  /\ phase \in {"down", "cloneSet", "load", "scan", "up"}
  /\ toScan \subseteq Pods /\ lent \in [Pods -> Owners] /\ astray \subseteq Pods
  /\ tenants \subseteq Tenants /\ tasks \in [Tenants -> Nat]
  /\ starting \in Owners
  /\ mapped \subseteq Tenants \ {starting} /\ told \subseteq mapped
  /\ loops \in [Loops -> {"none", "new", "running", "ended"}]
  /\ shutdown \in BOOLEAN /\ stopper \in {"none", "stop", "wait", "returned"}
  /\ watcher \in {"nil", "old", "current"}
  /\ cloneSet \in {"none", "old", "current"} /\ sup \in [Pods -> Owners]
  /\ faults \in 0..MaxFaults

\* A pod that serves a tenant is listed by that tenant, across crashes and lost
\* replies: what an earlier process lent is found by the list or a later event and
\* by the scan at start-up (cluster.go, initK8sComponents).  The exception is what
\* the code knowingly lets slip: a pod whose call at start-up failed, or whose
\* assignment took effect and lost its reply, is in the pool until a call is
\* rejected by its supervisor or the process starts over; even then no other
\* tenant lists it.  A call is one step with its reply, so that a pod in flight,
\* which neither lists, does not occur here.
ServingPodsFound ==
  phase = "up" =>
    \A p \in Pods : sup[p] # Pool =>
      /\ known[p] = "running"
      /\ lent[p] = IF p \in astray THEN Pool ELSE sup[p]

\* At most one analyzeTaskLoop works for a tenant, and analyzeTaskMap knows it
\* until it ends, or the round that started it is about to store its entry
\* (cluster.go, manageAnalyzeTasks): two would both resize the tenant.
OneTask ==
  \A t \in Tenants : tasks[t] = IF t \in mapped \cup {starting} THEN 1 ELSE 0

\* If the process is not shut down, then it eventually knows the pods of the
\* cluster as they are, though watches fail, expire and end, and processes crash
\* (cluster.go, watchPodsLoop and loadPods).
CatchesUp ==
  []~shutdown => <>[](\A p \in Pods : known[p] = Seen(history[Revision][p]))

\* A tenant, from a request or from the scan at start-up, is eventually analyzed,
\* unless the process dies or is shut down (cluster.go, manageAnalyzeTasks).
TenantAnalyzed ==
  \A t \in Tenants : t \in tenants ~> (tasks[t] > 0 \/ t \notin tenants \/ shutdown)

\* A call of Shutdown returns, unless the process dies of it, whichever watcher
\* it finds to stop, and although watchPodsLoop may be about to install another
\* (cluster.go, Shutdown and watchPodsLoop).
ShutdownEnds == shutdown ~> (stopper = "returned" \/ ~shutdown)

\* After Shutdown the analysis of every tenant ends, that of a task that was made
\* by the last round included (cluster.go, manageAnalyzeTasks).
TasksEnd ==
  shutdown ~> ((\A t \in Tenants : tasks[t] = 0) \/ ~shutdown)
=============================================================================
