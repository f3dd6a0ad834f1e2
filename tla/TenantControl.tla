--------------------------- MODULE TenantControl ---------------------------
(***************************************************************************)
(* The control loop of one tenant: its analysis task                       *)
(* (autoscale/cluster.go), the resume requests of its TiDB and the pause   *)
(* requests (autoscale/http_server.go, rpc_server.go), and the pods they   *)
(* add and remove (autoscale/meta.go).                                     *)
(*                                                                         *)
(* Pods are counted, not named: which pod a call is for, and what a pod    *)
(* that answers with an error does to the books, and the corrections of a  *)
(* scan, which resume the tenant they find, are AutoScaleMeta's.  The      *)
(* measurements are one window, an average of the tenant's pods taken by   *)
(* Collect; how points are kept is PodMetrics'.  The pool that is asked    *)
(* for warmed pods is refilled by Refill; how is PrewarmPool's.            *)
(*                                                                         *)
(* Each step touches the shared state (pods, state, window, latest) once.  *)
(***************************************************************************)
EXTENDS ScaleRule, FiniteSets

CONSTANTS
  Confs,      \* the configurations the tenant is given, each a record of ScaleRule
  Registered, \* the one of a tenant that is registered without a holder
  Loads,      \* the cores its queries may ask for
  Threads,    \* bound: the pauses and resumes at work at one time
  Pods,       \* bound: the pods of the cluster
  PoolSize,   \* the warmed pods the pool is refilled to
  MaxEvents   \* bound: the events from outside, calls that fail among them

ASSUME ControlAssumption ==
  /\ Pods \in Nat /\ PoolSize \in 1..Pods /\ MaxEvents \in Nat
  /\ IsFiniteSet(Threads)
  /\ Loads \subseteq Nat /\ 0 \in Loads
  /\ Registered \in Confs
  /\ \A c \in Confs :
       /\ c.min \in Nat \ {0} /\ c.max \in Nat /\ c.min <= c.max
       /\ c.init \in Nat /\ c.lower \in Nat /\ c.upper \in Nat

VARIABLES
  state,    \* of the tenant
  cnt,      \* its pods
  free,     \* the warmed pods
  held,     \* whether the tenant has a holder of its configuration
  latest,   \* the configuration in its holder, its own if it has none
  changed,  \* whether latest is of a later time than conf
  conf,     \* its own copy of it
  load,     \* the cores the queries ask for
  window,   \* the last measurements
  job,      \* the resizes at work, the task's own in job[Task]
  pc,       \* the step of the task's round
  seen,     \* the pods it counted
  best,     \* the pods it decided on
  client,   \* the step of the request of TiDB
  events    \* the events so far

books == <<state, cnt, free>>
given == <<held, latest, load, events>>
task == <<changed, conf, pc, seen, best>>
vars == <<state, cnt, free, held, latest, changed, conf, load, window, job, pc, seen,
          best, client, events>>

States == {"resumed", "resuming", "paused", "pausing"}
Task == "task"
NoJob == [step |-> "none"]
NoWindow == [ready |-> FALSE, total |-> 0, pods |-> 0]

\* A request comes by HTTP or gRPC.  It asks for a resume, and then waits for a
\* topology.  The answer says "resume failed" when its last resume has failed.
Protocols == {"http", "grpc"}
NoRequest == [step |-> "idle"]
Asking(via) == [step |-> "asking", via |-> via]
Blocked(via) == [step |-> "blocked", via |-> via]
Waiting(via, failed) == [step |-> "waiting", via |-> via, failed |-> failed]
Requests ==
  {NoRequest} \cup [step : {"asking", "blocked"}, via : Protocols]
  \cup [step : {"waiting"}, via : Protocols, failed : BOOLEAN]

Init ==
  /\ \/ state = "paused" /\ cnt = 0
     \/ state = "resumed" /\ cnt \in 0..(Pods - PoolSize)
  /\ free = PoolSize
  /\ held \in BOOLEAN /\ latest \in Confs /\ (held \/ latest = Registered)
  /\ changed = FALSE /\ conf = latest /\ load = 0
  /\ window = NoWindow
  /\ job = [t \in Threads \cup {Task} |-> NoJob]
  /\ pc = "idle" /\ seen = 0 /\ best = 0
  /\ client = NoRequest /\ events = 0

----------------------------------------------------------------------------
(* Pauses, resumes and resizes. *)

HasThread == \E t \in Threads : job[t] = NoJob
FreeThread == CHOOSE t \in Threads : job[t] = NoJob

\* A goroutine, or a call of the task, that is to add or remove n pods.  One
\* that pauses or resumes the tenant is whole; by waits for it to end.
Resizing(op, whole, n, by) ==
  [step |-> "start", op |-> op, whole |-> whole, n |-> n, undo |-> 0, by |-> by]

SyncStatePausing == state = "resumed"

\* The one who starts a pause does not wait for it.
AsyncPause ==
  IF SyncStatePausing
  THEN /\ HasThread /\ state' = "pausing"
       /\ job' = [job EXCEPT ![FreeThread] = Resizing("remove", TRUE, 0, "nobody")]
  ELSE UNCHANGED <<state, job>>

\* Resume waits for the pods; it fails at once when the tenant is not paused, also
\* when it is resumed already.
Resume(by) ==
  /\ HasThread
  /\ state = "paused"
  /\ state' = "resuming"
  /\ job' = [job EXCEPT ![FreeThread] = Resizing("add", TRUE, InitCntOfPod(conf), by)]

\* Who waits for a job goes on when it ends, and learns whether it was refused.
Ended(t, refused) ==
  /\ job' = [job EXCEPT ![t] = NoJob]
  /\ pc' = IF job[t].by = Task THEN "idle" ELSE pc
  /\ client' =
       IF job[t].by = "client" THEN Waiting(client.via, refused) ELSE client

\* The state a job needs to find when it starts.
StateFor(j) ==
  IF ~j.whole THEN "resumed" ELSE IF j.op = "add" THEN "resuming" ELSE "pausing"

\* Mutant: the removal counts pods the tenant no longer has.
PoppedUnchecked(j) == IF j.whole THEN cnt ELSE j.n

\* The pods a removal takes from the tenant; a pause takes all of them.
Popped(j) == IF j.whole THEN cnt ELSE Smaller(j.n, cnt)

Refused(t) ==
  /\ job[t].step = "start" /\ state # StateFor(job[t])
  /\ Ended(t, TRUE)
  /\ UNCHANGED <<books, given, changed, conf, seen, best, window>>

\* addPodIntoTenant and removePodFromTenant up to the calls.
Add(t) ==
  /\ job[t].step = "start" /\ job[t].op = "add" /\ state = StateFor(job[t])
  /\ LET got == Smaller(job[t].n, free)
     IN /\ free' = free - got
        /\ job' = [job EXCEPT ![t].step = "calls", ![t].n = got]
  /\ UNCHANGED <<state, cnt, given, task, window, client>>

Remove(t) ==
  /\ job[t].step = "start" /\ job[t].op = "remove" /\ state = StateFor(job[t])
  /\ LET got == Popped(job[t])
     IN /\ cnt' = cnt - got
        /\ job' = [job EXCEPT ![t].step = "calls", ![t].n = got]
  /\ state' = IF job[t].whole THEN "paused" ELSE state
  /\ UNCHANGED <<free, given, task, window, client>>

\* A call is answered: the pod joins the tenant, without measurements, or the pool.
Done(t) ==
  /\ job[t].step = "calls" /\ job[t].n > 0
  /\ job' = [job EXCEPT ![t].n = @ - 1]
  /\ IF job[t].op = "add"
     THEN cnt' = cnt + 1 /\ window' = NoWindow /\ UNCHANGED free
     ELSE free' = free + 1 /\ UNCHANGED <<cnt, window>>
  /\ UNCHANGED <<state, given, task, client>>

\* A call fails, with no answer: its pod is put back in the end.
Failed(t) ==
  /\ job[t].step = "calls" /\ job[t].n > 0
  /\ events < MaxEvents /\ events' = events + 1
  /\ job' = [job EXCEPT ![t].n = @ - 1, ![t].undo = @ + 1]
  /\ UNCHANGED <<books, held, latest, load, task, window, client>>


\* What a resize leaves of the state: a resume ends, however many pods came.
StateAfter(j) ==
  IF j.op = "add" /\ j.whole /\ state = "resuming" THEN "resumed" ELSE state

EndOfCalls(t) ==
  /\ job[t].step = "calls" /\ job[t].n = 0
  /\ state' = StateAfter(job[t])
  /\ IF job[t].op = "add"
     THEN free' = free + job[t].undo /\ UNCHANGED cnt
     ELSE cnt' = cnt + job[t].undo /\ UNCHANGED free
  /\ Ended(t, FALSE)
  /\ UNCHANGED <<given, changed, conf, seen, best, window>>

Job(t) ==
  \/ Refused(t)
  \/ Add(t)
  \/ Remove(t)
  \/ Done(t)
  \/ Failed(t)
  \/ EndOfCalls(t)

----------------------------------------------------------------------------
(* The task's round. *)

\* Mutant: the copy the task was made with is never renewed.
NotReloaded == conf

\* TryToReloadConf: a tenant without a holder keeps what it was registered with.
Reloaded == IF held /\ changed THEN latest ELSE conf

\* Mutant: pods that came back to a paused tenant are not noticed.
AlwaysCorrect == TRUE

\* IsStateCorrect: a paused tenant has no pods.
IsStateCorrect == ~(state = "paused" /\ cnt > 0)

Disabled ==
  /\ pc = "idle" /\ Reloaded.disabled
  /\ conf' = Reloaded /\ changed' = FALSE
  /\ AsyncPause
  /\ UNCHANGED <<cnt, free, given, pc, seen, best, window, client>>

Round ==
  /\ pc = "idle" /\ ~Reloaded.disabled
  /\ conf' = Reloaded /\ changed' = FALSE
  /\ pc' = IF ~IsStateCorrect THEN "repair"
           ELSE IF state = "resumed" THEN "measure" ELSE "idle"
  /\ UNCHANGED <<books, given, seen, best, window, job, client>>

\* The pods of a paused tenant: it is resumed, and paused again when it is idle.
Repair ==
  /\ pc = "repair"
  /\ IF state = "paused"
     THEN Resume(Task) /\ pc' = "blocked"
     ELSE pc' = "idle" /\ UNCHANGED <<state, job>>
  /\ UNCHANGED <<cnt, free, given, changed, conf, seen, best, window, client>>

\* The measurements of every pod reach back far enough.
Measured == window.ready /\ cnt > 0

Measure ==
  /\ pc = "measure"
  /\ pc' = IF conf.autoPause /\ Measured /\ window.total = 0 THEN "pause" ELSE "count"
  /\ UNCHANGED <<books, given, changed, conf, seen, best, window, job, client>>

\* The round goes on after it started the pause.
AutoPause ==
  /\ pc = "pause"
  /\ AsyncPause
  /\ pc' = "count"
  /\ UNCHANGED <<cnt, free, given, changed, conf, seen, best, window, client>>

\* Mutant: no pods are added before the tenant is measured.
TooFewMeasured == cnt < MinCntOfPod(conf) /\ Measured

\* The tenant is short of pods.
TooFew == cnt < MinCntOfPod(conf)

Count ==
  /\ pc = "count"
  /\ seen' = cnt
  /\ IF TooFew
     THEN best' = InitCntOfPod(conf) /\ pc' = "resize"
     ELSE pc' = "decide" /\ UNCHANGED best
  /\ UNCHANGED <<books, given, changed, conf, window, job, client>>

\* The rule counts the pods again.
Decide ==
  /\ pc = "decide"
  /\ LET n == ComputeBestPodsInRuleOfCompute(window, cnt, conf)
     IN IF Measured /\ n # NoChange /\ n # seen
        THEN best' = n /\ pc' = "resize"
        ELSE pc' = "idle" /\ UNCHANGED best
  /\ UNCHANGED <<books, given, changed, conf, seen, window, job, client>>

\* From the pods that were counted, not from those there are now.
ResizePodsOfTenant ==
  /\ pc = "resize"
  /\ pc' = IF best = seen THEN "idle" ELSE "blocked"
  /\ job' = [job EXCEPT ![Task] =
       IF best > seen THEN Resizing("add", FALSE, best - seen, Task)
       ELSE IF best < seen THEN Resizing("remove", FALSE, seen - best, Task)
       ELSE NoJob]
  /\ UNCHANGED <<books, given, changed, conf, seen, best, window, client>>

TaskStep ==
  \/ Disabled
  \/ Round
  \/ Repair
  \/ Measure
  \/ AutoPause
  \/ Count
  \/ Decide
  \/ ResizePodsOfTenant

----------------------------------------------------------------------------
(* The request of TiDB: resume, and wait for a topology. *)

\* A tenant that is not paused is left as it is, also one that is being paused.
ClientResume ==
  /\ client.step = "asking"
  /\ IF state = "paused"
     THEN Resume("client") /\ client' = Blocked(client.via)
     ELSE client' = Waiting(client.via, TRUE) /\ UNCHANGED <<state, job>>
  /\ UNCHANGED <<cnt, free, given, task, window>>

\* Served, whether or not the answer says "resume failed".
ClientTopology ==
  /\ client.step = "waiting" /\ cnt > 0
  /\ client' = NoRequest
  /\ UNCHANGED <<books, given, task, window, job>>

\* The HTTP handler resumes the tenant again, the gRPC handler only polls.
ResumesAgain(via) == via = "http"

ClientRetry ==
  /\ client.step = "waiting" /\ cnt = 0 /\ ResumesAgain(client.via)
  /\ client' = Asking(client.via)
  /\ UNCHANGED <<books, given, task, window, job>>

\* With or without a topology: the gRPC handler counts the time of the resume too.
ClientTimeout ==
  /\ client.step = "waiting"
  /\ client' = NoRequest
  /\ UNCHANGED <<books, given, task, window, job>>

----------------------------------------------------------------------------
(* The surroundings. *)

\* Measurements of a whole window, at the load of the moment.
Collect ==
  /\ cnt > 0
  /\ window' = [ready |-> TRUE, total |-> Smaller(load, CoreOfPod * cnt), pods |-> cnt]
  /\ UNCHANGED <<books, given, task, job, client>>

PodsOf(t) == IF job[t].step = "calls" THEN job[t].n + job[t].undo ELSE 0

\* The pods in the hands of the resizes, one by one.
InFlight == {h \in (Threads \cup {Task}) \X (1..Pods) : h[2] <= PodsOf(h[1])}

AllPods == cnt + free + Cardinality(InFlight)

Refill ==
  /\ free < PoolSize /\ AllPods < Pods
  /\ free' = free + 1
  /\ UNCHANGED <<state, cnt, given, task, window, job, client>>

Event == events < MaxEvents /\ events' = events + 1

ChangeLoad ==
  /\ Event
  /\ load' \in Loads \ {load}
  /\ UNCHANGED <<books, held, latest, task, window, job, client>>

\* Nothing in the repository writes the holder; whoever does is taken to give what
\* it writes a later time than before.
ChangeConf ==
  /\ Event
  /\ held
  /\ latest' \in Confs \ {latest}
  /\ changed' = TRUE
  /\ UNCHANGED <<books, held, load, conf, pc, seen, best, window, job, client>>

PodDeleted ==
  /\ Event
  /\ cnt > 0 /\ cnt' = cnt - 1
  /\ UNCHANGED <<state, free, held, latest, load, task, window, job, client>>

HttpPause ==
  /\ Event
  /\ AsyncPause
  /\ UNCHANGED <<cnt, free, held, latest, load, task, window, client>>

Ask ==
  /\ Event
  /\ client = NoRequest
  /\ \E via \in Protocols : client' = Asking(via)
  /\ UNCHANGED <<books, held, latest, load, task, window, job>>

Next ==
  \/ TaskStep
  \/ \E t \in Threads \cup {Task} : Job(t)
  \/ ClientResume
  \/ ClientTopology
  \/ ClientRetry
  \/ ClientTimeout
  \/ Collect
  \/ Refill
  \/ ChangeLoad
  \/ ChangeConf
  \/ PodDeleted
  \/ HttpPause
  \/ Ask

\* The task, the resizes, the measurements and the pool go on.  A request that
\* polls every few milliseconds sees pods that come and go with the rounds.
Fairness ==
  /\ WF_vars(TaskStep)
  /\ \A t \in Threads \cup {Task} : WF_vars(Job(t))
  /\ WF_vars(ClientResume \/ ClientRetry) /\ SF_vars(ClientTopology)
  /\ WF_vars(Collect)
  /\ WF_vars(Refill)

Spec == Init /\ [][Next]_vars /\ Fairness

-----------------------------------------------------------------------------
(* Properties                                                              *)

Jobs ==
  [step : {"start", "calls"}, op : {"add", "remove"}, whole : BOOLEAN,
   n : Nat, undo : Nat, by : {"task", "client", "nobody"}]

\* The types of the variables; no more pods than the cluster has.
TypeOK ==
  /\ state \in States /\ cnt \in 0..Pods /\ free \in 0..Pods /\ AllPods <= Pods
  /\ latest \in Confs /\ conf \in Confs /\ load \in Loads
  /\ held \in BOOLEAN /\ changed \in BOOLEAN
  /\ window \in [ready : BOOLEAN, total : Nat, pods : 0..Pods]
  /\ job \in [Threads \cup {Task} -> Jobs \cup {NoJob}]
  /\ \A t \in Threads \cup {Task} : PodsOf(t) <= Pods
  /\ pc \in {"idle", "repair", "measure", "pause", "count", "decide", "resize", "blocked"}
  /\ seen \in 0..Pods /\ best \in Nat
  /\ client \in Requests /\ events \in 0..MaxEvents

Idle == load = 0 /\ client = NoRequest /\ latest.autoPause /\ ~latest.disabled

\* A tenant that stays idle with auto-pause on ends up paused and without pods:
\* also when a removal failed and its pods came back to the paused tenant.
IdleTenantPaused == <>[]Idle => <>[](state = "paused" /\ cnt = 0)

\* A tenant that is disabled, and that nobody resumes, ends up paused
\* (config.go: the target state of a disabled tenant), whatever it was doing.
DisabledTenantPaused ==
  <>[](latest.disabled /\ client = NoRequest) => <>[](state = "paused")

\* A resumed tenant does not stay without pods: a resume that found no warmed
\* pod and a deletion of the last pod are made good.
ResumedTenantServed ==
  (state = "resumed" /\ cnt = 0) ~> (cnt > 0 \/ state # "resumed")


\* A round never decides on pods outside the limits of the configuration, unless
\* the tenant is outside already, for pods were deleted or the limits changed: then
\* it may stay where it is or come nearer, and not go further.
DecisionWithinLimits ==
  [][pc # "resize" /\ pc' = "resize" =>
       best' \in Smaller(cnt, MinCntOfPod(conf))..Larger(cnt, MaxCntOfPod(conf))]_vars

\* Sizes so small that one pod more or less takes the usage across both thresholds.
TooCoarse(m, n, c) ==
  m - n \in {1, -1} /\ c.lower * Larger(m, n) > c.upper * Smaller(m, n)

\* A resize is not taken back at the same load: the rule, asked again about the
\* pods it decided on, does not go the other way.
NoReversal ==
  [][pc = "decide" /\ pc' = "resize" /\ seen = cnt /\ ~TooCoarse(seen, best', conf) =>
       LET again == ComputeBestPodsInRuleOfCompute(
                      [window EXCEPT !.total = @ * seen, !.pods = @ * best'], best', conf)
       IN again # NoChange => (again - best') * (best' - seen) >= 0]_vars
=============================================================================
