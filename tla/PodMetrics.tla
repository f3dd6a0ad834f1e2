----------------------------- MODULE PodMetrics -----------------------------
(***************************************************************************)
(* The metrics of pods (autoscale/timeseries.go and collectMetricsLoop of  *)
(* autoscale/cluster.go).  A collector queries the latest sample of every  *)
(* pod, then looks up the tenant of each pod and inserts the sample into   *)
(* the pod's series, a sliding window with running statistics from which   *)
(* the tenant is paused and scaled.  Pods change tenants in the meantime,  *)
(* and the series of a pod is dropped when it does.  A process that starts *)
(* over rebuilds the series from what Prometheus still has.                *)
(*                                                                         *)
(* A sample is its time and the tenant the pod worked for; its value is a  *)
(* function of its time.  The statistics are kept as the code keeps them,  *)
(* by adding and subtracting values.  Mutants are plausible bugs in the    *)
(* definition after them; the specification does not use them.             *)
(***************************************************************************)
EXTENDS Integers, Sequences, SequencesExt

CONSTANTS
  Tenants,     \* names of tenants
  Pods,        \* names of pods
  Idle,        \* the tenant "": none
  NoSeries,    \* the pod has no entry in the map of series
  Topic,       \* "cpu" or "taskcnt", the series that is collected
  Intervals,   \* values of the interval a tenant may have configured
  Resolution,  \* MetricResolutionSeconds
  Reach,       \* seconds that the query at start-up reaches back
  MaxTime,     \* bound: the clock stops here
  MaxRestarts  \* bound: restarts of the process

ASSUME IdleAssumption == Idle \notin Tenants
ASSUME TopicAssumption == Topic \in {"cpu", "taskcnt"}
ASSUME TimeAssumption ==
  /\ Intervals \subseteq Nat /\ Resolution \in Nat \ {0} /\ Reach \in Nat \ {0}
  /\ MaxTime \in Nat \ {0} /\ MaxRestarts \in Nat

VARIABLES
  now,         \* clock, in seconds
  interval,    \* tenant -> scale or auto-pause interval of its conf
  tenantName,  \* pod -> PodDesc.tenantName
  changing,    \* pod -> the call in flight for it: "no", "assign", "unassign"
  caller,      \* pod -> the tenant whose resize made that call, else Idle
  serving,     \* external: pod -> tenant its supervisor serves
  startTime,   \* external: pod -> when that tenant was assigned, 0 without one
  samples,     \* external: pod -> the samples Prometheus has, the latest last
  todo,        \* pods of metricOfPods the collector has not handled yet
  fetched,     \* pod -> its sample in metricOfPods until handled, or <<>>
  cur,         \* the insert the collector is about to make, or <<>>
  series,      \* pod -> its SimpleTimeSeries, or NoSeries
  mixed,       \* history: pods whose supervisor left its tenant, or got one, in
               \* a way that does not reset the series, and no reset since
  restarts     \* the restarts so far

envVars == <<now, interval, serving, startTime, samples, restarts>>
resizeVars == <<tenantName, changing, caller>>
collectVars == <<todo, fetched, cur>>
vars == <<envVars, resizeVars, collectVars, series, mixed>>

-----------------------------------------------------------------------------
(* SimpleTimeSeries                                                        *)

Points == [time : Nat, who : Tenants \cup {Idle}]

TimeSeries == [pts : Seq(Points), maxTime : Nat, cnt : Nat, sum : Nat,
               intervalSec : Intervals, cap : Nat \ {0}]

ASSUME SeriesAssumption == NoSeries \notin TimeSeries

Reading(time) == time

\* Mutant: a short interval leaves no room.
Quotient(sec) == sec \div Resolution

\* computeSeriesCapBasedOnIntervalSec
CapOf(sec) == IF sec \div Resolution > 1 THEN sec \div Resolution ELSE 1

New(sec) ==
  [pts |-> <<>>, maxTime |-> 0, cnt |-> 0, sum |-> 0,
   intervalSec |-> sec, cap |-> CapOf(sec)]

\* Mutant: the capacity keeps its old value.
IntervalOnly(s, sec) == [s EXCEPT !.intervalSec = sec]

ReloadCfg(s, sec) == [s EXCEPT !.intervalSec = sec, !.cap = CapOf(sec)]

\* How many points append evicts from the front of pts: it stops at the first
\* point that fits in the capacity and in the interval.
Evicted(pts, cap, sec) ==
  LET fits(k) == /\ Len(pts) - k <= cap
                 /\ k < Len(pts) => pts[k + 1].time > Last(pts).time - sec
  IN CHOOSE k \in 0..Len(pts) :
       fits(k) /\ \A j \in 0..(k - 1) : ~fits(j)

SumOf(pts) ==
  LET total[i \in 0..Len(pts)] ==
        IF i = 0 THEN 0 ELSE total[i - 1] + Reading(pts[i].time)
  IN total[Len(pts)]

\* Mutant: an evicted point is not subtracted.
NothingSubtracted(pts, k) == 0

SubtractedSum(pts, k) == SumOf(SubSeq(pts, 1, k))

AppendPoint(s, x) ==
  LET pts == Append(s.pts, x)
      k == Evicted(pts, s.cap, s.intervalSec)
  IN [s EXCEPT !.pts = SubSeq(pts, k + 1, Len(pts)),
               !.maxTime = IF @ > x.time THEN @ ELSE x.time,
               !.cnt = @ + 1 - k,
               !.sum = @ + Reading(x.time) - SubtractedSum(pts, k)]

\* commonInsertWithUserCfg: only a point with a larger time is inserted.
Insert(s, x, sec) ==
  LET t == IF s = NoSeries THEN New(sec)
           ELSE IF s.intervalSec # sec THEN ReloadCfg(s, sec) ELSE s
  IN IF x.time > t.maxTime THEN AppendPoint(t, x) ELSE t

-----------------------------------------------------------------------------
Init ==
  /\ now = 1
  /\ interval \in [Tenants -> Intervals]
  /\ tenantName = [p \in Pods |-> Idle] /\ serving = tenantName
  /\ changing = [p \in Pods |-> "no"] /\ caller = tenantName
  /\ startTime = [p \in Pods |-> 0]
  /\ samples = [p \in Pods |-> <<>>]
  /\ todo = {} /\ fetched = samples /\ cur = <<>>
  /\ series = [p \in Pods |-> NoSeries]
  /\ mixed = {} /\ restarts = 0

-----------------------------------------------------------------------------
(* The environment                                                         *)

Tick ==
  /\ now < MaxTime
  /\ now' = now + 1
  /\ UNCHANGED <<interval, serving, startTime, samples, restarts, resizeVars,
                 collectVars, series, mixed>>

\* The points of xs, which are in the order of time, from the given time on.
From(xs, time) ==
  LET older == CHOOSE k \in 0..Len(xs) :
                 \A i \in 1..Len(xs) : xs[i].time < time <=> i <= k
  IN SubSeq(xs, older + 1, Len(xs))

\* The samples of a pod that a query may still return.
InRange(p) == From(samples[p], now - Reach + 1)

\* Prometheus scrapes the pod, at most once a second.
Scrape(p) ==
  /\ samples[p] # <<>> => Last(samples[p]).time < now
  /\ samples' = [samples EXCEPT
                   ![p] = Append(InRange(p), [time |-> now, who |-> serving[p]])]
  /\ UNCHANGED <<now, interval, serving, startTime, restarts, resizeVars,
                 collectVars, series, mixed>>

\* TryToReloadConf of a tenant.
ReloadConf(t) ==
  /\ interval' \in {[interval EXCEPT ![t] = sec] : sec \in Intervals}
  /\ UNCHANGED <<now, serving, startTime, samples, restarts, resizeVars,
                 collectVars, series, mixed>>

-----------------------------------------------------------------------------
(* The resizes, as far as they touch the metrics of a pod                  *)

\* Mutant: the series stays.
Kept(p) == series

ResetMetricsOfPod(p) == [series EXCEPT ![p] = NoSeries]

\* The resize of tenant t has the pod until the reply of its call is handled.
Calls(p, kind, t) ==
  /\ changing[p] = "no"
  /\ changing' = [changing EXCEPT ![p] = kind]
  /\ caller' = [caller EXCEPT ![p] = t]

\* The reply of the call is handled, and the pod is one of tenant t or the pool.
Done(p, kind, t) ==
  /\ changing[p] = kind
  /\ changing' = [changing EXCEPT ![p] = "no"]
  /\ caller' = [caller EXCEPT ![p] = Idle]
  /\ tenantName' = [tenantName EXCEPT ![p] = t]

\* The supervisor gets rid of its tenant.
SupIdle(p) ==
  /\ serving' = [serving EXCEPT ![p] = Idle]
  /\ startTime' = [startTime EXCEPT ![p] = 0]

\* A pod of the pool is popped for tenant t and its supervisor, which is idle or
\* serves t already, accepts the assign.
SupAssign(p, t) ==
  /\ tenantName[p] = Idle /\ serving[p] \in {Idle, t}
  /\ Calls(p, "assign", t)
  /\ serving' = [serving EXCEPT ![p] = t]
  /\ startTime' = [startTime EXCEPT ![p] = IF serving[p] = t THEN @ ELSE now]
  /\ UNCHANGED <<now, interval, samples, restarts, tenantName, collectVars, series,
                 mixed>>

AssignOk(p) ==
  /\ Done(p, "assign", caller[p])
  /\ series' = ResetMetricsOfPod(p)
  /\ mixed' = IF serving[p] = caller[p] THEN mixed \ {p} ELSE mixed
  /\ UNCHANGED <<envVars, collectVars>>

\* The reply is lost: the pod is put back into the pool and serves the tenant.
AssignLost(p) ==
  /\ Done(p, "assign", Idle)
  /\ mixed' = mixed \cup {p}
  /\ UNCHANGED <<envVars, collectVars, series>>

\* Its supervisor rejects the assign to another tenant, and the pod is corrected
\* to the one it reports; its series stays.
AssignRejected(p, t) ==
  /\ tenantName[p] = Idle /\ changing[p] = "no" /\ serving[p] \notin {Idle, t}
  /\ tenantName' = [tenantName EXCEPT ![p] = serving[p]]
  /\ UNCHANGED <<envVars, changing, caller, collectVars, series, mixed>>

\* The pod is popped from its tenant.
PopPod(p) ==
  /\ tenantName[p] # Idle
  /\ Calls(p, "unassign", tenantName[p])
  /\ tenantName' = [tenantName EXCEPT ![p] = Idle]
  /\ UNCHANGED <<envVars, collectVars, series, mixed>>

UnassignOk(p) ==
  /\ Done(p, "unassign", Idle)
  /\ SupIdle(p)
  /\ series' = ResetMetricsOfPod(p)
  /\ mixed' = mixed \ {p}
  /\ UNCHANGED <<now, interval, samples, restarts, collectVars>>

\* The call fails and the pod is put back to its tenant, whether the supervisor
\* did nothing or what it was asked.
UnassignUndone(p) ==
  /\ Done(p, "unassign", caller[p])
  /\ \/ UNCHANGED <<serving, startTime, mixed>>
     \/ serving[p] # Idle /\ SupIdle(p) /\ mixed' = mixed \cup {p}
  /\ UNCHANGED <<now, interval, samples, restarts, collectVars, series>>

\* The supervisor restarts, or ends an unassign after its deadline.
SupRestart(p) ==
  /\ serving[p] # Idle
  /\ SupIdle(p)
  /\ mixed' = mixed \cup {p}
  /\ UNCHANGED <<now, interval, samples, restarts, resizeVars, collectVars, series>>

\* A scan, which passes over the pods of the pool, finds that the supervisor does
\* not serve the pod's tenant; the series stays.
ScanCorrect(p) ==
  /\ tenantName[p] # Idle /\ changing[p] = "no" /\ serving[p] # tenantName[p]
  /\ tenantName' = [tenantName EXCEPT ![p] = serving[p]]
  /\ UNCHANGED <<envVars, changing, caller, collectVars, series, mixed>>

-----------------------------------------------------------------------------
(* One round of collectMetricsLoop                                         *)

Query ==
  /\ todo = {} /\ cur = <<>>
  /\ fetched' = [p \in Pods |-> IF samples[p] = <<>> THEN <<>> ELSE <<Last(samples[p])>>]
  /\ todo' = {p \in Pods : samples[p] # <<>>}
  /\ UNCHANGED <<envVars, resizeVars, cur, series, mixed>>

\* Pods of the pool are skipped, and tenants whose auto-pause is disabled.
Collected(t) == t # Idle /\ (Topic = "taskcnt" => interval[t] # 0)

\* GetTenantInfoOfPod and the interval of the tenant.
LookUp(p) ==
  LET t == tenantName[p]
  IN /\ p \in todo /\ cur = <<>>
     /\ todo' = todo \ {p}
     /\ \/ /\ Collected(t)
           /\ cur' = <<[pod |-> p, sec |-> interval[t]]>>
           /\ UNCHANGED fetched
        \/ /\ ~Collected(t)
           /\ fetched' = [fetched EXCEPT ![p] = <<>>]
           /\ UNCHANGED cur
     /\ UNCHANGED <<envVars, resizeVars, series, mixed>>

InsertWithUserCfg ==
  /\ cur # <<>>
  /\ LET p == cur[1].pod
     IN /\ series' = [series EXCEPT
                        ![p] = Insert(@, fetched[p][1], cur[1].sec)]
        /\ fetched' = [fetched EXCEPT ![p] = <<>>]
  /\ cur' = <<>>
  /\ UNCHANGED <<envVars, resizeVars, todo, mixed>>

-----------------------------------------------------------------------------
(* A restart                                                               *)

\* The samples since the assignment of the pod.
SinceAssign(p) == From(InRange(p), startTime[p])

\* The series after the insertion of the points of xs, one by one.
Filled(xs, sec) ==
  LET after[i \in 0..Len(xs)] ==
        IF i = 0 THEN NoSeries ELSE Insert(after[i - 1], xs[i], sec)
  IN after[Len(xs)]

\* RangeQueryCpu takes over the samples since the assignment.
Restored(p) ==
  IF tenantName'[p] = Idle THEN NoSeries
  ELSE Filled(SinceAssign(p), interval[serving[p]])

\* The process starts over: the scan at start-up finds the tenant of each pod and
\* its start time, but gives up the pods that do not answer; then, before any loop
\* runs, initRangeMetricsFromPromethues fills the series of the cpu usage unless
\* its query fails.
Restart ==
  /\ restarts < MaxRestarts /\ restarts' = restarts + 1
  /\ \E silent \in SUBSET {p \in Pods : serving[p] # Idle} :
       /\ tenantName' = [p \in Pods |-> IF p \in silent THEN Idle ELSE serving[p]]
       /\ mixed' = silent
  /\ changing' = [p \in Pods |-> "no"] /\ caller' = [p \in Pods |-> Idle]
  /\ todo' = {} /\ fetched' = [p \in Pods |-> <<>>] /\ cur' = <<>>
  /\ \/ Topic = "cpu" /\ series' = [p \in Pods |-> Restored(p)]
     \/ series' = [p \in Pods |-> NoSeries]
  /\ UNCHANGED <<now, interval, serving, startTime, samples>>

-----------------------------------------------------------------------------
Next ==
  \/ Tick \/ Query \/ InsertWithUserCfg \/ Restart
  \/ \E t \in Tenants : ReloadConf(t)
  \/ \E p \in Pods :
       \/ Scrape(p) \/ LookUp(p)
       \/ AssignOk(p) \/ AssignLost(p)
       \/ PopPod(p) \/ UnassignOk(p) \/ UnassignUndone(p)
       \/ SupRestart(p) \/ ScanCorrect(p)
       \/ \E t \in Tenants : SupAssign(p, t) \/ AssignRejected(p, t)

Spec == Init /\ [][Next]_vars

-----------------------------------------------------------------------------
(* Properties                                                              *)

\* The types of the variables; every series has room for a point.
TypeOK ==
  /\ now \in 1..MaxTime /\ interval \in [Tenants -> Intervals]
  /\ tenantName \in [Pods -> Tenants \cup {Idle}]
  /\ serving \in [Pods -> Tenants \cup {Idle}]
  /\ changing \in [Pods -> {"no", "assign", "unassign"}]
  /\ caller \in [Pods -> Tenants \cup {Idle}]
  /\ todo \subseteq Pods /\ mixed \subseteq Pods /\ restarts \in 0..MaxRestarts
  /\ startTime \in [Pods -> 0..MaxTime]
  /\ samples \in [Pods -> Seq(Points)] /\ fetched \in [Pods -> Seq(Points)]
  /\ \A p \in todo : fetched[p] # <<>>
  /\ series \in [Pods -> TimeSeries \cup {NoSeries}]
  /\ cur \in Seq([pod : Pods, sec : Intervals])

Live == {p \in Pods : series[p] # NoSeries}

\* The statistics that decide a tenant's pause and scale are those of the
\* points in the window, and the points are in strictly increasing order of
\* time, through evictions, reloads of the interval and resets.
StatisticsMatch ==
  \A p \in Live :
    LET s == series[p]
    IN /\ s.cnt = Len(s.pts) /\ s.sum = SumOf(s.pts)
       /\ \A i \in 2..Len(s.pts) : s.pts[i - 1].time < s.pts[i].time
       /\ s.pts # <<>> => Last(s.pts).time = s.maxTime

\* The last n points of pts, the reference for the capacity of a series.
Suffix(pts, n) ==
  SubSeq(pts, IF Len(pts) > n THEN Len(pts) - n + 1 ELSE 1, Len(pts))

\* The points of pts that a series of interval sec keeps.
Window(pts, sec) == From(Suffix(pts, CapOf(sec)), Last(pts).time - sec + 1)

\* When a point is inserted the series keeps exactly those of the most recent
\* points, as many as the interval asks for, that are inside the interval.
InsertExact ==
  \A p \in Live :
    LET s == series[p]
        n == series'[p]
    IN restarts' = restarts /\ n # NoSeries /\ n.maxTime > s.maxTime =>
         n.pts = Window(Append(s.pts, fetched[p][1]), n.intervalSec)

\* A restart makes it keep those of the samples since the assignment.
RestartExact ==
  restarts' # restarts =>
    \A p \in Live' : series'[p].pts = Window(SinceAssign(p), series'[p].intervalSec)

\* Whenever a point comes in or the series is rebuilt, no old point stays to decide
\* a scaling step and no recent one is thrown away.  Between a reload of the
\* interval and the next point the window is still the one of the old interval.
WindowExact == [][InsertExact /\ RestartExact]_vars

Foreign(p) == {x \in ToSet(series[p].pts) : x.who # tenantName[p]}

\* The reset at an assignment keeps the work of earlier tenants out of the
\* series, except for the two samples that the round of collection in flight
\* and the next one can bring; so does the start time of the assignment when the
\* series is rebuilt at a restart.  Excepted are pods whose supervisor changed its
\* tenant in a way that resets nothing, a lost reply, a restart of the supervisor
\* or a pod given up at start-up, until a reset: samples of other tenants or of
\* none enter their series as long as a scan or a rejected call has not corrected
\* them, and stay after it.
FewForeignSamples ==
  \A p \in Live \ mixed : tenantName[p] # Idle => Cardinality(Foreign(p)) <= 2

\* What timeseries.go:550-551 asks for: the history of other tenants is cut
\* off from the series of a pod.
NoForeignSamples ==
  \A p \in Live \ mixed : tenantName[p] # Idle => Foreign(p) = {}
=============================================================================
