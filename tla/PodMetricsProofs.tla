-------------------------- MODULE PodMetricsProofs --------------------------
(***************************************************************************)
(* The properties of PodMetrics, for any pods, tenants, intervals,         *)
(* resolution, range of the query at start-up, time and restarts.          *)
(*                                                                         *)
(* That at most two samples of other tenants are left in a series needs    *)
(* what is still to come: after the first one, only a sample that has been *)
(* queried already or the last one that Prometheus has of another tenant;  *)
(* after the second, none that is newer than the series.                   *)
(***************************************************************************)
EXTENDS PodMetricsLemmas

-----------------------------------------------------------------------------
(* The inductive invariant                                                 *)

\* The statistics and the order of the points of every series.
Sounds == \A p \in Live : Sound(series[p])

\* Prometheus has the samples of a pod in the order of time, none of the future.
Scraped ==
  \A p \in Pods : Ordered(samples[p]) /\ \A x \in ToSet(samples[p]) : x.time \in 1..now

\* There is a sample for the insertion to come, and its pod is handled.
Asked == cur # <<>> => cur[1].pod \notin todo /\ fetched[cur[1].pod] # <<>>

\* A pod in a resize is nobody's, and the autoscaler knows its tenant, or the
\* tenant that asked for the call in flight, unless the pod is mixed.
Known(p) ==
  /\ changing[p] # "no" => tenantName[p] = Idle
  /\ p \notin mixed =>
       serving[p] = IF changing[p] = "no" THEN tenantName[p] ELSE caller[p]

Resizing == \A p \in Pods : Known(p)

\* Samples of other tenants are not from after the assignment.
Started ==
  \A p \in Pods : serving[p] # Idle =>
    \A x \in ToSet(samples[p]) : x.who # serving[p] => x.time <= startTime[p]

\* The work of other tenants in the series of a pod, and what may come into it.
Others(p) == {x \in ToSet(series[p].pts) : x.who # serving[p]}

Coming(p) ==
  {x \in ToSet(samples[p]) \cup ToSet(fetched[p]) :
     x.who # serving[p] /\ x.time > series[p].maxTime}

Few(p) ==
  \/ Others(p) = {}
  \/ /\ \E a : Others(p) \subseteq {a}
     /\ \A x \in ToSet(fetched[p]) \cap Coming(p), y \in Coming(p) : y.time <= x.time
  \/ /\ \E a, b : Others(p) \subseteq {a, b}
     /\ Coming(p) = {}

AtMostTwo ==
  \A p \in Live \ mixed : serving[p] # Idle /\ changing[p] # "assign" => Few(p)

IInv ==
  /\ TypeOK /\ Sounds /\ Scraped /\ Asked /\ Resizing /\ Started
  /\ AtMostTwo

-----------------------------------------------------------------------------
(* The initial states                                                      *)

LEMMA InitInv == Init => IInv
<1> SUFFICES ASSUME Init PROVE IInv
  OBVIOUS
<1>1. <<>> \in Seq(Points) /\ ToSet(<<>>) = {} /\ Ordered(<<>>)
      /\ <<>> \in Seq([pod : Pods, sec : Intervals])
  BY NoneOfEmpty, EmptySeq
<1>2. TypeOK
  BY <1>1, TimeAssumption DEF Init, TypeOK
<1>3. Live = {}
  BY DEF Init, Live
<1>4. Sounds /\ AtMostTwo
  BY <1>3 DEF Sounds, AtMostTwo
<1>5. Scraped /\ Started
  BY <1>1 DEF Init, Scraped, Started
<1>6. Asked /\ Resizing
  BY DEF Init, Asked, Resizing, Known
<1> QED BY <1>2, <1>4, <1>5, <1>6 DEF IInv

-----------------------------------------------------------------------------
(* The environment                                                         *)

\* Few is kept when nothing more is to come.
LEMMA FewKept ==
  ASSUME NEW p, Few(p), series'[p] = series[p], serving'[p] = serving[p],
         Coming(p)' \subseteq Coming(p), ToSet(fetched'[p]) \subseteq ToSet(fetched[p])
  PROVE  Few(p)'
<1>1. Others(p)' = Others(p)
  BY DEF Others
<1>2. ASSUME \A x \in ToSet(fetched[p]) \cap Coming(p), y \in Coming(p) : y.time <= x.time
      PROVE  \A x \in ToSet(fetched'[p]) \cap Coming(p)', y \in Coming(p)' : y.time <= x.time
  BY <1>2
<1> HIDE DEF Others, Coming
<1> QED BY <1>1, <1>2 DEF Few

\* Nor when the sample that was fetched is used up.
LEMMA FewLess ==
  ASSUME NEW p, Few(p), ToSet(fetched'[p]) = {},
         Others(p)' \subseteq Others(p), Coming(p)' \subseteq Coming(p)
  PROVE  Few(p)'
<1> HIDE DEF Others, Coming
<1>1. CASE Others(p) = {}
  BY <1>1 DEF Few
<1>2. CASE \E a : Others(p) \subseteq {a}
  <2>1. \E a : Others(p)' \subseteq {a}
    BY <1>2
  <2> QED BY <2>1 DEF Few
<1>3. CASE (\E a, b : Others(p) \subseteq {a, b}) /\ Coming(p) = {}
  <2>1. \E a, b : Others(p)' \subseteq {a, b}
    BY <1>3
  <2>2. Coming(p)' = {}
    BY <1>3
  <2> QED BY <2>1, <2>2 DEF Few
<1> QED BY <1>1, <1>2, <1>3 DEF Few

LEMMA TickInv == ASSUME IInv, Tick PROVE IInv'
<1> USE DEF Tick, resizeVars, collectVars
<1>1. TypeOK'
  BY TimeAssumption DEF IInv, TypeOK
<1>2. Sounds' /\ Started' /\ Asked' /\ Resizing'
  BY DEF IInv, Sounds, Live, Started, Asked, Resizing, Known
<1>3. Scraped'
  <2>1. now \in Nat /\ 1..now \subseteq 1..now'
    BY TimeAssumption DEF IInv, TypeOK
  <2> QED BY <2>1 DEF IInv, Scraped
<1>4. AtMostTwo'
  BY DEF IInv, AtMostTwo, Live, Few, Others, Coming
<1> QED BY <1>1, <1>2, <1>3, <1>4 DEF IInv

LEMMA ReloadConfInv == ASSUME IInv, NEW t \in Tenants, ReloadConf(t) PROVE IInv'
<1> USE DEF ReloadConf, resizeVars, collectVars
<1>1. TypeOK'
  BY DEF IInv, TypeOK
<1>2. Sounds' /\ Scraped' /\ Started' /\ Asked' /\ Resizing'
  BY DEF IInv, Sounds, Live, Scraped, Started, Asked, Resizing, Known
<1>3. AtMostTwo'
  BY DEF IInv, AtMostTwo, Live, Few, Others, Coming
<1> QED BY <1>1, <1>2, <1>3 DEF IInv

\* The samples of a pod that are in the range.
LEMMA InRangeType ==
  ASSUME IInv, NEW p \in Pods
  PROVE  /\ InRange(p) \in Seq(Points) /\ Ordered(InRange(p))
         /\ ToSet(InRange(p)) \subseteq ToSet(samples[p])
<1>1. now - Reach + 1 \in Int /\ samples[p] \in Seq(Points) /\ Ordered(samples[p])
  BY TimeAssumption DEF IInv, TypeOK, Scraped
<1> QED BY <1>1, FromType DEF InRange

LEMMA ScrapeInv == ASSUME IInv, NEW p \in Pods, Scrape(p) PROVE IInv'
<1> DEFINE x == [time |-> now, who |-> serving[p]]
           xs == InRange(p)
           ys == Append(xs, x)
<1>0. samples \in [Pods -> Seq(Points)] /\ samples[p] \in Seq(Points) /\ now \in Nat
      /\ now >= 1
  BY DEF IInv, TypeOK
<1>1. x \in Points /\ x.time = now /\ x.who = serving[p]
  BY <1>0 DEF IInv, TypeOK, Points
<1>2. xs \in Seq(Points) /\ Ordered(xs) /\ ToSet(xs) \subseteq ToSet(samples[p])
  BY InRangeType
<1>3. samples' = [samples EXCEPT ![p] = ys]
  BY DEF Scrape
<1> HIDE DEF x, xs
<1>4. xs # <<>> => Last(xs).time < x.time
  <2> SUFFICES ASSUME xs # <<>> PROVE Last(xs).time < x.time
    OBVIOUS
  <2>1. Last(xs) \in ToSet(samples[p])
    BY <1>2, LastIsLatest
  <2>2. samples[p] # <<>>
    BY <2>1, NoneOfEmpty
  <2>3. Last(xs).time <= Last(samples[p]).time
    BY <1>0, <2>1, <2>2, LastIsLatest DEF IInv, Scraped
  <2>4. Last(samples[p]).time < now
    BY <2>2 DEF Scrape
  <2>5. Last(samples[p]).time \in Nat /\ Last(xs).time \in Nat
    BY <1>0, <1>2, <2>2, LastIsLatest, PointType
  <2> QED BY <1>0, <1>1, <2>3, <2>4, <2>5
<1>5. ys \in Seq(Points) /\ Ordered(ys) /\ ToSet(ys) = ToSet(xs) \cup {x}
  BY <1>1, <1>2, <1>4, AppendProperties, AppendOrdered
<1> HIDE DEF ys
<1>6. \A q \in Pods : samples'[q] = IF q = p THEN ys ELSE samples[q]
  BY <1>0, <1>3
<1> USE DEF Scrape, resizeVars, collectVars
<1>7. TypeOK'
  BY <1>0, <1>3, <1>5 DEF IInv, TypeOK
<1>8. Sounds' /\ Asked' /\ Resizing'
  BY DEF IInv, Sounds, Live, Asked, Resizing, Known
<1>9. Scraped'
  BY <1>0, <1>1, <1>2, <1>5, <1>6 DEF IInv, Scraped
<1>10. Started'
  BY <1>1, <1>2, <1>5, <1>6 DEF IInv, Started
<1>11. AtMostTwo'
  <2> SUFFICES ASSUME NEW q \in Live \ mixed, serving[q] # Idle, changing[q] # "assign"
               PROVE  Few(q)'
    BY DEF AtMostTwo, Live
  <2>1. q \in Pods /\ Few(q)
    BY DEF IInv, AtMostTwo, Live
  <2>2. \A y \in ToSet(samples'[q]) : y \in ToSet(samples[q]) \/ y.who = serving[q]
    BY <1>1, <1>2, <1>5, <1>6, <2>1
  <2>3. Coming(q)' \subseteq Coming(q)
    BY <2>2 DEF Coming
  <2> QED BY <2>1, <2>3, FewKept
<1> QED BY <1>7, <1>8, <1>9, <1>10, <1>11 DEF IInv

-----------------------------------------------------------------------------
(* The resizes                                                             *)

\* All samples are from before now: none is from after an assignment made now.
LEMMA StartedNow ==
  ASSUME IInv, NEW p \in Pods
  PROVE  \A x \in ToSet(samples[p]) : x.time <= now
<1>1. now \in Nat
  BY DEF IInv, TypeOK
<1> QED BY <1>1 DEF IInv, Scraped

\* A step of one pod's resize disturbs no other series.
LEMMA FewOfOnePod ==
  ASSUME IInv, NEW p \in Pods, UNCHANGED <<samples, fetched>>,
         \A q \in Pods \ {p} :
           /\ series'[q] = series[q] /\ serving'[q] = serving[q]
           /\ changing'[q] = changing[q] /\ (q \in mixed <=> q \in mixed'),
         p \in Live' \ mixed' /\ serving'[p] # Idle /\ changing'[p] # "assign" =>
           /\ p \in Live \ mixed /\ changing[p] # "assign"
           /\ series'[p] = series[p] /\ serving'[p] = serving[p]
  PROVE  AtMostTwo'
<1> SUFFICES ASSUME NEW q \in Live' \ mixed', serving'[q] # Idle, changing'[q] # "assign"
             PROVE  Few(q)'
  BY DEF AtMostTwo
<1>1. /\ q \in Live \ mixed /\ changing[q] # "assign"
      /\ series'[q] = series[q] /\ serving'[q] = serving[q]
  BY DEF Live
<1>2. Few(q)
  BY <1>1 DEF IInv, AtMostTwo
<1>3. Coming(q)' = Coming(q)
  BY <1>1 DEF Coming
<1> QED BY <1>1, <1>2, <1>3, FewKept

\* Time of assignment and tenant of a supervisor that gets rid of its tenant.
LEMMA SupIdleType ==
  ASSUME IInv, NEW p \in Pods, SupIdle(p), UNCHANGED samples
  PROVE  /\ serving' \in [Pods -> Tenants \cup {Idle}] /\ serving'[p] = Idle
         /\ startTime' \in [Pods -> 0..MaxTime]
         /\ \A q \in Pods \ {p} : serving'[q] = serving[q] /\ startTime'[q] = startTime[q]
         /\ Started'
<1>1. /\ serving \in [Pods -> Tenants \cup {Idle}]
      /\ startTime \in [Pods -> 0..MaxTime] /\ 0 \in 0..MaxTime
  BY TimeAssumption DEF IInv, TypeOK
<1>2. /\ serving' \in [Pods -> Tenants \cup {Idle}] /\ serving'[p] = Idle
      /\ startTime' \in [Pods -> 0..MaxTime]
      /\ \A q \in Pods \ {p} : serving'[q] = serving[q] /\ startTime'[q] = startTime[q]
  BY <1>1 DEF SupIdle
<1>3. Started'
  BY <1>2 DEF IInv, Started
<1> QED BY <1>2, <1>3

LEMMA SupAssignInv ==
  ASSUME IInv, NEW p \in Pods, NEW t \in Tenants, SupAssign(p, t)
  PROVE  IInv'
<1> USE DEF SupAssign, Calls, collectVars
<1>1. TypeOK'
  <2>1. startTime \in [Pods -> 0..MaxTime] /\ now \in 0..MaxTime
    BY TimeAssumption DEF IInv, TypeOK
  <2>2. startTime' \in [Pods -> 0..MaxTime]
    BY <2>1
  <2> QED BY <2>2 DEF IInv, TypeOK
<1>2. Sounds' /\ Scraped' /\ Asked'
  BY DEF IInv, Sounds, Live, Scraped, Asked
<1>3. Resizing'
  <2> SUFFICES ASSUME NEW q \in Pods PROVE Known(q)'
    BY DEF Resizing, Known
  <2>1. Known(q) /\ serving[q] \in Tenants \cup {Idle}
    BY DEF IInv, Resizing, Known, TypeOK
  <2> QED BY <2>1 DEF IInv, TypeOK, Known
<1>4. Started'
  <2> SUFFICES ASSUME NEW q \in Pods, serving'[q] # Idle, NEW x \in ToSet(samples[q]),
                      x.who # serving'[q]
               PROVE  x.time <= startTime'[q]
    BY DEF Started
  <2>1. CASE q = p /\ serving[p] # t
    <3>1. startTime'[p] = now
      BY <2>1 DEF IInv, TypeOK
    <3> QED BY <2>1, <3>1, StartedNow
  <2>2. CASE q # p \/ serving[p] = t
    <3>1. startTime'[q] = startTime[q] /\ serving'[q] = serving[q]
      BY <2>2 DEF IInv, TypeOK
    <3> QED BY <3>1 DEF IInv, Started
  <2> QED BY <2>1, <2>2
<1>5. AtMostTwo'
  <2>1. changing'[p] = "assign"
    BY DEF IInv, TypeOK
  <2>2. \A q \in Pods \ {p} : serving'[q] = serving[q] /\ changing'[q] = changing[q]
    BY DEF IInv, TypeOK
  <2> QED BY <2>1, <2>2, FewOfOnePod
<1> QED BY <1>1, <1>2, <1>3, <1>4, <1>5 DEF IInv

\* The series of a pod is dropped and those of the others stay.
LEMMA ResetSeries ==
  ASSUME IInv, NEW p \in Pods, series' = ResetMetricsOfPod(p)
  PROVE  /\ series' \in [Pods -> TimeSeries \cup {NoSeries}]
         /\ p \notin Live' /\ \A q \in Pods \ {p} : series'[q] = series[q]
         /\ Sounds'
<1>1. series \in [Pods -> TimeSeries \cup {NoSeries}]
  BY DEF IInv, TypeOK
<1>2. \A q \in Pods : series'[q] = IF q = p THEN NoSeries ELSE series[q]
  BY <1>1 DEF ResetMetricsOfPod
<1>3. series' \in [Pods -> TimeSeries \cup {NoSeries}]
  BY <1>1 DEF ResetMetricsOfPod
<1>4. p \notin Live' /\ \A q \in Live' : q \in Live /\ series'[q] = series[q]
  BY <1>2 DEF Live
<1>5. Sounds'
  BY <1>4 DEF IInv, Sounds
<1> QED BY <1>2, <1>3, <1>4, <1>5

\* The reply of a call leaves the pod with a tenant or in the pool.
LEMMA DoneType ==
  ASSUME IInv, NEW p \in Pods, NEW kind, NEW t \in Tenants \cup {Idle}, Done(p, kind, t)
  PROVE  /\ changing' \in [Pods -> {"no", "assign", "unassign"}]
         /\ caller' \in [Pods -> Tenants \cup {Idle}]
         /\ tenantName' \in [Pods -> Tenants \cup {Idle}]
         /\ changing[p] = kind /\ changing'[p] = "no" /\ tenantName'[p] = t
         /\ \A q \in Pods \ {p} : /\ changing'[q] = changing[q] /\ caller'[q] = caller[q]
                                  /\ tenantName'[q] = tenantName[q]
<1>1. /\ changing \in [Pods -> {"no", "assign", "unassign"}]
      /\ caller \in [Pods -> Tenants \cup {Idle}]
      /\ tenantName \in [Pods -> Tenants \cup {Idle}]
  BY DEF IInv, TypeOK
<1> QED BY <1>1 DEF Done

LEMMA AssignOkInv == ASSUME IInv, NEW p \in Pods, AssignOk(p) PROVE IInv'
<1> USE DEF AssignOk, envVars, collectVars
<1>1. /\ series' \in [Pods -> TimeSeries \cup {NoSeries}] /\ Sounds'
      /\ p \notin Live' /\ \A q \in Pods \ {p} : series'[q] = series[q]
  BY ResetSeries
<1>2. caller[p] \in Tenants \cup {Idle}
  BY DEF IInv, TypeOK
<1>3. /\ changing' \in [Pods -> {"no", "assign", "unassign"}]
      /\ caller' \in [Pods -> Tenants \cup {Idle}]
      /\ tenantName' \in [Pods -> Tenants \cup {Idle}]
      /\ changing[p] = "assign" /\ changing'[p] = "no" /\ tenantName'[p] = caller[p]
      /\ \A q \in Pods \ {p} : /\ changing'[q] = changing[q] /\ caller'[q] = caller[q]
                               /\ tenantName'[q] = tenantName[q]
  BY <1>2, DoneType
<1>4. TypeOK'
  BY <1>1, <1>3 DEF IInv, TypeOK
<1>5. Scraped' /\ Asked' /\ Started'
  BY DEF IInv, Scraped, Asked, Started
<1>6. Resizing'
  BY <1>3 DEF IInv, Resizing, Known
<1>7. AtMostTwo'
  BY <1>1, <1>3, FewOfOnePod
<1> QED BY <1>1, <1>4, <1>5, <1>6, <1>7 DEF IInv

LEMMA AssignLostInv == ASSUME IInv, NEW p \in Pods, AssignLost(p) PROVE IInv'
<1> USE DEF AssignLost, envVars, collectVars
<1>1. /\ changing' \in [Pods -> {"no", "assign", "unassign"}]
      /\ caller' \in [Pods -> Tenants \cup {Idle}]
      /\ tenantName' \in [Pods -> Tenants \cup {Idle}] /\ changing'[p] = "no"
      /\ \A q \in Pods \ {p} : /\ changing'[q] = changing[q] /\ caller'[q] = caller[q]
                               /\ tenantName'[q] = tenantName[q]
  BY DoneType
<1>2. TypeOK'
  BY <1>1 DEF IInv, TypeOK
<1>3. Sounds' /\ Scraped' /\ Asked' /\ Started'
  BY DEF IInv, Sounds, Live, Scraped, Asked, Started
<1>4. Resizing'
  BY <1>1 DEF IInv, Resizing, Known
<1>5. AtMostTwo'
  BY <1>1, FewOfOnePod
<1> QED BY <1>2, <1>3, <1>4, <1>5 DEF IInv

\* A pod is corrected to the tenant that its supervisor serves.
LEMMA CorrectedInv ==
  ASSUME IInv, NEW p \in Pods, changing[p] = "no", serving[p] # tenantName[p],
         tenantName' = [tenantName EXCEPT ![p] = serving[p]],
         UNCHANGED <<envVars, changing, caller, collectVars, series, mixed>>
  PROVE  IInv'
<1> USE DEF envVars, collectVars
<1>1. tenantName' \in [Pods -> Tenants \cup {Idle}] /\ tenantName'[p] = serving[p]
      /\ \A q \in Pods \ {p} : tenantName'[q] = tenantName[q]
  BY DEF IInv, TypeOK
<1>2. TypeOK'
  BY <1>1 DEF IInv, TypeOK
<1>3. Sounds' /\ Scraped' /\ Asked' /\ Started'
  BY DEF IInv, Sounds, Live, Scraped, Asked, Started
<1>4. Resizing'
  BY <1>1 DEF IInv, Resizing, Known
<1>5. AtMostTwo'
  BY DEF IInv, AtMostTwo, Live, Few, Others, Coming
<1> QED BY <1>2, <1>3, <1>4, <1>5 DEF IInv

LEMMA AssignRejectedInv ==
  ASSUME IInv, NEW p \in Pods, NEW t \in Tenants, AssignRejected(p, t)
  PROVE  IInv'
BY CorrectedInv DEF AssignRejected

LEMMA ScanCorrectInv == ASSUME IInv, NEW p \in Pods, ScanCorrect(p) PROVE IInv'
BY CorrectedInv DEF ScanCorrect

LEMMA PopPodInv == ASSUME IInv, NEW p \in Pods, PopPod(p) PROVE IInv'
<1> USE DEF PopPod, Calls, envVars, collectVars
<1>1. TypeOK'
  BY DEF IInv, TypeOK
<1>2. Sounds' /\ Scraped' /\ Asked' /\ Started'
  BY DEF IInv, Sounds, Live, Scraped, Asked, Started
<1>3. Resizing'
  BY DEF IInv, TypeOK, Resizing, Known
<1>4. AtMostTwo'
  <2>1. changing[p] = "no" /\ \A q \in Pods \ {p} : changing'[q] = changing[q]
    BY DEF IInv, TypeOK
  <2>2. p \in Live' => p \in Live
    BY DEF Live
  <2> QED BY <2>1, <2>2, FewOfOnePod
<1> QED BY <1>1, <1>2, <1>3, <1>4 DEF IInv

LEMMA UnassignOkInv == ASSUME IInv, NEW p \in Pods, UnassignOk(p) PROVE IInv'
<1> USE DEF UnassignOk, collectVars
<1>1. /\ series' \in [Pods -> TimeSeries \cup {NoSeries}] /\ Sounds'
      /\ p \notin Live' /\ \A q \in Pods \ {p} : series'[q] = series[q]
  BY ResetSeries
<1>2. /\ changing' \in [Pods -> {"no", "assign", "unassign"}]
      /\ caller' \in [Pods -> Tenants \cup {Idle}]
      /\ tenantName' \in [Pods -> Tenants \cup {Idle}]
      /\ changing'[p] = "no" /\ tenantName'[p] = Idle
      /\ \A q \in Pods \ {p} : /\ changing'[q] = changing[q] /\ caller'[q] = caller[q]
                               /\ tenantName'[q] = tenantName[q]
  BY DoneType
<1>3. /\ serving' \in [Pods -> Tenants \cup {Idle}] /\ serving'[p] = Idle
      /\ startTime' \in [Pods -> 0..MaxTime]
      /\ \A q \in Pods \ {p} : serving'[q] = serving[q]
      /\ Started'
  BY SupIdleType
<1>4. TypeOK'
  BY <1>1, <1>2, <1>3 DEF IInv, TypeOK
<1>5. Scraped' /\ Asked'
  BY DEF IInv, Scraped, Asked
<1>6. Resizing'
  BY <1>2, <1>3 DEF IInv, Resizing, Known
<1>7. AtMostTwo'
  BY <1>1, <1>2, <1>3, FewOfOnePod
<1> QED BY <1>1, <1>3, <1>4, <1>5, <1>6, <1>7 DEF IInv

LEMMA UnassignUndoneInv == ASSUME IInv, NEW p \in Pods, UnassignUndone(p) PROVE IInv'
<1> USE DEF UnassignUndone, collectVars
<1>1. caller[p] \in Tenants \cup {Idle}
  BY DEF IInv, TypeOK
<1>2. /\ changing' \in [Pods -> {"no", "assign", "unassign"}]
      /\ caller' \in [Pods -> Tenants \cup {Idle}]
      /\ tenantName' \in [Pods -> Tenants \cup {Idle}]
      /\ changing[p] = "unassign" /\ changing'[p] = "no" /\ tenantName'[p] = caller[p]
      /\ \A q \in Pods \ {p} : /\ changing'[q] = changing[q] /\ caller'[q] = caller[q]
                               /\ tenantName'[q] = tenantName[q]
  BY <1>1, DoneType
<1>3. Sounds' /\ Scraped' /\ Asked'
  BY DEF IInv, Sounds, Live, Scraped, Asked
<1>4. p \in Live' => p \in Live
  BY DEF Live
<1>5. CASE UNCHANGED <<serving, startTime, mixed>>
  <2>1. TypeOK' /\ Started'
    BY <1>2, <1>5 DEF IInv, TypeOK, Started
  <2>2. Resizing'
    BY <1>2, <1>5 DEF IInv, Resizing, Known
  <2>3. AtMostTwo'
    BY <1>2, <1>4, <1>5, FewOfOnePod
  <2> QED BY <1>3, <2>1, <2>2, <2>3 DEF IInv
<1>6. CASE SupIdle(p) /\ mixed' = mixed \cup {p}
  <2>1. /\ serving' \in [Pods -> Tenants \cup {Idle}]
        /\ startTime' \in [Pods -> 0..MaxTime]
        /\ \A q \in Pods \ {p} : serving'[q] = serving[q]
        /\ Started'
    BY <1>6, SupIdleType
  <2>2. TypeOK'
    BY <1>2, <1>6, <2>1 DEF IInv, TypeOK
  <2>3. Resizing'
    BY <1>2, <1>6, <2>1 DEF IInv, Resizing, Known
  <2>4. AtMostTwo'
    BY <1>2, <1>6, <2>1, FewOfOnePod
  <2> QED BY <1>3, <2>1, <2>2, <2>3, <2>4 DEF IInv
<1> QED BY <1>5, <1>6

LEMMA SupRestartInv == ASSUME IInv, NEW p \in Pods, SupRestart(p) PROVE IInv'
<1> USE DEF SupRestart, resizeVars, collectVars
<1>1. /\ serving' \in [Pods -> Tenants \cup {Idle}]
      /\ startTime' \in [Pods -> 0..MaxTime]
      /\ \A q \in Pods \ {p} : serving'[q] = serving[q]
      /\ Started'
  BY SupIdleType
<1>2. TypeOK'
  BY <1>1 DEF IInv, TypeOK
<1>3. Sounds' /\ Scraped' /\ Asked'
  BY DEF IInv, Sounds, Live, Scraped, Asked
<1>4. Resizing'
  BY <1>1 DEF IInv, Resizing, Known
<1>5. AtMostTwo'
  BY <1>1, FewOfOnePod
<1> QED BY <1>1, <1>2, <1>3, <1>4, <1>5 DEF IInv

-----------------------------------------------------------------------------
(* The collector                                                           *)

LEMMA QueryInv == ASSUME IInv, Query PROVE IInv'
<1> USE DEF Query, envVars, resizeVars
<1>1. \A p \in Pods : /\ samples[p] = <<>> => fetched'[p] = <<>>
                      /\ samples[p] # <<>> => fetched'[p] = <<Last(samples[p])>>
  OBVIOUS
<1>2. \A p \in Pods : /\ samples[p] \in Seq(Points) /\ fetched'[p] \in Seq(Points)
                      /\ samples[p] # <<>> => fetched'[p] # <<>>
                      /\ \A x \in ToSet(fetched'[p]) : x \in ToSet(samples[p]) /\ x = Last(samples[p])
  <2> SUFFICES ASSUME NEW p \in Pods
               PROVE  /\ samples[p] \in Seq(Points) /\ fetched'[p] \in Seq(Points)
                      /\ samples[p] # <<>> => fetched'[p] # <<>>
                      /\ \A x \in ToSet(fetched'[p]) :
                           x \in ToSet(samples[p]) /\ x = Last(samples[p])
    OBVIOUS
  <2>1. samples[p] \in Seq(Points)
    BY DEF IInv, TypeOK
  <2>2. CASE samples[p] = <<>>
    BY <1>1, <2>1, <2>2, NoneOfEmpty
  <2>3. CASE samples[p] # <<>>
    <3> DEFINE l == Last(samples[p])
    <3>1. l \in Points /\ l \in ToSet(samples[p])
      BY <2>1, <2>3, LastIsLatest
    <3>2. fetched'[p] = <<l>>
      BY <1>1, <2>3
    <3> HIDE DEF l
    <3>3. <<l>> \in Seq(Points) /\ <<l>> # <<>> /\ ToSet(<<l>>) = {l}
      BY <3>1 DEF ToSet
    <3> QED BY <2>1, <3>1, <3>2, <3>3 DEF l
  <2> QED BY <2>2, <2>3
<1>3. fetched' \in [Pods -> Seq(Points)] /\ todo' \subseteq Pods
      /\ \A p \in todo' : fetched'[p] # <<>>
  BY <1>2
<1>4. TypeOK'
  BY <1>3 DEF IInv, TypeOK
<1>5. Sounds' /\ Scraped' /\ Asked' /\ Resizing' /\ Started'
  BY DEF IInv, Sounds, Live, Scraped, Asked, Resizing, Known, Started
<1>6. AtMostTwo'
  <2> SUFFICES ASSUME NEW q \in Live \ mixed, serving[q] # Idle, changing[q] # "assign"
               PROVE  Few(q)'
    BY DEF AtMostTwo, Live
  <2>1. q \in Pods /\ Few(q)
    BY DEF IInv, AtMostTwo, Live
  <2>2. Coming(q)' \subseteq Coming(q) /\ Coming(q)' \subseteq ToSet(samples[q])
    BY <1>2, <2>1 DEF Coming
  <2>3. \A x \in ToSet(fetched'[q]), y \in Coming(q)' : y.time <= x.time
    <3> SUFFICES ASSUME NEW x \in ToSet(fetched'[q]), NEW y \in Coming(q)'
                 PROVE  y.time <= x.time
      OBVIOUS
    <3>1. x = Last(samples[q]) /\ x \in ToSet(samples[q]) /\ y \in ToSet(samples[q])
      BY <1>2, <2>1, <2>2
    <3>2. samples[q] \in Seq(Points) /\ Ordered(samples[q]) /\ samples[q] # <<>>
      BY <2>1, <3>1, NoneOfEmpty DEF IInv, TypeOK, Scraped
    <3> QED BY <3>1, <3>2, LastIsLatest
  <2>4. Others(q)' = Others(q)
    BY DEF Others
  <2> HIDE DEF Others, Coming, Query
  <2> QED BY <2>1, <2>2, <2>3, <2>4 DEF Few
<1> QED BY <1>4, <1>5, <1>6 DEF IInv

LEMMA LookUpInv == ASSUME IInv, NEW p \in Pods, LookUp(p) PROVE IInv'
<1> USE DEF envVars, resizeVars
<1>0. /\ p \in todo /\ cur = <<>> /\ todo' = todo \ {p}
      /\ UNCHANGED <<envVars, resizeVars, series, mixed>>
      /\ fetched[p] # <<>> /\ fetched \in [Pods -> Seq(Points)]
  BY DEF LookUp, IInv, TypeOK
<1>1. CASE Collected(tenantName[p])
  <2> DEFINE c == [pod |-> p, sec |-> interval[tenantName[p]]]
  <2>1. cur' = <<c>> /\ fetched' = fetched
    BY <1>1 DEF LookUp
  <2>2. c \in [pod : Pods, sec : Intervals] /\ c.pod = p
    BY <1>1 DEF IInv, TypeOK, Collected
  <2> HIDE DEF c
  <2>3. cur' \in Seq([pod : Pods, sec : Intervals]) /\ cur'[1] = c
    BY <2>1, <2>2
  <2>4. TypeOK'
    BY <1>0, <2>1, <2>3 DEF IInv, TypeOK
  <2>5. Asked'
    BY <1>0, <2>1, <2>2, <2>3 DEF Asked
  <2>6. Sounds' /\ Scraped' /\ Resizing' /\ Started'
    BY <1>0 DEF IInv, Sounds, Live, Scraped, Resizing, Known, Started
  <2>7. AtMostTwo'
    BY <1>0, <2>1 DEF IInv, AtMostTwo, Live, Few, Others, Coming
  <2> QED BY <2>4, <2>5, <2>6, <2>7 DEF IInv
<1>2. CASE ~Collected(tenantName[p])
  <2>1. cur' = <<>> /\ fetched' = [fetched EXCEPT ![p] = <<>>]
    BY <1>0, <1>2 DEF LookUp
  <2>2. /\ fetched' \in [Pods -> Seq(Points)]
        /\ \A q \in Pods : fetched'[q] = IF q = p THEN <<>> ELSE fetched[q]
    BY <1>0, <2>1, NoneOfEmpty
  <2>3. TypeOK'
    BY <1>0, <2>1, <2>2 DEF IInv, TypeOK
  <2>4. Asked'
    BY <2>1 DEF Asked
  <2>5. Sounds' /\ Scraped' /\ Resizing' /\ Started'
    BY <1>0 DEF IInv, Sounds, Live, Scraped, Resizing, Known, Started
  <2>6. AtMostTwo'
    <3> SUFFICES ASSUME NEW q \in Live \ mixed, serving[q] # Idle, changing[q] # "assign"
                 PROVE  Few(q)'
      BY <1>0 DEF AtMostTwo, Live
    <3>1. q \in Pods /\ Few(q)
      BY DEF IInv, AtMostTwo, Live
    <3>2. ToSet(fetched'[q]) \subseteq ToSet(fetched[q])
      BY <2>2, <3>1, NoneOfEmpty
    <3>3. Coming(q)' \subseteq Coming(q)
      BY <1>0, <3>2 DEF Coming
    <3> QED BY <1>0, <3>1, <3>2, <3>3, FewKept
  <2> QED BY <2>3, <2>4, <2>5, <2>6 DEF IInv
<1> QED BY <1>1, <1>2

\* What the collector inserts, and into what.
LEMMA Inserted ==
  ASSUME IInv, InsertWithUserCfg
  PROVE  LET p == cur[1].pod
             x == fetched[p][1]
             sec == cur[1].sec
         IN  /\ p \in Pods /\ sec \in Intervals /\ x \in Points /\ x \in ToSet(fetched[p])
             /\ p \notin todo
             /\ series[p] = NoSeries \/ Sound(series[p])
             /\ series' = [series EXCEPT ![p] = Insert(series[p], x, sec)]
             /\ fetched' = [fetched EXCEPT ![p] = <<>>]
<1> DEFINE p == cur[1].pod
           sec == cur[1].sec
<1>1. cur # <<>> /\ cur \in Seq([pod : Pods, sec : Intervals])
  BY DEF InsertWithUserCfg, IInv, TypeOK
<1>2. cur[1] \in [pod : Pods, sec : Intervals]
  <2>1. Len(cur) \in Nat \ {0}
    BY <1>1, EmptySeq
  <2>2. 1 \in 1..Len(cur)
    BY <2>1
  <2> QED BY <1>1, <2>2, ElementOfSeq
<1>3. p \in Pods /\ sec \in Intervals
  BY <1>2
<1>4. p \notin todo /\ fetched[p] # <<>>
  BY <1>1 DEF IInv, Asked
<1>5. fetched[p] \in Seq(Points)
  BY <1>3 DEF IInv, TypeOK
<1>6. fetched[p][1] \in Points /\ fetched[p][1] \in ToSet(fetched[p])
  BY <1>4, <1>5, FirstIsOne
<1>7. series[p] = NoSeries \/ Sound(series[p])
  BY <1>3 DEF IInv, Sounds, Live
<1>8. /\ series' = [series EXCEPT ![p] = Insert(series[p], fetched[p][1], sec)]
      /\ fetched' = [fetched EXCEPT ![p] = <<>>]
  BY DEF InsertWithUserCfg
<1> QED BY <1>3, <1>4, <1>6, <1>7, <1>8

\* After the insertion of a sample the pod has at most two of other tenants.
LEMMA InsertFew ==
  ASSUME IInv, InsertWithUserCfg, NEW p, p = cur[1].pod,
         series[p] # NoSeries => Few(p)
  PROVE  Few(p)'
<1> DEFINE x == fetched[p][1]
           sec == cur[1].sec
           s == series[p]
           n == Insert(s, x, sec)
           t == Opened(s, sec)
<1>1. /\ p \in Pods /\ sec \in Intervals /\ x \in Points /\ x \in ToSet(fetched[p])
      /\ s = NoSeries \/ Sound(s)
      /\ series' = [series EXCEPT ![p] = n]
      /\ fetched' = [fetched EXCEPT ![p] = <<>>]
  BY Inserted
<1>2. series'[p] = n /\ fetched'[p] = <<>> /\ ToSet(fetched'[p]) = {}
      /\ samples' = samples /\ serving' = serving
  BY <1>1, NoneOfEmpty DEF IInv, TypeOK, InsertWithUserCfg, envVars
<1> HIDE DEF x, sec, s
<1>3. /\ Sound(n) /\ ToSet(n.pts) \subseteq ToSet(t.pts) \cup {x}
      /\ x.time > t.maxTime => n.maxTime = x.time
      /\ ~(x.time > t.maxTime) => n = t
  <2>1. Inserts(s, x, sec)
    BY <1>1, InsertSound
  <2> QED BY <2>1 DEF Inserts
<1>4. /\ s = NoSeries => t.pts = <<>> /\ t.maxTime = 0
      /\ s # NoSeries => t.pts = s.pts /\ t.maxTime = s.maxTime
  BY <1>1, OpenedSound
<1> HIDE DEF n, t
<1>5. Others(p)' = {y \in ToSet(n.pts) : y.who # serving[p]}
  BY <1>2 DEF Others
<1>6. Coming(p)' = {y \in ToSet(samples[p]) : y.who # serving[p] /\ y.time > n.maxTime}
  BY <1>2 DEF Coming
<1>7. \A y \in ToSet(samples[p]) \cup ToSet(fetched[p]) : y.time \in Nat
  <2>1. samples[p] \in Seq(Points) /\ fetched[p] \in Seq(Points)
    BY <1>1 DEF IInv, TypeOK
  <2> QED BY <2>1, PointsOf
<1>8. CASE s = NoSeries
  <2>1. ToSet(n.pts) \subseteq {x}
    BY <1>3, <1>4, <1>8, NoneOfEmpty
  <2>2. \E a : Others(p)' \subseteq {a}
    BY <1>5, <2>1
  <2> HIDE DEF Others, Coming
  <2> QED BY <1>2, <2>2 DEF Few
<1>9. CASE s # NoSeries
  <2>1. Few(p) /\ Others(p) = {y \in ToSet(s.pts) : y.who # serving[p]}
    BY <1>9 DEF s, Others
  <2>2. Coming(p) = {y \in ToSet(samples[p]) \cup ToSet(fetched[p]) :
                       y.who # serving[p] /\ y.time > s.maxTime}
    BY DEF Coming, s
  <2>3. s.maxTime \in Nat /\ x.time \in Nat /\ t.pts = s.pts /\ t.maxTime = s.maxTime
    BY <1>1, <1>4, <1>9, PointType DEF Sound, TimeSeries
  <2>4. CASE ~(x.time > s.maxTime)
    <3>1. n = t
      BY <1>3, <2>3, <2>4
    <3>2. Others(p)' = Others(p) /\ Coming(p)' \subseteq Coming(p)
      BY <1>5, <1>6, <2>1, <2>2, <2>3, <3>1
    <3> QED BY <1>2, <2>1, <3>2, FewLess
  <2>5. CASE x.time > s.maxTime
    <3>1. n.maxTime = x.time
      BY <1>3, <2>3, <2>5
    <3>2. Coming(p)' \subseteq Coming(p)
      BY <1>6, <1>7, <2>2, <2>3, <2>5, <3>1
    <3>3. \A y \in Coming(p)' : y.time > x.time /\ y.time \in Nat
      BY <1>6, <1>7, <3>1
    <3>4. CASE x.who = serving[p]
      <4>1. Others(p)' \subseteq Others(p)
        BY <1>3, <1>5, <2>1, <2>3, <3>4
      <4> QED BY <1>2, <2>1, <3>2, <4>1, FewLess
    <3>5. CASE x.who # serving[p]
      <4>1. x \in Coming(p)
        BY <1>1, <2>2, <2>5, <3>5
      <4>2. Others(p)' \subseteq Others(p) \cup {x}
        BY <1>3, <1>5, <2>1, <2>3
      <4> HIDE DEF Others, Coming
      <4>3. CASE Others(p) = {}
        <5>1. Others(p)' \subseteq {x}
          BY <4>2, <4>3
        <5> QED BY <1>2, <5>1 DEF Few
      <4>4. CASE /\ \E a : Others(p) \subseteq {a}
                 /\ \A z \in ToSet(fetched[p]) \cap Coming(p), y \in Coming(p) :
                      y.time <= z.time
        <5>1. PICK a : Others(p) \subseteq {a}
          BY <4>4
        <5>2. Others(p)' \subseteq {a, x}
          BY <4>2, <5>1
        <5>3. \A y \in Coming(p)' : y.time <= x.time
          BY <1>1, <3>2, <4>1, <4>4
        <5>4. Coming(p)' = {}
          BY <2>3, <3>3, <5>3
        <5> QED BY <5>2, <5>4 DEF Few
      <4>5. CASE Coming(p) = {}
        BY <4>1, <4>5
      <4> QED BY <2>1, <4>3, <4>4, <4>5 DEF Few
    <3> QED BY <3>4, <3>5
  <2> QED BY <2>4, <2>5
<1> QED BY <1>8, <1>9

LEMMA InsertInv == ASSUME IInv, InsertWithUserCfg PROVE IInv'
<1> DEFINE p == cur[1].pod
           x == fetched[p][1]
           sec == cur[1].sec
           n == Insert(series[p], x, sec)
<1>1. /\ p \in Pods /\ sec \in Intervals /\ x \in Points
      /\ p \notin todo
      /\ series[p] = NoSeries \/ Sound(series[p])
      /\ series' = [series EXCEPT ![p] = n]
      /\ fetched' = [fetched EXCEPT ![p] = <<>>]
  BY Inserted
<1>2. Sound(n) /\ n \in TimeSeries
  <2>1. Inserts(series[p], x, sec)
    BY <1>1, InsertSound
  <2> QED BY <2>1 DEF Inserts, Sound
<1>3. cur' = <<>> /\ UNCHANGED <<envVars, resizeVars, todo, mixed>>
  BY DEF InsertWithUserCfg
<1> HIDE DEF p, x, sec, n
<1> USE DEF envVars, resizeVars
<1>4. /\ \A q \in Pods : series'[q] = IF q = p THEN n ELSE series[q]
      /\ \A q \in Pods : fetched'[q] = IF q = p THEN <<>> ELSE fetched[q]
      /\ series' \in [Pods -> TimeSeries \cup {NoSeries}]
      /\ fetched' \in [Pods -> Seq(Points)]
  BY <1>1, <1>2, NoneOfEmpty DEF IInv, TypeOK
<1>5. TypeOK'
  <2>1. cur' \in Seq([pod : Pods, sec : Intervals])
    BY <1>3, EmptySeq
  <2>2. \A q \in todo' : fetched'[q] # <<>>
    <3>1. \A q \in todo : q \in Pods /\ fetched[q] # <<>>
      BY DEF IInv, TypeOK
    <3>2. todo' = todo
      BY <1>3
    <3>3. p \notin todo
      BY <1>1
    <3> QED BY <3>1, <3>2, <3>3, <1>4
  <2> QED BY <1>3, <1>4, <2>1, <2>2 DEF IInv, TypeOK
<1>6. Sounds'
  BY <1>2, <1>4 DEF IInv, Sounds, Live
<1>7. Scraped' /\ Resizing' /\ Started' /\ Asked'
  BY <1>3 DEF IInv, Scraped, Resizing, Known, Started, Asked
<1>8. AtMostTwo'
  <2> SUFFICES ASSUME NEW q \in Live' \ mixed, serving[q] # Idle, changing[q] # "assign"
               PROVE  Few(q)'
    BY <1>3 DEF AtMostTwo
  <2>1. q \in Pods /\ (series[q] # NoSeries => Few(q))
    BY DEF Live, IInv, AtMostTwo
  <2>2. CASE q = p
    BY <2>1, <2>2, InsertFew DEF p
  <2>3. CASE q # p
    <3>1. series'[q] = series[q] /\ fetched'[q] = fetched[q] /\ series[q] # NoSeries
      BY <1>4, <2>1, <2>3 DEF Live
    <3>2. Coming(q)' = Coming(q)
      BY <1>3, <3>1 DEF Coming
    <3> QED BY <1>3, <2>1, <3>1, <3>2, FewKept
  <2> QED BY <2>2, <2>3
<1> QED BY <1>5, <1>6, <1>7, <1>8 DEF IInv

-----------------------------------------------------------------------------
(* The restart                                                             *)

\* The samples that are taken over are from the assignment on.
LEMMA SinceAssignType ==
  ASSUME IInv, NEW p \in Pods
  PROVE  LET xs == SinceAssign(p)
         IN  /\ xs \in Seq(Points) /\ Ordered(xs) /\ \A x \in ToSet(xs) : x.time > 0
             /\ ToSet(xs) \subseteq {x \in ToSet(samples[p]) : x.time >= startTime[p]}
<1> DEFINE ys == InRange(p)
           xs == From(ys, startTime[p])
<1>1. ys \in Seq(Points) /\ Ordered(ys) /\ ToSet(ys) \subseteq ToSet(samples[p])
  BY InRangeType
<1>2. startTime[p] \in Int
  BY TimeAssumption DEF IInv, TypeOK
<1> HIDE DEF ys
<1>3. xs \in Seq(Points) /\ Ordered(xs)
      /\ ToSet(xs) \subseteq {x \in ToSet(ys) : x.time >= startTime[p]}
  BY <1>1, <1>2, FromType
<1> HIDE DEF xs
<1>4. \A x \in ToSet(samples[p]) : x.time > 0
  <2>1. \A x \in ToSet(samples[p]) : x.time \in 1..now
    BY DEF IInv, Scraped
  <2>2. now \in Nat
    BY DEF IInv, TypeOK
  <2> QED BY <2>1, <2>2
<1>5. SinceAssign(p) = xs
  BY DEF SinceAssign, xs, ys
<1> QED BY <1>1, <1>3, <1>4, <1>5

LEMMA RestoredSound ==
  ASSUME IInv, Restart, NEW p \in Pods, Restored(p) # NoSeries
  PROVE  LET s == Restored(p)
             xs == SinceAssign(p)
         IN  /\ tenantName'[p] # Idle /\ serving[p] # Idle
             /\ Sound(s) /\ s.pts = Window(xs, s.intervalSec)
             /\ ToSet(s.pts) \subseteq {x \in ToSet(samples[p]) : x.time >= startTime[p]}
<1> DEFINE xs == SinceAssign(p)
           sec == interval[serving[p]]
           s == Filled(xs, sec)
<1>1. tenantName'[p] # Idle /\ serving[p] # Idle /\ Restored(p) = s
  <2>1. tenantName'[p] # Idle /\ Restored(p) = s
    BY DEF Restored
  <2>2. tenantName'[p] \in {Idle, serving[p]}
    BY DEF Restart
  <2> QED BY <2>1, <2>2
<1>2. sec \in Intervals
  BY <1>1 DEF IInv, TypeOK
<1>3. /\ xs \in Seq(Points) /\ Ordered(xs) /\ \A x \in ToSet(xs) : x.time > 0
      /\ ToSet(xs) \subseteq {x \in ToSet(samples[p]) : x.time >= startTime[p]}
  BY SinceAssignType
<1> HIDE DEF xs, sec
<1>4. xs = <<>> => s = NoSeries
  BY <1>2, <1>3, FilledSound
<1>5. xs # <<>>
  BY <1>1, <1>4
<1>6. Sound(s)
  BY <1>2, <1>3, <1>5, FilledSound
<1>7. s.intervalSec = sec
  BY <1>2, <1>3, <1>5, FilledSound
<1>8. s.pts = Window(xs, sec)
  BY <1>2, <1>3, <1>5, FilledSound
<1>9. ToSet(s.pts) \subseteq ToSet(xs)
  BY <1>2, <1>3, <1>5, FilledSound
<1> HIDE DEF s
<1>10. s.pts = Window(xs, s.intervalSec)
  BY <1>7, <1>8
<1>11. xs = SinceAssign(p)
  BY DEF xs
<1> QED BY <1>1, <1>3, <1>6, <1>9, <1>10, <1>11

\* A restart leaves at most one sample of another tenant in a series: one of
\* the second of the assignment.
LEMMA RestoredFew ==
  ASSUME IInv, Restart, NEW p \in Pods, Restored(p) # NoSeries
  PROVE  \E a : {x \in ToSet(Restored(p).pts) : x.who # serving[p]} \subseteq {a}
<1> DEFINE F == {x \in ToSet(Restored(p).pts) : x.who # serving[p]}
<1>1. serving[p] # Idle /\ \A x \in F : x \in ToSet(samples[p]) /\ x.time >= startTime[p]
  BY RestoredSound
<1>2. \A x \in F : x.who # serving[p]
  OBVIOUS
<1> HIDE DEF F
<1>3. samples[p] \in Seq(Points) /\ Ordered(samples[p]) /\ startTime[p] \in Nat
  BY DEF IInv, TypeOK, Scraped
<1>4. \A x \in F : x.time = startTime[p]
  <2>1. \A x \in F : x.time \in Nat
    BY <1>1, <1>3, PointsOf
  <2>2. \A x \in F : x.time <= startTime[p]
    BY <1>1, <1>2 DEF IInv, Started
  <2> QED BY <1>1, <1>3, <2>1, <2>2
<1>5. \A x, y \in F : x = y
  <2> SUFFICES ASSUME NEW x \in F, NEW y \in F PROVE x = y
    OBVIOUS
  <2>1. PICK i \in 1..Len(samples[p]) : x = samples[p][i]
    BY <1>1, <1>3, SeqType
  <2>2. PICK j \in 1..Len(samples[p]) : y = samples[p][j]
    BY <1>1, <1>3, SeqType
  <2>3. x.time = y.time /\ x.time \in Nat
    BY <1>3, <1>4
  <2>4. ~(i < j) /\ ~(j < i)
    BY <1>3, <2>1, <2>2, <2>3 DEF Ordered
  <2>5. i = j
    BY <2>4
  <2> QED BY <2>1, <2>2, <2>5
<1>6. \E a : F \subseteq {a}
  BY <1>5
<1> QED BY <1>6 DEF F

LEMMA RestartInv == ASSUME IInv, Restart PROVE IInv'
<1>1. \A p \in Pods : series'[p] = NoSeries \/ series'[p] = Restored(p)
  BY DEF Restart
<1>2. DOMAIN series' = Pods /\ series' = [p \in Pods |-> series'[p]]
  BY DEF Restart
<1>3. \A p \in Live' : /\ p \in Pods /\ Restored(p) # NoSeries /\ series'[p] = Restored(p)
                       /\ Sound(series'[p]) /\ series'[p] \in TimeSeries
  <2> SUFFICES ASSUME NEW p \in Live'
               PROVE  /\ p \in Pods /\ Restored(p) # NoSeries /\ series'[p] = Restored(p)
                      /\ Sound(series'[p]) /\ series'[p] \in TimeSeries
    OBVIOUS
  <2>1. p \in Pods /\ Restored(p) # NoSeries /\ series'[p] = Restored(p)
    BY <1>1 DEF Live
  <2>2. Sound(Restored(p))
    BY <2>1, RestoredSound
  <2> QED BY <2>1, <2>2 DEF Sound
<1>4. \A p \in Pods : series'[p] \in TimeSeries \cup {NoSeries}
  BY <1>3 DEF Live
<1>5. series' \in [Pods -> TimeSeries \cup {NoSeries}]
  BY <1>2, <1>4
<1>6. /\ cur' = <<>> /\ todo' = {} /\ mixed' \subseteq Pods
      /\ restarts' \in 0..MaxRestarts
      /\ fetched' = [p \in Pods |-> <<>>]
      /\ changing' = [p \in Pods |-> "no"] /\ caller' = [p \in Pods |-> Idle]
      /\ tenantName' = [p \in Pods |-> tenantName'[p]]
      /\ \A p \in Pods : /\ tenantName'[p] \in {serving[p], Idle}
                         /\ p \notin mixed' => tenantName'[p] = serving[p]
      /\ UNCHANGED <<now, interval, serving, startTime, samples>>
  BY TimeAssumption DEF Restart, IInv, TypeOK
<1>7. /\ fetched' \in [Pods -> Seq(Points)]
      /\ cur' \in Seq([pod : Pods, sec : Intervals])
      /\ \A p \in Pods : ToSet(fetched'[p]) = {}
  BY <1>6, NoneOfEmpty, EmptySeq
<1>8. TypeOK'
  BY <1>5, <1>6, <1>7 DEF IInv, TypeOK
<1>9. Sounds'
  BY <1>3 DEF Sounds
<1>10. Scraped' /\ Asked' /\ Resizing' /\ Started'
  BY <1>6 DEF IInv, Scraped, Asked, Resizing, Known, Started
<1>11. AtMostTwo'
  <2> SUFFICES ASSUME NEW p \in Live' PROVE Few(p)'
    BY DEF AtMostTwo
  <2>1. \E a : {x \in ToSet(Restored(p).pts) : x.who # serving[p]} \subseteq {a}
    BY <1>3, RestoredFew
  <2>2. Others(p)' = {x \in ToSet(Restored(p).pts) : x.who # serving[p]}
    BY <1>3, <1>6 DEF Others
  <2>3. ToSet(fetched'[p]) = {}
    BY <1>3, <1>7
  <2> HIDE DEF Others, Coming
  <2> QED BY <2>1, <2>2, <2>3 DEF Few
<1> QED BY <1>8, <1>9, <1>10, <1>11 DEF IInv

-----------------------------------------------------------------------------
(* The theorems                                                            *)

LEMMA StutterInv == ASSUME IInv, UNCHANGED vars PROVE IInv'
<1> USE DEF vars, envVars, resizeVars, collectVars
<1>1. TypeOK'
  BY DEF IInv, TypeOK
<1>2. Sounds' /\ Scraped' /\ Asked' /\ Resizing' /\ Started'
  BY DEF IInv, Sounds, Live, Scraped, Asked, Resizing, Known, Started
<1>3. AtMostTwo'
  BY DEF IInv, AtMostTwo, Live, Few, Others, Coming
<1> QED BY <1>1, <1>2, <1>3 DEF IInv

LEMMA NextInv == ASSUME IInv, [Next]_vars PROVE IInv'
<1>1. CASE Tick
  BY <1>1, TickInv
<1>2. CASE Query
  BY <1>2, QueryInv
<1>3. CASE InsertWithUserCfg
  BY <1>3, InsertInv
<1>4. CASE Restart
  BY <1>4, RestartInv
<1>5. CASE \E t \in Tenants : ReloadConf(t)
  BY <1>5, ReloadConfInv
<1>6. ASSUME NEW p \in Pods, Scrape(p) \/ LookUp(p) PROVE IInv'
  BY <1>6, ScrapeInv, LookUpInv
<1>7. ASSUME NEW p \in Pods,
             AssignOk(p) \/ AssignLost(p) \/ PopPod(p) \/ UnassignOk(p)
             \/ UnassignUndone(p)
      PROVE  IInv'
  BY <1>7, AssignOkInv, AssignLostInv, PopPodInv, UnassignOkInv, UnassignUndoneInv
<1>8. ASSUME NEW p \in Pods, NEW t \in Tenants, SupAssign(p, t) \/ AssignRejected(p, t)
      PROVE  IInv'
  BY <1>8, SupAssignInv, AssignRejectedInv
<1>9. ASSUME NEW p \in Pods, SupRestart(p) \/ ScanCorrect(p) PROVE IInv'
  BY <1>9, SupRestartInv, ScanCorrectInv
<1>10. CASE UNCHANGED vars
  BY <1>10, StutterInv
<1> QED BY <1>1, <1>2, <1>3, <1>4, <1>5, <1>6, <1>7, <1>8, <1>9, <1>10 DEF Next

LEMMA Invariance == Spec => []IInv
<1>1. IInv /\ [Next]_vars => IInv'
  BY NextInv
<1> QED BY InitInv, <1>1, PTL DEF Spec

\* The variables have their types, and every series has room for a point.
THEOREM TypeCorrect == Spec => []TypeOK
<1>1. IInv => TypeOK
  BY DEF IInv
<1> QED BY Invariance, <1>1, PTL

\* The sum and the number from which a tenant is paused and scaled are those of
\* the points in the window (append of timeseries.go), which are in strictly
\* increasing order of time.
THEOREM StatisticsAreExact == Spec => []StatisticsMatch
<1>1. ASSUME IInv PROVE StatisticsMatch
  <2> SUFFICES ASSUME NEW p \in Live
               PROVE  LET s == series[p]
                      IN /\ s.cnt = Len(s.pts) /\ s.sum = SumOf(s.pts)
                         /\ \A i \in 2..Len(s.pts) : s.pts[i - 1].time < s.pts[i].time
                         /\ s.pts # <<>> => Last(s.pts).time = s.maxTime
    BY DEF StatisticsMatch
  <2> DEFINE s == series[p]
  <2>1. Sound(s)
    BY <1>1 DEF IInv, Sounds
  <2> HIDE DEF s
  <2>2. s.pts \in Seq(Points)
    BY <2>1 DEF Sound, TimeSeries
  <2>3. \A i \in 2..Len(s.pts) : s.pts[i - 1].time < s.pts[i].time
    <3> SUFFICES ASSUME NEW i \in 2..Len(s.pts)
                 PROVE  s.pts[i - 1].time < s.pts[i].time
      OBVIOUS
    <3>1. i - 1 \in 1..Len(s.pts) /\ i \in 1..Len(s.pts) /\ i - 1 < i
      BY <2>2, SeqType
    <3> QED BY <2>1, <3>1 DEF Sound, Ordered
  <2>4. /\ s.cnt = Len(s.pts) /\ s.sum = SumOf(s.pts)
        /\ s.pts # <<>> => Last(s.pts).time = s.maxTime
    BY <2>1 DEF Sound
  <2> QED BY <2>3, <2>4 DEF s
<1> QED BY Invariance, <1>1, PTL

\* At most two samples of a pod's work for other tenants are in its series while
\* it is a tenant's (ResetMetricsOfPod, and the start time at a restart).
THEOREM FewSamplesOfOthers == Spec => []FewForeignSamples
<1>1. ASSUME IInv PROVE FewForeignSamples
  <2> SUFFICES ASSUME NEW p \in Live \ mixed, tenantName[p] # Idle
               PROVE  Cardinality(Foreign(p)) <= 2
    BY DEF FewForeignSamples
  <2>1. p \in Pods /\ tenantName[p] = serving[p] /\ changing[p] = "no"
    BY <1>1 DEF IInv, Resizing, Known, Live
  <2>2. Few(p)
    BY <1>1, <2>1 DEF IInv, AtMostTwo
  <2>3. Foreign(p) = Others(p)
    BY <2>1 DEF Foreign, Others
  <2>4. \E a, b : Foreign(p) \subseteq {a, b}
    <3>1. CASE Others(p) = {}
      BY <2>3, <3>1
    <3>2. CASE \E a : Others(p) \subseteq {a}
      BY <2>3, <3>2
    <3> QED BY <2>2, <2>3, <3>1, <3>2 DEF Few
  <2>5. PICK a, b : Foreign(p) \subseteq {a, b}
    BY <2>4
  <2>6. IsFiniteSet({a}) /\ Cardinality({a}) = 1 /\ {a, b} = {a} \cup {b}
    BY FS_Singleton
  <2>7. IsFiniteSet({a, b}) /\ Cardinality({a, b}) <= 2 /\ Cardinality({a, b}) \in Nat
    BY <2>6, FS_AddElement
  <2>8. Cardinality(Foreign(p)) <= Cardinality({a, b}) /\ Cardinality(Foreign(p)) \in Nat
    BY <2>5, <2>7, FS_Subset, FS_CardinalityType
  <2> QED BY <2>7, <2>8
<1> QED BY Invariance, <1>1, PTL

LEMMA InsertsExactly == ASSUME IInv, Next PROVE InsertExact
<1> SUFFICES ASSUME NEW p \in Live, restarts' = restarts, series'[p] # NoSeries,
                    series'[p].maxTime > series[p].maxTime
             PROVE  series'[p].pts =
                      Window(Append(series[p].pts, fetched[p][1]), series'[p].intervalSec)
  BY DEF InsertExact
<1>0. p \in Pods /\ series[p] # NoSeries /\ Sound(series[p]) /\ series[p].maxTime \in Nat
  BY DEF Live, IInv, Sounds, Sound, TimeSeries
<1>1. series'[p] # series[p]
  BY <1>0
<1>2. CASE InsertWithUserCfg
  <2> DEFINE q == cur[1].pod
             x == fetched[q][1]
             sec == cur[1].sec
             s == series[q]
             n == Insert(s, x, sec)
             t == Opened(s, sec)
  <2>1. /\ q \in Pods /\ sec \in Intervals /\ x \in Points
        /\ s = NoSeries \/ Sound(s)
        /\ series' = [series EXCEPT ![q] = n]
    BY <1>2, Inserted
  <2>2. series \in [Pods -> TimeSeries \cup {NoSeries}]
    BY DEF IInv, TypeOK
  <2> HIDE DEF q, n
  <2>3. q = p /\ series'[p] = n
    BY <1>0, <1>1, <2>1, <2>2
  <2> HIDE DEF s, x, sec
  <2>4. s = series[p] /\ x = fetched[p][1] /\ s # NoSeries /\ Sound(s)
    BY <1>0, <2>3 DEF s, x
  <2>5. t.pts = s.pts /\ t.maxTime = s.maxTime
    BY <2>1, <2>4, OpenedSound
  <2>6. Inserts(s, x, sec)
    BY <2>1, InsertSound
  <2>7. n.intervalSec = sec /\ (n.pts = Grown(s, x, sec) \/ n = t)
    BY <2>6 DEF n, Inserts
  <2>8. x.time > t.maxTime \/ n = t
    BY <2>6 DEF n, Inserts
  <2> HIDE DEF t
  <2>9. n # t
    BY <1>0, <2>3, <2>4, <2>5
  <2> DEFINE ys == Append(s.pts, x)
  <2>10. n.pts = Left(ys, sec)
    <3>1. Grown(s, x, sec) = Left(Append(t.pts, x), sec)
      BY DEF Grown, t
    <3> QED BY <2>5, <2>7, <2>9, <3>1
  <2>11. ys \in Seq(Points) /\ ys # <<>> /\ Ordered(ys)
    <3>1. s.pts \in Seq(Points) /\ Ordered(s.pts)
      BY <2>4 DEF Sound, TimeSeries
    <3>2. s.pts # <<>> => Last(s.pts).time < x.time
      <4>1. x.time > s.maxTime /\ x.time \in Nat /\ s.maxTime \in Nat
        BY <2>1, <2>4, <2>5, <2>8, <2>9, PointType DEF Sound, TimeSeries
      <4> QED BY <2>4, <4>1 DEF Sound
    <3> QED BY <2>1, <3>1, <3>2, AppendProperties, AppendOrdered
  <2> HIDE DEF ys
  <2>12. Left(ys, sec) = Window(ys, sec)
    BY <2>1, <2>11, LeftIsWindow
  <2>13. ys = Append(series[p].pts, fetched[p][1])
    BY <2>4 DEF ys
  <2> QED BY <2>3, <2>7, <2>10, <2>12, <2>13
<1>3. CASE Restart
  <2>1. restarts \in Nat
    BY TimeAssumption DEF IInv, TypeOK
  <2> QED BY <1>3, <2>1 DEF Restart
<1>4. CASE \E q \in Pods : AssignOk(q) \/ UnassignOk(q)
  <2>1. PICK q \in Pods : series' = ResetMetricsOfPod(q)
    BY <1>4 DEF AssignOk, UnassignOk
  <2>2. series'[p] = series[p] \/ series'[p] = NoSeries
    BY <1>0, <2>1 DEF ResetMetricsOfPod, IInv, TypeOK
  <2> QED BY <1>1, <2>2
<1>5. CASE UNCHANGED series
  BY <1>1, <1>5
<1> QED BY <1>2, <1>3, <1>4, <1>5
  DEF Next, Tick, Query, ReloadConf, Scrape, LookUp, PopPod, UnassignUndone, SupAssign,
      AssignLost, AssignRejected, SupRestart, ScanCorrect

LEMMA RestartsExactly == ASSUME IInv, Next PROVE RestartExact
<1> SUFFICES ASSUME restarts' # restarts, NEW p \in Live'
             PROVE  series'[p].pts = Window(SinceAssign(p), series'[p].intervalSec)
  BY DEF RestartExact
<1>1. Restart
  BY DEF Next, Tick, Query, ReloadConf, Scrape, LookUp, AssignOk, PopPod, UnassignOk,
         UnassignUndone, SupAssign, AssignLost, AssignRejected, SupRestart, ScanCorrect,
         InsertWithUserCfg, envVars
<1>2. p \in Pods /\ Restored(p) # NoSeries /\ series'[p] = Restored(p)
  BY <1>1 DEF Restart, Live
<1> QED BY <1>1, <1>2, RestoredSound

\* A series keeps exactly the points of its window, at every insertion and after
\* a restart (append, ReloadCfg and RangeQueryCpu of timeseries.go).
THEOREM WindowIsExact == Spec => WindowExact
<1>1. IInv /\ [Next]_vars => [InsertExact /\ RestartExact]_vars
  BY InsertsExactly, RestartsExactly
<1> QED BY Invariance, <1>1, PTL DEF Spec, WindowExact

=============================================================================
