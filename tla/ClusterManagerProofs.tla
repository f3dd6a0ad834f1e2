------------------------ MODULE ClusterManagerProofs ------------------------
(***************************************************************************)
(* The safety invariants of ClusterManager hold for any pods, tenants,     *)
(* loops, revisions and faults.  IInv makes them inductive:                *)
(*   - Forward and OneByOne say what the server may do to its pods;        *)
(*   - WatchShape orders resourceVersion and the revision of a list;       *)
(*   - PhaseShape ties the phase of the process to its watch and to the    *)
(*     pods it has lent;                                                   *)
(*   - Serving follows a pod that serves a tenant from the list at         *)
(*     start-up through the scan, lost replies and the calls after them.   *)
(***************************************************************************)
EXTENDS ClusterManager, TLAPS

Forward ==
  \A i, j \in 1..Revision : i <= j =>
    \A p \in Pods :
      /\ history[i][p] = "running" => history[j][p] \in {"running", "dead"}
      /\ history[i][p] = "dead" => history[j][p] = "dead"

OneByOne ==
  \A i, j \in 1..Revision : j = i + 1 =>
    \A p, q \in Pods :
      history[j][p] # history[i][p] /\ history[j][q] # history[i][q] => p = q

WatchShape ==
  /\ wpc = "apply" => listed > 0 /\ rv <= listed
  /\ wpc \in {"check", "watch", "install", "read"} => rv > 0
  /\ rv = 0 => \A p \in Pods : known[p] = "absent"

PhaseShape ==
  /\ phase \in {"down", "cloneSet"} => wpc = "off" /\ rv = 0
  /\ phase = "load" => wpc \in {"list", "apply"}
  /\ phase = "scan" => wpc = "off" /\ rv > 0
  /\ phase = "up" => rv > 0
  /\ phase # "scan" => toScan = {}
  /\ phase \in {"down", "cloneSet", "load"} =>
       astray = {} /\ \A p \in Pods : lent[p] = Pool

Serving(p) ==
  sup[p] # Pool =>
    /\ history[Revision][p] = "running"
    /\ phase = "load" /\ wpc = "apply" => history[listed][p] = "running"
    /\ phase \in {"scan", "up"} => known[p] = "running"
    /\ phase \in {"scan", "up"} /\ p \notin toScan =>
         lent[p] = IF p \in astray THEN Pool ELSE sup[p]
    /\ p \in toScan => lent[p] = Pool /\ p \notin astray

ServingInv == \A p \in Pods : Serving(p)

IInv ==
  /\ TypeOK /\ OneTask /\ Forward /\ OneByOne
  /\ WatchShape /\ MirrorsRevision /\ PhaseShape /\ ServingInv

USE OwnersAssumption, LoopsAssumption, FaultsAssumption, RevisionAssumption
    DEF OwnersAssumption, LoopsAssumption, FaultsAssumption, RevisionAssumption

-----------------------------------------------------------------------------
(* Initially                                                               *)

LEMMA InitIInv == Init => IInv
<1> SUFFICES ASSUME Init PROVE IInv
  OBVIOUS
<1> USE DEF Init, ServerInit, WatchInit, Revision
<1>1. history \in Seq([Pods -> Lives]) /\ Len(history) = 1 /\ history[1] = NoPods
  BY DEF NoPods, Lives
<1>2. WatchTypeOK
  BY <1>1 DEF WatchTypeOK, Absent, Living
<1>3. TypeOK
  <2>1. lent \in [Pods -> Owners] /\ sup \in [Pods -> Owners]
    BY DEF Owners
  <2>2. tasks \in [Tenants -> Nat]
    OBVIOUS
  <2>3. loops \in [Loops -> {"none", "new", "running", "ended"}]
    OBVIOUS
  <2>4. faults \in 0..MaxFaults /\ starting \in Owners
    BY DEF Owners
  <2> QED BY <1>2, <2>1, <2>2, <2>3, <2>4 DEF TypeOK
<1>4. OneTask
  BY DEF OneTask
<1>5. Forward /\ OneByOne
  BY <1>1 DEF Forward, OneByOne, NoPods
<1>6. WatchShape /\ MirrorsRevision /\ PhaseShape /\ ServingInv
  BY DEF WatchShape, MirrorsRevision, PhaseShape, ServingInv, Serving, Absent
<1> QED BY <1>3, <1>4, <1>5, <1>6 DEF IInv

-----------------------------------------------------------------------------
(* The history                                                             *)

\* The history grows by the change of one pod, or stays.
LEMMA HistorySteps ==
  ASSUME [Next]_vars
  PROVE  \/ UNCHANGED history
         \/ \E p \in Pods, life \in Lives : PodEvent(p, life)
<1>1. CASE \E p \in Pods : PodChanges(p)
  BY <1>1 DEF PodChanges
<1>2. CASE StartUp
  BY <1>2 DEF StartUp, Start, DeleteCloneSet, createCloneSet, BeginLoad,
              LoadedAtStart, Ready, ScanPod, serverVars
<1>3. CASE WatchLoop \/ NoWatch
  BY <1>3 DEF WatchLoop, ListPods, WatchStep, InstallWatcher, HandleEvent,
              LoadedAgain, NoWatch, serverVars
<1>4. CASE \E l \in Loops : Goroutine(l)
  BY <1>4 DEF Goroutine, LoopBegins, LoopEnds, serverVars
<1>5. CASE ManageRound \/ \E t \in Tenants : NewTenant(t) \/ TaskEnds(t)
  BY <1>5 DEF ManageRound, StartTask, StoreTask, NewTenant, TaskEnds, serverVars
<1>6. CASE \E p \in Pods : \/ ScanAgain(p) \/ GiveBack(p)
                           \/ \E t \in Tenants : Lend(p, t)
  BY <1>6 DEF ScanAgain, GiveBack, Lend, serverVars
<1>7. CASE Shutdown \/ StopWatcher \/ WaitReturns \/ Crash \/ Panic
  BY <1>7 DEF Shutdown, StopWatcher, WaitReturns, Crash, Panic, serverVars
<1>8. CASE ServerCompacts \/ ServerEndsWatch
  BY <1>8 DEF ServerCompacts, Compact, ServerEndsWatch, serverVars
<1>9. CASE UNCHANGED vars
  BY <1>9 DEF vars, serverVars
<1> QED BY <1>1, <1>2, <1>3, <1>4, <1>5, <1>6, <1>7, <1>8, <1>9 DEF Next

\* What an event makes of the history.
LEMMA Grown ==
  ASSUME WatchTypeOK, NEW p \in Pods, NEW life \in Lives, PodEvent(p, life)
  PROVE  /\ history' \in Seq([Pods -> Lives])
         /\ Revision \in Nat /\ Revision > 0 /\ Revision' = Revision + 1
         /\ \A i \in 1..Revision : history'[i] = history[i]
         /\ history'[Revision'] = [history[Revision] EXCEPT ![p] = life]
         /\ history[Revision] \in [Pods -> Lives]
<1> USE DEF WatchTypeOK, PodEvent, Revision
<1>1. history \in Seq([Pods -> Lives]) /\ Len(history) \in Nat /\ Len(history) > 0
  OBVIOUS
<1>2. history[Len(history)] \in [Pods -> Lives]
  BY <1>1
<1>3. [history[Len(history)] EXCEPT ![p] = life] \in [Pods -> Lives]
  BY <1>2
<1> QED BY <1>1, <1>2, <1>3

LEMMA HistoryInv ==
  ASSUME WatchTypeOK, Forward, OneByOne, [Next]_vars
  PROVE  Forward' /\ OneByOne'
<1>1. CASE UNCHANGED history
  BY <1>1 DEF Forward, OneByOne, Revision
<1>2. ASSUME NEW p \in Pods, NEW life \in Lives, PodEvent(p, life)
      PROVE  Forward' /\ OneByOne'
  <2> DEFINE n == Revision
  <2>1. /\ n \in Nat /\ n > 0 /\ Revision' = n + 1
        /\ \A i \in 1..n : history'[i] = history[i]
        /\ history'[n + 1] = [history[n] EXCEPT ![p] = life]
        /\ history[n] \in [Pods -> Lives]
    BY <1>2, Grown
  <2>2. Succession(history[n][p], life)
    BY <1>2 DEF PodEvent
  <2>3. \A q \in Pods : /\ q # p => history'[n + 1][q] = history[n][q]
                        /\ history'[n + 1][p] = life
    BY <2>1
  <2>4. Forward'
    <3> SUFFICES ASSUME NEW i \in 1..(n + 1), NEW j \in 1..(n + 1), i <= j,
                        NEW q \in Pods
                 PROVE  /\ history'[i][q] = "running"
                             => history'[j][q] \in {"running", "dead"}
                        /\ history'[i][q] = "dead" => history'[j][q] = "dead"
      BY <2>1 DEF Forward
    <3>1. CASE j \in 1..n
      BY <3>1, <2>1 DEF Forward
    <3>2. CASE i = n + 1 /\ j = n + 1
      BY <3>2
    <3>3. CASE i \in 1..n /\ j = n + 1
      <4>1. /\ history[i][q] = "running" => history[n][q] \in {"running", "dead"}
            /\ history[i][q] = "dead" => history[n][q] = "dead"
        BY <3>3, <2>1 DEF Forward
      <4> QED BY <4>1, <3>3, <2>1, <2>2, <2>3 DEF Succession
    <3> QED BY <3>1, <3>2, <3>3, <2>1
  <2>5. OneByOne'
    <3> SUFFICES ASSUME NEW i \in 1..(n + 1), NEW j \in 1..(n + 1), j = i + 1,
                        NEW q \in Pods, NEW r \in Pods,
                        history'[j][q] # history'[i][q],
                        history'[j][r] # history'[i][r]
                 PROVE  q = r
      BY <2>1 DEF OneByOne
    <3>1. CASE j \in 1..n
      <4>1. i \in 1..n /\ history'[i] = history[i] /\ history'[j] = history[j]
        BY <3>1, <2>1
      <4> QED BY <4>1, <3>1 DEF OneByOne
    <3>2. CASE j = n + 1
      <4>1. i = n /\ history'[i] = history[n]
        BY <3>2, <2>1
      <4> QED BY <4>1, <3>2, <2>3
    <3> QED BY <3>1, <3>2, <2>1
  <2> QED BY <2>4, <2>5
<1> QED BY <1>1, <1>2, HistorySteps

-----------------------------------------------------------------------------
(* The watch                                                               *)

\* What the watch needs of the process.
WatchInv ==
  WatchTypeOK /\ Forward /\ OneByOne /\ WatchShape /\ MirrorsRevision

\* An event leaves the revisions there were as they were.
LEMMA EventWatch ==
  ASSUME WatchInv, NEW p \in Pods, NEW life \in Lives, PodEvent(p, life),
         UNCHANGED watchVars
  PROVE  WatchTypeOK' /\ WatchShape' /\ MirrorsRevision'
<1> USE DEF WatchInv, watchVars
<1>1. /\ history' \in Seq([Pods -> Lives])
      /\ Revision \in Nat /\ Revision > 0 /\ Revision' = Revision + 1
      /\ \A i \in 1..Revision : history'[i] = history[i]
  BY Grown
<1>2. WatchTypeOK'
  BY <1>1 DEF WatchTypeOK, PodEvent
<1>3. MirrorsRevision'
  BY <1>1 DEF MirrorsRevision, WatchTypeOK
<1> QED BY <1>2, <1>3 DEF WatchShape

LEMMA ListWatch ==
  ASSUME WatchInv, List, UNCHANGED serverVars
  PROVE  WatchTypeOK' /\ WatchShape' /\ MirrorsRevision'
<1> USE DEF WatchInv, List, serverVars, Revision
<1>1. Len(history) \in Nat /\ Len(history) > 0
  BY DEF WatchTypeOK
<1>2. WatchTypeOK'
  BY <1>1 DEF WatchTypeOK
<1>3. WatchShape'
  BY <1>1 DEF WatchShape, WatchTypeOK
<1> QED BY <1>2, <1>3 DEF MirrorsRevision

\* After loadPods the map is the cluster at the revision of the list.
LEMMA ApplyWatch ==
  ASSUME WatchInv, UNCHANGED serverVars, NEW next \in {"off", "check"},
         Apply(next)
  PROVE  /\ WatchTypeOK' /\ WatchShape' /\ MirrorsRevision'
         /\ rv' = listed /\ listed \in 1..Revision
<1> USE DEF WatchInv, Apply, serverVars, Revision, ListedRevision
<1>1. /\ listed \in 1..Len(history) /\ rv \in 0..listed /\ rv' = listed
      /\ history[listed] \in [Pods -> Lives]
  BY DEF WatchTypeOK, WatchShape
<1>2. \A p \in Pods : known'[p] = Seen(history[listed][p])
  <2> SUFFICES ASSUME NEW p \in Pods
               PROVE  Loaded(history[listed])[p] = Seen(history[listed][p])
    OBVIOUS
  <2> DEFINE life == history[listed][p]
  <2>1. known[p] = "running" => life \in {"running", "dead"}
    <3>1. CASE rv = 0
      BY <3>1 DEF WatchShape
    <3>2. CASE rv > 0
      <4>1. known[p] = Seen(history[rv][p]) /\ rv \in 1..Len(history)
        BY <1>1, <3>2 DEF MirrorsRevision
      <4>2. known[p] = "running" => history[rv][p] = "running"
        BY <4>1 DEF Seen
      <4> QED BY <1>1, <4>1, <4>2 DEF Forward
    <3> QED BY <1>1, <3>1, <3>2
  <2>2. life \notin Living => p \in Expired(history[listed])
    BY DEF Expired
  <2> QED BY <2>1, <2>2 DEF Loaded, Updated, Seen, Living
<1>3. known' \in [Pods -> Living \cup {"absent"}]
  <2>1. \A p \in Pods : known'[p] \in Living \cup {"absent"}
    BY <1>2 DEF Seen
  <2> QED BY <2>1 DEF Loaded
<1>4. WatchTypeOK'
  BY <1>1, <1>3 DEF WatchTypeOK
<1>5. MirrorsRevision'
  BY <1>1, <1>2 DEF MirrorsRevision, Seen
<1> QED BY <1>1, <1>4, <1>5 DEF WatchShape

\* The event after the revision brings the map to the next one.
LEMMA ReceiveWatch ==
  ASSUME WatchInv, Receive, UNCHANGED serverVars
  PROVE  WatchTypeOK' /\ WatchShape' /\ MirrorsRevision'
<1> USE DEF WatchInv, Receive, serverVars, Revision
<1>1. /\ rv \in 1..Len(history) /\ rv + 1 \in 1..Len(history) /\ rv' = rv + 1
      /\ history[rv + 1] \in [Pods -> Lives]
  BY DEF WatchTypeOK, WatchShape
<1>2. PICK p \in Pods : /\ history[rv + 1][p] # history[rv][p]
                        /\ known' = Handled(p, history[rv + 1][p])
  OBVIOUS
<1>3. \A q \in Pods \ {p} : history[rv + 1][q] = history[rv][q]
  BY <1>1, <1>2 DEF OneByOne
<1>4. \A q \in Pods : known[q] = Seen(history[rv][q])
  BY <1>1 DEF MirrorsRevision
<1>5. known \in [Pods -> Living \cup {"absent"}]
  BY DEF WatchTypeOK
<1>6. \A q \in Pods : known'[q] = Seen(history[rv + 1][q])
  <2>1. \A q \in Pods \ {p} : known'[q] = known[q]
    BY <1>2, <1>5 DEF Handled
  <2>2. known'[p] = Seen(history[rv + 1][p])
    <3>1. known[p] = "running" => history[rv + 1][p] \in {"running", "dead"}
      <4>1. known[p] = "running" => history[rv][p] = "running"
        BY <1>4 DEF Seen
      <4> QED BY <1>1, <4>1 DEF Forward
    <3> QED BY <1>2, <1>5, <3>1 DEF Handled, Updated, Seen, Living
  <2> QED BY <1>3, <1>4, <2>1, <2>2
<1>7. known' \in [Pods -> Living \cup {"absent"}]
  <2>1. \A q \in Pods : known'[q] \in Living \cup {"absent"}
    BY <1>6 DEF Seen
  <2> QED BY <1>2, <1>5, <2>1 DEF Handled
<1>8. WatchTypeOK'
  BY <1>1, <1>7 DEF WatchTypeOK
<1>9. MirrorsRevision'
  BY <1>1, <1>6 DEF MirrorsRevision, Seen
<1> QED BY <1>1, <1>8, <1>9 DEF WatchShape

\* The process that dies knows nothing.
LEMMA ForgetWatch ==
  ASSUME WatchInv, Forget, UNCHANGED serverVars
  PROVE  WatchTypeOK' /\ WatchShape' /\ MirrorsRevision'
<1> USE DEF WatchInv, Forget, serverVars, Revision
<1>1. WatchTypeOK'
  BY DEF WatchTypeOK, Absent
<1> QED BY <1>1 DEF WatchShape, MirrorsRevision, Absent

\* The other steps of the loop change where it is and what its channel is.
LEMMA LoopWatch ==
  ASSUME WatchInv, UNCHANGED <<history, rv, listed, known>>,
         compacted' \in 1..Revision, channel' \in {"none", "open", "failed", "closed"},
         \/ wpc' \in {"off", "list", wpc}
         \/ wpc' \in {"check", "watch", "install", "read"} /\ rv > 0
  PROVE  WatchTypeOK' /\ WatchShape' /\ MirrorsRevision'
<1> USE DEF WatchInv, Revision
<1>1. WatchTypeOK'
  BY DEF WatchTypeOK
<1>2. WatchShape'
  BY DEF WatchShape
<1> QED BY <1>1, <1>2 DEF MirrorsRevision

\* Every step of the process keeps what is known of the watch.
LEMMA WatchStepInv ==
  ASSUME WatchInv, PhaseShape, [Next]_vars
  PROVE  WatchTypeOK' /\ WatchShape' /\ MirrorsRevision' /\ PhaseShape'
<1> DEFINE Kept == WatchTypeOK' /\ WatchShape' /\ MirrorsRevision'
<1> USE DEF PhaseShape
<1>1. /\ compacted \in 1..Revision /\ Revision \in Nat /\ rv \in Nat
      /\ channel \in {"none", "open", "failed", "closed"}
      /\ wpc \in {"check", "watch", "install", "read"} => rv > 0
  BY DEF WatchInv, WatchTypeOK, Revision, WatchShape
<1>2. UNCHANGED <<serverVars, watchVars>> => Kept
  BY <1>1, LoopWatch DEF serverVars, watchVars, Revision
<1>3. CASE Start \/ DeleteCloneSet \/ createCloneSet
  BY <1>2, <1>3 DEF Start, DeleteCloneSet, createCloneSet, lifeVars, bookVars,
                    watchVars
<1>4. CASE BeginLoad
  <2>1. Kept
    BY <1>1, <1>4, LoopWatch DEF BeginLoad, serverVars, Revision
  <2> QED BY <1>4, <2>1 DEF BeginLoad, bookVars
<1>5. CASE LoadedAtStart
  <2>1. Kept /\ rv' = listed /\ listed \in 1..Revision
    BY <1>5, ApplyWatch DEF LoadedAtStart
  <2> QED BY <1>5, <2>1, <1>1 DEF LoadedAtStart, Apply
<1>6. CASE Ready
  <2>1. Kept
    BY <1>1, <1>6, LoopWatch DEF Ready, serverVars, Revision
  <2> QED BY <1>6, <2>1 DEF Ready, bookVars
<1>7. ASSUME NEW p \in Pods, ScanPod(p) PROVE Kept /\ PhaseShape'
  BY <1>2, <1>7 DEF ScanPod, lifeVars, watchVars
<1>8. CASE ListPods
  <2>1. Kept
    BY <1>8, ListWatch DEF ListPods
  <2> QED BY <1>8, <2>1 DEF ListPods, List, lifeVars, bookVars
<1>9. CASE WatchStep
  <2>1. Kept
    BY <1>1, <1>9, LoopWatch DEF WatchStep, Check, Watch, Skip, Closed,
                                 serverVars, Revision
  <2> QED BY <1>1, <1>9, <2>1 DEF WatchStep, Check, Watch, Skip, Closed, bookVars
<1>10. CASE InstallWatcher
  <2>1. Kept
    BY <1>1, <1>10, LoopWatch DEF InstallWatcher, Install, serverVars, Revision
  <2> QED BY <1>1, <1>10, <2>1 DEF InstallWatcher, Install, bookVars
<1>11. CASE HandleEvent
  <2>1. Kept
    BY <1>11, ReceiveWatch DEF HandleEvent
  <2> QED BY <1>1, <1>11, <2>1 DEF HandleEvent, Receive, lifeVars
<1>12. CASE LoadedAgain
  <2>1. Kept /\ rv' = listed /\ listed \in 1..Revision
    BY <1>12, ApplyWatch DEF LoadedAgain
  <2> QED BY <1>1, <1>12, <2>1 DEF LoadedAgain, Apply, lifeVars
<1>13. CASE NoWatch
  <2>1. Kept
    BY <1>1, <1>13, LoopWatch DEF NoWatch, WatchFails, serverVars, Revision
  <2> QED BY <1>1, <1>13, <2>1 DEF NoWatch, WatchFails, lifeVars, bookVars
<1>14. ASSUME NEW l \in Loops, Goroutine(l) PROVE Kept /\ PhaseShape'
  BY <1>2, <1>14 DEF Goroutine, LoopBegins, LoopEnds, bookVars, watchVars
<1>15. CASE ManageRound
  BY <1>2, <1>15 DEF ManageRound, StartTask, StoreTask, lifeVars, bookVars,
                     watchVars
<1>16. ASSUME NEW t \in Tenants, NewTenant(t) \/ TaskEnds(t)
       PROVE  Kept /\ PhaseShape'
  BY <1>2, <1>16 DEF NewTenant, TaskEnds, lifeVars, bookVars, watchVars
<1>17. ASSUME NEW p \in Pods, PodChanges(p) PROVE Kept /\ PhaseShape'
  <2>1. Kept
    BY <1>17, EventWatch DEF PodChanges
  <2> QED BY <1>17, <2>1 DEF PodChanges, watchVars, lifeVars, bookVars
<1>18. ASSUME NEW p \in Pods,
              ScanAgain(p) \/ GiveBack(p) \/ \E t \in Tenants : Lend(p, t)
       PROVE  Kept /\ PhaseShape'
  BY <1>2, <1>18 DEF ScanAgain, GiveBack, Lend, lifeVars, watchVars
<1>19. CASE Shutdown \/ WaitReturns
  BY <1>2, <1>19 DEF Shutdown, WaitReturns, bookVars, watchVars
<1>20. ASSUME Lost, UNCHANGED serverVars PROVE Kept /\ PhaseShape'
  <2>1. Kept
    BY <1>20, ForgetWatch DEF Lost
  <2> QED BY <1>20, <2>1 DEF Lost, Forget
<1>21. CASE StopWatcher
  <2>1. CASE watcher = "nil"
    BY <1>20, <1>21, <2>1 DEF StopWatcher
  <2>2. CASE watcher # "nil"
    <3>1. Kept
      BY <1>1, <1>21, <2>2, LoopWatch DEF StopWatcher, serverVars, Revision
    <3> QED BY <1>21, <2>2, <3>1 DEF StopWatcher, bookVars
  <2> QED BY <2>1, <2>2
<1>22. CASE Crash \/ Panic
  BY <1>20, <1>22 DEF Crash, Panic
<1>23. CASE ServerCompacts
  <2>1. Kept
    BY <1>1, <1>23, LoopWatch DEF ServerCompacts, Compact, watchVars, Revision
  <2> QED BY <1>23, <2>1 DEF ServerCompacts, watchVars, lifeVars, bookVars
<1>24. CASE ServerEndsWatch
  <2>1. Kept
    BY <1>1, <1>24, LoopWatch DEF ServerEndsWatch, EndWatch, serverVars, Revision
  <2> QED BY <1>24, <2>1 DEF ServerEndsWatch, EndWatch, lifeVars, bookVars
<1>25. CASE UNCHANGED vars
  BY <1>2, <1>25 DEF vars, lifeVars, bookVars, watchVars
<1> QED
  BY <1>3, <1>4, <1>5, <1>6, <1>7, <1>8, <1>9, <1>10, <1>11, <1>12, <1>13,
     <1>14, <1>15, <1>16, <1>17, <1>18, <1>19, <1>21, <1>22, <1>23, <1>24,
     <1>25 DEF Next, StartUp, WatchLoop

-----------------------------------------------------------------------------
(* Types and tasks                                                         *)

\* Every step keeps the types, and one task for each entry of analyzeTaskMap.
LEMMA TypeStep ==
  ASSUME TypeOK, OneTask, WatchTypeOK', [Next]_vars
  PROVE  TypeOK' /\ OneTask'
<1> USE DEF TypeOK, OneTask, Owners, lifeVars, bookVars, taskVars, clusterVars
<1>1. CASE Start \/ DeleteCloneSet \/ createCloneSet \/ BeginLoad
  BY <1>1 DEF Start, DeleteCloneSet, createCloneSet, BeginLoad
<1>2. CASE LoadedAtStart
  BY <1>2 DEF LoadedAtStart, ToScan, Listing
<1>3. CASE Ready
  BY <1>3 DEF Ready
<1>4. ASSUME NEW p \in Pods, ScanPod(p) PROVE TypeOK' /\ OneTask'
  BY <1>4 DEF ScanPod, Corrected, Fault
<1>5. CASE ListPods \/ WatchStep \/ InstallWatcher
  BY <1>5 DEF ListPods, WatchStep, InstallWatcher
<1>6. CASE HandleEvent \/ LoadedAgain
  BY <1>6 DEF HandleEvent, LoadedAgain, Listing
<1>7. CASE NoWatch
  BY <1>7 DEF NoWatch, Fault
<1>8. ASSUME NEW l \in Loops, Goroutine(l) PROVE TypeOK' /\ OneTask'
  BY <1>8 DEF Goroutine, LoopBegins, LoopEnds, AllTold
<1>9. CASE ManageRound
  BY <1>9 DEF ManageRound, StartTask, StoreTask, WithoutTask
<1>10. ASSUME NEW t \in Tenants, NewTenant(t) PROVE TypeOK' /\ OneTask'
  BY <1>10 DEF NewTenant
<1>11. ASSUME NEW t \in Tenants, TaskEnds(t) PROVE TypeOK' /\ OneTask'
  BY <1>11 DEF TaskEnds
<1>12. ASSUME NEW p \in Pods, PodChanges(p) PROVE TypeOK' /\ OneTask'
  BY <1>12 DEF PodChanges
<1>13. ASSUME NEW p \in Pods, ScanAgain(p) \/ GiveBack(p)
       PROVE  TypeOK' /\ OneTask'
  BY <1>13 DEF ScanAgain, GiveBack, Corrected, Fault
<1>14. ASSUME NEW p \in Pods, NEW t \in Tenants, Lend(p, t)
       PROVE  TypeOK' /\ OneTask'
  BY <1>14 DEF Lend, Corrected, Fault
<1>15. CASE Shutdown \/ WaitReturns
  <2>1. UNCHANGED <<bookVars, taskVars, loops, watcher, clusterVars, faults>>
        /\ phase' = phase /\ shutdown' \in BOOLEAN
        /\ stopper' \in {"none", "stop", "wait", "returned"}
    BY <1>15 DEF Shutdown, WaitReturns
  <2> QED BY <2>1
<1>16. ASSUME Lost, UNCHANGED clusterVars, faults' \in 0..MaxFaults
       PROVE  TypeOK' /\ OneTask'
  <2>1. lent' \in [Pods -> Owners]
    BY <1>16 DEF Lost
  <2>2. loops' \in [Loops -> {"none", "new", "running", "ended"}]
    BY <1>16 DEF Lost
  <2>3. tasks' \in [Tenants -> Nat] /\ mapped' = {} /\ OneTask'
    BY <1>16 DEF Lost
  <2> QED BY <1>16, <2>1, <2>2, <2>3 DEF Lost
<1>17. CASE StopWatcher \/ Crash \/ Panic
  <2>1. CASE StopWatcher /\ watcher # "nil"
    BY <2>1 DEF StopWatcher
  <2>2. CASE Crash \/ Panic
    BY <1>16, <2>2 DEF Crash, Panic, Fault
  <2> QED BY <1>16, <1>17, <2>1, <2>2 DEF StopWatcher
<1>18. CASE ServerCompacts \/ ServerEndsWatch
  BY <1>18 DEF ServerCompacts, ServerEndsWatch
<1>19. CASE UNCHANGED vars
  BY <1>19 DEF vars
<1> QED
  BY <1>1, <1>2, <1>3, <1>4, <1>5, <1>6, <1>7, <1>8, <1>9, <1>10, <1>11,
     <1>12, <1>13, <1>14, <1>15, <1>16, <1>17, <1>18, <1>19
     DEF Next, StartUp, WatchLoop

-----------------------------------------------------------------------------
(* Pods that serve                                                         *)

\* A pod that serves and is known is known after what the watch learns next:
\* the server would have told that it died, and it serves no longer then.
LEMMA StaysKnown ==
  ASSUME WatchTypeOK', Forward', MirrorsRevision', NEW p \in Pods,
         history'[Revision'][p] = "running", rv' > 0,
         NEW i \in 1..Revision', i <= rv', history'[i][p] = "running"
  PROVE  known'[p] = "running"
<1>1. rv' \in 1..Revision' /\ Revision' \in 1..Revision'
  BY DEF WatchTypeOK, Revision
<1>2. history'[rv'][p] \in {"running", "dead"}
  BY <1>1 DEF Forward
<1>3. history'[rv'][p] # "dead"
  BY <1>1 DEF Forward, WatchTypeOK, Revision
<1> QED BY <1>1, <1>2, <1>3 DEF MirrorsRevision, Seen, Living

\* Every step keeps what is known of the pods that serve.
LEMMA ServingStep ==
  ASSUME IInv, TypeOK', Forward', WatchShape', MirrorsRevision', PhaseShape',
         [Next]_vars
  PROVE  ServingInv'
<1> SUFFICES ASSUME NEW q \in Pods, sup'[q] # Pool
             PROVE  Serving(q)'
  BY DEF ServingInv, Serving
<1> USE DEF Serving, PhaseShape, lifeVars, bookVars, clusterVars
<1>1. Serving(q) /\ TypeOK /\ WatchTypeOK /\ WatchTypeOK'
  BY DEF IInv, ServingInv, TypeOK
<1>2. PhaseShape /\ WatchShape /\ MirrorsRevision /\ Forward
  BY DEF IInv
<1>3. Revision \in Nat /\ Revision > 0
  BY <1>1 DEF WatchTypeOK, Revision
<1>4. CASE UNCHANGED <<serverVars, watchVars, bookVars, phase, sup>>
  BY <1>1, <1>4 DEF serverVars, watchVars, Revision
<1>5. CASE Start \/ DeleteCloneSet \/ createCloneSet \/ BeginLoad
  BY <1>1, <1>5 DEF Start, DeleteCloneSet, createCloneSet, BeginLoad,
                    serverVars, watchVars, Revision
<1>6. CASE LoadedAtStart
  <2>1. UNCHANGED <<sup, history>> /\ phase' = "scan" /\ toScan' = ToScan
        /\ rv' = listed /\ listed \in 1..Revision
    BY <1>1, <1>2, <1>6 DEF LoadedAtStart, Apply, ListedRevision, serverVars,
                            WatchShape, WatchTypeOK
  <2>2. history[Revision][q] = "running" /\ history[listed][q] = "running"
    BY <1>1, <1>6, <2>1 DEF LoadedAtStart, Apply
  <2>3. known'[q] = "running"
    BY <1>1, <1>3, <2>1, <2>2, StaysKnown DEF Revision
  <2>4. lent'[q] = Pool /\ q \notin astray' /\ q \in toScan'
    BY <1>1, <1>2, <1>6, <2>1, <2>3 DEF LoadedAtStart, Listing, ToScan
  <2> QED BY <2>1, <2>2, <2>3, <2>4 DEF Revision
<1>7. CASE Ready
  BY <1>1, <1>2, <1>7 DEF Ready, serverVars, Revision
<1>8. ASSUME NEW p \in Pods, ScanPod(p) PROVE Serving(q)'
  <2>1. UNCHANGED <<history, listed, known, phase, sup, wpc>> /\ toScan' = toScan \ {p}
    BY <1>8 DEF ScanPod, serverVars, watchVars
  <2>2. CASE q = p
    BY <1>1, <1>8, <2>1, <2>2 DEF ScanPod, Corrected, Revision, TypeOK
  <2>3. CASE q # p
    BY <1>1, <1>8, <2>1, <2>3 DEF ScanPod, Corrected, Revision, TypeOK
  <2> QED BY <2>2, <2>3
<1>9. CASE ListPods
  BY <1>1, <1>2, <1>3, <1>9 DEF ListPods, List, serverVars, Revision
<1>10. CASE WatchStep \/ InstallWatcher \/ NoWatch \/ ServerEndsWatch
  BY <1>1, <1>10 DEF WatchStep, Check, Watch, Skip, Closed, InstallWatcher,
                     Install, NoWatch, WatchFails, ServerEndsWatch, EndWatch,
                     serverVars, Revision
<1>11. CASE HandleEvent \/ LoadedAgain
  <2>1. /\ UNCHANGED <<sup, history, phase, toScan, astray>> /\ lent' = Listing
        /\ rv' \in 1..Revision /\ rv <= rv' /\ wpc' # "apply"
    BY <1>1, <1>2, <1>3, <1>11
       DEF HandleEvent, LoadedAgain, Receive, Apply, ListedRevision, serverVars,
           WatchShape, WatchTypeOK
  <2>2. CASE phase \in {"scan", "up"}
    <3>1. /\ known[q] = "running" /\ history[Revision][q] = "running"
          /\ rv \in 1..Revision
      BY <1>1, <1>2, <2>1, <2>2 DEF WatchTypeOK
    <3>2. history[rv][q] = "running"
      BY <1>2, <3>1 DEF MirrorsRevision, Seen
    <3>3. known'[q] = "running"
      BY <1>1, <1>3, <2>1, <3>1, <3>2, StaysKnown DEF Revision
    <3> QED BY <1>1, <2>1, <2>2, <3>1, <3>3 DEF Listing, Revision
  <2> QED BY <1>1, <2>1, <2>2 DEF Revision
<1>12. CASE ManageRound \/ (\E l \in Loops : Goroutine(l))
            \/ \E t \in Tenants : NewTenant(t) \/ TaskEnds(t)
  BY <1>4, <1>12 DEF ManageRound, StartTask, StoreTask, Goroutine, LoopBegins,
                     LoopEnds, NewTenant, TaskEnds
<1>13. ASSUME NEW p \in Pods, PodChanges(p) PROVE Serving(q)'
  <2>1. PICK life \in Lives :
          /\ PodEvent(p, life)
          /\ sup' = IF life = "dead" THEN [sup EXCEPT ![p] = Pool] ELSE sup
    BY <1>13 DEF PodChanges
  <2>2. /\ Revision' = Revision + 1
        /\ \A i \in 1..Revision : history'[i] = history[i]
        /\ history'[Revision'] = [history[Revision] EXCEPT ![p] = life]
        /\ history[Revision] \in [Pods -> Lives]
    BY <1>1, <2>1, Grown
  <2>3. sup[q] # Pool /\ history[Revision][q] = "running"
    BY <1>1, <2>1 DEF TypeOK
  <2>4. q # p
    BY <1>1, <2>1, <2>3 DEF PodEvent, Succession, TypeOK
  <2>5. history'[Revision'][q] = "running"
    BY <2>2, <2>3, <2>4
  <2>6. UNCHANGED <<watchVars, bookVars, phase>> /\ sup'[q] = sup[q]
    BY <1>1, <1>13, <2>1, <2>4 DEF PodChanges, TypeOK
  <2>7. phase = "load" /\ wpc = "apply" => listed \in 1..Revision
    BY <1>1, <1>2 DEF WatchShape, WatchTypeOK
  <2> QED BY <1>1, <2>2, <2>3, <2>5, <2>6, <2>7 DEF watchVars
<1>14. ASSUME NEW p \in Pods, ScanAgain(p) \/ GiveBack(p) PROVE Serving(q)'
  BY <1>1, <1>14 DEF ScanAgain, GiveBack, Corrected, TypeOK, serverVars, watchVars,
                     Revision
<1>15. ASSUME NEW p \in Pods, NEW t \in Tenants, Lend(p, t) PROVE Serving(q)'
  BY <1>1, <1>15 DEF Lend, Answers, Corrected, TypeOK, serverVars, watchVars,
                     Revision
<1>16. CASE Shutdown \/ WaitReturns
  BY <1>4, <1>16 DEF Shutdown, WaitReturns
<1>17. CASE Lost /\ UNCHANGED <<serverVars, sup>>
  BY <1>1, <1>17 DEF Lost, serverVars, Revision
<1>18. CASE StopWatcher
  BY <1>1, <1>17, <1>18 DEF StopWatcher, serverVars, Revision
<1>19. CASE Crash \/ Panic
  BY <1>17, <1>19 DEF Crash, Panic
<1>20. CASE ServerCompacts
  BY <1>1, <1>20 DEF ServerCompacts, Compact, watchVars, Revision
<1>21. CASE UNCHANGED vars
  BY <1>4, <1>21 DEF vars
<1> QED
  BY <1>5, <1>6, <1>7, <1>8, <1>9, <1>10, <1>11, <1>12, <1>13, <1>14, <1>15,
     <1>16, <1>18, <1>19, <1>20, <1>21 DEF Next, StartUp, WatchLoop

-----------------------------------------------------------------------------
(* The theorems                                                            *)

LEMMA NextIInv == IInv /\ [Next]_vars => IInv'
<1> SUFFICES ASSUME IInv, [Next]_vars PROVE IInv'
  OBVIOUS
<1>1. WatchInv /\ PhaseShape
  BY DEF IInv, TypeOK, WatchInv
<1>2. Forward' /\ OneByOne'
  BY <1>1, HistoryInv DEF WatchInv
<1>3. WatchTypeOK' /\ WatchShape' /\ MirrorsRevision' /\ PhaseShape'
  BY <1>1, WatchStepInv
<1>4. TypeOK' /\ OneTask'
  BY <1>3, TypeStep DEF IInv
<1>5. ServingInv'
  BY <1>2, <1>3, <1>4, ServingStep
<1> QED BY <1>2, <1>3, <1>4, <1>5 DEF IInv

LEMMA Inductive == Spec => []IInv
<1> QED BY InitIInv, NextIInv, PTL DEF Spec

\* Every variable keeps its type.
THEOREM TypeCorrect == Spec => []TypeOK
<1>1. IInv => TypeOK
  BY DEF IInv
<1> QED BY <1>1, Inductive, PTL

\* The process knows the pods as they were at resourceVersion: no event is astray
\* or handled twice (cluster.go, watchPodsLoop and loadPods).
THEOREM WatchMissesNothing == Spec => []MirrorsRevision
<1>1. IInv => MirrorsRevision
  BY DEF IInv
<1> QED BY <1>1, Inductive, PTL

\* A pod that serves a tenant is listed by it, whichever process lent it, but for
\* the pods that did not answer at start-up (cluster.go, initK8sComponents).
THEOREM RestartFindsLentPods == Spec => []ServingPodsFound
<1>1. IInv => ServingPodsFound
  BY DEF IInv, ServingInv, Serving, ServingPodsFound, PhaseShape
<1> QED BY <1>1, Inductive, PTL

\* A tenant has at most one analysis task (cluster.go, manageAnalyzeTasks).
THEOREM OneTaskPerTenant == Spec => []OneTask
<1>1. IInv => OneTask
  BY DEF IInv
<1> QED BY <1>1, Inductive, PTL
=============================================================================
