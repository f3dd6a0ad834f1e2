----------------------- MODULE AutoScaleLedgerProofs ------------------------
(***************************************************************************)
(* AutoScaleMeta implements PodLedger, for any tenants, pods, goroutines   *)
(* and counts.  Besides IInv the step needs to know of a pod that is not   *)
(* disputed                                                                *)
(*   - that it is nowhere once its removal was accepted (ReleasedPod);     *)
(*   - that a scan which is about to correct it was asked for a pod of a   *)
(*     tenant, which keeps the pod or has begun to give it back, and that  *)
(*     the answer is this tenant or none (ScanSpot).                       *)
(* Then the pod has one place in every state (Spots), and each action      *)
(* moves its pods along one of the ledger's ways and leaves the others     *)
(* still.                                                                  *)
(***************************************************************************)
EXTENDS AutoScaleLedger, AutoScaleMetaProofs

ReleasedPod(p) == p \in released \ Disputed => Nowhere(p) /\ p \in hasIP

ScanSpot(p) ==
  p \notin Disputed /\ scan[p] # NoScan =>
    \/ \E th \in Threads : p \in calls[th]
    \/ tenantName[p] \in Tenants /\ scan[p] \in {tenantName[p], Pool}

LedgerPod(p) == ReleasedPod(p) /\ ScanSpot(p)

LInv == IInv /\ \A p \in Pods : LedgerPod(p)

-----------------------------------------------------------------------------
(* Where a pod is                                                          *)

Way(th) ==
  [at |-> IF op[th] \in Adding THEN "lending" ELSE "reclaiming",
   of |-> opTenant[th]]

Listed(o) == [at |-> IF o = Pool THEN "pool" ELSE "tenant", of |-> o]

\* Each thing that may have pod p says where the pod is.
Spot(p) ==
  p \notin Disputed =>
    /\ \A o \in Owners : p \in podMap[o] => PlaceOf(p) = Listed(o)
    /\ \A th \in Threads : InJob(th, p) => PlaceOf(p) = Way(th)
    /\ p \in timers => PlaceOf(p) = At("parked")
    /\ p \in warmDel => PlaceOf(p) = At("trim")
    /\ p \in released \ gone => PlaceOf(p) = At("out")
    /\ p \in gone => PlaceOf(p) = At("gone")
    /\ p \notin hasIP /\ p \notin gone => PlaceOf(p) = At("none")
    /\ p \notin gone => PlaceOf(p) \in Ledger!Places \ Ledger!Final

LEMMA OnePlace ==
  ASSUME NEW p, p \notin Disputed, NEW x, Found(p) = {x}
  PROVE  PlaceOf(p) = x
BY DEF PlaceOf

LEMMA NoPlace ==
  ASSUME NEW p, p \notin Disputed, Found(p) = {}
  PROVE  PlaceOf(p) = At("none")
BY DEF PlaceOf

\* Nothing but a container or a holder has a pod that is in the ledger.
LEMMA Apart ==
  ASSUME LInv, NEW p \in Pods, p \notin Disputed
  PROVE  /\ p \in gone \cup released => Nowhere(p)
         /\ p \notin hasIP => Nowhere(p) /\ p \notin released
         /\ CleanPod(p)
         /\ \A th \in Threads : InJob(th, p) => opTenant[th] \in Tenants
<1>1. PodOK(p) /\ LedgerPod(p) /\ TypeOK /\ JobShape
  BY DEF LInv, IInv, PodInv
<1>2. CleanPod(p) /\ (p \in gone => Nowhere(p))
  BY <1>1 DEF PodOK, DeadPod, Disputed
<1>3. p \notin hasIP => Nowhere(p)
  BY <1>1 DEF PodOK, NewPod
<1>4. ASSUME NEW th \in Threads, InJob(th, p)
      PROVE  opTenant[th] \in Tenants
  BY <1>1, <1>4 DEF JobShape, InJob, TypeOK
<1> QED
  BY <1>1, <1>2, <1>3, <1>4 DEF LedgerPod, ReleasedPod

LEMMA Spots == LInv => \A p \in Pods : Spot(p)
<1> SUFFICES ASSUME LInv, NEW p \in Pods, p \notin Disputed PROVE Spot(p)
  BY DEF Spot
<1>1. /\ p \in gone \cup released => Nowhere(p)
      /\ p \notin hasIP => Nowhere(p) /\ p \notin released
      /\ CleanPod(p)
      /\ \A th \in Threads : InJob(th, p) => opTenant[th] \in Tenants
  BY Apart
<1>2. Nowhere(p) => Under(p) = {} /\ In(p) = {} /\ p \notin timers \cup warmDel
  BY DEF Nowhere, Under, In, Held
<1>3. ASSUME NEW o \in Owners, p \in podMap[o] PROVE PlaceOf(p) = Listed(o)
  <2>1. \A c \in Owners : p \in podMap[c] <=> c = o
    BY <1>1, <1>3 DEF CleanPod, OneOwner
  <2>2. ~Held(p) /\ p \notin gone \cup released
    BY <1>1, <1>3 DEF CleanPod, Nowhere
  <2>3. In(p) = {Listed(o)}
    BY <2>1 DEF In, Listed
  <2>4. Under(p) = {}
    BY <2>2 DEF Under, Held
  <2>5. Found(p) = {Listed(o)}
    BY <2>2, <2>3, <2>4 DEF Found, Held
  <2> QED BY <2>5, OnePlace
<1>4. ASSUME Held(p) PROVE In(p) = {} /\ p \notin gone \cup released
  BY <1>1, <1>4 DEF CleanPod, In, Nowhere
<1>5. ASSUME NEW th \in Threads, InJob(th, p) PROVE PlaceOf(p) = Way(th)
  <2>1. {u \in Threads : InJob(u, p)} = {th}
    BY <1>1, <1>5 DEF CleanPod, OneHolder
  <2>2. Under(p) = {Way(th)}
    BY <2>1 DEF Under, Way
  <2>3. p \notin timers \cup warmDel /\ Held(p)
    BY <1>1, <1>5 DEF CleanPod, OneHolder, Held
  <2>4. Found(p) = {Way(th)}
    BY <1>4, <2>2, <2>3 DEF Found
  <2> QED BY <2>4, OnePlace
<1>6. ASSUME p \in timers PROVE PlaceOf(p) = At("parked")
  <2>1. Under(p) = {} /\ p \notin warmDel /\ Held(p)
    BY <1>1, <1>6 DEF CleanPod, OneHolder, Held, Under
  <2>2. Found(p) = {At("parked")}
    BY <1>4, <1>6, <2>1 DEF Found
  <2> QED BY <2>2, OnePlace
<1>7. ASSUME p \in warmDel PROVE PlaceOf(p) = At("trim")
  <2>1. Under(p) = {} /\ p \notin timers /\ Held(p)
    BY <1>1, <1>7 DEF CleanPod, OneHolder, Held, Under
  <2>2. Found(p) = {At("trim")}
    BY <1>4, <1>7, <2>1 DEF Found
  <2> QED BY <2>2, OnePlace
<1>8. ASSUME p \in released \ gone PROVE PlaceOf(p) = At("out")
  <2>1. Found(p) = {At("out")}
    BY <1>1, <1>2, <1>8 DEF Found
  <2> QED BY <2>1, OnePlace
<1>9. ASSUME p \in gone PROVE PlaceOf(p) = At("gone")
  <2>1. Found(p) = {At("gone")}
    BY <1>1, <1>2, <1>9 DEF Found
  <2> QED BY <2>1, OnePlace
<1>10. ASSUME Nowhere(p), p \notin released \cup gone
       PROVE  PlaceOf(p) = At("none")
  <2>1. Found(p) = {}
    BY <1>2, <1>10 DEF Found
  <2> QED BY <2>1, NoPlace
<1>11. ASSUME p \notin gone PROVE PlaceOf(p) \in Ledger!Places \ Ledger!Final
  <2> USE DEF Ledger!Places, Ledger!Final, Ledger!At, Ledger!With,
              Ledger!Lending, Ledger!Reclaiming, At
  <2>1. CASE \E o \in Owners : p \in podMap[o]
    BY <1>3, <2>1 DEF Listed, Owners
  <2>2. CASE \E th \in Threads : InJob(th, p)
    BY <1>1, <1>5, <2>2 DEF Way
  <2>3. CASE p \in timers \cup warmDel
    BY <1>6, <1>7, <2>3
  <2>4. CASE ~(\E o \in Owners : p \in podMap[o]) /\ ~Held(p)
    <3>1. Under(p) = {} /\ In(p) = {} /\ p \notin timers \cup warmDel
      BY <2>4 DEF Under, In, Held
    <3>2. p \notin released => Found(p) = {}
      BY <1>11, <3>1 DEF Found
    <3> QED BY <1>8, <1>11, <3>2, NoPlace
  <2> QED BY <2>1, <2>2, <2>3, <2>4 DEF Held
<1>12. p \notin hasIP /\ p \notin gone => PlaceOf(p) = At("none")
  BY <1>1, <1>10
<1> QED BY <1>3, <1>5, <1>6, <1>7, <1>8, <1>9, <1>11, <1>12 DEF Spot

LEMMA SpotsNext == LInv' => \A p \in Pods : Spot(p)'
<1>1. LInv' => (\A p \in Pods : Spot(p))'
  BY Spots, PTL
<1> QED BY <1>1

-----------------------------------------------------------------------------
(* Pods that a step moves, and those it leaves alone                       *)

\* What no step but a deletion, a scan or a trim changes of pod q.
Steady(q) ==
  /\ (q \in released' <=> q \in released) /\ (q \in gone' <=> q \in gone)
  /\ (q \in Disputed' <=> q \in Disputed) /\ (q \in hasIP => q \in hasIP')
  /\ scan'[q] = scan[q]

\* The step moves pod q nowhere.
Still(q) ==
  /\ Steady(q)
  /\ \A o \in Owners : q \in podMap'[o] <=> q \in podMap[o]
  /\ tenantName'[q] = tenantName[q]
  /\ \A th \in Threads : InJob(th, q)' <=> InJob(th, q)
  /\ \A th \in Threads : q \in calls'[th] <=> q \in calls[th]
  /\ \A th \in Threads : InJob(th, q) =>
       op'[th] = op[th] /\ opTenant'[th] = opTenant[th]
  /\ (q \in timers' <=> q \in timers) /\ (q \in warmDel' <=> q \in warmDel)

LEMMA StillPlace ==
  ASSUME NEW q \in Pods, Still(q)
  PROVE  PlaceOf(q)' = PlaceOf(q)
<1>1. Under(q)' = Under(q)
  BY DEF Still, Under
<1>2. In(q)' = In(q)
  BY DEF Still, In
<1>3. Found(q)' = Found(q)
  BY <1>1, <1>2 DEF Still, Steady, Found
<1> QED BY <1>3 DEF Still, Steady, PlaceOf

LEMMA StillPod ==
  ASSUME NEW q \in Pods, Still(q), LedgerPod(q)
  PROVE  LedgerPod(q)'
<1>1. Held(q)' <=> Held(q)
  BY DEF Still, Held
<1>2. Nowhere(q)' <=> Nowhere(q)
  BY <1>1 DEF Still, Steady, Nowhere
<1> QED BY <1>2 DEF Still, Steady, LedgerPod, ReleasedPod, ScanSpot

\* A disputed pod has no place to lose.
LEMMA DisputedPlace ==
  ASSUME NEW q \in Disputed, q \in Disputed'
  PROVE  PlaceOf(q)' = PlaceOf(q) /\ LedgerPod(q)'
BY DEF PlaceOf, LedgerPod, ReleasedPod, ScanSpot

\* No scan is about to correct a pod of the pool, or one whose call is over.
LEMMA NoScanOf ==
  ASSUME LInv, NEW p \in Pods, p \notin Disputed,
         \/ p \in podMap[Pool] \cup timers \cup warmDel
         \/ \E th \in Threads : p \in undo[th]
  PROVE  scan[p] = NoScan
<1>1. CleanPod(p) /\ ScanSpot(p) /\ JobShape
  BY Apart DEF LInv, IInv, LedgerPod
<1>2. CASE p \in podMap[Pool]
  <2>1. tenantName[p] = Pool /\ ~Held(p)
    BY <1>1, <1>2 DEF CleanPod, OneOwner, Owners
  <2> QED BY <1>1, <2>1, OwnersAssumption DEF Held, InJob, ScanSpot
<1>3. CASE p \in timers \cup warmDel
  BY <1>1, <1>3 DEF CleanPod, OneOwner, OneHolder, Held, InJob, ScanSpot, Owners
<1>4. ASSUME NEW th \in Threads, p \in undo[th] PROVE scan[p] = NoScan
  BY <1>1, <1>4 DEF CleanPod, OneOwner, OneHolder, Held, InJob, JobShape,
                    ScanSpot, Owners
<1> QED BY <1>2, <1>3, <1>4

LedgerMoves == Ledger!Next \/ UNCHANGED [p \in Pods |-> PlaceOf(p)]

LedgerStep == (\A q \in Pods : LedgerPod(q)') /\ LedgerMoves

\* Pods of S go from one place to another; disputed ones do not count.
LEMMA Moved ==
  ASSUME LInv, IInv', NEW S \in SUBSET Pods, NEW from, NEW to,
         Disputed \subseteq Disputed',
         \A q \in Pods \ S : Still(q) \/ q \in Disputed,
         \A q \in S \ Disputed :
           /\ Steady(q) /\ ~Nowhere(q) /\ PlaceOf(q) = from
           /\ scan[q] = NoScan \/ \E th \in Threads : q \in calls'[th]
           /\ Spot(q)' => PlaceOf(q)' = to
  PROVE  /\ \A q \in Pods : LedgerPod(q)'
         /\ Ledger!Move(S \ Disputed, from, to)
<1>1. ASSUME NEW q \in S \ Disputed PROVE LedgerPod(q)'
  <2>1. LedgerPod(q)
    BY DEF LInv
  <2> QED BY <2>1 DEF LedgerPod, ReleasedPod, ScanSpot, Steady
<1>2. ASSUME NEW q \in Pods \ (S \ Disputed)
      PROVE  LedgerPod(q)' /\ PlaceOf(q)' = PlaceOf(q)
  <2>1. LedgerPod(q)
    BY DEF LInv
  <2>2. CASE q \in Disputed
    BY <2>2, DisputedPlace
  <2>3. CASE Still(q)
    BY <2>1, <2>3, StillPlace, StillPod
  <2> QED BY <2>2, <2>3
<1>3. \A q \in Pods : LedgerPod(q)'
  BY <1>1, <1>2
<1>4. \A q \in Pods : Spot(q)'
  BY <1>3, SpotsNext DEF LInv
<1> QED BY <1>2, <1>3, <1>4 DEF Ledger!Move

LEMMA Unmoved ==
  ASSUME LInv, \A q \in Pods : Still(q)
  PROVE  LedgerStep
<1>1. \A q \in Pods : PlaceOf(q)' = PlaceOf(q) /\ LedgerPod(q)'
  BY StillPlace, StillPod DEF LInv
<1> QED BY <1>1 DEF LedgerStep, LedgerMoves

-----------------------------------------------------------------------------
(* Resizes                                                                 *)

\* A resize takes the pods of S out of container o into goroutine th.
LEMMA LedgerTakes ==
  ASSUME LInv, IInv', NEW th \in Threads, NEW o \in Owners,
         NEW S \in SUBSET podMap[o], TakePods(o, S), StartCalls(th, S),
         pc[th] # "calls",
         \A w \in Threads \ {th} :
           op'[w] = op[w] /\ opTenant'[w] = opTenant[w],
         opTenant'[th] \in Tenants,
         op'[th] \in Adding => o = Pool,
         op'[th] \notin Adding => o = opTenant'[th],
         UNCHANGED <<podDescMap, hasIP, scan, timers, warmVars, supVars, gone,
                     histVars>>
  PROVE  LedgerStep
<1> USE DEF warmVars, histVars
<1>0. TypeOK /\ JobShape
  BY DEF LInv, IInv
<1>1. calls[th] = {} /\ undo[th] = {} /\ undo' = undo
      /\ calls' = [calls EXCEPT ![th] = S] /\ S \subseteq Pods
  BY <1>0 DEF JobShape, StartCalls, TypeOK
<1>2. Disputed' = Disputed
  BY DEF Disputed
<1>3. \A q \in Pods : Steady(q)
  BY <1>2 DEF Steady
<1>4. ASSUME NEW q \in Pods \ S PROVE Still(q)
  BY <1>0, <1>1, <1>3 DEF Still, TakePods, InJob, TypeOK
<1>5. ASSUME NEW q \in S \ Disputed
      PROVE  /\ ~Nowhere(q) /\ PlaceOf(q) = Listed(o)
             /\ q \in calls'[th] /\ (Spot(q)' => PlaceOf(q)' = Way(th)')
  <2>1. PlaceOf(q) = Listed(o) /\ ~Nowhere(q)
    BY <1>1, Spots DEF Spot, Nowhere
  <2>2. q \in calls'[th] /\ InJob(th, q)'
    BY <1>0, <1>1 DEF InJob, TypeOK
  <2> QED BY <1>2, <2>1, <2>2 DEF Spot
<1>6. /\ \A q \in Pods : LedgerPod(q)'
      /\ Ledger!Move(S \ Disputed, Listed(o), Way(th)')
  BY <1>1, <1>2, <1>3, <1>4, <1>5, Moved
<1>7. S \ Disputed \in SUBSET Pods
  BY <1>1
<1>8. CASE op'[th] \in Adding
  <2>1. Ledger!Lend(opTenant'[th], S \ Disputed)
    BY <1>6, <1>8 DEF Listed, Way, Ledger!Lend, Ledger!At, Ledger!Lending
  <2> QED BY <1>6, <1>7, <2>1 DEF LedgerStep, LedgerMoves, Ledger!Next
<1>9. CASE op'[th] \notin Adding
  <2>1. Ledger!Reclaim(opTenant'[th], S \ Disputed)
    BY <1>6, <1>9, OwnersAssumption
       DEF Listed, Way, Ledger!Reclaim, Ledger!With, Ledger!Reclaiming
  <2> QED BY <1>6, <1>7, <2>1 DEF LedgerStep, LedgerMoves, Ledger!Next
<1> QED BY <1>8, <1>9

\* A resize puts the pods of its undo list that are still known into o; those
\* that are not are disputed.
LEMMA LedgerJoins ==
  ASSUME LInv, IInv', NEW th \in Threads, NEW o \in Owners, NEW kinds,
         Join(th, kinds), SetPods(o, Undone(th)),
         op[th] \in Adding => o = Pool,
         op[th] \notin Adding => o = opTenant[th]
  PROVE  LedgerStep
<1> DEFINE S == Undone(th)
<1>0. TypeOK /\ JobShape /\ pc[th] = "calls"
  BY DEF LInv, IInv, Join
<1>1. /\ calls[th] = {} /\ undo' = [undo EXCEPT ![th] = {}]
      /\ opTenant[th] \in Tenants /\ S \in SUBSET Pods /\ S \subseteq undo[th]
      /\ UNCHANGED <<calls, op, opTenant, timers, warmDel, scan, hasIP, gone,
                     released, wild, contested, lateDeleted>>
  BY <1>0 DEF Join, TypeOK, warmVars, histVars, Undone
<1>2. Disputed' = Disputed
  BY <1>1 DEF Disputed
<1>3. \A q \in Pods : Steady(q)
  BY <1>1, <1>2 DEF Steady
<1>4. ASSUME NEW q \in Pods \ S PROVE Still(q) \/ q \in Disputed
  <2>1. CASE q \notin undo[th]
    BY <1>0, <1>1, <1>3, <2>1 DEF Still, SetPods, InJob, TypeOK
  <2>2. CASE q \in undo[th] /\ q \notin Disputed
    <3>1. Held(q) /\ q \notin podDescMap
      BY <2>2 DEF Held, InJob, Undone
    <3>2. q \in hasIP /\ q \notin gone
      BY <2>2, <3>1, Apart DEF Nowhere
    <3> QED BY <3>1, <3>2 DEF LInv, IInv, PodInv, PodOK, NewPod
  <2> QED BY <2>1, <2>2
<1>5. ASSUME NEW q \in S \ Disputed
      PROVE  /\ ~Nowhere(q) /\ PlaceOf(q) = Way(th) /\ scan[q] = NoScan
             /\ (Spot(q)' => PlaceOf(q)' = Listed(o))
  <2>1. InJob(th, q)
    BY <1>1 DEF InJob
  <2>2. PlaceOf(q) = Way(th) /\ ~Nowhere(q)
    BY <1>1, <2>1, Spots DEF Spot, Nowhere, Held
  <2>3. scan[q] = NoScan
    BY <1>1, NoScanOf
  <2>4. q \in podMap'[o]
    BY <1>0 DEF SetPods, TypeOK
  <2> QED BY <1>2, <2>2, <2>3, <2>4 DEF Spot
<1> HIDE DEF S
<1>6. /\ \A q \in Pods : LedgerPod(q)'
      /\ Ledger!Move(S \ Disputed, Way(th), Listed(o))
  BY <1>1, <1>2, <1>3, <1>4, <1>5, Moved
<1>7. S \ Disputed \in SUBSET Pods
  BY <1>1
<1>8. CASE op[th] \in Adding
  <2>1. Ledger!NotLent(opTenant[th], S \ Disputed)
    BY <1>6, <1>8 DEF Listed, Way, Ledger!NotLent, Ledger!At, Ledger!Lending
  <2> QED BY <1>1, <1>6, <1>7, <2>1 DEF LedgerStep, LedgerMoves, Ledger!Next
<1>9. CASE op[th] \notin Adding
  <2>1. Ledger!NotReclaimed(opTenant[th], S \ Disputed)
    BY <1>1, <1>6, <1>9, OwnersAssumption
       DEF Listed, Way, Ledger!NotReclaimed, Ledger!With, Ledger!Reclaiming
  <2> QED BY <1>1, <1>6, <1>7, <2>1 DEF LedgerStep, LedgerMoves, Ledger!Next
<1> QED BY <1>8, <1>9

LEMMA LedgerEnds ==
  ASSUME LInv, NEW th \in Threads, EndJob(th), pc[th] # "calls",
         UNCHANGED <<hasIP, podMap, tenantName, scan, timers, warmVars, gone,
                     histVars>>
  PROVE  LedgerStep
<1>1. TypeOK /\ JobShape
  BY DEF LInv, IInv
<1>2. \A q \in Pods : Still(q)
  BY <1>1 DEF Still, Steady, Disputed, EndJob, JobShape, TypeOK, InJob,
              warmVars, histVars
<1> QED BY <1>2, Unmoved

LEMMA LedgerResize ==
  ASSUME LInv, IInv', NEW th \in Threads,
         Request(th) \/ Resize(th) \/ Proceed(th)
  PROVE  LedgerStep
<1>0. TypeOK /\ JobShape
  BY DEF LInv, IInv
<1>1. CASE Request(th)
  <2>1. /\ pc[th] = "idle"
        /\ \A w \in Threads \ {th} :
             op'[w] = op[w] /\ opTenant'[w] = opTenant[w]
        /\ UNCHANGED <<hasIP, podMap, tenantName, calls, undo, scan, timers,
                       warmVars, gone, histVars>>
    BY <1>0, <1>1 DEF Request, AsyncPause, AsyncResume, Spawn, TypeOK
  <2>2. \A q \in Pods : ~InJob(th, q)
    BY <1>0, <2>1 DEF JobShape, InJob
  <2>3. \A q \in Pods : Still(q)
    BY <2>1, <2>2 DEF Still, Steady, Disputed, InJob, warmVars, histVars
  <2> QED BY <2>3, Unmoved
<1>2. ASSUME NEW t \in Tenants, ScaleOut(th, t) PROVE LedgerStep
  <2>1. PICK S \in SUBSET podMap[Pool] : TakePods(Pool, S) /\ StartCalls(th, S)
    BY <1>2 DEF ScaleOut, Taken
  <2> QED
    BY <1>0, <1>2, <2>1, LedgerTakes
       DEF ScaleOut, Scale, Owners, TypeOK, Adding
<1>3. ASSUME NEW t \in Tenants, ScaleIn(th, t) PROVE LedgerStep
  <2>1. PICK S \in SUBSET podMap[t] : TakePods(t, S) /\ StartCalls(th, S)
    BY <1>3 DEF ScaleIn, Taken
  <2> QED
    BY <1>0, <1>3, <2>1, LedgerTakes
       DEF ScaleIn, Scale, Owners, TypeOK, Adding
<1>4. CASE RunPause(th)
  <2>1. CASE TakePods(opTenant[th], podMap[opTenant[th]])
             /\ StartCalls(th, podMap[opTenant[th]])
             /\ UNCHANGED <<op, opTenant>>
    BY <1>0, <1>4, <2>1, LedgerTakes
       DEF RunPause, SyncStatePaused, CAS, TypeOK, Owners, Adding
  <2>2. CASE EndJob(th) /\ UNCHANGED <<podMap, tenantName>>
    BY <1>4, <2>2, LedgerEnds DEF RunPause, SyncStatePaused, CAS
  <2> QED BY <1>4, <2>1, <2>2 DEF RunPause, SyncStatePaused, CAS
<1>5. CASE RunResume(th)
  <2>1. ASSUME NEW S \in SUBSET podMap[Pool], TakePods(Pool, S),
               StartCalls(th, S), UNCHANGED <<op, opTenant>>
        PROVE  LedgerStep
    BY <1>0, <1>5, <2>1, LedgerTakes DEF RunResume, TypeOK, Owners, Adding
  <2>2. CASE EndJob(th) /\ UNCHANGED <<podMap, tenantName>>
    BY <1>5, <2>2, LedgerEnds DEF RunResume
  <2> QED BY <1>5, <2>1, <2>2 DEF RunResume, Taken
<1>6. CASE JoinAdd(th)
  BY <1>6, LedgerJoins DEF JoinAdd, SyncStateResumed, CAS, Owners, Join
<1>7. CASE JoinRemove(th)
  BY <1>0, <1>7, LedgerJoins
     DEF JoinRemove, Join, Owners, TypeOK, Adding, Removing
<1>8. CASE Leave(th)
  BY <1>8, LedgerEnds DEF Leave, metaVars
<1> QED
  BY <1>1, <1>2, <1>3, <1>4, <1>5, <1>6, <1>7, <1>8 DEF Resize, Proceed

-----------------------------------------------------------------------------
(* Calls                                                                   *)

\* Pod p alone goes from one place to another, or has none to lose.
LEMMA MovedOne ==
  ASSUME LInv, NEW p \in Pods, \A q \in Pods : LedgerPod(q)',
         NEW from, NEW to, Ledger!Move({p} \ Disputed, from, to),
         Ledger!Move({p}, from, to) => Ledger!Next
  PROVE  LedgerStep
<1>1. CASE p \in Disputed
  <2>1. {p} \ Disputed = {}
    BY <1>1
  <2>2. Ledger!Move({}, from, to)
    BY <2>1
  <2>3. UNCHANGED [q \in Pods |-> PlaceOf(q)]
    BY <2>2 DEF Ledger!Move
  <2> QED BY <2>3 DEF LedgerStep, LedgerMoves
<1>2. CASE p \notin Disputed
  <2>1. {p} \ Disputed = {p}
    BY <1>2
  <2> QED BY <2>1 DEF LedgerStep, LedgerMoves
<1> QED BY <1>1, <1>2

\* Pod p leaves the ledger.
LEMMA Finished ==
  ASSUME LInv, IInv', NEW p \in Pods, p \notin gone \cup Disputed,
         Disputed \subseteq Disputed', \A q \in Pods \ {p} : Still(q),
         p \in Disputed' \/ (p \in gone' /\ LedgerPod(p)')
  PROVE  LedgerStep
<1>1. \A q \in Pods \ {p} : PlaceOf(q)' = PlaceOf(q) /\ LedgerPod(q)'
  BY StillPlace, StillPod DEF LInv
<1>2. LedgerPod(p)'
  BY DEF LedgerPod, ReleasedPod, ScanSpot
<1>3. Spot(p) /\ Spot(p)'
  BY <1>1, <1>2, Spots, SpotsNext DEF LInv
<1>4. PlaceOf(p) \in Ledger!Places \ Ledger!Final
  BY <1>3 DEF Spot
<1>5. PlaceOf(p)' \in Ledger!Final
  <2>1. CASE p \in Disputed'
    <3>1. PlaceOf(p)' = At("disputed")
      BY <2>1 DEF PlaceOf
    <3> QED BY <3>1 DEF Ledger!Final, Ledger!At, At
  <2>2. CASE p \in gone' /\ p \notin Disputed'
    BY <1>3, <2>2 DEF Spot, Ledger!Final, Ledger!At, At
  <2> QED BY <2>1, <2>2
<1>6. Ledger!Move({p}, PlaceOf(p), PlaceOf(p)')
  BY <1>1 DEF Ledger!Move
<1>7. Ledger!Finish(p)
  BY <1>4, <1>5, <1>6 DEF Ledger!Finish
<1> QED BY <1>1, <1>2, <1>7 DEF LedgerStep, LedgerMoves, Ledger!Next

\* A correction concerns no other pod, and puts this one into o or makes it wild.
LEMMA Corrects ==
  ASSUME TypeOK, NEW p \in Pods, NEW o \in Owners,
         UpdateLocalMetaPodOfTenant(p, o)
  PROVE  /\ \A q \in Pods \ {p} :
              /\ \A c \in Owners : q \in podMap'[c] <=> q \in podMap[c]
              /\ tenantName'[q] = tenantName[q]
              /\ q \in wild' <=> q \in wild
         /\ wild \subseteq wild'
         /\ p \in wild' \/ (p \in podMap'[o] /\ wild' = wild)
<1> USE DEF TypeOK, Owners
<1>1. CASE o = Pool \/ tenantState[o] # "unregistered" \/ AutoRegister
  BY <1>1 DEF UpdateLocalMetaPodOfTenant, Stripped
<1>2. CASE ~(o = Pool \/ tenantState[o] # "unregistered" \/ AutoRegister)
  BY <1>2 DEF UpdateLocalMetaPodOfTenant, Stripped
<1> QED BY <1>1, <1>2

LEMMA LedgerReply ==
  ASSUME LInv, IInv', NEW th \in Threads, NEW p \in Pods, Reply(th, p)
  PROVE  LedgerStep
<1> DEFINE from == Way(th)
<1>0. TypeOK /\ JobShape /\ PodOK(p) /\ Spot(p)
  BY Spots DEF LInv, IInv, PodInv
<1>1. /\ p \in calls[th] /\ scan[p] = NoScan /\ opTenant[th] \in Tenants
      /\ calls' = [calls EXCEPT ![th] = @ \ {p}]
      /\ UNCHANGED <<hasIP, op, opTenant, scan, warmDel, gone, released,
                     contested, lateDeleted>>
      /\ wild \subseteq wild'
  BY <1>0, Corrects
     DEF Reply, AssignOk, UnassignOk, CallFails, CallRejected, Calling,
         MuOfGrpcFree, ApiWgDone, JobShape, TypeOK, warmVars
<1>2. Disputed \subseteq Disputed' /\ (wild' = wild => Disputed' = Disputed)
  BY <1>1 DEF Disputed
<1>3. ASSUME NEW q \in Pods \ {p} PROVE Still(q)
  <2>1. /\ \A c \in Owners : q \in podMap'[c] <=> q \in podMap[c]
        /\ tenantName'[q] = tenantName[q]
        /\ q \in wild' <=> q \in wild
    <3> USE DEF Owners
    <3>0. podMap \in [Owners -> SUBSET Pods] /\ tenantName \in [Pods -> Owners]
      BY <1>0 DEF TypeOK
    <3>1. CASE AssignOk(th, p)
      BY <3>0, <3>1 DEF AssignOk
    <3>2. CASE UnassignOk(th, p)
      BY <3>0, <3>2 DEF UnassignOk, PutWarmedPod, SetPods
    <3>3. CASE CallFails(th, p)
      BY <3>3 DEF CallFails
    <3>4. CASE CallRejected(th, p)
      <4>1. CASE UNCHANGED <<podMap, tenantName, wild>>
        BY <4>1
      <4>2. CASE UpdateLocalMetaPodOfTenant(p, sup[p])
        BY <1>0, <4>2, Corrects DEF TypeOK
      <4> QED BY <3>4, <4>1, <4>2 DEF CallRejected
    <3> QED BY <3>1, <3>2, <3>3, <3>4 DEF Reply
  <2>2. calls \in [Threads -> SUBSET Pods] /\ undo \in [Threads -> SUBSET Pods]
    BY <1>0 DEF TypeOK
  <2>3. \A w \in Threads : q \in calls'[w] <=> q \in calls[w]
    BY <1>1, <2>2
  <2>4. /\ q \in timers' <=> q \in timers
        /\ \A w \in Threads : q \in undo'[w] <=> q \in undo[w]
    BY <2>2 DEF Reply, AssignOk, UnassignOk, CallFails, CallRejected
  <2> QED BY <1>1, <2>1, <2>3, <2>4 DEF Still, Steady, Disputed, InJob
<1>4. InJob(th, p) /\ ~Nowhere(p)
  BY <1>1 DEF InJob, Nowhere, Held
<1>5. p \notin Disputed => PlaceOf(p) = from
  BY <1>0, <1>4 DEF Spot
<1>6. ASSUME wild' = wild, NEW to, p \notin Disputed' => (Spot(p)' => PlaceOf(p)' = to)
      PROVE  /\ \A q \in Pods : LedgerPod(q)'
             /\ Ledger!Move({p} \ Disputed, from, to)
  <2>1. Disputed' = Disputed /\ Steady(p)
    BY <1>1, <1>2, <1>6 DEF Steady
  <2> HIDE DEF from
  <2> QED BY <1>1, <1>2, <1>3, <1>4, <1>5, <1>6, <2>1, Moved
<1>7. CASE op[th] \in Adding /\ wild' = wild /\ \E o \in Owners : p \in podMap'[o]
  <2>1. PICK o \in Owners : p \in podMap'[o]
    BY <1>7
  <2>2. /\ \A q \in Pods : LedgerPod(q)'
        /\ Ledger!Move({p} \ Disputed, from, Listed(o))
    BY <1>6, <1>7, <2>1 DEF Spot
  <2>3. ASSUME Ledger!Move({p}, from, Listed(o)) PROVE Ledger!Next
    <3>1. CASE o \in Tenants
      <4>1. Ledger!Lent(opTenant[th], p)
        BY <1>7, <2>3, <3>1, OwnersAssumption
           DEF Way, Listed, Ledger!Lent, Ledger!Lending, Ledger!With
      <4> QED BY <1>1, <4>1 DEF Ledger!Next
    <3>2. CASE o = Pool
      <4>1. Ledger!NotLent(opTenant[th], {p})
        BY <1>7, <2>3, <3>2
           DEF Way, Listed, Ledger!NotLent, Ledger!Lending, Ledger!At
      <4>2. {p} \in SUBSET Pods
        OBVIOUS
      <4> QED BY <1>1, <4>1, <4>2 DEF Ledger!Next
    <3> QED BY <3>1, <3>2 DEF Owners
  <2> HIDE DEF from
  <2> QED BY <2>2, <2>3, MovedOne
<1>8. CASE op[th] \notin Adding /\ wild' = wild /\ \E o \in {opTenant[th], Pool} : p \in podMap'[o]
  <2>1. PICK o \in {opTenant[th], Pool} : p \in podMap'[o]
    BY <1>8
  <2>2. /\ \A q \in Pods : LedgerPod(q)'
        /\ Ledger!Move({p} \ Disputed, from, Listed(o))
    BY <1>1, <1>6, <1>8, <2>1 DEF Spot, Owners
  <2>3. ASSUME Ledger!Move({p}, from, Listed(o)) PROVE Ledger!Next
    <3>1. CASE o = opTenant[th]
      <4>1. Ledger!NotReclaimed(opTenant[th], {p})
        BY <1>1, <1>8, <2>3, <3>1, OwnersAssumption
           DEF Way, Listed, Ledger!NotReclaimed, Ledger!Reclaiming, Ledger!With
      <4>2. {p} \in SUBSET Pods
        OBVIOUS
      <4> QED BY <1>1, <4>1, <4>2 DEF Ledger!Next
    <3>2. CASE o = Pool
      <4>1. Ledger!Reclaimed(opTenant[th], p)
        BY <1>8, <2>3, <3>2
           DEF Way, Listed, Ledger!Reclaimed, Ledger!Reclaiming, Ledger!At
      <4> QED BY <1>1, <4>1 DEF Ledger!Next
    <3> QED BY <2>1, <3>1, <3>2
  <2> HIDE DEF from
  <2> QED BY <2>2, <2>3, MovedOne
<1>9. CASE AssignOk(th, p)
  <2>1. op[th] \in Adding /\ wild' = wild /\ p \in podMap'[opTenant[th]]
    BY <1>0, <1>1, <1>9 DEF AssignOk, Calling, TypeOK, Owners
  <2> QED BY <1>1, <1>7, <2>1 DEF Owners
<1>10. CASE UnassignOk(th, p)
  <2>1. op[th] \notin Adding /\ wild' = wild /\ p \in podMap'[Pool]
    BY <1>0, <1>1, <1>10
       DEF UnassignOk, PutWarmedPod, SetPods, Calling, TypeOK, Owners, Adding,
           Removing
  <2> QED BY <1>8, <2>1
<1>11. CASE CallFails(th, p)
  <2>1. wild' = wild /\ InJob(th, p)' /\ Way(th)' = Way(th)
    BY <1>0, <1>1, <1>11 DEF CallFails, InJob, TypeOK, Way
  <2>2. /\ \A q \in Pods : LedgerPod(q)'
        /\ Ledger!Move({p} \ Disputed, from, from)
    BY <1>6, <2>1 DEF Spot
  <2>3. UNCHANGED [q \in Pods |-> PlaceOf(q)]
    BY <2>2 DEF Ledger!Move
  <2> QED BY <2>2, <2>3 DEF LedgerStep, LedgerMoves
<1>12. CASE CallRejected(th, p) /\ p \in unassigning
  <2>1. wild' = wild /\ p \in timers'
    BY <1>12 DEF CallRejected
  <2>2. /\ \A q \in Pods : LedgerPod(q)'
        /\ Ledger!Move({p} \ Disputed, from, At("parked"))
    BY <1>6, <2>1 DEF Spot
  <2>3. ASSUME Ledger!Move({p}, from, At("parked")) PROVE Ledger!Next
    <3>1. Ledger!Park(opTenant[th], p)
      BY <2>3 DEF Way, At, Ledger!Park, Ledger!At, Ledger!Lending, Ledger!Reclaiming
    <3> QED BY <1>1, <3>1 DEF Ledger!Next
  <2> HIDE DEF from
  <2> QED BY <2>2, <2>3, MovedOne
<1>13. CASE CallRejected(th, p) /\ p \notin unassigning
  <2>1. UpdateLocalMetaPodOfTenant(p, sup[p]) /\ sup[p] \in Owners
    BY <1>0, <1>13 DEF CallRejected, TypeOK
  <2>2. CASE wild' = wild /\ p \in podMap'[sup[p]] /\ p \notin Disputed
    <3>1. CASE op[th] \in Adding
      BY <1>7, <2>1, <2>2, <3>1
    <3>2. CASE op[th] \notin Adding
      <4>1. op[th] \in Removing
        BY <1>13, <3>2 DEF CallRejected, Calling
      <4>2. sup[p] \in {opTenant[th], Pool}
        BY <1>0, <1>4, <2>2, <4>1 DEF PodOK, SupKnown, Disputed
      <4> QED BY <1>8, <2>2, <3>2, <4>2
    <3> QED BY <3>1, <3>2
  <2>3. CASE p \in wild' /\ p \notin Disputed
    <3>1. p \notin gone
      BY <1>4, <2>3, Apart
    <3> QED BY <1>2, <1>3, <2>3, <3>1, Finished DEF Disputed
  <2>4. CASE p \in Disputed
    <3>1. \A q \in Pods : PlaceOf(q)' = PlaceOf(q) /\ LedgerPod(q)'
      BY <1>2, <1>3, <2>4, StillPlace, StillPod, DisputedPlace DEF LInv
    <3> QED BY <3>1 DEF LedgerStep, LedgerMoves
  <2> QED BY <1>0, <2>1, <2>2, <2>3, <2>4, Corrects
<1> QED BY <1>9, <1>10, <1>11, <1>12, <1>13 DEF Reply

-----------------------------------------------------------------------------
(* Timers, pod events, scans, the trim of the pool and the supervisors     *)

LEMMA LedgerTimer ==
  ASSUME LInv, IInv', NEW p \in Pods, UnassignTimer(p)
  PROVE  LedgerStep
<1> USE DEF jobVars, warmVars, histVars
<1>0. TypeOK /\ Spot(p)
  BY Spots DEF LInv, IInv
<1>1. Disputed' = Disputed
  BY DEF UnassignTimer, Disputed
<1>2. \A q \in Pods : Steady(q)
  BY <1>1 DEF UnassignTimer, Steady
<1>3. ASSUME NEW q \in Pods \ {p} PROVE Still(q)
  BY <1>0, <1>2 DEF UnassignTimer, PutWarmedPod, SetPods, Still, InJob, TypeOK,
                    Owners
<1>4. p \in podMap'[Pool] /\ p \in timers /\ ~Nowhere(p)
  BY <1>0 DEF UnassignTimer, PutWarmedPod, SetPods, TypeOK, Owners, Nowhere, Held
<1>5. p \notin Disputed =>
        scan[p] = NoScan /\ PlaceOf(p) = At("parked")
          /\ (Spot(p)' => PlaceOf(p)' = Listed(Pool))
  BY <1>0, <1>1, <1>4, NoScanOf DEF Spot, Owners
<1>6. /\ \A q \in Pods : LedgerPod(q)'
      /\ Ledger!Move({p} \ Disputed, At("parked"), Listed(Pool))
  BY <1>1, <1>2, <1>3, <1>4, <1>5, Moved
<1>7. ASSUME Ledger!Move({p}, At("parked"), Listed(Pool)) PROVE Ledger!Next
  <2>1. Ledger!Unpark(p)
    BY <1>7 DEF Listed, At, Ledger!Unpark, Ledger!At
  <2> QED BY <2>1 DEF Ledger!Next
<1> QED BY <1>6, <1>7, MovedOne

LEMMA LedgerUpdatePod ==
  ASSUME LInv, IInv', NEW p \in Pods, UpdatePod(p)
  PROVE  LedgerStep
<1> USE DEF jobVars, warmVars, histVars
<1>0. TypeOK /\ Spot(p)
  BY Spots DEF LInv, IInv
<1>1. Disputed' = Disputed
  BY DEF UpdatePod, Disputed
<1>2. \A q \in Pods : Steady(q)
  BY <1>0, <1>1 DEF UpdatePod, Steady
<1>3. CASE UNCHANGED <<hasIP, podMap, tenantName, inSync>>
  <2>1. \A q \in Pods : Still(q)
    BY <1>2, <1>3 DEF UpdatePod, Still, InJob
  <2> QED BY <2>1, Unmoved
<1>4. CASE p \notin hasIP /\ hasIP' = hasIP \cup {p} /\ PutWarmedPod(p)
  <2>1. ASSUME NEW q \in Pods \ {p} PROVE Still(q)
    BY <1>0, <1>2, <1>4 DEF UpdatePod, PutWarmedPod, SetPods, Still, InJob,
                            TypeOK, Owners
  <2>2. p \notin Disputed => PlaceOf(p) = At("none") /\ Nowhere(p) /\ p \notin released
    BY <1>0, <1>4, Apart DEF UpdatePod, Spot
  <2>3. p \in podMap'[Pool]
    BY <1>0, <1>4 DEF PutWarmedPod, SetPods, TypeOK, Owners
  <2>4. \A q \in Pods \ {p} : LedgerPod(q)' /\ PlaceOf(q)' = PlaceOf(q)
    BY <2>1, StillPlace, StillPod DEF LInv
  <2>5. p \notin Disputed => LedgerPod(p)'
    BY <1>1, <1>2, <2>2 DEF LedgerPod, ReleasedPod, ScanSpot, Steady, Nowhere
  <2>6. \A q \in Pods : LedgerPod(q)'
    BY <1>1, <2>4, <2>5, DisputedPlace
  <2>7. p \notin Disputed => PlaceOf(p)' = Listed(Pool)
    <3>1. Spot(p)'
      BY <2>6, SpotsNext DEF LInv
    <3> QED BY <1>1, <2>3, <3>1 DEF Spot, Owners
  <2>8. Ledger!Move({p} \ Disputed, At("none"), Listed(Pool))
    BY <1>1, <2>2, <2>4, <2>7, DisputedPlace DEF Ledger!Move
  <2>9. ASSUME Ledger!Move({p}, At("none"), Listed(Pool)) PROVE Ledger!Next
    <3>1. Ledger!Join(p)
      BY <2>9 DEF Listed, At, Ledger!Join, Ledger!At
    <3> QED BY <3>1 DEF Ledger!Next
  <2> QED BY <2>6, <2>8, <2>9, MovedOne
<1> QED BY <1>3, <1>4 DEF UpdatePod

LEMMA LedgerDeletes ==
  ASSUME LInv, IInv', NEW p \in Pods, HandleK8sDelPodEvent(p)
  PROVE  LedgerStep
<1> USE DEF HandleK8sDelPodEvent, removePodFromClusterWithoutLock, TakePods,
            jobVars, warmVars
<1>0. TypeOK /\ PodOK(p)
  BY DEF LInv, IInv, PodInv
<1>1. Disputed' = Disputed \/ Disputed' = Disputed \cup {p}
  BY DEF Disputed
<1>2. ASSUME NEW q \in Pods \ {p} PROVE Still(q)
  <2>1. Steady(q)
    BY <1>1 DEF Steady
  <2> QED BY <1>0, <2>1 DEF Still, InJob, TypeOK
<1>3. CASE p \in Disputed
  <2>1. \A q \in Pods : PlaceOf(q)' = PlaceOf(q) /\ LedgerPod(q)'
    BY <1>1, <1>2, <1>3, StillPlace, StillPod, DisputedPlace DEF LInv
  <2> QED BY <2>1 DEF LedgerStep, LedgerMoves
<1>4. CASE p \notin Disputed
  <2>1. p \notin gone
    BY <1>0 DEF PodOK, DeadPod
  <2>2. ASSUME p \notin Disputed' PROVE LedgerPod(p)'
    <3>1. ~Held(p) /\ scan[p] = NoScan
      BY <2>2 DEF Disputed
    <3>2. p \in released => Nowhere(p) /\ p \in hasIP
      BY <1>4 DEF LInv, LedgerPod, ReleasedPod
    <3>3. (Held(p)' <=> Held(p)) /\ scan' = scan /\ released' = released
          /\ hasIP' = hasIP
      BY DEF Held, InJob
    <3>4. Nowhere(p) => Nowhere(p)'
      BY <1>0, <3>3 DEF Nowhere, TypeOK, Owners
    <3> QED BY <3>1, <3>2, <3>3, <3>4 DEF LedgerPod, ReleasedPod, ScanSpot
  <2>3. p \in gone'
    OBVIOUS
  <2> QED BY <1>1, <1>2, <1>4, <2>1, <2>2, <2>3, Finished
           DEF LedgerPod, ReleasedPod, ScanSpot
<1> QED BY <1>3, <1>4

LEMMA LedgerScans ==
  ASSUME LInv, IInv', NEW p \in Pods, ScanDecide(p)
  PROVE  LedgerStep
<1> USE DEF ScanDecide, metaVars, jobVars, warmVars, histVars
<1>0. TypeOK /\ PodOK(p) /\ LedgerPod(p)
  BY DEF LInv, IInv, PodInv
<1>1. Disputed' = Disputed
  BY DEF Disputed
<1>2. ASSUME NEW q \in Pods \ {p} PROVE Still(q)
  BY <1>0, <1>1 DEF Still, Steady, InJob, TypeOK
<1>3. ASSUME p \notin Disputed PROVE LedgerPod(p)'
  <2>1. tenantName[p] \in Tenants /\ p \in podMap[tenantName[p]]
    BY <1>0, <1>3 DEF PodOK, CleanPod, OneOwner, Disputed, TypeOK, Owners
  <2>2. sup[p] \in {tenantName[p], Pool} /\ scan'[p] = sup[p]
    BY <1>0, <1>3, <2>1 DEF PodOK, SupKnown, Disputed, TypeOK
  <2>3. p \notin released
    BY <1>0, <1>3, <2>1 DEF LedgerPod, ReleasedPod, Nowhere, Owners
  <2> QED BY <2>1, <2>2, <2>3 DEF LedgerPod, ReleasedPod, ScanSpot
<1>4. PlaceOf(p)' = PlaceOf(p)
  <2>1. Under(p)' = Under(p) /\ In(p)' = In(p)
    BY DEF Under, In, InJob
  <2> QED BY <1>1, <2>1 DEF PlaceOf, Found
<1>5. \A q \in Pods : PlaceOf(q)' = PlaceOf(q) /\ LedgerPod(q)'
  BY <1>1, <1>2, <1>3, <1>4, StillPlace, StillPod, DisputedPlace DEF LInv
<1> QED BY <1>5 DEF LedgerStep, LedgerMoves

LEMMA LedgerCorrects ==
  ASSUME LInv, IInv', NEW p \in Pods, ScanCorrect(p)
  PROVE  LedgerStep
<1> DEFINE o == scan[p]
<1> USE DEF ScanCorrect, jobVars, warmVars
<1>0. TypeOK /\ PodOK(p) /\ LedgerPod(p) /\ Spot(p) /\ o \in Owners
  BY Spots DEF LInv, IInv, PodInv, TypeOK
<1>1. /\ wild \subseteq wild' /\ Disputed \subseteq Disputed'
      /\ wild' = wild /\ ~Held(p) => Disputed' = Disputed
      /\ p \in wild' \/ (p \in podMap'[o] /\ wild' = wild)
  BY <1>0, Corrects DEF Disputed
<1>2. ASSUME NEW q \in Pods \ {p} PROVE Still(q)
  <2>1. /\ \A c \in Owners : q \in podMap'[c] <=> q \in podMap[c]
        /\ tenantName'[q] = tenantName[q]
        /\ q \in wild' <=> q \in wild
    BY <1>0, Corrects
  <2> QED BY <1>0, <2>1 DEF Still, Steady, Disputed, InJob, TypeOK
<1>3. \A q \in Pods \ {p} : PlaceOf(q)' = PlaceOf(q) /\ LedgerPod(q)'
  BY <1>2, StillPlace, StillPod DEF LInv
<1>4. CASE p \in Disputed
  <2>1. PlaceOf(p)' = PlaceOf(p) /\ LedgerPod(p)'
    BY <1>1, <1>4, DisputedPlace
  <2> QED BY <1>3, <2>1 DEF LedgerStep, LedgerMoves
<1>5. CASE p \notin Disputed /\ p \in Disputed'
  <2>1. p \notin gone
    BY <1>5, Apart DEF Nowhere
  <2> QED BY <1>1, <1>2, <1>5, <2>1, Finished
<1>6. CASE p \notin Disputed'
  <2>1. p \notin Disputed /\ ~Held(p) /\ p \in podMap'[o]
    BY <1>1, <1>6 DEF Disputed
  <2>2. tenantName[p] \in Tenants /\ o \in {tenantName[p], Pool}
    BY <1>0, <2>1 DEF LedgerPod, ScanSpot, Held, InJob
  <2>3. p \in podMap[tenantName[p]] /\ PlaceOf(p) = Listed(tenantName[p])
    BY <1>0, <2>1, <2>2 DEF PodOK, CleanPod, OneOwner, Disputed, Spot, Owners
  <2>4. LedgerPod(p)'
    <3>1. p \notin released
      BY <2>1, <2>3, <2>2, Apart DEF Nowhere, Owners
    <3>2. scan'[p] = NoScan /\ released' = released
      BY <1>0 DEF TypeOK
    <3> QED BY <3>1, <3>2 DEF LedgerPod, ReleasedPod, ScanSpot
  <2>5. PlaceOf(p)' = Listed(o)
    <3>1. Spot(p)'
      BY <1>3, <2>4, SpotsNext DEF LInv
    <3> QED BY <1>0, <1>6, <2>1, <3>1 DEF Spot
  <2>6. CASE o = tenantName[p]
    BY <1>3, <2>3, <2>4, <2>5, <2>6 DEF LedgerStep, LedgerMoves
  <2>7. CASE o = Pool
    <3>1. Ledger!Correct(tenantName[p], p)
      BY <1>3, <2>2, <2>3, <2>5, <2>7, OwnersAssumption
         DEF Listed, Ledger!Correct, Ledger!Move, Ledger!With, Ledger!At
    <3> QED BY <1>3, <2>2, <2>4, <3>1 DEF LedgerStep, LedgerMoves, Ledger!Next
  <2> QED BY <2>2, <2>6, <2>7
<1> QED BY <1>4, <1>5, <1>6

LEMMA LedgerTrimTakes ==
  ASSUME LInv, IInv', WarmTake
  PROVE  LedgerStep
<1> USE DEF WarmTake, jobVars, histVars
<1>0. TypeOK /\ TrimShape
  BY DEF LInv, IInv
<1>1. PICK S \in SUBSET podMap[Pool] : TakePods(Pool, S) /\ warmDel' = S
  BY DEF Taken
<1>2. Disputed' = Disputed /\ warmDel = {} /\ S \in SUBSET Pods
  BY <1>0, <1>1 DEF Disputed, TrimShape, TypeOK, Owners
<1>3. \A q \in Pods : Steady(q)
  BY <1>2 DEF Steady
<1>4. ASSUME NEW q \in Pods \ S PROVE Still(q)
  BY <1>0, <1>1, <1>2, <1>3 DEF Still, TakePods, InJob, TypeOK
<1>5. ASSUME NEW q \in S \ Disputed
      PROVE  /\ ~Nowhere(q) /\ PlaceOf(q) = Listed(Pool) /\ scan[q] = NoScan
             /\ (Spot(q)' => PlaceOf(q)' = At("trim"))
  <2>1. PlaceOf(q) = Listed(Pool) /\ ~Nowhere(q)
    BY <1>1, <1>2, Spots DEF Spot, Nowhere, Owners
  <2>2. scan[q] = NoScan
    BY <1>1, <1>2, NoScanOf
  <2> QED BY <1>1, <1>2, <2>1, <2>2 DEF Spot
<1>6. /\ \A q \in Pods : LedgerPod(q)'
      /\ Ledger!Move(S \ Disputed, Listed(Pool), At("trim"))
  BY <1>2, <1>3, <1>4, <1>5, Moved
<1>7. Ledger!Trim(S \ Disputed)
  BY <1>6 DEF Listed, At, Ledger!Trim, Ledger!At
<1> QED BY <1>2, <1>6, <1>7 DEF LedgerStep, LedgerMoves, Ledger!Next

LEMMA LedgerTrimDone ==
  ASSUME LInv, IInv', WarmDone
  PROVE  LedgerStep
<1> USE DEF WarmDone, jobVars
<1> DEFINE S == warmDel
<1>0. TypeOK /\ S \in SUBSET Pods
  BY DEF LInv, IInv, TypeOK
<1>1. Disputed' = Disputed
  BY DEF Disputed
<1>2. ASSUME NEW q \in Pods \ S PROVE Still(q)
  BY <1>0, <1>1, <1>2 DEF Still, Steady, SetPods, InJob, TypeOK, Owners
<1>3. ASSUME NEW q \in S \ Disputed
      PROVE  /\ ~Nowhere(q) /\ PlaceOf(q) = At("trim") /\ scan[q] = NoScan
             /\ q \in hasIP
  <2>1. ~Nowhere(q) /\ q \in hasIP
    BY <1>0, <1>3, Apart DEF Nowhere, Held
  <2>2. PlaceOf(q) = At("trim")
    BY <1>0, <1>3, Spots DEF Spot
  <2> QED BY <1>0, <1>3, <2>1, <2>2, NoScanOf
<1>4. CASE SetPods(Pool, S) /\ UNCHANGED released
  <2>1. \A q \in S : Steady(q) /\ q \in podMap'[Pool]
    BY <1>0, <1>1, <1>4 DEF Steady, SetPods, TypeOK, Owners
  <2>2. ASSUME NEW q \in S \ Disputed, Spot(q)'
        PROVE  PlaceOf(q)' = Listed(Pool)
    BY <1>1, <2>1, <2>2 DEF Spot, Owners
  <2> HIDE DEF S
  <2>3. /\ \A q \in Pods : LedgerPod(q)'
        /\ Ledger!Move(S \ Disputed, At("trim"), Listed(Pool))
    BY <1>0, <1>1, <1>2, <1>3, <2>1, <2>2, Moved
  <2>4. Ledger!Trimmed(S \ Disputed)
    BY <2>3 DEF Listed, At, Ledger!Trimmed, Ledger!At
  <2> QED BY <1>0, <2>3, <2>4 DEF LedgerStep, LedgerMoves, Ledger!Next
<1>5. CASE released' = released \cup S /\ UNCHANGED <<podMap, tenantName, inSync>>
  <2>1. ASSUME NEW q \in S \ Disputed PROVE LedgerPod(q)' /\ q \notin gone
    <3>1. /\ \A o \in Owners : q \notin podMap[o]
          /\ q \notin timers /\ \A th \in Threads : ~InJob(th, q)
          /\ q \notin gone
      BY <1>0, <2>1, Apart DEF CleanPod, OneHolder, Held, Nowhere
    <3>2. Nowhere(q)'
      BY <1>3, <1>5, <3>1 DEF Nowhere, Held, InJob
    <3> QED BY <1>3, <3>1, <3>2 DEF LedgerPod, ReleasedPod, ScanSpot, Nowhere
  <2>2. ASSUME NEW q \in Pods \ (S \ Disputed)
        PROVE  LedgerPod(q)' /\ PlaceOf(q)' = PlaceOf(q)
    BY <1>1, <1>2, <2>2, StillPlace, StillPod, DisputedPlace DEF LInv
  <2>3. \A q \in Pods : LedgerPod(q)'
    BY <2>1, <2>2
  <2>4. ASSUME NEW q \in S \ Disputed PROVE PlaceOf(q)' = At("out")
    <3>1. Spot(q)'
      BY <1>0, <2>3, SpotsNext DEF LInv
    <3>2. q \in released' \ gone' /\ q \notin Disputed'
      BY <1>1, <1>5, <2>1
    <3> QED BY <3>1, <3>2 DEF Spot, At
  <2>5. Ledger!Trimmed(S \ Disputed)
    BY <1>0, <1>3, <2>2, <2>4 DEF At, Ledger!Trimmed, Ledger!Move, Ledger!At
  <2>6. S \ Disputed \in SUBSET Pods
    BY <1>0
  <2> QED BY <2>3, <2>5, <2>6 DEF LedgerStep, LedgerMoves, Ledger!Next
<1> QED BY <1>4, <1>5

LEMMA LedgerOthers ==
  ASSUME LInv, IInv',
         \/ \E p \in Pods :
              \/ UnassignTimer(p) \/ UpdatePod(p) \/ HandleK8sDelPodEvent(p)
              \/ ScanDecide(p) \/ ScanCorrect(p)
              \/ SupFinishUnassign(p) \/ SupRestart(p)
         \/ WarmDecide \/ WarmTake \/ WarmDone
         \/ \E t \in Tenants : RegisterTenant(t)
         \/ UNCHANGED vars
  PROVE  LedgerStep
<1>1. ASSUME \/ \E p \in Pods : SupFinishUnassign(p) \/ SupRestart(p)
             \/ WarmDecide \/ \E t \in Tenants : RegisterTenant(t)
             \/ UNCHANGED vars
      PROVE  LedgerStep
  <2>1. UNCHANGED <<hasIP, podMap, tenantName, jobVars, scan, timers, warmDel,
                    gone, histVars>>
    BY <1>1 DEF SupFinishUnassign, SupRestart, WarmDecide, RegisterTenant,
                vars, metaVars, warmVars
  <2>2. \A q \in Pods : Still(q)
    BY <2>1 DEF Still, Steady, Disputed, InJob, jobVars, histVars
  <2> QED BY <2>2, Unmoved
<1> QED
  BY <1>1, LedgerTimer, LedgerUpdatePod, LedgerDeletes, LedgerScans,
     LedgerCorrects, LedgerTrimTakes, LedgerTrimDone

-----------------------------------------------------------------------------
(* The theorem                                                             *)

LEMMA LedgerInit == Init => LInv /\ Ledger!Init
<1> SUFFICES ASSUME Init PROVE LInv /\ Ledger!Init
  OBVIOUS
<1>1. \A p \in Pods : LedgerPod(p)
  BY DEF Init, LedgerPod, ReleasedPod, ScanSpot
<1>2. ASSUME NEW p \in Pods PROVE PlaceOf(p) = At("none")
  <2>1. Found(p) = {} /\ p \notin Disputed
    BY DEF Init, Found, Under, In, InJob, Disputed
  <2> QED BY <2>1, NoPlace
<1>3. Ledger!Init
  BY <1>2 DEF Ledger!Init, Ledger!At, At
<1> QED BY <1>1, <1>3, InvInit DEF LInv

LEMMA LedgerNext == LInv /\ [Next]_vars => LInv' /\ LedgerMoves
<1> SUFFICES ASSUME LInv, [Next]_vars PROVE LInv' /\ LedgerMoves
  OBVIOUS
<1>1. IInv'
  BY InvStep DEF LInv
<1>2. LedgerStep
  BY <1>1, LedgerResize, LedgerReply, LedgerOthers DEF Next
<1> QED BY <1>1, <1>2 DEF LInv, LedgerStep

\* The bookkeeping implements the ledger: whatever resizes, timers, deletions,
\* scans and trims interleave, a pod has one place and moves along the ledger's
\* ways (meta.go, all that moves pods), for any tenants, pods and goroutines.
THEOREM LedgerImplemented == Spec => LedgerKept
<1>1. LInv /\ [Next]_vars => [Ledger!Next]_[p \in Pods |-> PlaceOf(p)]
  BY LedgerNext DEF LedgerMoves
<1>2. LInv /\ [Next]_vars => LInv'
  BY LedgerNext
<1> QED BY <1>1, <1>2, LedgerInit, PTL DEF Spec, LedgerKept, Ledger!Spec
=============================================================================
