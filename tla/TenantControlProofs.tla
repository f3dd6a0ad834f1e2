------------------------ MODULE TenantControlProofs ------------------------
(***************************************************************************)
(* The decisions of a tenant's analysis task keep to the limits of its     *)
(* configuration and are not taken back, and the resizes at work neither   *)
(* make nor lose pods, for any configurations, loads, pods and goroutines. *)
(* The rule is a matter of arithmetic (Limits, RuleSettles); that it is    *)
(* asked about numbers of pods and a window that was measured is the       *)
(* invariant Counts.  The sum of the pods needs TInv.                      *)
(***************************************************************************)
EXTENDS TenantControl, TLAPS, FiniteSetTheorems

USE ControlAssumption, CoreAssumption DEF ControlAssumption, CoreAssumption

Counts ==
  /\ cnt \in Nat /\ free \in Nat /\ load \in Nat
  /\ latest \in Confs /\ conf \in Confs
  /\ window \in [ready : BOOLEAN, total : Nat, pods : Nat]
  /\ window.ready => window.pods > 0
  /\ job \in [Threads \cup {Task} -> Jobs \cup {NoJob}]
  /\ seen \in Nat /\ best \in Int

-----------------------------------------------------------------------------
(* The rule                                                                *)

LEMMA LimitsOrdered ==
  ASSUME NEW c \in Confs
  PROVE  /\ MinCntOfPod(c) \in Nat /\ MaxCntOfPod(c) \in Nat
         /\ 1 <= MinCntOfPod(c) /\ MinCntOfPod(c) <= MaxCntOfPod(c)
         /\ InitCntOfPod(c) \in MinCntOfPod(c)..MaxCntOfPod(c)
BY DEF MinCntOfPod, MaxCntOfPod, InitCntOfPod, Larger

LEMMA TargetIsCount ==
  ASSUME NEW use, use.total \in Nat, use.pods \in Nat \ {0},
         NEW old \in Nat, NEW c \in Confs, c.lower < c.upper
  PROVE  TargetCntOfPod(use, old, c) \in Int
<1> DEFINE n == 200 * use.total * old
           d == CoreOfPod * (c.lower + c.upper) * use.pods
<1>1. n \in Nat
  OBVIOUS
<1>2. d \in Nat \ {0}
  <2>1. CoreOfPod \in Nat \ {0} /\ c.lower + c.upper \in Nat \ {0}
    OBVIOUS
  <2>2. \A x, y \in Nat \ {0} : x * y \in Nat \ {0}
    OBVIOUS
  <2> QED BY <2>1, <2>2
<1> HIDE DEF n, d
<1>3. /\ (100 * n + 99 * d) \div (100 * d) \in Int
      /\ n \div d \in Int /\ (2 * n + d) \div (2 * d) \in Int
  <2>1. \A x \in Nat, y \in Nat \ {0} : x \div y \in Int
    OBVIOUS
  <2>2. 100 * n + 99 * d \in Nat /\ 2 * n + d \in Nat
    BY <1>1, <1>2
  <2>3. 100 * d \in Nat \ {0} /\ 2 * d \in Nat \ {0}
    BY <1>2
  <2> QED BY <1>1, <1>2, <2>1, <2>2, <2>3
<1> QED BY <1>3 DEF TargetCntOfPod, Larger, n, d

\* The rule stays within the limits, or between them and the pods there are.
LEMMA Limits ==
  ASSUME NEW use, use.total \in Nat, use.pods \in Nat \ {0},
         NEW old \in Nat, NEW c \in Confs,
         ComputeBestPodsInRuleOfCompute(use, old, c) # NoChange
  PROVE  /\ ComputeBestPodsInRuleOfCompute(use, old, c) \in Int
         /\ ComputeBestPodsInRuleOfCompute(use, old, c)
              \in Smaller(old, MinCntOfPod(c))..Larger(old, MaxCntOfPod(c))
<1> DEFINE target == TargetCntOfPod(use, old, c)
<1>1. c.lower < c.upper
  BY DEF ComputeBestPodsInRuleOfCompute
<1>2. target \in Int
  BY <1>1, TargetIsCount
<1>3. MinCntOfPod(c) \in Nat /\ MaxCntOfPod(c) \in Nat /\ MinCntOfPod(c) <= MaxCntOfPod(c)
  BY LimitsOrdered
<1> HIDE DEF target
<1>4. ASSUME target >= old, NEW b
      PROVE  OutTo(old, target, b, c)
               \in Smaller(old, MinCntOfPod(c))..Larger(old, MaxCntOfPod(c))
  BY <1>2, <1>3, <1>4 DEF OutTo, Smaller, Larger
<1>5. ASSUME target <= old, NEW b
      PROVE  InTo(old, target, b, c)
               \in Smaller(old, MinCntOfPod(c))..Larger(old, MaxCntOfPod(c))
  BY <1>2, <1>3, <1>5 DEF InTo, Smaller, Larger
<1>6. \/ /\ target >= old
         /\ ComputeBestPodsInRuleOfCompute(use, old, c)
              = OutTo(old, target, ~Above(use, old, target, c.lower), c)
      \/ /\ target <= old
         /\ ComputeBestPodsInRuleOfCompute(use, old, c)
              = InTo(old, target, ~Below(use, old, target, c.upper), c)
  BY DEF ComputeBestPodsInRuleOfCompute, target
<1>7. ComputeBestPodsInRuleOfCompute(use, old, c)
        \in Smaller(old, MinCntOfPod(c))..Larger(old, MaxCntOfPod(c))
  BY <1>4, <1>5, <1>6
<1> QED BY <1>3, <1>7 DEF Smaller, Larger

\* What the rule compared before it answered; the target is only a number of pods.
LEMMA RuleCases ==
  ASSUME NEW use, use.total \in Nat, use.pods \in Nat \ {0},
         NEW old \in Nat, NEW c \in Confs, NEW size,
         size = ComputeBestPodsInRuleOfCompute(use, old, c), size # NoChange
  PROVE  \E target \in Nat \ {0} :
           \/ /\ Above(use, 1, 1, c.upper) /\ target >= old
              /\ size = OutTo(old, target, ~Above(use, old, target, c.lower), c)
           \/ /\ Below(use, 1, 1, c.lower) /\ target <= old
              /\ size = InTo(old, target, ~Below(use, old, target, c.upper), c)
<1> DEFINE target == TargetCntOfPod(use, old, c)
<1>1. c.lower < c.upper
  BY DEF ComputeBestPodsInRuleOfCompute
<1>2. target \in Int
  BY <1>1, TargetIsCount
<1>3. \E x : target = Larger(1, x)
  BY DEF TargetCntOfPod
<1>4. target \in Nat \ {0}
  BY <1>2, <1>3 DEF Larger
<1>5. \/ /\ Above(use, 1, 1, c.upper) /\ target >= old
         /\ size = OutTo(old, target, ~Above(use, old, target, c.lower), c)
      \/ /\ Below(use, 1, 1, c.lower) /\ target <= old
         /\ size = InTo(old, target, ~Below(use, old, target, c.upper), c)
  BY DEF ComputeBestPodsInRuleOfCompute
<1> QED BY <1>4, <1>5

\* The same load on another number of pods instead of old ones.
Spread(use, old, size) == [use EXCEPT !.total = @ * old, !.pods = @ * size]

LEMMA Times == \A k, a, b \in Nat : a <= b => k * a <= k * b
OBVIOUS

\* Adding pods leaves the usage above the lower threshold.
LEMMA OutSettles ==
  ASSUME NEW use \in [ready : BOOLEAN, total : Nat, pods : Nat], use.pods > 0,
         NEW old \in Nat \ {0}, NEW c \in Confs, NEW target \in Nat \ {0}, NEW size,
         Above(use, 1, 1, c.upper),
         size = OutTo(old, target, ~Above(use, old, target, c.lower), c),
         size > old, ~TooCoarse(old, size, c)
  PROVE  ~Below(Spread(use, old, size), 1, 1, c.lower)
<1> DEFINE P == CoreOfPod * use.pods
           X == 100 * (use.total * old)
<1>1. P \in Nat \ {0} /\ X \in Nat
  <2>1. \A x, y \in Nat \ {0} : x * y \in Nat \ {0}
    OBVIOUS
  <2>2. use.pods \in Nat \ {0} /\ use.total * old \in Nat
    OBVIOUS
  <2> QED BY <2>1, <2>2
<1>2. size \in Nat /\ size <= MaxCntOfPod(c)
  BY LimitsOrdered DEF OutTo, Smaller
<1>3. Below(Spread(use, old, size), 1, 1, c.lower) <=> X < c.lower * (P * size)
  <2>1. Spread(use, old, size).total = use.total * old
        /\ Spread(use, old, size).pods = use.pods * size
    BY DEF Spread
  <2>2. CoreOfPod * c.lower * (use.pods * size) * 1 = c.lower * (P * size)
    BY <1>2
  <2> QED BY <2>1, <2>2 DEF Below
<1>4. CASE Above(use, old, target, c.lower)
  <2>1. X > c.lower * (P * target)
    BY <1>4 DEF Above
  <2>2. size <= target
    BY <1>2, <1>4, LimitsOrdered DEF OutTo, Smaller
  <2>3. P * size <= P * target /\ P * size \in Nat /\ P * target \in Nat
    BY <1>1, <1>2, <2>2, Times
  <2>4. c.lower * (P * size) <= c.lower * (P * target)
    BY <2>3, Times
  <2> HIDE DEF P, X
  <2>5. c.lower * (P * size) \in Nat /\ c.lower * (P * target) \in Nat
    BY <2>3
  <2> QED BY <1>1, <1>3, <2>1, <2>4, <2>5
<1>5. CASE ~Above(use, old, target, c.lower)
  <2>1. size = old + 1
    BY <1>2, <1>5 DEF OutTo, Smaller
  <2>2. c.lower * size <= c.upper * old
    BY <2>1 DEF TooCoarse, Larger, Smaller
  <2>3. 100 * use.total >= c.upper * P
    BY DEF Above
  <2>4. X >= (c.upper * P) * old
    <3>1. c.upper * P \in Nat /\ 100 * use.total \in Nat
      BY <1>1
    <3>2. old * (c.upper * P) <= old * (100 * use.total)
      BY <2>3, <3>1, Times
    <3> QED BY <3>1, <3>2
  <2>5. P * (c.lower * size) <= P * (c.upper * old)
    BY <1>1, <1>2, <2>2, Times
  <2> HIDE DEF P, X
  <2>6. c.lower * (P * size) <= X
    BY <1>1, <1>2, <2>4, <2>5
  <2> QED BY <1>1, <1>2, <1>3, <2>6
<1> QED BY <1>4, <1>5

\* Removing pods leaves it below the upper one.
LEMMA InSettles ==
  ASSUME NEW use \in [ready : BOOLEAN, total : Nat, pods : Nat], use.pods > 0,
         NEW old \in Nat \ {0}, NEW c \in Confs, NEW target \in Nat \ {0}, NEW size,
         Below(use, 1, 1, c.lower),
         size = InTo(old, target, ~Below(use, old, target, c.upper), c),
         size < old, ~TooCoarse(old, size, c)
  PROVE  ~Above(Spread(use, old, size), 1, 1, c.upper)
<1> DEFINE P == CoreOfPod * use.pods
           X == 100 * (use.total * old)
<1>1. P \in Nat \ {0} /\ X \in Nat
  <2>1. \A x, y \in Nat \ {0} : x * y \in Nat \ {0}
    OBVIOUS
  <2>2. use.pods \in Nat \ {0} /\ use.total * old \in Nat
    OBVIOUS
  <2> QED BY <2>1, <2>2
<1>2. size \in Nat /\ size >= MinCntOfPod(c)
  BY LimitsOrdered DEF InTo, Larger
<1>3. Above(Spread(use, old, size), 1, 1, c.upper) <=> X > c.upper * (P * size)
  <2>1. Spread(use, old, size).total = use.total * old
        /\ Spread(use, old, size).pods = use.pods * size
    BY DEF Spread
  <2>2. CoreOfPod * c.upper * (use.pods * size) * 1 = c.upper * (P * size)
    BY <1>2
  <2> QED BY <2>1, <2>2 DEF Above
<1>4. CASE Below(use, old, target, c.upper)
  <2>1. X < c.upper * (P * target)
    BY <1>4 DEF Below
  <2>2. target <= size
    BY <1>2, <1>4, LimitsOrdered DEF InTo, Larger
  <2>3. P * target <= P * size /\ P * size \in Nat /\ P * target \in Nat
    BY <1>1, <1>2, <2>2, Times
  <2>4. c.upper * (P * target) <= c.upper * (P * size)
    BY <2>3, Times
  <2> HIDE DEF P, X
  <2>5. c.upper * (P * size) \in Nat /\ c.upper * (P * target) \in Nat
    BY <2>3
  <2> QED BY <1>1, <1>3, <2>1, <2>4, <2>5
<1>5. CASE ~Below(use, old, target, c.upper)
  <2>1. size = old - 1
    BY <1>2, <1>5 DEF InTo, Larger
  <2>2. c.lower * old <= c.upper * size
    BY <2>1 DEF TooCoarse, Larger, Smaller
  <2>3. 100 * use.total <= c.lower * P
    BY DEF Below
  <2>4. X <= (c.lower * P) * old
    <3>1. c.lower * P \in Nat /\ 100 * use.total \in Nat
      BY <1>1
    <3>2. old * (100 * use.total) <= old * (c.lower * P)
      BY <2>3, <3>1, Times
    <3> QED BY <3>1, <3>2
  <2>5. P * (c.lower * old) <= P * (c.upper * size)
    BY <1>1, <1>2, <2>2, Times
  <2> HIDE DEF P, X
  <2>6. X <= c.upper * (P * size)
    BY <1>1, <1>2, <2>4, <2>5
  <2> QED BY <1>1, <1>2, <1>3, <2>6
<1> QED BY <1>4, <1>5

\* Asked again about the pods it decided on, the rule does not go back.
LEMMA RuleSettles ==
  ASSUME NEW use \in [ready : BOOLEAN, total : Nat, pods : Nat], use.pods > 0,
         NEW old \in Nat \ {0}, NEW c \in Confs, NEW size, NEW again,
         size = ComputeBestPodsInRuleOfCompute(use, old, c), size # NoChange,
         ~TooCoarse(old, size, c),
         again = ComputeBestPodsInRuleOfCompute(Spread(use, old, size), size, c),
         again # NoChange
  PROVE  (again - size) * (size - old) >= 0
<1>1. /\ MinCntOfPod(c) \in Nat /\ MaxCntOfPod(c) \in Nat
      /\ 1 <= MinCntOfPod(c) /\ MinCntOfPod(c) <= MaxCntOfPod(c)
  BY LimitsOrdered
<1>2. size \in Nat \ {0}
  BY <1>1, Limits DEF Smaller, Larger
<1>3. Spread(use, old, size).total \in Nat /\ Spread(use, old, size).pods \in Nat \ {0}
  <2>1. use.total * old \in Nat /\ use.pods * size \in Nat \ {0}
    BY <1>2
  <2> QED BY <2>1 DEF Spread
<1>4. again \in Int
  BY <1>2, <1>3, Limits
<1>5. PICK target \in Nat \ {0} :
        \/ /\ Above(use, 1, 1, c.upper) /\ target >= old
           /\ size = OutTo(old, target, ~Above(use, old, target, c.lower), c)
        \/ /\ Below(use, 1, 1, c.lower) /\ target <= old
           /\ size = InTo(old, target, ~Below(use, old, target, c.upper), c)
  BY RuleCases
<1>6. PICK t \in Nat \ {0} :
        \/ /\ Above(Spread(use, old, size), 1, 1, c.upper) /\ t >= size
           /\ again = OutTo(size, t, ~Above(Spread(use, old, size), size, t, c.lower), c)
        \/ /\ Below(Spread(use, old, size), 1, 1, c.lower) /\ t <= size
           /\ again = InTo(size, t, ~Below(Spread(use, old, size), size, t, c.upper), c)
  BY <1>2, <1>3, RuleCases
<1>7. CASE size > old
  <2>1. again >= size
    <3>1. CASE size <= MaxCntOfPod(c) /\ ~Below(Spread(use, old, size), 1, 1, c.lower)
      BY <1>1, <1>2, <1>6, <3>1 DEF OutTo, Smaller
    <3>2. CASE size = MinCntOfPod(c)
      BY <1>1, <1>2, <1>6, <3>2 DEF OutTo, InTo, Smaller, Larger
    <3>3. \/ size <= MaxCntOfPod(c) /\ ~Below(Spread(use, old, size), 1, 1, c.lower)
          \/ size = MinCntOfPod(c)
      <4>1. CASE size = OutTo(old, target, ~Above(use, old, target, c.lower), c)
                 /\ Above(use, 1, 1, c.upper)
        BY <1>1, <1>7, <4>1, OutSettles DEF OutTo, Smaller
      <4>2. CASE size = InTo(old, target, ~Below(use, old, target, c.upper), c)
                 /\ target <= old
        BY <1>1, <1>7, <4>2 DEF InTo, Larger
      <4> QED BY <1>5, <4>1, <4>2
    <3> QED BY <3>1, <3>2, <3>3
  <2>2. again - size \in Nat /\ size - old \in Nat
    BY <1>2, <1>4, <1>7, <2>1
  <2> QED BY <2>2
<1>8. CASE size < old
  <2>1. again <= size
    <3>1. CASE size >= MinCntOfPod(c) /\ ~Above(Spread(use, old, size), 1, 1, c.upper)
      BY <1>1, <1>2, <1>6, <3>1 DEF InTo, Larger
    <3>2. CASE size = MaxCntOfPod(c)
      BY <1>1, <1>2, <1>6, <3>2 DEF OutTo, InTo, Smaller, Larger
    <3>3. \/ size >= MinCntOfPod(c) /\ ~Above(Spread(use, old, size), 1, 1, c.upper)
          \/ size = MaxCntOfPod(c)
      <4>1. CASE size = InTo(old, target, ~Below(use, old, target, c.upper), c)
                 /\ Below(use, 1, 1, c.lower)
        BY <1>1, <1>8, <4>1, InSettles DEF InTo, Larger
      <4>2. CASE size = OutTo(old, target, ~Above(use, old, target, c.lower), c)
                 /\ target >= old
        BY <1>1, <1>8, <4>2 DEF OutTo, Smaller
      <4> QED BY <1>5, <4>1, <4>2
    <3> QED BY <3>1, <3>2, <3>3
  <2>2. size - again \in Nat /\ old - size \in Nat
    BY <1>2, <1>4, <1>8, <2>1
  <2>3. (size - again) * (old - size) >= 0
    BY <2>2
  <2> QED BY <1>2, <1>4, <2>3
<1>9. CASE size = old
  BY <1>2, <1>4, <1>9
<1> QED BY <1>2, <1>7, <1>8, <1>9

-----------------------------------------------------------------------------
(* The counts                                                              *)

LEMMA InitCounts == Init => Counts
BY DEF Init, Counts, NoWindow, NoJob

\* Whom a job is started for, and what with.
LEMMA Started ==
  ASSUME Counts, HasThread, NEW op \in {"add", "remove"}, NEW whole \in BOOLEAN,
         NEW n \in Nat, NEW by \in {"task", "client", "nobody"}
  PROVE  [job EXCEPT ![FreeThread] = Resizing(op, whole, n, by)]
           \in [Threads \cup {Task} -> Jobs \cup {NoJob}]
<1>1. FreeThread \in Threads
  BY DEF HasThread, FreeThread
<1>2. Resizing(op, whole, n, by) \in Jobs
  BY DEF Resizing, Jobs
<1> QED BY <1>1, <1>2 DEF Counts

LEMMA Pausing ==
  ASSUME Counts, AsyncPause
  PROVE  job' \in [Threads \cup {Task} -> Jobs \cup {NoJob}]
<1>1. CASE state = "resumed"
  <2>1. /\ HasThread
        /\ job' = [job EXCEPT ![FreeThread] = Resizing("remove", TRUE, 0, "nobody")]
    BY <1>1 DEF AsyncPause, SyncStatePausing
  <2>2. TRUE \in BOOLEAN /\ 0 \in Nat
    OBVIOUS
  <2> QED BY <2>1, <2>2, Started
<1>2. CASE state # "resumed"
  BY <1>2 DEF AsyncPause, SyncStatePausing, Counts
<1> QED BY <1>1, <1>2

LEMMA Resuming ==
  ASSUME Counts, NEW by \in {"task", "client"}, Resume(by)
  PROVE  job' \in [Threads \cup {Task} -> Jobs \cup {NoJob}]
<1>1. InitCntOfPod(conf) \in Nat
  BY DEF Counts, InitCntOfPod
<1> QED BY <1>1, Started DEF Resume

\* A job that has begun has all its parts.
LEMMA JobParts ==
  ASSUME Counts, NEW t \in Threads \cup {Task}, job[t].step \in {"start", "calls"}
  PROVE  job[t] \in Jobs
BY DEF Counts, NoJob

LEMMA JobCounts ==
  ASSUME Counts, NEW t \in Threads \cup {Task}, Job(t)
  PROVE  Counts'
<1>1. CASE Refused(t)
  BY <1>1 DEF Refused, Ended, Counts, books, given
<1>2. CASE Add(t)
  <2>1. job[t] \in Jobs
    BY <1>2, JobParts DEF Add
  <2>2. Smaller(job[t].n, free) \in Nat /\ free - Smaller(job[t].n, free) \in Nat
    BY <2>1 DEF Smaller, Jobs, Counts
  <2>3. [job[t] EXCEPT !.step = "calls", !.n = Smaller(job[t].n, free)] \in Jobs
    BY <2>1, <2>2 DEF Jobs
  <2>4. job' \in [Threads \cup {Task} -> Jobs \cup {NoJob}]
    BY <1>2, <2>3 DEF Add, Counts
  <2> QED BY <1>2, <2>2, <2>4 DEF Add, Counts, given, task
<1>3. CASE Remove(t)
  <2>1. job[t] \in Jobs
    BY <1>3, JobParts DEF Remove
  <2>2. Popped(job[t]) \in Nat /\ cnt - Popped(job[t]) \in Nat
    BY <2>1 DEF Popped, Smaller, Jobs, Counts
  <2>3. [job[t] EXCEPT !.step = "calls", !.n = Popped(job[t])] \in Jobs
    BY <2>1, <2>2 DEF Jobs
  <2>4. job' \in [Threads \cup {Task} -> Jobs \cup {NoJob}]
    BY <1>3, <2>3 DEF Remove, Counts
  <2> QED BY <1>3, <2>2, <2>4 DEF Remove, Counts, given, task
<1>4. CASE Done(t)
  <2>1. job[t] \in Jobs
    BY <1>4, JobParts DEF Done
  <2>2. [job[t] EXCEPT !.n = @ - 1] \in Jobs
    BY <1>4, <2>1 DEF Done, Jobs
  <2>3. job' \in [Threads \cup {Task} -> Jobs \cup {NoJob}]
    BY <1>4, <2>2 DEF Done, Counts
  <2>4. cnt' \in Nat /\ free' \in Nat
    BY <1>4 DEF Done, Counts
  <2>5. window' \in [ready : BOOLEAN, total : Nat, pods : Nat]
        /\ (window'.ready => window'.pods > 0)
    <3>1. window' \in {window, NoWindow}
      BY <1>4 DEF Done
    <3>2. CASE window' = window
      BY <3>2 DEF Counts
    <3>3. CASE window' = NoWindow
      <4>1. NoWindow \in [ready : BOOLEAN, total : Nat, pods : Nat]
        BY DEF NoWindow
      <4>2. ~NoWindow.ready
        BY DEF NoWindow
      <4> QED BY <3>3, <4>1, <4>2
    <3> QED BY <3>1, <3>2, <3>3
  <2> QED BY <1>4, <2>3, <2>4, <2>5 DEF Done, Counts, given, task
<1>5. CASE Failed(t)
  <2>1. job[t] \in Jobs
    BY <1>5, JobParts DEF Failed
  <2>2. [job[t] EXCEPT !.n = @ - 1, !.undo = @ + 1] \in Jobs
    <3>1. job[t].n - 1 \in Nat /\ job[t].undo + 1 \in Nat
      BY <1>5, <2>1 DEF Failed, Jobs
    <3> QED BY <2>1, <3>1 DEF Jobs
  <2>3. job' \in [Threads \cup {Task} -> Jobs \cup {NoJob}]
    BY <1>5, <2>2 DEF Failed, Counts
  <2> QED BY <1>5, <2>3 DEF Failed, Counts, books, task
<1>6. CASE EndOfCalls(t)
  <2>1. job[t] \in Jobs
    BY <1>6, JobParts DEF EndOfCalls
  <2>2. cnt' \in Nat /\ free' \in Nat
    BY <1>6, <2>1 DEF EndOfCalls, Counts, Jobs
  <2> QED BY <1>6, <2>2 DEF EndOfCalls, Ended, Counts, given
<1> QED BY <1>1, <1>2, <1>3, <1>4, <1>5, <1>6 DEF Job

LEMMA TaskCounts ==
  ASSUME Counts, TaskStep
  PROVE  Counts'
<1>1. CASE Disabled
  <2>1. job' \in [Threads \cup {Task} -> Jobs \cup {NoJob}]
    BY <1>1, Pausing DEF Disabled
  <2> QED BY <1>1, <2>1 DEF Disabled, Counts, given, Reloaded
<1>2. CASE Round
  BY <1>2 DEF Round, Counts, books, given, Reloaded
<1>3. CASE Repair
  <2>1. job' \in [Threads \cup {Task} -> Jobs \cup {NoJob}]
    <3>1. CASE state = "paused"
      <4>1. Resume(Task) /\ Task \in {"task", "client"}
        BY <1>3, <3>1 DEF Repair, Task
      <4> QED BY <4>1, Resuming
    <3>2. CASE state # "paused"
      BY <1>3, <3>2 DEF Repair, Counts
    <3> QED BY <3>1, <3>2
  <2> QED BY <1>3, <2>1 DEF Repair, Counts, given
<1>4. CASE Measure
  BY <1>4 DEF Measure, Counts, books, given
<1>5. CASE AutoPause
  <2>1. job' \in [Threads \cup {Task} -> Jobs \cup {NoJob}]
    BY <1>5, Pausing DEF AutoPause
  <2> QED BY <1>5, <2>1 DEF AutoPause, Counts, given
<1>6. CASE Count
  <2>1. InitCntOfPod(conf) \in Int
    BY DEF Counts, InitCntOfPod
  <2>2. best' \in Int
    BY <1>6, <2>1 DEF Count, Counts
  <2> QED BY <1>6, <2>2 DEF Count, Counts, books, given
<1>7. CASE Decide
  <2>1. best' \in Int
    <3>1. CASE best' = best
      BY <3>1 DEF Counts
    <3>2. CASE best' # best
      <4>1. /\ Measured /\ best' = ComputeBestPodsInRuleOfCompute(window, cnt, conf)
            /\ best' # NoChange
        BY <1>7, <3>2 DEF Decide
      <4>2. /\ window.total \in Nat /\ window.pods \in Nat \ {0}
            /\ cnt \in Nat /\ conf \in Confs
        BY <4>1 DEF Measured, Counts
      <4> QED BY <4>1, <4>2, Limits
    <3> QED BY <3>1, <3>2
  <2> QED BY <1>7, <2>1 DEF Decide, Counts, books, given
<1>8. CASE ResizePodsOfTenant
  <2>1. job' \in [Threads \cup {Task} -> Jobs \cup {NoJob}]
    <3>1. best > seen => Resizing("add", FALSE, best - seen, Task) \in Jobs
      BY DEF Counts, Resizing, Jobs, Task
    <3>2. best < seen => Resizing("remove", FALSE, seen - best, Task) \in Jobs
      BY DEF Counts, Resizing, Jobs, Task
    <3> QED BY <1>8, <3>1, <3>2 DEF ResizePodsOfTenant, Counts
  <2> QED BY <1>8, <2>1 DEF ResizePodsOfTenant, Counts, books, given
<1> QED BY <1>1, <1>2, <1>3, <1>4, <1>5, <1>6, <1>7, <1>8 DEF TaskStep

LEMMA NextCounts == Counts /\ [Next]_vars => Counts'
<1> SUFFICES ASSUME Counts, [Next]_vars PROVE Counts'
  OBVIOUS
<1>1. CASE TaskStep
  BY <1>1, TaskCounts
<1>2. ASSUME NEW t \in Threads \cup {Task}, Job(t) PROVE Counts'
  BY <1>2, JobCounts
<1>3. CASE ClientResume
  <2>1. job' \in [Threads \cup {Task} -> Jobs \cup {NoJob}]
    BY <1>3, Resuming DEF ClientResume, Counts
  <2> QED BY <1>3, <2>1 DEF ClientResume, Counts, given, task
<1>4. CASE ClientTopology \/ ClientRetry \/ ClientTimeout
  BY <1>4 DEF ClientTopology, ClientRetry, ClientTimeout, Counts, books, given, task
<1>5. CASE Collect
  <2>1. Smaller(load, CoreOfPod * cnt) \in Nat
    <3>1. CoreOfPod * cnt \in Nat
      BY DEF Counts
    <3> QED BY <3>1 DEF Counts, Smaller
  <2>2. window' \in [ready : BOOLEAN, total : Nat, pods : Nat] /\ window'.pods > 0
    BY <1>5, <2>1 DEF Collect, Counts
  <2> QED BY <1>5, <2>2 DEF Collect, Counts, books, given, task
<1>6. CASE Refill
  BY <1>6 DEF Refill, Counts, given, task
<1>7. CASE ChangeLoad \/ ChangeConf \/ PodDeleted
  <2>1. CASE ChangeLoad
    BY <2>1 DEF ChangeLoad, Counts, books, task
  <2>2. CASE ChangeConf
    BY <2>2 DEF ChangeConf, Counts, books, task
  <2>3. CASE PodDeleted
    BY <2>3 DEF PodDeleted, Counts, task
  <2> QED BY <1>7, <2>1, <2>2, <2>3
<1>8. CASE HttpPause
  <2>1. job' \in [Threads \cup {Task} -> Jobs \cup {NoJob}]
    BY <1>8, Pausing DEF HttpPause
  <2> QED BY <1>8, <2>1 DEF HttpPause, Counts, task
<1>9. CASE Ask
  BY <1>9 DEF Ask, Counts, books, task
<1>10. CASE UNCHANGED vars
  BY <1>10 DEF vars, Counts
<1> QED BY <1>1, <1>2, <1>3, <1>4, <1>5, <1>6, <1>7, <1>8, <1>9, <1>10 DEF Next

-----------------------------------------------------------------------------
(* The theorems                                                            *)

\* The pods of the tenant and the pool are never fewer than none, and the rule is
\* asked about a window that was measured, whatever resizes overlap.
THEOREM CountsKept == Spec => []Counts
<1> QED BY InitCounts, NextCounts, PTL DEF Spec

\* The steps that decide on a number of pods.
LEMMA Deciders ==
  ASSUME [Next]_vars, pc # "resize", pc' = "resize"
  PROVE  Count \/ Decide
<1>1. ~(\E t \in Threads \cup {Task} : Job(t))
  BY DEF Job, Refused, Add, Remove, Done, Failed, EndOfCalls, Ended, task
<1>2. ~(ClientResume \/ ClientTopology \/ ClientRetry \/ ClientTimeout)
  BY DEF ClientResume, ClientTopology, ClientRetry, ClientTimeout, task
<1>3. ~(Collect \/ Refill \/ ChangeLoad \/ ChangeConf \/ PodDeleted)
  BY DEF Collect, Refill, ChangeLoad, ChangeConf, PodDeleted, task
<1>4. ~(HttpPause \/ Ask \/ UNCHANGED vars)
  BY DEF HttpPause, Ask, task, vars
<1>5. ~(Disabled \/ Round \/ Repair \/ Measure \/ AutoPause \/ ResizePodsOfTenant)
  BY DEF Disabled, Round, Repair, Measure, AutoPause, ResizePodsOfTenant
<1> QED BY <1>1, <1>2, <1>3, <1>4, <1>5 DEF Next, TaskStep

LEMMA DecisionStep ==
  ASSUME Counts, [Next]_vars, pc # "resize", pc' = "resize"
  PROVE  best' \in Smaller(cnt, MinCntOfPod(conf))..Larger(cnt, MaxCntOfPod(conf))
<1>1. Count \/ Decide
  BY Deciders
<1>2. CASE Count
  <2>1. best' = InitCntOfPod(conf) /\ conf \in Confs /\ cnt \in Nat
    BY <1>2 DEF Count, Counts
  <2>2. /\ MinCntOfPod(conf) \in Nat /\ MaxCntOfPod(conf) \in Nat
        /\ InitCntOfPod(conf) \in MinCntOfPod(conf)..MaxCntOfPod(conf)
    BY <2>1, LimitsOrdered
  <2> QED BY <2>1, <2>2 DEF Smaller, Larger
<1>3. CASE Decide
  <2>1. /\ Measured /\ best' = ComputeBestPodsInRuleOfCompute(window, cnt, conf)
        /\ best' # NoChange
    BY <1>3 DEF Decide
  <2>2. /\ window.total \in Nat /\ window.pods \in Nat \ {0}
        /\ cnt \in Nat /\ conf \in Confs
    BY <2>1 DEF Measured, Counts
  <2> QED BY <2>1, <2>2, Limits
<1> QED BY <1>1, <1>2, <1>3

\* A round never decides on pods outside the limits of the configuration, unless the
\* tenant is outside already, and then never on more pods outside, for any
\* configurations, loads and pods, and however many pauses, resumes and deletions
\* fall between the counting of the pods and the decision.
THEOREM DecisionsWithinLimits == Spec => DecisionWithinLimits
<1>1. Counts /\ [Next]_vars =>
        [pc # "resize" /\ pc' = "resize" =>
           best' \in Smaller(cnt, MinCntOfPod(conf))..Larger(cnt, MaxCntOfPod(conf))]_vars
  BY DecisionStep
<1> QED BY <1>1, CountsKept, PTL DEF Spec, DecisionWithinLimits

\* A resize is not taken back at the same load (scale_rule.go,
\* ComputeBestPodsInRuleOfCompute): asked again about the pods it decided on, the rule
\* does not go the other way, for any limits, thresholds and loads, unless one pod
\* more or less takes the usage across both thresholds.
THEOREM ResizesNotReversed == Spec => NoReversal
<1> DEFINE again == ComputeBestPodsInRuleOfCompute(
                      [window EXCEPT !.total = @ * seen, !.pods = @ * best'], best', conf)
<1>1. ASSUME Counts, [Next]_vars, pc = "decide", pc' = "resize", seen = cnt,
             ~TooCoarse(seen, best', conf), again # NoChange
      PROVE  (again - best') * (best' - seen) >= 0
  <2>1. Decide
    BY <1>1, Deciders DEF Count
  <2>2. /\ Measured /\ best' = ComputeBestPodsInRuleOfCompute(window, cnt, conf)
        /\ best' # NoChange
    BY <1>1, <2>1 DEF Decide
  <2>3. /\ window \in [ready : BOOLEAN, total : Nat, pods : Nat] /\ window.pods > 0
        /\ seen \in Nat \ {0} /\ conf \in Confs
    BY <1>1, <2>2 DEF Measured, Counts
  <2>4. again = ComputeBestPodsInRuleOfCompute(Spread(window, seen, best'), best', conf)
    BY DEF Spread
  <2> QED BY <1>1, <2>2, <2>3, <2>4, RuleSettles
<1>2. Counts /\ [Next]_vars =>
        [pc = "decide" /\ pc' = "resize" /\ seen = cnt /\ ~TooCoarse(seen, best', conf) =>
           (again # NoChange => (again - best') * (best' - seen) >= 0)]_vars
  BY <1>1
<1> QED BY <1>2, CountsKept, PTL DEF Spec, NoReversal

-----------------------------------------------------------------------------
(* The pods, wherever they are                                             *)

Workers == Threads \cup {Task}

\* InFlight, of the pods that each resize has.
Flight(F) == {h \in Workers \X (1..Pods) : h[2] <= F[h[1]]}

LEMMA FlightFinite == \A F : IsFiniteSet(Flight(F)) /\ Cardinality(Flight(F)) \in Nat
<1>1. IsFiniteSet({Task}) /\ IsFiniteSet(Threads)
  BY FS_Singleton
<1>2. IsFiniteSet(Workers)
  BY <1>1, FS_Union DEF Workers
<1>3. IsFiniteSet(1..Pods)
  BY FS_Interval
<1>4. IsFiniteSet(Workers \X (1..Pods))
  BY <1>2, <1>3, FS_Product
<1> QED BY <1>4, FS_Subset, FS_CardinalityType DEF Flight

\* The pods of one resize are as many as it has.
LEMMA FlightOfOne ==
  ASSUME NEW t \in Workers, NEW k \in 0..Pods
  PROVE  /\ IsFiniteSet({t} \X (1..k))
         /\ Cardinality({t} \X (1..k)) = k
<1>1. IsFiniteSet({t}) /\ Cardinality({t}) = 1
  BY FS_Singleton
<1>2. IsFiniteSet(1..k) /\ Cardinality(1..k) = k
  BY FS_Interval
<1>3. /\ IsFiniteSet({t} \X (1..k))
      /\ Cardinality({t} \X (1..k)) = Cardinality({t}) * Cardinality(1..k)
  BY <1>1, <1>2, FS_Product
<1> QED BY <1>1, <1>2, <1>3

LEMMA DisjointUnion ==
  ASSUME NEW S, NEW T, IsFiniteSet(S), IsFiniteSet(T), S \cap T = {}
  PROVE  Cardinality(S \cup T) = Cardinality(S) + Cardinality(T)
<1>1. Cardinality(S) \in Nat /\ Cardinality(T) \in Nat
  BY FS_CardinalityType
<1>2. Cardinality(S \cap T) = 0
  BY FS_EmptySet
<1>3. Cardinality(S \cup T) = Cardinality(S) + Cardinality(T) - Cardinality(S \cap T)
  BY FS_Union
<1> QED BY <1>1, <1>2, <1>3

\* If one resize has other pods, the number in flight changes by the difference.
LEMMA FlightChange ==
  ASSUME NEW t \in Workers, NEW F \in [Workers -> 0..Pods], NEW G \in [Workers -> 0..Pods],
         \A u \in Workers : u # t => F[u] = G[u]
  PROVE  Cardinality(Flight(G)) = Cardinality(Flight(F)) - F[t] + G[t]
<1> DEFINE Rest == {h \in Flight(F) : h[1] # t}
           One(k) == {t} \X (1..k)
<1>1. F[t] \in 0..Pods /\ G[t] \in 0..Pods
  OBVIOUS
<1>2. Flight(F) = Rest \cup One(F[t]) /\ Rest \cap One(F[t]) = {}
  BY <1>1 DEF Flight
<1>3. Flight(G) = Rest \cup One(G[t]) /\ Rest \cap One(G[t]) = {}
  BY <1>1 DEF Flight
<1>4. IsFiniteSet(Rest) /\ Cardinality(Rest) \in Nat
  BY FlightFinite, FS_Subset, FS_CardinalityType
<1>5. \A k \in 0..Pods : IsFiniteSet(One(k)) /\ Cardinality(One(k)) = k
  BY FlightOfOne
<1> HIDE DEF Rest, One
<1>6. Cardinality(Flight(F)) = Cardinality(Rest) + F[t]
  BY <1>1, <1>2, <1>4, <1>5, DisjointUnion
<1>7. Cardinality(Flight(G)) = Cardinality(Rest) + G[t]
  BY <1>1, <1>3, <1>4, <1>5, DisjointUnion
<1> QED BY <1>1, <1>4, <1>6, <1>7

\* The pods that every resize has.
Hands == [t \in Workers |-> PodsOf(t)]

LEMMA InFlightIsFlight == InFlight = Flight(Hands)
BY DEF InFlight, Flight, Hands, Workers

\* No pods appear but in the pool, when it is refilled.
Whole ==
  /\ Hands \in [Workers -> 0..Pods] /\ AllPods <= Pods
  /\ \A t \in Workers : job[t].step = "start" => job[t].undo = 0

\* A step that gives t the job j.
LEMMA HandsChange ==
  ASSUME Counts, Whole, NEW t \in Workers, NEW j, job' = [job EXCEPT ![t] = j],
         NEW k \in Nat, k <= Pods, k = IF j.step = "calls" THEN j.n + j.undo ELSE 0
  PROVE  /\ Hands' \in [Workers -> 0..Pods]
         /\ Cardinality(InFlight') = Cardinality(InFlight) - PodsOf(t) + k
         /\ Cardinality(InFlight) \in Nat /\ PodsOf(t) \in 0..Pods
<1>1. job'[t] = j /\ \A u \in Workers : u # t => job'[u] = job[u]
  BY DEF Counts, Workers
<1>2. Hands' = [Hands EXCEPT ![t] = k]
  <2>1. PodsOf(t)' = k /\ \A u \in Workers : u # t => PodsOf(u)' = PodsOf(u)
    BY <1>1 DEF PodsOf
  <2>2. Hands' = [u \in Workers |-> PodsOf(u)'] /\ Hands = [u \in Workers |-> PodsOf(u)]
    BY DEF Hands
  <2> QED BY <2>1, <2>2
<1>3. Hands' \in [Workers -> 0..Pods]
  BY <1>2 DEF Whole
<1>4. Cardinality(Flight(Hands')) = Cardinality(Flight(Hands)) - Hands[t] + Hands'[t]
  BY <1>2, <1>3, FlightChange DEF Whole
<1>5. Hands[t] = PodsOf(t) /\ Hands'[t] = k /\ Hands[t] \in 0..Pods
  BY <1>2 DEF Whole, Hands
<1>6. InFlight' = Flight(Hands')
  BY DEF InFlight, Flight, Hands, Workers
<1> QED BY <1>3, <1>4, <1>5, <1>6, InFlightIsFlight, FlightFinite

LEMMA Fits ==
  ASSUME Counts, Whole
  PROVE  /\ cnt <= Pods /\ free <= Pods
         /\ Cardinality(InFlight) \in Nat
         /\ AllPods = cnt + free + Cardinality(InFlight)
<1>1. Cardinality(InFlight) \in Nat
  BY InFlightIsFlight, FlightFinite
<1> QED BY <1>1 DEF Counts, Whole, AllPods

\* A resize that is not at its calls has no pods.
LEMMA JobWithoutPods ==
  ASSUME Counts, Whole, NEW t \in Workers, NEW j, job' = [job EXCEPT ![t] = j],
         j.step # "calls", j.step = "start" => j.undo = 0, UNCHANGED <<cnt, free>>
  PROVE  Whole'
<1>1. /\ Hands' \in [Workers -> 0..Pods]
      /\ Cardinality(InFlight') = Cardinality(InFlight) - PodsOf(t)
      /\ PodsOf(t) \in 0..Pods
  <2>1. 0 \in Nat /\ 0 <= Pods /\ 0 = IF j.step = "calls" THEN j.n + j.undo ELSE 0
    OBVIOUS
  <2>2. Cardinality(InFlight') = Cardinality(InFlight) - PodsOf(t) + 0
    BY <2>1, HandsChange
  <2>3. Hands' \in [Workers -> 0..Pods] /\ PodsOf(t) \in 0..Pods
    BY <2>1, HandsChange
  <2> QED BY <2>2, <2>3, Fits
<1>2. AllPods' = cnt + free + Cardinality(InFlight')
  BY DEF AllPods
<1>3. AllPods' <= Pods
  BY <1>1, <1>2, Fits DEF Counts, Whole
<1>4. \A u \in Workers : job'[u].step = "start" => job'[u].undo = 0
  BY DEF Counts, Whole, Workers
<1> QED BY <1>1, <1>3, <1>4 DEF Whole

\* No job changes.
LEMMA SameJobs ==
  ASSUME Counts, Whole, job' = job, cnt' \in Nat, free' \in Nat,
         cnt' + free' + Cardinality(InFlight) <= Pods
  PROVE  Whole'
<1>1. Hands' = Hands /\ InFlight' = InFlight
  BY DEF Hands, InFlight, PodsOf
<1> QED BY <1>1 DEF Whole, AllPods

LEMMA PausingWhole ==
  ASSUME Counts, Whole, AsyncPause, UNCHANGED <<cnt, free>>
  PROVE  Whole'
<1>1. CASE state = "resumed"
  <2>1. FreeThread \in Workers
    BY <1>1 DEF AsyncPause, SyncStatePausing, HasThread, FreeThread, Workers
  <2>2. job' = [job EXCEPT ![FreeThread] = Resizing("remove", TRUE, 0, "nobody")]
    BY <1>1 DEF AsyncPause, SyncStatePausing
  <2>3. Resizing("remove", TRUE, 0, "nobody").step = "start"
        /\ Resizing("remove", TRUE, 0, "nobody").undo = 0
    BY DEF Resizing
  <2> QED BY <2>1, <2>2, <2>3, JobWithoutPods
<1>2. CASE state # "resumed"
  BY <1>2, SameJobs, Fits DEF AsyncPause, SyncStatePausing, Counts, Whole
<1> QED BY <1>1, <1>2

LEMMA ResumingWhole ==
  ASSUME Counts, Whole, NEW by, Resume(by), UNCHANGED <<cnt, free>>
  PROVE  Whole'
<1>1. FreeThread \in Workers
  BY DEF Resume, HasThread, FreeThread, Workers
<1>2. job' = [job EXCEPT ![FreeThread] = Resizing("add", TRUE, InitCntOfPod(conf), by)]
  BY DEF Resume
<1>3. Resizing("add", TRUE, InitCntOfPod(conf), by).step = "start"
      /\ Resizing("add", TRUE, InitCntOfPod(conf), by).undo = 0
  BY DEF Resizing
<1> QED BY <1>1, <1>2, <1>3, JobWithoutPods

\* A resize that has more or fewer pods after a step took them from the tenant or the
\* pool, or gave them there.
LEMMA JobWithPods ==
  ASSUME Counts, Whole, NEW t \in Workers, NEW j \in Jobs, job' = [job EXCEPT ![t] = j],
         j.step = "calls", cnt' \in Nat, free' \in Nat,
         cnt' + free' + j.n + j.undo = cnt + free + PodsOf(t)
  PROVE  Whole'
<1>1. j.n \in Nat /\ j.undo \in Nat /\ PodsOf(t) \in Nat /\ PodsOf(t) <= Cardinality(InFlight)
  <2>1. /\ Hands \in [Workers -> 0..Pods] /\ Hands[t] = PodsOf(t)
    BY DEF Whole, Hands
  <2>2. Cardinality(Flight([Hands EXCEPT ![t] = 0]))
          = Cardinality(Flight(Hands)) - Hands[t] + [Hands EXCEPT ![t] = 0][t]
    <3>1. [Hands EXCEPT ![t] = 0] \in [Workers -> 0..Pods]
      BY <2>1
    <3>2. \A u \in Workers : u # t => Hands[u] = [Hands EXCEPT ![t] = 0][u]
      BY <2>1
    <3> QED BY <2>1, <3>1, <3>2, FlightChange
  <2>3. [Hands EXCEPT ![t] = 0][t] = 0
    BY <2>1
  <2> QED BY <2>1, <2>2, <2>3, FlightFinite, InFlightIsFlight DEF Jobs
<1>2. j.n + j.undo <= Pods
  BY <1>1, Fits DEF Counts, Whole
<1>3. /\ Hands' \in [Workers -> 0..Pods]
      /\ Cardinality(InFlight') = Cardinality(InFlight) - PodsOf(t) + (j.n + j.undo)
  <2>1. j.n + j.undo \in Nat
    BY <1>1
  <2> QED BY <1>2, <2>1, HandsChange
<1>4. AllPods' = cnt' + free' + Cardinality(InFlight')
  BY DEF AllPods
<1>5. AllPods' <= Pods
  BY <1>1, <1>3, <1>4, Fits DEF Counts, Whole
<1>6. \A u \in Workers : job'[u].step = "start" => job'[u].undo = 0
  BY DEF Counts, Whole, Workers
<1> QED BY <1>3, <1>5, <1>6 DEF Whole

\* What a resize takes it takes from the tenant or the pool, and gives back there.
LEMMA JobWhole ==
  ASSUME Counts, Whole, NEW t \in Workers, Job(t)
  PROVE  Whole'
<1>1. CASE Refused(t)
  <2>1. job' = [job EXCEPT ![t] = NoJob] /\ UNCHANGED <<cnt, free>>
    BY <1>1 DEF Refused, Ended, books
  <2>2. NoJob.step = "none"
    BY DEF NoJob
  <2> QED BY <2>1, <2>2, JobWithoutPods
<1>3. job[t].step \in {"start", "calls"} => job[t] \in Jobs
  BY JobParts DEF Workers
<1>4. CASE Add(t)
  <2> DEFINE got == Smaller(job[t].n, free)
             j == [job[t] EXCEPT !.step = "calls", !.n = got]
  <2>1. job[t] \in Jobs /\ got \in Nat /\ got <= free
    BY <1>3, <1>4 DEF Add, Smaller, Jobs, Counts
  <2>2. j \in Jobs /\ j.step = "calls" /\ j.n = got /\ j.undo = 0 /\ PodsOf(t) = 0
    BY <1>4, <2>1 DEF Add, Jobs, Whole, PodsOf
  <2>3. job' = [job EXCEPT ![t] = j] /\ cnt' = cnt /\ free' = free - got
    BY <1>4 DEF Add
  <2> HIDE DEF j, got
  <2>4. /\ cnt' \in Nat /\ free' \in Nat
        /\ cnt' + free' + j.n + j.undo = cnt + free + PodsOf(t)
    BY <2>1, <2>2, <2>3 DEF Counts
  <2> QED BY <2>2, <2>3, <2>4, JobWithPods
<1>5. CASE Remove(t)
  <2> DEFINE got == Popped(job[t])
             j == [job[t] EXCEPT !.step = "calls", !.n = got]
  <2>1. job[t] \in Jobs /\ got \in Nat /\ got <= cnt
    BY <1>3, <1>5 DEF Remove, Popped, Smaller, Jobs, Counts
  <2>2. j \in Jobs /\ j.step = "calls" /\ j.n = got /\ j.undo = 0 /\ PodsOf(t) = 0
    BY <1>5, <2>1 DEF Remove, Jobs, Whole, PodsOf
  <2>3. job' = [job EXCEPT ![t] = j] /\ cnt' = cnt - got /\ free' = free
    BY <1>5 DEF Remove
  <2> HIDE DEF j, got
  <2>4. /\ cnt' \in Nat /\ free' \in Nat
        /\ cnt' + free' + j.n + j.undo = cnt + free + PodsOf(t)
    BY <2>1, <2>2, <2>3 DEF Counts
  <2> QED BY <2>2, <2>3, <2>4, JobWithPods
<1>6. CASE Done(t)
  <2> DEFINE j == [job[t] EXCEPT !.n = @ - 1]
  <2>1. /\ job[t] \in Jobs /\ job[t].n \in Nat /\ job[t].undo \in Nat /\ job[t].n > 0
        /\ PodsOf(t) = job[t].n + job[t].undo
    BY <1>3, <1>6 DEF Done, PodsOf, Jobs
  <2>2. j \in Jobs /\ j.step = "calls" /\ j.n = job[t].n - 1 /\ j.undo = job[t].undo
    BY <1>6, <2>1 DEF Done, Jobs
  <2>3. job' = [job EXCEPT ![t] = j]
    BY <1>6 DEF Done
  <2> HIDE DEF j
  <2>4. /\ cnt \in Nat /\ free \in Nat
        /\ \/ cnt' = cnt + 1 /\ free' = free
           \/ cnt' = cnt /\ free' = free + 1
    BY <1>6 DEF Done, Counts
  <2>5. /\ j.n \in Nat /\ j.undo \in Nat /\ PodsOf(t) \in Nat
        /\ PodsOf(t) = j.n + j.undo + 1
    BY <2>1, <2>2
  <2>6. /\ cnt' \in Nat /\ free' \in Nat
        /\ cnt' + free' + j.n + j.undo = cnt + free + PodsOf(t)
    BY <2>4, <2>5
  <2> QED BY <2>2, <2>3, <2>6, JobWithPods
<1>7. CASE Failed(t)
  <2> DEFINE j == [job[t] EXCEPT !.n = @ - 1, !.undo = @ + 1]
  <2>1. /\ job[t] \in Jobs /\ job[t].n \in Nat /\ job[t].undo \in Nat /\ job[t].n > 0
        /\ PodsOf(t) = job[t].n + job[t].undo
    BY <1>3, <1>7 DEF Failed, PodsOf, Jobs
  <2>2. j \in Jobs /\ j.step = "calls" /\ j.n = job[t].n - 1 /\ j.undo = job[t].undo + 1
    <3>1. job[t].n - 1 \in Nat /\ job[t].undo + 1 \in Nat
      BY <2>1
    <3> QED BY <1>7, <2>1, <3>1 DEF Failed, Jobs
  <2>3. job' = [job EXCEPT ![t] = j] /\ cnt' = cnt /\ free' = free
    BY <1>7 DEF Failed, books
  <2> HIDE DEF j
  <2>4. /\ cnt' \in Nat /\ free' \in Nat
        /\ cnt' + free' + j.n + j.undo = cnt + free + PodsOf(t)
    BY <2>1, <2>2, <2>3 DEF Counts
  <2> QED BY <2>2, <2>3, <2>4, JobWithPods
<1>8. CASE EndOfCalls(t)
  <2>1. /\ job[t] \in Jobs /\ job[t].n = 0 /\ PodsOf(t) = job[t].undo
    BY <1>3, <1>8 DEF EndOfCalls, PodsOf, Jobs
  <2>2. /\ job' = [job EXCEPT ![t] = NoJob] /\ cnt' \in Nat /\ free' \in Nat
        /\ cnt' + free' = cnt + free + job[t].undo
    BY <1>8, <2>1 DEF EndOfCalls, Ended, Counts, Jobs
  <2>3. /\ Hands' \in [Workers -> 0..Pods]
        /\ Cardinality(InFlight') = Cardinality(InFlight) - PodsOf(t) + 0
    <3>1. 0 \in Nat /\ 0 <= Pods
          /\ 0 = IF NoJob.step = "calls" THEN NoJob.n + NoJob.undo ELSE 0
      BY DEF NoJob
    <3> QED BY <2>2, <3>1, HandsChange
  <2>4. AllPods' = cnt' + free' + Cardinality(InFlight')
    BY DEF AllPods
  <2>5. AllPods' <= Pods
    BY <2>1, <2>2, <2>3, <2>4, Fits DEF Counts, Whole, Jobs
  <2>6. \A u \in Workers : job'[u].step = "start" => job'[u].undo = 0
    BY <2>2 DEF Counts, Whole, Workers, NoJob
  <2> QED BY <2>3, <2>5, <2>6 DEF Whole
<1> QED BY <1>1, <1>4, <1>5, <1>6, <1>7, <1>8 DEF Job

\* The steps other than those of the resizes; the pool is refilled up to the cluster's.
LEMMA OtherWhole ==
  ASSUME Counts, Counts', Whole, [Next]_vars, ~\E t \in Threads \cup {Task} : Job(t)
  PROVE  Whole'
<1>1. CASE Disabled \/ AutoPause \/ HttpPause
  BY <1>1, PausingWhole DEF Disabled, AutoPause, HttpPause
<1>2. CASE Repair
  BY <1>2, ResumingWhole, SameJobs, Fits DEF Repair, Counts, Whole
<1>3. CASE ClientResume
  BY <1>3, ResumingWhole, SameJobs, Fits DEF ClientResume, Counts, Whole
<1>4. CASE ResizePodsOfTenant
  <2> DEFINE j == IF best > seen THEN Resizing("add", FALSE, best - seen, Task)
                  ELSE IF best < seen THEN Resizing("remove", FALSE, seen - best, Task)
                  ELSE NoJob
  <2>1. job' = [job EXCEPT ![Task] = j] /\ UNCHANGED <<cnt, free>> /\ Task \in Workers
    BY <1>4 DEF ResizePodsOfTenant, books, Workers
  <2>2. j.step # "calls" /\ (j.step = "start" => j.undo = 0)
    BY DEF Resizing, NoJob
  <2> HIDE DEF j
  <2> QED BY <2>1, <2>2, JobWithoutPods
<1>5. CASE UNCHANGED <<cnt, free, job>>
  BY <1>5, SameJobs, Fits DEF Counts, Whole
<1>6. CASE Refill
  BY <1>6, SameJobs, Fits DEF Refill, Counts, task
<1>7. CASE PodDeleted
  BY <1>7, SameJobs, Fits DEF PodDeleted, Counts, Whole, task
<1> QED BY <1>1, <1>2, <1>3, <1>4, <1>5, <1>6, <1>7
   DEF Next, TaskStep, Round, Measure, Count, Decide, ClientTopology, ClientRetry,
       ClientTimeout, Collect, ChangeLoad, ChangeConf, Ask, vars, books

-----------------------------------------------------------------------------
(* Types                                                                   *)

ByClient(t) == job[t].step # "none" /\ job[t].by = "client"

\* The request waits for one resume.
OneResume ==
  /\ \A t \in Workers : ByClient(t) => client.step = "blocked"
  /\ \A t, u \in Workers : ByClient(t) /\ ByClient(u) => t = u

Ranges ==
  /\ state \in States /\ window.pods <= Pods /\ seen <= Pods /\ best >= 0
  /\ pc \in {"idle", "repair", "measure", "pause", "count", "decide", "resize", "blocked"}
  /\ client \in Requests /\ events \in 0..MaxEvents /\ load \in Loads
  /\ held \in BOOLEAN /\ changed \in BOOLEAN

TInv == Counts /\ Whole /\ Ranges /\ OneResume

LEMMA RequestCases ==
  \A r \in Requests :
    \/ r = NoRequest
    \/ \E via \in Protocols : r \in {Asking(via), Blocked(via)}
    \/ \E via \in Protocols, failed \in BOOLEAN : r = Waiting(via, failed)
BY DEF Requests, Asking, Blocked, Waiting

LEMMA Steps ==
  /\ NoRequest.step = "idle" /\ NoJob.step = "none"
  /\ \A via \in Protocols :
       /\ Asking(via).step = "asking" /\ Blocked(via).step = "blocked"
       /\ Asking(via).via = via /\ Blocked(via).via = via
       /\ {Asking(via), Blocked(via)} \subseteq Requests
  /\ \A via \in Protocols, failed \in BOOLEAN :
       /\ Waiting(via, failed).step = "waiting" /\ Waiting(via, failed).via = via
       /\ Waiting(via, failed).failed = failed /\ Waiting(via, failed) \in Requests
  /\ NoRequest \in Requests
  /\ \A op, whole, n, by : /\ Resizing(op, whole, n, by).step = "start"
                           /\ Resizing(op, whole, n, by).by = by
BY DEF NoRequest, NoJob, Asking, Blocked, Waiting, Requests, Resizing

LEMMA InitTInv == Init => TInv
<1> SUFFICES ASSUME Init PROVE TInv
  OBVIOUS
<1>1. Counts
  BY InitCounts
<1>2. \A t \in Workers : job[t] = NoJob
  BY DEF Init, Workers
<1>3. Hands = [t \in Workers |-> 0] /\ InFlight = {}
  BY <1>2, Steps DEF Hands, PodsOf, InFlight, Workers
<1>4. AllPods <= Pods
  BY <1>3, FS_EmptySet DEF AllPods, Init
<1>5. Whole
  BY <1>2, <1>3, <1>4, Steps DEF Whole
<1>6. Ranges
  <2>1. state \in States /\ window.pods = 0 /\ held \in BOOLEAN /\ changed \in BOOLEAN
    BY DEF Init, States, NoWindow
  <2>2. client \in Requests
    BY Steps DEF Init
  <2> QED BY <2>1, <2>2 DEF Init, Ranges
<1>7. OneResume
  BY <1>2, Steps DEF OneResume, ByClient
<1> QED BY <1>1, <1>5, <1>6, <1>7 DEF TInv

\* Who waits for a resize is told when it ends, and nobody else.
LEMMA EndedTypes ==
  ASSUME TInv, NEW t \in Workers, job[t].step # "none",
         NEW refused \in BOOLEAN, Ended(t, refused)
  PROVE  /\ pc' \in {pc, "idle"} /\ client' \in Requests /\ OneResume'
<1> USE DEF TInv
<1>1. /\ job'[t] = NoJob /\ \A u \in Workers : u # t => job'[u] = job[u]
  BY DEF Ended, Counts, Workers
<1>2. CASE job[t].by = "client"
  <2>1. client.step = "blocked"
    BY <1>2 DEF OneResume, ByClient
  <2>2. PICK via \in Protocols : client = Blocked(via)
    BY <2>1, RequestCases, Steps DEF Ranges
  <2>3. client' = Waiting(via, refused) /\ client' \in Requests
    BY <1>2, <2>2, Steps DEF Ended
  <2>4. \A u \in Workers : ~ByClient(u)'
    BY <1>1, <1>2, Steps DEF OneResume, ByClient
  <2> QED BY <2>3, <2>4 DEF Ended, OneResume
<1>3. CASE job[t].by # "client"
  <2>1. client' = client
    BY <1>3 DEF Ended
  <2> QED BY <1>1, <2>1, Steps DEF Ended, OneResume, ByClient, Ranges
<1> QED BY <1>2, <1>3

LEMMA JobTypes ==
  ASSUME TInv, Counts', Whole', NEW t \in Threads \cup {Task}, Job(t)
  PROVE  (Ranges /\ OneResume)'
<1> USE DEF TInv
<1>1. t \in Workers
  BY DEF Workers
<1>2. CASE Refused(t)
  <2>1. (pc' \in {pc, "idle"} /\ client' \in Requests /\ OneResume')
    BY <1>1, <1>2, EndedTypes DEF Refused
  <2> QED BY <1>2, <2>1 DEF Refused, Ranges, books, given
<1>3. CASE EndOfCalls(t)
  <2>1. (pc' \in {pc, "idle"} /\ client' \in Requests /\ OneResume')
    BY <1>1, <1>3, EndedTypes DEF EndOfCalls
  <2>2. state' \in States
    BY <1>3 DEF EndOfCalls, StateAfter, Ranges, States
  <2> QED BY <1>3, <2>1, <2>2 DEF EndOfCalls, Ranges, given
\* The others go on: the job keeps who waits for it.
<1>4. ASSUME UNCHANGED <<task, client>>, state' \in States, window' \in {window, NoWindow},
             events' \in 0..MaxEvents, load' = load, held' = held,
             \A u \in Workers : ByClient(u)' => ByClient(u)
      PROVE  (Ranges /\ OneResume)'
  BY <1>4 DEF Ranges, OneResume, NoWindow, task
<1>5. CASE Add(t) \/ Remove(t) \/ Done(t) \/ Failed(t)
  <2>1. UNCHANGED <<task, client>> /\ job[t].step \in {"start", "calls"}
    BY <1>5 DEF Add, Remove, Done, Failed
  <2>2. job'[t].by = job[t].by /\ \A u \in Workers : u # t => job'[u] = job[u]
    <3>1. job[t] \in Jobs
      BY <2>1, JobParts
    <3> QED BY <1>5, <3>1 DEF Add, Remove, Done, Failed, Counts, Workers, Jobs
  <2>3. \A u \in Workers : ByClient(u)' => ByClient(u)
    BY <2>1, <2>2 DEF ByClient
  <2>4. state' \in States /\ window' \in {window, NoWindow} /\ events' \in 0..MaxEvents
        /\ load' = load /\ held' = held
    BY <1>5 DEF Add, Remove, Done, Failed, Ranges, States, books, given
  <2> QED BY <1>4, <2>1, <2>3, <2>4
<1> QED BY <1>2, <1>3, <1>5 DEF Job

\* A resume is started for one who waits, if at all, and any other resize for nobody.
LEMMA StartTypes ==
  ASSUME TInv, NEW t \in Workers, NEW j, job' = [job EXCEPT ![t] = j],
         j.step # "none" => j.by # "client", client' = client
  PROVE  OneResume'
<1>1. job'[t] = j /\ \A u \in Workers : u # t => job'[u] = job[u]
  BY DEF TInv, Counts, Workers
<1> QED BY <1>1 DEF TInv, OneResume, ByClient

LEMMA PausingTypes ==
  ASSUME TInv, AsyncPause, client' = client
  PROVE  state' \in States /\ OneResume'
<1>1. CASE state = "resumed"
  <2>1. FreeThread \in Workers /\ state' \in States
    BY <1>1 DEF AsyncPause, SyncStatePausing, HasThread, FreeThread, Workers, States
  <2>2. job' = [job EXCEPT ![FreeThread] = Resizing("remove", TRUE, 0, "nobody")]
    BY <1>1 DEF AsyncPause, SyncStatePausing
  <2>3. Resizing("remove", TRUE, 0, "nobody").by = "nobody"
    BY DEF Resizing
  <2> QED BY <2>1, <2>2, <2>3, StartTypes
<1>2. CASE state # "resumed"
  BY <1>2 DEF AsyncPause, SyncStatePausing, TInv, Ranges, OneResume, ByClient
<1> QED BY <1>1, <1>2

LEMMA TaskTypes ==
  ASSUME TInv, Counts', Whole', TaskStep
  PROVE  (Ranges /\ OneResume)'
<1> USE DEF TInv
<1>1. CASE Disabled
  BY <1>1, PausingTypes DEF Disabled, Ranges, given
<1>2. CASE Round
  BY <1>2 DEF Round, Ranges, OneResume, ByClient, books, given
<1>3. CASE Repair
  <2>1. CASE state = "paused"
    <3>1. FreeThread \in Workers /\ state' \in States
      BY <1>3, <2>1 DEF Repair, Resume, HasThread, FreeThread, Workers, States
    <3>2. job' = [job EXCEPT ![FreeThread] = Resizing("add", TRUE, InitCntOfPod(conf), Task)]
      BY <1>3, <2>1 DEF Repair, Resume
    <3>3. Resizing("add", TRUE, InitCntOfPod(conf), Task).by # "client"
      BY DEF Resizing, Task
    <3>4. OneResume'
      BY <1>3, <3>1, <3>2, <3>3, StartTypes DEF Repair
    <3> QED BY <1>3, <2>1, <3>1, <3>4 DEF Repair, Ranges, given
  <2>2. CASE state # "paused"
    BY <1>3, <2>2 DEF Repair, Ranges, OneResume, ByClient, given
  <2> QED BY <2>1, <2>2
<1>4. CASE Measure
  BY <1>4 DEF Measure, Ranges, OneResume, ByClient, books, given
<1>5. CASE AutoPause
  BY <1>5, PausingTypes DEF AutoPause, Ranges, given
<1>6. CASE Count
  <2>1. best' >= 0
    <3>1. InitCntOfPod(conf) >= 0
      BY DEF Counts, InitCntOfPod
    <3> QED BY <1>6, <3>1 DEF Count, Ranges
  <2> QED BY <1>6, <2>1, Fits DEF Count, Ranges, OneResume, ByClient, books, given
<1>7. CASE Decide
  <2>1. best' >= 0
    <3>1. CASE pc' = "resize"
      <4>1. best' \in Smaller(cnt, MinCntOfPod(conf))..Larger(cnt, MaxCntOfPod(conf))
        BY <1>7, <3>1, DecisionStep DEF Decide, Next, TaskStep
      <4>2. cnt \in Nat /\ MinCntOfPod(conf) \in Nat /\ MaxCntOfPod(conf) \in Nat
        BY LimitsOrdered DEF Counts
      <4> QED BY <4>1, <4>2 DEF Smaller, Larger
    <3>2. CASE pc' # "resize"
      BY <1>7, <3>2 DEF Decide, Ranges
    <3> QED BY <3>1, <3>2
  <2> QED BY <1>7, <2>1 DEF Decide, Ranges, OneResume, ByClient, books, given
<1>8. CASE ResizePodsOfTenant
  <2> DEFINE j == IF best > seen THEN Resizing("add", FALSE, best - seen, Task)
                  ELSE IF best < seen THEN Resizing("remove", FALSE, seen - best, Task)
                  ELSE NoJob
  <2>1. job' = [job EXCEPT ![Task] = j] /\ client' = client /\ Task \in Workers
    BY <1>8 DEF ResizePodsOfTenant, Workers
  <2>2. j.step # "none" => j.by # "client"
    BY DEF Resizing, NoJob, Task
  <2> HIDE DEF j
  <2>3. OneResume'
    BY <2>1, <2>2, StartTypes
  <2> QED BY <1>8, <2>3 DEF ResizePodsOfTenant, Ranges, books, given
<1> QED BY <1>1, <1>2, <1>3, <1>4, <1>5, <1>6, <1>7, <1>8 DEF TaskStep

LEMMA ClientTypes ==
  ASSUME TInv, Counts', Whole',
         ClientResume \/ ClientTopology \/ ClientRetry \/ ClientTimeout \/ Ask
  PROVE  (Ranges /\ OneResume)'
<1> USE DEF TInv
<1>1. CASE ClientResume
  <2>1. PICK via \in Protocols : client = Asking(via)
    BY <1>1, RequestCases, Steps DEF ClientResume, Ranges
  <2>2. \A u \in Workers : ~ByClient(u)
    BY <1>1 DEF ClientResume, OneResume
  <2>3. CASE state = "paused"
    <3>1. FreeThread \in Workers /\ state' \in States
      BY <1>1, <2>3 DEF ClientResume, Resume, HasThread, FreeThread, Workers, States
    <3>2. job' = [job EXCEPT ![FreeThread] =
                              Resizing("add", TRUE, InitCntOfPod(conf), "client")]
      BY <1>1, <2>3 DEF ClientResume, Resume
    <3>3. \A u \in Workers : ByClient(u)' => u = FreeThread
      BY <2>2, <3>1, <3>2 DEF ByClient, Counts, Workers
    <3>4. client' = Blocked(via)
      BY <1>1, <2>1, <2>3, Steps DEF ClientResume
    <3> QED BY <1>1, <3>1, <3>3, <3>4, Steps
            DEF ClientResume, Ranges, OneResume, given, task
  <2>4. CASE state # "paused"
    <3>1. client' = Waiting(via, TRUE) /\ UNCHANGED <<state, job>>
      BY <1>1, <2>1, <2>4, Steps DEF ClientResume
    <3> QED BY <1>1, <2>2, <3>1, Steps
            DEF ClientResume, Ranges, OneResume, ByClient, given, task
  <2> QED BY <2>3, <2>4
<1>2. CASE ClientTopology \/ ClientRetry \/ ClientTimeout \/ Ask
  <2>1. \A u \in Workers : ~ByClient(u)
    BY <1>2, Steps DEF ClientTopology, ClientRetry, ClientTimeout, Ask, OneResume
  <2>2. client' \in Requests
    <3>1. CASE ClientRetry
      <4>1. PICK via \in Protocols, failed \in BOOLEAN : client = Waiting(via, failed)
        BY <3>1, RequestCases, Steps DEF ClientRetry, Ranges
      <4> QED BY <3>1, <4>1, Steps DEF ClientRetry
    <3>2. CASE ClientTopology \/ ClientTimeout \/ Ask
      BY <3>2, Steps DEF ClientTopology, ClientTimeout, Ask
    <3> QED BY <1>2, <3>1, <3>2
  <2>3. UNCHANGED <<books, task, window, job, load, held>> /\ events' \in 0..MaxEvents
    BY <1>2 DEF ClientTopology, ClientRetry, ClientTimeout, Ask, Event, Ranges, given
  <2> QED BY <2>1, <2>2, <2>3 DEF Ranges, OneResume, ByClient, books, task
<1> QED BY <1>1, <1>2

LEMMA OutsideTypes ==
  ASSUME TInv, Counts', Whole',
         Collect \/ Refill \/ ChangeLoad \/ ChangeConf \/ PodDeleted \/ HttpPause
           \/ UNCHANGED vars
  PROVE  (Ranges /\ OneResume)'
<1> USE DEF TInv
<1>1. CASE HttpPause
  BY <1>1, PausingTypes DEF HttpPause, Event, Ranges, task
<1>2. CASE Collect
  BY <1>2, Fits DEF Collect, Ranges, OneResume, ByClient, books, given, task
<1>3. CASE Refill \/ ChangeLoad \/ ChangeConf \/ PodDeleted \/ UNCHANGED vars
  <2>1. /\ UNCHANGED <<state, pc, seen, best, window, job, client, held>>
        /\ load' \in Loads /\ events' \in 0..MaxEvents
    BY <1>3 DEF Refill, ChangeLoad, ChangeConf, PodDeleted, Event, vars, Ranges,
       books, given, task
  <2>2. changed' = changed \/ changed' = TRUE
    BY <1>3 DEF Refill, ChangeLoad, ChangeConf, PodDeleted, vars, task
  <2> QED BY <2>1, <2>2 DEF Ranges, OneResume, ByClient
<1> QED BY <1>1, <1>2, <1>3

LEMMA NextTInv == TInv /\ [Next]_vars => TInv'
<1> SUFFICES ASSUME TInv, [Next]_vars PROVE TInv'
  OBVIOUS
<1>1. Counts'
  BY NextCounts DEF TInv
<1>2. Whole'
  BY <1>1, JobWhole, OtherWhole DEF TInv, Workers
<1>3. (Ranges /\ OneResume)'
  BY <1>1, <1>2, JobTypes, TaskTypes, ClientTypes, OutsideTypes DEF Next
<1> QED BY <1>1, <1>2, <1>3 DEF TInv

\* The variables have their types, and pods are neither made nor lost by the resizes:
\* those of the tenant, of the pool and of every pause, resume and resize at work are
\* together never more than the cluster's (meta.go, addPodIntoTenant and
\* removePodFromTenant), for any number of them at work at a time.
THEOREM TypeCorrect == Spec => []TypeOK
<1>1. ASSUME TInv PROVE TypeOK
  <2>1. \A t \in Workers : PodsOf(t) <= Pods
    BY <1>1 DEF TInv, Whole, Hands
  <2>2. cnt \in 0..Pods /\ free \in 0..Pods /\ AllPods <= Pods /\ seen \in 0..Pods
    BY <1>1, Fits DEF TInv, Counts, Whole, Ranges
  <2>3. window \in [ready : BOOLEAN, total : Nat, pods : 0..Pods]
    BY <1>1 DEF TInv, Counts, Ranges
  <2> QED BY <1>1, <2>1, <2>2, <2>3
          DEF TInv, Counts, Ranges, TypeOK, Workers
<1> QED BY <1>1, InitTInv, NextTInv, PTL DEF Spec
=============================================================================
