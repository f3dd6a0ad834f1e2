----------------------------- MODULE ScaleRule -----------------------------
(***************************************************************************)
(* The rule that sizes a tenant by its CPU use (autoscale/scale_rule.go)   *)
(* and what it reads of the configuration (autoscale/config.go and the     *)
(* getters of autoscale/meta.go).                                          *)
(*                                                                         *)
(* The usage of a pod is the fraction total/pods, the cores used by the    *)
(* pods that were measured; thresholds are percentages; comparisons of     *)
(* fractions are cross-multiplied.  The float arithmetic of the code is    *)
(* taken as exact.  A configuration counts in pods: cores that are not     *)
(* multiples of CoreOfPod, which the code reports as errors, are left out. *)
(***************************************************************************)
EXTENDS Integers

CONSTANT CoreOfPod   \* DefaultCoreOfPod

ASSUME CoreAssumption == CoreOfPod \in Nat \ {0}

Smaller(a, b) == IF a < b THEN a ELSE b
Larger(a, b) == IF a > b THEN a ELSE b

MinCntOfPod(c) == Larger(c.min, 1)
MaxCntOfPod(c) == Larger(c.max, MinCntOfPod(c))
InitCntOfPod(c) == IF c.init \in c.min..c.max THEN c.init ELSE c.min

\* No resize.
NoChange == -1

\* usage * old pods, over the target usage of the middle of the thresholds:
\* rounded away from old when it is less than one pod off, else to the nearest.
TargetCntOfPod(use, old, c) ==
  LET n == 200 * use.total * old
      d == CoreOfPod * (c.lower + c.upper) * use.pods
      up == (100 * n + 99 * d) \div (100 * d)
      down == n \div d
      nearest == (2 * n + d) \div (2 * d)
  IN Larger(1, IF n > old * d /\ n < (old + 1) * d THEN up
               ELSE IF n < old * d /\ n > (old - 1) * d THEN down
               ELSE nearest)

\* The usage of old pods, spread over cnt of them, compared with a threshold.
Above(use, old, cnt, percent) ==
  100 * use.total * old > CoreOfPod * percent * use.pods * cnt
Below(use, old, cnt, percent) ==
  100 * use.total * old < CoreOfPod * percent * use.pods * cnt

\* Mutant: the larger of step and limit.
OutToLarger(old, target, tooFar, c) ==
  Larger(IF tooFar THEN old + 1 ELSE target, MaxCntOfPod(c))

\* Mutant: the step is not limited by the configuration.
Unlimited(old, target, tooFar, c) == IF tooFar THEN old + 1 ELSE target

\* Scale out: one pod when the target would fall below the lower threshold.
OutTo(old, target, tooFar, c) ==
  Smaller(IF tooFar THEN old + 1 ELSE target, MaxCntOfPod(c))

\* Scale in: one pod when the target would rise above the upper threshold.
InTo(old, target, tooFar, c) ==
  Larger(IF tooFar THEN old - 1 ELSE target, MinCntOfPod(c))

ComputeBestPodsInRuleOfCompute(use, old, c) ==
  LET target == TargetCntOfPod(use, old, c)
      outTooFar == ~Above(use, old, target, c.lower)
      inTooFar == ~Below(use, old, target, c.upper)
  IN IF c.lower >= c.upper THEN NoChange
     ELSE IF Above(use, 1, 1, c.upper) /\ target >= old
          THEN OutTo(old, target, outTooFar, c)
     ELSE IF Below(use, 1, 1, c.lower) /\ target <= old
          THEN InTo(old, target, inTooFar, c)
     ELSE NoChange
=============================================================================
