SPECIFICATION Spec
CONSTANTS
  Tenants = {t1, t2}
  Pods = {p1}
  Idle = Idle
  NoSeries = NoSeries
  Topic = "taskcnt"
  Intervals = {0, 4}
  Resolution = 2
  Reach = 4
  MaxTime = 4
  MaxRestarts = 0
SYMMETRY Symmetry
INVARIANT NoForeignSamples
