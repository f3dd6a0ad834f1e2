SPECIFICATION Spec
CONSTANTS
  Tenants = {t1, t2}
  Pods = {p1}
  Idle = Idle
  NoSeries = NoSeries
  Topic = "cpu"
  Intervals = {0, 3}
  Resolution = 1
  Reach = 3
  MaxTime = 4
  MaxRestarts = 1
SYMMETRY Symmetry
INVARIANTS
  TypeOK
  StatisticsMatch
  FewForeignSamples
PROPERTIES
  WindowExact
