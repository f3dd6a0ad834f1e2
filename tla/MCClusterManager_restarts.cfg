SPECIFICATION FairSpec
CONSTANTS
  Pods = {p1}
  MaxRevision = 4
  Tenants = {t1, t2}
  Pool = Pool
  Loops = {"manage"}
  Early = {}
  MaxFaults = 2
INVARIANTS
  TypeOK
  MirrorsRevision
  ServingPodsFound
  OneTask
PROPERTIES
  CatchesUp
  TenantAnalyzed
  ShutdownEnds
  TasksEnd
CHECK_DEADLOCK FALSE
