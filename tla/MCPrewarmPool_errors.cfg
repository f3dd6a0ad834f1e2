SPECIFICATION FairSpec
CONSTANTS
  Stale = Stale
  Tenants = {t1}
  Pods = {p1, p2, p3}
  SoftLimit = 1
  MaxHeld = 1
  MaxDrift = 5
  MaxRetry = 1
  MaxFaults = 1
  Faults = {"error", "lost", "crash", "leftover"}
INVARIANTS
  TypeOK
  PendingCovered
  NoOrphan
  KilledForForgotten
PROPERTY PoolRefills
