SPECIFICATION Spec
CONSTANTS
  Tenants = {t1}
  Pods = {p1, p2}
  Threads = {g1, g2}
  Pool = Pool
  NoScan = NoScan
  InitCnt = 2
  MaxDelta = 2
  SoftLimit = 1
  AutoRegister = TRUE
SYMMETRY Symmetry
CONSTRAINT OneDeletion
INVARIANTS
  Ownership
  NameMatches
  DeletedPodsReleased
  NoLostPod
  TransitionOwned
