SPECIFICATION Spec
CONSTANTS
  Tenants = {t1}
  Pods = {p1}
  Threads = {g1, g2}
  Pool = Pool
  NoScan = NoScan
  InitCnt = 1
  MaxDelta = 1
  SoftLimit = 1
  AutoRegister = TRUE
PROPERTY NoCorrectionWhileChanging
