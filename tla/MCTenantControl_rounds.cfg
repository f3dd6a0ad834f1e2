SPECIFICATION Spec
CONSTANTS
  CoreOfPod = 2
  Confs <- MCConfs
  Registered <- MCRegistered
  Loads = {0, 2, 5}
  Threads = {a, b}
  Pods = 3
  PoolSize = 2
  MaxEvents = 2
INVARIANT TypeOK
PROPERTIES
  IdleTenantPaused
  DisabledTenantPaused
  ResumedTenantServed
  
  DecisionWithinLimits
  NoReversal
