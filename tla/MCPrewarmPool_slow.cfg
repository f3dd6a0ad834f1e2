SPECIFICATION Spec
CONSTANTS
  Stale = Stale
  Tenants = {t1}
  Pods = {p1, p2, p3, p4}
  SoftLimit = 1
  MaxHeld = 1
  MaxDrift = 5
  MaxRetry = 2
  MaxFaults = 0
  Faults = {}
PROPERTY NoTenantPodKilled
