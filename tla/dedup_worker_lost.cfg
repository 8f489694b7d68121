SPECIFICATION Spec
CONSTANTS
  t1 = t1
  t2 = t2
  m1 = m1
  z = z
  f = f
  g1 = g1
  g2 = g2
  Tenants = {t1}
  Metrics <- MCMetrics
  Detectors <- MCDetectors
  Stamps = {0}
  BucketSeconds = 2
  MinDetectors = 2
  Sweeps = {g1}
  Reports <- SpikeReports
  Cooldown = 2
  MaxTime = 0
  MaxFaults = 0
  MaxLosses = 1
INVARIANTS EveryClaimRaised
