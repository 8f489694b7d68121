SPECIFICATION FairSpec
CONSTANTS
  t1 = t1
  t2 = t2
  m1 = m1
  z = z
  f = f
  g1 = g1
  g2 = g2
  Tenants <- MCTenants
  Metrics <- MCMetrics
  Detectors <- MCDetectors
  Stamps <- MCStamps
  BucketSeconds = 2
  MinDetectors = 2
  Sweeps = {g1, g2}
  Reports <- MCReports
  Cooldown = 2
  MaxTime = 2
  MaxFaults = 1
  MaxLosses = 1
INVARIANTS TypeOK NonConsensusNeverClaims ClaimsSpaced OneOwner NoLossWithoutMishap
PROPERTIES WindowNeverProlonged GateSafety CallbackCompletes
