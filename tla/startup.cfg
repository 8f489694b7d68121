SPECIFICATION StartupFairSpec
CONSTANTS
  r1 = r1
  r2 = r2
  Replicas = {r1, r2}
  Deployments <- MCDeployments
  Releases <- MCReleases
  Days = {0, 30}
  NewDays = 0
  MaxFaults = 1
  BatchSize = 2
  PageSize = 2
  MaxPoints = 7
  MaxBreaks = 1
CHECK_DEADLOCK FALSE
INVARIANTS StartupTypeOK ServingHasTables RetentionAsConfigured PointsKept
PROPERTIES StartupSettles
