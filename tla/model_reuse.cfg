SPECIFICATION Spec
CONSTANTS
  t1 = t1
  t2 = t2
  m1 = m1
  zscore = zscore
  prophet = prophet
  j1 = j1
  j2 = j2
  Tenants = {t1, t2}
  Metrics = {m1}
  Kinds = {zscore, prophet}
  Reusable = {zscore}
  Tasks = {j1, j2}
  MaxAge = 2
  Limit <- MCLimit
  Retries <- MCRetries
  MaxTime = 4
  MaxLosses = 1
SYMMETRY ReuseSymmetry
INVARIANTS TypeOK OwnModel ModelAgeBounded
PROPERTIES StepBackBounded
