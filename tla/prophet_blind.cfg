SPECIFICATION MCSpec
CONSTANTS
  t1 = t1
  t2 = t2
  m1 = m1
  m2 = m2
  d1 = d1
  d2 = d2
  x = x
  y = y
  log = log
  slack = slack
  pagerduty = pagerduty
  NoFilter = NoFilter
  Tenants = {t1, t2}
  Metrics = {m1, m2}
  Detectors <- MCDetectors
  Rows <- MCRows
  Samples <- MCSamples
  Filters <- MCFilters
  LogRows <- MCLogRows
  Names = {x, NoFilter}
  PageLimit = 1
  BucketMinutes = 15
  MaxAlerts = 3
  MaxPoints = 3
  LogSink = log
  SinkNames = {log, slack, pagerduty}
  Metric = {m1, m2}
  Key = {"zscore", "stl", "prophet"}
  Statistical = "statistical"
  Topics = {"detection"}
  MaxRules = 2
  MaxEntries = 2
  MaxMinutes = 30
  MaxOut = 2
  Contaminations = {1, 50, 500}
CHECK_DEADLOCK FALSE
INVARIANTS OutsideBandFlagged
