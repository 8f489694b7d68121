SPECIFICATION MCSpec
CONSTANTS
  t1 = t1
  m1 = m1
  z = z
  f = f
  g1 = g1
  g2 = g2
  c1 = c1
  c2 = c2
  c3 = c3
  log = log
  pagerduty = pagerduty
  NoAlert = NoAlert
  LogSink = log
  SinkNames = {log, pagerduty}
  Tenants = {t1}
  Metrics = {m1}
  Detectors = {z}
  Stamps = {0}
  BucketSeconds = 2
  MinDetectors = 1
  Sweeps = {g1, g2}
  Reports <- OneSpike
  Cooldown = 2
  MaxTime = 2
  MaxFaults = 0
  MaxLosses = 1
  Rules <- PageRules
  OptIn = {pagerduty}
  MaxRetries = 0
  Copies = {c1, c2}
  MaxAlertLosses = 1
  MaxLate = 0
INVARIANTS NotificationRate
PROPERTIES ConfirmedAccounted
