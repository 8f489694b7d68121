SPECIFICATION FairSpec
CONSTANTS
  a1 = a1
  c1 = c1
  c2 = c2
  c3 = c3
  log = log
  slack = slack
  pagerduty = pagerduty
  m1 = m1
  m2 = m2
  NoAlert = NoAlert
  LogSink = log
  SinkNames <- Sinks
  Metrics = {m1, m2}
  MetricOf <- MetricOfAlert
  Alerts = {a1}
  Rules <- TeamRules
  OptIn = {slack, pagerduty}
  MaxRetries = 1
  Copies = {c1, c2, c3}
  MaxLosses = 1
  MaxLate = 1
INVARIANTS TypeOK DuplicatesBounded NoSilentLoss HistoryTruthful
PROPERTIES AlertSettles
