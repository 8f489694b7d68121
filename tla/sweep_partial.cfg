SPECIFICATION FairSpec
CONSTANTS
  p1 = p1
  p2 = p2
  statistical = statistical
  prophet = prophet
  Pairs = {p1, p2}
  Kinds = {prophet}
  SweepTask = SweepTask
  Retries <- MCRetries
  MaxLosses = 0
  MaxKills = 0
PROPERTIES FailingDetectorTolerated
