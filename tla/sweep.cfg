SPECIFICATION FairSpec
CONSTANTS
  p1 = p1
  p2 = p2
  statistical = statistical
  prophet = prophet
  Pairs = {p1, p2}
  Kinds = {statistical}
  SweepTask = SweepTask
  Retries <- MCRetries
  MaxLosses = 1
  MaxKills = 1
INVARIANTS TypeOK CallbackComplete FailuresOnRecord
PROPERTIES SweepConcludes
