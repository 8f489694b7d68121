SPECIFICATION FairSpec
CONSTANTS
  r1 = r1
  r2 = r2
  r3 = r3
  acme = acme
  globex = globex
  NoKey = NoKey
  tAcme = tAcme
  tGlobex = tGlobex
  a1 = a1
  NoRequest = NoRequest
  Requests = {r1, r2, r3}
  Keys = {acme, globex, NoKey}
  Tenants = {tAcme, tGlobex}
  KeyTenant <- MCKeyTenant
  DefaultTenant = tAcme
  Sent <- MCSent
  Alerts = {a1}
  AlertTenant <- MCAlertTenant
  RateLimit = 1
  Minute = 2
  PoolSize = 2
  MaxTime = 2
INVARIANTS TypeOK LimitExact TenantIsolation CounterCoversRows LabelFollowsAudit
PROPERTIES RequestEnds
