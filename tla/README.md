# MetricMesh: a TLA+ verification project

MetricMesh ingests metric points, runs several anomaly detectors over every
active metric once a minute, and turns the anomalies they agree on into alerts.
This directory holds TLA+ models of it, TLC configurations that check them, and
TLAPS proofs of the safety properties that they check. Paths such as
`workers/tasks.py` are relative to the repository's root (`src/` in `PROJECT.json`).

## 1. Inventory

| Component | State it keeps | Operations | Correct when |
|---|---|---|---|
| Ingestion API (`ingestion/api.py`) | rows of `metrics`, counters | `ingest_batch`, `ingest_single` | counters agree with committed rows; rows carry the caller's tenant |
| Scraper (`ingestion/scraper.py`, `scraper_main.py`) | a buffer | scrape, flush, sleep | a point is stored at most once; a process that ends loses at most a batch and the rest of the page it has scraped |
| Rate limiter (`api/ratelimit.py`) | a counter per caller and minute in Redis | `rate_limit` | at most the limit per minute while Redis works; never blocks when it does not |
| Authentication (`api/auth.py`, `config.py`) | settings | `require_api_key`, `key_tenant_map` | a key acts for exactly one tenant |
| Detection sweep (`workers/tasks.py`, `workers/celery_app.py`) | queue `fast`, `slow`, the chord counter | beat, `run_*`, callback | every sweep ends; a failing detector does not cost the others their alerts |
| Model reuse (`workers/tasks.py`, `storage/timescale.py`) | one `detector_models` row per tenant, metric and detector | fetch, fit, upsert | no model older than the maximum age scores a series |
| Detectors, thresholds (`detection/`) | fitted parameters | fit, score, detect, get/load state | a minute far out of line is flagged; a metric has one threshold, wherever it is looked up |
| Synchronous detection (`api/routes/anomalies.py: detect_now`) | none | fit and detect in one request | it flags what a task with its contamination and a fit of its own flags |
| Aggregation (`workers/tasks.py: aggregate_and_alert`) | task locals | flatten, consensus, dedup, publish | one alert per confirmed spike and cooldown |
| Deduplication (`alerting/dedup.py`) | keys `mm:dedup:*` in Redis with expiry | `filter` | claims are exclusive and spaced |
| Routing rules (`alerting/router.py`) | settings | `build_default_router` | every alert has a sink, the first matching rule decides |
| Delivery (`workers/tasks.py: route_alert`) | messages, rows of `alerts`, `audit_log` | send, retry, audit, persist | no silent loss, bounded duplicates, truthful history |
| Dead letters (`workers/deadletter.py`) | rows of `dead_letters` | `record_dead_letter` | exactly the exhausted tasks |
| Feedback (`api/routes/anomalies.py`) | labels of alerts, audit rows | `submit_feedback` | the label is that of the last audited feedback that was committed |
| Read routes, report (`api/routes/`, `storage/timescale.py`) | none | lists with pages, series, `detector_report` | a tenant's answers depend on its rows only; paging misses no row; the report recommends the most precise detector |
| Schema setup (`storage/timescale.py`, `api/main.py`) | tables, columns, indexes, policies | `setup_schema` | replicas may start together, on a database of any release, and end up complete |
| Monitoring, sink payloads, deployment, seed script | none of their own | | not modelled, see section 8 |

How they interact: ingestion and scraper write `metrics`; the beat publishes a
sweep; the sweep publishes a Celery chord whose header tasks read `metrics`,
refit or reuse `detector_models` and return anomalies; when all header tasks have
succeeded the result backend publishes `aggregate_and_alert` with their results;
that task claims fingerprints in Redis and publishes one `route_alert` per claim;
`route_alert` calls the sinks and writes `audit_log` and `alerts`; a task that
fails for good is written to `dead_letters` by a signal handler. The API reads all
of these tables and labels alerts. Every API replica sets up the schema when it
starts; the scraper, a process of its own, does not wait for that.

What makes this hard is that none of these steps is atomic with the next: two
sweeps overlap, four worker processes consume the alerts queue, a message is
acknowledged only after its task has run (`task_acks_late`) and is delivered again
when its worker is lost, Redis may fail between two claims, a sink may deliver and
time out, every DDL statement of a start is a transaction of its own, and a client
reads page by page while rows are inserted. `PROJECT.json` lists the hazards one by one, at the line where each bites.

## 2. Modules

| Module | Models | Notes |
|---|---|---|
| `Anomalies` | fingerprints, time buckets, consensus | pure; shared by the modules below |
| `AlertGate` | what deduplication promises | abstract specification |
| `AlertDedup` | `aggregate_and_alert` and `AlertDeduplicator.filter` | implements `AlertGate` |
| `Routing` | which sinks an alert goes to | pure |
| `Thresholds` | which threshold a metric and detector have, in three places | pure |
| `Detection` | which minutes a detector task, or the endpoint, fits, scores and flags | pure |
| `AlertDelivery` | `route_alert`, `AlertRouter.route`, `record_dead_letter` | |
| `AlertPipeline` | `AlertDedup` and `AlertDelivery` joined at `route_alert.delay` | composition |
| `Sweep` | one beat: `schedule_detection_sweep`, its chord, how its detector tasks end | |
| `ModelReuse` | `run_statistical`, `run_prophet`, `run_isolation_forest` from the inside, and `detector_models` | |
| `Api` | the requests that write: ingestion and feedback, with authentication, the rate limiter and the connection pool | |
| `Reads` | the read routes and the detector report while rows and labels change | |
| `SchemaSetup` | API replicas that set up one database | |
| `Scraper` | the scrape loop and its process | |
| `Startup` | `SchemaSetup` and `Scraper` over one database | composition |
| `MCAnswers` | `Routing`, `Thresholds`, `Detection` and `Reads`, one topic per behaviour | instance |
| `MCAlertDedup`, `MCAlertDelivery`, `MCAlertPipeline`, `MCSweep`, `MCModelReuse`, `MCApi`, `MCStartup` | instances for TLC | |
| `AlertGateProofs` | proofs about `AlertGate` | TLAPS |
| `AlertPipelineProofs` | proofs about `AlertDedup` (its first part) and `AlertPipeline` | TLAPS |
| `AlertDeliveryProofs`, `SweepProofs`, `ModelReuseProofs`, `ApiProofs` | proofs about the module of that name | TLAPS |
| `StartupProofs` | proofs about `SchemaSetup`, `Scraper` and `Startup` | TLAPS |
| `AnswersProofs` | proofs about `Routing`, `Thresholds`, `Reads` and `Detection` | TLAPS |

### Anomalies

An anomaly is a record of tenant, metric, detector and timestamp: the fields that
alerting branches on. A sweep gives a point at most one anomaly per detector, so
the flattened list is a set, and the loops over it take its members in any order.
The fingerprint is the tuple that the code hashes. `validators.py` admits no `:` in
metric names, so the concatenation determines its parts; a collision of the 48-bit
digest is left out, and so is the fallback to the current time for a timestamp
that does not parse (detectors always emit ISO timestamps).

### AlertDedup

`agg[g]` is the task of sweep `g`: where it is, its argument `report`, and the
local variables of the code, `todo` (what the claim loop has left) and `unique`
(claims won and not yet published). `expiry[f]` is the expiry of the Redis key of
fingerprint `f`; a key exists when `expiry[f] > now`.

| Action | Code |
|---|---|
| `ChordFires` | the result backend publishes the callback; the header tasks are external here |
| `Start` | flattening and `apply_consensus` |
| `ClaimWon`, `ClaimRefused` | one `SET NX EX` of `filter`, and the branch on its answer |
| `ClaimReplyLost` | the key is set, the reply lost, the client's retry answered "exists" |
| `FilterDone`, `Dispatch`, `Return` | the end of `filter`, one `route_alert.delay`, the end of the task |
| `RedisDown` | an exception in either loop; the task has no retry, so it is recorded and acknowledged |
| `WorkerLost` | the process dies; its locals are gone, keys stay, the message is delivered again |
| `Ack`, `Tick` | acknowledgement; Redis' clock |

`wins` and `raised` are history variables: claims granted, claims published.

### AlertDelivery

`msg[t]` is a message of the alerts queue together with the task that runs it. A
retry is a new message published before the old one is acknowledged, which is why
a worker lost in between leaves two copies. `received`, `failedRuns` are history;
`alertRows`/`recorded` are the `alerts` table, `audited` the audit trail,
`deadLetters` the `dead_letters` table, and `unrecorded` the alerts whose
dead-letter insert failed and which only the log knows. `SendLate` is a sink that
accepts the alert and answers after its timeout, or an SMS that went out to some
recipients before one could not be reached: the code sees a failure. The log
sink does not raise. A rule that names the same sink twice would send twice; rules
are sets of names here.

### AlertPipeline

Both modules over their own variables, with one joint step: `HandOver` publishes
the message for a claim and removes the claim from the aggregation's list.

### Sweep

`sweep` is the sweep task, `job[r][x]` the detector task for pair and kind `x` in
the chord of the sweep's run `r`. A sweep task whose worker is lost is delivered
again and publishes a chord of its own (a run of its own in the model) beside the
old one, which may be half published. `killed` is history.

| Action | Code |
|---|---|
| `BeatFires`, `ListMetrics` | the beat entry, `list_active_metrics_sync` and the header it leads to |
| `PublishJob`, `SweepReturns`, `SweepAcked` | `chord(group(...))(...)`, one message at a time; the acknowledgement comes last |
| `SweepFails` | Redis or the database raises; the task has no retry |
| `TakeJob`, `JobSucceeds`, `JobRetries`, `JobFails` | a detector task as its message sees it; `ModelReuse` looks inside |
| `JobKilled` | the hard time limit: the task is marked as failed, `task_failure` does not fire |
| `SweepLost`, `JobLost` | the process dies, the message is delivered again |
| `ChordCompletes` | the result backend publishes `aggregate_and_alert`, if every header task succeeded |

Beats share no state with each other, so one beat is modelled; how the queues grow
when beats come faster than sweeps end is not. Storing a detector task's result
and acknowledging its message are one step.

### ModelReuse

`task[t]` is a detector task: its message, the locals that matter (when its run
began, when it read its series, the model it holds) and how it ended. `models` is
the set of rows of `detector_models`. A model is represented by the series it was
fitted on (tenant, metric, detector) and by when that series was read, so that
both "whose" and "how old" can be asked of it. All times are the database's:
`trained_at` and the comparison with it are evaluated there.

| Action | Code |
|---|---|
| `Take`, `ReadSeries` | the start of a run; `fetch_series_sync`, and the return when the series is too short |
| `Reuse`, `Miss` | `fetch_detector_model_sync` and `load_state`; only `run_statistical` has them |
| `Fit`, `Persist` | `fit`, and the upsert whose exceptions are dropped |
| `Detect` | scoring; its numbers are left out |
| `RetryOrFail` | the outer `except`: `self.retry`, until the retries are used up |
| `Killed`, `Tick` | `time_limit`: no run outlives it |
| `WorkerLost` | redelivery; what was written stays |

### Api

`req[r]` is a request: what was sent, and at which await its handler is. `counter`
holds the limiter's Redis keys, `points` and `labelBy` what is committed, `counted`
the Prometheus counter, `audit` the audit trail; `passed` is history.

| Action | Code |
|---|---|
| `Deny`, `Admit` | `require_api_key`, and `rate_limit` up to its first command |
| `Count`, `SetExpiry`, `RedisFails` | `INCR` and its branches, `EXPIRE`, the fail-open `except` |
| `Checkout` | the first statement of the session takes a connection of the pool, or times out |
| `Insert`, `CountPoints` | `bulk_insert`, and the counters that `ingest_batch` increments |
| `Update`, `AuditFeedback` | `set_alert_label` with its tenant and row lock; the audit row in a transaction of its own, over a second connection |
| `Commit`, `Rollback` | the two ends of `get_session` |

Which comes first, the response or the commit, depends on the version of FastAPI
that is installed (the requirements admit both), so responses are not modelled. An
audit row may say success for a label whose commit then fails: nothing in the
repository says otherwise, and `LabelFollowsAudit` is about committed labels.

### SchemaSetup

`db` is the set of the database's objects: tables, columns that came later than
their table, indexes, policies. `Statements` lists `SETUP_SQL` in its order: what a
statement makes, and what must be there for it not to raise. `pc[r]` is the
statement replica `r` is at. `Releases` are the databases a start may find: none,
that of the release before labels, methods and tenants, and a complete one.

| Action | Code |
|---|---|
| `Start` | `lifespan`, in a process that is new or was started again |
| `ReadHasTenant`, `ReadCaggExists`, `DropCagg` | the two catalog queries of `_migrate_cagg_for_tenant` and the drop they decide on |
| `RunStatement` | one statement of `SETUP_SQL` on its own transaction, or the exception it raises |
| `RemoveRetention`, `AddRetention` | `_apply_retention_policy`; adding raises when there is a policy |
| `Fault`, `Deploy` | a statement or the process fails; a rollout with another retention setting |

How many rollouts there are belongs to the deployment (`rollouts`; they are followed in
the chart only), and so does the retention its replicas start with (`days`).
Two `CREATE ... IF NOT EXISTS` of one name that meet may raise although each is
guarded: that is a `Fault`.

### Scraper, Startup

A point is numbered when its page is scraped, up to `MaxPoints` of them, so that
`stored` can be compared with `scraped`; the scraper itself never ends, and later
points only take up room. `page` counts what the generator has left of a poll,
`numbered` how much of that is numbered; `filled` counts what waits for a full batch,
and `buffer` holds the numbered points of it. When a process ends, both the buffer
and the rest of the page are gone: the generator was in the middle of it when its
consumer raised. `ended` counts such ends.

| Action | Code |
|---|---|
| `Begin` | `scraper_main.py`, with an empty buffer |
| `Scrape`, `Yield` | one poll, and a point of it that `scrape_prometheus` yields to its consumer |
| `Insert`, `Commit`, `InsertRaises` | the flush of a full buffer; without tables it raises |
| `Break`, `CommitReplyLost` | any exception ends the loop, also one after the commit took effect |

`Startup` joins both: the scraper's `tableReady` is what `bulk_insert` names in
`db`. The chart has two replicas and no scraper, Compose one API (whose `--reload`
supervisor does not repeat a failed start) and the scraper.

### Thresholds, Detection

A list of thresholds is a sequence of entries: the metrics the glob matches, the
keys named, one value, and whether some value is no number, which drops the entry
(a JSON object has no glob twice, but two globs may match the same metrics; `Parsed` keeps the places of the others, and with them their order). `WorkerThreshold`, `EndpointThreshold` and `DetailThreshold`
are the three places that resolve one, each with its own key and fallback.

A series is a sequence of integers, a minute each. `ZScore` and `Iqr` are the rules
of `detection/statistical.py` in exact arithmetic: z-scores are compared by their
squares, as fractions, and quartiles are interpolated in quarters. Prophet and the
isolation forest are external models; a minute is given by how far it is outside
the band, or by its negated decision score, and what the code makes of that is
modelled. The forest's contamination (in thousandths) moves the offset of its decision
to an order statistic of the fitted scores. `Verdict` is detect, given what the
detector was fitted on. `Flagged` is that at the split of the tasks, with the
contamination of the settings and, for `iqr` with model reuse on, the quartiles of
an earlier fit; `DetectNow` is that at the split of the endpoint, which reads neither:
its forest has the default contamination, and it always fits.

A relative z-score is divided by the largest of the batch and `1e-9`. The model treats
that as less than any difference of two scores: it matters where the score would
equal the threshold, and there it makes the score the smaller one.

### Reads

`alerts`, `points` and `logs` are the tables, `reader` is one client: its query, how
far it has paged, what it has seen. Each statement of a request is a step and sees
what is committed by then. `Orders` are the orders in which a query may return rows
that compare equal. The report's shares are rounded as the code rounds them, to
four places. Limits that only cut a long answer (series, names) are left out.
`ReadNext` interleaves all of it; `MCAnswers` runs it topic by topic, and
`TopicsAreReads` says that this is a part of it.

### MCAnswers

One of these topics per behaviour: rules, threshold entries or minutes are appended
one by one, or rows are inserted and labelled while a client reads. The properties
hold in every state, hence of every list and series within the bounds.

## 3. Runs

| Run | Instance | Shows |
|---|---|---|
| `dedup` | 2 sweeps, 2 tenants, 2 detectors, consensus 2, 1 fault, 1 lost worker | all properties of `AlertDedup`, the refinement of `AlertGate`, and that callbacks complete |
| `dedup_worker_lost` | 1 sweep, 1 lost worker | "exactly once within the cooldown window" is violated (finding) |
| `delivery` | 1 alert, 2 sinks that can fail, 1 retry, 1 lost worker, 1 late answer | all properties of `AlertDelivery` |
| `pipeline` | 2 sweeps of one spike, a pager that may fail, a worker lost on either stage | `NotificationRate`, `ConfirmedAccounted` |
| `sweep` | 2 pairs, 1 kind of detector with 1 retry, 1 lost worker, 1 hard time limit | all properties of `Sweep` |
| `sweep_partial` | 2 detector tasks that may fail | "A failing detector doesn't fail the whole sweep" is violated (finding) |
| `model_reuse` | 2 tasks on any of 2 tenants and 2 kinds of detector, 1 retry, 1 lost worker | all properties of `ModelReuse` |
| `model_lookup` | the same without lost workers | "On a miss (or any error) fall back to fit()" is violated (finding) |
| `api` | mixes of 3 requests of 2 tenants, a limit of 1, a pool of 2 connections | all properties of `Api` |
| `startup` | Compose or the chart; a new, an old or a complete database; 1 fault, 1 rollout; batches and pages of 2, 7 points, 1 failing flush | all properties of `SchemaSetup`, `Scraper` and `Startup` |
| `answers` | 8 topics: all lists of at most 2 rules (2 metrics, 3 sinks, every set of configured sinks) or 2 threshold entries; all series of up to 30 minutes with at most 2 out of line, for contaminations 0.001, 0.05 and 0.5 and every earlier fit; up to 3 rows of 2 tenants with a reader | the properties of `Routing`, `Thresholds`, `Detection` and `Reads` |
| `prophet_blind` | series alone | "Points outside [yhat_lower, yhat_upper] are anomalous" is violated (finding) |

The properties and what each would catch:

* `ClaimsSpaced`, `OneOwner` (`AlertDedup`): no two grants of one fingerprint
  within a cooldown, and no claim in two hands, over all interleavings of two
  sweeps with redeliveries. `GateSafety` says the same as a refinement.
* `WindowNeverProlonged`: a live key's expiry never moves, so a spike that lasts
  alerts again.
* `NonConsensusNeverClaims`: consensus comes before claiming, and counts distinct
  detectors of one tenant, metric and bucket. `Corroborated` states this without
  the operators of the model.
* `NoLossWithoutMishap`, `EveryClaimRaised`: what is suppressed is suppressed only
  for a claim whose window was open after the task had started, and overlap alone
  loses no alert; a lost worker does, and the docstring says otherwise.
* `DuplicatesBounded`, `NoSilentLoss`, `HistoryTruthful`, `AlertSettles`
  (`AlertDelivery`): at-least-once delivery with each duplicate (and each second row)
  paid for by a lost worker or a late answer; dead letters only after all retries;
  `routed_to` names only sinks that received the alert.
* `NotificationRate`, `ConfirmedAccounted` (`AlertPipeline`): the upper and the
  lower bound on notifications, end to end.
* `CallbackComplete` (`Sweep`): the callback of a chord hears of every pair the
  sweep listed, and a half-published chord never calls back. `FailuresOnRecord`: a
  failed detector task has a dead letter or a log line, except after a hard time
  limit. `SweepConcludes`: every beat comes to a callback, to no metrics, or to a
  failure.
* `OwnModel`, `ModelAgeBounded`, `StepBackBounded` (`ModelReuse`): a model scores
  only its own series; what it learned is younger than the maximum age and two
  time limits (`trained_at` is the time of the write, not of the reading); of two
  concurrent refits the older may win, but not by more than a time limit.
* `LimitExact` (`Api`): both sides of the limiter. Up to the limit and no further,
  but for a failing Redis and for an `INCR` that comes after its own window has
  ended; and a 429 only for what this client sent.
* `CounterCoversRows`, `LabelFollowsAudit`, `TenantIsolation`: state that is written
  at different times, compared once it has settled.
* `RequestEnds`: a feedback waits for a second connection while it holds one and a
  row lock that others, holding connections, wait for. The pool's timeout and the
  best-effort audit break the circle.
* `ServingHasTables`, `RetentionAsConfigured` (`SchemaSetup`): whatever replicas do
  to each other's start, one that serves has every table, column, index and key it
  names, and the retention policy is a setting of a replica that runs. The aggregate
  is the exception: another replica may be rebuilding it.
* `PointsKept` (`Scraper`): points are stored once and in order although a commit's
  answer may be lost, and what was scraped and is neither stored nor on its way is at
  most a batch and a page less one point (`HeldAtMost`) for each ended process. The
  run meets this bound at one and at two ends.
* `StartupSettles`: the starts converge to replicas that serve and a complete
  database; the scraper, which ends at every flush before the tables exist, stores
  batches for ever after they do.
* `NeverDropped`, `LaterEntriesIrrelevant`: a router is never empty; the first match
  wins in both lists, and the alert page and the detection endpoint come to the
  threshold the task used.
* `SpikeSeen` (`Detection`): a minute further out than all before it is flagged at
  threshold 0.8, once five minutes are scored: by the z-score and forest tasks, which
  the sweep sends, under every contamination and, for the forest, in either scoring
  mode; by an `iqr` task, which runs only when it is asked for by name, on whichever
  earlier fit it reuses; and by the endpoint on its own terms. Prophet is not among
  them (section 5).
* `PagingMissesNothing`, `OtherTenantsInvisible`, `RecommendedIsBest` (`Reads`): rows
  only move to later pages, because `id` breaks ties; no answer to a tenant changes
  with rows of another; the report recommends a detector whenever one shows a
  precision (a share of confirmed alerts that four places do not round to 0), and
  none is more precise than the recommended one by a ten-thousandth, also when labels
  are set between its two statements.

Two runs are narrower than their modules: `pipeline` orders its two interchangeable
sweeps and lets the inserts of its rows succeed (`InOrder` and `Inserted` in
`MCAlertPipeline`), and `delivery` has one alert (alerts share nothing).

### Bounds

`MaxTime`, `MaxFaults`, `MaxLosses`, `MaxAlertLosses`, `MaxLate`, `MaxKills`,
`MaxRetries`, `Copies`, `Sweeps`, `Tasks`, `rollouts` of a deployment, `PageSize`,
`MaxPoints`, `MaxBreaks`, `Contaminations`, `MaxRules`, `MaxEntries`, `MaxMinutes`, `MaxOut`, `MaxAlerts`.

* Two sweeps: exclusion and ownership are relations between two tasks. The bounds
  are only TLC's: the theorems hold for any number.
* `MaxTime = Cooldown` lets a key expire and be claimed again in the same run, and
  a cooldown of 2 leaves a moment inside the window at which a refresh would show.
* One fault and one lost worker, at every point of both tasks and in both orders.
* `Copies = 3` is the most messages that one alert with one retry and one lost
  worker can have at a time (the original, the redelivered original's retry and
  the first retry), so no publish ever waits for a slot.
* `MaxRetries = 1` (3 in the code): a first run, a retry and an exhausted retry.
  The same holds of `Retries` of the detector tasks.
* `sweep`: one lost worker is enough for two chords of one beat, or for a
  detector task that runs twice; two pairs are enough for a header cut short.
* `model_reuse`: with `MaxAge = 2` and `Limit = 1` a model can be used up to the
  bound of `ModelAgeBounded` (less than 4) before the clock ends at 4; a writer, a
  reader and a redelivery of either are the tasks that such a chain needs.
* `api`: with a limit of 1 the second request is over it; with a pool of 2 two
  feedbacks on one alert fill it, one holding the row lock and one waiting for it.
  A window of 2 ends within `MaxTime`, so that counters expire and an `INCR` can
  come late.
* `startup`: two replicas are needed to undo each other's steps; a fault may strike
  at every statement, and a rollout at any time. With batches and pages of up to 2
  points a batch may span two polls and a poll two batches, and a process holds at
  most 3 points. Of 7 numbered points one end may lose 3 and two may lose 6, so
  `LossBounded` is tight for both; from the third end on it allows more than there are.
* `answers`: two entries show which of two decides, and that an entry that matches
  without naming the detector does not; 30 minutes are six scored ones at the tasks'
  split, one more than a z-score needs, and two out of line let an earlier one hide
  a later. Two detectors, two buckets and three alerts separate precision, recall
  and number; rows of one instant are among them.

### Fairness

`FairSpec` assumes weak fairness of what a worker does with a message it can take
or holds: the alerts workers are restarted by compose (`restart: unless-stopped`)
or Kubernetes and consume their queue, and every call they make has a timeout. No
fairness is assumed of chord completion, of time, of faults, of lost workers or of
late answers. Weak fairness of a task's step does not decide how a send ends.
In `Sweep` a message that is queued is taken and a run ends one way or another
(detector tasks have time limits, the database calls of the sweep task time out),
and the result backend publishes the callback of a chord that is complete.
In `Api` a coroutine that can run is run, and every await returns or times out.
In `SchemaSetup` statements return and a replica is started; where the deployment
repeats failed starts it is started again. That alone does not let two replicas
converge on an old database: each may for ever find the aggregate without the
tenant column, and drop the one the other has just made. `Fairness` adds strong
fairness for finding it as it should be, which the growing delay between restarts of
a container justifies. The scraper's process is started again (`restart:
unless-stopped`) and its target answers. `answers` has no fairness and no liveness.
`ModelReuse` states no liveness: `SweepConcludes` covers how its tasks end.

## 4. What is proved

Every safety property of the passing runs is a theorem of the specification, for
every value of the constants; one of them, `SpikeSeen`, needs a bound on a constant,
which is part of its theorem (below). The runs say that the properties hold on their
instances and that the code's hazards do occur there; the theorems, that the size of
the instance does not matter: any number of sweeps, tasks, requests, replicas, rows,
rules, minutes, retries, faults and lost workers.

### Assumptions

Constants carry named assumptions in the modules that declare them, and TLC evaluates
them in every run. They are what the code validates (`ge=` and `le=` in `config.py`
and in the routes' `Query`, the positive expiry that `SET EX` demands, the log sink
that is always registered), or types of the model's parameters. `ReleasesAssumption`
says that a database at a start has objects of this release's schema, or the key an
older release left, and nothing else that the statements name.

### Deduplication (`AlertPipelineProofs`, first part; `AlertGateProofs`)

* `TypeCorrect`: `TypeOK` is inductive as it stands.
* `ClaimInvariant`, from which `ClaimsAreSpaced` and `ClaimsHaveOneOwner` follow.
  Neither is inductive: that a granted claim is new needs to know that the key
  outlives every earlier claim (`WindowsCover`), and that a restarted task starts
  empty-handed needs `OnlyRunningHold`. `FreshClaim` is the heart of it: when the
  key of `a` is free, every earlier claim of its fingerprint is a cooldown old, so
  the claim granted now is neither in `wins` nor in anyone's hands.
* `WindowsAreNotProlonged`: only a granted claim writes a key, and only when the
  key has expired.
* `SuppressedNeverClaims`: what a task has left to claim is within what consensus
  kept of its report, reports do not change after the callback was published, and
  `ConsensusCorroborates` says what survives consensus.
* `ClaimsLapseByMishapOnly`: a claim lapses only by a fault or a lost worker. Its
  invariant, `LapseInv`, has three facts about what has happened so far: every key's expiry is that of a
  claim (`KeysFromClaims`), no claim has left a task's hands unpublished
  without a mishap (`NothingDropped`), and what consensus kept of a running task's
  report is still to be claimed, claimed, or suppressed by a window that was open
  after the task began (`AllHandled`).
* `ImplementsGate`: each step of `AlertDedup` is a step of `AlertGate` or a
  stutter, with the key's expiry as the gate's window and all held claims as its
  tickets. Losing a worker or Redis is `Lose`, a lost reply is `IssueLost`. One
  ticket is spent by one alert because of `OneOwner`.
* `GateAlertsSpaced` (`AlertGateProofs`): the gate keeps its promise, so every
  implementation of it does.
* `ConsensusGrows`, `ConsensusIdempotent`, `ConsensusPerTenant`: laws of the filter
  itself, for lists of any content (the first for finite ones, since counting is). They
  say that an added report never suppresses, that filtering twice is filtering once,
  and that tenants do not vouch for one another; `ConsensusByGroup` is what they share.

### Delivery (`AlertDeliveryProofs`)

`DeliveryInv` is the inductive invariant, in four parts, each for one theorem.

* `DeliveryTypes`: `Occupied` adds that a message carries an alert exactly while it is
  in the queue or with a worker.
* `HistoryIsTrue`: a run's list of successes names sinks that have received the
  alert, before it is written anywhere (`RoutedReceived`).
* `AlertsAreNotLost`: each retry was paid for by a run in which every sink failed
  (`RetriesPaid`), and a published alert nobody received is carried by a message that
  will still be routed (`StillCarried`).
* `DuplicatesOnlyByMishap` is a counting argument. What a sink has received, together
  with the messages that may still bring it the alert (`Carriers`), never exceeds one
  for the publication and one for each lost worker or late answer; each step moves one
  unit from one side to the other. The same for rows (`Writers`), which only lost
  workers may double. The sets are finite because slots are, and the lemmas say how
  one changed message changes each cardinality.

### The pipeline (`AlertPipelineProofs`, second part)

* `PipelineAggregates`, `PipelineDelivers`: every behaviour of the composition is one
  of `AlertDedup`, and, seen from the other side, one of `AlertDelivery` over claims
  as alerts. What is proved of the parts holds of the whole.
* `NotificationsAreRated`: the claims of one fingerprint inject into the cooldown
  periods that have begun, because they are spaced (`ClaimsAreSpaced`); each is
  published once (`OneOwner`); and further notifications of one claim inject into
  mishaps of its delivery (`DuplicatesOnlyByMishap`).
* `ConfirmedNeverDropped`: without a Redis fault or a lost aggregation, each anomaly
  that consensus kept has, from the end of the filter loop on, an alert of a window
  that was open when its task began, and this alert is answered (received, or given up
  on record) or on its way. `LapseInv` and `DoneCovered` give the claim of that window;
  a claim is held by a task, or was raised and hence published; and a published alert
  is carried or answered (`StillCarried`, carried over from the delivery by
  `PipelineDelivers`).
* `RestLeavesNothingBehind`: so nothing is missing when both stages are at rest. What
  `ConfirmedAccounted` adds, and TLC checks, is that they come to rest.

### The sweep (`SweepProofs`)

* `SweepTypes`: runs are bounded by redeliveries (`SweepProgress`).
* `CallbackOnlyWhenComplete` needs the chord as a whole: a header is all detectors of
  some pairs, what is left to publish is in it and absent, and the header of a chord
  that called back has succeeded and stays so (`ChordInv`). A half-published chord
  never calls back since an absent task has not succeeded.
* `FailuresAreOnRecord` is inductive with the types: each way to fail writes its
  record in the same step.
* `SweepHasNoDeadEnd`: when the sweep task is acknowledged, no detector task is queued
  or running and no callback is due, the beat has come to its callback, a failed chord
  or a recorded failure. It needs that what has left the list to publish was published,
  and that only a recorded failure ends the task before the list is empty
  (`HeaderOut`).
* `JobsOnlyAdvance`: what is left of a detector task (its retries first, then taking
  and running its message) shrinks at each of its steps, and only a lost worker sets it
  back, `MaxLosses` times at most. With the theorem before, this is what
  `SweepConcludes` rests on besides fairness.

### Models (`ModelReuseProofs`)

`ModelsTyped`, `ModelsAreOwn`, `ModelsAreRecent`, `UpsertsStepBackLittle`. None of the
last three is inductive. `ReuseInv` adds that a run is within its time limit and read
its series since it began (`Timely`), that a row was written within a limit of the
reading (`RowSound`), and that a key has one row (without which a row nobody touched
could step back). The proof reduces every step that leaves the table alone to one
record (`OneTaskMoves`).

### The API (`ApiProofs`)

`ApiInv` holds what the handlers know at each await (`Lifecycle`), and

* for `LimitIsExact`: a counter counts requests that were sent, expires no earlier
  than its window ends, and until then accounts for everyone who has passed
  (`CounterInv`). An `INCR` may come after its own window, when the counter has expired
  and counts from one again: so the theorem is about those who pass in time, and a
  refusal is justified by requests sent and not by requests passed (`RefusalInv`).
* for `LabelsFollowTheTrail`: the row lock (`RowLock`) makes the order of the trail
  that of the commits (`AuditOrder`), although each audit row is committed before,
  and apart from, its label.
* for `CountsCoverRows` and `TenantsAreIsolated`: where a request stands when its row
  or label is there (`PointsInv`, `LabelOwner`).

### Starts (`StartupProofs`)

* `ServingReplicaHasTables`: what a replica has executed stays done behind it, whoever
  else starts (`FinishedBehind`), since no step takes anything away but the old key,
  and the aggregate with what goes when it is dropped. Of the twenty statements this
  needs that each object belongs to the aggregate or is the object of some statement
  (`EveryObjectMade`), and that none brings the old key back (`StatementsWellFormed`).
* `RetentionIsConfigured`: the replica that adds the policy serves from then on with
  its own setting, and one that removes it does not serve, so that not all are up.
* `ScrapedPointsKept`: stored and then buffered points ascend (`InOrder`), so a point is
  stored once; a point is yielded only while the buffer is short of a batch
  (`RoomLeft`), so that buffer and page together hold a batch and a page less one
  point at most. Of the numbered points that have left the page (`Passed`), those that
  are neither in the buffer nor stored went with a process; `ScrapeStep` and
  `YieldStep` say how the numbered points move.
* `StartupTypes`: the types of both parts.

### Answers (`AnswersProofs`)

* `RoutersAreNeverEmpty`, `FirstMatchWins`: a set of places that is not empty has a
  least one (`LeastExists`), and it stays the least when a later place joins
  (`LeastStays`).
* `PagingIsComplete`: `PagingInv` says of each row that was there at the beginning
  and has not been seen that at least `offset` rows come before it. Inserted rows and
  labels only add to those (`TablesMayGrow`), and a page shows whichever row has
  exactly as many before it as its place says (`PlaceInOrder`, which needs `id` as
  the second key: the rows before one are then determined). When a page is empty,
  none is left.
* `RecommendationIsBest`: the ranking exists, since any strict total order on a
  finite set is that of some sequence (`OrderedSeqExists`, placing each member by how
  many precede it); the keys are one (`AboveOrders`); so the first of the ranking has
  the largest rounded precision, and rounding keeps order up to a ten-thousandth
  (`RoundedOrder`). Labels that are set between the two statements cannot make a
  detector cover more events than there are, as both numbers are the second one's.
* `TenantsReadTheirOwn`: a step that leaves the tenant's rows as they are leaves every
  answer as it is; it needs no invariant, so it holds whatever the tables hold.
* `SpikesAreSeen`: `SpikeSeen` for series of every length, under the hypothesis
  `MaxOut <= 2`, that is, with at most one minute out of line before the spike. That is
  the bound of the run, and some bound is needed: a spike among many minutes as far out
  is none. `SeriesInv` counts the minutes that are not 0. A sum over a window is then
  that of its two places at most (`SumExists` gives the fold its function, by the
  least counterexample), the quartiles of any earlier part are those of the zeros or of
  few others, and the forest goes by the order of the minutes, which the offset of no
  contamination disturbs: it is at most the largest fitted score.
* `EndpointFlagsWhatTasksFlag`: the endpoint splits the series and tests its length in
  code of its own, and flags whatever the task flags, under two conditions: the task's
  contamination is at most the endpoint's 0.05, and the task reuses no stored model.
  A larger contamination lowers the offset and lets the task flag more
  (`PercentilesAscend`); without the conditions the claim is false (section 5).
* `HigherThresholdFlagsLess`: for arbitrary series, a higher threshold takes anomalies
  away and adds none. The definitions choose maxima and order statistics, so the proof
  shows that they exist (`MaxMin`, `OrderTyped`), and that the spread under a z-score is
  not negative (`SpreadBound`, by Cauchy and Schwarz). Of the forest in absolute mode
  it says no more than `Forest` models: thresholds above one half.
* `RelativeAlwaysFlags`, `AbsoluteNeedsMinutes`: the two sides of the scoring modes
  (section 5). The first is an equivalence: a batch that is not flat has an anomaly
  unless the detector is the z-score and the threshold 1.0. The second rests on
  `OutlierBound`: among w minutes, a z-score squared is at most (w - 1) (w - 1) / w.

### Model-checked only

Liveness: `CallbackCompletes`, `AlertSettles`, `ConfirmedAccounted`, `SweepConcludes`,
`RequestEnds`, `StartupSettles`. Leads-to under fairness and ENABLED are beyond this
prover, and so is an induction over a measure. Of `SweepConcludes` and
`ConfirmedAccounted` the safety part is proved, as said above: at rest, nothing is left
undone.

## 5. Findings

1. A worker lost between `SET` and `route_alert.delay` leaves its claims spent: the
   redelivered task finds its own keys and alerts on nothing until they expire
   (`dedup_worker_lost`). `dedup.py` says "alerted on exactly once".
2. `run_prophet` never reports an anomaly (`prophet_blind`): it fits on the first 80%
   of the series, the forecast covers the fitted minutes only, and every minute it
   scores is outside of it and gets 0. The detection endpoint does the same.
3. One detector task that fails for good makes its chord fail, and with it the
   alerts of every other detector and metric of that sweep (`sweep_partial`).
   `docs/product/NFRS.md`, NFR-R4, says a failing detector does not fail the sweep.
4. A database error while looking up a stored model is not handled where the comment
   says it is: the task is retried and may fail (`model_lookup`).

Seen while reading or modelling, and not given runs of their own:

* A rule that leaves out the log can leave an alert without any sink when its sinks
  fail; `docs/product/NFRS.md:94` calls the log the always-on floor, and
  `alerting/router.py:398` sends to the rule's sinks only. The alert ends in
  `dead_letters`.
* The class docstring of `AlertRouter` says partial failures are re-raised, its
  `route` says (and does) the opposite; `select_sink_names` says that no match means
  fan-out to all sinks, its caller sends to the log only.
* A redelivered `route_alert` notifies again, so NFR-S5 holds of claims and not of
  notifications (`DuplicatesBounded` is what holds).
* `SmsSink` says that a single bad number does not sink the rest; that is so for an
  HTTP error, while an exception of the post itself ends the loop, and the retry
  sends to the first recipients again. A list of only commas reports success.
* `_migrate_cagg_for_tenant` says that it runs at most once and does nothing on a
  fresh database; two replicas that start together can make it drop an aggregate
  that has the tenant column.
* In relative mode the largest z-score of a batch is stretched to just below 1 (the
  divisor is the largest plus `1e-9`), so the z-score flags some minute of every
  series that is not flat at every threshold below 1.0, and none at 1.0, which
  `config.py:87` accepts; a spike hides a smaller one beside it. The forest divides
  by exactly the range and flags a minute at 1.0 as well. In absolute mode a window of w minutes has z-scores below the square
  root of w, so the default threshold of 0.8 (z = 4.8) needs at least 25 scored
  minutes. Both are theorems (`RelativeAlwaysFlags`, `AbsoluteNeedsMinutes`).
* `POST /anomalies/detect` builds its forest with the default contamination
  (`detection/registry.py:18`), whatever `ISOLATION_FOREST_CONTAMINATION` says, and
  always fits: it may miss what a forest task with a larger contamination flags, or
  an `iqr` task that scores with stored quartiles.
* `detect_now` falls back to 0.8 for `stl` where the task uses the z-score's
  setting, and answers 500 to a series too short for Prophet or the forest.
* `_assemble_detector_report` rounds precisions to four places before it ranks by
  them. The comment at `api/routes/anomalies.py:297` wants "at least one true positive"
  of a recommended detector; the code wants a rounded precision above 0, which one
  confirmed alert among more than 20000 labelled ones does not have, and two detectors
  that differ in the fifth place are ranked by recall. The proof needed both to be
  said: `Shows` and `MorePrecise`.
* `dead_letters` and `audit_log` have no tenant, and their routes show every row to
  every caller.

## 6. Plan

1. The composition of `Sweep` with `AlertPipeline`: which of the anomalies found
   reach a sink, and the theorem that the pipeline's `ChordFires` is its callback.
2. `key_tenant_map`, the validators, STL.

## 7. Running it

`tlc -config dedup.cfg MCAlertDedup` and likewise for the other rows of section 3
(the module is named in `PROJECT.json`). `tlapm M.tla` checks the proofs of `M`, for
`AlertGateProofs`, `AlertPipelineProofs`, `AlertDeliveryProofs`, `SweepProofs`,
`ModelReuseProofs`, `ApiProofs`, `StartupProofs` and `AnswersProofs`; each takes
between a few seconds and a few minutes.

## 8. Not modelled

* STL's decomposition, Prophet's and the forest's fitting (statsmodels, Prophet,
  scikit-learn) and the features of the forest: numerics that TLC cannot evaluate.
  `Detection` models what the code does with their results.
* The lengths of the queues when beats come faster than sweeps end: nothing in the
  code bounds them.
* The validators of ingested points and how `key_tenant_map` is put together from
  two settings; time windows of queries (`lookback_hours`, `start`, `end` of series).
* The size of the `1e-9` that the z-score's divisor adds; absolute forest scores at
  thresholds of one half and below; stored quartiles other than those of an earlier part
  of the series at hand (minutes that the look-back has cut off since).
* A broker that fails the publish of a retry (of `route_alert` or of a detector task).
* A rate-limiter `INCR` that redis-py sends again after its reply was lost, which may
  count one request twice: the client is then refused one request earlier for each
  re-send, and `LimitExact`'s "a 429 only for what this client sent" is to be read so.
* Routing rules that are JSON but no list of objects: `select_sink_names` raises, and
  `route_alert` with it.
* Payload formatting and HTTP of the sinks: a send has an outcome, chosen freely.
* Health, readiness and metrics pages, monitoring, dashboards, Helm, CI and the seed
  script: they keep no state that another component relies on.
