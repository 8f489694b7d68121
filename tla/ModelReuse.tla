----------------------------- MODULE ModelReuse -----------------------------
(***************************************************************************)
(* The detector tasks of workers/tasks.py (run_statistical, run_prophet,   *)
(* run_isolation_forest) and the detector_models table they share.         *)
(*                                                                         *)
(* A task reads its series, fits a model on it, or (statistical detectors, *)
(* when model_reuse_max_age_seconds > 0) loads a recently stored one,      *)
(* stores what it fitted, and scores the series.  Tasks for one series     *)
(* overlap: the beat does not wait for the last sweep, and a task whose    *)
(* worker was lost is delivered again.  The table is a set of rows; one    *)
(* statement is one step.  A model is represented by the series it was     *)
(* fitted on and by the time at which that series was read.                *)
(***************************************************************************)
EXTENDS Integers

CONSTANTS
  Tenants, Metrics,
  Kinds,     \* detector_type: a statistical method, "isolation_forest", "prophet"
  Reusable,  \* the statistical methods: their stored parameters can be loaded again
  Tasks,     \* detector tasks
  MaxAge,    \* model_reuse_max_age_seconds, 0 when reuse is off
  Limit,     \* Limit[k]: time_limit of the task that runs detector k
  Retries,   \* Retries[k]: its max_retries
  MaxTime,   \* bound: the clock
  MaxLosses  \* bound: workers lost

ASSUME ReusableAssumption == Reusable \subseteq Kinds
ASSUME MaxAgeAssumption == MaxAge \in Nat
ASSUME LimitAssumption == Limit \in [Kinds -> Nat \ {0}]
ASSUME RetriesAssumption == Retries \in [Kinds -> Nat]
ASSUME BoundsAssumption == MaxTime \in Nat /\ MaxLosses \in Nat

VARIABLES
  now,     \* the database's clock
  models,  \* rows of detector_models
  task,    \* the detector tasks: message, locals and outcome
  losses   \* lost workers so far

vars == <<now, models, task, losses>>

\* What a row is unique by: (tenant, metric_name, detector_type).
Keys == [tenant : Tenants, metric : Metrics, kind : Kinds]

\* A fitted model: the series it learned, and when that was read.
Models == [of : Keys, data : Nat]
Rows == [key : Keys, model : Models, trainedAt : Nat]

Executing == {"reading", "lookup", "fitting", "persisting", "scoring"}
Stages == Executing \union {"absent", "queued", "ok", "failed"}

\* "model" has a meaning from "persisting" on; "brokeAt" is history: where the
\* exception was raised that made the task fail.
TaskRecords ==
  [st : Stages, key : Keys, retries : Nat, started : Nat, data : Nat,
   model : Models, brokeAt : Stages]

TypeOK ==
  /\ now \in 0..MaxTime
  /\ models \subseteq Rows
  /\ task \in [Tasks -> TaskRecords]
  /\ \A t \in Tasks : task[t].retries <= Retries[task[t].key.kind]
  /\ losses \in 0..MaxLosses

Message(k) ==
  [st |-> "queued", key |-> k, retries |-> 0, started |-> 0, data |-> 0,
   model |-> [of |-> k, data |-> 0], brokeAt |-> "absent"]

\* Task t stops executing: its locals are gone.
Stop(t, st) ==
  [task[t] EXCEPT !.st = st, !.started = 0, !.data = 0,
                  !.model = [of |-> task[t].key, data |-> 0]]

\* No sweep has run; which series a task will be for is arbitrary.
Init ==
  /\ now = 0 /\ models = {} /\ losses = 0
  /\ \E key \in [Tasks -> Keys] :
       task = [t \in Tasks |-> [Message(key[t]) EXCEPT !.st = "absent"]]
-----------------------------------------------------------------------------
\* The sweep publishes the task.
Publish(t) ==
  /\ task[t].st = "absent"
  /\ task' = [task EXCEPT ![t].st = "queued"]
  /\ UNCHANGED <<now, models, losses>>

Take(t) ==
  /\ task[t].st = "queued"
  /\ task' = [task EXCEPT ![t].st = "reading", ![t].started = now]
  /\ UNCHANGED <<now, models, losses>>

Reuses(k) == MaxAge > 0 /\ k.kind \in Reusable

\* fetch_series_sync; a series that is too short ends the task without anomalies.
ReadSeries(t) ==
  /\ task[t].st = "reading"
  /\ \/ task' = [task EXCEPT ![t].st = IF Reuses(task[t].key) THEN "lookup" ELSE "fitting",
                             ![t].data = now]
     \/ task' = [task EXCEPT ![t] = Stop(t, "ok")]
  /\ UNCHANGED <<now, models, losses>>

\* Mutant: a row is fresh for one unit too long.
FreshInclusive(k) == {r \in models : r.key = k /\ r.trainedAt >= now - MaxAge}

\* fetch_detector_model_sync.
Fresh(k) == {r \in models : r.key = k /\ r.trainedAt > now - MaxAge}

\* load_state raises when the parameters are another method's.
Loadable(k) == {r \in Fresh(k) : r.model.of.kind = k.kind}

Reuse(t) ==
  /\ task[t].st = "lookup"
  /\ \E r \in Loadable(task[t].key) :
       task' = [task EXCEPT ![t].st = "scoring", ![t].model = r.model]
  /\ UNCHANGED <<now, models, losses>>

Miss(t) ==
  /\ task[t].st = "lookup" /\ Loadable(task[t].key) = {}
  /\ task' = [task EXCEPT ![t].st = "fitting"]
  /\ UNCHANGED <<now, models, losses>>

Fit(t) ==
  /\ task[t].st = "fitting"
  /\ task' = [task EXCEPT ![t].st = "persisting",
                          ![t].model = [of |-> task[t].key, data |-> task[t].data]]
  /\ UNCHANGED <<now, models, losses>>

\* Mutant: the conflict target leaves out the tenant, as it did before MM-9.3.
UpsertAnyTenant(r) ==
  LET same == {s \in models : s.key.metric = r.key.metric /\ s.key.kind = r.key.kind}
  IN IF same = {} THEN models \union {r}
     ELSE (models \ same) \union {[r EXCEPT !.key = s.key] : s \in same}

\* INSERT ... ON CONFLICT (tenant, metric_name, detector_type) DO UPDATE.
Upsert(r) == {s \in models : s.key # r.key} \union {r}

\* persist_detector_model_sync.  An exception in it, the soft time limit's
\* included, is logged and dropped.
Persist(t) ==
  /\ task[t].st = "persisting"
  /\ models' \in {models, Upsert([key |-> task[t].key, model |-> task[t].model,
                                  trainedAt |-> now])}
  /\ task' = [task EXCEPT ![t].st = "scoring"]
  /\ UNCHANGED <<now, losses>>

Detect(t) ==
  /\ task[t].st = "scoring"
  /\ task' = [task EXCEPT ![t] = Stop(t, "ok")]
  /\ UNCHANGED <<now, models, losses>>

\* Mutant: one retry more than allowed.
RetryOrFailLate(t) ==
  /\ task[t].st \in Executing \ {"persisting"}
  /\ LET again == task[t].retries <= Retries[task[t].key.kind]
     IN task' = [task EXCEPT ![t] =
          IF again THEN [Stop(t, "queued") EXCEPT !.retries = @ + 1]
                   ELSE [Stop(t, "failed") EXCEPT !.brokeAt = task[t].st]]
  /\ UNCHANGED <<now, models, losses>>

\* Any other exception is turned into a retry, until none is left.
RetryOrFail(t) ==
  /\ task[t].st \in Executing \ {"persisting"}
  /\ LET again == task[t].retries < Retries[task[t].key.kind]
     IN task' = [task EXCEPT ![t] =
          IF again THEN [Stop(t, "queued") EXCEPT !.retries = @ + 1]
                   ELSE [Stop(t, "failed") EXCEPT !.brokeAt = task[t].st]]
  /\ UNCHANGED <<now, models, losses>>

Expired(t) == now >= task[t].started + Limit[task[t].key.kind]

\* The hard time limit: the process is killed, the task marked as failed.
Killed(t) ==
  /\ task[t].st \in Executing /\ Expired(t)
  /\ task' = [task EXCEPT ![t] = Stop(t, "failed")]
  /\ UNCHANGED <<now, models, losses>>

\* The worker is lost and the message delivered again.
WorkerLost(t) ==
  /\ task[t].st \in Executing /\ losses < MaxLosses
  /\ losses' = losses + 1
  /\ task' = [task EXCEPT ![t] = Stop(t, "queued")]
  /\ UNCHANGED <<now, models>>

\* Mutant: tasks without a hard time limit.
TickUnlimited == now < MaxTime /\ now' = now + 1 /\ UNCHANGED <<models, task, losses>>

\* Time passes; no task runs past its hard limit.
Tick ==
  /\ now < MaxTime
  /\ \A t \in Tasks : task[t].st \in Executing => ~Expired(t)
  /\ now' = now + 1
  /\ UNCHANGED <<models, task, losses>>
-----------------------------------------------------------------------------
Step(t) ==
  \/ Publish(t) \/ Take(t) \/ ReadSeries(t) \/ Reuse(t) \/ Miss(t) \/ Fit(t)
  \/ Persist(t) \/ Detect(t) \/ RetryOrFail(t) \/ Killed(t) \/ WorkerLost(t)

\* Every task has ended and the clock is at its bound: not a deadlock.
Finished ==
  /\ now = MaxTime /\ \A t \in Tasks : task[t].st \in {"ok", "failed"}
  /\ UNCHANGED vars

Next == Tick \/ (\E t \in Tasks : Step(t)) \/ Finished

Spec == Init /\ [][Next]_vars
-----------------------------------------------------------------------------
(***************************************************************************)
(* MM-9.3 Phase C, load_state: "a reused model can never be applied to the *)
(* wrong detector", nor to another tenant's or metric's series.  What a    *)
(* task scores with was fitted on its own series for its own detector, and *)
(* so was every stored row.                                                *)
(***************************************************************************)
OwnModel ==
  /\ \A t \in Tasks : task[t].st = "scoring" => task[t].model.of = task[t].key
  /\ \A r \in models : r.model.of = r.key

(***************************************************************************)
(* How old what a model has learned can be when it scores.  trained_at is  *)
(* set when the row is written, up to a time limit after the series was    *)
(* read, and the reader may take as long again: the age is bounded by      *)
(* MaxAge and two time limits, over any chain of overlapping tasks.        *)
(* Without reuse it is the series of the task's own run.                   *)
(***************************************************************************)
ModelAgeBounded ==
  \A t \in Tasks :
    LET k == task[t].key
    IN task[t].st = "scoring" =>
         /\ now - task[t].model.data < MaxAge + 2 * Limit[k.kind]
         /\ ~Reuses(k) => task[t].model.data = task[t].data

(***************************************************************************)
(* Concurrent refits: the last writer wins even if it read the older       *)
(* series, so an upsert may put a row back in time, by no more than the    *)
(* writer's time limit.                                                    *)
(***************************************************************************)
StepBackBounded ==
  [][\A r \in models, s \in models' :
       r.key = s.key => s.model.data + Limit[r.key.kind] >= r.model.data]_vars

(***************************************************************************)
(* workers/tasks.py:62: "On a miss (or any error) fall back to fit() ... a *)
(* DB hiccup must never break detection": no task fails because looking up *)
(* a stored model raised.                                                  *)
(***************************************************************************)
LookupFallsBack == \A t \in Tasks : task[t].st = "failed" => task[t].brokeAt # "lookup"
=============================================================================
