----------------------------- MODULE SchemaSetup -----------------------------
(***************************************************************************)
(* Replicas of the API bring up one database (lifespan in api/main.py and  *)
(* setup_schema in storage/timescale.py).  Each statement is a transaction *)
(* of its own, so the statements of replicas that start together           *)
(* interleave.  The database is the set of its objects: tables, columns    *)
(* that came later than their table, indexes, policies.                    *)
(***************************************************************************)
EXTENDS Integers, Sequences, FiniteSets

CONSTANTS
  Replicas,    \* API processes
  Deployments, \* which replicas there are, with which retention, whether a failed start
               \* is repeated and, as a bound, how many replicas a release replaces
  Releases,    \* databases a start may find: the objects an older release left
  Days,        \* values of metrics_retention_days, 0 for "keep forever"
  NewDays,     \* the value that deployments bring
  MaxFaults    \* bound: statements that fail for a reason of their own

ASSUME SchemaAssumption ==
  /\ \A d \in Deployments :
       /\ d.apis \subseteq Replicas /\ d.apis # {}
       /\ d.days \in Days /\ d.restarts \in BOOLEAN /\ d.rollouts \in Nat
  /\ Days \subseteq Nat /\ NewDays \in Days
  /\ MaxFaults \in Nat

VARIABLES
  deployment, \* the one of this run; never changes
  db,         \* the objects of the database
  retention,  \* days after which chunks of metrics are dropped; 0 without a policy
  pc,         \* the step a replica is at
  sawTenant,  \* answer of a replica's first catalog query
  setting,    \* metrics_retention_days of a replica's environment
  faults, deploys

vars == <<deployment, db, retention, pc, sawTenant, setting, faults, deploys>>

Cagg == "metrics_1min"
CaggTenant == "metrics_1min.tenant"
CaggPolicy == "metrics_1min refresh"
OldUnique == "detector_models_metric_name_detector_type_key"

(***************************************************************************)
(* A statement makes object "obj" with what comes along, once "needs" is   *)
(* there; with obj present it does nothing (IF NOT EXISTS, if_not_exists). *)
(* The indexes of one table are one statement, and so are compression and  *)
(* its policy.                                                             *)
(***************************************************************************)
Make(obj, with, needs) == [obj |-> obj, with |-> {obj} \union with, needs |-> needs]
Column(table, col) == Make(col, {}, {table})

Statements ==
  << Make("metrics", {"metrics.tenant"}, {}),
     Make("metrics hypertable", {}, {"metrics"}),
     Column("metrics", "metrics.tenant"),
     Make("metrics indexes", {}, {"metrics.tenant"}),
     Make(Cagg, {CaggTenant}, {"metrics hypertable", "metrics.tenant"}),
     Make(CaggPolicy, {}, {Cagg}),
     Make("metrics compression", {}, {"metrics hypertable"}),
     Make("alerts", {"alerts.label", "alerts.method", "alerts.tenant"}, {}),
     Column("alerts", "alerts.label"),
     Column("alerts", "alerts.method"),
     Column("alerts", "alerts.tenant"),
     Make("alerts indexes", {}, {"alerts.tenant"}),
     Make("detector_models", {"detector_models.tenant"}, {}),
     Column("detector_models", "detector_models.tenant"),
     [obj |-> OldUnique, with |-> {}, needs |-> {"detector_models"}],
     Make("uq_detector_models_tenant", {}, {"detector_models.tenant"}),
     Make("dead_letters", {}, {}),
     Make("dead_letters indexes", {}, {"dead_letters"}),
     Make("audit_log", {}, {}),
     Make("audit_log indexes", {}, {"audit_log"}) >>

\* The objects a database has when every statement has run.
Complete == UNION {Statements[i].with : i \in DOMAIN Statements}

\* Older releases left some of these, and the key that is now dropped.
ASSUME ReleasesAssumption == Releases \subseteq SUBSET (Complete \union {OldUnique})

\* Mutant: a constraint of an older release is left alone.
ExecuteKeeping(s) == IF s.obj \in db THEN db ELSE db \union s.with

\* DROP CONSTRAINT IF EXISTS is the one statement that takes its object away.
Execute(s) ==
  IF s.with = {} THEN db \ {s.obj}
  ELSE IF s.obj \in db THEN db ELSE db \union s.with

\* The steps of a start: the statements by their number, the others around them.
Down == -3
AskHasTenant == -2
AskCaggExists == -1
DropOld == 0
Remove == Len(Statements) + 1
Add == Len(Statements) + 2
Serving == Len(Statements) + 3

Init ==
  /\ deployment \in Deployments
  /\ db \in Releases
  /\ retention \in IF "metrics hypertable" \in db THEN Days \union {0} ELSE {0}
  /\ pc = [r \in Replicas |-> Down]
  /\ sawTenant = [r \in Replicas |-> FALSE]
  /\ setting = [r \in Replicas |-> deployment.days]
  /\ faults = 0 /\ deploys = 0

Goto(r, step) == pc' = [pc EXCEPT ![r] = step]
-----------------------------------------------------------------------------
\* The process starts, or is started again by its container's restart policy.
Start(r) ==
  /\ pc[r] = Down
  /\ Goto(r, AskHasTenant)
  /\ UNCHANGED <<deployment, db, retention, sawTenant, setting, faults, deploys>>

\* _migrate_cagg_for_tenant, first query: has the aggregate a tenant column?
ReadHasTenant(r) ==
  /\ pc[r] = AskHasTenant
  /\ sawTenant' = [sawTenant EXCEPT ![r] = CaggTenant \in db]
  /\ Goto(r, AskCaggExists)
  /\ UNCHANGED <<deployment, db, retention, setting, faults, deploys>>

\* Second query, and the decision to drop an aggregate without tenants.
ReadCaggExists(r) ==
  /\ pc[r] = AskCaggExists
  /\ Goto(r, IF Cagg \in db /\ ~sawTenant[r] THEN DropOld ELSE 1)
  /\ UNCHANGED <<deployment, db, retention, sawTenant, setting, faults, deploys>>

\* DROP MATERIALIZED VIEW IF EXISTS ... CASCADE takes the refresh policy along.
DropCagg(r) ==
  /\ pc[r] = DropOld
  /\ db' = db \ {Cagg, CaggTenant, CaggPolicy}
  /\ Goto(r, 1)
  /\ UNCHANGED <<deployment, retention, sawTenant, setting, faults, deploys>>

\* One statement of SETUP_SQL; it raises when it refers to an object that is not there.
RunStatement(r) ==
  /\ pc[r] \in DOMAIN Statements
  /\ LET s == Statements[pc[r]]
     IN  IF s.needs \subseteq db
         THEN /\ db' = Execute(s)
              /\ Goto(r, IF pc[r] = Len(Statements) THEN Remove ELSE pc[r] + 1)
         ELSE Goto(r, Down) /\ UNCHANGED db
  /\ UNCHANGED <<deployment, retention, sawTenant, setting, faults, deploys>>

\* Mutant: a setting of 0 leaves the policy alone.
RemoveRetentionToReplace(r) ==
  /\ pc[r] = Remove
  /\ retention' = IF setting[r] > 0 THEN 0 ELSE retention
  /\ Goto(r, IF setting[r] > 0 THEN Add ELSE Serving)
  /\ UNCHANGED <<deployment, db, sawTenant, setting, faults, deploys>>

\* Mutant: the old aggregate is dropped last, when nothing will make it again.
RemoveRetentionDroppingCagg(r) ==
  /\ pc[r] = Remove
  /\ retention' = 0
  /\ db' = IF sawTenant[r] THEN db ELSE db \ {Cagg, CaggTenant, CaggPolicy}
  /\ Goto(r, IF setting[r] > 0 THEN Add ELSE Serving)
  /\ UNCHANGED <<deployment, sawTenant, setting, faults, deploys>>

\* _apply_retention_policy: the old policy goes; a setting of 0 adds none.
RemoveRetention(r) ==
  /\ pc[r] = Remove
  /\ retention' = 0
  /\ Goto(r, IF setting[r] > 0 THEN Add ELSE Serving)
  /\ UNCHANGED <<deployment, db, sawTenant, setting, faults, deploys>>

\* Mutant: days are taken for hours.
AddRetentionInHours(r) ==
  /\ pc[r] = Add
  /\ IF retention = 0 THEN retention' = 24 * setting[r] /\ Goto(r, Serving)
     ELSE Goto(r, Down) /\ UNCHANGED retention
  /\ UNCHANGED <<deployment, db, sawTenant, setting, faults, deploys>>

\* add_retention_policy raises when another replica has added one meanwhile.
AddRetention(r) ==
  /\ pc[r] = Add
  /\ IF retention = 0 THEN retention' = setting[r] /\ Goto(r, Serving)
     ELSE Goto(r, Down) /\ UNCHANGED retention
  /\ UNCHANGED <<deployment, db, sawTenant, setting, faults, deploys>>

\* A statement fails (connection lost, two CREATEs of one name), or the process dies.
Fault(r) ==
  /\ faults < MaxFaults
  /\ pc[r] # Down
  /\ faults' = faults + 1
  /\ Goto(r, Down)
  /\ UNCHANGED <<deployment, db, retention, sawTenant, setting, deploys>>

\* A rollout replaces the replica by one with the new setting.
Deploy(r) ==
  /\ deploys < deployment.rollouts
  /\ setting[r] # NewDays
  /\ deploys' = deploys + 1
  /\ setting' = [setting EXCEPT ![r] = NewDays]
  /\ Goto(r, Down)
  /\ UNCHANGED <<deployment, db, retention, sawTenant, faults>>

Setup(r) ==
  \/ Start(r) \/ ReadHasTenant(r) \/ ReadCaggExists(r) \/ DropCagg(r)
  \/ RunStatement(r) \/ RemoveRetention(r) \/ AddRetention(r)

Next == \E r \in deployment.apis : Setup(r) \/ Fault(r) \/ Deploy(r)

Spec == Init /\ [][Next]_vars

(***************************************************************************)
(* Statements return, and a replica is started once; where restarts holds  *)
(* it is also started again after a failure (a kubelet does, the --reload  *)
(* supervisor of docker-compose.yml does not).  Restarts are delayed longer*)
(* and longer, so a replica does not lose for ever the race between its    *)
(* two catalog queries: without the strong fairness two replicas may take  *)
(* turns in dropping the aggregate the other has just made.                *)
(***************************************************************************)
Fairness == \A r \in Replicas :
  /\ WF_vars(r \in deployment.apis /\ Setup(r)
             /\ (pc[r] = Down => deployment.restarts \/ faults = 0))
  /\ SF_vars(r \in deployment.apis /\ ReadCaggExists(r) /\ pc'[r] = 1)
-----------------------------------------------------------------------------
SchemaTypeOK ==
  /\ deployment \in Deployments
  /\ db \subseteq Complete \union {OldUnique}
  /\ retention \in Days \union {0}
  /\ pc \in [Replicas -> Down..Serving]
  /\ sawTenant \in [Replicas -> BOOLEAN]
  /\ setting \in [Replicas -> Days]
  /\ faults \in 0..MaxFaults /\ deploys \in 0..deployment.rollouts

AllUp == \A r \in deployment.apis : pc[r] = Serving

(***************************************************************************)
(* A replica serves only on a database that has every table, column, index *)
(* and key its queries name, whatever release it started from and whatever *)
(* other replicas do; only the aggregate may be missing while another      *)
(* replica rebuilds it.                                                    *)
(***************************************************************************)
ServingHasTables ==
  (\E r \in Replicas : pc[r] = Serving) =>
    /\ Complete \ {Cagg, CaggTenant, CaggPolicy} \subseteq db
    /\ OldUnique \notin db

(***************************************************************************)
(* "a changed METRICS_RETENTION_DAYS actually takes effect": when every    *)
(* replica serves, the policy is the setting of one of them, never one of  *)
(* an earlier release and never none, whoever came up last.                *)
(***************************************************************************)
RetentionAsConfigured ==
  AllUp => \E r \in deployment.apis : retention = setting[r]

(***************************************************************************)
(* However the replicas' statements interleave, and although a replica may *)
(* drop the aggregate another one has just made, the start-up ends with    *)
(* every replica serving and nothing missing, wherever failed starts are   *)
(* repeated.                                                               *)
(***************************************************************************)
SchemaConverges ==
  <>[](\/ (AllUp /\ Complete \subseteq db)
       \/ (~deployment.restarts /\ faults > 0))
=============================================================================
