----------------------------- MODULE MCAnswers -----------------------------
(***************************************************************************)
(* What is computed anew from its inputs, for TLC: routing, thresholds,    *)
(* verdicts on a series, and the answers of the read routes.  A behaviour  *)
(* is about one topic, whose inputs grow step by step from nothing.        *)
(***************************************************************************)
EXTENDS Reads, Routing, Thresholds, Detection

CONSTANTS
  Topics, MaxRules, MaxEntries,
  MaxMinutes, MaxOut,        \* bounds: minutes of a series, and how many are out of line
  Contaminations,            \* settings of the forest that are looked at, in thousandths
  t1, t2, m1, m2, d1, d2, log, slack, pagerduty, x, y

\* The report is asked for by one of the tenants.
ASSUME TenantAssumption == t1 \in Tenants

\* config.py: isolation_forest_contamination is at least 0.001 and at most 0.5.
ASSUME ContaminationAssumption == Contaminations \subseteq 1..500

VARIABLES topic, rules, optIn, entries, series
answersVars == <<topic, rules, optIn, entries, series, readVars>>
-----------------------------------------------------------------------------
Alert(t, m, d, at) == [tenant |-> t, metric |-> m, detector |-> d, at |-> at, score |-> at, label |-> "unlabeled"]

\* Two tenants, two detectors, two metrics, two buckets, and two alerts of one instant.
MCRows ==
  {Alert(t1, m1, d1, 0), Alert(t1, m1, d2, 0), Alert(t1, m1, d2, 20), Alert(t1, m2, d1, 20), Alert(t2, m1, d1, 0)}
MCDetectors == <<d1, d2>>
MCSamples ==
  {[tenant |-> t, metric |-> m, second |-> s] : t \in {t1, t2}, m \in {m1, m2}, s \in {0, 30, 70}}
Filter(m, d, min, from, to) == [metric |-> m, detector |-> d, minScore |-> min, from |-> from, to |-> to]
MCFilters ==
  {Filter(NoFilter, NoFilter, 0, 0, 99), Filter(m1, d2, 0, 0, 99), Filter(m2, NoFilter, 10, 10, 30)}
MCLogRows == [at : {0, 1}, name : {x, y}]

Settings == [zscore |-> 7, prophet |-> 5]
Values == {6, 9}
-----------------------------------------------------------------------------
MCInit ==
  /\ ReadInit
  /\ topic \in Topics
  /\ optIn \in IF topic = "routing" THEN SUBSET (SinkNames \ {LogSink}) ELSE {{}}
  /\ rules = <<>> /\ entries = <<>> /\ series = <<>>

\* The operator appends an entry to ALERT_ROUTES.
AppendRule ==
  /\ topic = "routing"
  /\ Len(rules) < MaxRules
  /\ \E r \in Rule(Metrics) : rules' = Append(rules, r)
  /\ UNCHANGED <<topic, optIn, entries, series, readVars>>

\* The operator appends an entry, of a glob that is not there yet, to METRIC_THRESHOLDS.
AppendEntry ==
  /\ topic = "thresholds"
  /\ Len(entries) < MaxEntries
  /\ \E e \in Entry(Values) : entries' = Append(entries, e)
  /\ UNCHANGED <<topic, rules, optIn, series, readVars>>

\* The next minute, in line (0) or out of it.
AppendMinute ==
  /\ topic = "detection"
  /\ Len(series) < MaxMinutes
  /\ \E v \in {0, 1, 2} :
       /\ v # 0 => Cardinality({i \in DOMAIN series : series[i] # 0}) < MaxOut
       /\ series' = Append(series, v)
  /\ UNCHANGED <<topic, rules, optIn, entries, readVars>>

List ==
  /\ topic = "list"
  /\ \/ InsertAlert
     \/ \E q \in [table : {"alerts"}, tenant : Tenants, filter : Filters] : StartPaging(q)
     \/ FetchPage \/ EndRequest
  /\ UNCHANGED <<topic, rules, optIn, entries, series>>

ListLog ==
  /\ topic \in {"dead_letters", "audit_log"}
  /\ \/ InsertLog(topic)
     \/ \E q \in [table : {topic}, name : Names] : StartPaging(q)
     \/ FetchPage \/ EndRequest
  /\ UNCHANGED <<topic, rules, optIn, entries, series>>

Report ==
  /\ topic = "report"
  /\ \/ InsertAlert
     \/ \E t \in Tenants : SetLabel(t)
     \/ FetchCounts(t1) \/ FetchRecall \/ EndRequest
  /\ UNCHANGED <<topic, rules, optIn, entries, series>>

Series ==
  /\ topic = "series"
  /\ InsertPoint
  /\ UNCHANGED <<topic, rules, optIn, entries, series>>

MCNext ==
  \/ AppendRule \/ AppendEntry \/ AppendMinute
  \/ List \/ ListLog \/ Report \/ Series

MCSpec == MCInit /\ [][MCNext]_answersVars
-----------------------------------------------------------------------------
(***************************************************************************)
(* build_default_router's docstring: unknown names are skipped, and the    *)
(* resolved set is never empty, "so anomalies are never silently dropped". *)
(***************************************************************************)
NeverDropped ==
  \A m \in Metrics :
    LET routed == BuildDefaultRouter(m, rules, optIn)
    IN  routed # {} /\ routed \subseteq AvailableSinks(optIn)

(***************************************************************************)
(* First match wins, in both lists (config.py): an entry appended behind   *)
(* one that decides changes neither where the alerts of a metric go nor at *)
(* which threshold its tasks flag; and the page of an alert, which has     *)
(* only the row's detector and method to go by, shows the same threshold,  *)
(* and so does the detection endpoint wherever a setting or entry gives it.*)
(***************************************************************************)
LaterEntriesIrrelevant ==
  [][/\ \A m \in Metrics : Matching(rules, m) # {} =>
          BuildDefaultRouter(m, rules, optIn)' = BuildDefaultRouter(m, rules, optIn)
     /\ \A m \in Metric, k \in Key :
          LET flaggedAt == WorkerThreshold(entries, Settings, m, k)
          IN  /\ Defining(entries, m, k) # {} => flaggedAt' = flaggedAt
              /\ DetailThreshold(entries, Settings, m, IF k \in {"zscore", "stl"} THEN Statistical ELSE k, k)
                   = flaggedAt
              /\ k \in DOMAIN Settings \/ Defining(entries, m, k) # {} =>
                   EndpointThreshold(entries, Settings, m, k) = flaggedAt]_answersVars

(***************************************************************************)
(* A minute further out of line than all before it is flagged by the first *)
(* task that sees it, once five minutes are scored, also when an earlier   *)
(* minute was out of line: by the sweep's z-score and forest tasks, under  *)
(* every contamination and, for the forest, either scoring mode; by an iqr *)
(* task, which the sweep does not send, whichever earlier fit it takes its *)
(* quartiles from; and by the detection endpoint, which splits the series, *)
(* sets up its forest and fits its quartiles in ways of its own.           *)
(***************************************************************************)
SpikeSeen ==
  LET n == Len(series)
      spike == n >= 21 /\ \A i \in 1..n - 1 : series[i] < series[n]
  IN  \A kind \in {"zscore", "iqr", "isolation_forest"}, mode \in {"relative", "absolute"} :
        spike /\ (kind = "zscore" => mode = "relative") =>
          /\ \A contamination \in Contaminations, earlier \in 0..Split(kind, n) :
               n \in Flagged(kind, series, 8, mode, contamination, SubSeq(series, 1, earlier))
          /\ n \in DetectNow(kind, series, 8, mode).flagged

(***************************************************************************)
(* prophet_detector.py: "Points outside [yhat_lower, yhat_upper] are       *)
(* anomalous".  A scored minute a whole band outside is flagged.           *)
(***************************************************************************)
OutsideBandFlagged ==
  \A i \in Scored("prophet", Len(series)) :
    series[i] >= 2 => i \in Flagged("prophet", series, 5, "relative", DefaultContamination, <<>>)
=============================================================================
