------------------------------- MODULE Reads -------------------------------
(***************************************************************************)
(* What the read routes answer while rows are inserted and labels are set: *)
(* the queries of storage/timescale.py and the detector report of          *)
(* api/routes/anomalies.py.  A request runs its statements one by one, and *)
(* each sees what is committed by then (READ COMMITTED).                   *)
(***************************************************************************)
EXTENDS Integers, Sequences, FiniteSets, SequencesExt

CONSTANTS
  Tenants, Metrics,
  Detectors,     \* detectors in the order of their names, a sequence
  Rows,          \* alerts that may be inserted
  Samples,       \* points of metrics that may be inserted
  Filters,       \* queries of fetch_alerts
  LogRows,       \* dead letters and audit rows: the time and the task or action
  Names,         \* tasks or actions to ask for
  NoFilter,      \* a filter that is not set
  PageLimit,     \* limit of a page
  BucketMinutes, \* bucket_minutes of the report
  MaxAlerts, MaxPoints \* bounds: rows of alerts and of metrics

Labels == {"unlabeled", "true_positive", "false_positive"}

AlertRow ==
  [tenant : Tenants, metric : Metrics, detector : Range(Detectors), at : Int, score : Int, label : Labels]

\* Query(ge=1) of the routes' limits and of bucket_minutes.
ASSUME PageAssumption == PageLimit \in Nat \ {0} /\ BucketMinutes \in Nat \ {0}
ASSUME RowsAssumption == Rows \subseteq AlertRow /\ \A r \in LogRows : r.at \in Int
ASSUME DetectorsAssumption == Detectors \in Seq(Range(Detectors))

VARIABLES
  alerts,  \* the alerts table: a row's place is its id
  points,  \* the metrics table
  logs,    \* dead_letters and audit_log
  reader   \* one client: its request, what it has read

readVars == <<alerts, points, logs, reader>>

Ids(t) == {i \in DOMAIN alerts : alerts[i].tenant = t}
Meets(x, wanted) == wanted \in {x, NoFilter}

\* The WHERE clause of fetch_alerts; min_score, from and to are always given here.
Where(t, f) ==
  {i \in Ids(t) : /\ Meets(alerts[i].metric, f.metric) /\ Meets(alerts[i].detector, f.detector)
                  /\ alerts[i].score >= f.minScore
                  /\ f.from <= alerts[i].at /\ alerts[i].at <= f.to}

\* fetch_dead_letters and fetch_audit_log ask for one task or action, of any tenant.
WhereDeadLetter(name) == {i \in DOMAIN logs.dead_letters : Meets(logs.dead_letters[i].name, name)}
WhereAudit(name) == {i \in DOMAIN logs.audit_log : Meets(logs.audit_log[i].name, name)}

\* Mutant: no second sort key.
NewerByTime(rows, i, j) == rows[i].at > rows[j].at

\* ORDER BY created_at DESC, id DESC.
Newer(rows, i, j) ==
  rows[i].at > rows[j].at \/ (rows[i].at = rows[j].at /\ i > j)

\* The orders in which a query may return its rows: rows that compare equal come as
\* the database pleases.
Orders(rows, ids) ==
  {s \in SetToSeqs(ids) : \A i, j \in DOMAIN s : i < j => ~Newer(rows, s[j], s[i])}

\* LIMIT and OFFSET.
Page(s, offset) ==
  {s[i] : i \in {k \in DOMAIN s : offset < k /\ k <= offset + PageLimit}}

FetchAlertById(t, i) == IF i \in Ids(t) THEN <<alerts[i]>> ELSE <<>>

\* Mutant: the events are counted over the alerts of every tenant.
ConfirmedOfAll(t, m) ==
  {i \in DOMAIN alerts : alerts[i].metric = m /\ alerts[i].label = "true_positive"}

\* The rows of the CTE tp of detector_report_rows.
Confirmed(t, m) ==
  {i \in Ids(t) : alerts[i].metric = m /\ alerts[i].label = "true_positive"}

Count(ids) ==
  [tp |-> Cardinality({i \in ids : alerts[i].label = "true_positive"}),
   fp |-> Cardinality({i \in ids : alerts[i].label = "false_positive"}),
   total |-> Cardinality(ids)]

Buckets(ids) == {alerts[i].at \div BucketMinutes : i \in ids}

\* First statement of the report: a row for each metric and detector with alerts.
Counts(t) ==
  LET of(m, d) == {i \in Ids(t) : alerts[i].metric = m /\ alerts[i].detector = d}
  IN  [p \in {q \in Metrics \X Range(Detectors) : of(q[1], q[2]) # {}} |-> Count(of(p[1], p[2]))]

\* Second statement: distinct buckets of its own confirmed alerts, and of anybody's.
Recall(t) ==
  LET of(m, d) == {i \in Confirmed(t, m) : alerts[i].detector = d}
  IN  [p \in {q \in Metrics \X Range(Detectors) : of(q[1], q[2]) # {}} |->
        [covered |-> Cardinality(Buckets(of(p[1], p[2]))),
         total |-> Cardinality(Buckets(Confirmed(t, p[1])))]]

FeedbackStats(t) ==
  [d \in {alerts[i].detector : i \in Ids(t)} |-> Count({i \in Ids(t) : alerts[i].detector = d})]

-----------------------------------------------------------------------------
\* round(a / b, 4), in ten-thousandths; None where b is 0.
None == -1
Share(a, b) == IF b = 0 THEN None ELSE (20000 * a + b) \div (2 * b)

Precision(c) == Share(c.tp, c.tp + c.fp)
RecallOf(recall, p) == IF p \in DOMAIN recall THEN Share(recall[p].covered, recall[p].total) ELSE 0

\* The sort key: labelled at all, precision, comparative recall, number of alerts.
SortKey(counts, recall, p) ==
  LET precision == Precision(counts[p])
  IN  <<IF precision = None THEN 0 ELSE 1, Max({precision, 0}),
        Max({RecallOf(recall, p), 0}), counts[p].total>>

Above(x, y) == \E i \in DOMAIN x : x[i] > y[i] /\ \A j \in 1..i - 1 : x[j] = y[j]

\* The detectors of a metric, best first; equal ones stay in the order of their names.
Ranked(counts, recall, m) ==
  LET present == {i \in DOMAIN Detectors : <<m, Detectors[i]>> \in DOMAIN counts}
      k(i) == SortKey(counts, recall, <<m, Detectors[i]>>)
  IN  CHOOSE s \in SetToSeqs(present) : \A i, j \in DOMAIN s : i < j =>
        Above(k(s[i]), k(s[j])) \/ (k(s[i]) = k(s[j]) /\ s[i] < s[j])

\* Mutant: whoever has a label may be recommended.
RecommendLabelled(counts, recall, m) ==
  LET ranked == Ranked(counts, recall, m)
      able == {i \in DOMAIN ranked : Precision(counts[<<m, Detectors[ranked[i]]>>]) # None}
  IN  IF able = {} THEN 0 ELSE ranked[Min(able)]

\* The best detector with a confirmed alert, by its place in Detectors; 0 for none.
Recommend(counts, recall, m) ==
  LET ranked == Ranked(counts, recall, m)
      able == {i \in DOMAIN ranked : Precision(counts[<<m, Detectors[ranked[i]]>>]) > 0}
  IN  IF able = {} THEN 0 ELSE ranked[Min(able)]
-----------------------------------------------------------------------------
\* Samples of a metric: [tenant, metric, second]; all are within the lookback.
Of(t, m) == {i \in DOMAIN points : points[i].tenant = t /\ points[i].metric = m}
Minute(i) == points[i].second \div 60

\* One value per minute with data, in order of time: its samples are averaged.
FetchSeries(t, m) == [b \in {Minute(i) : i \in Of(t, m)} |-> {i \in Of(t, m) : Minute(i) = b}]

\* resolution=raw: the samples themselves, in order of time.
FetchRaw(t, m) == Of(t, m)

ListActiveMetrics(t) == {points[i].metric : i \in {k \in DOMAIN points : points[k].tenant = t}}

\* The sweep asks for the pairs of all tenants at once.
ListActiveMetricsSync == {<<points[i].tenant, points[i].metric>> : i \in DOMAIN points}
-----------------------------------------------------------------------------
Idle == [st |-> "idle"]

ReadInit ==
  /\ alerts = <<>> /\ points = <<>>
  /\ logs = [dead_letters |-> <<>>, audit_log |-> <<>>]
  /\ reader = Idle

\* persist_alert_sync: created_at is the time its transaction began, so that rows
\* need not be inserted in its order.
InsertAlert ==
  /\ Len(alerts) < MaxAlerts
  /\ \E r \in Rows : alerts' = Append(alerts, r)
  /\ UNCHANGED <<points, logs, reader>>

InsertPoint ==
  /\ Len(points) < MaxPoints
  /\ \E p \in Samples : points' = Append(points, p)
  /\ UNCHANGED <<alerts, logs, reader>>

\* persist_dead_letter_sync, record_audit_sync and record_audit_async.
InsertLog(table) ==
  /\ Len(logs[table]) < MaxAlerts
  /\ \E r \in LogRows : logs' = [logs EXCEPT ![table] = Append(@, r)]
  /\ UNCHANGED <<alerts, points, reader>>

\* set_alert_label.
SetLabel(t) ==
  /\ \E i \in Ids(t), l \in {"true_positive", "false_positive"} :
       alerts' = [alerts EXCEPT ![i].label = l]
  /\ UNCHANGED <<points, logs, reader>>

\* What a paging client asks for: a list of alerts, dead letters or audit rows.
Queries ==
  [table : {"alerts"}, tenant : Tenants, filter : Filters]
    \union [table : {"dead_letters", "audit_log"}, name : Names]

Found(q) ==
  CASE q.table = "alerts" -> Where(q.tenant, q.filter)
    [] q.table = "dead_letters" -> WhereDeadLetter(q.name)
    [] q.table = "audit_log" -> WhereAudit(q.name)

Table(q) == IF q.table = "alerts" THEN alerts ELSE logs[q.table]

\* A client walks through the pages of list_alerts, list_dead_letters or list_audit
\* until one is empty.  (The total that comes with a page is left out: it is a
\* statement of its own, and nothing depends on it.)
StartPaging(q) ==
  /\ reader = Idle
  /\ reader' = [st |-> "paging", query |-> q, offset |-> 0, seen |-> {}, before |-> Found(q)]
  /\ UNCHANGED <<alerts, points, logs>>

FetchPage ==
  /\ reader.st = "paging"
  /\ \E s \in Orders(Table(reader.query), Found(reader.query)) :
       LET page == Page(s, reader.offset)
       IN  reader' = [reader EXCEPT
             !.st = IF page = {} THEN "read" ELSE "paging",
             !.seen = @ \union page,
             !.offset = IF page = {} THEN @ ELSE @ + PageLimit]
  /\ UNCHANGED <<alerts, points, logs>>

\* detector_report, statement by statement.
FetchCounts(t) ==
  /\ reader = Idle
  /\ reader' = [st |-> "counted", tenant |-> t, counts |-> Counts(t)]
  /\ UNCHANGED <<alerts, points, logs>>

FetchRecall ==
  /\ reader.st = "counted"
  /\ reader' = [st |-> "reported", counts |-> reader.counts, recall |-> Recall(reader.tenant)]
  /\ UNCHANGED <<alerts, points, logs>>

EndRequest ==
  /\ reader.st \in {"read", "reported"}
  /\ reader' = Idle
  /\ UNCHANGED <<alerts, points, logs>>

ReadNext ==
  \/ InsertAlert \/ InsertPoint
  \/ \E table \in {"dead_letters", "audit_log"} : InsertLog(table)
  \/ \E t \in Tenants : SetLabel(t) \/ FetchCounts(t)
  \/ \E q \in Queries : StartPaging(q)
  \/ FetchPage \/ FetchRecall \/ EndRequest

ReadSpec == ReadInit /\ [][ReadNext]_readVars
-----------------------------------------------------------------------------
(***************************************************************************)
(* Whoever pages through a list while rows are inserted sees every row     *)
(* that was there when it began: rows only move to later pages.            *)
(***************************************************************************)
PagingMissesNothing == reader.st = "read" => reader.before \subseteq reader.seen

\* Everything a tenant may read that is scoped to it.
Answers(t) ==
  <<[f \in Filters |-> Orders(alerts, Where(t, f))],
    [i \in 1..MaxAlerts |-> FetchAlertById(t, i)],
    Counts(t), Recall(t), FeedbackStats(t), ListActiveMetrics(t),
    [m \in Metrics |-> <<FetchSeries(t, m), FetchRaw(t, m)>>],
    {p \in ListActiveMetricsSync : p[1] = t}>>

Own(t) ==
  <<[i \in Ids(t) |-> alerts[i]],
    [i \in {k \in DOMAIN points : points[k].tenant = t} |-> points[i]]>>

(***************************************************************************)
(* MM-9.3: "one tenant never sees another's data" (config.py).  A step that*)
(* leaves a tenant's own rows alone changes no answer to it: no list, no   *)
(* count, no precision or recall of its report, no series.                 *)
(***************************************************************************)
OtherTenantsInvisible ==
  [][\A t \in Tenants : Own(t)' = Own(t) => Answers(t)' = Answers(t)]_readVars

\* Some of the alerts c counts are confirmed, and their share does not round to 0.
Shows(c) == c.tp > 0 /\ 20000 * c.tp >= c.tp + c.fp

\* The share of confirmed alerts is larger in c than in d by a ten-thousandth or more.
MorePrecise(c, d) ==
  10000 * (c.tp * (d.tp + d.fp) - d.tp * (c.tp + c.fp)) >= (c.tp + c.fp) * (d.tp + d.fp)

(***************************************************************************)
(* The report recommends a detector exactly when the alerts of some        *)
(* detector of the metric show a precision; it is the first of the list,   *)
(* and no other is more precise than the four places of the report can     *)
(* tell.  No detector covers more events than there are, also when labels  *)
(* are set between the report's two statements.                            *)
(***************************************************************************)
RecommendedIsBest ==
  reader.st = "reported" =>
    \A m \in {p[1] : p \in DOMAIN reader.counts} :
      LET counts == reader.counts
          best == Recommend(counts, reader.recall, m)
          rivals == {p \in DOMAIN counts : p[1] = m}
      IN  /\ best # 0 <=> \E p \in rivals : Shows(counts[p])
          /\ best # 0 =>
               /\ best = Ranked(counts, reader.recall, m)[1]
               /\ \A p \in rivals : counts[p].tp > 0 =>
                    ~MorePrecise(counts[p], counts[<<m, Detectors[best]>>])
          /\ \A p \in rivals \intersect DOMAIN reader.recall :
               reader.recall[p].covered <= reader.recall[p].total
=============================================================================
