--------------------------- MODULE AlertPipeline ---------------------------
(***************************************************************************)
(* The alerting stage end to end: the overlapping aggregate_and_alert      *)
(* tasks of AlertDedup publish the route_alert messages that the tasks of  *)
(* AlertDelivery carry to the sinks.  The only joint step is the publish:  *)
(* a claim leaves the aggregation's list and enters the alerts queue.      *)
(***************************************************************************)
EXTENDS AlertDedup, Sequences

CONSTANTS
  SinkNames, LogSink, NoAlert, Rules, OptIn, MaxRetries, Copies,
  MaxAlertLosses, MaxLate

VARIABLES published, msg, received, alertRows, recorded, audited, alertLetters,
          unrecorded, failedRuns, alertLosses, late

\* A route_alert message carries the anomaly; the time of its claim is history.
Alerts == [an : Anomaly, at : 0..MaxTime]

Route == INSTANCE AlertDelivery WITH
  MetricOf <- [c \in Alerts |-> c.an.metric],
  MaxLosses <- MaxAlertLosses,
  deadLetters <- alertLetters,
  losses <- alertLosses

\* What AlertDelivery assumes of its constants, said of these.
ASSUME MessagesAssumption ==
  /\ NoAlert \notin Alerts
  /\ LogSink \in SinkNames /\ OptIn \subseteq SinkNames \ {LogSink}
  /\ Rules \in Seq(Route!Rule(Metrics))
ASSUME DeliveryBoundsAssumption ==
  /\ MaxRetries \in Nat /\ MaxAlertLosses \in Nat /\ MaxLate \in Nat
  /\ IsFiniteSet(Copies)

routeVars == <<published, msg, received, alertRows, recorded, audited, alertLetters,
               unrecorded, failedRuns, alertLosses, late>>
pipeVars == <<vars, routeVars>>

PipeInit == Init /\ Route!Init

\* route_alert.delay: one step of the aggregation and of the queue.
HandOver(g, c) == Dispatch(g, c) /\ Route!Publish(c)

Aggregate(g) ==
  \/ Internal(g) /\ UNCHANGED routeVars
  \/ \E c \in agg[g].unique : HandOver(g, c)

AggregateOutside(g) == Outside(g) /\ UNCHANGED routeVars

Deliver(t) == Route!Step(t) /\ UNCHANGED vars

DeliverOutside(t) == Route!Outside(t) /\ UNCHANGED vars

PipeTick == Tick /\ UNCHANGED routeVars

\* Nothing is left to do within the bounds: not a deadlock.
PipeQuiescent ==
  /\ now = MaxTime
  /\ \A g \in Sweeps : agg[g].st = "done"
  /\ \A t \in Copies : msg[t] = Route!Free
  /\ UNCHANGED pipeVars

PipeNext ==
  \/ \E g \in Sweeps : Aggregate(g) \/ AggregateOutside(g)
  \/ \E t \in Copies : Deliver(t) \/ DeliverOutside(t)
  \/ PipeTick
  \/ PipeQuiescent

PipeSpec == PipeInit /\ [][PipeNext]_pipeVars

PipeFairness ==
  /\ \A g \in Sweeps : WF_pipeVars(Aggregate(g))
  /\ \A t \in Copies : WF_pipeVars(Deliver(t))

PipeFairSpec == PipeSpec /\ PipeFairness
-----------------------------------------------------------------------------
\* The alerts of one fingerprint.
AlertsOf(f) == {c \in Alerts : Fingerprint(c.an) = f}

\* What sink s was given of f: an alert, for the first, second, ... time.
Notifications(f, s) == UNION {{c} \X (1..received[c][s]) : c \in AlertsOf(f)}

\* The lost workers and late answers that alerts of f met.
Mishaps(f) == UNION {{c} \X (1..alertLosses[c] + late[c]) : c \in AlertsOf(f)}

(***************************************************************************)
(* PRD G5 and NFR-S5 from end to end: however many sweeps see a spike and  *)
(* whatever aggregation goes through, a sink hears of one fingerprint once *)
(* for each cooldown begun, and once more for each delivery mishap.        *)
(***************************************************************************)
NotificationRate ==
  \A f \in Fingerprints, s \in SinkNames :
    Cardinality(Notifications(f, s)) <= 1 + (now \div Cooldown) + Cardinality(Mishaps(f))

\* Some sink was given, or the record says that none could be given, an alert for
\* a's fingerprint whose window was open at time n or later.
Accounted(a, n) ==
  \E c \in AlertsOf(Fingerprint(a)) :
    /\ n < c.at + Cooldown
    /\ \/ \E s \in SinkNames : received[c][s] > 0
       \/ c \in alertLetters \union unrecorded

(***************************************************************************)
(* Unless Redis fails or an aggregation loses its worker, every anomaly    *)
(* that passes consensus leads to a delivered alert, or one given up on    *)
(* record, whose window had not ended when the sweep's task started: its   *)
(* own, or that of the sweep that holds the claim.                         *)
(***************************************************************************)
ConfirmedAccounted ==
  \A g \in Sweeps, a \in Anomaly :
    agg[g].st = "queued" /\ a \in ApplyConsensus(agg[g].report)
      ~> \/ agg[g].st # "queued" /\ Accounted(a, agg[g].since)
         \/ faults > 0 \/ losses > 0
=============================================================================
