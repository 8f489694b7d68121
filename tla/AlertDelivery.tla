--------------------------- MODULE AlertDelivery ---------------------------
(***************************************************************************)
(* route_alert (workers/tasks.py): one task per alert fans it out to the   *)
(* chosen sinks, retries only when every sink failed, then writes the      *)
(* audit row and the alerts row (both best effort) and is acknowledged     *)
(* last.  A task whose retries are exhausted is recorded by the            *)
(* task_failure handler (workers/deadletter.py).                           *)
(*                                                                         *)
(* Every send, insert, publish and acknowledgement is a step; a sink may   *)
(* fail, or deliver and answer too late; a lost worker has its message     *)
(* delivered again, also when it had already published the retry.          *)
(***************************************************************************)
EXTENDS Routing, FiniteSets

CONSTANTS
  Alerts,       \* the anomalies for which route_alert.delay is called
  NoAlert,
  Metrics,
  MetricOf,     \* MetricOf[a]: the metric of alert a
  Rules,        \* settings.alert_routing_rules
  OptIn,        \* the sinks whose settings are filled in
  MaxRetries,   \* max_retries of the task (3 in the code)
  Copies,       \* bound: messages that exist at a time
  MaxLosses,    \* bound, per alert: lost workers
  MaxLate       \* bound, per alert: sends that deliver but time out

ASSUME AlertsAssumption == NoAlert \notin Alerts /\ MetricOf \in [Alerts -> Metrics]
ASSUME RulesAssumption == Rules \in Seq(Rule(Metrics)) /\ OptIn \subseteq SinkNames \ {LogSink}
ASSUME BoundsAssumption ==
  MaxRetries \in Nat /\ MaxLosses \in Nat /\ MaxLate \in Nat /\ IsFiniteSet(Copies)

VARIABLES
  published,    \* alerts for which delay() was called
  msg,          \* msg[t]: a message of the alerts queue and the task that runs it
  received,     \* history: received[a][s], how often sink s was given alert a
  alertRows,    \* alertRows[a]: rows of the alerts table
  recorded,     \* recorded[a]: the sinks named in routed_to of those rows
  audited,      \* audited[a]: the sinks named in the alert.routed audit rows
  deadLetters,  \* alerts recorded in dead_letters
  unrecorded,   \* alerts whose dead_letters insert failed, known to the log only
  failedRuns,   \* history: runs in which every sink failed
  losses,       \* lost workers, per alert
  late          \* late answers, per alert

tables == <<alertRows, recorded, audited>>
letters == <<deadLetters, unrecorded>>
vars == <<published, msg, received, tables, letters, failedRuns, losses, late>>

(***************************************************************************)
(* "queued": in the queue or waiting for its retry countdown; "routing":   *)
(* in the loop of AlertRouter.route; "audit", "persist": route returned;   *)
(* "over": the run has ended and its message is not yet acknowledged.      *)
(***************************************************************************)
Stages == {"free", "queued", "routing", "audit", "persist", "over"}

Message == [st : Stages, alert : Alerts \union {NoAlert}, retries : 0..MaxRetries,
            todo : SUBSET SinkNames, routed : SUBSET SinkNames]

Free == [st |-> "free", alert |-> NoAlert, retries |-> 0, todo |-> {}, routed |-> {}]

Queued(a, n) == [st |-> "queued", alert |-> a, retries |-> n, todo |-> {}, routed |-> {}]

TypeOK ==
  /\ published \subseteq Alerts
  /\ msg \in [Copies -> Message]
  /\ received \in [Alerts -> [SinkNames -> Nat]]
  /\ alertRows \in [Alerts -> Nat]
  /\ recorded \in [Alerts -> SUBSET SinkNames]
  /\ audited \in [Alerts -> SUBSET SinkNames]
  /\ deadLetters \subseteq Alerts /\ unrecorded \subseteq Alerts
  /\ failedRuns \in [Alerts -> Nat]
  /\ losses \in [Alerts -> Nat] /\ late \in [Alerts -> Nat]

Init ==
  /\ published = {}
  /\ msg = [t \in Copies |-> Free]
  /\ received = [a \in Alerts |-> [s \in SinkNames |-> 0]]
  /\ alertRows = [a \in Alerts |-> 0]
  /\ recorded = [a \in Alerts |-> {}]
  /\ audited = [a \in Alerts |-> {}]
  /\ deadLetters = {} /\ unrecorded = {}
  /\ failedRuns = [a \in Alerts |-> 0]
  /\ losses = [a \in Alerts |-> 0] /\ late = [a \in Alerts |-> 0]

-----------------------------------------------------------------------------
ChosenSinks(a) == BuildDefaultRouter(MetricOf[a], Rules, OptIn)

Live(a) == {t \in Copies : msg[t].alert = a}

\* route_alert.delay(a)
Publish(a) ==
  /\ a \notin published
  /\ published' = published \union {a}
  /\ \E t \in Copies : msg[t] = Free /\ msg' = [msg EXCEPT ![t] = Queued(a, 0)]
  /\ UNCHANGED <<received, tables, letters, failedRuns, losses, late>>

\* A worker takes the message and builds the router.
Take(t) ==
  /\ msg[t].st = "queued"
  /\ msg' = [msg EXCEPT ![t].st = "routing", ![t].todo = ChosenSinks(msg[t].alert)]
  /\ UNCHANGED <<published, received, tables, letters, failedRuns, losses, late>>

\* sink.send returns.
SendOk(t, s) ==
  /\ msg[t].st = "routing" /\ s \in msg[t].todo
  /\ msg' = [msg EXCEPT ![t].todo = @ \ {s}, ![t].routed = @ \union {s}]
  /\ received' = [received EXCEPT ![msg[t].alert][s] = @ + 1]
  /\ UNCHANGED <<published, tables, letters, failedRuns, losses, late>>

\* sink.send raises.  LogSink only writes a log line and does not raise.
SendFails(t, s) ==
  /\ msg[t].st = "routing" /\ s \in msg[t].todo \ {LogSink}
  /\ msg' = [msg EXCEPT ![t].todo = @ \ {s}]
  /\ UNCHANGED <<published, received, tables, letters, failedRuns, losses, late>>

\* The remote end accepts the alert, but the answer misses the 5 s timeout; or SMS go
\* out until one recipient cannot be reached, and the exception leaves the loop.
SendLate(t, s) ==
  /\ msg[t].st = "routing" /\ s \in msg[t].todo \ {LogSink}
  /\ late[msg[t].alert] < MaxLate
  /\ late' = [late EXCEPT ![msg[t].alert] = @ + 1]
  /\ msg' = [msg EXCEPT ![t].todo = @ \ {s}]
  /\ received' = [received EXCEPT ![msg[t].alert][s] = @ + 1]
  /\ UNCHANGED <<published, tables, letters, failedRuns, losses>>

\* Mutant: any failed sink makes route raise.
SomeSinkFailed(t) ==
  msg[t].st = "routing" /\ msg[t].todo = {} /\ msg[t].routed # ChosenSinks(msg[t].alert)

AllSinksFailed(t) == msg[t].st = "routing" /\ msg[t].todo = {} /\ msg[t].routed = {}

\* route returns the sinks that succeeded.
RouteReturns(t) ==
  /\ msg[t].st = "routing" /\ msg[t].todo = {} /\ ~AllSinksFailed(t)
  /\ msg' = [msg EXCEPT ![t].st = "audit"]
  /\ UNCHANGED <<published, received, tables, letters, failedRuns, losses, late>>

\* Mutant: no limit on retries.
RetryUnbounded(t) ==
  /\ AllSinksFailed(t)
  /\ failedRuns' = [failedRuns EXCEPT ![msg[t].alert] = @ + 1]
  /\ \E u \in Copies :
       /\ msg[u] = Free
       /\ msg' = [msg EXCEPT ![t].st = "over",
                             ![u] = Queued(msg[t].alert, msg[t].retries + 1)]
  /\ UNCHANGED <<published, received, tables, letters, losses, late>>

\* route raises and autoretry publishes the message again with retries + 1 (a broker
\* that fails this publish is left out).
Retry(t) ==
  /\ AllSinksFailed(t) /\ msg[t].retries < MaxRetries
  /\ failedRuns' = [failedRuns EXCEPT ![msg[t].alert] = @ + 1]
  /\ \E u \in Copies :
       /\ msg[u] = Free
       /\ msg' = [msg EXCEPT ![t].st = "over",
                             ![u] = Queued(msg[t].alert, msg[t].retries + 1)]
  /\ UNCHANGED <<published, received, tables, letters, losses, late>>

\* Mutant: no task_failure handler.
GiveUpUnrecorded(t) ==
  /\ AllSinksFailed(t) /\ msg[t].retries = MaxRetries
  /\ failedRuns' = [failedRuns EXCEPT ![msg[t].alert] = @ + 1]
  /\ msg' = [msg EXCEPT ![t].st = "over"]
  /\ UNCHANGED <<published, received, tables, letters, losses, late>>

\* route raises on the last retry: task_failure runs record_dead_letter, whose own
\* database error is logged and swallowed.
GiveUp(t) ==
  /\ AllSinksFailed(t) /\ msg[t].retries = MaxRetries
  /\ failedRuns' = [failedRuns EXCEPT ![msg[t].alert] = @ + 1]
  /\ msg' = [msg EXCEPT ![t].st = "over"]
  /\ \/ deadLetters' = deadLetters \union {msg[t].alert} /\ UNCHANGED unrecorded
     \/ unrecorded' = unrecorded \union {msg[t].alert} /\ UNCHANGED deadLetters
  /\ UNCHANGED <<published, received, tables, losses, late>>

\* record_audit_sync: inserts a row, or logs the error (or is disabled).
Audit(t) ==
  /\ msg[t].st = "audit"
  /\ msg' = [msg EXCEPT ![t].st = "persist"]
  /\ \/ audited' = [audited EXCEPT ![msg[t].alert] = @ \union msg[t].routed]
     \/ UNCHANGED audited
  /\ UNCHANGED <<published, received, alertRows, recorded, letters, failedRuns, losses, late>>

\* Mutant: the row names the chosen sinks, not those that succeeded.
PersistChosen(t) ==
  /\ msg[t].st = "persist"
  /\ msg' = [msg EXCEPT ![t].st = "over"]
  /\ alertRows' = [alertRows EXCEPT ![msg[t].alert] = @ + 1]
  /\ recorded' = [recorded EXCEPT ![msg[t].alert] = @ \union ChosenSinks(msg[t].alert)]
  /\ UNCHANGED <<published, received, audited, letters, failedRuns, losses, late>>

\* persist_alert_sync inserts a row, or raises and route_alert only logs it.
Persist(t) ==
  /\ msg[t].st = "persist"
  /\ msg' = [msg EXCEPT ![t].st = "over"]
  /\ \/ /\ alertRows' = [alertRows EXCEPT ![msg[t].alert] = @ + 1]
        /\ recorded' = [recorded EXCEPT ![msg[t].alert] = @ \union msg[t].routed]
     \/ UNCHANGED <<alertRows, recorded>>
  /\ UNCHANGED <<published, received, audited, letters, failedRuns, losses, late>>

Ack(t) ==
  /\ msg[t].st = "over"
  /\ msg' = [msg EXCEPT ![t] = Free]
  /\ UNCHANGED <<published, received, tables, letters, failedRuns, losses, late>>

\* Mutant: the message stays with the dead consumer.
WorkerLostStuck(t) ==
  /\ msg[t].st \in {"routing", "audit", "persist", "over"}
  /\ losses[msg[t].alert] < MaxLosses
  /\ losses' = [losses EXCEPT ![msg[t].alert] = @ + 1]
  /\ msg' = [msg EXCEPT ![t].st = "stuck"]
  /\ UNCHANGED <<published, received, tables, letters, failedRuns, late>>

\* The worker dies before the acknowledgement: the message is delivered again
\* with the retry count it carries.
WorkerLost(t) ==
  /\ msg[t].st \in {"routing", "audit", "persist", "over"}
  /\ losses[msg[t].alert] < MaxLosses
  /\ losses' = [losses EXCEPT ![msg[t].alert] = @ + 1]
  /\ msg' = [msg EXCEPT ![t] = Queued(msg[t].alert, msg[t].retries)]
  /\ UNCHANGED <<published, received, tables, letters, failedRuns, late>>

\* Nothing is left to do: not a deadlock.
Quiescent ==
  /\ published = Alerts
  /\ \A t \in Copies : msg[t] = Free
  /\ UNCHANGED vars

\* What the worker that holds or takes message t does.
Step(t) ==
  \/ Take(t)
  \/ \E s \in SinkNames : SendOk(t, s) \/ SendFails(t, s)
  \/ RouteReturns(t) \/ Retry(t) \/ GiveUp(t)
  \/ Audit(t) \/ Persist(t) \/ Ack(t)

\* What happens to it: an answer comes too late, its worker dies.
Outside(t) == WorkerLost(t) \/ \E s \in SinkNames : SendLate(t, s)

Next ==
  \/ \E a \in Alerts : Publish(a)
  \/ \E t \in Copies : Step(t) \/ Outside(t)
  \/ Quiescent

Spec == Init /\ [][Next]_vars

\* The alerts workers keep consuming, and a send ends (each has a timeout) one
\* way or the other.  Nothing obliges an alert, a loss or a late answer to occur.
Fairness == \A t \in Copies : WF_vars(Step(t))

FairSpec == Spec /\ Fairness
-----------------------------------------------------------------------------
Settled(a) == a \in published /\ Live(a) = {}

(***************************************************************************)
(* Retries do not multiply notifications: only a lost worker or a late     *)
(* answer can make a sink receive an alert again, and each of them at most *)
(* once.  A partial failure, a failing audit or a failing insert never     *)
(* does (route_alert's docstring: a database error must not bubble up, or  *)
(* the retry would deliver again).  And one routed alert has one row of    *)
(* history, up to one more for each lost worker.                           *)
(***************************************************************************)
DuplicatesBounded ==
  \A a \in Alerts :
    /\ \A s \in SinkNames : received[a][s] <= 1 + losses[a] + late[a]
    /\ alertRows[a] <= 1 + losses[a]

(***************************************************************************)
(* NFR-R2, no silent loss: once no message of an alert is left, some sink  *)
(* has received it, or it is in dead_letters, or the log says that even    *)
(* this insert failed.  It is given up only after MaxRetries + 1 runs in   *)
(* each of which every sink failed, even when redeliveries run several     *)
(* copies of it.                                                           *)
(***************************************************************************)
NoSilentLoss ==
  /\ \A a \in Alerts : Settled(a) =>
       \/ \E s \in SinkNames : received[a][s] > 0
       \/ a \in deadLetters \union unrecorded
  /\ \A a \in deadLetters \union unrecorded : failedRuns[a] >= MaxRetries + 1

(***************************************************************************)
(* routed_to in the alerts table, and in the audit trail, names only sinks *)
(* that really received the alert.                                         *)
(***************************************************************************)
HistoryTruthful ==
  \A a \in Alerts : \A s \in recorded[a] \union audited[a] : received[a][s] > 0

\* A published alert settles: it is delivered or given up, however its workers
\* and sinks fail within the bounds.
AlertSettles == \A a \in Alerts : a \in published ~> Settled(a)
=============================================================================
