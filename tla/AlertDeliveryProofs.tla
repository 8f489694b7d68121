------------------------ MODULE AlertDeliveryProofs ------------------------
(***************************************************************************)
(* Theorems about AlertDelivery, for every set of alerts, rules and sinks, *)
(* every number of retries, lost workers and late answers.                 *)
(***************************************************************************)
EXTENDS AlertDelivery, FiniteSetTheorems, TLAPS

\* A message is in the queue or with a worker exactly while it carries an alert.
Occupied == \A t \in Copies : IF msg[t].st = "free" THEN msg[t] = Free
                                                 ELSE msg[t].alert \in Alerts

TypeInv == TypeOK /\ Occupied

(***************************************************************************)
(* Truth of the history: a sink in a run's list of successes has received  *)
(* the alert, and a run that is past the router succeeded with some sink.  *)
(***************************************************************************)
RoutedReceived ==
  \A t \in Copies :
    /\ \A s \in msg[t].routed : received[msg[t].alert][s] > 0
    /\ msg[t].st \in {"audit", "persist"} => msg[t].routed # {}

HistoryInv == RoutedReceived /\ HistoryTruthful

(***************************************************************************)
(* No silent loss: each retry was paid for with a run in which every sink  *)
(* failed, and a published alert that nobody received and nobody gave up   *)
(* has a message that will still be routed.                                *)
(***************************************************************************)
RetriesPaid ==
  /\ \A t \in Copies : msg[t].st # "free" => failedRuns[msg[t].alert] >= msg[t].retries
  /\ \A a \in deadLetters \union unrecorded : failedRuns[a] >= MaxRetries + 1

Hopeful(a) == \E t \in Copies : msg[t].alert = a /\ msg[t].st \in {"queued", "routing"}

Answered(a) == \/ \E s \in SinkNames : received[a][s] > 0
               \/ a \in deadLetters \union unrecorded

StillCarried == \A a \in published : Answered(a) \/ Hopeful(a)

LossInv == RetriesPaid /\ StillCarried

(***************************************************************************)
(* Bounded duplicates: each notification of a sink, and each message that  *)
(* may still bring it one, is paid for by the publication, a lost worker   *)
(* or a late answer; likewise for each row and the message that may still  *)
(* write one.                                                              *)
(***************************************************************************)
MayDeliver(m, s) == \/ m.st = "queued"
                    \/ m.st = "routing" /\ (s \in m.todo \/ m.routed = {})

Carriers(a, s) == {t \in Copies : msg[t].alert = a /\ MayDeliver(msg[t], s)}

Writers(a) == {t \in Copies : /\ msg[t].alert = a
                              /\ msg[t].st \in {"queued", "routing", "audit", "persist"}}

Issued(a) == IF a \in published THEN 1 ELSE 0

SendsPaid ==
  \A a \in Alerts, s \in SinkNames :
    received[a][s] + Cardinality(Carriers(a, s)) <= Issued(a) + losses[a] + late[a]

RowsPaid ==
  \A a \in Alerts : alertRows[a] + Cardinality(Writers(a)) <= Issued(a) + losses[a]

DeliveryInv == TypeInv /\ HistoryInv /\ LossInv /\ SendsPaid /\ RowsPaid
-----------------------------------------------------------------------------
\* The router has only sinks of the registry and those a rule names.
LEMMA ChosenSinksType ==
  ASSUME NEW a \in Alerts
  PROVE  ChosenSinks(a) \subseteq SinkNames
<1> DEFINE registry == AvailableSinks(OptIn)
<1>1. registry \subseteq SinkNames
  BY RulesAssumption, LogAssumption DEF AvailableSinks
<1> DEFINE chosen == SelectSinkNames(MetricOf[a], Rules) \intersect registry
<1>2. chosen \subseteq SinkNames
  BY <1>1
<1>3. LogSink \in SinkNames
  BY LogAssumption
<1>4. ChosenSinks(a) = CASE Rules = <<>> -> registry
                         [] Rules # <<>> /\ chosen = {} -> {LogSink}
                         [] OTHER -> chosen
  BY DEF ChosenSinks, BuildDefaultRouter
<1> HIDE DEF registry, chosen
<1>5. CASE Rules = <<>>
  BY <1>1, <1>4, <1>5, Zenon
<1>6. CASE Rules # <<>> /\ chosen = {}
  BY <1>3, <1>4, <1>6, Zenon
<1>7. CASE Rules # <<>> /\ chosen # {}
  BY <1>2, <1>4, <1>7, Zenon
<1>. QED  BY <1>5, <1>6, <1>7

\* The step gives message t the content m and leaves the other messages alone.
OnlyMessage(t, m) ==
  /\ msg' \in [Copies -> Message]
  /\ \A u \in Copies : msg'[u] = IF u = t THEN m ELSE msg[u]

\* What an assignment to one message does to all of them.
LEMMA OneMessageAssigned ==
  ASSUME msg \in [Copies -> Message], NEW t \in Copies, NEW m \in Message,
         msg' = [msg EXCEPT ![t] = m]
  PROVE  OnlyMessage(t, m)
BY DEF OnlyMessage

\* An unused slot, and a message as delay() or autoretry publishes it.
LEMMA MessageShapes ==
  /\ Free \in Message
  /\ \A a \in Alerts, n \in 0..MaxRetries :
       /\ Queued(a, n) \in Message
       /\ Queued(a, n).st = "queued" /\ Queued(a, n).alert = a
       /\ Queued(a, n).retries = n /\ Queued(a, n).routed = {}
<1>1. 0 \in 0..MaxRetries
  BY BoundsAssumption
<1>2. Free \in Message
  BY <1>1 DEF Free, Message, Stages
<1>. QED  BY <1>2 DEF Queued, Message, Stages

\* The run of message t moves to a stage, with these sinks still to try and these
\* successes; every other message keeps its content.
Moved(t, st, todo, routed) ==
  /\ msg' \in [Copies -> Message]
  /\ msg'[t].st = st /\ msg'[t].todo = todo /\ msg'[t].routed = routed
  /\ msg'[t].alert = msg[t].alert /\ msg'[t].retries = msg[t].retries
  /\ \A u \in Copies \ {t} : msg'[u] = msg[u]

\* What each step of a run does to the messages.
LEMMA RunSteps ==
  ASSUME TypeInv, NEW t \in Copies
  PROVE  /\ Take(t) => Moved(t, "routing", ChosenSinks(msg[t].alert), msg[t].routed)
         /\ \A s \in SinkNames :
              /\ SendOk(t, s) => Moved(t, "routing", msg[t].todo \ {s}, msg[t].routed \union {s})
              /\ SendFails(t, s) \/ SendLate(t, s)
                   => Moved(t, "routing", msg[t].todo \ {s}, msg[t].routed)
         /\ RouteReturns(t) => Moved(t, "audit", msg[t].todo, msg[t].routed)
         /\ GiveUp(t) \/ Persist(t) => Moved(t, "over", msg[t].todo, msg[t].routed)
         /\ Audit(t) => Moved(t, "persist", msg[t].todo, msg[t].routed)
<1>1. msg \in [Copies -> Message] /\ msg[t] \in Message
  BY DEF TypeInv, TypeOK
<1>2. msg[t].todo \subseteq SinkNames /\ msg[t].routed \subseteq SinkNames
  BY <1>1 DEF Message
<1>3. ASSUME NEW st \in Stages, msg' = [msg EXCEPT ![t].st = st]
      PROVE  Moved(t, st, msg[t].todo, msg[t].routed)
  BY <1>1, <1>3 DEF Moved, Message
<1>4. ASSUME Take(t)
      PROVE  Moved(t, "routing", ChosenSinks(msg[t].alert), msg[t].routed)
  <2>1. ChosenSinks(msg[t].alert) \subseteq SinkNames
    BY <1>4, ChosenSinksType DEF Take, TypeInv, Occupied
  <2> DEFINE chosen == ChosenSinks(msg[t].alert)
  <2>2. msg' = [msg EXCEPT ![t].st = "routing", ![t].todo = chosen]
    BY <1>4 DEF Take
  <2> HIDE DEF chosen
  <2>. QED  BY <1>1, <2>1, <2>2 DEF Moved, Message, Stages, chosen
<1>5. ASSUME NEW s \in SinkNames, SendOk(t, s)
      PROVE  Moved(t, "routing", msg[t].todo \ {s}, msg[t].routed \union {s})
  BY <1>1, <1>2, <1>5 DEF SendOk, Moved, Message
<1>6. ASSUME NEW s \in SinkNames, SendFails(t, s) \/ SendLate(t, s)
      PROVE  Moved(t, "routing", msg[t].todo \ {s}, msg[t].routed)
  <2>1. msg[t].st = "routing" /\ msg' = [msg EXCEPT ![t].todo = @ \ {s}]
    BY <1>6 DEF SendFails, SendLate
  <2>. QED  BY <1>1, <1>2, <2>1 DEF Moved, Message
<1>7. "audit" \in Stages /\ "over" \in Stages /\ "persist" \in Stages
  BY DEF Stages
<1>8. /\ RouteReturns(t) => msg' = [msg EXCEPT ![t].st = "audit"]
      /\ GiveUp(t) \/ Persist(t) => msg' = [msg EXCEPT ![t].st = "over"]
      /\ Audit(t) => msg' = [msg EXCEPT ![t].st = "persist"]
  BY DEF RouteReturns, GiveUp, Persist, Audit
<1>. QED  BY <1>3, <1>4, <1>5, <1>6, <1>7, <1>8

\* What redelivering and acknowledging a message does to the messages.
LEMMA QueueSteps ==
  ASSUME TypeInv, NEW t \in Copies
  PROVE  /\ Ack(t) => OnlyMessage(t, Free)
         /\ WorkerLost(t) => OnlyMessage(t, Queued(msg[t].alert, msg[t].retries))
<1>1. msg \in [Copies -> Message] /\ msg[t] \in Message
  BY DEF TypeInv, TypeOK
<1>2. Ack(t) => OnlyMessage(t, Free)
  BY <1>1, MessageShapes, OneMessageAssigned DEF Ack
<1>3. ASSUME WorkerLost(t)
      PROVE  OnlyMessage(t, Queued(msg[t].alert, msg[t].retries))
  <2>1. msg[t].alert \in Alerts /\ msg[t].retries \in 0..MaxRetries
    BY <1>1, <1>3 DEF WorkerLost, TypeInv, Occupied, Message
  <2>2. Queued(msg[t].alert, msg[t].retries) \in Message
    BY <2>1, MessageShapes
  <2>. QED  BY <1>1, <1>3, <2>2, OneMessageAssigned DEF WorkerLost
<1>. QED  BY <1>2, <1>3

\* What delay() does to the messages.
LEMMA PublishStep ==
  ASSUME TypeInv, NEW a \in Alerts, Publish(a)
  PROVE  \E u \in Copies : msg[u] = Free /\ OnlyMessage(u, Queued(a, 0))
<1>1. PICK u \in Copies : msg[u] = Free /\ msg' = [msg EXCEPT ![u] = Queued(a, 0)]
  BY DEF Publish
<1>2. 0 \in 0..MaxRetries
  BY BoundsAssumption
<1>3. Queued(a, 0) \in Message
  BY <1>2, MessageShapes
<1>. QED  BY <1>1, <1>3, OneMessageAssigned DEF TypeInv, TypeOK

\* A retry ends the run and publishes its successor in a free slot.
Succeeded(t, u) ==
  /\ u # t /\ msg[u] = Free
  /\ msg' \in [Copies -> Message]
  /\ msg'[t].st = "over" /\ msg'[t].alert = msg[t].alert
  /\ msg'[t].retries = msg[t].retries /\ msg'[t].routed = msg[t].routed
  /\ msg'[u] = Queued(msg[t].alert, msg[t].retries + 1)
  /\ \A v \in Copies \ {t, u} : msg'[v] = msg[v]

\* A step of one run, other than a retry, leaves the other messages alone.
LEMMA OthersKept ==
  ASSUME TypeInv, NEW t \in Copies, Step(t) \/ Outside(t), ~Retry(t),
         NEW u \in Copies, u # t
  PROVE  msg'[u] = msg[u]
<1>1. CASE Ack(t) \/ WorkerLost(t)
  BY <1>1, QueueSteps DEF OnlyMessage
<1>2. CASE Take(t) \/ RouteReturns(t) \/ GiveUp(t) \/ Persist(t) \/ Audit(t)
  BY <1>2, RunSteps DEF Moved
<1>3. ASSUME NEW s \in SinkNames, SendOk(t, s) \/ SendFails(t, s) \/ SendLate(t, s)
      PROVE  msg'[u] = msg[u]
  BY <1>3, RunSteps DEF Moved
<1>. QED  BY <1>1, <1>2, <1>3 DEF Step, Outside

\* What autoretry does to the messages.
LEMMA RetryStep ==
  ASSUME TypeInv, NEW t \in Copies, Retry(t)
  PROVE  /\ \E u \in Copies : Succeeded(t, u)
         /\ msg[t].alert \in Alerts /\ msg[t].retries + 1 \in 0..MaxRetries
         /\ msg[t].st = "routing" /\ msg[t].routed = {}
<1>1. msg \in [Copies -> Message] /\ msg[t] \in Message
  BY DEF TypeInv, TypeOK
<1>2. msg[t].st = "routing" /\ msg[t].routed = {} /\ msg[t].retries < MaxRetries
  BY DEF Retry, AllSinksFailed
<1>3. msg[t].alert \in Alerts /\ msg[t].retries + 1 \in 0..MaxRetries
  BY <1>1, <1>2, BoundsAssumption DEF TypeInv, Occupied, Message
<1> DEFINE next == Queued(msg[t].alert, msg[t].retries + 1)
<1>4. next \in Message
  BY <1>3, MessageShapes
<1>5. PICK u \in Copies :
        msg[u] = Free /\ msg' = [msg EXCEPT ![t].st = "over", ![u] = next]
  BY DEF Retry
<1>6. u # t
  BY <1>2, <1>5 DEF Free
<1> HIDE DEF next
<1>7. [msg[t] EXCEPT !.st = "over"] \in Message
  BY <1>1 DEF Message, Stages
<1>8. Succeeded(t, u)
  BY <1>1, <1>4, <1>5, <1>6, <1>7 DEF Succeeded, next, Message
<1>. QED  BY <1>2, <1>3, <1>8
-----------------------------------------------------------------------------
\* A worker at work on message t has an alert in hand.
LEMMA AlertInHand ==
  ASSUME TypeInv, NEW t \in Copies, msg[t].st # "free"
  PROVE  msg[t].alert \in Alerts
BY DEF TypeInv, Occupied

\* Counting up one entry of a tally keeps it a tally.
LEMMA Tallied ==
  ASSUME NEW f \in [Alerts -> Nat], NEW a \in Alerts
  PROVE  [f EXCEPT ![a] = @ + 1] \in [Alerts -> Nat]
OBVIOUS

\* Everything but the messages keeps its type: counters count, and what the audit trail
\* and the alerts table name are sinks.
LEMMA RecordsTyped ==
  ASSUME TypeInv, Next \/ UNCHANGED vars
  PROVE  /\ published' \subseteq Alerts
         /\ received' \in [Alerts -> [SinkNames -> Nat]]
         /\ alertRows' \in [Alerts -> Nat]
         /\ recorded' \in [Alerts -> SUBSET SinkNames]
         /\ audited' \in [Alerts -> SUBSET SinkNames]
         /\ deadLetters' \subseteq Alerts /\ unrecorded' \subseteq Alerts
         /\ failedRuns' \in [Alerts -> Nat]
         /\ losses' \in [Alerts -> Nat] /\ late' \in [Alerts -> Nat]
<1> DEFINE Goal == /\ published' \subseteq Alerts
                   /\ received' \in [Alerts -> [SinkNames -> Nat]]
                   /\ alertRows' \in [Alerts -> Nat]
                   /\ recorded' \in [Alerts -> SUBSET SinkNames]
                   /\ audited' \in [Alerts -> SUBSET SinkNames]
                   /\ deadLetters' \subseteq Alerts /\ unrecorded' \subseteq Alerts
                   /\ failedRuns' \in [Alerts -> Nat]
                   /\ losses' \in [Alerts -> Nat] /\ late' \in [Alerts -> Nat]
<1>. SUFFICES Goal
  OBVIOUS
<1>1. TypeOK
  BY DEF TypeInv
<1>2. ASSUME UNCHANGED vars
      PROVE  Goal
  BY <1>1, <1>2 DEF TypeOK, vars, tables, letters
<1>3. ASSUME NEW a \in Alerts, Publish(a)
      PROVE  Goal
  BY <1>1, <1>3 DEF TypeOK, Publish, tables, letters
<1>4. ASSUME NEW t \in Copies, Take(t) \/ RouteReturns(t) \/ Ack(t)
      PROVE  Goal
  BY <1>1, <1>4 DEF TypeOK, Take, RouteReturns, Ack, tables, letters
<1>5. ASSUME NEW t \in Copies, NEW s \in SinkNames, SendOk(t, s) \/ SendLate(t, s)
      PROVE  Goal
  <2>1. msg[t].alert \in Alerts
    BY <1>5, AlertInHand DEF SendOk, SendLate
  <2>2. received' = [received EXCEPT ![msg[t].alert][s] = @ + 1]
    BY <1>5 DEF SendOk, SendLate
  <2>3. received' \in [Alerts -> [SinkNames -> Nat]]
    BY <1>1, <2>1, <2>2 DEF TypeOK
  <2>4. late' \in [Alerts -> Nat]
    BY <1>1, <1>5, <2>1, Tallied, SMTT(30) DEF TypeOK, SendOk, SendLate
  <2>5. UNCHANGED <<published, tables, letters, failedRuns, losses>>
    BY <1>5 DEF SendOk, SendLate
  <2>. QED  BY <1>1, <2>3, <2>4, <2>5 DEF TypeOK, tables, letters
<1>6. ASSUME NEW t \in Copies, NEW s \in SinkNames, SendFails(t, s)
      PROVE  Goal
  BY <1>1, <1>6 DEF TypeOK, SendFails, tables, letters
<1>7. ASSUME NEW t \in Copies, Retry(t) \/ GiveUp(t)
      PROVE  Goal
  <2>1. msg[t].alert \in Alerts
    BY <1>7, AlertInHand DEF Retry, GiveUp, AllSinksFailed
  <2>2. failedRuns' \in [Alerts -> Nat]
    BY <1>1, <1>7, <2>1, Tallied, SMTT(30) DEF TypeOK, Retry, GiveUp
  <2>3. deadLetters' \subseteq Alerts /\ unrecorded' \subseteq Alerts
    BY <1>1, <1>7, <2>1 DEF TypeOK, Retry, GiveUp, letters
  <2>4. UNCHANGED <<published, received, tables, losses, late>>
    BY <1>7 DEF Retry, GiveUp
  <2>. QED  BY <1>1, <2>2, <2>3, <2>4 DEF TypeOK, tables
<1>8. ASSUME NEW t \in Copies, Audit(t) \/ Persist(t)
      PROVE  Goal
  <2>1. msg[t].alert \in Alerts /\ msg[t].routed \subseteq SinkNames
    BY <1>1, <1>8, AlertInHand DEF TypeOK, Audit, Persist, Message
  <2>2. alertRows' \in [Alerts -> Nat]
    BY <1>1, <1>8, <2>1, Tallied DEF TypeOK, Audit, Persist
  <2> DEFINE Noted(f) == [f EXCEPT ![msg[t].alert] = @ \union msg[t].routed]
  <2>a. \A f \in [Alerts -> SUBSET SinkNames] : Noted(f) \in [Alerts -> SUBSET SinkNames]
    BY <2>1
  <2>b. /\ recorded' = recorded \/ recorded' = Noted(recorded)
        /\ audited' = audited \/ audited' = Noted(audited)
    BY <1>8 DEF Audit, Persist
  <2> HIDE DEF Noted
  <2>3. recorded' \in [Alerts -> SUBSET SinkNames] /\ audited' \in [Alerts -> SUBSET SinkNames]
    BY <1>1, <2>a, <2>b DEF TypeOK
  <2>4. UNCHANGED <<published, received, letters, failedRuns, losses, late>>
    BY <1>8 DEF Audit, Persist
  <2>. QED  BY <1>1, <2>2, <2>3, <2>4 DEF TypeOK, letters
<1>9. ASSUME NEW t \in Copies, WorkerLost(t)
      PROVE  Goal
  <2>1. msg[t].alert \in Alerts
    BY <1>9, AlertInHand DEF WorkerLost
  <2>2. losses' \in [Alerts -> Nat]
    BY <1>1, <1>9, <2>1, Tallied DEF TypeOK, WorkerLost
  <2>3. UNCHANGED <<published, received, tables, letters, failedRuns, late>>
    BY <1>9 DEF WorkerLost
  <2>. QED  BY <1>1, <2>2, <2>3 DEF TypeOK, tables, letters
<1> HIDE DEF Goal
<1>10. CASE \E a \in Alerts : Publish(a)
  BY <1>3, <1>10
<1>11. CASE \E t \in Copies : Step(t) \/ Outside(t)
  BY <1>4, <1>5, <1>6, <1>7, <1>8, <1>9, <1>11 DEF Step, Outside
<1>12. CASE Quiescent \/ UNCHANGED vars
  BY <1>2, <1>12 DEF Quiescent
<1>13. Goal
  BY <1>10, <1>11, <1>12 DEF Next
<1>. QED  BY <1>13 DEF Goal

\* The type invariant holds initially.
LEMMA TypeInit ==
  ASSUME Init
  PROVE  TypeInv
<1>1. Free \in Message
  BY MessageShapes
<1>2. Free.st = "free"
  BY DEF Free
<1>3. msg \in [Copies -> Message] /\ Occupied
  BY <1>1, <1>2 DEF Init, Occupied
<1>4. received \in [Alerts -> [SinkNames -> Nat]]
  BY DEF Init
<1>5. recorded \in [Alerts -> SUBSET SinkNames] /\ audited \in [Alerts -> SUBSET SinkNames]
  BY DEF Init
<1>. QED  BY <1>3, <1>4, <1>5 DEF Init, TypeInv, TypeOK

\* A slot is in use exactly while a run moves in it.
LEMMA MovedTyped ==
  ASSUME TypeInv, NEW t \in Copies, msg[t].st # "free",
         NEW st \in Stages \ {"free"}, NEW todo, NEW routed, Moved(t, st, todo, routed)
  PROVE  msg' \in [Copies -> Message] /\ Occupied'
<1>1. \A u \in Copies : IF msg[u].st = "free" THEN msg[u] = Free ELSE msg[u].alert \in Alerts
  BY DEF TypeInv, Occupied
<1>2. ASSUME NEW u \in Copies
      PROVE  IF msg'[u].st = "free" THEN msg'[u] = Free ELSE msg'[u].alert \in Alerts
  BY <1>1 DEF Moved
<1>3. msg' \in [Copies -> Message]
  BY DEF Moved
<1>. QED  BY <1>2, <1>3 DEF Occupied

\* And it is in use or free after a step that rewrites it.
LEMMA RewrittenTyped ==
  ASSUME TypeInv, NEW t \in Copies, NEW m,
         m = Free \/ (m.st # "free" /\ m.alert \in Alerts), OnlyMessage(t, m)
  PROVE  msg' \in [Copies -> Message] /\ Occupied'
<1>1. \A u \in Copies : IF msg[u].st = "free" THEN msg[u] = Free ELSE msg[u].alert \in Alerts
  BY DEF TypeInv, Occupied
<1>2. Free.st = "free"
  BY DEF Free
<1>3. ASSUME NEW u \in Copies
      PROVE  IF msg'[u].st = "free" THEN msg'[u] = Free ELSE msg'[u].alert \in Alerts
  BY <1>1, <1>2 DEF OnlyMessage
<1>4. msg' \in [Copies -> Message]
  BY DEF OnlyMessage
<1>. QED  BY <1>3, <1>4 DEF Occupied

\* Every step keeps the type invariant.
LEMMA TypeStep ==
  ASSUME TypeInv, Next \/ UNCHANGED vars
  PROVE  TypeInv'
<1> DEFINE Goal == msg' \in [Copies -> Message] /\ Occupied'
<1>1. ASSUME NEW t \in Copies, Step(t) \/ Outside(t)
      PROVE  Goal
  <2>1. CASE Take(t)
    BY <2>1, RunSteps, MovedTyped DEF Take, Stages
  <2>2. ASSUME NEW s \in SinkNames, SendOk(t, s)
        PROVE  Goal
    BY <2>2, RunSteps, MovedTyped DEF SendOk, Stages
  <2>3. ASSUME NEW s \in SinkNames, SendFails(t, s) \/ SendLate(t, s)
        PROVE  Goal
    BY <2>3, RunSteps, MovedTyped DEF SendFails, SendLate, Stages
  <2>4. CASE RouteReturns(t)
    BY <2>4, RunSteps, MovedTyped DEF RouteReturns, Stages
  <2>5. CASE GiveUp(t) \/ Persist(t)
    BY <2>5, RunSteps, MovedTyped DEF GiveUp, AllSinksFailed, Persist, Stages
  <2>6. CASE Audit(t)
    BY <2>6, RunSteps, MovedTyped DEF Audit, Stages
  <2>7. CASE Retry(t)
    <3>1. PICK u \in Copies : Succeeded(t, u)
      BY <2>7, RetryStep
    <3>2. msg[t].alert \in Alerts /\ msg[t].retries + 1 \in 0..MaxRetries
      BY <2>7, RetryStep
    <3>3. msg'[u].st = "queued" /\ msg'[u].alert \in Alerts
      BY <3>1, <3>2, MessageShapes DEF Succeeded
    <3>. QED  BY <3>1, <3>2, <3>3 DEF Succeeded, TypeInv, Occupied
  <2>8. CASE Ack(t)
    BY <2>8, QueueSteps, RewrittenTyped
  <2>9. CASE WorkerLost(t)
    <3>1. msg[t].alert \in Alerts
      BY <2>9, AlertInHand DEF WorkerLost
    <3>2. msg[t].retries \in 0..MaxRetries
      BY DEF TypeInv, TypeOK, Message
    <3>. QED  BY <2>9, <3>1, <3>2, QueueSteps, MessageShapes, RewrittenTyped
  <2> HIDE DEF Goal
  <2>. QED  BY <1>1, <2>1, <2>2, <2>3, <2>4, <2>5, <2>6, <2>7, <2>8, <2>9 DEF Step, Outside
<1>2. ASSUME NEW a \in Alerts, Publish(a)
      PROVE  Goal
  <2>1. PICK u \in Copies : OnlyMessage(u, Queued(a, 0))
    BY <1>2, PublishStep
  <2>2. 0 \in 0..MaxRetries
    BY BoundsAssumption
  <2>. QED  BY <2>1, <2>2, MessageShapes, RewrittenTyped
<1>3. ASSUME Quiescent \/ UNCHANGED vars
      PROVE  Goal
  BY <1>3 DEF Quiescent, vars, TypeInv, TypeOK, Occupied
<1>4. Goal
  BY <1>1, <1>2, <1>3 DEF Next
<1>. QED  BY <1>4, RecordsTyped DEF TypeInv, TypeOK
-----------------------------------------------------------------------------
\* What has been received, failed or given up on record is never taken back.
LEMMA RecordGrows ==
  ASSUME TypeInv, Next \/ UNCHANGED vars
  PROVE  /\ \A a \in Alerts, s \in SinkNames : received'[a][s] >= received[a][s]
         /\ \A a \in Alerts : failedRuns'[a] >= failedRuns[a]
         /\ deadLetters \subseteq deadLetters' /\ unrecorded \subseteq unrecorded'
<1>1. received \in [Alerts -> [SinkNames -> Nat]] /\ failedRuns \in [Alerts -> Nat]
  BY DEF TypeInv, TypeOK
<1>2. /\ \A a \in Alerts, s \in SinkNames : received[a][s] >= received[a][s]
      /\ \A a \in Alerts : failedRuns[a] >= failedRuns[a]
  BY <1>1
<1> DEFINE OneSend ==
             \/ UNCHANGED received
             \/ \E b \in Alerts, r \in SinkNames : received' = [received EXCEPT ![b][r] = @ + 1]
           OneFailure ==
             \/ UNCHANGED failedRuns
             \/ \E b \in Alerts : failedRuns' = [failedRuns EXCEPT ![b] = @ + 1]
<1>3. OneSend
  <2>1. ASSUME NEW t \in Copies, NEW s \in SinkNames, SendOk(t, s) \/ SendLate(t, s)
        PROVE  /\ msg[t].alert \in Alerts
               /\ received' = [received EXCEPT ![msg[t].alert][s] = @ + 1]
    BY <2>1, AlertInHand DEF SendOk, SendLate
  <2>2. ASSUME NEW t \in Copies, Step(t) \/ Outside(t),
               ~ \E s \in SinkNames : SendOk(t, s) \/ SendLate(t, s)
        PROVE  UNCHANGED received
    BY <2>2 DEF Step, Outside, Take, SendFails, RouteReturns, Retry, GiveUp, Audit, Persist,
                Ack, WorkerLost
  <2>3. ASSUME NEW t \in Copies, Step(t) \/ Outside(t)
        PROVE  OneSend
    BY <2>1, <2>2, <2>3, ZenonT(60)
  <2>. QED  BY <2>3 DEF Next, Publish, Quiescent, vars
<1>4. OneFailure
  <2>1. ASSUME NEW t \in Copies, Retry(t) \/ GiveUp(t)
        PROVE  /\ msg[t].alert \in Alerts
               /\ failedRuns' = [failedRuns EXCEPT ![msg[t].alert] = @ + 1]
    BY <2>1, AlertInHand DEF Retry, GiveUp, AllSinksFailed
  <2>2. ASSUME NEW t \in Copies, Step(t) \/ Outside(t), ~(Retry(t) \/ GiveUp(t))
        PROVE  UNCHANGED failedRuns
    BY <2>2 DEF Step, Outside, Take, SendOk, SendFails, SendLate, RouteReturns, Audit, Persist,
                Ack, WorkerLost
  <2>3. ASSUME NEW t \in Copies, Step(t) \/ Outside(t)
        PROVE  OneFailure
    BY <2>1, <2>2, <2>3
  <2>. QED  BY <2>3 DEF Next, Publish, Quiescent, vars
<1>5. deadLetters \subseteq deadLetters' /\ unrecorded \subseteq unrecorded'
  <2>1. ASSUME NEW t \in Copies, Step(t) \/ Outside(t)
        PROVE  UNCHANGED letters \/ GiveUp(t)
    BY <2>1 DEF Step, Outside, Take, SendOk, SendFails, SendLate, RouteReturns, Retry, Audit,
                Persist, Ack, WorkerLost
  <2>2. UNCHANGED letters \/ \E t \in Copies : GiveUp(t)
    BY <2>1 DEF Next, Publish, Quiescent, vars
  <2>. QED  BY <2>2 DEF letters, GiveUp
<1>6. \A a \in Alerts, s \in SinkNames : received'[a][s] >= received[a][s]
  BY <1>1, <1>2, <1>3
<1>7. \A a \in Alerts : failedRuns'[a] >= failedRuns[a]
  BY <1>1, <1>2, <1>4
<1>. QED  BY <1>5, <1>6, <1>7

\* The successes of a run stay received as long as its message keeps them.
LEMMA RoutedStaysReceived ==
  ASSUME TypeInv, RoutedReceived, Next \/ UNCHANGED vars, NEW u \in Copies
  PROVE  \A s \in msg[u].routed : received'[msg[u].alert][s] > 0
<1>1. SUFFICES ASSUME NEW s \in msg[u].routed
      PROVE  received'[msg[u].alert][s] > 0
  OBVIOUS
<1>2. msg[u].st # "free"
  BY DEF TypeInv, Occupied, Free
<1>3. msg[u].alert \in Alerts /\ s \in SinkNames
  BY <1>2, AlertInHand DEF TypeInv, TypeOK, Message
<1>4. received'[msg[u].alert][s] >= received[msg[u].alert][s]
  BY <1>3, RecordGrows
<1>5. received[msg[u].alert][s] > 0
  BY DEF RoutedReceived
<1>6. received[msg[u].alert][s] \in Nat /\ received'[msg[u].alert][s] \in Nat
  BY <1>3, TypeStep DEF TypeInv, TypeOK
<1>. QED  BY <1>4, <1>5, <1>6

\* A notified sink is entered in the run's list only by the send that notified it, and
\* a run that leaves the router otherwise than by raising has such a sink.
LEMMA RoutedStep ==
  ASSUME TypeInv, RoutedReceived, Next \/ UNCHANGED vars
  PROVE  RoutedReceived'
<1> DEFINE True(u) == /\ \A s \in msg'[u].routed : received'[msg'[u].alert][s] > 0
                      /\ msg'[u].st \in {"audit", "persist"} => msg'[u].routed # {}
<1>1. SUFFICES ASSUME NEW u \in Copies
      PROVE  True(u)
  BY DEF RoutedReceived
<1>2. /\ \A s \in msg[u].routed : received'[msg[u].alert][s] > 0
      /\ msg[u].st \in {"audit", "persist"} => msg[u].routed # {}
  BY RoutedStaysReceived DEF RoutedReceived
<1>3. CASE msg'[u] = msg[u]
  BY <1>2, <1>3
<1>4. ASSUME msg'[u].routed = {}, msg'[u].st \notin {"audit", "persist"}
      PROVE  True(u)
  BY <1>4
<1>5. Free.routed = {} /\ Free.st = "free"
  BY DEF Free
<1>6. ASSUME NEW a, NEW n
      PROVE  Queued(a, n).routed = {} /\ Queued(a, n).st = "queued"
  BY DEF Queued
<1>7. ASSUME Step(u) \/ Outside(u)
      PROVE  True(u)
  <2>1. CASE Take(u) \/ GiveUp(u)
    BY <1>2, <2>1, RunSteps DEF Moved
  <2>2. ASSUME NEW s \in SinkNames, SendOk(u, s)
        PROVE  True(u)
    <3>1. msg[u].alert \in Alerts
      BY <2>2, AlertInHand DEF SendOk
    <3>2. received'[msg[u].alert][s] > 0
      BY <2>2, <3>1 DEF SendOk, TypeInv, TypeOK
    <3>. QED  BY <1>2, <2>2, <3>2, RunSteps DEF Moved
  <2>3. ASSUME NEW s \in SinkNames, SendFails(u, s) \/ SendLate(u, s)
        PROVE  True(u)
    BY <1>2, <2>3, RunSteps DEF Moved
  <2>4. CASE RouteReturns(u)
    <3>1. msg[u].routed # {}
      BY <2>4 DEF RouteReturns, AllSinksFailed
    <3>. QED  BY <1>2, <2>4, <3>1, RunSteps DEF Moved
  <2>5. CASE Audit(u) \/ Persist(u)
    BY <1>2, <2>5, RunSteps DEF Moved, Audit, Persist
  <2>6. CASE Retry(u)
    <3>1. PICK v \in Copies : Succeeded(u, v)
      BY <2>6, RetryStep
    <3>2. msg[u].routed = {}
      BY <2>6, RetryStep
    <3>. QED  BY <1>4, <3>1, <3>2 DEF Succeeded
  <2>7. CASE Ack(u)
    BY <1>4, <1>5, <2>7, QueueSteps DEF OnlyMessage
  <2>8. CASE WorkerLost(u)
    <3>1. msg'[u] = Queued(msg[u].alert, msg[u].retries)
      BY <2>8, QueueSteps DEF OnlyMessage
    <3>. QED  BY <1>4, <1>6, <3>1
  <2> HIDE DEF True
  <2>. QED  BY <1>7, <2>1, <2>2, <2>3, <2>4, <2>5, <2>6, <2>7, <2>8 DEF Step, Outside
<1>8. ASSUME NEW t \in Copies, t # u, Step(t) \/ Outside(t)
      PROVE  True(u)
  <2>1. CASE Retry(t)
    <3>1. PICK v \in Copies : Succeeded(t, v)
      BY <2>1, RetryStep
    <3>2. CASE u = v
      <4>1. msg'[u] = Queued(msg[t].alert, msg[t].retries + 1)
        BY <3>1, <3>2 DEF Succeeded
      <4>. QED  BY <1>4, <1>6, <4>1
    <3>3. CASE u # v
      BY <1>3, <1>8, <3>1, <3>3 DEF Succeeded
    <3>. QED  BY <3>2, <3>3
  <2>2. CASE ~Retry(t)
    <3>1. msg'[u] = msg[u]
      BY <1>8, <2>2, OthersKept
    <3>. QED  BY <1>3, <3>1
  <2>. QED  BY <2>1, <2>2
<1>9. ASSUME NEW a \in Alerts, Publish(a)
      PROVE  True(u)
  <2>1. PICK v \in Copies : OnlyMessage(v, Queued(a, 0))
    BY <1>9, PublishStep
  <2>2. msg'[u] = Queued(a, 0) \/ msg'[u] = msg[u]
    BY <2>1 DEF OnlyMessage
  <2>. QED  BY <1>3, <1>4, <1>6, <2>2
<1>10. ASSUME Quiescent \/ UNCHANGED vars
       PROVE  True(u)
  BY <1>3, <1>10 DEF Quiescent, vars
<1> HIDE DEF True
<1>. QED  BY <1>7, <1>8, <1>9, <1>10 DEF Next

\* The audit trail and the alerts table are given the successes of a run and nothing else.
LEMMA NamedSinks ==
  ASSUME TypeInv, Next \/ UNCHANGED vars, NEW a \in Alerts,
         NEW s \in recorded'[a] \union audited'[a]
  PROVE  \/ s \in recorded[a] \union audited[a]
         \/ \E t \in Copies : msg[t].alert = a /\ s \in msg[t].routed
<1> DEFINE Known == \/ s \in recorded[a] \union audited[a]
                    \/ \E t \in Copies : msg[t].alert = a /\ s \in msg[t].routed
<1>. SUFFICES Known
  OBVIOUS
<1>1. /\ recorded \in [Alerts -> SUBSET SinkNames]
      /\ audited \in [Alerts -> SUBSET SinkNames]
  BY DEF TypeInv, TypeOK
<1>2. CASE UNCHANGED <<recorded, audited>>
  BY <1>2
<1>3. ASSUME NEW t \in Copies, Audit(t) \/ Persist(t)
      PROVE  Known
  <2> DEFINE Noted(f) == [f EXCEPT ![msg[t].alert] = @ \union msg[t].routed]
  <2>1. /\ recorded' = recorded \/ recorded' = Noted(recorded)
        /\ audited' = audited \/ audited' = Noted(audited)
    BY <1>3 DEF Audit, Persist
  <2>2. \A f \in [Alerts -> SUBSET SinkNames] :
          Noted(f)[a] \subseteq f[a] \union (IF msg[t].alert = a THEN msg[t].routed ELSE {})
    OBVIOUS
  <2> HIDE DEF Noted
  <2>3. /\ recorded'[a] \subseteq recorded[a] \union
                                    (IF msg[t].alert = a THEN msg[t].routed ELSE {})
        /\ audited'[a] \subseteq audited[a] \union
                                    (IF msg[t].alert = a THEN msg[t].routed ELSE {})
    BY <1>1, <2>1, <2>2
  <2>. QED  BY <2>3
<1>4. ASSUME NEW t \in Copies, Step(t) \/ Outside(t), ~(Audit(t) \/ Persist(t))
      PROVE  UNCHANGED <<recorded, audited>>
  BY <1>4 DEF Step, Outside, Take, SendOk, SendFails, SendLate, RouteReturns, Retry, GiveUp,
              Ack, WorkerLost, tables
<1>5. ASSUME NEW t \in Copies, Step(t) \/ Outside(t)
      PROVE  Known
  BY <1>2, <1>3, <1>4, <1>5
<1> HIDE DEF Known
<1>6. CASE \E b \in Alerts : Publish(b)
  BY <1>2, <1>6 DEF Publish, tables
<1>7. CASE Quiescent \/ UNCHANGED vars
  BY <1>2, <1>7 DEF Quiescent, vars, tables
<1>. QED  BY <1>5, <1>6, <1>7 DEF Next

\* The history stays true: what it names was received, and stays so.
LEMMA HistoryStep ==
  ASSUME TypeInv, HistoryInv, Next \/ UNCHANGED vars
  PROVE  HistoryInv'
<1>1. RoutedReceived'
  BY RoutedStep DEF HistoryInv
<1>2. ASSUME NEW a \in Alerts, NEW s \in recorded'[a] \union audited'[a]
      PROVE  received'[a][s] > 0
  <2>1. CASE s \in recorded[a] \union audited[a]
    <3>1. s \in SinkNames
      BY <2>1 DEF TypeInv, TypeOK
    <3>2. received[a][s] > 0
      BY <2>1 DEF HistoryInv, HistoryTruthful
    <3>3. received'[a][s] >= received[a][s]
      BY <3>1, RecordGrows
    <3>4. received[a][s] \in Nat /\ received'[a][s] \in Nat
      BY <3>1, TypeStep DEF TypeInv, TypeOK
    <3>. QED  BY <3>2, <3>3, <3>4
  <2>2. ASSUME NEW t \in Copies, msg[t].alert = a, s \in msg[t].routed
        PROVE  received'[a][s] > 0
    BY <2>2, RoutedStaysReceived DEF HistoryInv
  <2>. QED  BY <1>2, <2>1, <2>2, NamedSinks
<1>. QED  BY <1>1, <1>2 DEF HistoryInv, HistoryTruthful
-----------------------------------------------------------------------------
\* A retry carries one more than its run, whose failure is counted; an alert is given up
\* after the last of them.
LEMMA RetriesPaidStep ==
  ASSUME TypeInv, RetriesPaid, Next \/ UNCHANGED vars
  PROVE  RetriesPaid'
<1>1. failedRuns \in [Alerts -> Nat] /\ failedRuns' \in [Alerts -> Nat]
  BY TypeStep DEF TypeInv, TypeOK
<1>2. \A a \in Alerts : failedRuns'[a] >= failedRuns[a]
  BY RecordGrows
<1>3. \A u \in Copies : msg[u] \in Message /\ msg[u].retries \in Nat
  BY BoundsAssumption DEF TypeInv, TypeOK, Message
<1> DEFINE Paid(u) == msg'[u].st # "free" => failedRuns'[msg'[u].alert] >= msg'[u].retries
<1>4. ASSUME NEW u \in Copies, NEW v \in Copies, msg[v].st # "free",
             msg'[u].alert = msg[v].alert, msg'[u].retries = msg[v].retries
      PROVE  Paid(u)
  <2>1. msg[v].alert \in Alerts
    BY <1>4, AlertInHand
  <2>2. failedRuns[msg[v].alert] >= msg[v].retries
    BY <1>4 DEF RetriesPaid
  <2>. QED  BY <1>1, <1>2, <1>3, <1>4, <2>1, <2>2
<1>5. ASSUME NEW u \in Copies, msg'[u] = msg[u]
      PROVE  Paid(u)
  BY <1>4, <1>5
<1>6. ASSUME NEW t \in Copies, Retry(t) \/ GiveUp(t)
      PROVE  /\ msg[t].alert \in Alerts
             /\ failedRuns'[msg[t].alert] >= msg[t].retries + 1
  <2>1. msg[t].st # "free"
    BY <1>6 DEF Retry, GiveUp, AllSinksFailed
  <2>2. msg[t].alert \in Alerts /\ failedRuns[msg[t].alert] >= msg[t].retries
    BY <2>1, AlertInHand DEF RetriesPaid
  <2>3. failedRuns'[msg[t].alert] = failedRuns[msg[t].alert] + 1
    BY <1>1, <1>6, <2>2 DEF Retry, GiveUp
  <2>. QED  BY <1>1, <1>3, <2>2, <2>3
<1>7. ASSUME NEW t \in Copies, Step(t) \/ Outside(t), ~Retry(t)
      PROVE  Paid(t)
  <2>1. CASE Ack(t)
    BY <2>1, QueueSteps DEF OnlyMessage, Free
  <2>2. CASE WorkerLost(t)
    BY <1>4, <2>2, QueueSteps DEF OnlyMessage, Queued, WorkerLost
  <2>3. CASE Take(t) \/ RouteReturns(t) \/ GiveUp(t) \/ Persist(t) \/ Audit(t)
    BY <1>4, <2>3, RunSteps
       DEF Moved, Take, RouteReturns, GiveUp, AllSinksFailed, Persist, Audit
  <2>4. ASSUME NEW s \in SinkNames, SendOk(t, s) \/ SendFails(t, s) \/ SendLate(t, s)
        PROVE  Paid(t)
    BY <1>4, <2>4, RunSteps DEF Moved, SendOk, SendFails, SendLate
  <2> HIDE DEF Paid
  <2>. QED  BY <1>7, <2>1, <2>2, <2>3, <2>4 DEF Step, Outside
<1>8. ASSUME NEW t \in Copies, Retry(t), NEW u \in Copies
      PROVE  Paid(u)
  <2>1. PICK v \in Copies : Succeeded(t, v)
    BY <1>8, RetryStep
  <2>2. CASE u = v
    <3>1. msg'[u].alert = msg[t].alert /\ msg'[u].retries = msg[t].retries + 1
      BY <2>1, <2>2 DEF Succeeded, Queued
    <3>. QED  BY <1>6, <1>8, <3>1
  <2>3. CASE u = t
    <3>1. msg[t].st # "free"
      BY <1>8, RetryStep
    <3>. QED  BY <1>4, <2>1, <2>3, <3>1 DEF Succeeded
  <2>4. CASE u \notin {t, v}
    BY <1>5, <2>1, <2>4 DEF Succeeded
  <2>. QED  BY <2>2, <2>3, <2>4
<1>9. ASSUME NEW a \in Alerts, Publish(a), NEW u \in Copies
      PROVE  Paid(u)
  <2>1. PICK v \in Copies : OnlyMessage(v, Queued(a, 0))
    BY <1>9, PublishStep
  <2>2. CASE u = v
    BY <1>1, <2>1, <2>2 DEF OnlyMessage, Queued
  <2>3. CASE u # v
    BY <1>5, <2>1, <2>3 DEF OnlyMessage
  <2>. QED  BY <2>2, <2>3
<1>10. ASSUME Quiescent \/ UNCHANGED vars, NEW u \in Copies
       PROVE  Paid(u)
  BY <1>5, <1>10 DEF Quiescent, vars
<1>11. ASSUME NEW u \in Copies
       PROVE  Paid(u)
  <2> HIDE DEF Paid
  <2>1. ASSUME NEW t \in Copies, Step(t) \/ Outside(t), ~Retry(t)
        PROVE  Paid(u)
    BY <1>5, <1>7, <2>1, OthersKept
  <2>. QED  BY <1>8, <1>9, <1>10, <2>1 DEF Next
<1>12. ASSUME NEW a \in deadLetters' \union unrecorded'
       PROVE  failedRuns'[a] >= MaxRetries + 1
  <2>1. CASE a \in deadLetters \union unrecorded
    <3>1. a \in Alerts
      BY <2>1 DEF TypeInv, TypeOK
    <3>. QED  BY <1>1, <1>2, <2>1, <3>1, BoundsAssumption DEF RetriesPaid
  <2>2. CASE a \notin deadLetters \union unrecorded
    <3>1. ASSUME NEW t \in Copies, Step(t) \/ Outside(t)
          PROVE  UNCHANGED letters \/ GiveUp(t)
      BY <3>1 DEF Step, Outside, Take, SendOk, SendFails, SendLate, RouteReturns, Retry, Audit,
                  Persist, Ack, WorkerLost
    <3>2. UNCHANGED letters \/ \E t \in Copies : GiveUp(t)
      BY <3>1 DEF Next, Publish, Quiescent, vars
    <3>3. PICK t \in Copies : GiveUp(t)
      BY <1>12, <2>2, <3>2 DEF letters
    <3>4. a = msg[t].alert /\ msg[t].retries = MaxRetries
      BY <1>12, <2>2, <3>3 DEF GiveUp
    <3>. QED  BY <1>6, <3>3, <3>4
  <2>. QED  BY <2>1, <2>2
<1>. QED  BY <1>11, <1>12 DEF RetriesPaid

\* An alert that somebody received, or that is given up on record, stays so.
LEMMA AnsweredStays ==
  ASSUME TypeInv, Next \/ UNCHANGED vars, NEW a \in Alerts, Answered(a)
  PROVE  Answered(a)'
<1>1. CASE a \in deadLetters \union unrecorded
  BY <1>1, RecordGrows DEF Answered
<1>2. ASSUME NEW s \in SinkNames, received[a][s] > 0
      PROVE  received'[a][s] > 0
  <2>1. received[a][s] \in Nat /\ received'[a][s] \in Nat
    BY TypeStep DEF TypeInv, TypeOK
  <2>. QED  BY <1>2, <2>1, RecordGrows
<1>. QED  BY <1>1, <1>2 DEF Answered

\* A message that will still be routed stays so, unless its run notifies a sink, is
\* succeeded by a retry or gives the alert up on record.
LEMMA HopefulStays ==
  ASSUME TypeInv, RoutedReceived, Next \/ UNCHANGED vars,
         NEW a \in Alerts, NEW t \in Copies,
         msg[t].alert = a, msg[t].st \in {"queued", "routing"}
  PROVE  Answered(a)' \/ Hopeful(a)'
<1> DEFINE Kept == Answered(a)' \/ Hopeful(a)'
<1>. SUFFICES Kept
  OBVIOUS
<1>1. ASSUME NEW u \in Copies, msg'[u].alert = a, msg'[u].st \in {"queued", "routing"}
      PROVE  Kept
  BY <1>1 DEF Hopeful
<1>2. ASSUME msg'[t] = msg[t]
      PROVE  Kept
  BY <1>1, <1>2
<1>3. ASSUME Step(t) \/ Outside(t), ~Retry(t)
      PROVE  Kept
  <2>1. CASE Take(t)
    BY <1>1, <2>1, RunSteps DEF Moved
  <2>2. ASSUME NEW s \in SinkNames, SendOk(t, s) \/ SendFails(t, s) \/ SendLate(t, s)
        PROVE  Kept
    BY <1>1, <2>2, RunSteps DEF Moved
  <2>3. CASE RouteReturns(t)
    <3>1. msg[t].routed # {} /\ msg[t].routed \subseteq SinkNames
      BY <2>3 DEF RouteReturns, AllSinksFailed, TypeInv, TypeOK, Message
    <3>2. PICK s \in SinkNames : s \in msg[t].routed
      BY <3>1
    <3>3. received'[a][s] > 0
      BY <3>2, RoutedStaysReceived
    <3>. QED  BY <3>3 DEF Answered
  <2>4. CASE GiveUp(t)
    BY <2>4 DEF GiveUp, Answered
  <2>5. CASE WorkerLost(t)
    <3>1. msg'[t] = Queued(a, msg[t].retries)
      BY <2>5, QueueSteps DEF OnlyMessage
    <3>2. msg'[t].alert = a /\ msg'[t].st = "queued"
      BY <3>1 DEF Queued
    <3>. QED  BY <1>1, <3>2
  <2>6. ~(Audit(t) \/ Persist(t) \/ Ack(t))
    BY DEF Audit, Persist, Ack
  <2> HIDE DEF Kept
  <2>. QED  BY <1>3, <2>1, <2>2, <2>3, <2>4, <2>5, <2>6 DEF Step, Outside
<1>4. ASSUME NEW u \in Copies, Retry(u)
      PROVE  Kept
  <2>1. PICK v \in Copies : Succeeded(u, v)
    BY <1>4, RetryStep
  <2>2. CASE u = t
    <3>1. msg'[v].alert = a /\ msg'[v].st = "queued"
      BY <2>1, <2>2 DEF Succeeded, Queued
    <3>. QED  BY <1>1, <3>1
  <2>3. CASE u # t
    <3>1. v # t
      BY <2>1 DEF Succeeded, Free
    <3>. QED  BY <1>2, <2>1, <2>3, <3>1 DEF Succeeded
  <2>. QED  BY <2>2, <2>3
<1>5. ASSUME NEW u \in Copies, u # t, Step(u) \/ Outside(u), ~Retry(u)
      PROVE  Kept
  BY <1>2, <1>5, OthersKept
<1>6. ASSUME NEW b \in Alerts, Publish(b)
      PROVE  Kept
  <2>1. PICK v \in Copies : msg[v] = Free /\ OnlyMessage(v, Queued(b, 0))
    BY <1>6, PublishStep
  <2>2. v # t
    BY <2>1 DEF Free
  <2>. QED  BY <1>2, <2>1, <2>2 DEF OnlyMessage
<1>7. ASSUME Quiescent \/ UNCHANGED vars
      PROVE  Kept
  BY <1>2, <1>7 DEF Quiescent, vars
<1> HIDE DEF Kept
<1>. QED  BY <1>3, <1>4, <1>5, <1>6, <1>7 DEF Next

\* A published alert is answered or still carried.
LEMMA StillCarriedStep ==
  ASSUME TypeInv, StillCarried, RoutedReceived, Next \/ UNCHANGED vars
  PROVE  StillCarried'
<1>1. SUFFICES ASSUME NEW a \in published'
      PROVE  Answered(a)' \/ Hopeful(a)'
  BY DEF StillCarried
<1>2. CASE a \in published
  <2>1. a \in Alerts
    BY <1>2 DEF TypeInv, TypeOK
  <2>2. CASE Answered(a)
    BY <2>1, <2>2, AnsweredStays
  <2>3. CASE Hopeful(a)
    BY <2>1, <2>3, HopefulStays DEF Hopeful
  <2>. QED  BY <1>2, <2>2, <2>3 DEF StillCarried
<1>3. CASE a \notin published
  <2>1. ASSUME NEW t \in Copies, Step(t) \/ Outside(t)
        PROVE  UNCHANGED published
    BY <2>1 DEF Step, Outside, Take, SendOk, SendFails, SendLate, RouteReturns, Retry, GiveUp,
                Audit, Persist, Ack, WorkerLost
  <2>2. PICK b \in Alerts : Publish(b)
    BY <1>3, <2>1 DEF Next, Quiescent, vars
  <2>3. a = b
    BY <1>3, <2>2 DEF Publish
  <2>4. PICK v \in Copies : OnlyMessage(v, Queued(a, 0))
    BY <2>2, <2>3, PublishStep
  <2>5. msg'[v].alert = a /\ msg'[v].st = "queued"
    BY <2>4 DEF OnlyMessage, Queued
  <2>. QED  BY <2>5 DEF Hopeful
<1>. QED  BY <1>2, <1>3
-----------------------------------------------------------------------------
\* How the number of messages of a kind follows from which messages enter or leave it.
LEMMA MessagesCounted ==
  ASSUME NEW S \in SUBSET Copies, NEW T \in SUBSET Copies
  PROVE  /\ Cardinality(S) \in Nat /\ Cardinality(T) \in Nat
         /\ T \subseteq S => Cardinality(T) <= Cardinality(S)
         /\ \A t \in Copies :
              /\ T \subseteq S \union {t} => Cardinality(T) <= Cardinality(S) + 1
              /\ t \in S /\ T \subseteq S \ {t} => Cardinality(T) <= Cardinality(S) - 1
              /\ \A u \in Copies :
                   t \in S /\ T \subseteq (S \ {t}) \union {u} => Cardinality(T) <= Cardinality(S)
<1>1. \A R \in SUBSET Copies : IsFiniteSet(R) /\ Cardinality(R) \in Nat
  BY BoundsAssumption, FS_Subset, FS_CardinalityType
<1>2. \A Q, R \in SUBSET Copies : Q \subseteq R => Cardinality(Q) <= Cardinality(R)
  BY <1>1, FS_Subset
<1>3. \A R \in SUBSET Copies, t \in Copies :
        /\ Cardinality(R \union {t}) <= Cardinality(R) + 1
        /\ t \in R => Cardinality(R \ {t}) = Cardinality(R) - 1
  <2>1. SUFFICES ASSUME NEW R \in SUBSET Copies, NEW t \in Copies
        PROVE  /\ Cardinality(R \union {t}) <= Cardinality(R) + 1
               /\ t \in R => Cardinality(R \ {t}) = Cardinality(R) - 1
    OBVIOUS
  <2>2. IsFiniteSet(R) /\ Cardinality(R) \in Nat
    BY <1>1
  <2>3. Cardinality(R \union {t}) = IF t \in R THEN Cardinality(R) ELSE Cardinality(R) + 1
    BY <2>2, FS_AddElement
  <2>4. t \in R => Cardinality(R \ {t}) = Cardinality(R) - 1
    BY <2>2, FS_RemoveElement
  <2>. QED  BY <2>2, <2>3, <2>4
<1>4. ASSUME NEW t \in Copies, T \subseteq S \union {t}
      PROVE  Cardinality(T) <= Cardinality(S) + 1
  <2>1. S \union {t} \in SUBSET Copies
    OBVIOUS
  <2>2. Cardinality(T) <= Cardinality(S \union {t})
    BY <1>2, <1>4, <2>1
  <2>3. Cardinality(S \union {t}) <= Cardinality(S) + 1
    BY <1>3
  <2>. QED  BY <1>1, <2>1, <2>2, <2>3
<1>5. ASSUME NEW t \in Copies, t \in S, T \subseteq S \ {t}
      PROVE  Cardinality(T) <= Cardinality(S) - 1
  <2>1. S \ {t} \in SUBSET Copies
    OBVIOUS
  <2>2. Cardinality(T) <= Cardinality(S \ {t})
    BY <1>2, <1>5, <2>1
  <2>. QED  BY <1>1, <1>3, <1>5, <2>1, <2>2
<1>6. ASSUME NEW t \in Copies, NEW u \in Copies, t \in S, T \subseteq (S \ {t}) \union {u}
      PROVE  Cardinality(T) <= Cardinality(S)
  <2>1. S \ {t} \in SUBSET Copies /\ (S \ {t}) \union {u} \in SUBSET Copies
    OBVIOUS
  <2>2. Cardinality(T) <= Cardinality((S \ {t}) \union {u})
    BY <1>2, <1>6, <2>1
  <2>3. Cardinality((S \ {t}) \union {u}) <= Cardinality(S \ {t}) + 1
    BY <1>3, <2>1
  <2>4. Cardinality(S \ {t}) = Cardinality(S) - 1
    BY <1>3, <1>6
  <2>. QED  BY <1>1, <2>1, <2>2, <2>3, <2>4
<1>. QED  BY <1>1, <1>2, <1>4, <1>5, <1>6

\* What may be sent is never taken back: publications, lost workers and late answers
\* only grow.
LEMMA BudgetGrows ==
  ASSUME TypeInv, Next \/ UNCHANGED vars, NEW a \in Alerts
  PROVE  /\ Issued(a) \in Nat /\ Issued(a)' \in Nat /\ Issued(a)' >= Issued(a)
         /\ losses'[a] >= losses[a] /\ late'[a] >= late[a]
<1>1. losses \in [Alerts -> Nat] /\ late \in [Alerts -> Nat]
  BY DEF TypeInv, TypeOK
<1>2. ASSUME NEW t \in Copies, Step(t) \/ Outside(t)
      PROVE  /\ UNCHANGED published
             /\ UNCHANGED losses \/ losses' = [losses EXCEPT ![msg[t].alert] = @ + 1]
             /\ UNCHANGED late \/ late' = [late EXCEPT ![msg[t].alert] = @ + 1]
  BY <1>2 DEF Step, Outside, Take, SendOk, SendFails, SendLate, RouteReturns, Retry, GiveUp,
              Audit, Persist, Ack, WorkerLost
<1>3. /\ published \subseteq published'
      /\ UNCHANGED losses \/ \E b : losses' = [losses EXCEPT ![b] = @ + 1]
      /\ UNCHANGED late \/ \E b : late' = [late EXCEPT ![b] = @ + 1]
  BY <1>2 DEF Next, Publish, Quiescent, vars
<1>. QED  BY <1>1, <1>3 DEF Issued

\* Only the messages of a that moved can have entered or left its carriers and writers.
LEMMA OthersCounted ==
  ASSUME NEW a, NEW s, NEW t \in Copies, \A u \in Copies \ {t} : msg'[u] = msg[u]
  PROVE  /\ Carriers(a, s) \in SUBSET Copies /\ Carriers(a, s)' \in SUBSET Copies
         /\ Writers(a) \in SUBSET Copies /\ Writers(a)' \in SUBSET Copies
         /\ Carriers(a, s)' \subseteq Carriers(a, s) \union {t}
         /\ Writers(a)' \subseteq Writers(a) \union {t}
         /\ t \notin Carriers(a, s)' => Carriers(a, s)' \subseteq Carriers(a, s) \ {t}
         /\ t \notin Writers(a)' => Writers(a)' \subseteq Writers(a) \ {t}
<1>1. /\ Carriers(a, s) = {u \in Copies : msg[u].alert = a /\ MayDeliver(msg[u], s)}
      /\ Carriers(a, s)' = {u \in Copies : msg'[u].alert = a /\ MayDeliver(msg'[u], s)}
  BY DEF Carriers
<1>2. /\ Writers(a) = {u \in Copies : /\ msg[u].alert = a
                                      /\ msg[u].st \in {"queued", "routing", "audit", "persist"}}
      /\ Writers(a)' = {u \in Copies : /\ msg'[u].alert = a
                                       /\ msg'[u].st \in {"queued", "routing", "audit", "persist"}}
  BY DEF Writers
<1>. QED  BY <1>1, <1>2

\* Only a send that reaches sink s with alert a adds to what s received of it.
LEMMA SendEffect ==
  ASSUME TypeInv, NEW a \in Alerts, NEW s \in SinkNames,
         NEW t \in Copies, NEW r \in SinkNames, SendOk(t, r) \/ SendLate(t, r)
  PROVE  received'[a][s] = IF msg[t].alert = a /\ r = s THEN received[a][s] + 1
                                                         ELSE received[a][s]
<1>1. received \in [Alerts -> [SinkNames -> Nat]]
  BY DEF TypeInv, TypeOK
<1>2. msg[t].alert \in Alerts
  BY AlertInHand DEF SendOk, SendLate
<1>3. received' = [received EXCEPT ![msg[t].alert][r] = @ + 1]
  BY DEF SendOk, SendLate
<1>. QED  BY <1>1, <1>2, <1>3

\* Every notification of a sink is paid for by the publication, a lost worker or a late
\* answer: a successful send uses up its message, a run that failed everywhere hands its
\* message on to the retry, and the rest changes nothing.
LEMMA SendsPaidStep ==
  ASSUME TypeInv, SendsPaid, Next \/ UNCHANGED vars
  PROVE  SendsPaid'
<1>. SUFFICES ASSUME NEW a \in Alerts, NEW s \in SinkNames
     PROVE  received'[a][s] + Cardinality(Carriers(a, s)')
              <= Issued(a)' + losses'[a] + late'[a]
  BY DEF SendsPaid
<1> DEFINE C == Carriers(a, s)
           D == Carriers(a, s)'
           Paid == received'[a][s] + Cardinality(D) <= Issued(a)' + losses'[a] + late'[a]
<1>1. /\ received[a][s] \in Nat /\ losses[a] \in Nat /\ late[a] \in Nat
      /\ received'[a][s] \in Nat /\ losses'[a] \in Nat /\ late'[a] \in Nat
  BY TypeStep DEF TypeInv, TypeOK
<1>2. /\ Issued(a) \in Nat /\ Issued(a)' \in Nat /\ Issued(a)' >= Issued(a)
      /\ losses'[a] >= losses[a] /\ late'[a] >= late[a]
  BY BudgetGrows
<1>3. received[a][s] + Cardinality(C) <= Issued(a) + losses[a] + late[a]
  BY DEF SendsPaid
<1>4. C \in SUBSET Copies /\ D \in SUBSET Copies
  BY DEF Carriers
<1>5. /\ Cardinality(C) \in Nat /\ Cardinality(D) \in Nat
      /\ D \subseteq C => Cardinality(D) <= Cardinality(C)
      /\ \A t \in Copies :
           /\ D \subseteq C \union {t} => Cardinality(D) <= Cardinality(C) + 1
           /\ t \in C /\ D \subseteq C \ {t} => Cardinality(D) <= Cardinality(C) - 1
           /\ \A u \in Copies :
                t \in C /\ D \subseteq (C \ {t}) \union {u} => Cardinality(D) <= Cardinality(C)
  BY <1>4, MessagesCounted
<1> HIDE DEF C, D
<1>6. ASSUME received'[a][s] <= received[a][s], D \subseteq C
      PROVE  Paid
  BY <1>1, <1>2, <1>3, <1>5, <1>6
<1>7. ASSUME NEW t \in Copies, t \in C, D \subseteq C \ {t},
             received'[a][s] <= received[a][s] + 1
      PROVE  Paid
  BY <1>1, <1>2, <1>3, <1>5, <1>7
<1>8. ASSUME D \subseteq C, received'[a][s] <= received[a][s] + 1, late'[a] = late[a] + 1
      PROVE  Paid
  BY <1>1, <1>2, <1>3, <1>5, <1>8
<1>9. ASSUME NEW t \in Copies, D \subseteq C \union {t}, received'[a][s] <= received[a][s],
             losses'[a] = losses[a] + 1 \/ Issued(a)' = Issued(a) + 1
      PROVE  Paid
  BY <1>1, <1>2, <1>3, <1>5, <1>9
<1>10. ASSUME NEW t \in Copies, NEW u \in Copies, t \in C, D \subseteq (C \ {t}) \union {u},
              received'[a][s] <= received[a][s]
       PROVE  Paid
  BY <1>1, <1>2, <1>3, <1>5, <1>10
<1>11. \A t \in Copies : /\ t \in C <=> msg[t].alert = a /\ MayDeliver(msg[t], s)
                         /\ t \in D <=> msg'[t].alert = a /\ MayDeliver(msg'[t], s)
  BY DEF C, D, Carriers
<1>12. ASSUME NEW t \in Copies, \A u \in Copies \ {t} : msg'[u] = msg[u]
       PROVE  /\ D \subseteq C \union {t}
              /\ t \notin D => D \subseteq C \ {t}
              /\ (t \in D => t \in C) => D \subseteq C
  BY <1>12, OthersCounted DEF C, D
<1>13. UNCHANGED received => received'[a][s] <= received[a][s]
  BY <1>1
<1>14. ASSUME NEW t \in Copies, Step(t) \/ Outside(t), ~Retry(t)
       PROVE  Paid
  <2>1. /\ D \subseteq C \union {t}
        /\ t \notin D => D \subseteq C \ {t}
        /\ (t \in D => t \in C) => D \subseteq C
    BY <1>12, <1>14, OthersKept
  <2>2. CASE Take(t)
    <3>1. MayDeliver(msg[t], s) /\ msg'[t].alert = msg[t].alert /\ UNCHANGED received
      BY <2>2, RunSteps DEF Take, MayDeliver, Moved
    <3>. QED  BY <1>6, <1>11, <1>13, <2>1, <3>1
  <2>3. CASE RouteReturns(t) \/ GiveUp(t) \/ Audit(t) \/ Persist(t)
    <3>1. ~MayDeliver(msg'[t], s)
      BY <2>3, RunSteps DEF Moved, MayDeliver
    <3>2. UNCHANGED received
      BY <2>3 DEF RouteReturns, GiveUp, Audit, Persist
    <3>. QED  BY <1>6, <1>11, <1>13, <2>1, <3>1, <3>2
  <2>4. CASE Ack(t)
    <3>1. msg'[t] = Free /\ UNCHANGED received
      BY <2>4, QueueSteps DEF OnlyMessage, Ack
    <3>2. ~MayDeliver(msg'[t], s)
      BY <3>1 DEF Free, MayDeliver
    <3>. QED  BY <1>6, <1>11, <1>13, <2>1, <3>1, <3>2
  <2>5. CASE WorkerLost(t)
    <3>0. msg'[t] = Queued(msg[t].alert, msg[t].retries)
      BY <2>5, QueueSteps DEF OnlyMessage
    <3>1. msg'[t].alert = msg[t].alert
      BY <3>0 DEF Queued
    <3>2. UNCHANGED received /\ losses' = [losses EXCEPT ![msg[t].alert] = @ + 1]
      BY <2>5 DEF WorkerLost
    <3>3. CASE msg[t].alert = a
      <4>1. losses'[a] = losses[a] + 1
        BY <3>2, <3>3 DEF TypeInv, TypeOK
      <4>. QED  BY <1>9, <1>13, <2>1, <3>2, <4>1
    <3>4. CASE msg[t].alert # a
      BY <1>6, <1>11, <1>13, <2>1, <3>1, <3>2, <3>4
    <3>. QED  BY <3>3, <3>4
  <2>6. ASSUME NEW r \in SinkNames, SendFails(t, r) \/ SendLate(t, r)
        PROVE  Paid
    <3>1. /\ msg[t].st = "routing" /\ msg'[t].alert = msg[t].alert
          /\ msg'[t].todo = msg[t].todo \ {r} /\ msg'[t].routed = msg[t].routed
          /\ msg'[t].st = "routing"
      BY <2>6, RunSteps DEF Moved, SendFails, SendLate
    <3>2. D \subseteq C
      BY <1>11, <2>1, <3>1 DEF MayDeliver
    <3>3. CASE SendFails(t, r)
      BY <1>6, <1>13, <3>2, <3>3 DEF SendFails
    <3>4. CASE SendLate(t, r)
      <4>1. received'[a][s] = IF msg[t].alert = a /\ r = s THEN received[a][s] + 1
                                                            ELSE received[a][s]
        BY <3>4, SendEffect
      <4>2. CASE msg[t].alert = a /\ r = s
        <5>1. late'[a] = late[a] + 1
          BY <3>4, <4>2 DEF SendLate, TypeInv, TypeOK
        <5>. QED  BY <1>1, <1>8, <3>2, <4>1, <4>2, <5>1
      <4>3. CASE ~(msg[t].alert = a /\ r = s)
        BY <1>1, <1>6, <3>2, <4>1, <4>3
      <4>. QED  BY <4>2, <4>3
    <3>. QED  BY <2>6, <3>3, <3>4
  <2>7. ASSUME NEW r \in SinkNames, SendOk(t, r)
        PROVE  Paid
    <3>1. /\ msg[t].st = "routing" /\ msg'[t].alert = msg[t].alert
          /\ r \in msg[t].todo
          /\ msg'[t].todo = msg[t].todo \ {r} /\ msg'[t].routed = msg[t].routed \union {r}
          /\ msg'[t].st = "routing"
      BY <2>7, RunSteps DEF Moved, SendOk
    <3>2. received'[a][s] = IF msg[t].alert = a /\ r = s THEN received[a][s] + 1
                                                          ELSE received[a][s]
      BY <2>7, SendEffect
    <3>3. CASE msg[t].alert = a /\ r = s
      <4>1. t \in C /\ t \notin D
        BY <1>11, <3>1, <3>3 DEF MayDeliver
      <4>. QED  BY <1>1, <1>7, <2>1, <3>2, <3>3, <4>1
    <3>4. CASE ~(msg[t].alert = a /\ r = s)
      <4>1. D \subseteq C
        BY <1>11, <2>1, <3>1 DEF MayDeliver
      <4>. QED  BY <1>1, <1>6, <3>2, <3>4, <4>1
    <3>. QED  BY <3>3, <3>4
  <2> HIDE DEF Paid
  <2>. QED  BY <1>14, <2>2, <2>3, <2>4, <2>5, <2>6, <2>7 DEF Step, Outside
<1>15. ASSUME NEW t \in Copies, Retry(t)
       PROVE  Paid
  <2>1. PICK u \in Copies : Succeeded(t, u)
    BY <1>15, RetryStep
  <2>2. UNCHANGED received
    BY <1>15 DEF Retry
  <2>3. MayDeliver(msg[t], s)
    BY <1>15, RetryStep DEF MayDeliver
  <2>4. t \notin D
    BY <1>11, <2>1 DEF Succeeded, MayDeliver
  <2>5. msg'[u].alert = msg[t].alert
    BY <2>1 DEF Succeeded, Queued
  <2>6. \A v \in Copies \ {t, u} : v \in D => v \in C
    BY <1>11, <2>1 DEF Succeeded
  <2>7. D \subseteq (C \ {t}) \union {u}
    BY <1>4, <2>4, <2>6 DEF D
  <2>8. CASE msg[t].alert = a
    BY <1>10, <1>11, <1>13, <2>2, <2>3, <2>7, <2>8
  <2>9. CASE msg[t].alert # a
    <3>1. u \notin D
      BY <1>11, <2>5, <2>9
    <3>. QED  BY <1>6, <1>13, <2>2, <2>7, <3>1
  <2>. QED  BY <2>8, <2>9
<1>16. ASSUME NEW b \in Alerts, Publish(b)
       PROVE  Paid
  <2>1. PICK v \in Copies : OnlyMessage(v, Queued(b, 0))
    BY <1>16, PublishStep
  <2>2. \A u \in Copies \ {v} : msg'[u] = msg[u]
    BY <2>1 DEF OnlyMessage
  <2>3. msg'[v].alert = b /\ UNCHANGED received
    BY <1>16, <2>1 DEF OnlyMessage, Queued, Publish
  <2>4. CASE a = b
    <3>1. Issued(a)' = Issued(a) + 1
      BY <1>16, <2>4 DEF Publish, Issued
    <3>. QED  BY <1>9, <1>12, <1>13, <2>2, <2>3, <3>1
  <2>5. CASE a # b
    BY <1>6, <1>11, <1>12, <1>13, <2>2, <2>3, <2>5
  <2>. QED  BY <2>4, <2>5
<1>17. ASSUME Quiescent \/ UNCHANGED vars
       PROVE  Paid
  <2>1. UNCHANGED <<msg, received>>
    BY <1>17 DEF Quiescent, vars
  <2>2. D \subseteq C
    BY <1>4, <1>11, <2>1
  <2>. QED  BY <1>6, <1>13, <2>1, <2>2
<1>18. Paid
  <2> HIDE DEF Paid
  <2>. QED  BY <1>14, <1>15, <1>16, <1>17 DEF Next
<1>. QED  BY <1>18 DEF D

\* Every row of an alert's history is paid for by the publication or a lost worker: a run
\* inserts at most one, at its end, and hands its message on when it has none to insert.
LEMMA RowsPaidStep ==
  ASSUME TypeInv, RowsPaid, Next \/ UNCHANGED vars
  PROVE  RowsPaid'
<1>. SUFFICES ASSUME NEW a \in Alerts
     PROVE  alertRows'[a] + Cardinality(Writers(a)') <= Issued(a)' + losses'[a]
  BY DEF RowsPaid
<1> DEFINE C == Writers(a)
           D == Writers(a)'
           Writing == {"queued", "routing", "audit", "persist"}
           Paid == alertRows'[a] + Cardinality(D) <= Issued(a)' + losses'[a]
<1>1. /\ alertRows[a] \in Nat /\ losses[a] \in Nat
      /\ alertRows'[a] \in Nat /\ losses'[a] \in Nat
  BY TypeStep DEF TypeInv, TypeOK
<1>2. /\ Issued(a) \in Nat /\ Issued(a)' \in Nat /\ Issued(a)' >= Issued(a)
      /\ losses'[a] >= losses[a]
  BY BudgetGrows
<1>3. alertRows[a] + Cardinality(C) <= Issued(a) + losses[a]
  BY DEF RowsPaid
<1>4. C \in SUBSET Copies /\ D \in SUBSET Copies
  BY DEF Writers
<1>5. /\ Cardinality(C) \in Nat /\ Cardinality(D) \in Nat
      /\ D \subseteq C => Cardinality(D) <= Cardinality(C)
      /\ \A t \in Copies :
           /\ D \subseteq C \union {t} => Cardinality(D) <= Cardinality(C) + 1
           /\ t \in C /\ D \subseteq C \ {t} => Cardinality(D) <= Cardinality(C) - 1
           /\ \A u \in Copies :
                t \in C /\ D \subseteq (C \ {t}) \union {u} => Cardinality(D) <= Cardinality(C)
  BY <1>4, MessagesCounted
<1> HIDE DEF C, D
<1>6. ASSUME alertRows'[a] <= alertRows[a], D \subseteq C
      PROVE  Paid
  BY <1>1, <1>2, <1>3, <1>5, <1>6
<1>7. ASSUME NEW t \in Copies, t \in C, D \subseteq C \ {t}, alertRows'[a] <= alertRows[a] + 1
      PROVE  Paid
  BY <1>1, <1>2, <1>3, <1>5, <1>7
<1>8. ASSUME NEW t \in Copies, D \subseteq C \union {t}, alertRows'[a] <= alertRows[a],
             losses'[a] = losses[a] + 1 \/ Issued(a)' = Issued(a) + 1
      PROVE  Paid
  BY <1>1, <1>2, <1>3, <1>5, <1>8
<1>9. ASSUME NEW t \in Copies, NEW u \in Copies, t \in C, D \subseteq (C \ {t}) \union {u},
             alertRows'[a] <= alertRows[a]
      PROVE  Paid
  BY <1>1, <1>2, <1>3, <1>5, <1>9
<1>10. \A t \in Copies : /\ t \in C <=> msg[t].alert = a /\ msg[t].st \in Writing
                         /\ t \in D <=> msg'[t].alert = a /\ msg'[t].st \in Writing
  BY DEF C, D, Writers
<1>11. ASSUME NEW t \in Copies, \A u \in Copies \ {t} : msg'[u] = msg[u]
       PROVE  /\ D \subseteq C \union {t}
              /\ t \notin D => D \subseteq C \ {t}
              /\ (t \in D => t \in C) => D \subseteq C
  BY <1>11, OthersCounted DEF C, D
<1>12. UNCHANGED alertRows => alertRows'[a] <= alertRows[a]
  BY <1>1
<1>13. ASSUME NEW t \in Copies, Step(t) \/ Outside(t), ~Retry(t)
       PROVE  Paid
  <2>1. /\ D \subseteq C \union {t}
        /\ t \notin D => D \subseteq C \ {t}
        /\ (t \in D => t \in C) => D \subseteq C
    BY <1>11, <1>13, OthersKept
  <2>2. CASE Take(t) \/ RouteReturns(t) \/ Audit(t)
    <3>1. msg'[t].alert = msg[t].alert /\ msg[t].st \in Writing /\ UNCHANGED alertRows
      BY <2>2, RunSteps DEF Moved, Take, RouteReturns, Audit, tables
    <3>. QED  BY <1>6, <1>10, <1>12, <2>1, <3>1
  <2>3. ASSUME NEW s \in SinkNames, SendOk(t, s) \/ SendFails(t, s) \/ SendLate(t, s)
        PROVE  Paid
    <3>1. msg'[t].alert = msg[t].alert /\ msg[t].st \in Writing /\ UNCHANGED alertRows
      BY <2>3, RunSteps DEF Moved, SendOk, SendFails, SendLate, tables
    <3>. QED  BY <1>6, <1>10, <1>12, <2>1, <3>1
  <2>4. CASE GiveUp(t)
    <3>1. msg'[t].st = "over" /\ UNCHANGED alertRows
      BY <2>4, RunSteps DEF Moved, GiveUp, tables
    <3>. QED  BY <1>6, <1>10, <1>12, <2>1, <3>1
  <2>5. CASE Ack(t)
    <3>1. msg'[t] = Free /\ UNCHANGED alertRows
      BY <2>5, QueueSteps DEF OnlyMessage, Ack, tables
    <3>2. msg'[t].st = "free"
      BY <3>1 DEF Free
    <3>. QED  BY <1>6, <1>10, <1>12, <2>1, <3>1, <3>2
  <2>6. CASE Persist(t)
    <3>1. msg'[t].st = "over" /\ msg[t].st = "persist"
      BY <2>6, RunSteps DEF Moved, Persist
    <3>2. \/ UNCHANGED alertRows
          \/ alertRows' = [alertRows EXCEPT ![msg[t].alert] = @ + 1]
      BY <2>6 DEF Persist
    <3>3. alertRows \in [Alerts -> Nat]
      BY DEF TypeInv, TypeOK
    <3>4. CASE msg[t].alert = a
      <4>1. alertRows'[a] <= alertRows[a] + 1
        BY <3>2, <3>3
      <4>. QED  BY <1>7, <1>10, <2>1, <3>1, <3>4, <4>1
    <3>5. CASE msg[t].alert # a
      <4>1. alertRows'[a] <= alertRows[a]
        BY <1>1, <3>2, <3>3, <3>5
      <4>. QED  BY <1>6, <1>10, <2>1, <3>1, <4>1
    <3>. QED  BY <3>4, <3>5
  <2>7. CASE WorkerLost(t)
    <3>0. msg'[t] = Queued(msg[t].alert, msg[t].retries)
      BY <2>7, QueueSteps DEF OnlyMessage
    <3>1. msg'[t].alert = msg[t].alert
      BY <3>0 DEF Queued
    <3>2. UNCHANGED alertRows /\ losses' = [losses EXCEPT ![msg[t].alert] = @ + 1]
      BY <2>7 DEF WorkerLost, tables
    <3>3. CASE msg[t].alert = a
      <4>1. losses'[a] = losses[a] + 1
        BY <3>2, <3>3 DEF TypeInv, TypeOK
      <4>. QED  BY <1>8, <1>12, <2>1, <3>2, <4>1
    <3>4. CASE msg[t].alert # a
      BY <1>6, <1>10, <1>12, <2>1, <3>1, <3>2, <3>4
    <3>. QED  BY <3>3, <3>4
  <2> HIDE DEF Paid
  <2>. QED  BY <1>13, <2>2, <2>3, <2>4, <2>5, <2>6, <2>7 DEF Step, Outside
<1>14. ASSUME NEW t \in Copies, Retry(t)
       PROVE  Paid
  <2>1. PICK u \in Copies : Succeeded(t, u)
    BY <1>14, RetryStep
  <2>2. UNCHANGED alertRows
    BY <1>14 DEF Retry, tables
  <2>3. msg[t].st \in Writing
    BY <1>14, RetryStep
  <2>4. t \notin D
    BY <1>10, <2>1 DEF Succeeded
  <2>5. msg'[u].alert = msg[t].alert
    BY <2>1 DEF Succeeded, Queued
  <2>6. \A v \in Copies \ {t, u} : v \in D => v \in C
    BY <1>10, <2>1 DEF Succeeded
  <2>7. D \subseteq (C \ {t}) \union {u}
    BY <1>4, <2>4, <2>6 DEF D
  <2>8. CASE msg[t].alert = a
    BY <1>9, <1>10, <1>12, <2>2, <2>3, <2>7, <2>8
  <2>9. CASE msg[t].alert # a
    <3>1. u \notin D
      BY <1>10, <2>5, <2>9
    <3>. QED  BY <1>6, <1>12, <2>2, <2>7, <3>1
  <2>. QED  BY <2>8, <2>9
<1>15. ASSUME NEW b \in Alerts, Publish(b)
       PROVE  Paid
  <2>1. PICK v \in Copies : OnlyMessage(v, Queued(b, 0))
    BY <1>15, PublishStep
  <2>2. \A u \in Copies \ {v} : msg'[u] = msg[u]
    BY <2>1 DEF OnlyMessage
  <2>3. msg'[v].alert = b /\ UNCHANGED alertRows
    BY <1>15, <2>1 DEF OnlyMessage, Queued, Publish, tables
  <2>4. CASE a = b
    <3>1. Issued(a)' = Issued(a) + 1
      BY <1>15, <2>4 DEF Publish, Issued
    <3>. QED  BY <1>8, <1>11, <1>12, <2>2, <2>3, <3>1
  <2>5. CASE a # b
    BY <1>6, <1>10, <1>11, <1>12, <2>2, <2>3, <2>5
  <2>. QED  BY <2>4, <2>5
<1>16. ASSUME Quiescent \/ UNCHANGED vars
       PROVE  Paid
  <2>1. UNCHANGED <<msg, alertRows>>
    BY <1>16 DEF Quiescent, vars, tables
  <2>2. D \subseteq C
    BY <1>4, <1>10, <2>1
  <2>. QED  BY <1>6, <1>12, <2>1, <2>2
<1>17. Paid
  <2> HIDE DEF Paid
  <2>. QED  BY <1>13, <1>14, <1>15, <1>16 DEF Next
<1>. QED  BY <1>17 DEF D
-----------------------------------------------------------------------------
\* Before anything is published there is nothing to carry and nothing to record.
LEMMA DeliveryInit ==
  ASSUME Init
  PROVE  DeliveryInv
<1>1. TypeInv
  BY TypeInit
<1>2. \A t \in Copies : msg[t] = Free
  BY DEF Init
<1>3. Free.st = "free" /\ Free.routed = {}
  BY DEF Free
<1>4. HistoryInv
  BY <1>2, <1>3 DEF Init, HistoryInv, RoutedReceived, HistoryTruthful
<1>5. LossInv
  BY <1>2, <1>3 DEF Init, LossInv, RetriesPaid, StillCarried
<1>6. \A a \in Alerts : Writers(a) = {}
  BY <1>2, <1>3 DEF Writers
<1>7. \A a \in Alerts, s \in SinkNames : Carriers(a, s) = {}
  BY <1>2, <1>3 DEF Carriers, MayDeliver
<1>8. Cardinality({}) = 0
  BY FS_EmptySet
<1>9. \A a \in Alerts : Issued(a) = 0 /\ losses[a] = 0 /\ late[a] = 0 /\ alertRows[a] = 0
  BY DEF Init, Issued
<1>10. \A a \in Alerts, s \in SinkNames : received[a][s] = 0
  BY DEF Init
<1>11. SendsPaid
  <2>1. \A a \in Alerts, s \in SinkNames : Cardinality(Carriers(a, s)) = 0
    BY <1>7, <1>8
  <2>. QED  BY <1>9, <1>10, <2>1 DEF SendsPaid
<1>12. RowsPaid
  <2>1. \A a \in Alerts : Cardinality(Writers(a)) = 0
    BY <1>6, <1>8
  <2>. QED  BY <1>9, <2>1 DEF RowsPaid
<1>. QED  BY <1>1, <1>4, <1>5, <1>11, <1>12 DEF DeliveryInv

\* Every step of the alerts queue, its workers and its sinks keeps the invariant.
LEMMA DeliveryStep ==
  ASSUME DeliveryInv, [Next]_vars
  PROVE  DeliveryInv'
<1>1. TypeInv /\ HistoryInv /\ LossInv /\ SendsPaid /\ RowsPaid /\ RoutedReceived
  BY DEF DeliveryInv, HistoryInv
<1>2. TypeInv'
  BY <1>1, TypeStep
<1>3. HistoryInv'
  BY <1>1, HistoryStep
<1>4. LossInv'
  BY <1>1, RetriesPaidStep, StillCarriedStep DEF LossInv
<1>5. SendsPaid' /\ RowsPaid'
  BY <1>1, SendsPaidStep, RowsPaidStep
<1>. QED  BY <1>2, <1>3, <1>4, <1>5 DEF DeliveryInv

\* An alert without a message is not carried any more, so that it was answered.
LEMMA LossFree ==
  ASSUME DeliveryInv
  PROVE  NoSilentLoss
<1>1. ASSUME NEW a \in Alerts, Settled(a)
      PROVE  Answered(a)
  <2>1. a \in published /\ \A t \in Copies : msg[t].alert # a
    BY <1>1 DEF Settled, Live
  <2>2. ~Hopeful(a)
    BY <2>1 DEF Hopeful
  <2>. QED  BY <2>1, <2>2 DEF DeliveryInv, LossInv, StillCarried
<1>. QED  BY <1>1 DEF NoSilentLoss, Answered, DeliveryInv, LossInv, RetriesPaid

\* An alert is published once, and what it may cost is what it was paid.
LEMMA DuplicatesPaid ==
  ASSUME DeliveryInv
  PROVE  DuplicatesBounded
<1>1. ASSUME NEW a \in Alerts
      PROVE  /\ \A s \in SinkNames : received[a][s] <= 1 + losses[a] + late[a]
             /\ alertRows[a] <= 1 + losses[a]
  <2>1. Issued(a) \in Nat /\ Issued(a) <= 1
    BY DEF Issued
  <2>2. losses[a] \in Nat /\ late[a] \in Nat /\ alertRows[a] \in Nat
    BY DEF DeliveryInv, TypeInv, TypeOK
  <2>3. Writers(a) \in SUBSET Copies
    BY DEF Writers
  <2>4. Cardinality(Writers(a)) \in Nat
    BY <2>3, MessagesCounted
  <2>5. alertRows[a] <= 1 + losses[a]
    BY <2>1, <2>2, <2>4 DEF DeliveryInv, RowsPaid
  <2>6. ASSUME NEW s \in SinkNames
        PROVE  received[a][s] <= 1 + losses[a] + late[a]
    <3>1. received[a][s] \in Nat
      BY DEF DeliveryInv, TypeInv, TypeOK
    <3>2. Carriers(a, s) \in SUBSET Copies
      BY DEF Carriers
    <3>3. Cardinality(Carriers(a, s)) \in Nat
      BY <3>2, MessagesCounted
    <3>. QED  BY <2>1, <2>2, <3>1, <3>3 DEF DeliveryInv, SendsPaid
  <2>. QED  BY <2>5, <2>6
<1>. QED  BY <1>1 DEF DuplicatesBounded

\* So the invariant holds in every state route_alert's tasks can reach.
LEMMA DeliveryInvariant == Spec => []DeliveryInv
<1>1. Init => DeliveryInv
  BY DeliveryInit
<1>2. DeliveryInv /\ [Next]_vars => DeliveryInv'
  BY DeliveryStep
<1>. QED  BY <1>1, <1>2, PTL DEF Spec

\* Nobody works on, loses or delays an alert before it is published.
Untouched ==
  /\ \A t \in Copies : msg[t].st # "free" => msg[t].alert \in published
  /\ \A a \in Alerts \ published : losses[a] = 0 /\ late[a] = 0

\* A message is about a published alert: delay() puts it in the queue with the alert, and
\* a retry or a redelivery carries the alert of the run before it.
LEMMA CarriedPublished ==
  ASSUME TypeInv, Untouched, Next \/ UNCHANGED vars, NEW v \in Copies, msg'[v].st # "free"
  PROVE  msg'[v].alert \in published'
<1>1. \A t \in Copies : msg[t].st # "free" => msg[t].alert \in published
  BY DEF Untouched
<1>2. ASSUME NEW a \in Alerts, Publish(a)
      PROVE  msg'[v].alert \in published'
  <2>1. published' = published \union {a}
    BY <1>2 DEF Publish
  <2>2. PICK u \in Copies : OnlyMessage(u, Queued(a, 0))
    BY <1>2, PublishStep
  <2>3. Queued(a, 0).alert = a
    BY DEF Queued
  <2>. QED  BY <1>1, <2>1, <2>2, <2>3 DEF OnlyMessage
<1>3. ASSUME NEW t \in Copies, Step(t) \/ Outside(t)
      PROVE  msg'[v].alert \in published'
  <2>1. UNCHANGED published
    BY <1>3 DEF Step, Outside, Take, SendOk, SendFails, SendLate, RouteReturns, Retry, GiveUp,
                Audit, Persist, Ack, WorkerLost
  <2>2. msg[t].st # "free"
    BY <1>3 DEF Step, Outside, Take, SendOk, SendFails, SendLate, RouteReturns, Retry, GiveUp,
                AllSinksFailed, Audit, Persist, Ack, WorkerLost
  <2>3. CASE Retry(t)
    <3>1. PICK u \in Copies : Succeeded(t, u)
      BY <2>3, RetryStep
    <3>2. Queued(msg[t].alert, msg[t].retries + 1).alert = msg[t].alert
      BY DEF Queued
    <3>. QED  BY <1>1, <2>1, <2>2, <3>1, <3>2 DEF Succeeded
  <2>4. CASE ~Retry(t) /\ v # t
    BY <1>1, <1>3, <2>1, <2>4, OthersKept
  <2>5. CASE ~Retry(t) /\ v = t
    <3>1. Free.st = "free" /\ Queued(msg[t].alert, msg[t].retries).alert = msg[t].alert
      BY DEF Free, Queued
    <3>2. CASE Ack(t) \/ WorkerLost(t)
      BY <1>1, <2>1, <2>2, <2>5, <3>1, <3>2, QueueSteps DEF OnlyMessage
    <3>3. CASE Take(t) \/ RouteReturns(t) \/ GiveUp(t) \/ Persist(t) \/ Audit(t)
      BY <1>1, <2>1, <2>2, <2>5, <3>3, RunSteps DEF Moved
    <3>4. ASSUME NEW s \in SinkNames, SendOk(t, s) \/ SendFails(t, s) \/ SendLate(t, s)
          PROVE  msg'[v].alert \in published'
      BY <1>1, <2>1, <2>2, <2>5, <3>4, RunSteps DEF Moved
    <3>. QED  BY <1>3, <2>5, <3>2, <3>3, <3>4 DEF Step, Outside
  <2>. QED  BY <2>3, <2>4, <2>5
<1>. QED  BY <1>1, <1>2, <1>3 DEF Next, Quiescent, vars

\* Every step keeps unpublished alerts untouched: workers are lost over, and sinks answer
\* late about, the alerts of messages.
LEMMA UntouchedStep ==
  ASSUME TypeInv, Untouched, Next \/ UNCHANGED vars
  PROVE  Untouched'
<1>1. \A t \in Copies : msg'[t].st # "free" => msg'[t].alert \in published'
  BY CarriedPublished
<1>2. losses \in [Alerts -> Nat] /\ late \in [Alerts -> Nat]
  BY DEF TypeInv, TypeOK
<1>3. ASSUME NEW t \in Copies, Step(t) \/ Outside(t)
      PROVE  /\ UNCHANGED published /\ msg[t].alert \in published
             /\ UNCHANGED losses \/ losses' = [losses EXCEPT ![msg[t].alert] = @ + 1]
             /\ UNCHANGED late \/ late' = [late EXCEPT ![msg[t].alert] = @ + 1]
  <2>1. msg[t].st # "free"
    BY <1>3 DEF Step, Outside, Take, SendOk, SendFails, SendLate, RouteReturns, Retry, GiveUp,
                AllSinksFailed, Audit, Persist, Ack, WorkerLost
  <2>2. msg[t].alert \in published
    BY <2>1 DEF Untouched
  <2>. QED
    BY <1>3, <2>2 DEF Step, Outside, Take, SendOk, SendFails, SendLate, RouteReturns, Retry,
                      GiveUp, Audit, Persist, Ack, WorkerLost
<1>4. /\ published \subseteq published'
      /\ UNCHANGED losses \/ \E b \in published : losses' = [losses EXCEPT ![b] = @ + 1]
      /\ UNCHANGED late \/ \E b \in published : late' = [late EXCEPT ![b] = @ + 1]
  BY <1>3 DEF Next, Publish, Quiescent, vars
<1>5. \A a \in Alerts \ published' : losses'[a] = 0 /\ late'[a] = 0
  BY <1>2, <1>4 DEF Untouched
<1>. QED  BY <1>1, <1>5 DEF Untouched

\* So nothing happens to an alert that route_alert.delay was not called for.
LEMMA UntouchedInvariant == Spec => []Untouched
<1>1. Init => Untouched
  BY DEF Init, Untouched, Free
<1>2. DeliveryInv /\ Untouched /\ [Next]_vars => Untouched'
  BY UntouchedStep DEF DeliveryInv
<1>. QED  BY <1>1, <1>2, DeliveryInvariant, PTL DEF Spec

\* What every alert has cost, in one place: nothing before it is published, and then one
\* notification of a sink and one more for each mishap.
DeliveriesPaid ==
  \A a \in Alerts :
    /\ losses[a] \in Nat /\ late[a] \in Nat
    /\ a \notin published => losses[a] = 0 /\ late[a] = 0
    /\ \A s \in SinkNames :
         /\ received[a][s] \in Nat /\ received[a][s] <= 1 + losses[a] + late[a]
         /\ a \notin published => received[a][s] = 0

\* It is always so.
LEMMA DeliveriesArePaid == Spec => []DeliveriesPaid
<1>1. ASSUME DeliveryInv, Untouched, NEW a \in Alerts, NEW s \in SinkNames
      PROVE  /\ losses[a] \in Nat /\ late[a] \in Nat
             /\ a \notin published => losses[a] = 0 /\ late[a] = 0
             /\ received[a][s] \in Nat /\ received[a][s] <= 1 + losses[a] + late[a]
             /\ a \notin published => received[a][s] = 0
  <2>1. losses[a] \in Nat /\ late[a] \in Nat /\ received[a][s] \in Nat
    BY <1>1 DEF DeliveryInv, TypeInv, TypeOK
  <2>2. received[a][s] <= 1 + losses[a] + late[a]
    BY <1>1, DuplicatesPaid DEF DuplicatesBounded
  <2>3. a \notin published => losses[a] = 0 /\ late[a] = 0
    BY <1>1 DEF Untouched
  <2>4. a \notin published => received[a][s] = 0
    <3>1. Carriers(a, s) \in SUBSET Copies
      BY DEF Carriers
    <3>2. Cardinality(Carriers(a, s)) \in Nat
      BY <3>1, MessagesCounted
    <3>3. received[a][s] + Cardinality(Carriers(a, s)) <= Issued(a) + losses[a] + late[a]
      BY <1>1 DEF DeliveryInv, SendsPaid
    <3>4. a \notin published => Issued(a) = 0
      BY DEF Issued
    <3>. QED  BY <2>1, <2>3, <3>2, <3>3, <3>4
  <2>. QED  BY <2>1, <2>2, <2>3, <2>4
<1>2. LogSink \in SinkNames
  BY LogAssumption
<1>3. DeliveryInv /\ Untouched => DeliveriesPaid
  BY <1>1, <1>2 DEF DeliveriesPaid
<1>. QED  BY <1>3, DeliveryInvariant, UntouchedInvariant, PTL

\* The messages, tables and counters of the alerting stage keep their types, however the
\* workers and sinks behave.
THEOREM DeliveryTypes == Spec => []TypeOK
<1>1. DeliveryInv => TypeOK
  BY DEF DeliveryInv, TypeInv
<1>. QED  BY <1>1, DeliveryInvariant, PTL

\* Retries, partial failures and failing inserts never make route_alert notify a sink
\* twice: only lost workers and late answers do, each at most once.
THEOREM DuplicatesOnlyByMishap == Spec => []DuplicatesBounded
<1>1. DeliveryInv => DuplicatesBounded
  BY DuplicatesPaid
<1>. QED  BY <1>1, DeliveryInvariant, PTL

\* At every moment a published alert has been answered for or will be routed again.
LEMMA AlertsAreCarried == Spec => []StillCarried
<1>1. DeliveryInv => StillCarried
  BY DEF DeliveryInv, LossInv
<1>. QED  BY <1>1, DeliveryInvariant, PTL

\* An alert without a message was received by some sink or given up on record, after
\* all its retries (NFR-R2).
THEOREM AlertsAreNotLost == Spec => []NoSilentLoss
<1>1. DeliveryInv => NoSilentLoss
  BY LossFree
<1>. QED  BY <1>1, DeliveryInvariant, PTL

\* The alerts table and the audit trail name only sinks that received the alert.
THEOREM HistoryIsTrue == Spec => []HistoryTruthful
<1>1. DeliveryInv => HistoryTruthful
  BY DEF DeliveryInv, HistoryInv
<1>. QED  BY <1>1, DeliveryInvariant, PTL
=============================================================================
