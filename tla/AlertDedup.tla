----------------------------- MODULE AlertDedup -----------------------------
(***************************************************************************)
(* aggregate_and_alert (workers/tasks.py): the chord callback that takes   *)
(* the anomalies of one sweep, applies consensus, claims each fingerprint  *)
(* in Redis with SET NX EX, and publishes one route_alert message for each *)
(* claim it won.  Several sweeps overlap, every Redis command is a step of *)
(* its own, Redis may fail or swallow a reply, and the worker may be lost  *)
(* at any point, after which the unacknowledged message is delivered again *)
(* (task_acks_late, task_reject_on_worker_lost) and the task starts over.  *)
(***************************************************************************)
EXTENDS Anomalies

CONSTANTS
  Sweeps,         \* one aggregate_and_alert message for each
  Reports,        \* the sets of anomalies the detectors of a sweep may return
  MaxTime,        \* bound: the clock stops here
  MaxFaults,      \* bound: Redis commands that fail or lose their reply
  MaxLosses       \* bound: workers lost in the middle of a task

ASSUME ReportsAssumption == Reports \subseteq SUBSET Anomaly
ASSUME BoundsAssumption == MaxTime \in Nat /\ MaxFaults \in Nat /\ MaxLosses \in Nat

VARIABLES
  now,          \* the clock by which Redis expires keys
  expiry,       \* expiry[f]: when the key mm:dedup:<f> expires; 0 if it was never set
  agg,          \* agg[g]: where the task of sweep g is, with its local variables
  wins,         \* history: every claim that Redis granted
  raised,       \* history: the claims a route_alert message was published for
  deadLetters,  \* sweeps whose task is recorded in dead_letters
  faults,       \* Redis faults so far
  losses        \* lost workers so far

vars == <<now, expiry, agg, wins, raised, deadLetters, faults, losses>>

\* A granted SET NX: the anomaly and the time of the command.
Claim == [an : Anomaly, at : Nat]

(***************************************************************************)
(* "waiting": the chord's header is running; "queued": the message is in   *)
(* the alerts queue; "filter", "dispatch": inside dedup.filter and inside  *)
(* the route_alert.delay loop; "returned", "raised": the body is over, the *)
(* message not yet acknowledged; "done": acknowledged.                     *)
(***************************************************************************)
Stages == {"waiting", "queued", "filter", "dispatch", "returned", "raised", "done"}

\* report: the argument; todo: what the filter loop has left; unique: its result so
\* far.  since is history: when this run of the task started.
Task == [st : Stages, since : Nat, report : SUBSET Anomaly,
         todo : SUBSET Anomaly, unique : SUBSET Claim]

TypeOK ==
  /\ now \in Nat
  /\ expiry \in [Fingerprints -> Nat]
  /\ agg \in [Sweeps -> Task]
  /\ wins \subseteq Claim
  /\ raised \subseteq Claim
  /\ deadLetters \subseteq Sweeps
  /\ faults \in Nat
  /\ losses \in Nat

Init ==
  /\ now = 0
  /\ expiry = [f \in Fingerprints |-> 0]
  /\ agg = [g \in Sweeps |-> [st |-> "waiting", since |-> 0, report |-> {},
                               todo |-> {}, unique |-> {}]]
  /\ wins = {} /\ raised = {} /\ deadLetters = {}
  /\ faults = 0 /\ losses = 0

-----------------------------------------------------------------------------
Running(g) == agg[g].st \in {"filter", "dispatch"}

\* The message is held by a worker and not acknowledged.
Held(g) == agg[g].st \in {"filter", "dispatch", "returned", "raised"}

Faulty == faults < MaxFaults /\ faults' = faults + 1

\* Mutant: SET without NX.
KeyFreeWithoutNX(a) == TRUE

\* The key does not exist, so SET NX sets it.
KeyFree(a) == expiry[Fingerprint(a)] <= now

\* Mutant: the key expires one second early.
SetKeyEarly(a) ==
  /\ expiry' = [expiry EXCEPT ![Fingerprint(a)] = now + Cooldown - 1]
  /\ wins' = wins \union {[an |-> a, at |-> now]}

\* Mutant: SET NX without EX, a key that does not expire.
SetKeyForever(a) ==
  /\ expiry' = [expiry EXCEPT ![Fingerprint(a)] = MaxTime + Cooldown]
  /\ wins' = wins \union {[an |-> a, at |-> now]}

SetKey(a) ==
  /\ expiry' = [expiry EXCEPT ![Fingerprint(a)] = now + Cooldown]
  /\ wins' = wins \union {[an |-> a, at |-> now]}

\* Every header task has succeeded and the result backend publishes the callback.
ChordFires(g) ==
  /\ agg[g].st = "waiting"
  /\ \E R \in Reports : agg' = [agg EXCEPT ![g] = [@ EXCEPT !.st = "queued", !.report = R]]
  /\ UNCHANGED <<now, expiry, wins, raised, deadLetters, faults, losses>>

\* The task flattens its results and applies consensus to them.
Start(g) ==
  /\ agg[g].st = "queued"
  /\ agg' = [agg EXCEPT ![g] = [@ EXCEPT !.st = "filter", !.since = now,
                                         !.todo = ApplyConsensus(agg[g].report), !.unique = {}]]
  /\ UNCHANGED <<now, expiry, wins, raised, deadLetters, faults, losses>>

\* One round of the loop in filter: the claim is granted ...
ClaimWon(g) ==
  /\ agg[g].st = "filter"
  /\ \E a \in agg[g].todo :
       /\ KeyFree(a)
       /\ SetKey(a)
       /\ agg' = [agg EXCEPT ![g].todo = @ \ {a},
                             ![g].unique = @ \union {[an |-> a, at |-> now]}]
  /\ UNCHANGED <<now, raised, deadLetters, faults, losses>>

\* Mutant: the refused SET still refreshes the expiry.
ClaimRefusedRefreshing(g) ==
  /\ agg[g].st = "filter"
  /\ \E a \in agg[g].todo :
       /\ ~KeyFree(a)
       /\ expiry' = [expiry EXCEPT ![Fingerprint(a)] = now + Cooldown]
       /\ agg' = [agg EXCEPT ![g].todo = @ \ {a}]
  /\ UNCHANGED <<now, wins, raised, deadLetters, faults, losses>>

\* Mutant: the result of SET is not looked at.
ClaimRefusedIgnored(g) ==
  /\ agg[g].st = "filter"
  /\ \E a \in agg[g].todo :
       /\ ~KeyFree(a)
       /\ agg' = [agg EXCEPT ![g].todo = @ \ {a},
                             ![g].unique = @ \union {[an |-> a, at |-> now]}]
  /\ UNCHANGED <<now, expiry, wins, raised, deadLetters, faults, losses>>

\* ... or refused, and the anomaly is suppressed.
ClaimRefused(g) ==
  /\ agg[g].st = "filter"
  /\ \E a \in agg[g].todo :
       /\ ~KeyFree(a)
       /\ agg' = [agg EXCEPT ![g].todo = @ \ {a}]
  /\ UNCHANGED <<now, expiry, wins, raised, deadLetters, faults, losses>>

\* Redis sets the key, the reply is lost, and the client sends the command again and
\* finds the key: the task is told that the claim was refused.  Whether a client of
\* from_url re-sends depends on the version of redis-py (6.4, in uv.lock, does); with
\* one that does not, the lost reply raises: ClaimWon and then RedisDown, one fault.
ClaimReplyLost(g) ==
  /\ agg[g].st = "filter"
  /\ Faulty
  /\ \E a \in agg[g].todo :
       /\ KeyFree(a)
       /\ SetKey(a)
       /\ agg' = [agg EXCEPT ![g].todo = @ \ {a}]
  /\ UNCHANGED <<now, raised, deadLetters, losses>>

\* filter returns.
FilterDone(g) ==
  /\ agg[g].st = "filter" /\ agg[g].todo = {}
  /\ agg' = [agg EXCEPT ![g].st = "dispatch"]
  /\ UNCHANGED <<now, expiry, wins, raised, deadLetters, faults, losses>>

\* One round of the loop that publishes route_alert messages.
Dispatch(g, c) ==
  /\ agg[g].st = "dispatch" /\ c \in agg[g].unique
  /\ raised' = raised \union {c}
  /\ agg' = [agg EXCEPT ![g].unique = @ \ {c}]
  /\ UNCHANGED <<now, expiry, wins, deadLetters, faults, losses>>

\* Mutant: the loop may end before its list does.
ReturnEarly(g) ==
  /\ agg[g].st = "dispatch"
  /\ agg' = [agg EXCEPT ![g].st = "returned", ![g].unique = {}]
  /\ UNCHANGED <<now, expiry, wins, raised, deadLetters, faults, losses>>

Return(g) ==
  /\ agg[g].st = "dispatch" /\ agg[g].unique = {}
  /\ agg' = [agg EXCEPT ![g].st = "returned"]
  /\ UNCHANGED <<now, expiry, wins, raised, deadLetters, faults, losses>>

\* A SET or a publish raises: one that had no effect, or, after ClaimWon or Dispatch,
\* one that had.  The task has no retry, so this is its final failure: task_failure
\* records it, unless the database is down too.
RedisDown(g) ==
  /\ Running(g)
  /\ Faulty
  /\ agg' = [agg EXCEPT ![g].st = "raised", ![g].todo = {}, ![g].unique = {}]
  /\ deadLetters' \in {deadLetters, deadLetters \union {g}}
  /\ UNCHANGED <<now, expiry, wins, raised, losses>>

Ack(g) ==
  /\ agg[g].st \in {"returned", "raised"}
  /\ agg' = [agg EXCEPT ![g].st = "done"]
  /\ UNCHANGED <<now, expiry, wins, raised, deadLetters, faults, losses>>

\* Mutant: the message was acknowledged when it was taken, and is gone.
WorkerLostAckedEarly(g) ==
  /\ Held(g)
  /\ losses < MaxLosses
  /\ losses' = losses + 1
  /\ agg' = [agg EXCEPT ![g].st = "gone", ![g].todo = {}, ![g].unique = {}]
  /\ UNCHANGED <<now, expiry, wins, raised, deadLetters, faults>>

\* The worker process dies: its local variables are gone and the broker
\* delivers the same message to another worker.
WorkerLost(g) ==
  /\ Held(g)
  /\ losses < MaxLosses
  /\ losses' = losses + 1
  /\ agg' = [agg EXCEPT ![g].st = "queued", ![g].todo = {}, ![g].unique = {}]
  /\ UNCHANGED <<now, expiry, wins, raised, deadLetters, faults>>

Tick ==
  /\ now < MaxTime
  /\ now' = now + 1
  /\ UNCHANGED <<expiry, agg, wins, raised, deadLetters, faults, losses>>

\* Nothing is left to do within the bounds: not a deadlock.
Quiescent ==
  /\ now = MaxTime
  /\ \A g \in Sweeps : agg[g].st = "done"
  /\ UNCHANGED vars

\* What the worker that holds or takes g's message does, publishing apart.
Internal(g) ==
  \/ Start(g) \/ ClaimWon(g) \/ ClaimRefused(g) \/ FilterDone(g) \/ Return(g) \/ Ack(g)

Step(g) == Internal(g) \/ \E c \in agg[g].unique : Dispatch(g, c)

\* What happens to it: its chord completes, Redis fails it, its worker dies.
Outside(g) == ChordFires(g) \/ ClaimReplyLost(g) \/ RedisDown(g) \/ WorkerLost(g)

Next ==
  \/ \E g \in Sweeps : Step(g) \/ Outside(g)
  \/ Tick
  \/ Quiescent

Spec == Init /\ [][Next]_vars

\* The alerts workers keep consuming (compose restarts them); nothing obliges a
\* sweep to finish, the clock to reach its bound, or a fault to happen.
Fairness == \A g \in Sweeps : WF_vars(Step(g))

FairSpec == Spec /\ Fairness

-----------------------------------------------------------------------------
(***************************************************************************)
(* "A suppressed (non-consensus) anomaly never consumes a cooldown claim"  *)
(* (tasks.py): behind every key that was ever set stand MinDetectors       *)
(* different detectors of one sweep, agreeing on tenant, metric and bucket.*)
(***************************************************************************)
Corroborated(a, R) ==
  \E D \in SUBSET Detectors :
    /\ Cardinality(D) >= MinDetectors
    /\ \A d \in D : \E b \in R :
         /\ b.detector = d
         /\ b.tenant = a.tenant /\ b.metric = a.metric
         /\ b.ts \div BucketSeconds = a.ts \div BucketSeconds

NonConsensusNeverClaims ==
  \A c \in wins : \E g \in Sweeps : Corroborated(c.an, agg[g].report)

(***************************************************************************)
(* dedup.py's race-free check-and-mark: across all sweeps, redeliveries    *)
(* and faults, claims of one fingerprint are granted at least Cooldown     *)
(* apart.                                                                  *)
(***************************************************************************)
ClaimsSpaced ==
  \A c, d \in wins :
    Fingerprint(c.an) = Fingerprint(d.an) /\ c # d =>
      c.at + Cooldown <= d.at \/ d.at + Cooldown <= c.at

(***************************************************************************)
(* A claim has one owner: a granted claim not yet dispatched is held by    *)
(* one task only, and once dispatched nobody holds it, so no claim is ever *)
(* alerted on twice, whoever is redelivered.                               *)
(***************************************************************************)
OneOwner ==
  \A g \in Sweeps : \A c \in agg[g].unique :
    /\ c \in wins \ raised
    /\ \A h \in Sweeps \ {g} : c \notin agg[h].unique

(***************************************************************************)
(* A re-detected spike does not extend its own suppression: while a key    *)
(* exists no step moves its expiry, so a spike that persists alerts again  *)
(* once the cooldown has run out.                                          *)
(***************************************************************************)
WindowNeverProlonged ==
  [][\A f \in Fingerprints : expiry[f] > now => expiry'[f] = expiry[f]]_vars

(***************************************************************************)
(* dedup.py's docstring: a spike "is alerted on exactly once within the    *)
(* cooldown window".  When the tasks have settled, every key that was set  *)
(* has led to a route_alert message.                                       *)
(***************************************************************************)
Settled == \A g \in Sweeps : agg[g].st \in {"waiting", "done"}

EveryClaimRaised == Settled => wins = raised

(***************************************************************************)
(* What holds of it: only a Redis fault or a lost worker can make a claim  *)
(* lapse unraised; overlapping sweeps, redelivered messages and claims     *)
(* refused by a concurrent task cannot.  And nothing is suppressed for an  *)
(* old claim: once filter has returned, every anomaly that passed consensus*)
(* has a claim of its fingerprint (its own or another sweep's) whose window*)
(* was open after the task started.                                        *)
(***************************************************************************)
NoLossWithoutMishap ==
  /\ Settled /\ faults = 0 /\ losses = 0 => wins = raised
  /\ \A g \in Sweeps : agg[g].st \in {"dispatch", "returned"} =>
       \A a \in ApplyConsensus(agg[g].report) :
         \E c \in wins : /\ Fingerprint(c.an) = Fingerprint(a)
                        /\ agg[g].since < c.at + Cooldown

\* task_acks_late: a callback that was published is worked off, however often
\* its worker is lost (within MaxLosses).
CallbackCompletes ==
  \A g \in Sweeps : agg[g].st = "queued" ~> agg[g].st = "done"

(***************************************************************************)
(* The abstract gate that this module implements.                          *)
(***************************************************************************)
Gate == INSTANCE AlertGate WITH
  window <- expiry,
  tickets <- UNION {agg[g].unique : g \in Sweeps}

GateSafety == Gate!GateSpec
=============================================================================
