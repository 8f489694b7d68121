------------------------------- MODULE Sweep -------------------------------
(***************************************************************************)
(* One beat of the detection sweep (workers/tasks.py): the task            *)
(* schedule_detection_sweep lists the active (tenant, metric) pairs and    *)
(* publishes a chord, that is, one detector task per pair and detector and *)
(* a callback, aggregate_and_alert, for when all of them have succeeded.   *)
(*                                                                         *)
(* The sweep task publishes the header one message at a time and is        *)
(* acknowledged last; when its worker is lost the message is delivered     *)
(* again and the new run publishes a chord of its own beside the old one.  *)
(* Detector tasks retry, run into time limits, and lose their workers too. *)
(* Beats share no state with each other, so one is enough.  Storing a      *)
(* detector task's outcome and acknowledging its message are one step.     *)
(***************************************************************************)
EXTENDS Integers, FiniteSets

CONSTANTS
  Pairs,      \* the (tenant, metric) pairs that may be active
  Kinds,      \* the detector tasks: run_statistical, run_isolation_forest, run_prophet
  SweepTask,  \* names schedule_detection_sweep among the dead letters
  Retries,    \* Retries[k]: max_retries of detector task k (3, 2, 2 in the code)
  MaxLosses,  \* bound: workers lost
  MaxKills    \* bound: hard time limits hit

ASSUME RetriesAssumption == Retries \in [Kinds -> Nat]
ASSUME SweepTaskAssumption == SweepTask \notin Nat \X (Pairs \X Kinds)
ASSUME BoundsAssumption == MaxLosses \in Nat /\ MaxKills \in Nat

VARIABLES
  sweep,        \* the sweep task: where it is, its run, the messages left to publish
  header,       \* header[r]: the detector tasks of the chord of run r
  job,          \* job[r][x]: detector task x of that chord
  callbacks,    \* runs whose chord has published aggregate_and_alert
  deadLetters,  \* tasks recorded in dead_letters: SweepTask or <<run, x>>
  unrecorded,   \* tasks whose dead_letters insert failed, known to the log only
  killed,       \* history: detector tasks that hit their hard time limit
  losses        \* lost workers so far

letters == <<deadLetters, unrecorded>>
vars == <<sweep, header, job, callbacks, letters, killed, losses>>

Header == Pairs \X Kinds
Runs == 1..(MaxLosses + 1)

\* "idle": the beat has not fired; "over": the task has ended, not yet acknowledged.
SweepStages == {"idle", "queued", "publishing", "over", "done"}
JobStages == {"absent", "queued", "running", "ok", "failed"}

Absent == [st |-> "absent", retries |-> 0]

TypeOK ==
  /\ sweep \in [st : SweepStages, run : 0..(MaxLosses + 1), todo : SUBSET Header]
  /\ header \in [Runs -> SUBSET Header]
  /\ job \in [Runs -> [Header -> [st : JobStages, retries : Nat]]]
  /\ \A r \in Runs, x \in Header : job[r][x].retries <= Retries[x[2]]
  /\ callbacks \subseteq Runs
  /\ deadLetters \subseteq {SweepTask} \union (Runs \X Header)
  /\ unrecorded \subseteq {SweepTask} \union (Runs \X Header)
  /\ killed \subseteq Runs \X Header
  /\ losses \in 0..MaxLosses

Init ==
  /\ sweep = [st |-> "idle", run |-> 0, todo |-> {}]
  /\ header = [r \in Runs |-> {}]
  /\ job = [r \in Runs |-> [x \in Header |-> Absent]]
  /\ callbacks = {} /\ deadLetters = {} /\ unrecorded = {} /\ killed = {}
  /\ losses = 0
-----------------------------------------------------------------------------
\* A task has failed for good: record_dead_letter inserts a row or logs its own error.
Bury(e) ==
  \/ deadLetters' = deadLetters \union {e} /\ UNCHANGED unrecorded
  \/ unrecorded' = unrecorded \union {e} /\ UNCHANGED deadLetters

\* The beat publishes schedule_detection_sweep.
BeatFires ==
  /\ sweep.st = "idle"
  /\ sweep' = [sweep EXCEPT !.st = "queued"]
  /\ UNCHANGED <<header, job, callbacks, letters, killed, losses>>

\* A worker takes it and lists the active pairs; without any the task returns.
ListMetrics ==
  /\ sweep.st = "queued"
  /\ \E S \in SUBSET Pairs :
       /\ sweep' = [st |-> IF S = {} THEN "over" ELSE "publishing",
                    run |-> sweep.run + 1, todo |-> S \X Kinds]
       /\ header' = [header EXCEPT ![sweep.run + 1] = S \X Kinds]
  /\ UNCHANGED <<job, callbacks, letters, killed, losses>>

\* One message of the chord's header.
PublishJob(x) ==
  /\ sweep.st = "publishing" /\ x \in sweep.todo
  /\ sweep' = [sweep EXCEPT !.todo = @ \ {x}]
  /\ job' = [job EXCEPT ![sweep.run][x].st = "queued"]
  /\ UNCHANGED <<header, callbacks, letters, killed, losses>>

\* The database or Redis fails the task.  It has no retry.
SweepFails ==
  /\ sweep.st = "queued" \/ sweep.todo # {}
  /\ sweep' = [sweep EXCEPT !.st = "over", !.todo = {}]
  /\ Bury(SweepTask)
  /\ UNCHANGED <<header, job, callbacks, killed, losses>>

SweepReturns ==
  /\ sweep.st = "publishing" /\ sweep.todo = {}
  /\ sweep' = [sweep EXCEPT !.st = "over"]
  /\ UNCHANGED <<header, job, callbacks, letters, killed, losses>>

SweepAcked ==
  /\ sweep.st = "over"
  /\ sweep' = [sweep EXCEPT !.st = "done"]
  /\ UNCHANGED <<header, job, callbacks, letters, killed, losses>>

\* Mutant: acknowledged when taken, so that a lost worker ends the sweep.
SweepLostAckedEarly ==
  /\ sweep.st \in {"publishing", "over"} /\ losses < MaxLosses
  /\ losses' = losses + 1
  /\ sweep' = [sweep EXCEPT !.st = "done", !.todo = {}]
  /\ UNCHANGED <<header, job, callbacks, letters, killed>>

\* The worker is lost and the message delivered again; what was published stays.
SweepLost ==
  /\ sweep.st \in {"publishing", "over"} /\ losses < MaxLosses
  /\ losses' = losses + 1
  /\ sweep' = [sweep EXCEPT !.st = "queued", !.todo = {}]
  /\ UNCHANGED <<header, job, callbacks, letters, killed>>
-----------------------------------------------------------------------------
TakeJob(r, x) ==
  /\ job[r][x].st = "queued"
  /\ job' = [job EXCEPT ![r][x].st = "running"]
  /\ UNCHANGED <<sweep, header, callbacks, letters, killed, losses>>

JobSucceeds(r, x) ==
  /\ job[r][x].st = "running"
  /\ job' = [job EXCEPT ![r][x].st = "ok"]
  /\ UNCHANGED <<sweep, header, callbacks, letters, killed, losses>>

\* Mutant: no limit on retries.
JobRetriesForever(r, x) ==
  /\ job[r][x].st = "running"
  /\ job' = [job EXCEPT ![r][x] = [st |-> "queued", retries |-> @.retries + 1]]
  /\ UNCHANGED <<sweep, header, callbacks, letters, killed, losses>>

\* Any exception, the soft time limit's included, is turned into a retry (whose
\* publish is taken to succeed) ...
JobRetries(r, x) ==
  /\ job[r][x].st = "running" /\ job[r][x].retries < Retries[x[2]]
  /\ job' = [job EXCEPT ![r][x] = [st |-> "queued", retries |-> @.retries + 1]]
  /\ UNCHANGED <<sweep, header, callbacks, letters, killed, losses>>

\* Mutant: a failing insert of the dead letter is not even logged.
JobFailsQuietly(r, x) ==
  /\ job[r][x].st = "running" /\ job[r][x].retries = Retries[x[2]]
  /\ job' = [job EXCEPT ![r][x].st = "failed"]
  /\ deadLetters' \in {deadLetters, deadLetters \union {<<r, x>>}}
  /\ UNCHANGED <<sweep, header, callbacks, unrecorded, killed, losses>>

\* ... until none is left.
JobFails(r, x) ==
  /\ job[r][x].st = "running" /\ job[r][x].retries = Retries[x[2]]
  /\ job' = [job EXCEPT ![r][x].st = "failed"]
  /\ Bury(<<r, x>>)
  /\ UNCHANGED <<sweep, header, callbacks, killed, losses>>

\* The hard time limit: the child process is killed, the task marked failed and its
\* message acknowledged; task_failure does not fire.
JobKilled(r, x) ==
  /\ job[r][x].st = "running" /\ Cardinality(killed) < MaxKills
  /\ job' = [job EXCEPT ![r][x].st = "failed"]
  /\ killed' = killed \union {<<r, x>>}
  /\ UNCHANGED <<sweep, header, callbacks, letters, losses>>

\* Delivered again with the retries it carries.
JobLost(r, x) ==
  /\ job[r][x].st = "running" /\ losses < MaxLosses
  /\ losses' = losses + 1
  /\ job' = [job EXCEPT ![r][x].st = "queued"]
  /\ UNCHANGED <<sweep, header, callbacks, letters, killed>>

\* Mutant: the chord counts what was published so far, not its whole header.
ChordCompletesEarly(r) ==
  /\ header[r] # {} /\ r \notin callbacks
  /\ \A x \in header[r] : job[r][x].st \in {"absent", "ok"}
  /\ callbacks' = callbacks \union {r}
  /\ UNCHANGED <<sweep, header, job, letters, killed, losses>>

\* The result backend publishes the callback when the whole header has succeeded;
\* with a failure among the results it raises ChordError instead.
ChordCompletes(r) ==
  /\ header[r] # {} /\ r \notin callbacks
  /\ \A x \in header[r] : job[r][x].st = "ok"
  /\ callbacks' = callbacks \union {r}
  /\ UNCHANGED <<sweep, header, job, letters, killed, losses>>
-----------------------------------------------------------------------------
Pending(r) == {x \in Header : job[r][x].st \in {"queued", "running"}}

\* Nothing is left to do: not a deadlock.
Quiescent ==
  /\ sweep.st = "done"
  /\ \A r \in Runs : Pending(r) = {}
  /\ UNCHANGED vars

SweepStep ==
  \/ ListMetrics \/ (\E x \in Header : PublishJob(x))
  \/ SweepFails \/ SweepReturns \/ SweepAcked

JobStep(r, x) ==
  \/ TakeJob(r, x) \/ JobSucceeds(r, x) \/ JobRetries(r, x) \/ JobFails(r, x)
  \/ JobKilled(r, x)

Next ==
  \/ BeatFires \/ SweepStep \/ SweepLost
  \/ \E r \in Runs : ChordCompletes(r) \/ \E x \in Header : JobStep(r, x) \/ JobLost(r, x)
  \/ Quiescent

Spec == Init /\ [][Next]_vars

\* Workers of all three queues keep consuming, and a running task ends one way or
\* another (every one has a time limit, or calls that time out).
Fairness ==
  /\ WF_vars(SweepStep)
  /\ \A r \in Runs : WF_vars(ChordCompletes(r))
  /\ \A r \in Runs, x \in Header : WF_vars(JobStep(r, x))

FairSpec == Spec /\ Fairness
-----------------------------------------------------------------------------
(***************************************************************************)
(* A callback hears of every pair that its sweep listed: it is published   *)
(* only when each detector of each pair has answered, never for the header *)
(* of a run that was cut short.                                            *)
(***************************************************************************)
CallbackComplete ==
  \A r \in callbacks : \E S \in SUBSET Pairs :
    S # {} /\ {x \in Header : job[r][x].st = "ok"} = S \X Kinds

(***************************************************************************)
(* deadletter.py: a task whose retries are exhausted does not vanish.  Of  *)
(* a failed detector task there is a dead letter, a log line, or (after a  *)
(* hard time limit) neither; and nothing that succeeded is dead-lettered.  *)
(***************************************************************************)
FailuresOnRecord ==
  \A r \in Runs, x \in Header :
    job[r][x].st = "failed" <=> <<r, x>> \in deadLetters \union unrecorded \union killed

(***************************************************************************)
(* Every beat comes to something: a callback, no active metrics, a failed  *)
(* sweep task on record, or a chord of its last run with a failed task.    *)
(***************************************************************************)
ChordHasFailed(r) == \E x \in header[r] : job[r][x].st = "failed"

Concluded ==
  /\ sweep.st = "done"
  /\ \/ SweepTask \in deadLetters \union unrecorded
     \/ \E r \in Runs : /\ r = sweep.run
                        /\ header[r] = {} \/ r \in callbacks \/ ChordHasFailed(r)

SweepConcludes == sweep.st = "queued" ~> Concluded

(***************************************************************************)
(* NFR-R4: "A failing detector/sink doesn't fail the whole sweep": once    *)
(* every detector of a chord has ended and some have succeeded, what these *)
(* found is aggregated.                                                    *)
(***************************************************************************)
HeaderEnded(r) ==
  /\ \A x \in header[r] : job[r][x].st \in {"ok", "failed"}
  /\ \E x \in header[r] : job[r][x].st = "ok"

FailingDetectorTolerated == \A r \in Runs : HeaderEnded(r) ~> r \in callbacks
=============================================================================
