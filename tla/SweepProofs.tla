----------------------------- MODULE SweepProofs -----------------------------
(***************************************************************************)
(* Theorems about Sweep, for every set of pairs and detectors, every       *)
(* number of retries and every number of lost workers: its safety, and that*)
(* it can neither stop half-way nor go round for ever, on which its        *)
(* liveness rests.                                                         *)
(***************************************************************************)
EXTENDS Sweep, TLAPS

(***************************************************************************)
(* The sweep task starts a new run only after its message was delivered    *)
(* again, so that runs are bounded by the losses; it has messages left     *)
(* only while it publishes.                                                *)
(***************************************************************************)
SweepProgress ==
  /\ sweep.run <= losses + 1
  /\ sweep.st \in {"idle", "queued"} => sweep.run <= losses
  /\ sweep.st = "publishing" => sweep.run >= 1
  /\ sweep.todo # {} => sweep.st = "publishing"

TypeInv == TypeOK /\ SweepProgress

\* A header is every detector of some pairs, and empty in a run that has not started.
HeaderShape ==
  \A r \in Runs : /\ \E S \in SUBSET Pairs : header[r] = S \X Kinds
                  /\ r > sweep.run => header[r] = {}

\* What is left to publish belongs to the run's header and is not yet published.
TodoAbsent ==
  \A x \in sweep.todo : x \in header[sweep.run] /\ job[sweep.run][x].st = "absent"

\* Only tasks of a header are ever published.
JobsInHeader ==
  \A r \in Runs, x \in Header : job[r][x].st # "absent" => x \in header[r]

\* The header of a chord that has called back has succeeded, and stays so.
CallbackHeader ==
  \A r \in callbacks : header[r] # {} /\ \A x \in header[r] : job[r][x].st = "ok"

ChordInv == HeaderShape /\ TodoAbsent /\ JobsInHeader /\ CallbackHeader

SweepInv == TypeInv /\ ChordInv /\ FailuresOnRecord
-----------------------------------------------------------------------------
Record == [st : JobStages, retries : Nat]

\* The step gives detector task x of run r the record v and leaves the others alone.
OnlyJob(r, x, v) ==
  /\ job' \in [Runs -> [Header -> Record]]
  /\ \A s \in Runs, y \in Header :
       job'[s][y] = IF s = r /\ y = x THEN v ELSE job[s][y]

\* What an assignment to one detector task's entry of the chord does to all of them.
LEMMA OneJobAssigned ==
  ASSUME TypeOK, NEW r \in Runs, NEW x \in Header, NEW v \in Record,
         job' = [job EXCEPT ![r][x] = v]
  PROVE  OnlyJob(r, x, v)
<1>1. job \in [Runs -> [Header -> Record]]
  BY DEF TypeOK, Record
<1>2. job' = [job EXCEPT ![r] = [job[r] EXCEPT ![x] = v]]
  OBVIOUS
<1>3. [job[r] EXCEPT ![x] = v] \in [Header -> Record]
  BY <1>1
<1>4. job' \in [Runs -> [Header -> Record]]
  BY <1>1, <1>2, <1>3
<1>. QED  BY <1>1, <1>2, <1>4 DEF OnlyJob

\* A step of a detector task (taken, succeeded, retried, failed, killed or delivered
\* again) changes that task alone, which was queued or running and is published still.
LEMMA JobActionEffect ==
  ASSUME TypeOK, NEW r \in Runs, NEW x \in Header, JobStep(r, x) \/ JobLost(r, x)
  PROVE  /\ \E v \in Record : /\ OnlyJob(r, x, v)
                              /\ v.st # "absent" /\ v.retries <= Retries[x[2]]
         /\ job[r][x].st \in {"queued", "running"}
         /\ UNCHANGED <<sweep, header, callbacks>>
<1> DEFINE old == job[r][x]
           Put(v) == job' = [job EXCEPT ![r][x] = v]
<1>1. old \in Record /\ old.retries <= Retries[x[2]]
  BY DEF TypeOK, Record
<1>2. x[2] \in Kinds /\ Retries[x[2]] \in Nat
  BY RetriesAssumption DEF Header
<1>3. \A s \in JobStages : [old EXCEPT !.st = s] \in Record
                          /\ [old EXCEPT !.st = s].retries = old.retries
                          /\ [old EXCEPT !.st = s].st = s
  BY <1>1 DEF Record
<1>4. \E v \in Record : Put(v) /\ v.st # "absent" /\ v.retries <= Retries[x[2]]
  <2>1. CASE TakeJob(r, x)
    <3>1. Put([old EXCEPT !.st = "running"])
      BY <2>1 DEF TakeJob
    <3>. QED  BY <3>1, <1>1, <1>3 DEF JobStages
  <2>2. CASE JobSucceeds(r, x)
    <3>1. Put([old EXCEPT !.st = "ok"])
      BY <2>2 DEF JobSucceeds
    <3>. QED  BY <3>1, <1>1, <1>3 DEF JobStages
  <2>3. CASE JobRetries(r, x)
    <3>1. Put([st |-> "queued", retries |-> old.retries + 1])
      BY <2>3 DEF JobRetries
    <3>2. old.retries < Retries[x[2]]
      BY <2>3 DEF JobRetries
    <3>3. /\ [st |-> "queued", retries |-> old.retries + 1] \in Record
          /\ old.retries + 1 <= Retries[x[2]]
      BY <3>2, <1>1, <1>2 DEF Record, JobStages
    <3>. QED  BY <3>1, <3>3
  <2>4. CASE JobFails(r, x) \/ JobKilled(r, x)
    <3>1. Put([old EXCEPT !.st = "failed"])
      BY <2>4 DEF JobFails, JobKilled
    <3>. QED  BY <3>1, <1>1, <1>3 DEF JobStages
  <2>5. CASE JobLost(r, x)
    <3>1. Put([old EXCEPT !.st = "queued"])
      BY <2>5 DEF JobLost
    <3>. QED  BY <3>1, <1>1, <1>3 DEF JobStages
  <2>. QED  BY <2>1, <2>2, <2>3, <2>4, <2>5 DEF JobStep
<1>5. job[r][x].st \in {"queued", "running"} /\ UNCHANGED <<sweep, header, callbacks>>
  BY DEF JobStep, TakeJob, JobSucceeds, JobRetries, JobFails, JobKilled, JobLost
<1>. QED  BY <1>4, <1>5, OneJobAssigned

\* Publishing a message of the header queues that task with the retries it has, none.
LEMMA PublishEffect ==
  ASSUME TypeInv, NEW x \in Header, PublishJob(x)
  PROVE  /\ sweep.run \in Runs
         /\ \E v \in Record : /\ OnlyJob(sweep.run, x, v) /\ v.st = "queued"
                             /\ v.retries = job[sweep.run][x].retries
<1>1. sweep.run \in Runs
  BY BoundsAssumption DEF PublishJob, TypeInv, TypeOK, SweepProgress, Runs
<1> DEFINE v == [job[sweep.run][x] EXCEPT !.st = "queued"]
<1>2. job[sweep.run][x] \in Record
  BY <1>1 DEF TypeInv, TypeOK, Record
<1>3. v \in Record /\ v.st = "queued" /\ v.retries = job[sweep.run][x].retries
  BY <1>2 DEF Record, JobStages
<1>4. job' = [job EXCEPT ![sweep.run][x] = v]
  BY DEF PublishJob
<1>. QED  BY <1>1, <1>3, <1>4, OneJobAssigned DEF TypeInv
-----------------------------------------------------------------------------
\* Initially nothing has happened.
LEMMA SweepInitInv == Init => SweepInv
<1> SUFFICES ASSUME Init PROVE SweepInv
  OBVIOUS
<1>1. \A x \in Header : x[2] \in Kinds
  BY DEF Header
<1>2. TypeOK
  BY <1>1, RetriesAssumption, BoundsAssumption
     DEF Init, TypeOK, Absent, JobStages, SweepStages
<1>3. SweepProgress
  BY BoundsAssumption DEF Init, SweepProgress
<1>4. \A r \in Runs : header[r] = {} /\ \A x \in Header : job[r][x].st = "absent"
  BY DEF Init, Absent
<1>5. {} = {} \X Kinds
  OBVIOUS
<1>6. ChordInv
  BY <1>4, <1>5 DEF Init, ChordInv, HeaderShape, TodoAbsent, JobsInHeader, CallbackHeader
<1>7. FailuresOnRecord
  BY <1>4 DEF Init, FailuresOnRecord
<1>. QED  BY <1>2, <1>3, <1>6, <1>7 DEF SweepInv, TypeInv

\* Recording a failed task keeps the two records of failures well typed.
LEMMA BuryType ==
  ASSUME TypeOK, NEW e \in {SweepTask} \union (Runs \X Header), Bury(e)
  PROVE  /\ deadLetters' \subseteq {SweepTask} \union (Runs \X Header)
         /\ unrecorded' \subseteq {SweepTask} \union (Runs \X Header)
BY DEF Bury, TypeOK

\* Every step of the sweep and of its detector tasks keeps the types, the retry limits
\* of the detectors and the bound on the sweep's runs.
LEMMA TypeStep == TypeInv /\ [Next]_vars => TypeInv'
<1> SUFFICES ASSUME TypeInv, [Next]_vars PROVE TypeInv'
  OBVIOUS
<1>. USE DEF TypeInv
<1> DEFINE JobsTyped == /\ job \in [Runs -> [Header -> Record]]
                        /\ \A r \in Runs, x \in Header : job[r][x].retries <= Retries[x[2]]
           Rest == /\ header \in [Runs -> SUBSET Header]
                   /\ callbacks \subseteq Runs
                   /\ deadLetters \subseteq {SweepTask} \union (Runs \X Header)
                   /\ unrecorded \subseteq {SweepTask} \union (Runs \X Header)
                   /\ killed \subseteq Runs \X Header
           SweepTyped ==
             /\ sweep \in [st : SweepStages, run : 0..(MaxLosses + 1), todo : SUBSET Header]
             /\ losses \in 0..MaxLosses
             /\ SweepProgress
<1>0. (JobsTyped /\ Rest /\ SweepTyped)' => TypeInv'
  BY DEF TypeOK, Record
<1>1. JobsTyped /\ Rest /\ SweepTyped
  BY DEF TypeOK, Record
<1>2. CASE BeatFires \/ SweepReturns \/ SweepAcked \/ SweepLost
  <2>1. JobsTyped' /\ Rest'
    BY <1>1, <1>2 DEF BeatFires, SweepReturns, SweepAcked, SweepLost, letters
  <2>2. sweep.run \in Nat /\ losses \in Nat
    BY <1>1, BoundsAssumption
  <2>3. CASE SweepLost
    <3>1. sweep' = [sweep EXCEPT !.st = "queued", !.todo = {}] /\ losses' = losses + 1
          /\ losses < MaxLosses
      BY <2>3 DEF SweepLost
    <3>2. /\ sweep' \in [st : SweepStages, run : 0..(MaxLosses + 1), todo : SUBSET Header]
          /\ sweep'.st = "queued" /\ sweep'.run = sweep.run /\ sweep'.todo = {}
      BY <1>1, <3>1 DEF SweepStages
    <3>3. losses' \in 0..MaxLosses /\ SweepProgress'
      BY <1>1, <2>2, <3>1, <3>2, BoundsAssumption DEF SweepProgress
    <3>. QED  BY <2>1, <3>2, <3>3, <1>0
  <2>4. CASE BeatFires \/ SweepReturns \/ SweepAcked
    <3>1. \E s \in SweepStages \ {"idle", "publishing"} :
            /\ sweep' = [sweep EXCEPT !.st = s]
            /\ sweep.st \in {"idle", "over"} \/ (sweep.st = "publishing" /\ sweep.todo = {})
            /\ s = "queued" => sweep.st = "idle"
      BY <2>4 DEF BeatFires, SweepReturns, SweepAcked, SweepStages
    <3> PICK s \in SweepStages \ {"idle", "publishing"} :
            /\ sweep' = [sweep EXCEPT !.st = s]
            /\ sweep.st \in {"idle", "over"} \/ (sweep.st = "publishing" /\ sweep.todo = {})
            /\ s = "queued" => sweep.st = "idle"
      BY <3>1
    <3>2. /\ sweep' \in [st : SweepStages, run : 0..(MaxLosses + 1), todo : SUBSET Header]
          /\ sweep'.st = s /\ sweep'.run = sweep.run /\ sweep'.todo = sweep.todo
      BY <1>1
    <3>3. losses' = losses
      BY <2>4 DEF BeatFires, SweepReturns, SweepAcked
    <3>4. SweepProgress'
      BY <1>1, <2>2, <3>2, <3>3 DEF SweepProgress
    <3>. QED  BY <1>1, <2>1, <3>2, <3>3, <3>4, <1>0
  <2>. QED  BY <1>2, <2>3, <2>4
<1>3. CASE ListMetrics
  <2> PICK S \in SUBSET Pairs :
           /\ sweep' = [st |-> IF S = {} THEN "over" ELSE "publishing",
                        run |-> sweep.run + 1, todo |-> S \X Kinds]
           /\ header' = [header EXCEPT ![sweep.run + 1] = S \X Kinds]
    BY <1>3 DEF ListMetrics
  <2>1. S \X Kinds \in SUBSET Header /\ (S = {} => S \X Kinds = {})
    BY DEF Header
  <2>2. JobsTyped' /\ Rest'
    BY <1>1, <1>3, <2>1 DEF ListMetrics, letters
  <2>3. sweep.run \in Nat /\ losses \in Nat /\ sweep.run <= losses /\ losses <= MaxLosses
    BY <1>1, <1>3, BoundsAssumption DEF ListMetrics, SweepProgress
  <2>4. losses' = losses
    BY <1>3 DEF ListMetrics
  <2>5. sweep' \in [st : SweepStages, run : 0..(MaxLosses + 1), todo : SUBSET Header]
    BY <2>1, <2>3, BoundsAssumption DEF SweepStages
  <2>6. SweepProgress'
    BY <2>1, <2>3, <2>4 DEF SweepProgress
  <2>. QED  BY <1>0, <1>1, <2>2, <2>4, <2>5, <2>6
<1>4. ASSUME NEW x \in Header, PublishJob(x) PROVE TypeInv'
  <2>1. JobsTyped'
    BY <1>1, <1>4, PublishEffect DEF OnlyJob
  <2>2. Rest'
    BY <1>1, <1>4 DEF PublishJob, letters
  <2>3. SweepTyped'
    BY <1>1, <1>4 DEF PublishJob, SweepProgress
  <2>. QED  BY <1>0, <2>1, <2>2, <2>3
<1>5. CASE SweepFails
  <2>1. JobsTyped' /\ Rest'
    BY <1>1, <1>5, BuryType DEF SweepFails
  <2>2. SweepTyped'
    BY <1>1, <1>5, BoundsAssumption DEF SweepFails, SweepProgress, SweepStages
  <2>. QED  BY <1>0, <2>1, <2>2
<1>6. ASSUME NEW r \in Runs, NEW x \in Header, JobStep(r, x) \/ JobLost(r, x) PROVE TypeInv'
  <2>1. JobsTyped'
    <3>1. PICK v \in Record : OnlyJob(r, x, v) /\ v.retries <= Retries[x[2]]
      BY <1>6, JobActionEffect
    <3>. QED  BY <1>1, <3>1 DEF OnlyJob
  <2>2. Rest'
    <3>1. <<r, x>> \in Runs \X Header
      OBVIOUS
    <3>2. CASE JobFails(r, x)
      BY <1>1, <3>1, <3>2, BuryType DEF JobFails
    <3>3. CASE ~JobFails(r, x)
      BY <1>1, <1>6, <3>1, <3>3
         DEF JobStep, TakeJob, JobSucceeds, JobRetries, JobKilled, JobLost, letters
    <3>. QED  BY <3>2, <3>3
  <2>3. /\ UNCHANGED sweep
        /\ UNCHANGED losses \/ (losses' = losses + 1 /\ losses < MaxLosses)
    <3>1. CASE JobStep(r, x)
      BY <3>1 DEF JobStep, TakeJob, JobSucceeds, JobRetries, JobFails, JobKilled
    <3>2. CASE JobLost(r, x)
      BY <3>2 DEF JobLost
    <3>. QED  BY <1>6, <3>1, <3>2
  <2>4. sweep.run \in Nat /\ losses \in Nat
    BY <1>1, BoundsAssumption
  <2>5. losses' \in 0..MaxLosses /\ losses <= losses'
    BY <1>1, <2>3, <2>4, BoundsAssumption
  <2>6. losses' \in Nat
    BY <2>5, BoundsAssumption
  <2>7. SweepProgress'
    BY <1>1, <2>3, <2>4, <2>5, <2>6 DEF SweepProgress
  <2>. QED  BY <1>0, <1>1, <2>1, <2>2, <2>3, <2>5, <2>7
<1>7. ASSUME NEW r \in Runs, ChordCompletes(r) PROVE TypeInv'
  BY <1>0, <1>1, <1>7 DEF ChordCompletes, letters, SweepProgress
<1>8. CASE UNCHANGED vars
  BY <1>0, <1>1, <1>8 DEF vars, letters, SweepProgress
<1>. QED  BY <1>2, <1>3, <1>4, <1>5, <1>6, <1>7, <1>8 DEF Next, SweepStep, Quiescent

(***************************************************************************)
(* Type correctness: no detector task is retried more often than its       *)
(* max_retries, no sweep runs more often than its message was delivered,   *)
(* and only tasks of a chord appear among the dead letters.                *)
(***************************************************************************)
THEOREM SweepTypes == Spec => []TypeOK
<1>1. Init => TypeInv
  BY SweepInitInv DEF SweepInv
<1>. QED  BY <1>1, TypeStep, PTL DEF Spec, TypeInv

-----------------------------------------------------------------------------
\* The chord's invariant survives every step: a header is fixed when its run starts and
\* every task of it is published at most once; a task that succeeded never runs again.
LEMMA ChordStep == TypeInv /\ ChordInv /\ [Next]_vars => ChordInv'
<1> SUFFICES ASSUME TypeInv, ChordInv, [Next]_vars PROVE ChordInv'
  OBVIOUS
<1>. USE DEF ChordInv
<1>1. /\ job \in [Runs -> [Header -> Record]]
      /\ header \in [Runs -> SUBSET Header]
      /\ sweep.run \in Nat /\ sweep.todo \subseteq Header
      /\ callbacks \subseteq Runs
      /\ \A r \in Runs : r \in Nat
  BY BoundsAssumption DEF TypeInv, TypeOK, Record, Runs
<1>2. CASE BeatFires \/ SweepReturns \/ SweepAcked \/ SweepLost \/ SweepFails
  <2>1. UNCHANGED <<header, job, callbacks>>
    BY <1>2 DEF BeatFires, SweepReturns, SweepAcked, SweepLost, SweepFails
  <2>2. sweep'.run = sweep.run /\ sweep'.todo \subseteq sweep.todo
    BY <1>2 DEF BeatFires, SweepReturns, SweepAcked, SweepLost, SweepFails, TypeInv, TypeOK
  <2>. QED  BY <2>1, <2>2 DEF HeaderShape, TodoAbsent, JobsInHeader, CallbackHeader
<1>3. CASE ListMetrics
  <2> PICK S \in SUBSET Pairs :
           /\ sweep' = [st |-> IF S = {} THEN "over" ELSE "publishing",
                        run |-> sweep.run + 1, todo |-> S \X Kinds]
           /\ header' = [header EXCEPT ![sweep.run + 1] = S \X Kinds]
    BY <1>3 DEF ListMetrics
  <2> DEFINE n == sweep.run + 1
  <2>1. UNCHANGED <<job, callbacks>>
    BY <1>3 DEF ListMetrics
  <2>2. n \in Runs
    BY <1>3, <1>1, BoundsAssumption DEF ListMetrics, TypeInv, TypeOK, SweepProgress, Runs
  <2>3. header[n] = {} /\ n \notin callbacks
    BY <1>1, <2>2 DEF HeaderShape, CallbackHeader
  <2>4. \A x \in Header : job[n][x].st = "absent"
    BY <2>2, <2>3 DEF JobsInHeader
  <2>5. /\ header'[n] = S \X Kinds
        /\ \A r \in Runs \ {n} : header'[r] = header[r]
        /\ sweep'.run = n /\ sweep'.todo = S \X Kinds
    BY <1>1, <2>2
  <2>6. S \X Kinds \subseteq Header
    BY DEF Header
  <2>7. HeaderShape'
    <3> SUFFICES ASSUME NEW r \in Runs
                 PROVE  /\ \E T \in SUBSET Pairs : header'[r] = T \X Kinds
                        /\ r > sweep'.run => header'[r] = {}
      BY DEF HeaderShape
    <3>1. CASE r = n
      BY <1>1, <2>5, <3>1
    <3>2. CASE r # n
      <4>1. header'[r] = header[r] /\ (r > n => r > sweep.run)
        BY <1>1, <2>5, <3>2
      <4>2. /\ \E T \in SUBSET Pairs : header[r] = T \X Kinds
            /\ r > sweep.run => header[r] = {}
        BY DEF HeaderShape
      <4>. QED  BY <2>5, <4>1, <4>2
    <3>. QED  BY <3>1, <3>2
  <2>8. TodoAbsent'
    BY <2>1, <2>4, <2>5, <2>6 DEF TodoAbsent
  <2>9. JobsInHeader'
    BY <2>1, <2>4, <2>5 DEF JobsInHeader
  <2>10. CallbackHeader'
    BY <1>1, <2>1, <2>3, <2>5 DEF CallbackHeader
  <2>. QED  BY <2>7, <2>8, <2>9, <2>10
<1>4. ASSUME NEW x \in Header, PublishJob(x) PROVE ChordInv'
  <2> DEFINE n == sweep.run
  <2>1. n \in Runs
    BY <1>4, PublishEffect
  <2>2. PICK v \in Record : OnlyJob(n, x, v) /\ v.st = "queued"
    BY <1>4, PublishEffect
  <2>3. x \in sweep.todo /\ UNCHANGED <<header, callbacks>>
        /\ sweep'.run = n /\ sweep'.todo = sweep.todo \ {x}
    BY <1>4 DEF PublishJob, TypeInv, TypeOK
  <2>4. x \in header[n] /\ job[n][x].st = "absent"
    BY <2>3 DEF TodoAbsent
  <2>5. n \notin callbacks
    BY <2>1, <2>4 DEF CallbackHeader
  <2>6. HeaderShape'
    BY <2>3 DEF HeaderShape
  <2>7. TodoAbsent'
    BY <1>1, <2>1, <2>2, <2>3 DEF TodoAbsent, OnlyJob
  <2>8. JobsInHeader'
    BY <2>2, <2>3, <2>4 DEF JobsInHeader, OnlyJob
  <2>9. CallbackHeader'
    BY <1>1, <2>2, <2>3, <2>5 DEF CallbackHeader, OnlyJob
  <2>. QED  BY <2>6, <2>7, <2>8, <2>9
<1>5. ASSUME NEW r \in Runs, NEW x \in Header, JobStep(r, x) \/ JobLost(r, x) PROVE ChordInv'
  <2>0. TypeOK
    BY DEF TypeInv
  <2>1. PICK v \in Record : OnlyJob(r, x, v) /\ v.st # "absent"
    BY <1>5, <2>0, JobActionEffect
  <2>2. job[r][x].st \in {"queued", "running"} /\ UNCHANGED <<sweep, header, callbacks>>
    BY <1>5, <2>0, JobActionEffect
  <2>3. x \in header[r] /\ r \notin callbacks
    BY <2>2 DEF JobsInHeader, CallbackHeader
  <2>4. HeaderShape'
    BY <2>2 DEF HeaderShape
  <2>5. sweep.todo # {} => sweep.run \in Runs
    BY <1>1, BoundsAssumption DEF TypeInv, TypeOK, SweepProgress, Runs
  <2>6. TodoAbsent'
    BY <1>1, <2>1, <2>2, <2>5 DEF TodoAbsent, OnlyJob
  <2>7. JobsInHeader'
    BY <2>1, <2>2, <2>3 DEF JobsInHeader, OnlyJob
  <2>8. CallbackHeader'
    BY <1>1, <2>1, <2>2, <2>3 DEF CallbackHeader, OnlyJob
  <2>. QED  BY <2>4, <2>6, <2>7, <2>8
<1>6. ASSUME NEW r \in Runs, ChordCompletes(r) PROVE ChordInv'
  BY <1>6, ZenonT(60) DEF ChordCompletes, HeaderShape, TodoAbsent, JobsInHeader, CallbackHeader
<1>7. CASE UNCHANGED vars
  BY <1>7 DEF vars, HeaderShape, TodoAbsent, JobsInHeader, CallbackHeader
<1>. QED  BY <1>2, <1>3, <1>4, <1>5, <1>6, <1>7 DEF Next, SweepStep, Quiescent

\* A callback follows from a header that has succeeded.
LEMMA ChordGivesComplete == TypeInv /\ ChordInv => CallbackComplete
<1> SUFFICES ASSUME TypeInv, ChordInv, NEW r \in callbacks
             PROVE  \E S \in SUBSET Pairs :
                      S # {} /\ {x \in Header : job[r][x].st = "ok"} = S \X Kinds
  BY DEF CallbackComplete
<1>1. r \in Runs /\ header[r] \subseteq Header
  BY DEF TypeInv, TypeOK
<1>2. PICK S \in SUBSET Pairs : header[r] = S \X Kinds
  BY <1>1 DEF ChordInv, HeaderShape
<1>3. header[r] # {} /\ \A x \in header[r] : job[r][x].st = "ok"
  BY DEF ChordInv, CallbackHeader
<1>4. S # {}
  BY <1>2, <1>3
<1>5. \A x \in Header : job[r][x].st = "ok" => x \in header[r]
  BY <1>1 DEF ChordInv, JobsInHeader
<1>6. {x \in Header : job[r][x].st = "ok"} = header[r]
  BY <1>1, <1>3, <1>5
<1>. QED  BY <1>2, <1>4, <1>6

(***************************************************************************)
(* aggregate_and_alert is published for a run only when each detector of   *)
(* each pair its sweep listed has answered.                                *)
(***************************************************************************)
THEOREM CallbackOnlyWhenComplete == Spec => []CallbackComplete
<1>1. Init => TypeInv /\ ChordInv
  BY SweepInitInv DEF SweepInv
<1>2. TypeInv /\ ChordInv /\ [Next]_vars => (TypeInv /\ ChordInv)'
  BY TypeStep, ChordStep
<1>. QED  BY <1>1, <1>2, ChordGivesComplete, PTL DEF Spec
-----------------------------------------------------------------------------
\* A task is on record as failed exactly when it has failed, whatever step comes next.
LEMMA RecordStep == SweepInv /\ [Next]_vars => FailuresOnRecord'
<1> SUFFICES ASSUME SweepInv, [Next]_vars PROVE FailuresOnRecord'
  OBVIOUS
<1> DEFINE OnRecord == deadLetters \union unrecorded \union killed
<1>0. TypeInv /\ TypeOK /\ FailuresOnRecord
  BY DEF SweepInv, TypeInv
<1>1. \A r \in Runs, x \in Header : <<r, x>> # SweepTask
  <2> TAKE r \in Runs, x \in Header
  <2>1. r \in Nat /\ x \in Pairs \X Kinds
    BY BoundsAssumption DEF Runs, Header
  <2>2. <<r, x>> \in Nat \X (Pairs \X Kinds)
    BY <2>1
  <2>. QED  BY <2>2, SweepTaskAssumption
<1>2. CASE BeatFires \/ SweepReturns \/ SweepAcked \/ SweepLost \/ ListMetrics
           \/ (\E r \in Runs : ChordCompletes(r)) \/ UNCHANGED vars
  <2>1. UNCHANGED <<job, deadLetters, unrecorded, killed>>
    BY <1>2 DEF BeatFires, SweepReturns, SweepAcked, SweepLost, ListMetrics, ChordCompletes,
                letters, vars
  <2>. QED  BY <1>0, <2>1 DEF FailuresOnRecord
<1>3. ASSUME NEW x \in Header, PublishJob(x) PROVE FailuresOnRecord'
  <2>1. sweep.run \in Runs /\ job[sweep.run][x].st = "absent"
    BY <1>0, <1>3, PublishEffect DEF PublishJob, SweepInv, ChordInv, TodoAbsent
  <2>2. PICK v \in Record : OnlyJob(sweep.run, x, v) /\ v.st = "queued"
    BY <1>0, <1>3, PublishEffect
  <2>3. OnRecord' = OnRecord
    BY <1>3 DEF PublishJob, letters
  <2> SUFFICES ASSUME NEW s \in Runs, NEW y \in Header
               PROVE  job'[s][y].st = "failed" <=> <<s, y>> \in OnRecord'
    BY DEF FailuresOnRecord
  <2>4. job[s][y].st = "failed" <=> <<s, y>> \in OnRecord
    BY <1>0 DEF FailuresOnRecord
  <2>5. job'[s][y].st = "failed" <=> job[s][y].st = "failed"
    BY <2>1, <2>2 DEF OnlyJob
  <2>. QED  BY <2>3, <2>4, <2>5
<1>4. CASE SweepFails
  <2>1. UNCHANGED job /\ OnRecord' = OnRecord \union {SweepTask}
    BY <1>4 DEF SweepFails, Bury
  <2>. QED  BY <1>0, <1>1, <2>1 DEF FailuresOnRecord
<1>5. ASSUME NEW r \in Runs, NEW x \in Header, JobStep(r, x) \/ JobLost(r, x)
      PROVE  FailuresOnRecord'
  <2>1. job[r][x].st \in {"queued", "running"}
    BY <1>0, <1>5, JobActionEffect
  <2>2. <<r, x>> \notin OnRecord
    BY <1>0, <2>1 DEF FailuresOnRecord
  <2>3. PICK v \in Record : OnlyJob(r, x, v)
    BY <1>0, <1>5, JobActionEffect
  <2>4. job'[r][x] = v
    BY <2>3 DEF OnlyJob
  <2>5. (v.st = "failed" /\ OnRecord' = OnRecord \union {<<r, x>>})
        \/ (v.st # "failed" /\ OnRecord' = OnRecord)
    <3>1. job[r][x] \in Record /\ job \in [Runs -> [Header -> Record]]
      BY <1>0 DEF TypeOK, Record
    <3>2. CASE JobFails(r, x) \/ JobKilled(r, x)
      BY <2>4, <3>1, <3>2 DEF JobFails, JobKilled, Bury, letters, Record
    <3>3. CASE TakeJob(r, x) \/ JobSucceeds(r, x) \/ JobRetries(r, x) \/ JobLost(r, x)
      BY <2>4, <3>1, <3>3 DEF TakeJob, JobSucceeds, JobRetries, JobLost, letters, Record
    <3>. QED  BY <1>5, <3>2, <3>3 DEF JobStep
  <2> SUFFICES ASSUME NEW s \in Runs, NEW y \in Header
               PROVE  job'[s][y].st = "failed" <=> <<s, y>> \in OnRecord'
    BY DEF FailuresOnRecord
  <2>6. job[s][y].st = "failed" <=> <<s, y>> \in OnRecord
    BY <1>0 DEF FailuresOnRecord
  <2>7. CASE s = r /\ y = x
    BY <2>2, <2>4, <2>5, <2>7
  <2>8. CASE ~(s = r /\ y = x)
    <3>1. job'[s][y] = job[s][y]
      BY <2>3, <2>8 DEF OnlyJob
    <3>2. <<s, y>> # <<r, x>>
      BY <2>8
    <3>3. <<s, y>> \in OnRecord' <=> <<s, y>> \in OnRecord
      BY <2>5, <3>2
    <3>. QED  BY <2>6, <3>1, <3>3
  <2>. QED  BY <2>7, <2>8
<1>. QED  BY <1>2, <1>3, <1>4, <1>5 DEF Next, SweepStep, Quiescent

(***************************************************************************)
(* A detector task that failed for good leaves a dead letter, a log line   *)
(* or, after a hard time limit, is known as killed; no other task does.    *)
(***************************************************************************)
THEOREM FailuresAreOnRecord == Spec => []FailuresOnRecord
<1>1. SweepInv /\ [Next]_vars => SweepInv'
  BY TypeStep, ChordStep, RecordStep DEF SweepInv
<1>2. SweepInv => FailuresOnRecord
  BY DEF SweepInv
<1>. QED  BY <1>1, <1>2, SweepInitInv, PTL DEF Spec
-----------------------------------------------------------------------------
(* What liveness rests on *)

SweepRecorded == SweepTask \in deadLetters \union unrecorded

\* What has left the list of messages to publish was published; and a sweep task that
\* has ended without a record of its failure has published its whole header.
HeaderOut ==
  /\ sweep.st = "publishing" =>
       \A x \in header[sweep.run] : x \in sweep.todo \/ job[sweep.run][x].st # "absent"
  /\ sweep.st \in {"over", "done"} =>
       \/ SweepRecorded
       \/ sweep.run \in Runs /\ \A x \in header[sweep.run] : job[sweep.run][x].st # "absent"

\* A message leaves the list when it is published, and only losing the worker or failing
\* on record ends the task before its list is empty.
LEMMA HeaderOutStep == SweepInv /\ HeaderOut /\ [Next]_vars => HeaderOut'
<1> SUFFICES ASSUME SweepInv, HeaderOut, [Next]_vars PROVE HeaderOut'
  OBVIOUS
<1>0. /\ TypeInv /\ TypeOK
      /\ job \in [Runs -> [Header -> Record]] /\ header \in [Runs -> SUBSET Header]
      /\ sweep \in [st : SweepStages, run : 0..(MaxLosses + 1), todo : SUBSET Header]
  BY DEF SweepInv, TypeInv, TypeOK, Record
<1>1. sweep.st = "publishing" => sweep.run \in Runs
  BY <1>0, BoundsAssumption DEF TypeInv, SweepProgress, Runs
<1>2. CASE BeatFires \/ SweepLost
  <2>1. sweep'.st = "queued"
    BY <1>0, <1>2 DEF BeatFires, SweepLost
  <2>. QED  BY <2>1 DEF HeaderOut
<1>3. CASE ListMetrics
  <2>1. PICK S \in SUBSET Pairs :
          /\ sweep' = [st |-> IF S = {} THEN "over" ELSE "publishing",
                       run |-> sweep.run + 1, todo |-> S \X Kinds]
          /\ header' = [header EXCEPT ![sweep.run + 1] = S \X Kinds]
    BY <1>3 DEF ListMetrics
  <2>2. sweep.run + 1 \in Runs
    BY <1>0, <1>3, BoundsAssumption DEF ListMetrics, TypeInv, SweepProgress, TypeOK, Runs
  <2>3. sweep'.run = sweep.run + 1 /\ header'[sweep'.run] = S \X Kinds /\ sweep'.todo = S \X Kinds
    BY <1>0, <2>1, <2>2
  <2>4. sweep'.st = "over" => S \X Kinds = {}
    BY <2>1
  <2>5. sweep'.st \in {"over", "publishing"}
    BY <2>1
  <2>. QED  BY <2>2, <2>3, <2>4, <2>5 DEF HeaderOut
<1>4. ASSUME NEW x \in Header, PublishJob(x) PROVE HeaderOut'
  <2>1. sweep.st = "publishing" /\ sweep.run \in Runs
    BY <1>1, <1>4 DEF PublishJob
  <2>2. PICK v \in Record : OnlyJob(sweep.run, x, v) /\ v.st = "queued"
    BY <1>0, <1>4, PublishEffect
  <2>3. /\ sweep'.st = "publishing" /\ sweep'.run = sweep.run /\ sweep'.todo = sweep.todo \ {x}
        /\ header' = header
    BY <1>0, <1>4, <2>1 DEF PublishJob
  <2>4. ASSUME NEW y \in header[sweep.run]
        PROVE  y \in sweep.todo \ {x} \/ job'[sweep.run][y].st # "absent"
    <3>1. y \in Header
      BY <1>0, <2>1
    <3>2. y \in sweep.todo \/ job[sweep.run][y].st # "absent"
      BY <2>1 DEF HeaderOut
    <3>3. job'[sweep.run][y] = IF y = x THEN v ELSE job[sweep.run][y]
      BY <2>1, <2>2, <3>1 DEF OnlyJob
    <3>. QED  BY <2>2, <3>2, <3>3
  <2>. QED  BY <2>3, <2>4 DEF HeaderOut
<1>5. CASE SweepFails
  <2>1. sweep'.st = "over" /\ SweepRecorded'
    BY <1>0, <1>5 DEF SweepFails, Bury, SweepRecorded
  <2>. QED  BY <2>1 DEF HeaderOut
<1>6. CASE SweepReturns \/ SweepAcked
  <2>1. /\ sweep'.st \in {"over", "done"} /\ sweep'.run = sweep.run
        /\ UNCHANGED <<header, job, deadLetters, unrecorded>>
        /\ \/ sweep.st = "publishing" /\ sweep.todo = {}
           \/ sweep.st = "over"
    BY <1>0, <1>6 DEF SweepReturns, SweepAcked, letters
  <2>2. SweepRecorded \/ (sweep.run \in Runs
                         /\ \A x \in header[sweep.run] : job[sweep.run][x].st # "absent")
    BY <1>1, <2>1 DEF HeaderOut
  <2>. QED  BY <2>1, <2>2 DEF HeaderOut, SweepRecorded
<1>7. ASSUME NEW r \in Runs, NEW x \in Header, JobStep(r, x) \/ JobLost(r, x) PROVE HeaderOut'
  <2>1. PICK v \in Record : OnlyJob(r, x, v) /\ v.st # "absent"
    BY <1>0, <1>7, JobActionEffect
  <2>2. UNCHANGED <<sweep, header>>
    BY <1>0, <1>7, JobActionEffect
  <2>3. SweepRecorded => SweepRecorded'
    BY <1>7 DEF SweepRecorded, JobStep, TakeJob, JobSucceeds, JobRetries, JobFails, JobKilled, JobLost,
                Bury, letters
  <2>4. ASSUME NEW s \in Runs, NEW y \in header[s], job[s][y].st # "absent"
        PROVE  job'[s][y].st # "absent"
    <3>1. y \in Header
      BY <1>0
    <3>2. job'[s][y] = IF s = r /\ y = x THEN v ELSE job[s][y]
      BY <2>1, <3>1 DEF OnlyJob
    <3>. QED  BY <2>1, <2>4, <3>2
  <2>. QED  BY <1>1, <2>2, <2>3, <2>4 DEF HeaderOut
<1>8. CASE (\E r \in Runs : ChordCompletes(r)) \/ Quiescent \/ UNCHANGED vars
  <2>1. UNCHANGED <<sweep, header, job, deadLetters, unrecorded>>
    BY <1>8 DEF ChordCompletes, Quiescent, letters, vars
  <2>. QED  BY <2>1 DEF HeaderOut, SweepRecorded
<1>. QED  BY <1>2, <1>3, <1>4, <1>5, <1>6, <1>7, <1>8 DEF Next, SweepStep

\* The sweep task is acknowledged, no detector task is queued or running, and no chord
\* waits for its callback.
SweepAtRest ==
  /\ sweep.st = "done"
  /\ \A r \in Runs :
       /\ Pending(r) = {}
       /\ header[r] # {} /\ (\A x \in header[r] : job[r][x].st = "ok") => r \in callbacks

RestIsConcluded == SweepAtRest => Concluded

(***************************************************************************)
(* No dead end: whenever nothing is left that fairness could move, the     *)
(* beat has come to something (SweepConcludes says it gets there).  A run  *)
(* cut short, a chord published twice or a message lost on the way never   *)
(* leaves the last chord waiting for a task that nobody will run.          *)
(***************************************************************************)
THEOREM SweepHasNoDeadEnd == Spec => []RestIsConcluded
<1>1. Init => SweepInv /\ HeaderOut
  <2>1. Init => HeaderOut
    BY DEF Init, HeaderOut
  <2>. QED  BY <2>1, SweepInitInv
<1>2. SweepInv /\ [Next]_vars => SweepInv'
  BY TypeStep, ChordStep, RecordStep DEF SweepInv
<1>3. SweepInv /\ HeaderOut => RestIsConcluded
  <2> SUFFICES ASSUME SweepInv, HeaderOut, SweepAtRest, ~SweepRecorded PROVE Concluded
    BY DEF RestIsConcluded, SweepAtRest, Concluded, SweepRecorded
  <2>1. PICK r : r = sweep.run
    OBVIOUS
  <2>2. r \in Runs /\ \A x \in header[r] : job[r][x].st # "absent"
    BY <2>1 DEF HeaderOut, SweepAtRest
  <2>3. header[r] \in SUBSET Header /\ \A x \in Header : job[r][x].st \in JobStages
    BY <2>2 DEF SweepInv, TypeInv, TypeOK
  <2>4. \A x \in header[r] : job[r][x].st \in {"ok", "failed"}
    BY <2>2, <2>3 DEF SweepAtRest, Pending, JobStages
  <2>5. header[r] = {} \/ r \in callbacks \/ ChordHasFailed(r)
    BY <2>2, <2>4 DEF SweepAtRest, ChordHasFailed
  <2>. QED  BY <2>1, <2>2, <2>5 DEF Concluded, SweepAtRest
<1>. QED  BY <1>1, <1>2, <1>3, HeaderOutStep, PTL DEF Spec

\* How far a detector task is from its end: in retries left, and in taking and running.
Distance(x, j) ==
  3 * (Retries[x[2]] - j.retries)
    + (CASE j.st = "absent" -> 3 [] j.st = "queued" -> 2 [] j.st = "running" -> 1 [] OTHER -> 0)

JobsAdvance ==
  [][\A r \in Runs, x \in Header :
       \/ job'[r][x] = job[r][x]
       \/ Distance(x, job'[r][x]) < Distance(x, job[r][x])
       \/ losses' = losses + 1]_vars

\* A detector task's record is changed by its own steps and by its publication.
LEMMA AdvanceStep ==
  ASSUME SweepInv, [Next]_vars, NEW r \in Runs, NEW x \in Header
  PROVE  \/ job'[r][x] = job[r][x]
         \/ Distance(x, job'[r][x]) < Distance(x, job[r][x])
         \/ losses' = losses + 1
<1>0. /\ TypeInv /\ TypeOK
      /\ job \in [Runs -> [Header -> Record]]
  BY DEF SweepInv, TypeInv, TypeOK, Record
<1>1. PICK m, n : m = Retries[x[2]] /\ n = job[r][x].retries
  OBVIOUS
<1>2. m \in Nat /\ n \in Nat /\ n <= m
  <2>1. x[2] \in Kinds
    BY DEF Header
  <2>. QED  BY <1>0, <1>1, <2>1, RetriesAssumption DEF TypeOK, Record
<1>3. ASSUME NEW y \in Header, PublishJob(y)
      PROVE  job'[r][x] = job[r][x] \/ Distance(x, job'[r][x]) < Distance(x, job[r][x])
  <2>1. PICK v \in Record : /\ OnlyJob(sweep.run, y, v) /\ v.st = "queued"
                            /\ v.retries = job[sweep.run][y].retries
    BY <1>0, <1>3, PublishEffect
  <2>2. CASE r = sweep.run /\ x = y
    <3>1. job[r][x].st = "absent"
      BY <1>3, <2>2 DEF PublishJob, SweepInv, ChordInv, TodoAbsent
    <3>2. job'[r][x] = v /\ v.retries = n
      BY <1>1, <2>1, <2>2 DEF OnlyJob
    <3>3. Distance(x, job[r][x]) = 3 * (m - n) + 3
      BY <1>1, <3>1 DEF Distance
    <3>4. Distance(x, job'[r][x]) = 3 * (m - n) + 2
      BY <1>1, <2>1, <3>2 DEF Distance
    <3>. QED  BY <1>2, <3>3, <3>4
  <2>3. CASE ~(r = sweep.run /\ x = y)
    BY <2>1, <2>3 DEF OnlyJob
  <2>. QED  BY <2>2, <2>3
<1>4. ASSUME NEW s \in Runs, NEW y \in Header, JobStep(s, y)
      PROVE  job'[r][x] = job[r][x] \/ Distance(x, job'[r][x]) < Distance(x, job[r][x])
  <2>1. CASE ~(r = s /\ x = y)
    BY <1>0, <1>4, <2>1, JobActionEffect DEF OnlyJob
  <2>2. CASE r = s /\ x = y
    <3>1. CASE TakeJob(r, x)
      <4>1. job[r][x].st = "queued" /\ job'[r][x].st = "running" /\ job'[r][x].retries = n
        BY <1>0, <1>1, <3>1 DEF TakeJob, Record
      <4>2. Distance(x, job[r][x]) = 3 * (m - n) + 2 /\ Distance(x, job'[r][x]) = 3 * (m - n) + 1
        BY <1>1, <4>1 DEF Distance
      <4>. QED  BY <1>2, <4>2
    <3>2. CASE JobSucceeds(r, x) \/ JobFails(r, x) \/ JobKilled(r, x)
      <4>1. job[r][x].st = "running" /\ job'[r][x].st \in {"ok", "failed"} /\ job'[r][x].retries = n
        <5>1. CASE JobSucceeds(r, x)
          BY <1>0, <1>1, <5>1 DEF JobSucceeds, Record
        <5>2. CASE JobFails(r, x) \/ JobKilled(r, x)
          <6>1. job[r][x].st = "running" /\ job' = [job EXCEPT ![r][x].st = "failed"]
            BY <5>2 DEF JobFails, JobKilled
          <6>. QED  BY <1>0, <1>1, <6>1 DEF Record
        <5>. QED  BY <3>2, <5>1, <5>2
      <4>2. Distance(x, job[r][x]) = 3 * (m - n) + 1 /\ Distance(x, job'[r][x]) = 3 * (m - n) + 0
        BY <1>1, <4>1 DEF Distance
      <4>. QED  BY <1>2, <4>2
    <3>3. CASE JobRetries(r, x)
      <4>1. /\ job[r][x].st = "running" /\ n < m
            /\ job'[r][x].st = "queued" /\ job'[r][x].retries = n + 1
        BY <1>0, <1>1, <3>3 DEF JobRetries, Record
      <4>2. Distance(x, job[r][x]) = 3 * (m - n) + 1 /\ Distance(x, job'[r][x]) = 3 * (m - (n + 1)) + 2
        BY <1>1, <4>1 DEF Distance
      <4>. QED  BY <1>2, <4>2
    <3>. QED  BY <1>4, <2>2, <3>1, <3>2, <3>3 DEF JobStep
  <2>. QED  BY <2>1, <2>2
<1>5. ASSUME NEW s \in Runs, NEW y \in Header, JobLost(s, y) PROVE losses' = losses + 1
  BY <1>5 DEF JobLost
<1>6. CASE BeatFires \/ ListMetrics \/ SweepFails \/ SweepReturns \/ SweepAcked \/ SweepLost
           \/ (\E s \in Runs : ChordCompletes(s)) \/ Quiescent \/ UNCHANGED vars
  BY <1>6 DEF BeatFires, ListMetrics, SweepFails, SweepReturns, SweepAcked, SweepLost, ChordCompletes,
              Quiescent, vars
<1>. QED  BY <1>3, <1>4, <1>5, <1>6 DEF Next, SweepStep

(***************************************************************************)
(* No livelock: each step of a detector task, a retry included, brings it  *)
(* nearer to its end by a measure that a lost worker alone sets back, of   *)
(* which there are MaxLosses.  No task is requeued for ever.               *)
(***************************************************************************)
THEOREM JobsOnlyAdvance == Spec => JobsAdvance
<1>1. SweepInv /\ [Next]_vars => SweepInv'
  BY TypeStep, ChordStep, RecordStep DEF SweepInv
<1>2. SweepInv /\ [Next]_vars =>
        [\A r \in Runs, x \in Header :
           \/ job'[r][x] = job[r][x]
           \/ Distance(x, job'[r][x]) < Distance(x, job[r][x])
           \/ losses' = losses + 1]_vars
  BY AdvanceStep
<1>. QED  BY <1>1, <1>2, SweepInitInv, PTL DEF Spec, JobsAdvance
==============================================================================
