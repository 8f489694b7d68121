-------------------------- MODULE ModelReuseProofs --------------------------
(***************************************************************************)
(* What holds of the detector tasks and of the models they share for any   *)
(* number of tasks, tenants, metrics and detectors, any maximum age, any   *)
(* time limits, and any number of lost workers.                            *)
(***************************************************************************)
EXTENDS ModelReuse, TLAPS

-----------------------------------------------------------------------------
(* The invariant *)

\* What is known at time n of a task whose record is x.
Timely(x, n) ==
  /\ x.st \in Executing => x.started <= n /\ n <= x.started + Limit[x.key.kind]
  /\ x.st \in Executing \ {"reading"} => x.started <= x.data /\ x.data <= n

HoldsModel(x) ==
  /\ x.st = "lookup" => Reuses(x.key)
  /\ x.st = "persisting" => x.model = [of |-> x.key, data |-> x.data]
  /\ x.st = "scoring" =>
       /\ x.model.of = x.key
       /\ x.started - x.model.data < MaxAge + Limit[x.key.kind]
       /\ ~Reuses(x.key) => x.model.data = x.data

Sound(x, n) == Timely(x, n) /\ HoldsModel(x)

\* A row is its key's own, and was written within a time limit of reading the series.
RowSound(r, n) ==
  /\ r.model.of = r.key
  /\ r.model.data <= r.trainedAt /\ r.trainedAt <= n
  /\ r.trainedAt <= r.model.data + Limit[r.key.kind]

OneRowPerKey == \A r, s \in models : r.key = s.key => r = s

ReuseInv ==
  /\ TypeOK
  /\ \A t \in Tasks : Sound(task[t], now)
  /\ \A r \in models : RowSound(r, now)
  /\ OneRowPerKey

\* A time limit is a positive number.
LEMMA LimitPositive == \A k \in Keys : Limit[k.kind] \in Nat /\ Limit[k.kind] > 0
BY LimitAssumption DEF Keys

\* A step that changes one task's record into a sound one keeps the invariant.
LEMMA OneTaskMoves ==
  ASSUME ReuseInv, NEW t \in Tasks,
         task' \in [Tasks -> TaskRecords],
         \A u \in Tasks \ {t} : task'[u] = task[u],
         task'[t].retries <= Retries[task'[t].key.kind],
         Sound(task'[t], now),
         losses' \in 0..MaxLosses,
         UNCHANGED <<now, models>>
  PROVE  ReuseInv'
<1>1. TypeOK'
  BY DEF ReuseInv, TypeOK
<1>2. \A u \in Tasks : Sound(task'[u], now')
  BY DEF ReuseInv
<1>. QED  BY <1>1, <1>2 DEF ReuseInv, OneRowPerKey

\* A task that has stopped is a well-typed record about which nothing is claimed.
LEMMA Stopped ==
  ASSUME ReuseInv, NEW t \in Tasks, NEW st \in {"queued", "ok", "failed"}
  PROVE  /\ Stop(t, st) \in TaskRecords
         /\ Stop(t, st).st = st
         /\ Stop(t, st).key = task[t].key
         /\ Stop(t, st).retries = task[t].retries
         /\ \A x \in TaskRecords : x.st = st => Sound(x, now)
<1>1. task[t] \in TaskRecords
  BY DEF ReuseInv, TypeOK
<1>2. [of |-> task[t].key, data |-> 0] \in Models
  BY <1>1 DEF TaskRecords, Models
<1>3. Stop(t, st) \in TaskRecords
  BY <1>1, <1>2 DEF Stop, TaskRecords, Stages
<1>4. \A x \in TaskRecords : x.st = st => Sound(x, now)
  BY DEF Sound, Timely, HoldsModel, Executing
<1>. QED  BY <1>1, <1>3, <1>4 DEF Stop, TaskRecords

\* The invariant holds before any task has been taken.
LEMMA InvInit == Init => ReuseInv
<1> SUFFICES ASSUME Init PROVE ReuseInv
  OBVIOUS
<1>1. PICK key \in [Tasks -> Keys] :
        task = [t \in Tasks |-> [Message(key[t]) EXCEPT !.st = "absent"]]
  BY DEF Init
<1>2. \A t \in Tasks : [of |-> key[t], data |-> 0] \in Models
  BY DEF Models
<1>3. \A t \in Tasks : task[t] \in TaskRecords /\ task[t].st = "absent"
                       /\ task[t].key = key[t] /\ task[t].retries = 0
  BY <1>1, <1>2 DEF Message, TaskRecords, Stages
<1>4. \A t \in Tasks : Retries[task[t].key.kind] \in Nat
  BY <1>3, RetriesAssumption DEF Keys
<1>5. TypeOK
  BY <1>1, <1>3, <1>4, BoundsAssumption DEF Init, TypeOK
<1>6. \A t \in Tasks : Sound(task[t], now)
  BY <1>3 DEF Sound, Timely, HoldsModel, Executing
<1>. QED  BY <1>5, <1>6 DEF ReuseInv, Init, OneRowPerKey
-----------------------------------------------------------------------------
(* Every step keeps it *)

LEMMA ExecutingSteps ==
  ASSUME ReuseInv, NEW t \in Tasks,
         Publish(t) \/ Take(t) \/ ReadSeries(t) \/ Reuse(t) \/ Miss(t) \/ Fit(t)
  PROVE  ReuseInv'
<1> DEFINE x == task[t]
<1>1. /\ x \in TaskRecords /\ Sound(x, now)
      /\ x.retries <= Retries[x.key.kind]
      /\ now \in Nat /\ losses \in 0..MaxLosses
      /\ task \in [Tasks -> TaskRecords]
  BY DEF ReuseInv, TypeOK
<1>2. x.key \in Keys /\ Limit[x.key.kind] \in Nat /\ Limit[x.key.kind] > 0
  BY <1>1, LimitPositive DEF TaskRecords
<1>3. CASE Publish(t)
  <2>1. task'[t] = [x EXCEPT !.st = "queued"] /\ task'[t] \in TaskRecords
    BY <1>1, <1>3 DEF Publish, TaskRecords, Stages
  <2>2. Sound(task'[t], now)
    BY <2>1, <1>1 DEF Sound, Timely, HoldsModel, Executing, TaskRecords
  <2>. QED  BY <1>1, <1>3, <2>1, <2>2, OneTaskMoves DEF Publish, TaskRecords
<1>4. CASE Take(t)
  <2>1. task'[t] = [x EXCEPT !.st = "reading", !.started = now] /\ task'[t] \in TaskRecords
    BY <1>1, <1>4 DEF Take, TaskRecords, Stages, Executing
  <2>2. Sound(task'[t], now)
    BY <2>1, <1>1, <1>2 DEF Sound, Timely, HoldsModel, Executing, TaskRecords
  <2>. QED  BY <1>1, <1>4, <2>1, <2>2, OneTaskMoves DEF Take, TaskRecords
<1>5. CASE ReadSeries(t)
  <2>1. CASE task' = [task EXCEPT ![t] = Stop(t, "ok")]
    BY <1>1, <1>5, <2>1, Stopped, OneTaskMoves DEF ReadSeries
  <2>2. CASE task' = [task EXCEPT ![t].st = IF Reuses(task[t].key) THEN "lookup" ELSE "fitting",
                                  ![t].data = now]
    <3>1. task'[t] = [x EXCEPT !.st = IF Reuses(x.key) THEN "lookup" ELSE "fitting", !.data = now]
          /\ task'[t] \in TaskRecords
      BY <1>1, <2>2 DEF TaskRecords, Stages, Executing
    <3>2. Timely(task'[t], now)
      BY <3>1, <1>1, <1>2, <1>5 DEF ReadSeries, Sound, Timely, Executing, TaskRecords
    <3>3. HoldsModel(task'[t])
      BY <3>1, <1>1 DEF HoldsModel, TaskRecords
    <3>. QED  BY <1>1, <1>5, <2>2, <3>1, <3>2, <3>3, OneTaskMoves DEF ReadSeries, Sound, TaskRecords
  <2>. QED  BY <1>5, <2>1, <2>2 DEF ReadSeries
<1>6. CASE Reuse(t)
  <2>1. PICK r \in Loadable(x.key) :
          task' = [task EXCEPT ![t].st = "scoring", ![t].model = r.model]
    BY <1>6 DEF Reuse
  <2>2. r \in models /\ r.key = x.key /\ r.trainedAt > now - MaxAge
    BY <2>1 DEF Loadable, Fresh
  <2>3. r \in Rows /\ RowSound(r, now)
    BY <2>2 DEF ReuseInv, TypeOK
  <2>4. /\ r.model \in Models /\ r.trainedAt \in Nat /\ r.model.data \in Nat
        /\ r.model.of = x.key
        /\ now - r.model.data < MaxAge + Limit[x.key.kind]
    BY <2>2, <2>3, <1>1, <1>2, MaxAgeAssumption DEF RowSound, Rows, Models
  <2>5. task'[t] = [x EXCEPT !.st = "scoring", !.model = r.model] /\ task'[t] \in TaskRecords
    BY <1>1, <2>1, <2>4 DEF TaskRecords, Stages, Executing
  <2>6. Timely(task'[t], now)
    BY <2>5, <1>1, <1>6 DEF Reuse, Sound, Timely, Executing, TaskRecords
  <2>7. x.started <= now /\ x.started \in Nat /\ Reuses(x.key)
    BY <1>1, <1>6 DEF Reuse, Sound, Timely, HoldsModel, Executing, TaskRecords
  <2>8. x.started - r.model.data < MaxAge + Limit[x.key.kind]
    BY <2>4, <2>7, <1>1, <1>2, MaxAgeAssumption
  <2>9. HoldsModel(task'[t])
    BY <2>4, <2>5, <2>7, <2>8, <1>1 DEF HoldsModel, TaskRecords
  <2>. QED  BY <1>1, <1>6, <2>1, <2>5, <2>6, <2>9, OneTaskMoves DEF Reuse, Sound, TaskRecords
<1>7. CASE Miss(t)
  <2>1. task'[t] = [x EXCEPT !.st = "fitting"] /\ task'[t] \in TaskRecords
    BY <1>1, <1>7 DEF Miss, TaskRecords, Stages, Executing
  <2>2. Sound(task'[t], now)
    BY <2>1, <1>1, <1>7 DEF Miss, Sound, Timely, HoldsModel, Executing, TaskRecords
  <2>. QED  BY <1>1, <1>7, <2>1, <2>2, OneTaskMoves DEF Miss, TaskRecords
<1>8. CASE Fit(t)
  <2>1. [of |-> x.key, data |-> x.data] \in Models
    BY <1>1 DEF TaskRecords, Models
  <2>2. task'[t] = [x EXCEPT !.st = "persisting", !.model = [of |-> x.key, data |-> x.data]]
        /\ task'[t] \in TaskRecords
    BY <1>1, <1>8, <2>1 DEF Fit, TaskRecords, Stages, Executing
  <2>3. Timely(task'[t], now)
    BY <2>2, <1>1, <1>8 DEF Fit, Sound, Timely, Executing, TaskRecords
  <2>4. HoldsModel(task'[t])
    BY <2>2, <1>1 DEF HoldsModel, TaskRecords
  <2>. QED  BY <1>1, <1>8, <2>2, <2>3, <2>4, OneTaskMoves DEF Fit, Sound, TaskRecords
<1>. QED  BY <1>3, <1>4, <1>5, <1>6, <1>7, <1>8

\* The ends of a run, good or bad, keep the invariant.
LEMMA EndingSteps ==
  ASSUME ReuseInv, NEW t \in Tasks,
         Detect(t) \/ RetryOrFail(t) \/ Killed(t) \/ WorkerLost(t)
  PROVE  ReuseInv'
<1> DEFINE x == task[t]
<1>1. /\ x \in TaskRecords /\ x.st \in Stages /\ x.retries \in Nat
      /\ x.retries <= Retries[x.key.kind]
      /\ losses \in 0..MaxLosses /\ MaxLosses \in Nat
      /\ task \in [Tasks -> TaskRecords]
  BY BoundsAssumption DEF ReuseInv, TypeOK, TaskRecords
<1>2. CASE Detect(t)
  BY <1>1, <1>2, Stopped, OneTaskMoves DEF Detect
<1>3. CASE Killed(t)
  BY <1>1, <1>3, Stopped, OneTaskMoves DEF Killed
<1>4. CASE WorkerLost(t)
  <2>1. losses' \in 0..MaxLosses
    BY <1>1, <1>4 DEF WorkerLost
  <2>. QED  BY <1>1, <1>4, <2>1, Stopped, OneTaskMoves DEF WorkerLost
<1>5. CASE RetryOrFail(t)
  <2>1. CASE x.retries < Retries[x.key.kind]
    <3> DEFINE y == [Stop(t, "queued") EXCEPT !.retries = @ + 1]
    <3>1. /\ y \in TaskRecords /\ y.st = "queued" /\ y.key = x.key
          /\ y.retries = x.retries + 1
      BY <1>1, Stopped DEF TaskRecords
    <3>2. y.retries <= Retries[y.key.kind] /\ Sound(y, now)
      <4>1. x.key.kind \in Kinds
        BY <1>1 DEF TaskRecords, Keys
      <4>2. Retries[x.key.kind] \in Nat
        BY <4>1, RetriesAssumption
      <4>3. y.retries <= Retries[y.key.kind]
        BY <1>1, <2>1, <3>1, <4>2
      <4>4. Sound(y, now)
        BY <3>1, Stopped
      <4>. QED  BY <4>3, <4>4
    <3>3. task' = [task EXCEPT ![t] = y] /\ UNCHANGED <<now, models, losses>>
      BY <1>5, <2>1 DEF RetryOrFail
    <3>. HIDE DEF y
    <3>. QED  BY <1>1, <3>1, <3>2, <3>3, OneTaskMoves
  <2>2. CASE ~(x.retries < Retries[x.key.kind])
    <3> DEFINE y == [Stop(t, "failed") EXCEPT !.brokeAt = x.st]
    <3>1. y \in TaskRecords /\ y.st = "failed" /\ y.key = x.key /\ y.retries = x.retries
      BY <1>1, Stopped DEF TaskRecords
    <3>2. y.retries <= Retries[y.key.kind] /\ Sound(y, now)
      BY <1>1, <3>1, Stopped
    <3>3. task' = [task EXCEPT ![t] = y] /\ UNCHANGED <<now, models, losses>>
      BY <1>5, <2>2 DEF RetryOrFail
    <3>. HIDE DEF y
    <3>. QED  BY <1>1, <3>1, <3>2, <3>3, OneTaskMoves
  <2>. QED  BY <2>1, <2>2
<1>. QED  BY <1>2, <1>3, <1>4, <1>5

\* What task t writes to the table is a sound row of its own key.
LEMMA WrittenRow ==
  ASSUME ReuseInv, NEW t \in Tasks, task[t].st = "persisting"
  PROVE  LET r == [key |-> task[t].key, model |-> task[t].model, trainedAt |-> now]
         IN r \in Rows /\ RowSound(r, now)
<1> DEFINE x == task[t]
<1>1. x \in TaskRecords /\ Timely(x, now) /\ HoldsModel(x) /\ now \in Nat
  BY DEF ReuseInv, TypeOK, Sound
<1>2. x.key \in Keys /\ Limit[x.key.kind] \in Nat /\ x.model \in Models
      /\ x.started \in Nat /\ x.data \in Nat
  BY <1>1, LimitPositive DEF TaskRecords
<1>3. x.model.of = x.key /\ x.model.data = x.data
  BY <1>1 DEF HoldsModel
<1>4. x.started <= x.data /\ x.data <= now /\ now <= x.started + Limit[x.key.kind]
  BY <1>1 DEF Timely, Executing
<1>. QED  BY <1>1, <1>2, <1>3, <1>4 DEF Rows, RowSound

\* An upsert keeps it: the row is the task's, and replaces the one row of its key.
LEMMA PersistStep ==
  ASSUME ReuseInv, NEW t \in Tasks, Persist(t)
  PROVE  ReuseInv'
<1> DEFINE x == task[t]
           w == [key |-> x.key, model |-> x.model, trainedAt |-> now]
<1>1. /\ x \in TaskRecords /\ Timely(x, now) /\ HoldsModel(x)
      /\ now \in 0..MaxTime /\ losses \in 0..MaxLosses
      /\ task \in [Tasks -> TaskRecords] /\ x.st = "persisting"
  BY DEF ReuseInv, TypeOK, Sound, Persist
<1>2. x.key \in Keys /\ Limit[x.key.kind] \in Nat /\ Limit[x.key.kind] > 0
      /\ x.started \in Nat /\ x.data \in Nat
  BY <1>1, LimitPositive DEF TaskRecords
<1>3. task'[t] = [x EXCEPT !.st = "scoring"] /\ task' \in [Tasks -> TaskRecords]
      /\ (\A u \in Tasks \ {t} : task'[u] = task[u])
      /\ UNCHANGED <<now, losses>>
  BY <1>1 DEF Persist, TaskRecords, Stages, Executing
<1>4. Sound(task'[t], now)
  <2>1. Timely(task'[t], now)
    BY <1>1, <1>3 DEF Timely, Executing, TaskRecords
  <2>2. x.model.of = x.key /\ x.model.data = x.data
    BY <1>1 DEF HoldsModel
  <2>3. x.started - x.data < MaxAge + Limit[x.key.kind]
    <3>1. x.started <= x.data
      BY <1>1 DEF Timely, Executing
    <3>. QED  BY <3>1, <1>2, MaxAgeAssumption
  <2>4. HoldsModel(task'[t])
    BY <1>1, <1>3, <2>2, <2>3 DEF HoldsModel, TaskRecords
  <2>. QED  BY <2>1, <2>4 DEF Sound
<1>5. w \in Rows /\ RowSound(w, now)
  BY <1>1, WrittenRow
<1>6. models' = models \/ models' = {s \in models : s.key # x.key} \union {w}
  BY DEF Persist, Upsert
<1>7. models' \subseteq Rows /\ (\A r \in models' : RowSound(r, now)) /\ OneRowPerKey'
  BY <1>5, <1>6 DEF ReuseInv, TypeOK, OneRowPerKey
<1>8. \A u \in Tasks : Sound(task'[u], now) /\ task'[u].retries <= Retries[task'[u].key.kind]
  BY <1>1, <1>3, <1>4 DEF ReuseInv, TypeOK, TaskRecords
<1>. QED  BY <1>1, <1>3, <1>7, <1>8 DEF ReuseInv, TypeOK

\* Time keeps it: no run outlives its limit, so what a task holds ages with its run only.
LEMMA TickStep ==
  ASSUME ReuseInv, Tick
  PROVE  ReuseInv'
<1>1. now \in Nat /\ now' = now + 1 /\ now' \in 0..MaxTime /\ UNCHANGED <<models, task, losses>>
  BY BoundsAssumption DEF ReuseInv, TypeOK, Tick
<1>2. TypeOK'
  BY <1>1 DEF ReuseInv, TypeOK
<1>3. ASSUME NEW t \in Tasks PROVE Sound(task[t], now + 1)
  <2> DEFINE x == task[t]
  <2>1. x \in TaskRecords /\ Timely(x, now) /\ HoldsModel(x)
    BY DEF ReuseInv, TypeOK, Sound
  <2>2. x.started \in Nat /\ x.data \in Nat /\ Limit[x.key.kind] \in Nat
    BY <2>1, LimitPositive DEF TaskRecords
  <2>3. x.st \in Executing => ~(now >= x.started + Limit[x.key.kind])
    BY DEF Tick, Expired
  <2>4. Timely(x, now + 1)
    BY <2>1, <2>2, <2>3, <1>1 DEF Timely
  <2>. QED  BY <2>1, <2>4 DEF Sound
<1>4. ASSUME NEW r \in models PROVE RowSound(r, now + 1)
  <2>1. r \in Rows /\ RowSound(r, now)
    BY DEF ReuseInv, TypeOK
  <2>. QED  BY <2>1, <1>1 DEF RowSound, Rows
<1>. QED  BY <1>1, <1>2, <1>3, <1>4 DEF ReuseInv, OneRowPerKey

\* Every step of every task keeps it.
LEMMA InvStep == ReuseInv /\ [Next]_vars => ReuseInv'
<1> SUFFICES ASSUME ReuseInv, [Next]_vars PROVE ReuseInv'
  OBVIOUS
<1>1. ASSUME NEW t \in Tasks, Step(t) PROVE ReuseInv'
  BY <1>1, ExecutingSteps, EndingSteps, PersistStep DEF Step
<1>2. CASE UNCHANGED vars
  BY <1>2 DEF vars, ReuseInv, TypeOK, OneRowPerKey
<1>. QED  BY <1>1, <1>2, TickStep DEF Next, Finished

(***************************************************************************)
(* In every behaviour of the detector tasks a run is within its time limit *)
(* and read its series since it began, a row was written within a limit of *)
(* the reading, and a key has one row.                                     *)
(***************************************************************************)
THEOREM ReuseInvariant == Spec => []ReuseInv
BY InvInit, InvStep, PTL DEF Spec
-----------------------------------------------------------------------------
(* What follows *)

\* Every variable keeps its type.
THEOREM ModelsTyped == Spec => []TypeOK
<1>1. ReuseInv => TypeOK
  BY DEF ReuseInv
<1>. QED  BY <1>1, ReuseInvariant, PTL

\* load_state, MM-9.3 Phase C: a task scores with its own series' model only.
THEOREM ModelsAreOwn == Spec => []OwnModel
<1>1. ReuseInv => OwnModel
  BY DEF ReuseInv, Sound, HoldsModel, RowSound, OwnModel
<1>. QED  BY <1>1, ReuseInvariant, PTL

\* fetch_detector_model_sync: what a reused model learned is recent.
THEOREM ModelsAreRecent == Spec => []ModelAgeBounded
<1>1. ASSUME ReuseInv PROVE ModelAgeBounded
  <2> SUFFICES ASSUME NEW t \in Tasks, task[t].st = "scoring"
               PROVE  /\ now - task[t].model.data < MaxAge + 2 * Limit[task[t].key.kind]
                      /\ ~Reuses(task[t].key) => task[t].model.data = task[t].data
    BY DEF ModelAgeBounded
  <2> DEFINE x == task[t]
  <2>1. x \in TaskRecords /\ Timely(x, now) /\ HoldsModel(x) /\ now \in Nat
    BY <1>1 DEF ReuseInv, TypeOK, Sound
  <2>2. x.started \in Nat /\ x.model.data \in Nat /\ Limit[x.key.kind] \in Nat
    BY <2>1, LimitPositive DEF TaskRecords, Models
  <2>3. now <= x.started + Limit[x.key.kind]
        /\ x.started - x.model.data < MaxAge + Limit[x.key.kind]
    BY <2>1 DEF Timely, HoldsModel, Executing
  <2>4. now - x.model.data < MaxAge + 2 * Limit[x.key.kind]
    BY <2>1, <2>2, <2>3, MaxAgeAssumption
  <2>. QED  BY <2>1, <2>4 DEF HoldsModel
<1>. QED  BY <1>1, ReuseInvariant, PTL

\* persist_detector_model_sync: the last writer wins, and is at most a limit behind.
THEOREM UpsertsStepBackLittle == Spec => StepBackBounded
<1> DEFINE Back == \A r \in models, s \in models' :
                     r.key = s.key => s.model.data + Limit[r.key.kind] >= r.model.data
<1>1. ASSUME ReuseInv, [Next]_vars PROVE [Back]_vars
  <2>1. ASSUME NEW r \in models
        PROVE  /\ r.model.data \in Nat /\ r.trainedAt \in Nat /\ now \in Nat
               /\ Limit[r.key.kind] \in Nat
               /\ r.model.data <= now
    BY <1>1, LimitPositive DEF ReuseInv, TypeOK, RowSound, Rows, Models
  <2>2. ASSUME models' = models PROVE Back
    BY <1>1, <2>1, <2>2 DEF ReuseInv, OneRowPerKey
  <2>3. ASSUME NEW t \in Tasks, Persist(t) PROVE Back
    <3> DEFINE w == [key |-> task[t].key, model |-> task[t].model, trainedAt |-> now]
    <3>1. w \in Rows /\ RowSound(w, now)
      BY <1>1, <2>3, WrittenRow DEF Persist
    <3>2. w.model.data \in Nat /\ Limit[w.key.kind] \in Nat
          /\ now <= w.model.data + Limit[w.key.kind]
      BY <3>1, LimitPositive DEF Rows, Models, RowSound
    <3>3. models' = models \/ models' = {s \in models : s.key # w.key} \union {w}
      BY <2>3 DEF Persist, Upsert
    <3>4. CASE models' = {s \in models : s.key # w.key} \union {w}
      <4> SUFFICES ASSUME NEW r \in models, NEW s \in models', r.key = s.key
                   PROVE  s.model.data + Limit[r.key.kind] >= r.model.data
        OBVIOUS
      <4>1. CASE s = w
        BY <2>1, <3>2, <4>1
      <4>2. CASE s \in models
        BY <1>1, <2>1, <4>2 DEF ReuseInv, OneRowPerKey
      <4>. QED  BY <3>4, <4>1, <4>2
    <3>. QED  BY <2>2, <3>3, <3>4
  <2>4. CASE UNCHANGED vars
    BY <2>4
  <2>5. ASSUME NEW t \in Tasks, Step(t) PROVE models' = models \/ Persist(t)
    BY <2>5 DEF Step, Publish, Take, ReadSeries, Reuse, Miss, Fit, Detect, RetryOrFail,
                Killed, WorkerLost
  <2>. QED  BY <1>1, <2>2, <2>3, <2>4, <2>5 DEF Next, Tick, Finished, vars
<1>2. ReuseInv /\ [Next]_vars => [Back]_vars
  BY <1>1
<1>3. [Back]_vars => [\A r \in models, s \in models' :
         r.key = s.key => s.model.data + Limit[r.key.kind] >= r.model.data]_vars
  OBVIOUS
<1>. HIDE DEF Back
<1>. QED  BY <1>2, <1>3, ReuseInvariant, PTL DEF Spec, StepBackBounded
=============================================================================
