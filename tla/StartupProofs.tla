---------------------------- MODULE StartupProofs ----------------------------
(***************************************************************************)
(* Theorems about Startup, for any number of replicas, faults, rollouts,   *)
(* points and batch sizes, and any database a start may find.              *)
(***************************************************************************)
EXTENDS Startup, TLAPS

\* The aggregate and what goes when it is dropped.
Family == {Cagg, CaggTenant, CaggPolicy}

\* The one statement that drops the old key brings nothing; any other makes its object, and
\* what comes along has a statement of its own or belongs to the aggregate.
WellFormed(i) ==
  /\ OldUnique \notin Statements[i].with
  /\ \/ Statements[i].obj = OldUnique /\ Statements[i].with = {}
     \/ Statements[i].obj # OldUnique /\ Statements[i].obj \in Statements[i].with
  /\ \A o \in Statements[i].with \ Family :
       o = Statements[i].obj \/ \E j \in {3, 9, 10, 11, 14} : o = Statements[j].obj

\* SETUP_SQL has twenty statements; the places of the list are counted on below.
LEMMA StatementCount == Len(Statements) = 20 /\ DOMAIN Statements = 1..20
BY DEF Statements

\* SETUP_SQL is such a list.
LEMMA StatementsWellFormed == \A i \in DOMAIN Statements : WellFormed(i)
<1> SUFFICES ASSUME NEW i \in 1..20 PROVE WellFormed(i)
  BY StatementCount
<1>. USE DEF WellFormed, Statements, Make, Column, Family, Cagg, CaggPolicy, CaggTenant, OldUnique
<1>1. WellFormed(1) /\ WellFormed(2) /\ WellFormed(3) /\ WellFormed(4)
  OBVIOUS
<1>2. WellFormed(5) /\ WellFormed(6) /\ WellFormed(7)
  OBVIOUS
<1>3. WellFormed(8)
  OBVIOUS
<1>4. WellFormed(9) /\ WellFormed(10) /\ WellFormed(11) /\ WellFormed(12)
  OBVIOUS
<1>5. WellFormed(13) /\ WellFormed(14)
  OBVIOUS
<1>6. WellFormed(15) /\ WellFormed(16) /\ WellFormed(17)
  OBVIOUS
<1>7. WellFormed(18) /\ WellFormed(19) /\ WellFormed(20)
  OBVIOUS
<1>8. \/ i = 1 \/ i = 2 \/ i = 3 \/ i = 4 \/ i = 5 \/ i = 6 \/ i = 7 \/ i = 8 \/ i = 9 \/ i = 10
      \/ i = 11 \/ i = 12 \/ i = 13 \/ i = 14 \/ i = 15 \/ i = 16 \/ i = 17 \/ i = 18 \/ i = 19 \/ i = 20
  OBVIOUS
<1>. HIDE DEF WellFormed
<1>. QED  BY <1>1, <1>2, <1>3, <1>4, <1>5, <1>6, <1>7, <1>8
\* So every object but the aggregate's is that of some statement.
LEMMA EveryObjectMade ==
  \A o \in Complete \ Family :
    \E i \in DOMAIN Statements : o = Statements[i].obj /\ o # OldUnique
<1> SUFFICES ASSUME NEW i \in DOMAIN Statements, NEW o \in Statements[i].with \ Family
             PROVE  \E j \in DOMAIN Statements : o = Statements[j].obj /\ o # OldUnique
  BY DEF Complete
<1>1. {3, 9, 10, 11, 14} \subseteq DOMAIN Statements
  BY StatementCount
<1>. QED  BY <1>1, StatementsWellFormed DEF WellFormed

\* The steps of a start have the numbers from Down to Serving.
LEMMA StepNumbers ==
  Down = -3 /\ AskHasTenant = -2 /\ AskCaggExists = -1 /\ DropOld = 0 /\ Remove = 21
  /\ Add = 22 /\ Serving = 23
BY StatementCount DEF Down, AskHasTenant, AskCaggExists, DropOld, Remove, Add, Serving
-----------------------------------------------------------------------------
\* Statement i of a start is done: its object is there, or the aggregate was dropped since.
Finished(i) ==
  IF Statements[i].obj = OldUnique THEN OldUnique \notin db
  ELSE Statements[i].obj \in db \union Family

\* What a replica has behind it stays done, whatever the other replicas do.
FinishedBehind == \A r \in Replicas, i \in DOMAIN Statements : i < pc[r] => Finished(i)

SchemaInv == SchemaTypeOK /\ FinishedBehind /\ RetentionAsConfigured

\* A step of replica r moves that replica alone.
LEMMA GotoEffect ==
  ASSUME SchemaTypeOK, NEW r \in Replicas, NEW step \in Down..Serving, Goto(r, step)
  PROVE  /\ pc' \in [Replicas -> Down..Serving]
         /\ \A q \in Replicas : pc'[q] = IF q = r THEN step ELSE pc[q]
BY DEF Goto, SchemaTypeOK

\* Where a step of the start-up leads, and what it leaves alone.
LEMMA SetupGoto ==
  ASSUME SchemaTypeOK, NEW r \in Replicas, Setup(r)
  PROVE  /\ \E step \in Down..Serving : Goto(r, step) /\ (step <= 1 \/ pc[r] >= 1)
         /\ pc[r] # Serving
         /\ UNCHANGED <<deployment, setting, faults, deploys>>
         /\ retention' \in Days \union {0}
         /\ sawTenant' \in [Replicas -> BOOLEAN]
<1>. USE StepNumbers, StatementCount
<1>1. CASE Start(r)
  BY <1>1 DEF Start, SchemaTypeOK
<1>2. CASE ReadHasTenant(r)
  <2>1. sawTenant' \in [Replicas -> BOOLEAN]
    BY <1>2 DEF ReadHasTenant, SchemaTypeOK
  <2>. QED  BY <1>2, <2>1 DEF ReadHasTenant, SchemaTypeOK
<1>3. CASE ReadCaggExists(r)
  BY <1>3 DEF ReadCaggExists, SchemaTypeOK
<1>4. CASE DropCagg(r)
  BY <1>4 DEF DropCagg, SchemaTypeOK
<1>5. CASE RunStatement(r)
  BY <1>5 DEF RunStatement, SchemaTypeOK
<1>6. CASE RemoveRetention(r)
  BY <1>6 DEF RemoveRetention, SchemaTypeOK
<1>7. CASE AddRetention(r)
  BY <1>7 DEF AddRetention, SchemaTypeOK
<1>. QED  BY <1>1, <1>2, <1>3, <1>4, <1>5, <1>6, <1>7 DEF Setup

\* What a step of the start-up does to the database: nothing, or the aggregate goes, or
\* one statement runs and the replica is a step further.
LEMMA SetupDb ==
  ASSUME SchemaTypeOK, NEW r \in Replicas, Setup(r)
  PROVE  \/ /\ UNCHANGED db
            /\ pc[r] \in DOMAIN Statements => Goto(r, Down)
         \/ db' = db \ Family /\ pc[r] \notin DOMAIN Statements
         \/ /\ pc[r] \in DOMAIN Statements
            /\ db' = Execute(Statements[pc[r]]) /\ Goto(r, pc[r] + 1)
<1>. USE StepNumbers, StatementCount
<1>1. CASE RunStatement(r)
  BY <1>1 DEF RunStatement
<1>2. CASE DropCagg(r)
  BY <1>2 DEF DropCagg, Family
<1>3. CASE Start(r) \/ ReadHasTenant(r) \/ ReadCaggExists(r) \/ RemoveRetention(r) \/ AddRetention(r)
  BY <1>3 DEF Start, ReadHasTenant, ReadCaggExists, RemoveRetention, AddRetention
<1>. QED  BY <1>1, <1>2, <1>3 DEF Setup

\* Running a statement keeps the database to its objects, finishes the statement, and
\* undoes none.
LEMMA ExecuteEffect ==
  ASSUME NEW n \in DOMAIN Statements, db' = Execute(Statements[n])
  PROVE  /\ db' \subseteq db \union Complete
         /\ Finished(n)'
         /\ \A i \in DOMAIN Statements : Finished(i) => Finished(i)'
<1>1. WellFormed(n) /\ \A i \in DOMAIN Statements : WellFormed(i)
  BY StatementsWellFormed
<1>2. Statements[n].with \subseteq Complete
  BY DEF Complete
<1>3. CASE Statements[n].with = {}
  <2>1. db' = db \ {OldUnique} /\ Statements[n].obj = OldUnique
    BY <1>1, <1>3 DEF Execute, WellFormed
  <2>. QED  BY <2>1 DEF Finished
<1>4. CASE Statements[n].with # {}
  <2>1. Statements[n].obj # OldUnique /\ Statements[n].obj \in Statements[n].with
        /\ OldUnique \notin Statements[n].with
    BY <1>1, <1>4 DEF WellFormed
  <2>2. db' = db \/ db' = db \union Statements[n].with
    BY <1>4 DEF Execute
  <2>3. Statements[n].obj \in db'
    BY <1>4, <2>1 DEF Execute
  <2>. QED  BY <1>2, <2>1, <2>2, <2>3 DEF Finished
<1>. QED  BY <1>3, <1>4
\* Dropping the aggregate undoes no statement but the aggregate's.
LEMMA DropEffect ==
  ASSUME db' = db \ Family
  PROVE  \A i \in DOMAIN Statements : Finished(i) => Finished(i)'
BY DEF Finished, Family

\* A replica that comes to serve has just set the policy to its own setting.
LEMMA ServesWithItsSetting ==
  ASSUME SchemaTypeOK, NEW r \in Replicas, Setup(r), pc'[r] = Serving
  PROVE  retention' = setting'[r]
<1>. USE StepNumbers, StatementCount
<1>1. \A step \in Down..Serving : Goto(r, step) => step = Serving
  BY GotoEffect
<1>2. setting' = setting /\ setting[r] \in Nat
  BY SetupGoto, SchemaAssumption DEF SchemaTypeOK
<1>3. CASE RemoveRetention(r)
  BY <1>1, <1>2, <1>3 DEF RemoveRetention
<1>4. CASE AddRetention(r)
  BY <1>1, <1>2, <1>4 DEF AddRetention
<1>5. CASE RunStatement(r)
  <2>1. pc[r] \in 1..20 /\ (Goto(r, pc[r] + 1) \/ Goto(r, Down) \/ Goto(r, Remove))
    BY <1>5 DEF RunStatement
  <2>. QED  BY <1>1, <2>1
<1>6. CASE Start(r) \/ ReadHasTenant(r) \/ ReadCaggExists(r) \/ DropCagg(r)
  <2>1. \E step \in Down..1 : Goto(r, step)
    BY <1>6 DEF Start, ReadHasTenant, ReadCaggExists, DropCagg
  <2>. QED  BY <1>1, <2>1
<1>. QED  BY <1>3, <1>4, <1>5, <1>6 DEF Setup

\* The schema's invariant survives the steps of the start-up, its failures and rollouts.
LEMMA SchemaStep == SchemaInv /\ [Next]_vars => SchemaInv'
<1> SUFFICES ASSUME SchemaInv, [Next]_vars PROVE SchemaInv'
  OBVIOUS
<1>0. SchemaTypeOK /\ FinishedBehind /\ RetentionAsConfigured
  BY DEF SchemaInv
<1>1. deployment.apis \subseteq Replicas
  BY <1>0, SchemaAssumption DEF SchemaTypeOK
<1>2. pc \in [Replicas -> Down..Serving] /\ Down \in Down..Serving /\ Down < 1
      /\ Down # Serving /\ DOMAIN Statements = 1..20
  BY <1>0, StepNumbers, StatementCount DEF SchemaTypeOK
<1>3. ASSUME NEW r \in deployment.apis, Setup(r) PROVE SchemaInv'
  <2>1. r \in Replicas
    BY <1>1
  <2>2. PICK step \in Down..Serving : Goto(r, step) /\ (step <= 1 \/ pc[r] >= 1)
    BY <1>0, <1>3, <2>1, SetupGoto
  <2>3. /\ pc' \in [Replicas -> Down..Serving]
        /\ \A q \in Replicas : pc'[q] = IF q = r THEN step ELSE pc[q]
    BY <1>0, <2>1, <2>2, GotoEffect
  <2>4. /\ pc[r] # Serving /\ UNCHANGED <<deployment, setting, faults, deploys>>
        /\ retention' \in Days \union {0} /\ sawTenant' \in [Replicas -> BOOLEAN]
    BY <1>0, <1>3, <2>1, SetupGoto
  <2>5. \A i \in DOMAIN Statements : Finished(i) => Finished(i)'
    BY <1>0, <1>3, <2>1, SetupDb, ExecuteEffect, DropEffect DEF Finished
  <2>6. db' \subseteq db \union Complete
    BY <1>0, <1>3, <2>1, SetupDb, ExecuteEffect
  <2>7. SchemaTypeOK'
    BY <1>0, <2>3, <2>4, <2>6 DEF SchemaTypeOK
  <2>8. FinishedBehind'
    <3> SUFFICES ASSUME NEW q \in Replicas, NEW i \in DOMAIN Statements, i < pc'[q]
                 PROVE  Finished(i)'
      BY DEF FinishedBehind
    <3>1. CASE i < pc[q]
      BY <1>0, <2>5, <3>1 DEF FinishedBehind
    <3>2. CASE ~(i < pc[q])
      <4>1. q = r /\ pc'[r] = step
        BY <2>1, <2>3, <3>2
      <4>2. i \in 1..20 /\ pc[r] \in Int /\ step \in Int
        BY <1>2, <2>1, StepNumbers
      <4>3. pc[r] >= 1 /\ pc[r] <= 20
        BY <1>2, <2>2, <3>2, <4>1, <4>2
      <4>4. pc[r] \in DOMAIN Statements
        BY <1>2, <4>2, <4>3
      <4>5. ~Goto(r, Down)
        BY <1>0, <1>2, <2>1, <4>1, <4>2, GotoEffect
      <4>6. db' = Execute(Statements[pc[r]]) /\ Goto(r, pc[r] + 1)
        BY <1>0, <1>3, <2>1, <4>4, <4>5, SetupDb
      <4>7. pc'[r] = pc[r] + 1
        BY <1>0, <2>1, <4>3, <4>2, <4>6, StepNumbers, GotoEffect
      <4>8. i = pc[r]
        BY <3>2, <4>1, <4>2, <4>7
      <4>. QED  BY <4>4, <4>6, <4>8, ExecuteEffect
    <3>. QED  BY <3>1, <3>2
  <2>9. RetentionAsConfigured'
    <3> SUFFICES ASSUME AllUp' PROVE \E q \in deployment.apis : retention' = setting'[q]
      BY <2>4 DEF RetentionAsConfigured
    <3>1. pc'[r] = Serving
      BY <2>4 DEF AllUp
    <3>. QED  BY <1>0, <1>3, <2>1, <3>1, ServesWithItsSetting
  <2>. QED  BY <2>7, <2>8, <2>9 DEF SchemaInv
<1>4. ASSUME NEW r \in deployment.apis, Fault(r) \/ Deploy(r) PROVE SchemaInv'
  <2>1. r \in Replicas
    BY <1>1
  <2>2. Goto(r, Down) /\ UNCHANGED <<deployment, db, retention, sawTenant>>
    BY <1>4 DEF Fault, Deploy
  <2>3. /\ pc' \in [Replicas -> Down..Serving]
        /\ \A q \in Replicas : pc'[q] = IF q = r THEN Down ELSE pc[q]
    BY <1>0, <1>2, <2>1, <2>2, GotoEffect
  <2>4. setting' \in [Replicas -> Days] /\ faults' \in 0..MaxFaults /\ deploys' \in 0..deployment.rollouts
    BY <1>0, <1>4, SchemaAssumption DEF Fault, Deploy, SchemaTypeOK
  <2>5. SchemaTypeOK'
    BY <1>0, <2>2, <2>3, <2>4 DEF SchemaTypeOK
  <2>6. FinishedBehind'
    BY <1>0, <1>2, <2>2, <2>3 DEF FinishedBehind, Finished
  <2>7. ~AllUp'
    BY <1>2, <2>1, <2>2, <2>3 DEF AllUp
  <2>. QED  BY <2>5, <2>6, <2>7 DEF SchemaInv, RetentionAsConfigured
<1>5. CASE UNCHANGED vars
  BY <1>0, <1>5
     DEF vars, SchemaInv, SchemaTypeOK, FinishedBehind, Finished, RetentionAsConfigured, AllUp
<1>. QED  BY <1>3, <1>4, <1>5 DEF Next

\* A start finds a database of an older release, or none, and every replica down.
LEMMA SchemaInit == Init => SchemaInv
<1> SUFFICES ASSUME Init PROVE SchemaInv
  OBVIOUS
<1>1. \A r \in Replicas : pc[r] = -3
  BY StepNumbers DEF Init
<1>2. SchemaTypeOK
  <2>0. db \in Releases /\ deployment \in Deployments /\ faults = 0 /\ deploys = 0
    BY DEF Init
  <2>1. db \subseteq Complete \union {OldUnique}
    BY <2>0, ReleasesAssumption
  <2>2. retention \in Days \union {0}
    <3>1. CASE "metrics hypertable" \in db
      BY <3>1 DEF Init
    <3>2. CASE "metrics hypertable" \notin db
      BY <3>2 DEF Init
    <3>. QED  BY <3>1, <3>2
  <2>3. pc \in [Replicas -> Down..Serving] /\ sawTenant \in [Replicas -> BOOLEAN]
    <3>1. Down \in Down..Serving
      BY StepNumbers
    <3>2. pc = [r \in Replicas |-> Down] /\ sawTenant = [r \in Replicas |-> FALSE]
      BY DEF Init
    <3>. QED  BY <3>1, <3>2
  <2>4. setting \in [Replicas -> Days]
    <3>1. setting = [r \in Replicas |-> deployment.days] /\ deployment.days \in Days
      BY <2>0, SchemaAssumption DEF Init
    <3>. QED  BY <3>1
  <2>5. faults \in 0..MaxFaults /\ deploys \in 0..deployment.rollouts
    BY <2>0, SchemaAssumption
  <2>. QED  BY <2>0, <2>1, <2>2, <2>3, <2>4, <2>5 DEF SchemaTypeOK
<1>3. FinishedBehind
  BY <1>1, StatementCount DEF FinishedBehind
<1>4. ~AllUp
  <2>1. deployment.apis # {} /\ deployment.apis \subseteq Replicas
    BY <1>2, SchemaAssumption DEF SchemaTypeOK
  <2>. QED  BY <1>1, <2>1, StepNumbers DEF AllUp
<1>. QED  BY <1>2, <1>3, <1>4 DEF SchemaInv, RetentionAsConfigured

\* A replica that serves has every statement behind it.
LEMMA ServingIsFinished == SchemaInv => ServingHasTables
<1> SUFFICES ASSUME SchemaInv, NEW r \in Replicas, pc[r] = Serving
             PROVE  /\ Complete \ Family \subseteq db
                    /\ OldUnique \notin db
  BY DEF ServingHasTables, Family
<1>1. \A i \in DOMAIN Statements : Finished(i)
  BY StepNumbers, StatementCount DEF SchemaInv, FinishedBehind
<1>2. Statements[15].obj = OldUnique /\ 15 \in DOMAIN Statements
  BY StatementCount DEF Statements
<1>. QED  BY <1>1, <1>2, EveryObjectMade DEF Finished

\* The schema's part of the composed system.
LEMMA SchemaAlways == StartupSpec => []SchemaInv
<1>1. StartupInit => SchemaInv
  BY SchemaInit DEF StartupInit
<1>2. SchemaInv /\ [StartupNext]_startupVars => SchemaInv'
  <2>1. [StartupNext]_startupVars => [Next]_vars
    BY DEF StartupNext, ApiStep, Scrape, startupVars
  <2>. QED  BY <2>1, SchemaStep
<1>. QED  BY <1>1, <1>2, PTL DEF StartupSpec

(***************************************************************************)
(* A replica that serves finds every table, column, index and key its      *)
(* queries name, whichever database it started on and whatever other       *)
(* replicas do; only the aggregate may be missing.                         *)
(***************************************************************************)
THEOREM ServingReplicaHasTables == StartupSpec => []ServingHasTables
BY SchemaAlways, ServingIsFinished, PTL

(***************************************************************************)
(* When every replica serves, the retention policy is the setting of one   *)
(* of them: a changed METRICS_RETENTION_DAYS takes effect.                 *)
(***************************************************************************)
THEOREM RetentionIsConfigured == StartupSpec => []RetentionAsConfigured
<1>1. SchemaInv => RetentionAsConfigured
  BY DEF SchemaInv
<1>. QED  BY <1>1, SchemaAlways, PTL-----------------------------------------------------------------------------
\* Numbered points go up in a sequence, and end at most at n.
Ascending(s) == \A i, j \in DOMAIN s : i < j => s[i] < s[j]

\* The points that have left the page, for the buffer or for good.
Passed == scraped - numbered

\* What waits in the buffer was scraped after all that is stored.
InOrder ==
  /\ Ascending(stored) /\ Ascending(buffer)
  /\ \A i \in DOMAIN stored : stored[i] <= Passed
  /\ \A i \in DOMAIN buffer : buffer[i] <= Passed
  /\ \A i \in DOMAIN stored, j \in DOMAIN buffer : stored[i] < buffer[j]

\* A point is yielded only while the buffer has room, and a batch is full only when a
\* point has left the page.
RoomLeft ==
  /\ st \in {"down", "scraping"} => filled < BatchSize
  /\ st \in {"inserting", "committing"} => page < PageSize

ScraperInv == P!ScraperTypeOK /\ RoomLeft /\ InOrder /\ P!LossBounded

Numbers == Seq(1..MaxPoints)

\* Appending the next number keeps a sequence ascending.
LEMMA AppendAscending ==
  ASSUME NEW s \in Numbers, Ascending(s), NEW n \in Nat, n < MaxPoints,
         \A i \in DOMAIN s : s[i] <= n
  PROVE  /\ Append(s, n + 1) \in Numbers /\ Len(Append(s, n + 1)) = Len(s) + 1
         /\ Ascending(Append(s, n + 1))
         /\ \A i \in DOMAIN Append(s, n + 1) :
              /\ Append(s, n + 1)[i] <= n + 1
              /\ i \in DOMAIN s => Append(s, n + 1)[i] = s[i]
              /\ i \notin DOMAIN s => Append(s, n + 1)[i] = n + 1
<1>1. MaxPoints \in Nat /\ n + 1 \in 1..MaxPoints
  BY ScraperAssumption
<1>2. \A i \in DOMAIN s : s[i] \in Nat
  BY <1>1 DEF Numbers
<1> DEFINE t == Append(s, n + 1)
<1>3. t \in Numbers /\ Len(t) = Len(s) + 1 /\ DOMAIN t = 1..(Len(s) + 1)
      /\ DOMAIN s = 1..Len(s) /\ Len(s) \in Nat
  BY <1>1 DEF Numbers
<1>4. \A i \in DOMAIN t : t[i] = IF i \in DOMAIN s THEN s[i] ELSE n + 1
  BY <1>1, <1>3 DEF Numbers
<1>5. \A i \in DOMAIN t : t[i] <= n + 1
  BY <1>2, <1>4
<1>6. Ascending(t)
  BY <1>2, <1>3, <1>4 DEF Ascending
<1>. QED  BY <1>3, <1>4, <1>5, <1>6

\* Two ascending sequences of which one is above the other make an ascending one.
LEMMA ConcatAscending ==
  ASSUME NEW s \in Numbers, NEW t \in Numbers, Ascending(s), Ascending(t), NEW n \in Nat,
         \A i \in DOMAIN s, j \in DOMAIN t : s[i] < t[j],
         \A i \in DOMAIN s : s[i] <= n, \A i \in DOMAIN t : t[i] <= n
  PROVE  /\ s \o t \in Numbers /\ Len(s \o t) = Len(s) + Len(t)
         /\ Ascending(s \o t) /\ \A i \in DOMAIN (s \o t) : (s \o t)[i] <= n
<1> DEFINE u == s \o t
<1>1. u \in Numbers /\ Len(u) = Len(s) + Len(t) /\ DOMAIN u = 1..(Len(s) + Len(t))
      /\ DOMAIN s = 1..Len(s) /\ DOMAIN t = 1..Len(t) /\ Len(s) \in Nat /\ Len(t) \in Nat
  BY DEF Numbers
<1>2. \A i \in DOMAIN u : u[i] = IF i <= Len(s) THEN s[i] ELSE t[i - Len(s)]
  <2>1. s \in Seq(1..MaxPoints) /\ t \in Seq(1..MaxPoints)
    BY DEF Numbers
  <2>. QED  BY <1>1, <2>1
<1>. HIDE DEF u
<1>3. ASSUME NEW i \in DOMAIN u
      PROVE  \/ i \in DOMAIN s /\ u[i] = s[i]
             \/ i - Len(s) \in DOMAIN t /\ i > Len(s) /\ u[i] = t[i - Len(s)]
  BY <1>1, <1>2
<1>4. Ascending(u)
  <2> SUFFICES ASSUME NEW i \in DOMAIN u, NEW j \in DOMAIN u, i < j PROVE u[i] < u[j]
    BY DEF Ascending
  <2>1. CASE i \in DOMAIN s /\ j \in DOMAIN s
    BY <1>1, <1>2, <2>1 DEF Ascending
  <2>2. CASE i \in DOMAIN s /\ j \notin DOMAIN s
    BY <1>1, <1>3, <1>2, <2>2
  <2>3. CASE i \notin DOMAIN s
    <3>1. /\ i - Len(s) \in DOMAIN t /\ j - Len(s) \in DOMAIN t
          /\ u[i] = t[i - Len(s)] /\ u[j] = t[j - Len(s)]
      BY <1>1, <1>2, <2>3
    <3>2. i - Len(s) < j - Len(s)
      BY <1>1
    <3>. QED  BY <3>1, <3>2 DEF Ascending
  <2>. QED  BY <2>1, <2>2, <2>3
<1>5. \A i \in DOMAIN u : u[i] <= n
  BY <1>3
<1>. QED  BY <1>1, <1>4, <1>5 DEF u
\* One process more has ended, or as many as could lose all numbered points.
LEMMA OneMoreEnd ==
  ASSUME ScraperInv, P!CountEnd
  PROVE  /\ ended' \in 0..MaxPoints /\ ended' * P!HeldAtMost \in Nat
         /\ scraped - Len(stored) <= ended' * P!HeldAtMost
<1>1. PICK h, lost : h = P!HeldAtMost /\ lost = scraped - numbered - Len(buffer) - Len(stored)
  OBVIOUS
<1>2. /\ h \in Nat /\ h >= 1 /\ MaxPoints \in Nat /\ ended \in Nat /\ ended <= MaxPoints
      /\ scraped \in Nat /\ scraped <= MaxPoints
      /\ Len(stored) \in Nat /\ Len(buffer) \in Nat /\ numbered \in Nat
  BY <1>1, ScraperAssumption DEF ScraperInv, P!ScraperTypeOK, P!HeldAtMost
<1>3. numbered + Len(buffer) <= h
  <2>1. /\ numbered <= page /\ page \in 0..PageSize /\ Len(buffer) <= filled
        /\ filled \in 0..BatchSize
        /\ BatchSize \in Nat /\ PageSize \in Nat /\ h = BatchSize + PageSize - 1
    BY <1>1, ScraperAssumption DEF ScraperInv, P!ScraperTypeOK, P!HeldAtMost
  <2>2. filled < BatchSize \/ page < PageSize
    BY DEF ScraperInv, P!ScraperTypeOK, RoomLeft
  <2>. QED  BY <1>2, <2>1, <2>2
<1>4. lost \in Int /\ lost <= ended * h /\ scraped - Len(stored) <= lost + h
  BY <1>1, <1>2, <1>3 DEF ScraperInv, P!LossBounded
<1>5. ended * h \in Nat /\ ended <= ended * h /\ (ended + 1) * h = ended * h + h
  BY <1>2, Z3
<1>6. ended' = IF ended * h < MaxPoints THEN ended + 1 ELSE ended
  BY <1>1 DEF P!CountEnd
<1>7. CASE ended * h < MaxPoints
  BY <1>1, <1>2, <1>4, <1>5, <1>6, <1>7
<1>8. CASE ~(ended * h < MaxPoints)
  <2>1. scraped - Len(stored) <= ended * h
    BY <1>2, <1>5, <1>8
  <2>. QED  BY <1>1, <1>2, <1>5, <1>6, <1>8, <2>1
<1>. QED  BY <1>7, <1>8

\* An end of the process loses what waits, and nothing else.
LEMMA EndStep ==
  ASSUME ScraperInv, P!End, scraped' = scraped, stored' = stored, breaks' \in 0..MaxBreaks
  PROVE  ScraperInv'
<1>1. /\ st' = "down" /\ page' = 0 /\ numbered' = 0 /\ filled' = 0 /\ buffer' = <<>>
      /\ P!CountEnd
  BY DEF P!End
<1>2. /\ ended' \in 0..MaxPoints /\ ended' * P!HeldAtMost \in Nat
      /\ scraped - Len(stored) <= ended' * P!HeldAtMost
  BY <1>1, OneMoreEnd
<1>3. P!ScraperTypeOK'
  BY <1>1, <1>2, ScraperAssumption DEF ScraperInv, P!ScraperTypeOK
<1>4. /\ scraped \in Nat /\ numbered \in Nat /\ stored \in Numbers /\ Len(stored) \in Nat
      /\ scraped' \in Nat
  BY ScraperAssumption DEF ScraperInv, P!ScraperTypeOK, Numbers
<1>5. P!LossBounded'
  BY <1>1, <1>2, <1>4 DEF P!LossBounded, P!HeldAtMost
<1>6. RoomLeft'
  BY <1>1, ScraperAssumption DEF RoomLeft
<1>7. InOrder'
  <2>1. \A i \in DOMAIN stored : stored[i] \in Nat /\ stored[i] <= scraped - numbered
    BY <1>4, ScraperAssumption DEF ScraperInv, InOrder, Passed, Numbers
  <2>2. \A i \in DOMAIN stored : stored[i] <= scraped
    BY <1>4, <2>1
  <2>3. scraped' - numbered' = scraped
    BY <1>1, <1>4
  <2>. QED  BY <1>1, <2>2, <2>3 DEF ScraperInv, InOrder, Passed, Ascending
<1>. QED  BY <1>3, <1>5, <1>6, <1>7 DEF ScraperInv

\* Committing the buffer stores it above what is stored.
LEMMA CommitStep ==
  ASSUME ScraperInv, stored' = stored \o buffer
  PROVE  /\ stored' \in Numbers /\ Ascending(stored')
         /\ Len(stored') = Len(stored) + Len(buffer)
         /\ Passed \in Nat /\ \A i \in DOMAIN stored' : stored'[i] \in Nat /\ stored'[i] <= Passed
<1>1. /\ stored \in Numbers /\ buffer \in Numbers /\ Passed \in Nat
  BY ScraperAssumption DEF ScraperInv, P!ScraperTypeOK, Numbers, Passed
<1>2. /\ stored' \in Numbers /\ Len(stored') = Len(stored) + Len(buffer)
      /\ Ascending(stored') /\ \A i \in DOMAIN stored' : stored'[i] <= Passed
  BY <1>1, ConcatAscending DEF ScraperInv, InOrder
<1>3. \A i \in DOMAIN stored' : stored'[i] \in Nat
  BY <1>2, ScraperAssumption DEF Numbers
<1>. QED  BY <1>1, <1>2, <1>3

\* A new page is numbered on from the last.
LEMMA ScrapeStep ==
  ASSUME ScraperInv, NEW n \in 1..PageSize, P!Scrape(n)
  PROVE  ScraperInv'
<1>1. /\ st = "scraping" /\ page = 0 /\ page' = n /\ n \in Nat /\ n <= PageSize
      /\ numbered' = (IF n <= MaxPoints - scraped THEN n ELSE MaxPoints - scraped)
      /\ scraped' = scraped + numbered'
      /\ UNCHANGED <<st, filled, buffer, stored, ended, breaks>>
  BY ScraperAssumption DEF P!Scrape
<1>2. numbered = 0 /\ scraped \in Nat /\ scraped <= MaxPoints /\ MaxPoints \in Nat
  BY <1>1, ScraperAssumption DEF ScraperInv, P!ScraperTypeOK
<1>3. numbered' \in 0..n /\ scraped' \in numbered'..MaxPoints /\ scraped' - numbered' = scraped
  BY <1>1, <1>2
<1>4. Passed' = Passed
  <2>1. scraped - numbered = scraped
    BY <1>2
  <2>. QED  BY <1>3, <2>1 DEF Passed
<1>5. P!ScraperTypeOK'
  BY <1>1, <1>3 DEF ScraperInv, P!ScraperTypeOK
<1>6. P!LossBounded'
  BY <1>1, <1>2, <1>3 DEF ScraperInv, P!LossBounded, P!HeldAtMost
<1>7. RoomLeft' /\ InOrder'
  BY <1>1, <1>4 DEF ScraperInv, RoomLeft, InOrder, Ascending
<1>. QED  BY <1>5, <1>6, <1>7 DEF ScraperInv

\* A yielded point goes from the page into the buffer.
LEMMA YieldStep == ScraperInv /\ P!Yield => ScraperInv'
<1> SUFFICES ASSUME ScraperInv, P!Yield PROVE ScraperInv'
  OBVIOUS
<1>. USE DEF ScraperInv
<1>1. /\ filled \in Nat /\ filled < BatchSize /\ BatchSize \in Nat /\ MaxPoints \in Nat
      /\ buffer \in Numbers /\ scraped \in 0..MaxPoints /\ numbered \in 0..scraped
      /\ PageSize \in Nat /\ page \in 1..PageSize /\ numbered <= page /\ Passed \in 0..MaxPoints
      /\ page' = page - 1 /\ filled' = filled + 1
      /\ UNCHANGED <<scraped, stored, ended, breaks>>
  BY ScraperAssumption DEF P!Yield, P!ScraperTypeOK, RoomLeft, Numbers, Passed
<1>2. st' \in {"scraping", "inserting"} /\ (st' = "scraping" => filled + 1 < BatchSize)
  BY <1>1 DEF P!Yield
<1>3. RoomLeft'
  BY <1>1, <1>2 DEF RoomLeft
<1>4. CASE numbered > 0
  <2> DEFINE new == Append(buffer, Passed + 1)
  <2>1. numbered' = numbered - 1 /\ buffer' = new /\ Passed < MaxPoints /\ Passed \in Nat
        /\ Passed' = Passed + 1
    BY <1>1, <1>4 DEF P!Yield, Passed
  <2>2. /\ new \in Numbers /\ Len(new) = Len(buffer) + 1 /\ Ascending(new)
        /\ \A i \in DOMAIN new : /\ new[i] <= Passed + 1
                                 /\ i \in DOMAIN buffer => new[i] = buffer[i]
                                 /\ i \notin DOMAIN buffer => new[i] = Passed + 1
    BY <1>1, <2>1, AppendAscending DEF InOrder
  <2>. HIDE DEF new
  <2>3. \A i \in DOMAIN stored : stored[i] \in Nat /\ stored[i] <= Passed
    BY <1>1 DEF InOrder, P!ScraperTypeOK
  <2>4. \A i \in DOMAIN stored, j \in DOMAIN new : stored[i] < new[j]
    BY <2>1, <2>2, <2>3 DEF InOrder
  <2>5. \A i \in DOMAIN stored : stored[i] <= Passed + 1
    BY <2>1, <2>3
  <2>6. InOrder'
    BY <1>1, <2>1, <2>2, <2>4, <2>5 DEF InOrder
  <2>7. P!ScraperTypeOK'
    BY <1>1, <1>2, <1>4, <2>1, <2>2 DEF P!ScraperTypeOK, Numbers
  <2>8. P!LossBounded'
    <3>1. Len(buffer) \in Nat /\ Len(stored) \in Nat
      BY <1>1 DEF P!ScraperTypeOK
    <3>2. scraped' - numbered' - Len(buffer') - Len(stored')
            = scraped - numbered - Len(buffer) - Len(stored)
      BY <1>1, <2>1, <2>2, <3>1
    <3>. QED  BY <1>1, <3>2 DEF P!LossBounded, P!HeldAtMost
  <2>. QED  BY <1>3, <2>6, <2>7, <2>8
<1>5. CASE ~(numbered > 0)
  <2>1. UNCHANGED <<numbered, buffer>> /\ numbered = 0
    BY <1>1, <1>5 DEF P!Yield
  <2>2. P!ScraperTypeOK'
    BY <1>1, <1>2, <2>1 DEF P!ScraperTypeOK
  <2>3. InOrder' /\ P!LossBounded'
    BY <1>1, <2>1 DEF InOrder, Ascending, Passed, P!LossBounded, P!HeldAtMost
  <2>. QED  BY <1>3, <2>2, <2>3
<1>. QED  BY <1>4, <1>5

\* The scraper's invariant survives all that the scraper does and all that befalls it.
LEMMA ScraperStepInv == ScraperInv /\ P!ScraperStep => ScraperInv'
<1> SUFFICES ASSUME ScraperInv, P!ScraperStep PROVE ScraperInv'
  OBVIOUS
<1>. USE DEF ScraperInv
<1>1. CASE P!Begin \/ P!Insert
  <2>1. /\ UNCHANGED <<page, numbered, scraped, filled, buffer, stored, ended, breaks>>
        /\ \/ st = "down" /\ st' = "scraping"
           \/ st = "inserting" /\ st' = "committing"
    BY <1>1 DEF P!Begin, P!Insert
  <2>2. P!ScraperTypeOK' /\ RoomLeft'
    BY <2>1 DEF P!ScraperTypeOK, RoomLeft
  <2>3. InOrder' /\ P!LossBounded'
    BY <2>1 DEF InOrder, Ascending, Passed, P!LossBounded, P!HeldAtMost
  <2>. QED  BY <2>2, <2>3
<1>2. CASE \E n \in 1..PageSize : P!Scrape(n)
  BY <1>2, ScrapeStep
<1>3. CASE P!Yield
  BY <1>3, YieldStep
<1>4. CASE P!Commit
  <2>1. /\ stored' = stored \o buffer /\ filled' = 0 /\ buffer' = <<>> /\ st' = "scraping"
        /\ UNCHANGED <<page, numbered, scraped, ended, breaks>>
    BY <1>4 DEF P!Commit
  <2>2. /\ stored' \in Numbers /\ Ascending(stored')
        /\ Len(stored') = Len(stored) + Len(buffer)
        /\ \A i \in DOMAIN stored' : stored'[i] <= Passed
    BY <2>1, CommitStep
  <2>3. P!ScraperTypeOK' /\ RoomLeft'
    BY <2>1, <2>2, ScraperAssumption DEF P!ScraperTypeOK, Numbers, RoomLeft
  <2>4. InOrder'
    BY <2>1, <2>2 DEF InOrder, Ascending, Passed
  <2>5. P!LossBounded'
    <3>1. /\ Len(stored) \in Nat /\ Len(buffer) \in Nat /\ scraped \in Nat /\ numbered \in Nat
      BY ScraperAssumption DEF P!ScraperTypeOK
    <3>2. scraped' - numbered' - Len(buffer') - Len(stored')
            = scraped - numbered - Len(buffer) - Len(stored)
      BY <2>1, <2>2, <3>1
    <3>. QED  BY <2>1, <3>2 DEF P!LossBounded, P!HeldAtMost
  <2>. QED  BY <2>3, <2>4, <2>5
<1>5. CASE P!InsertRaises
  BY <1>5, EndStep DEF P!InsertRaises, P!ScraperTypeOK
<1>6. CASE P!Break
  <2>1. breaks' \in 0..MaxBreaks
    BY <1>6, ScraperAssumption DEF P!Break, P!ScraperTypeOK
  <2>. QED  BY <1>6, <2>1, EndStep DEF P!Break
<1>7. CASE P!CommitReplyLost
  <2>1. /\ stored' = stored \o buffer /\ scraped' = scraped
        /\ st' = "down" /\ page' = 0 /\ numbered' = 0 /\ filled' = 0 /\ buffer' = <<>>
        /\ P!CountEnd
    BY <1>7 DEF P!CommitReplyLost, P!End
  <2>2. breaks' \in 0..MaxBreaks
    BY <1>7, ScraperAssumption DEF P!CommitReplyLost, P!ScraperTypeOK
  <2>3. /\ stored' \in Numbers /\ Ascending(stored')
        /\ Len(stored') = Len(stored) + Len(buffer)
        /\ Passed \in Nat /\ \A i \in DOMAIN stored' : stored'[i] \in Nat /\ stored'[i] <= Passed
    BY <2>1, CommitStep
  <2>4. /\ ended' \in 0..MaxPoints /\ ended' * P!HeldAtMost \in Nat
        /\ scraped - Len(stored) <= ended' * P!HeldAtMost
    BY <2>1, OneMoreEnd
  <2>5. P!ScraperTypeOK' /\ RoomLeft'
    BY <2>1, <2>2, <2>3, <2>4, ScraperAssumption DEF P!ScraperTypeOK, Numbers, RoomLeft
  <2>6. /\ Len(buffer) \in Nat /\ Len(stored) \in Nat /\ scraped \in Nat /\ numbered \in Nat
    BY ScraperAssumption DEF P!ScraperTypeOK
  <2>7. P!LossBounded'
    BY <2>1, <2>3, <2>4, <2>6 DEF P!LossBounded, P!HeldAtMost
  <2>8. InOrder'
    <3>1. Passed' = scraped /\ Passed <= scraped
      BY <2>1, <2>6 DEF Passed
    <3>2. \A i \in DOMAIN stored' : stored'[i] <= scraped
      BY <2>3, <2>6, <3>1
    <3>. QED  BY <2>1, <2>3, <3>1, <3>2 DEF InOrder, Ascending
  <2>. QED  BY <2>5, <2>7, <2>8
<1>. QED  BY <1>1, <1>2, <1>3, <1>4, <1>5, <1>6, <1>7 DEF P!ScraperStep, P!Scraping

\* The scraper's part of the composed system.
LEMMA ScraperAlways == StartupSpec => []ScraperInv
<1>1. StartupInit => ScraperInv
  <2> SUFFICES ASSUME StartupInit PROVE ScraperInv
    OBVIOUS
  <2>1. /\ st = "down" /\ page = 0 /\ numbered = 0 /\ scraped = 0 /\ ended = 0 /\ breaks = 0
        /\ filled = 0 /\ buffer = <<>> /\ stored = <<>>
    BY DEF StartupInit, P!ScraperInit
  <2>. QED  BY <2>1, ScraperAssumption
       DEF ScraperInv, P!ScraperTypeOK, RoomLeft, InOrder, Ascending, Passed,
           P!LossBounded, P!HeldAtMost
<1>2. ScraperInv /\ [StartupNext]_startupVars => ScraperInv'
  <2> SUFFICES ASSUME ScraperInv, [StartupNext]_startupVars PROVE ScraperInv'
    OBVIOUS
  <2>1. P!ScraperStep \/ UNCHANGED scraperVars
    BY DEF StartupNext, ApiStep, Scrape, startupVars
  <2>2. CASE UNCHANGED scraperVars
    BY <2>2 DEF scraperVars, ScraperInv, P!ScraperTypeOK, RoomLeft, InOrder, Ascending,
                Passed, P!LossBounded, P!HeldAtMost
  <2>. QED  BY <2>1, <2>2, ScraperStepInv
<1>. QED  BY <1>1, <1>2, PTL DEF StartupSpec

(***************************************************************************)
(* Type correctness of the replicas' set-up and of the scraper beside it.  *)
(***************************************************************************)
THEOREM StartupTypes == StartupSpec => []StartupTypeOK
<1>1. SchemaInv /\ ScraperInv => StartupTypeOK
  BY DEF SchemaInv, ScraperInv, StartupTypeOK
<1>. QED  BY <1>1, SchemaAlways, ScraperAlways, PTL

(***************************************************************************)
(* What was scraped is stored once and in order, and each end of the       *)
(* process costs at most a batch and the rest of the page, which is one    *)
(* point short of a page when the batch is full.                           *)
(***************************************************************************)
THEOREM ScrapedPointsKept == StartupSpec => []PointsKept
<1>1. ScraperInv => PointsKept
  BY DEF ScraperInv, InOrder, Ascending, PointsKept, P!StoredOnceInOrder
<1>. QED  BY <1>1, ScraperAlways, PTL
=============================================================================
