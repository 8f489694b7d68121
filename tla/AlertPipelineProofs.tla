------------------------ MODULE AlertPipelineProofs ------------------------
(***************************************************************************)
(* What holds of aggregate_and_alert alone, for every number of sweeps,    *)
(* every cooldown and any number of Redis faults and lost workers; and     *)
(* then of the alerting stage end to end: composed, both halves behave as  *)
(* they do alone, and so a sink hears of a fingerprint no more often than  *)
(* NotificationRate says, and a confirmed anomaly is not dropped between   *)
(* them.                                                                   *)
(***************************************************************************)
EXTENDS AlertPipeline, FiniteSetTheorems, FunctionTheorems, TLAPS

-----------------------------------------------------------------------------
(* Aggregation and deduplication: typing *)

\* Consensus only removes anomalies.
LEMMA ConsensusSubset == \A R \in SUBSET Anomaly : ApplyConsensus(R) \subseteq R
BY DEF ApplyConsensus

\* Every anomaly has a fingerprint of the declared set.
LEMMA FingerprintType == \A a \in Anomaly : Fingerprint(a) \in Fingerprints
BY DEF Fingerprints

\* Every step of the tasks, of Redis and of their mishaps keeps the types.
LEMMA TypeStep == TypeOK /\ [Next]_vars => TypeOK'
<1> SUFFICES ASSUME TypeOK, [Next]_vars PROVE TypeOK'
  OBVIOUS
<1> USE DEF TypeOK, Task, Stages
<1>1. now + Cooldown \in Nat
  BY CooldownAssumption
<1>2. ASSUME NEW g \in Sweeps, Start(g) PROVE TypeOK'
  <2>1. ApplyConsensus(agg[g].report) \in SUBSET Anomaly
    BY ConsensusSubset
  <2>2. [agg[g] EXCEPT !.st = "filter", !.since = now,
                       !.todo = ApplyConsensus(agg[g].report), !.unique = {}] \in Task
    BY <2>1
  <2>3. agg' \in [Sweeps -> Task]
    BY <1>2, <2>2 DEF Start
  <2>. QED  BY <1>2, <2>3 DEF Start
<1>3. ASSUME NEW g \in Sweeps, ClaimWon(g) PROVE TypeOK'
  <2>1. PICK a \in agg[g].todo :
          /\ SetKey(a)
          /\ agg' = [agg EXCEPT ![g].todo = @ \ {a},
                                ![g].unique = @ \union {[an |-> a, at |-> now]}]
    BY <1>3 DEF ClaimWon
  <2>2. a \in Anomaly /\ [an |-> a, at |-> now] \in Claim
    BY DEF Claim
  <2>3. expiry' \in [Fingerprints -> Nat] /\ wins' \subseteq Claim
    BY <2>1, <2>2, <1>1 DEF SetKey
  <2>4. agg' \in [Sweeps -> Task]
    BY <2>1, <2>2, ZenonT(60)
  <2>. QED  BY <1>3, <2>3, <2>4 DEF ClaimWon
<1>4. ASSUME NEW g \in Sweeps, ClaimRefused(g) PROVE TypeOK'
  BY <1>4 DEF ClaimRefused
<1>5. ASSUME NEW g \in Sweeps, FilterDone(g) PROVE TypeOK'
  BY <1>5 DEF FilterDone
<1>6. ASSUME NEW g \in Sweeps, Return(g) PROVE TypeOK'
  BY <1>6 DEF Return
<1>7. ASSUME NEW g \in Sweeps, Ack(g) PROVE TypeOK'
  BY <1>7 DEF Ack
<1>8. ASSUME NEW g \in Sweeps, NEW c \in agg[g].unique, Dispatch(g, c) PROVE TypeOK'
  BY <1>8 DEF Dispatch
<1>9. ASSUME NEW g \in Sweeps, ChordFires(g) PROVE TypeOK'
  <2>1. PICK R \in Reports : agg' = [agg EXCEPT ![g] = [@ EXCEPT !.st = "queued", !.report = R]]
    BY <1>9 DEF ChordFires
  <2>2. [agg[g] EXCEPT !.st = "queued", !.report = R] \in Task
    <3>1. R \in SUBSET Anomaly
      BY ReportsAssumption
    <3>. QED  BY <3>1
  <2>3. agg' \in [Sweeps -> Task]
    BY <2>1, <2>2
  <2>. QED  BY <1>9, <2>3 DEF ChordFires
<1>10. ASSUME NEW g \in Sweeps, ClaimReplyLost(g) PROVE TypeOK'
  <2>1. PICK a \in agg[g].todo :
          SetKey(a) /\ agg' = [agg EXCEPT ![g].todo = @ \ {a}]
    BY <1>10 DEF ClaimReplyLost
  <2>2. a \in Anomaly /\ [an |-> a, at |-> now] \in Claim
    BY DEF Claim
  <2>3. expiry' \in [Fingerprints -> Nat] /\ wins' \subseteq Claim
    BY <2>1, <2>2, <1>1 DEF SetKey
  <2>4. agg' \in [Sweeps -> Task]
    BY <2>1
  <2>. QED  BY <1>10, <2>3, <2>4 DEF ClaimReplyLost, Faulty
<1>11. ASSUME NEW g \in Sweeps, RedisDown(g) PROVE TypeOK'
  <2>a. [agg[g] EXCEPT !.st = "raised", !.todo = {}, !.unique = {}] \in Task
    OBVIOUS
  <2>b. agg' = [agg EXCEPT ![g] = [agg[g] EXCEPT !.st = "raised", !.todo = {}, !.unique = {}]]
    BY <1>11 DEF RedisDown
  <2>1. agg' \in [Sweeps -> Task]
    BY <2>a, <2>b
  <2>2. deadLetters' \subseteq Sweeps /\ faults' \in Nat
    BY <1>11 DEF RedisDown, Faulty
  <2>. QED  BY <1>11, <2>1, <2>2 DEF RedisDown
<1>12. ASSUME NEW g \in Sweeps, WorkerLost(g) PROVE TypeOK'
  <2>1. agg' \in [Sweeps -> Task]
    BY <1>12, ZenonT(60) DEF WorkerLost
  <2>. QED  BY <1>12, <2>1 DEF WorkerLost
<1>13. CASE Tick
  BY <1>13 DEF Tick
<1>14. CASE UNCHANGED vars
  BY <1>14 DEF vars
<1>. QED
  BY <1>2, <1>3, <1>4, <1>5, <1>6, <1>7, <1>8, <1>9, <1>10, <1>11, <1>12, <1>13, <1>14
     DEF Next, Step, Internal, Outside, Quiescent

\* Every variable keeps its type.
THEOREM TypeCorrect == Spec => []TypeOK
<1>1. Init => TypeOK
  BY DEF Init, TypeOK, Task, Stages
<1>. QED  BY <1>1, TypeStep, PTL DEF Spec

-----------------------------------------------------------------------------
(* Ownership of claims *)

\* A key outlives every claim of its fingerprint.
WindowsCover == \A c \in wins : c.at + Cooldown <= expiry[Fingerprint(c.an)]

\* Only a running task holds claims, and only alerts that were claimed are raised.
OnlyRunningHold ==
  \A g \in Sweeps : agg[g].unique # {} => Running(g)

\* The invariant: with WindowsCover a granted claim is new, so it has one owner.
ClaimInv ==
  /\ TypeOK
  /\ WindowsCover
  /\ OnlyRunningHold
  /\ raised \subseteq wins
  /\ OneOwner
  /\ ClaimsSpaced

\* A claim granted now has never been granted before, and is spaced from all others.
LEMMA FreshClaim ==
  ASSUME ClaimInv, NEW a \in Anomaly, KeyFree(a)
  PROVE  /\ [an |-> a, at |-> now] \notin wins
         /\ \A c \in wins : Fingerprint(c.an) = Fingerprint(a) => c.at + Cooldown <= now
<1> DEFINE k == [an |-> a, at |-> now]
<1>1. now \in Nat /\ expiry[Fingerprint(a)] \in Nat
  BY FingerprintType DEF ClaimInv, TypeOK
<1>2. ASSUME NEW c \in wins, Fingerprint(c.an) = Fingerprint(a)
      PROVE  c.at + Cooldown <= now
  <2>1. c.at \in Nat
    BY DEF ClaimInv, TypeOK, Claim
  <2>2. c.at + Cooldown <= expiry[Fingerprint(a)]
    BY <1>2 DEF ClaimInv, WindowsCover
  <2>. QED  BY <1>1, <2>1, <2>2, CooldownAssumption DEF KeyFree
<1>3. k \notin wins
  <2> SUFFICES ASSUME k \in wins PROVE FALSE
    OBVIOUS
  <2>1. k.at + Cooldown <= now
    BY <1>2
  <2>. QED  BY <2>1, <1>1, CooldownAssumption
<1>. QED  BY <1>2, <1>3

\* What setting a key does to the history of claims.
LEMMA SetKeyStep ==
  ASSUME ClaimInv, NEW a \in Anomaly, KeyFree(a), SetKey(a)
  PROVE  WindowsCover' /\ ClaimsSpaced'
<1> DEFINE k == [an |-> a, at |-> now]
<1>1. wins' = wins \union {k} /\ k.an = a /\ k.at = now
  BY DEF SetKey
<1>2. now \in Nat /\ wins \subseteq Claim /\ expiry \in [Fingerprints -> Nat]
  BY DEF ClaimInv, TypeOK
<1>3. WindowsCover'
  <2> SUFFICES ASSUME NEW c \in wins \union {k}
               PROVE  c.at + Cooldown <= expiry'[Fingerprint(c.an)]
    BY <1>1 DEF WindowsCover
  <2>1. c.an \in Anomaly /\ c.at \in Nat
    BY <1>2 DEF Claim
  <2>2. CASE Fingerprint(c.an) = Fingerprint(a)
    <3>1. expiry'[Fingerprint(c.an)] = now + Cooldown
      BY <2>2, <1>2, FingerprintType DEF SetKey
    <3>2. c \in wins => c.at + Cooldown <= now
      BY <2>2, FreshClaim
    <3>. QED  BY <3>1, <3>2, <2>1, <1>1, <1>2, CooldownAssumption
  <2>3. CASE Fingerprint(c.an) # Fingerprint(a)
    <3>1. c \in wins
      BY <2>3, <1>1
    <3>2. expiry'[Fingerprint(c.an)] = expiry[Fingerprint(c.an)]
      BY <2>3, <2>1, <1>2, FingerprintType DEF SetKey
    <3>. QED  BY <3>1, <3>2 DEF ClaimInv, WindowsCover
  <2>. QED  BY <2>2, <2>3
<1>4. ClaimsSpaced'
  <2> SUFFICES ASSUME NEW c \in wins \union {k}, NEW d \in wins \union {k},
                      Fingerprint(c.an) = Fingerprint(d.an), c # d
               PROVE  c.at + Cooldown <= d.at \/ d.at + Cooldown <= c.at
    BY <1>1 DEF ClaimsSpaced
  <2>1. CASE c \in wins /\ d \in wins
    BY <2>1 DEF ClaimInv, ClaimsSpaced
  <2>2. CASE d = k
    BY <2>2, <1>1, FreshClaim
  <2>3. CASE c = k
    BY <2>3, <1>1, FreshClaim
  <2>. QED  BY <2>1, <2>2, <2>3
<1>. QED  BY <1>3, <1>4

\* A step that touches neither keys nor history, and lets tasks only keep or drop
\* their lists.
LEMMA QuietStep ==
  ASSUME ClaimInv, TypeOK', OnlyRunningHold', UNCHANGED <<expiry, wins, raised>>,
         \A g \in Sweeps : agg'[g].unique \subseteq agg[g].unique
  PROVE  ClaimInv'
BY DEF ClaimInv, WindowsCover, OneOwner, ClaimsSpaced

\* Every step keeps windows, hands and claims in order.
LEMMA ClaimInvStep == ClaimInv /\ [Next]_vars => ClaimInv'
<1> SUFFICES ASSUME ClaimInv, [Next]_vars PROVE ClaimInv'
  OBVIOUS
<1>0. TypeOK /\ TypeOK'
  BY TypeStep DEF ClaimInv
<1>1. ASSUME NEW g \in Sweeps, Start(g) PROVE ClaimInv'
  BY <1>0, <1>1, QuietStep DEF Start, ClaimInv, OnlyRunningHold, Running, TypeOK
<1>2. ASSUME NEW g \in Sweeps, ClaimWon(g) PROVE ClaimInv'
  <2>1. PICK a \in agg[g].todo :
          /\ KeyFree(a)
          /\ SetKey(a)
          /\ agg' = [agg EXCEPT ![g].todo = @ \ {a},
                                ![g].unique = @ \union {[an |-> a, at |-> now]}]
    BY <1>2 DEF ClaimWon
  <2> DEFINE k == [an |-> a, at |-> now]
  <2>2. a \in Anomaly
    BY <1>0 DEF TypeOK, Task
  <2>3. k \notin wins /\ WindowsCover' /\ ClaimsSpaced'
    BY <2>1, <2>2, FreshClaim, SetKeyStep
  <2>4. wins' = wins \union {k} /\ raised' = raised
    BY <1>2, <2>1 DEF SetKey, ClaimWon
  <2>5. /\ agg'[g].st = "filter" /\ agg'[g].unique = agg[g].unique \union {k}
        /\ \A h \in Sweeps \ {g} : agg'[h] = agg[h]
    BY <1>0, <1>2, <2>1 DEF ClaimWon, TypeOK, Task
  <2>6. OnlyRunningHold'
    BY <2>5 DEF ClaimInv, OnlyRunningHold, Running
  <2>7. OneOwner'
    <3>1. \A h \in Sweeps : k \notin agg[h].unique /\ k \notin raised
      BY <2>3 DEF ClaimInv, OneOwner
    <3> SUFFICES ASSUME NEW h \in Sweeps, NEW c \in agg'[h].unique
                 PROVE  /\ c \in wins' \ raised'
                        /\ \A i \in Sweeps \ {h} : c \notin agg'[i].unique
      BY DEF OneOwner
    <3>2. CASE c = k
      BY <3>1, <3>2, <2>4, <2>5
    <3>3. CASE c # k
      <4>1. c \in agg[h].unique
        BY <3>3, <2>5
      <4>. QED  BY <3>3, <4>1, <2>4, <2>5 DEF ClaimInv, OneOwner
    <3>. QED  BY <3>2, <3>3
  <2>. QED  BY <1>0, <2>3, <2>4, <2>6, <2>7 DEF ClaimInv
<1>3. ASSUME NEW g \in Sweeps, ClaimRefused(g) PROVE ClaimInv'
  BY <1>0, <1>3, QuietStep DEF ClaimRefused, ClaimInv, OnlyRunningHold, Running, TypeOK
<1>4. ASSUME NEW g \in Sweeps, FilterDone(g) PROVE ClaimInv'
  BY <1>0, <1>4, QuietStep DEF FilterDone, ClaimInv, OnlyRunningHold, Running, TypeOK
<1>5. ASSUME NEW g \in Sweeps, Return(g) PROVE ClaimInv'
  BY <1>0, <1>5, QuietStep DEF Return, ClaimInv, OnlyRunningHold, Running, TypeOK
<1>6. ASSUME NEW g \in Sweeps, Ack(g) PROVE ClaimInv'
  BY <1>0, <1>6, QuietStep DEF Ack, ClaimInv, OnlyRunningHold, Running, TypeOK
<1>7. ASSUME NEW g \in Sweeps, NEW c \in agg[g].unique, Dispatch(g, c) PROVE ClaimInv'
  <2>1. /\ agg'[g].st = "dispatch" /\ agg'[g].unique = agg[g].unique \ {c}
        /\ \A h \in Sweeps \ {g} : agg'[h] = agg[h]
    BY <1>0, <1>7 DEF Dispatch, TypeOK, Task
  <2>2. c \in wins /\ raised' = raised \union {c} /\ wins' = wins
    BY <1>7 DEF Dispatch, ClaimInv, OneOwner
  <2>3. OnlyRunningHold'
    BY <2>1 DEF ClaimInv, OnlyRunningHold, Running
  <2>4. OneOwner'
    BY <2>1, <2>2 DEF ClaimInv, OneOwner
  <2>. QED  BY <1>0, <1>7, <2>2, <2>3, <2>4 DEF Dispatch, ClaimInv, WindowsCover, ClaimsSpaced
<1>8. ASSUME NEW g \in Sweeps, ChordFires(g) PROVE ClaimInv'
  BY <1>0, <1>8, QuietStep DEF ChordFires, ClaimInv, OnlyRunningHold, Running, TypeOK
<1>9. ASSUME NEW g \in Sweeps, ClaimReplyLost(g) PROVE ClaimInv'
  <2>1. PICK a \in agg[g].todo :
          KeyFree(a) /\ SetKey(a) /\ agg' = [agg EXCEPT ![g].todo = @ \ {a}]
    BY <1>9 DEF ClaimReplyLost
  <2>2. a \in Anomaly
    BY <1>0 DEF TypeOK, Task
  <2>3. WindowsCover' /\ ClaimsSpaced'
    BY <2>1, <2>2, SetKeyStep
  <2>4. wins \subseteq wins' /\ raised' = raised
    BY <1>9, <2>1 DEF SetKey, ClaimReplyLost
  <2>5. \A h \in Sweeps : agg'[h].unique = agg[h].unique /\ agg'[h].st = agg[h].st
    BY <1>0, <2>1 DEF TypeOK, Task
  <2>6. OnlyRunningHold' /\ OneOwner'
    BY <2>4, <2>5 DEF ClaimInv, OnlyRunningHold, Running, OneOwner
  <2>. QED  BY <1>0, <2>3, <2>4, <2>6 DEF ClaimInv
<1>10. ASSUME NEW g \in Sweeps, RedisDown(g) PROVE ClaimInv'
  BY <1>0, <1>10, QuietStep DEF RedisDown, ClaimInv, OnlyRunningHold, Running, TypeOK
<1>11. ASSUME NEW g \in Sweeps, WorkerLost(g) PROVE ClaimInv'
  BY <1>0, <1>11, QuietStep DEF WorkerLost, ClaimInv, OnlyRunningHold, Running, TypeOK
<1>12. CASE Tick
  BY <1>0, <1>12, QuietStep DEF Tick, ClaimInv, OnlyRunningHold, Running
<1>13. CASE UNCHANGED vars
  BY <1>0, <1>13, QuietStep DEF vars, ClaimInv, OnlyRunningHold, Running
<1>. QED
  BY <1>1, <1>2, <1>3, <1>4, <1>5, <1>6, <1>7, <1>8, <1>9, <1>10, <1>11, <1>12, <1>13
     DEF Next, Step, Internal, Outside, Quiescent

(***************************************************************************)
(* In every behaviour of the aggregation tasks a key outlives the claims   *)
(* made on it, only a task that runs holds claims, and a claim has one     *)
(* owner.                                                                  *)
(***************************************************************************)
THEOREM ClaimInvariant == Spec => []ClaimInv
<1>1. Init => ClaimInv
  BY DEF Init, ClaimInv, TypeOK, Task, Stages, WindowsCover, OnlyRunningHold, OneOwner,
         ClaimsSpaced
<1>. QED  BY <1>1, ClaimInvStep, PTL DEF Spec

\* The atomic SET NX EX keeps claims of one fingerprint a cooldown apart, across all
\* overlapping sweeps, faults and redeliveries.
THEOREM ClaimsAreSpaced == Spec => []ClaimsSpaced
BY ClaimInvariant, PTL DEF ClaimInv

\* No claim is held by two tasks, nor held again after it was dispatched: nothing is
\* alerted on twice.
THEOREM ClaimsHaveOneOwner == Spec => []OneOwner
BY ClaimInvariant, PTL DEF ClaimInv

\* Suppressing a spike again, or any other step, leaves a live key's expiry alone.
THEOREM WindowsAreNotProlonged == Spec => WindowNeverProlonged
<1>1. TypeOK /\ [Next]_vars =>
        [\A f \in Fingerprints : expiry[f] > now => expiry'[f] = expiry[f]]_vars
  <2> SUFFICES ASSUME TypeOK, [Next]_vars,
                      NEW f \in Fingerprints, expiry[f] > now, expiry'[f] # expiry[f]
               PROVE  FALSE
    OBVIOUS
  <2>1. PICK g \in Sweeps : ClaimWon(g) \/ ClaimReplyLost(g)
    BY DEF Next, Step, Internal, Outside, vars, Start, ClaimRefused, FilterDone, Return, Ack,
           Dispatch, ChordFires, RedisDown, WorkerLost, Tick, Quiescent
  <2>2. PICK a \in agg[g].todo : KeyFree(a) /\ SetKey(a)
    BY <2>1 DEF ClaimWon, ClaimReplyLost
  <2>3. Fingerprint(a) = f
    BY <2>2 DEF SetKey, TypeOK
  <2>4. now \in Nat /\ expiry[f] \in Nat
    BY DEF TypeOK
  <2>. QED  BY <2>2, <2>3, <2>4 DEF KeyFree
<1>. QED  BY <1>1, TypeCorrect, PTL DEF Spec, WindowNeverProlonged

-----------------------------------------------------------------------------
(* Consensus *)

\* What passes consensus is corroborated by MinDetectors detectors.
LEMMA ConsensusCorroborates ==
  ASSUME NEW R \in SUBSET Anomaly, NEW a \in ApplyConsensus(R)
  PROVE  Corroborated(a, R)
<1>1. a \in R
  BY ConsensusSubset
<1>2. CASE MinDetectors <= 1
  <2>1. Cardinality({a.detector}) = 1 /\ {a.detector} \in SUBSET Detectors
    BY <1>1, FS_Singleton DEF Anomaly
  <2>2. MinDetectors = 1
    BY <1>2, ConsensusAssumption
  <2>. QED  BY <1>1, <2>1, <2>2 DEF Corroborated
<1>3. CASE ~(MinDetectors <= 1)
  <2> DEFINE D == AgreeingDetectors(R, a)
  <2>1. Cardinality(D) >= MinDetectors
    BY <1>3 DEF ApplyConsensus
  <2>2. D \in SUBSET Detectors
    BY DEF AgreeingDetectors, Anomaly
  <2>3. \A d \in D : \E b \in R :
          /\ b.detector = d
          /\ b.tenant = a.tenant /\ b.metric = a.metric
          /\ b.ts \div BucketSeconds = a.ts \div BucketSeconds
    BY DEF AgreeingDetectors, ConsensusGroup, TimeBucket
  <2>. QED  BY <2>1, <2>2, <2>3 DEF Corroborated
<1>. QED  BY <1>2, <1>3

\* The detectors of a group are finitely many, and no fewer of a longer list.
LEMMA AgreeingGrow ==
  ASSUME NEW S \in SUBSET Anomaly, IsFiniteSet(S), NEW R \in SUBSET S, NEW a
  PROVE  /\ Cardinality(AgreeingDetectors(R, a)) \in Nat
         /\ Cardinality(AgreeingDetectors(S, a)) \in Nat
         /\ Cardinality(AgreeingDetectors(R, a)) <= Cardinality(AgreeingDetectors(S, a))
<1>1. PICK B, D, f : /\ B = {c \in S : ConsensusGroup(c) = ConsensusGroup(a)}
                     /\ D = {b.detector : b \in B}
                     /\ f = [b \in B |-> b.detector]
  OBVIOUS
<1>2. IsFiniteSet(B)
  BY <1>1, FS_Subset
<1>3. f \in Surjection(B, D)
  BY <1>1 DEF Surjection
<1>4. IsFiniteSet(D)
  BY <1>2, <1>3, FS_Surjection
<1>5. AgreeingDetectors(S, a) = D /\ AgreeingDetectors(R, a) \subseteq D
  BY <1>1 DEF AgreeingDetectors
<1>. QED  BY <1>4, <1>5, FS_Subset, FS_CardinalityType

\* A further report never suppresses: what passes the filter (apply_consensus) passes it
\* still when the list has grown, by more detectors or by more points of the same ones.
THEOREM ConsensusGrows ==
  ASSUME NEW S \in SUBSET Anomaly, IsFiniteSet(S), NEW R \in SUBSET S
  PROVE  ApplyConsensus(R) \subseteq ApplyConsensus(S)
<1>1. CASE MinDetectors <= 1
  BY <1>1 DEF ApplyConsensus
<1>2. CASE ~(MinDetectors <= 1)
  <2> SUFFICES ASSUME NEW a \in R, Cardinality(AgreeingDetectors(R, a)) >= MinDetectors
               PROVE  Cardinality(AgreeingDetectors(S, a)) >= MinDetectors
    BY <1>2 DEF ApplyConsensus
  <2>1. PICK i, j : i = Cardinality(AgreeingDetectors(R, a)) /\ j = Cardinality(AgreeingDetectors(S, a))
    OBVIOUS
  <2>2. i \in Nat /\ j \in Nat /\ i <= j
    BY <2>1, AgreeingGrow
  <2>. QED  BY <2>1, <2>2, ConsensusAssumption
<1>. QED  BY <1>1, <1>2

\* A group (tenant, metric and time bucket) passes or falls as a whole, and nothing
\* outside of it counts.
LEMMA ConsensusByGroup ==
  ASSUME NEW S, NEW a \in S, NEW R \in SUBSET S,
         \A b \in S : ConsensusGroup(b) = ConsensusGroup(a) => b \in R
  PROVE  a \in ApplyConsensus(S) <=> a \in ApplyConsensus(R)
<1>1. a \in R
  OBVIOUS
<1>2. {c \in S : ConsensusGroup(c) = ConsensusGroup(a)} = {c \in R : ConsensusGroup(c) = ConsensusGroup(a)}
  OBVIOUS
<1>3. AgreeingDetectors(S, a) = AgreeingDetectors(R, a)
  BY <1>2 DEF AgreeingDetectors
<1>. QED  BY <1>1, <1>3 DEF ApplyConsensus

\* Filtering what was filtered changes nothing: what the filter removes was never what
\* an anomaly it keeps owed its detectors to.
THEOREM ConsensusIdempotent ==
  ASSUME NEW S \in SUBSET Anomaly
  PROVE  ApplyConsensus(ApplyConsensus(S)) = ApplyConsensus(S)
<1>1. ApplyConsensus(ApplyConsensus(S)) \subseteq ApplyConsensus(S)
  BY DEF ApplyConsensus
<1>2. ASSUME NEW a \in ApplyConsensus(S) PROVE a \in ApplyConsensus(ApplyConsensus(S))
  <2>1. a \in S /\ ApplyConsensus(S) \in SUBSET S
    BY ConsensusSubset
  <2>2. \A b \in S : ConsensusGroup(b) = ConsensusGroup(a) => b \in ApplyConsensus(S)
    <3>1. ASSUME NEW b \in S, ConsensusGroup(b) = ConsensusGroup(a)
          PROVE  b \in ApplyConsensus(S)
      <4>1. AgreeingDetectors(S, b) = AgreeingDetectors(S, a)
        BY <3>1 DEF AgreeingDetectors
      <4>. QED  BY <4>1 DEF ApplyConsensus
    <3>. QED  BY <3>1
  <2>. QED  BY <2>1, <2>2, ConsensusByGroup
<1>. QED  BY <1>1, <1>2

\* Tenants do not vouch for one another: what passes of a tenant's anomalies in the
\* list of all tenants is what passes of them in a list of their own.
THEOREM ConsensusPerTenant ==
  ASSUME NEW S \in SUBSET Anomaly, NEW t
  PROVE  {a \in ApplyConsensus(S) : a.tenant = t} = ApplyConsensus({a \in S : a.tenant = t})
<1>1. PICK R : R = {a \in S : a.tenant = t}
  OBVIOUS
<1>2. ASSUME NEW a \in R PROVE a \in ApplyConsensus(S) <=> a \in ApplyConsensus(R)
  <2>1. a \in S /\ R \in SUBSET S
    BY <1>1
  <2>2. \A b \in S : ConsensusGroup(b) = ConsensusGroup(a) => b \in R
    BY <1>1 DEF ConsensusGroup
  <2>. QED  BY <2>1, <2>2, ConsensusByGroup
<1>3. ApplyConsensus(S) \subseteq S /\ ApplyConsensus(R) \subseteq R
  BY DEF ApplyConsensus
<1>4. {a \in ApplyConsensus(S) : a.tenant = t} = ApplyConsensus(R)
  BY <1>1, <1>2, <1>3
<1>. QED  BY <1>1, <1>4

\* A sweep's report, once delivered, does not change, and only what consensus kept of
\* it is ever claimed.
ConsensusInv ==
  /\ TypeOK
  /\ \A g \in Sweeps : agg[g].st = "waiting" => agg[g].todo = {}
  /\ \A g \in Sweeps : agg[g].todo \subseteq ApplyConsensus(agg[g].report)
  /\ \A c \in wins : \E g \in Sweeps :
       agg[g].st # "waiting" /\ c.an \in ApplyConsensus(agg[g].report)

\* A step that claims nothing for sweep g and keeps its report.
LEMMA NoClaimStep ==
  ASSUME ConsensusInv, TypeOK', wins' = wins, NEW g \in Sweeps,
         \A h \in Sweeps \ {g} : agg'[h] = agg[h],
         agg'[g].st # "waiting",
         agg'[g].todo \subseteq ApplyConsensus(agg'[g].report),
         agg[g].st # "waiting" => agg'[g].report = agg[g].report
  PROVE  ConsensusInv'
<1>1. \A h \in Sweeps : agg'[h].st = "waiting" => agg'[h].todo = {}
  BY DEF ConsensusInv
<1>2. \A h \in Sweeps : agg'[h].todo \subseteq ApplyConsensus(agg'[h].report)
  BY DEF ConsensusInv
<1>3. ASSUME NEW c \in wins
      PROVE  \E h \in Sweeps :
               agg'[h].st # "waiting" /\ c.an \in ApplyConsensus(agg'[h].report)
  BY DEF ConsensusInv
<1>. QED  BY <1>1, <1>2, <1>3 DEF ConsensusInv

\* A step in which sweep g claims one anomaly of its list.
LEMMA ClaimStep ==
  ASSUME ConsensusInv, TypeOK', NEW g \in Sweeps, NEW a \in agg[g].todo,
         wins' = wins \union {[an |-> a, at |-> now]},
         \A h \in Sweeps \ {g} : agg'[h] = agg[h],
         agg[g].st # "waiting", agg'[g].st = agg[g].st, agg'[g].report = agg[g].report,
         agg'[g].todo \subseteq agg[g].todo
  PROVE  ConsensusInv'
<1>1. \A h \in Sweeps : /\ agg'[h].st = agg[h].st
                        /\ agg'[h].report = agg[h].report
                        /\ agg'[h].todo \subseteq agg[h].todo
  OBVIOUS
<1>2. a \in ApplyConsensus(agg[g].report)
  BY DEF ConsensusInv
<1>3. ASSUME NEW c \in wins'
      PROVE  \E h \in Sweeps :
               agg'[h].st # "waiting" /\ c.an \in ApplyConsensus(agg'[h].report)
  BY <1>1, <1>2 DEF ConsensusInv
<1>4. \A h \in Sweeps : agg'[h].st = "waiting" => agg'[h].todo = {}
  BY <1>1 DEF ConsensusInv
<1>5. \A h \in Sweeps : agg'[h].todo \subseteq ApplyConsensus(agg'[h].report)
  BY <1>1 DEF ConsensusInv
<1>. QED  BY <1>3, <1>4, <1>5 DEF ConsensusInv

\* Every step keeps what is left to claim, and what was claimed, within consensus.
LEMMA ConsensusInvStep == ConsensusInv /\ [Next]_vars => ConsensusInv'
<1> SUFFICES ASSUME ConsensusInv, [Next]_vars PROVE ConsensusInv'
  OBVIOUS
<1>0. TypeOK /\ TypeOK'
  BY TypeStep DEF ConsensusInv
<1>1. ASSUME NEW g \in Sweeps, Start(g) PROVE ConsensusInv'
  BY <1>0, <1>1, NoClaimStep DEF Start, TypeOK, Task, ConsensusInv
<1>2. ASSUME NEW g \in Sweeps, ClaimWon(g) \/ ClaimReplyLost(g) PROVE ConsensusInv'
  <2>1. PICK a \in agg[g].todo :
          /\ SetKey(a)
          /\ \/ agg' = [agg EXCEPT ![g].todo = @ \ {a},
                                   ![g].unique = @ \union {[an |-> a, at |-> now]}]
             \/ agg' = [agg EXCEPT ![g].todo = @ \ {a}]
    BY <1>2 DEF ClaimWon, ClaimReplyLost
  <2>2. /\ agg'[g].st = agg[g].st /\ agg'[g].report = agg[g].report
        /\ agg'[g].todo \subseteq agg[g].todo
        /\ \A h \in Sweeps \ {g} : agg'[h] = agg[h]
    BY <1>0, <2>1 DEF TypeOK, Task
  <2>3. agg[g].st # "waiting" /\ wins' = wins \union {[an |-> a, at |-> now]}
    BY <1>2, <2>1 DEF ClaimWon, ClaimReplyLost, SetKey
  <2>. QED  BY <1>0, <2>2, <2>3, ClaimStep
<1>3. ASSUME NEW g \in Sweeps, ClaimRefused(g) PROVE ConsensusInv'
  BY <1>0, <1>3, NoClaimStep DEF ClaimRefused, TypeOK, Task, ConsensusInv
<1>4. ASSUME NEW g \in Sweeps, FilterDone(g) \/ Return(g) \/ Ack(g) PROVE ConsensusInv'
  BY <1>0, <1>4, NoClaimStep, SMTT(30) DEF FilterDone, Return, Ack, TypeOK, Task, ConsensusInv
<1>5. ASSUME NEW g \in Sweeps, NEW c \in agg[g].unique, Dispatch(g, c) PROVE ConsensusInv'
  BY <1>0, <1>5, NoClaimStep DEF Dispatch, TypeOK, Task, ConsensusInv
<1>6. ASSUME NEW g \in Sweeps, ChordFires(g) PROVE ConsensusInv'
  BY <1>0, <1>6, NoClaimStep DEF ChordFires, TypeOK, Task, ConsensusInv
<1>7. ASSUME NEW g \in Sweeps, RedisDown(g) PROVE ConsensusInv'
  BY <1>0, <1>7, NoClaimStep DEF RedisDown, Running, TypeOK, Task, ConsensusInv
<1>8. ASSUME NEW g \in Sweeps, WorkerLost(g) PROVE ConsensusInv'
  BY <1>0, <1>8, NoClaimStep DEF WorkerLost, Held, TypeOK, Task, ConsensusInv
<1>9. CASE Tick
  BY <1>0, <1>9 DEF Tick, ConsensusInv
<1>10. CASE UNCHANGED vars
  BY <1>0, <1>10 DEF vars, ConsensusInv
<1>. QED
  BY <1>1, <1>2, <1>3, <1>4, <1>5, <1>6, <1>7, <1>8, <1>9, <1>10
     DEF Next, Step, Internal, Outside, Quiescent

\* tasks.py runs consensus before dedup: no key is ever set for an anomaly that fewer
\* than MinDetectors detectors saw.
THEOREM SuppressedNeverClaims == Spec => []NonConsensusNeverClaims
<1>1. Init => ConsensusInv
  BY DEF Init, ConsensusInv, TypeOK, Task, Stages
<1>2. ConsensusInv => NonConsensusNeverClaims
  <2> SUFFICES ASSUME ConsensusInv, NEW c \in wins
               PROVE  \E g \in Sweeps : Corroborated(c.an, agg[g].report)
    BY DEF NonConsensusNeverClaims
  <2>1. PICK g \in Sweeps : c.an \in ApplyConsensus(agg[g].report)
    BY DEF ConsensusInv
  <2>2. agg[g].report \in SUBSET Anomaly
    BY DEF ConsensusInv, TypeOK, Task
  <2>. QED  BY <2>1, <2>2, ConsensusCorroborates
<1>. QED  BY <1>1, <1>2, ConsensusInvStep, PTL DEF Spec

-----------------------------------------------------------------------------
(* Refinement: the tasks together implement the gate *)

\* The gate speaks of the same anomalies and fingerprints.
LEMMA GateSame ==
  /\ Gate!Anomaly = Anomaly
  /\ \A a : Gate!Fingerprint(a) = Fingerprint(a)
  /\ Gate!Fingerprints = Fingerprints
BY DEF Gate!Anomaly, Anomaly, Gate!Fingerprint, Fingerprint, Gate!TimeBucket, TimeBucket,
       Gate!Fingerprints, Fingerprints

\* The gate's tickets: the claims that some task holds.
HeldClaims == UNION {agg[g].unique : g \in Sweeps}

\* A step of one task changes the held claims by what it does to its own list.
LEMMA HeldAfter ==
  ASSUME NEW g \in Sweeps, \A h \in Sweeps \ {g} : agg'[h].unique = agg[h].unique
  PROVE  HeldClaims' = agg'[g].unique \union
                         UNION {agg[h].unique : h \in Sweeps \ {g}}
<1>1. ASSUME NEW c PROVE c \in HeldClaims' <=> \E h \in Sweeps : c \in agg'[h].unique
  BY DEF HeldClaims
<1>2. ASSUME NEW c
      PROVE  c \in UNION {agg[h].unique : h \in Sweeps \ {g}}
               <=> \E h \in Sweeps \ {g} : c \in agg[h].unique
  OBVIOUS
<1>. QED  BY <1>1, <1>2

\* A task that empties its list loses exactly its tickets.
LEMMA DropLoses ==
  ASSUME ClaimInv, NEW g \in Sweeps, agg'[g].unique = {},
         \A h \in Sweeps \ {g} : agg'[h].unique = agg[h].unique,
         UNCHANGED <<now, expiry, raised>>
  PROVE  \E S \in SUBSET HeldClaims : Gate!Lose(S)
<1>1. agg[g].unique \in SUBSET HeldClaims
  BY DEF HeldClaims
<1>2. \A h \in Sweeps \ {g} : agg[h].unique \intersect agg[g].unique = {}
  BY DEF ClaimInv, OneOwner
<1>3. HeldClaims' = HeldClaims \ agg[g].unique
  BY <1>2, HeldAfter DEF HeldClaims
<1>. QED  BY <1>1, <1>3 DEF Gate!Lose, HeldClaims

\* Every step of the tasks is a step of the gate, or none.
LEMMA RefinementStep ==
  ClaimInv /\ [Next]_vars => [Gate!GateNext]_(Gate!gateVars)
<1> SUFFICES ASSUME ClaimInv, [Next]_vars PROVE [Gate!GateNext]_(Gate!gateVars)
  OBVIOUS
<1>0. TypeOK
  BY DEF ClaimInv
<1>a. ASSUME UNCHANGED <<now, expiry, raised>>,
             \A g \in Sweeps : agg'[g].unique = agg[g].unique
      PROVE  UNCHANGED Gate!gateVars
  BY <1>a DEF Gate!gateVars
<1>1. ASSUME NEW g \in Sweeps, Start(g) PROVE UNCHANGED Gate!gateVars
  <2>1. agg[g].unique = {}
    BY <1>1 DEF Start, ClaimInv, OnlyRunningHold, Running
  <2>. QED  BY <1>0, <1>1, <1>a, <2>1 DEF Start, TypeOK, Task
<1>2. ASSUME NEW g \in Sweeps, ClaimWon(g) PROVE Gate!GateNext
  <2>1. PICK a \in agg[g].todo :
          /\ KeyFree(a)
          /\ SetKey(a)
          /\ agg' = [agg EXCEPT ![g].todo = @ \ {a},
                                ![g].unique = @ \union {[an |-> a, at |-> now]}]
    BY <1>2 DEF ClaimWon
  <2>2. a \in Anomaly
    BY <1>0 DEF TypeOK, Task
  <2>3. /\ agg'[g].unique = agg[g].unique \union {[an |-> a, at |-> now]}
        /\ \A h \in Sweeps \ {g} : agg'[h].unique = agg[h].unique
    BY <1>0, <2>1 DEF TypeOK, Task
  <2>4. HeldClaims' = HeldClaims \union {[an |-> a, at |-> now]}
    BY <2>3, HeldAfter DEF HeldClaims
  <2>5. Gate!Issue(a)
    BY <1>2, <2>1, <2>4, GateSame DEF ClaimWon, KeyFree, SetKey, Gate!Issue, HeldClaims
  <2>. QED  BY <2>2, <2>5, GateSame DEF Gate!GateNext
<1>3. ASSUME NEW g \in Sweeps, ClaimRefused(g) PROVE UNCHANGED Gate!gateVars
  BY <1>0, <1>3, <1>a DEF ClaimRefused, TypeOK, Task
<1>4. ASSUME NEW g \in Sweeps, FilterDone(g) PROVE UNCHANGED Gate!gateVars
  BY <1>0, <1>4, <1>a DEF FilterDone, TypeOK, Task
<1>5. ASSUME NEW g \in Sweeps, Return(g) PROVE UNCHANGED Gate!gateVars
  BY <1>0, <1>5, <1>a DEF Return, TypeOK, Task
<1>6. ASSUME NEW g \in Sweeps, Ack(g) PROVE UNCHANGED Gate!gateVars
  BY <1>0, <1>6, <1>a DEF Ack, TypeOK, Task
<1>7. ASSUME NEW g \in Sweeps, NEW c \in agg[g].unique, Dispatch(g, c) PROVE Gate!GateNext
  <2>1. /\ agg'[g].unique = agg[g].unique \ {c}
        /\ \A h \in Sweeps \ {g} : agg'[h].unique = agg[h].unique
    BY <1>0, <1>7 DEF Dispatch, TypeOK, Task
  <2>2. /\ c \in HeldClaims /\ c \notin raised
        /\ \A h \in Sweeps \ {g} : c \notin agg[h].unique
    BY DEF ClaimInv, OneOwner, HeldClaims
  <2>3. HeldClaims' = HeldClaims \ {c}
    BY <2>1, <2>2, HeldAfter DEF HeldClaims
  <2>4. Gate!Raise(c)
    BY <1>7, <2>2, <2>3 DEF Dispatch, Gate!Raise, HeldClaims
  <2>. QED  BY <2>2, <2>4 DEF Gate!GateNext, HeldClaims
<1>8. ASSUME NEW g \in Sweeps, ChordFires(g) PROVE UNCHANGED Gate!gateVars
  BY <1>0, <1>8, <1>a DEF ChordFires, TypeOK, Task
<1>9. ASSUME NEW g \in Sweeps, ClaimReplyLost(g) PROVE Gate!GateNext
  <2>1. PICK a \in agg[g].todo :
          KeyFree(a) /\ SetKey(a) /\ agg' = [agg EXCEPT ![g].todo = @ \ {a}]
    BY <1>9 DEF ClaimReplyLost
  <2>2. a \in Anomaly
    BY <1>0 DEF TypeOK, Task
  <2>3. \A h \in Sweeps : agg'[h].unique = agg[h].unique
    BY <1>0, <2>1 DEF TypeOK, Task
  <2>4. HeldClaims' = HeldClaims
    BY <2>3 DEF HeldClaims
  <2>5. Gate!IssueLost(a)
    BY <1>9, <2>1, <2>4, GateSame DEF ClaimReplyLost, KeyFree, SetKey, Gate!IssueLost, HeldClaims
  <2>. QED  BY <2>2, <2>5, GateSame DEF Gate!GateNext
<1>10. ASSUME NEW g \in Sweeps, RedisDown(g) PROVE Gate!GateNext
  <2>1. \E S \in SUBSET HeldClaims : Gate!Lose(S)
    BY <1>0, <1>10, DropLoses DEF RedisDown, TypeOK, Task
  <2>. QED  BY <2>1 DEF Gate!GateNext, HeldClaims
<1>11. ASSUME NEW g \in Sweeps, WorkerLost(g) PROVE Gate!GateNext
  <2>1. \E S \in SUBSET HeldClaims : Gate!Lose(S)
    BY <1>0, <1>11, DropLoses DEF WorkerLost, TypeOK, Task
  <2>. QED  BY <2>1 DEF Gate!GateNext, HeldClaims
<1>12. CASE Tick
  <2>1. Gate!Pass
    BY <1>0, <1>12 DEF Tick, TypeOK, Gate!Pass
  <2>. QED  BY <2>1 DEF Gate!GateNext
<1>13. CASE UNCHANGED vars
  BY <1>13 DEF vars, Gate!gateVars
<1>. QED
  BY <1>1, <1>2, <1>3, <1>4, <1>5, <1>6, <1>7, <1>8, <1>9, <1>10, <1>11, <1>12, <1>13
     DEF Next, Step, Internal, Outside, Quiescent

\* aggregate_and_alert implements the abstract gate: at most one alert for each window,
\* and a window is opened only when the previous one has closed.
THEOREM ImplementsGate == Spec => GateSafety
<1>1. Init => Gate!GateInit
  <2> SUFFICES ASSUME Init PROVE Gate!GateInit
    OBVIOUS
  <2>1. HeldClaims = {}
    BY DEF Init, HeldClaims
  <2>. QED  BY <2>1, GateSame DEF Init, Gate!GateInit, HeldClaims
<1>. QED  BY <1>1, RefinementStep, ClaimInvariant, PTL DEF Spec, GateSafety, Gate!GateSpec
-----------------------------------------------------------------------------
(* Nothing lapses without a mishap *)

\* A key's expiry is that of a claim.
KeysFromClaims ==
  \A f \in Fingerprints : expiry[f] > 0 =>
    \E c \in wins : Fingerprint(c.an) = f /\ expiry[f] = c.at + Cooldown

\* Without faults a claim that is not raised yet is held by a task that will raise it.
NothingDropped ==
  faults = 0 /\ losses = 0 => \A c \in wins \ raised : \E g \in Sweeps : c \in agg[g].unique

\* There is a claim of the anomaly's fingerprint whose window reaches into this run of g.
Covered(g, a) ==
  \E c \in wins : Fingerprint(c.an) = Fingerprint(a) /\ agg[g].since < c.at + Cooldown

\* What the filter loop of g has behind it is covered.
Handled(g) ==
  agg[g].st \in {"filter", "dispatch", "returned"} =>
    /\ agg[g].since <= now
    /\ agg[g].st # "filter" => agg[g].todo = {}
    /\ \A a \in ApplyConsensus(agg[g].report) \ agg[g].todo : Covered(g, a)

AllHandled == \A g \in Sweeps : Handled(g)

\* A step that sets no key: the other tasks' claims still cover what they handled.
LEMMA HandledStep ==
  ASSUME AllHandled, NEW g \in Sweeps, \A h \in Sweeps \ {g} : agg'[h] = agg[h],
         wins \subseteq wins', now' = now, Handled(g)'
  PROVE  AllHandled'
<1> SUFFICES ASSUME NEW h \in Sweeps \ {g} PROVE Handled(h)'
  BY DEF AllHandled
<1>1. Handled(h) /\ agg'[h] = agg[h]
  BY DEF AllHandled
<1>. QED  BY <1>1 DEF Handled, Covered

\* A task that keeps its report and the start of its run and hands the loop's list on.
LEMMA SameRun ==
  ASSUME NEW g \in Sweeps, Handled(g), agg[g].st \in {"filter", "dispatch", "returned"},
         agg'[g].report = agg[g].report, agg'[g].since = agg[g].since,
         wins \subseteq wins', now' = now, agg'[g].todo \subseteq agg[g].todo,
         agg'[g].st # "filter" => agg'[g].todo = {},
         \A a \in agg[g].todo \ agg'[g].todo : Covered(g, a)'
  PROVE  Handled(g)'
<1>1. ASSUME NEW a \in ApplyConsensus(agg[g].report) \ agg'[g].todo PROVE Covered(g, a)'
  <2>1. CASE a \in agg[g].todo
    BY <2>1
  <2>2. CASE a \notin agg[g].todo
    <3>1. Covered(g, a)
      BY <2>2 DEF Handled
    <3>. QED  BY <3>1 DEF Covered
  <2>. QED  BY <2>1, <2>2
<1>. QED  BY <1>1 DEF Handled
\* Setting a key is a claim, and gives the key the claim's expiry.
LEMMA KeysStep ==
  ASSUME TypeOK, KeysFromClaims, NEW a \in Anomaly, SetKey(a)
  PROVE  KeysFromClaims'
<1> DEFINE k == [an |-> a, at |-> now]
<1> SUFFICES ASSUME NEW f \in Fingerprints, expiry'[f] > 0
             PROVE  \E c \in wins' : Fingerprint(c.an) = f /\ expiry'[f] = c.at + Cooldown
  BY DEF KeysFromClaims
<1>1. k \in wins' /\ wins \subseteq wins' /\ k.an = a /\ k.at = now
  BY DEF SetKey
<1>2. CASE f = Fingerprint(a)
  <2>1. expiry'[f] = now + Cooldown
    BY <1>2, FingerprintType DEF SetKey, TypeOK
  <2>. QED  BY <1>1, <1>2, <2>1
<1>3. CASE f # Fingerprint(a)
  <2>1. expiry'[f] = expiry[f]
    BY <1>3, FingerprintType DEF SetKey, TypeOK
  <2>. QED  BY <1>1, <2>1 DEF KeysFromClaims
<1>. QED  BY <1>2, <1>3

\* Every step of a task leaves it, and every other task, with what it handled covered: a
\* claim is refused only while the window of an earlier one is open.
LEMMA AllHandledStep ==
  TypeOK /\ KeysFromClaims /\ AllHandled /\ [Next]_vars => AllHandled'
<1> SUFFICES ASSUME TypeOK, KeysFromClaims, AllHandled, [Next]_vars PROVE AllHandled'
  OBVIOUS
<1>0. agg \in [Sweeps -> Task] /\ now \in Nat
  BY DEF TypeOK
<1>1. ASSUME NEW g \in Sweeps, Start(g) PROVE AllHandled'
  <2>1. /\ agg'[g].since = now /\ agg'[g].todo = ApplyConsensus(agg'[g].report)
        /\ agg'[g].st = "filter" /\ \A h \in Sweeps \ {g} : agg'[h] = agg[h]
        /\ UNCHANGED <<wins, now>>
    BY <1>0, <1>1 DEF Start, Task
  <2>2. Handled(g)'
    BY <1>0, <2>1 DEF Handled
  <2>. QED  BY <2>1, <2>2, HandledStep
<1>2. ASSUME NEW g \in Sweeps, ClaimWon(g) \/ ClaimReplyLost(g) PROVE AllHandled'
  <2>1. PICK a \in agg[g].todo :
          /\ SetKey(a)
          /\ \/ agg' = [agg EXCEPT ![g].todo = @ \ {a},
                                   ![g].unique = @ \union {[an |-> a, at |-> now]}]
             \/ agg' = [agg EXCEPT ![g].todo = @ \ {a}]
    BY <1>2 DEF ClaimWon, ClaimReplyLost
  <2>2. /\ agg'[g].st = "filter" /\ agg[g].st = "filter"
        /\ agg'[g].report = agg[g].report /\ agg'[g].since = agg[g].since
        /\ agg'[g].todo = agg[g].todo \ {a} /\ now' = now
        /\ \A h \in Sweeps \ {g} : agg'[h] = agg[h]
    BY <1>0, <1>2, <2>1 DEF Task, ClaimWon, ClaimReplyLost
  <2>3. wins' = wins \union {[an |-> a, at |-> now]}
    BY <2>1 DEF SetKey
  <2>4. Handled(g)
    BY DEF AllHandled
  <2>5. agg[g].since \in Nat /\ agg[g].since <= now
    BY <1>0, <2>2, <2>4 DEF Handled, Task
  <2>6. Covered(g, a)'
    <3> DEFINE k == [an |-> a, at |-> now]
    <3>1. agg'[g].since < now + Cooldown
      BY <1>0, <2>2, <2>5, CooldownAssumption
    <3>2. k \in wins' /\ Fingerprint(k.an) = Fingerprint(a) /\ k.at = now
      BY <2>3
    <3>. HIDE DEF k
    <3>. QED  BY <3>1, <3>2 DEF Covered
  <2>7. Handled(g)'
    BY <2>2, <2>3, <2>4, <2>6, SameRun
  <2>. QED  BY <2>2, <2>3, <2>7, HandledStep
<1>3. ASSUME NEW g \in Sweeps, ClaimRefused(g) PROVE AllHandled'
  <2>1. PICK a \in agg[g].todo : ~KeyFree(a) /\ agg' = [agg EXCEPT ![g].todo = @ \ {a}]
    BY <1>3 DEF ClaimRefused
  <2>2. /\ agg'[g].st = "filter" /\ agg[g].st = "filter"
        /\ agg'[g].report = agg[g].report /\ agg'[g].since = agg[g].since
        /\ agg'[g].todo = agg[g].todo \ {a} /\ UNCHANGED <<wins, now>>
        /\ \A h \in Sweeps \ {g} : agg'[h] = agg[h]
    BY <1>0, <1>3, <2>1 DEF Task, ClaimRefused
  <2>3. Handled(g)
    BY DEF AllHandled
  <2>4. agg[g].since \in Nat /\ agg[g].since <= now /\ a \in Anomaly
    BY <1>0, <2>2, <2>3 DEF Handled, Task
  <2>5. Fingerprint(a) \in Fingerprints /\ expiry[Fingerprint(a)] \in Nat
    BY <2>4, FingerprintType DEF TypeOK
  <2>6. expiry[Fingerprint(a)] > now
    BY <1>0, <2>1, <2>5 DEF KeyFree
  <2>7. PICK c \in wins :
          Fingerprint(c.an) = Fingerprint(a) /\ expiry[Fingerprint(a)] = c.at + Cooldown
    BY <1>0, <2>5, <2>6 DEF KeysFromClaims
  <2>8. agg'[g].since < c.at + Cooldown
    BY <1>0, <2>2, <2>4, <2>5, <2>6, <2>7
  <2>9. Covered(g, a)'
    BY <2>2, <2>7, <2>8 DEF Covered
  <2>10. Handled(g)'
    BY <2>2, <2>3, <2>9, SameRun
  <2>. QED  BY <2>2, <2>10, HandledStep
<1>4. ASSUME NEW g \in Sweeps, FilterDone(g) \/ Return(g) \/ \E c \in agg[g].unique : Dispatch(g, c)
      PROVE  AllHandled'
  <2>1. /\ agg'[g].st # "filter" /\ agg[g].st \in {"filter", "dispatch"}
        /\ agg'[g].report = agg[g].report /\ agg'[g].since = agg[g].since
        /\ agg'[g].todo = agg[g].todo /\ UNCHANGED <<wins, now>>
        /\ \A h \in Sweeps \ {g} : agg'[h] = agg[h]
    BY <1>0, <1>4 DEF Task, FilterDone, Return, Dispatch
  <2>2. agg[g].todo = {}
    BY <1>4 DEF FilterDone, Return, Dispatch, AllHandled, Handled
  <2>3. Handled(g)'
    BY <2>1, <2>2, SameRun DEF AllHandled
  <2>. QED  BY <2>1, <2>3, HandledStep
<1>5. ASSUME NEW g \in Sweeps, Ack(g) \/ ChordFires(g) \/ RedisDown(g) \/ WorkerLost(g)
      PROVE  AllHandled'
  <2>1. /\ agg'[g].st \in {"done", "queued", "raised"} /\ UNCHANGED <<wins, now>>
        /\ \A h \in Sweeps \ {g} : agg'[h] = agg[h]
    BY <1>0, <1>5 DEF Task, Ack, ChordFires, RedisDown, WorkerLost
  <2>2. Handled(g)'
    BY <2>1 DEF Handled
  <2>. QED  BY <2>1, <2>2, HandledStep
<1>6. CASE Tick
  <2>1. \A g \in Sweeps : agg[g].since \in Nat
    BY <1>0 DEF Task
  <2>. QED  BY <1>0, <1>6, <2>1 DEF Tick, AllHandled, Handled, Covered
<1>7. CASE UNCHANGED vars
  BY <1>7 DEF vars, AllHandled, Handled, Covered
<1>. QED
  BY <1>1, <1>2, <1>3, <1>4, <1>5, <1>6, <1>7 DEF Next, Step, Internal, Outside, Quiescent

\* Keys are set by claims only.
LEMMA AllKeysStep == TypeOK /\ KeysFromClaims /\ [Next]_vars => KeysFromClaims'
<1> SUFFICES ASSUME TypeOK, KeysFromClaims, [Next]_vars PROVE KeysFromClaims'
  OBVIOUS
<1>1. ASSUME NEW g \in Sweeps, ClaimWon(g) \/ ClaimReplyLost(g) PROVE KeysFromClaims'
  <2>1. PICK a \in agg[g].todo : SetKey(a)
    BY <1>1 DEF ClaimWon, ClaimReplyLost
  <2>2. a \in Anomaly
    BY DEF TypeOK, Task
  <2>. QED  BY <2>1, <2>2, KeysStep
<1>2. CASE UNCHANGED <<expiry, wins>>
  BY <1>2 DEF KeysFromClaims
<1>. QED
  BY <1>1, <1>2
     DEF Next, Step, Internal, Outside, Quiescent, Start, ClaimRefused, FilterDone, Return, Ack,
         Dispatch, ChordFires, RedisDown, WorkerLost, Tick, vars

\* A claim leaves its task's list only to be raised, as long as nothing has gone wrong.
LEMMA NothingDroppedStep ==
  ClaimInv /\ NothingDropped /\ [Next]_vars => NothingDropped'
<1> SUFFICES ASSUME ClaimInv, NothingDropped, [Next]_vars, faults' = 0, losses' = 0
             PROVE  \A c \in wins' \ raised' : \E g \in Sweeps : c \in agg'[g].unique
  BY DEF NothingDropped
<1>0. TypeOK /\ agg \in [Sweeps -> Task] /\ faults \in Nat /\ losses \in Nat
  BY DEF ClaimInv, TypeOK
<1> DEFINE Kept == \A c \in wins \ raised : \E g \in Sweeps : c \in agg[g].unique
<1>1. ASSUME NEW g \in Sweeps, ClaimReplyLost(g) \/ RedisDown(g) \/ WorkerLost(g) PROVE FALSE
  BY <1>0, <1>1 DEF ClaimReplyLost, RedisDown, WorkerLost, Faulty
<1>2. ASSUME UNCHANGED <<faults, losses>> PROVE Kept
  BY <1>2 DEF NothingDropped
<1>3. ASSUME NEW g \in Sweeps, ClaimWon(g) PROVE Kept'
  <2>1. PICK a \in agg[g].todo :
          /\ SetKey(a)
          /\ agg' = [agg EXCEPT ![g].todo = @ \ {a},
                                ![g].unique = @ \union {[an |-> a, at |-> now]}]
    BY <1>3 DEF ClaimWon
  <2>2. /\ agg'[g].unique = agg[g].unique \union {[an |-> a, at |-> now]}
        /\ \A h \in Sweeps \ {g} : agg'[h] = agg[h]
    BY <1>0, <2>1 DEF Task
  <2>3. wins' = wins \union {[an |-> a, at |-> now]} /\ raised' = raised
    BY <1>3, <2>1 DEF SetKey, ClaimWon
  <2>4. Kept
    BY <1>2, <1>3 DEF ClaimWon
  <2>. QED  BY <2>2, <2>3, <2>4
<1>4. ASSUME NEW g \in Sweeps, NEW c \in agg[g].unique, Dispatch(g, c) PROVE Kept'
  <2>1. /\ agg'[g].unique = agg[g].unique \ {c} /\ raised' = raised \union {c} /\ wins' = wins
        /\ \A h \in Sweeps \ {g} : agg'[h] = agg[h]
    BY <1>0, <1>4 DEF Dispatch, Task
  <2>2. Kept
    BY <1>2, <1>4 DEF Dispatch
  <2>. QED  BY <2>1, <2>2
<1>5. ASSUME NEW g \in Sweeps,
             Start(g) \/ ClaimRefused(g) \/ FilterDone(g) \/ Return(g) \/ Ack(g) \/ ChordFires(g)
      PROVE  Kept'
  <2>1. agg[g].unique = agg'[g].unique /\ \A h \in Sweeps \ {g} : agg'[h] = agg[h]
    <3>1. CASE Start(g)
      BY <1>0, <3>1 DEF Start, Task, ClaimInv, OnlyRunningHold, Running
    <3>2. CASE ~Start(g)
      BY <1>0, <1>5, <3>2, ZenonT(60) DEF ClaimRefused, FilterDone, Return, Ack, ChordFires, Task
    <3>. QED  BY <3>1, <3>2
  <2>2. Kept /\ UNCHANGED <<wins, raised>>
    BY <1>2, <1>5 DEF Start, ClaimRefused, FilterDone, Return, Ack, ChordFires
  <2>. QED  BY <2>1, <2>2
<1>6. CASE Tick \/ UNCHANGED vars
  <2>1. Kept
    BY <1>2, <1>6 DEF Tick, vars
  <2>. QED  BY <1>6, <2>1 DEF Tick, vars
<1>. QED
  BY <1>1, <1>3, <1>4, <1>5, <1>6 DEF Next, Step, Internal, Outside, Quiescent

\* The invariant behind the claims that lapse, and its three facts.
LapseInv == ClaimInv /\ KeysFromClaims /\ NothingDropped /\ AllHandled

\* Before the first sweep there is nothing to lapse, and no step lets a claim lapse.
LEMMA LapseInvariant == Spec => []LapseInv
<1>1. Init => LapseInv
  <2> SUFFICES ASSUME Init PROVE LapseInv
    OBVIOUS
  <2>1. ClaimInv
    BY DEF Init, ClaimInv, TypeOK, Task, Stages, WindowsCover, OnlyRunningHold, OneOwner,
           ClaimsSpaced
  <2>2. wins = {} /\ (\A f \in Fingerprints : expiry[f] = 0)
        /\ \A g \in Sweeps : agg[g].st = "waiting"
    BY DEF Init
  <2>. QED  BY <2>1, <2>2 DEF LapseInv, KeysFromClaims, NothingDropped, AllHandled, Handled
<1>2. LapseInv /\ [Next]_vars => LapseInv'
  <2>1. ClaimInv => TypeOK
    BY DEF ClaimInv
  <2>. QED  BY <2>1, ClaimInvStep, AllKeysStep, NothingDroppedStep, AllHandledStep DEF LapseInv
<1>. QED  BY <1>1, <1>2, PTL DEF Spec

(***************************************************************************)
(* Without a Redis fault or a lost worker every claim leads to an alert,   *)
(* and no anomaly is suppressed for a claim whose window closed before its *)
(* task started.                                                           *)
(***************************************************************************)
THEOREM ClaimsLapseByMishapOnly == Spec => []NoLossWithoutMishap
<1>1. LapseInv => NoLossWithoutMishap
  <2> SUFFICES ASSUME LapseInv PROVE NoLossWithoutMishap
    OBVIOUS
  <2>. USE DEF LapseInv
  <2>1. ASSUME Settled, faults = 0, losses = 0 PROVE wins = raised
    <3>1. \A g \in Sweeps : agg[g].unique = {}
      BY <2>1 DEF Settled, ClaimInv, OnlyRunningHold, Running
    <3>2. raised \subseteq wins
      BY DEF ClaimInv
    <3>. QED  BY <2>1, <3>1, <3>2 DEF NothingDropped
  <2>2. ASSUME NEW g \in Sweeps, agg[g].st \in {"dispatch", "returned"},
               NEW a \in ApplyConsensus(agg[g].report)
        PROVE  Covered(g, a)
    BY <2>2 DEF AllHandled, Handled
  <2>. QED  BY <2>1, <2>2 DEF NoLossWithoutMishap, Covered
<1>. QED  BY <1>1, LapseInvariant, PTL

\* Nothing raises without a fault, and a task that is through has covered its report.
DoneCovered ==
  faults = 0 /\ losses = 0 =>
    \A g \in Sweeps :
      /\ agg[g].st # "raised"
      /\ agg[g].st = "done" => \A a \in ApplyConsensus(agg[g].report) : Covered(g, a)

\* It is done when it has returned, and had covered its report by then.
LEMMA DoneCoveredStep ==
  TypeOK /\ AllHandled /\ DoneCovered /\ [Next]_vars => DoneCovered'
<1> SUFFICES ASSUME TypeOK, AllHandled, DoneCovered, [Next]_vars, faults' = 0, losses' = 0,
                    NEW g \in Sweeps
             PROVE  /\ agg'[g].st # "raised"
                    /\ agg'[g].st = "done" =>
                         \A a \in ApplyConsensus(agg'[g].report) : Covered(g, a)'
  BY DEF DoneCovered
<1>0. agg \in [Sweeps -> Task] /\ faults \in Nat /\ losses \in Nat
  BY DEF TypeOK
<1>1. ASSUME NEW h \in Sweeps, ClaimReplyLost(h) \/ RedisDown(h) \/ WorkerLost(h) PROVE FALSE
  BY <1>0, <1>1 DEF ClaimReplyLost, RedisDown, WorkerLost, Faulty
<1>2. ASSUME UNCHANGED <<faults, losses>>
      PROVE  /\ agg[g].st # "raised"
             /\ agg[g].st = "done" => \A a \in ApplyConsensus(agg[g].report) : Covered(g, a)
  BY <1>2 DEF DoneCovered
<1>3. ASSUME UNCHANGED <<faults, losses>>, agg'[g] = agg[g], wins \subseteq wins'
      PROVE  /\ agg'[g].st # "raised"
             /\ agg'[g].st = "done" => \A a \in ApplyConsensus(agg'[g].report) : Covered(g, a)'
  BY <1>2, <1>3 DEF Covered
<1>4. ASSUME Ack(g)
      PROVE  /\ agg'[g].st # "raised"
             /\ \A a \in ApplyConsensus(agg'[g].report) : Covered(g, a)'
  <2>1. agg[g].st = "returned" /\ wins' = wins
    BY <1>2, <1>4 DEF Ack
  <2>2. agg'[g].st = "done" /\ agg'[g].report = agg[g].report /\ agg'[g].since = agg[g].since
    BY <1>0, <1>4 DEF Ack, Task
  <2>3. \A a \in ApplyConsensus(agg[g].report) : Covered(g, a)
    BY <2>1 DEF AllHandled, Handled
  <2>. QED  BY <2>1, <2>2, <2>3 DEF Covered
<1>5. ASSUME Start(g) \/ ClaimWon(g) \/ ClaimRefused(g) \/ FilterDone(g) \/ Return(g)
             \/ ChordFires(g) \/ \E c \in agg[g].unique : Dispatch(g, c)
      PROVE  agg'[g].st \notin {"raised", "done"}
  BY <1>0, <1>5, ZenonT(60)
     DEF Start, ClaimWon, ClaimRefused, FilterDone, Return, ChordFires, Dispatch, Task
<1>6. ASSUME NEW h \in Sweeps, h # g, Step(h) \/ ChordFires(h)
      PROVE  UNCHANGED <<faults, losses>> /\ agg'[g] = agg[g] /\ wins \subseteq wins'
  BY <1>0, <1>6 DEF Step, Internal, Start, ClaimWon, SetKey, ClaimRefused, FilterDone, Return, Ack,
                    Dispatch, ChordFires
<1>7. CASE Tick \/ UNCHANGED vars
  <2>1. UNCHANGED <<faults, losses>> /\ agg'[g] = agg[g] /\ wins \subseteq wins'
    BY <1>7 DEF Tick, vars
  <2>. QED  BY <1>3, <2>1
<1>8. ASSUME NEW h \in Sweeps, Step(h) \/ Outside(h)
      PROVE  /\ agg'[g].st # "raised"
             /\ agg'[g].st = "done" => \A a \in ApplyConsensus(agg'[g].report) : Covered(g, a)'
  <2>1. CASE h = g
    BY <1>1, <1>4, <1>5, <1>8, <2>1 DEF Step, Internal, Outside
  <2>2. CASE h # g
    BY <1>1, <1>3, <1>6, <1>8, <2>2 DEF Outside
  <2>. QED  BY <2>1, <2>2
<1>. QED  BY <1>7, <1>8 DEF Next, Quiescent

\* So it is of every task.
LEMMA DoneCoveredInvariant == Spec => []DoneCovered
<1>1. Init => DoneCovered
  BY DEF Init, DoneCovered
<1>2. LapseInv => TypeOK /\ AllHandled
  BY DEF LapseInv, ClaimInv
<1>. QED  BY <1>1, <1>2, DoneCoveredStep, LapseInvariant, PTL DEF Spec
-----------------------------------------------------------------------------
(* The two halves together *)

\* The theorems of the delivery half.
Delivery == INSTANCE AlertDeliveryProofs WITH
  MetricOf <- [c \in Alerts |-> c.an.metric],
  MaxLosses <- MaxAlertLosses,
  deadLetters <- alertLetters,
  losses <- alertLosses

\* They hold for the constants of the pipeline.
LEMMA DeliveryAssumptions ==
  /\ Delivery!LogAssumption /\ Delivery!AlertsAssumption
  /\ Delivery!RulesAssumption /\ Delivery!BoundsAssumption
<1>1. Delivery!LogAssumption
  BY MessagesAssumption DEF Delivery!LogAssumption
<1>2. Delivery!AlertsAssumption
  BY MessagesAssumption DEF Delivery!AlertsAssumption, Alerts, Anomaly
<1>3. Delivery!RulesAssumption
  BY MessagesAssumption DEF Delivery!RulesAssumption, Route!Rule, Delivery!Rule
<1>4. Delivery!BoundsAssumption
  BY DeliveryBoundsAssumption
     DEF Delivery!BoundsAssumption, Delivery!IsFiniteSet, IsFiniteSet
<1>. QED  BY <1>1, <1>2, <1>3, <1>4

\* What the pipeline calls Route is what those theorems are about.
LEMMA SameInit == Route!Init <=> Delivery!Init
BY DEF Route!Init, Delivery!Init, Route!Free, Delivery!Free

\* Likewise of its steps.
LEMMA SameNext == [Route!Next]_(Route!vars) <=> [Delivery!Next]_(Delivery!vars)
<1> USE DEF Route!tables, Delivery!tables, Route!letters, Delivery!letters
<1>1. \A a : Route!Publish(a) <=> Delivery!Publish(a)
  BY DEF Route!Publish, Delivery!Publish, Route!Free, Delivery!Free, Route!Queued, Delivery!Queued
<1>2. \A t : Route!Take(t) <=> Delivery!Take(t)
  BY DEF Route!Take, Delivery!Take, Route!ChosenSinks, Delivery!ChosenSinks,
         Route!BuildDefaultRouter, Delivery!BuildDefaultRouter, Route!AvailableSinks,
         Delivery!AvailableSinks, Route!SelectSinkNames, Delivery!SelectSinkNames,
         Route!Matching, Delivery!Matching, Route!FirstMatch, Delivery!FirstMatch
<1>3. \A t, s : /\ Route!SendOk(t, s) <=> Delivery!SendOk(t, s)
                /\ Route!SendFails(t, s) <=> Delivery!SendFails(t, s)
                /\ Route!SendLate(t, s) <=> Delivery!SendLate(t, s)
  BY DEF Route!SendOk, Delivery!SendOk, Route!SendFails, Delivery!SendFails,
         Route!SendLate, Delivery!SendLate
<1>4. \A t : Route!AllSinksFailed(t) <=> Delivery!AllSinksFailed(t)
  BY DEF Route!AllSinksFailed, Delivery!AllSinksFailed
<1>5. \A t : /\ Route!RouteReturns(t) <=> Delivery!RouteReturns(t)
             /\ Route!Retry(t) <=> Delivery!Retry(t)
             /\ Route!GiveUp(t) <=> Delivery!GiveUp(t)
  BY <1>4 DEF Route!RouteReturns, Delivery!RouteReturns, Route!Retry, Delivery!Retry,
              Route!GiveUp, Delivery!GiveUp, Route!Free, Delivery!Free, Route!Queued,
              Delivery!Queued
<1>6. \A t : /\ Route!Audit(t) <=> Delivery!Audit(t)
             /\ Route!Persist(t) <=> Delivery!Persist(t)
             /\ Route!Ack(t) <=> Delivery!Ack(t)
             /\ Route!WorkerLost(t) <=> Delivery!WorkerLost(t)
  BY DEF Route!Audit, Delivery!Audit, Route!Persist, Delivery!Persist, Route!Ack,
         Delivery!Ack, Route!WorkerLost, Delivery!WorkerLost, Route!Free, Delivery!Free,
         Route!Queued, Delivery!Queued
<1>7. \A t : /\ Route!Step(t) <=> Delivery!Step(t)
             /\ Route!Outside(t) <=> Delivery!Outside(t)
  BY <1>2, <1>3, <1>5, <1>6 DEF Route!Step, Delivery!Step, Route!Outside, Delivery!Outside
<1>8. /\ Route!Quiescent <=> Delivery!Quiescent
      /\ UNCHANGED Route!vars <=> UNCHANGED Delivery!vars
  BY DEF Route!Quiescent, Delivery!Quiescent, Route!Free, Delivery!Free, Route!vars,
         Delivery!vars
<1>. QED  BY <1>1, <1>7, <1>8 DEF Route!Next, Delivery!Next
-----------------------------------------------------------------------------
(* The aggregation within the pipeline *)

\* Delivering does not touch the aggregation, and handing over an alert is its Dispatch.
LEMMA AggregationStep == [PipeNext]_pipeVars => [Next]_vars
<1> SUFFICES ASSUME [PipeNext]_pipeVars PROVE [Next]_vars
  OBVIOUS
<1>1. ASSUME NEW g \in Sweeps, Aggregate(g) \/ AggregateOutside(g)
      PROVE  Next
  BY <1>1 DEF Aggregate, AggregateOutside, HandOver, Step, Next
<1>2. ASSUME NEW t \in Copies, Deliver(t) \/ DeliverOutside(t)
      PROVE  UNCHANGED vars
  BY <1>2 DEF Deliver, DeliverOutside
<1>3. CASE PipeTick
  BY <1>3 DEF PipeTick, Next
<1>4. CASE PipeQuiescent \/ UNCHANGED pipeVars
  BY <1>4 DEF PipeQuiescent, pipeVars
<1>. QED  BY <1>1, <1>2, <1>3, <1>4 DEF PipeNext

\* Whatever was proved of aggregate_and_alert alone holds with the delivery behind it.
THEOREM PipelineAggregates == PipeSpec => Spec
<1>1. PipeInit => Init
  BY DEF PipeInit
<1>. QED  BY <1>1, AggregationStep, PTL DEF PipeSpec, Spec

\* The clock stays within its bound and claims were made in the past.
Timed == now <= MaxTime /\ \A c \in wins : c.at <= now

\* A claim is stamped with the clock, and the clock does not go back.
LEMMA TimedStep == TypeOK /\ Timed /\ [Next]_vars => Timed'
<1> SUFFICES ASSUME TypeOK, Timed, [Next]_vars PROVE Timed'
  OBVIOUS
<1>1. now \in Nat /\ MaxTime \in Nat /\ \A c \in wins : c.at \in Nat
  BY BoundsAssumption DEF TypeOK, Claim
<1>2. ASSUME NEW g \in Sweeps, ClaimWon(g) \/ ClaimReplyLost(g)
      PROVE  Timed'
  <2>1. now' = now /\ \E a : wins' = wins \union {[an |-> a, at |-> now]}
    BY <1>2 DEF ClaimWon, ClaimReplyLost, SetKey
  <2>. QED  BY <1>1, <2>1 DEF Timed
<1>3. ASSUME NEW g \in Sweeps, ~(ClaimWon(g) \/ ClaimReplyLost(g)), Step(g) \/ Outside(g)
      PROVE  UNCHANGED <<now, wins>>
  BY <1>3 DEF Step, Internal, Outside, Start, ClaimRefused, FilterDone, Dispatch, Return, Ack,
              ChordFires, RedisDown, WorkerLost
<1>4. CASE Tick
  BY <1>1, <1>4 DEF Tick, Timed
<1>5. CASE Quiescent \/ UNCHANGED vars
  BY <1>5 DEF Quiescent, vars, Timed
<1>. QED  BY <1>2, <1>3, <1>4, <1>5 DEF Next, Timed

\* So it is of every claim.
LEMMA TimedInvariant == Spec => []Timed
<1>1. Init => Timed
  BY BoundsAssumption DEF Init, Timed
<1>. QED  BY <1>1, TimedStep, TypeCorrect, PTL DEF Spec
-----------------------------------------------------------------------------
(* The delivery within the pipeline *)

\* A claim in a running task's list is an alert that may be published.
LEMMA HeldClaimsAreAlerts ==
  ASSUME ClaimInv, Timed, NEW g \in Sweeps, NEW c \in agg[g].unique
  PROVE  c \in Alerts
<1>1. c \in Claim /\ c \in wins
  BY DEF ClaimInv, OneOwner, TypeOK
<1>2. c.at \in 0..MaxTime
  BY <1>1, BoundsAssumption DEF Timed, Claim, ClaimInv, TypeOK
<1>. QED  BY <1>1, <1>2 DEF Claim, Alerts

\* Aggregating does not touch the delivery, and handing over an alert is its Publish.
LEMMA DeliveryPipeStep ==
  ClaimInv /\ Timed /\ [PipeNext]_pipeVars => [Route!Next]_(Route!vars)
<1> SUFFICES ASSUME ClaimInv, Timed, [PipeNext]_pipeVars PROVE [Route!Next]_(Route!vars)
  OBVIOUS
<1>0. UNCHANGED routeVars => UNCHANGED Route!vars
  BY DEF routeVars, Route!vars, Route!tables, Route!letters
<1>1. ASSUME NEW g \in Sweeps, NEW c \in agg[g].unique, HandOver(g, c)
      PROVE  Route!Next
  <2>1. c \in Alerts
    BY HeldClaimsAreAlerts
  <2>. QED  BY <1>1, <2>1 DEF HandOver, Route!Next
<1>2. ASSUME NEW t \in Copies, Deliver(t) \/ DeliverOutside(t)
      PROVE  Route!Next
  BY <1>2 DEF Deliver, DeliverOutside, Route!Next
<1>. QED
  BY <1>0, <1>1, <1>2
     DEF PipeNext, Aggregate, AggregateOutside, PipeTick, PipeQuiescent, pipeVars

\* Whatever was proved of route_alert alone holds with the aggregation before it.
THEOREM PipelineDelivers == PipeSpec => Route!Spec
<1>1. PipeInit => Route!Init
  BY DEF PipeInit
<1>. QED
  BY <1>1, DeliveryPipeStep, PipelineAggregates, ClaimInvariant, TimedInvariant, PTL
     DEF PipeSpec, Route!Spec

\* In particular every alert has cost what its publication and its mishaps pay for.
LEMMA PipelineDeliveriesPaid == PipeSpec => []Delivery!DeliveriesPaid
<1>1. Route!Spec => Delivery!Spec
  BY SameInit, SameNext, PTL DEF Route!Spec, Delivery!Spec
<1>2. Delivery!Spec => []Delivery!DeliveriesPaid
  BY DeliveryAssumptions, Delivery!DeliveriesArePaid
<1>. QED  BY <1>1, <1>2, PipelineDelivers, PTL

\* The messages in the alerts queue are about the claims that were dispatched.
PublishedRaised == published = raised

\* Both halves see the hand-over, and nothing else publishes.
LEMMA PublishedRaisedStep == PublishedRaised /\ [PipeNext]_pipeVars => PublishedRaised'
<1> SUFFICES ASSUME PublishedRaised, [PipeNext]_pipeVars PROVE PublishedRaised'
  OBVIOUS
<1>1. ASSUME NEW g \in Sweeps, NEW c, HandOver(g, c)
      PROVE  PublishedRaised'
  BY <1>1 DEF HandOver, Dispatch, Route!Publish, PublishedRaised
<1>2. ASSUME NEW g \in Sweeps, Internal(g) \/ Outside(g)
      PROVE  UNCHANGED raised
  BY <1>2 DEF Internal, Outside, Start, ClaimWon, ClaimRefused, FilterDone, Return, Ack,
              ChordFires, ClaimReplyLost, RedisDown, WorkerLost
<1>3. ASSUME NEW t \in Copies, Route!Step(t) \/ Route!Outside(t)
      PROVE  UNCHANGED published
  BY <1>3 DEF Route!Step, Route!Outside, Route!Take, Route!SendOk, Route!SendFails,
              Route!SendLate, Route!RouteReturns, Route!Retry, Route!GiveUp, Route!Audit,
              Route!Persist, Route!Ack, Route!WorkerLost
<1>4. Tick => UNCHANGED raised
  BY DEF Tick
<1>. QED
  BY <1>1, <1>2, <1>3, <1>4
     DEF PipeNext, Aggregate, AggregateOutside, Deliver, DeliverOutside, PipeTick,
         PipeQuiescent, pipeVars, vars, routeVars, PublishedRaised

\* So the alerts that were published are the claims that were raised.
LEMMA PublishedAreRaised == PipeSpec => []PublishedRaised
<1>1. PipeInit => PublishedRaised
  BY DEF PipeInit, Init, Route!Init, PublishedRaised
<1>. QED  BY <1>1, PublishedRaisedStep, PTL DEF PipeSpec

-----------------------------------------------------------------------------
(***************************************************************************)
(* Counting notifications.  The alerts of a fingerprint that were ever     *)
(* published were claimed a cooldown apart, so each lies in a cooldown     *)
(* period of its own; the first notification of an alert is counted with   *)
(* its period, and each further one with the mishap that paid for it.      *)
(***************************************************************************)
Period(n) == n \div Cooldown

PublishedOf(f) == AlertsOf(f) \intersect published

\* Times a cooldown apart lie in different periods, and periods are in order.
LEMMA Periods ==
  ASSUME NEW x \in Nat, NEW y \in Nat
  PROVE  /\ Period(x) \in Nat
         /\ x <= y => Period(x) <= Period(y)
         /\ x + Cooldown <= y => Period(x) # Period(y)
<1>1. ASSUME NEW n \in Nat
      PROVE  /\ Period(n) \in Nat /\ Period(n) * Cooldown <= n
             /\ n < Period(n) * Cooldown + Cooldown
  BY CooldownAssumption, Z3 DEF Period
<1> DEFINE p == Period(x)
           q == Period(y)
<1>2. /\ p \in Nat /\ p * Cooldown <= x /\ x < p * Cooldown + Cooldown
      /\ q \in Nat /\ q * Cooldown <= y /\ y < q * Cooldown + Cooldown
  BY <1>1
<1> HIDE DEF p, q
<1>3. ASSUME x <= y
      PROVE  p <= q
  <2>1. p * Cooldown < (q + 1) * Cooldown
    BY <1>2, <1>3, CooldownAssumption
  <2>2. p < q + 1
    BY <1>2, <2>1, CooldownAssumption, Z3
  <2>. QED  BY <1>2, <2>2
<1>4. ASSUME x + Cooldown <= y
      PROVE  p # q
  <2>1. SUFFICES ASSUME p = q
        PROVE  FALSE
    OBVIOUS
  <2>2. y < p * Cooldown + Cooldown
    BY <1>2, <2>1
  <2> DEFINE start == p * Cooldown
  <2>3. start \in Nat /\ start <= x /\ y < start + Cooldown
    BY <1>2, <2>2, CooldownAssumption
  <2> HIDE DEF start
  <2>. QED  BY <1>4, <2>3, CooldownAssumption
<1>. QED  BY <1>2, <1>3, <1>4 DEF p, q

\* The alerts of one fingerprint that were published are as many as periods have begun.
LEMMA AlertsPerPeriod ==
  ASSUME ClaimInv, Timed, PublishedRaised, NEW f
  PROVE  /\ IsFiniteSet(PublishedOf(f))
         /\ Cardinality(PublishedOf(f)) <= 1 + (now \div Cooldown)
<1> DEFINE P == PublishedOf(f)
           begun == 0..Period(now)
           period == [c \in P |-> Period(c.at)]
<1>1. now \in Nat /\ Period(now) \in Nat
  BY Periods DEF ClaimInv, TypeOK
<1>2. ASSUME NEW c \in P
      PROVE  c \in wins /\ c.at \in Nat /\ c.at <= now /\ Fingerprint(c.an) = f
  BY DEF PublishedOf, AlertsOf, PublishedRaised, ClaimInv, TypeOK, Claim, Timed
<1>3. \A c \in P : Period(c.at) \in begun
  <2>1. SUFFICES ASSUME NEW c \in P
        PROVE  Period(c.at) \in begun
    OBVIOUS
  <2>2. Period(c.at) \in Nat /\ Period(c.at) <= Period(now)
    BY <1>1, <1>2, Periods
  <2>. QED  BY <1>1, <2>2
<1>4. ASSUME NEW c \in P, NEW d \in P, c # d
      PROVE  Period(c.at) # Period(d.at)
  <2>1. c.at + Cooldown <= d.at \/ d.at + Cooldown <= c.at
    BY <1>2, <1>4 DEF ClaimInv, ClaimsSpaced
  <2>. QED  BY <1>2, <2>1, Periods
<1> HIDE DEF P, begun
<1>5. period \in Injection(P, begun)
  <2>1. period \in [P -> begun]
    BY <1>3
  <2>2. \A c, d \in P : period[c] = period[d] => c = d
    BY <1>4
  <2> HIDE DEF period
  <2>. QED  BY <2>1, <2>2, Fun_IsInj
<1>6. IsFiniteSet(begun) /\ Cardinality(begun) = Period(now) + 1
  BY <1>1, FS_Interval DEF begun
<1> HIDE DEF period
<1>7. IsFiniteSet(P) /\ Cardinality(P) <= Cardinality(begun)
  BY <1>5, <1>6, FS_Injection
<1>. QED  BY <1>1, <1>6, <1>7, FS_CardinalityType DEF P, Period

\* A pair is a mishap, or a notification, of f when it counts one of its alert's.
LEMMA PairsOf ==
  ASSUME Delivery!DeliveriesPaid, NEW f, NEW s \in SinkNames, NEW c, NEW k
  PROVE  /\ <<c, k>> \in Mishaps(f) <=>
              c \in PublishedOf(f) /\ k \in 1..alertLosses[c] + late[c]
         /\ <<c, k>> \in Notifications(f, s) <=> c \in PublishedOf(f) /\ k \in 1..received[c][s]
<1>1. ASSUME NEW d \in AlertsOf(f), d \notin published
      PROVE  alertLosses[d] + late[d] = 0 /\ received[d][s] = 0
  BY <1>1 DEF Delivery!DeliveriesPaid, AlertsOf
<1>2. 1..0 = {}
  OBVIOUS
<1>3. <<c, k>> \in Mishaps(f) <=> c \in AlertsOf(f) /\ k \in 1..alertLosses[c] + late[c]
  BY DEF Mishaps
<1>4. <<c, k>> \in Notifications(f, s) <=> c \in AlertsOf(f) /\ k \in 1..received[c][s]
  BY DEF Notifications
<1>. QED  BY <1>1, <1>2, <1>3, <1>4 DEF PublishedOf

\* A fingerprint meets finitely many mishaps.
LEMMA MishapsFinite ==
  ASSUME Delivery!DeliveriesPaid, NEW f, NEW s \in SinkNames, IsFiniteSet(PublishedOf(f))
  PROVE  IsFiniteSet(Mishaps(f))
<1> DEFINE P == PublishedOf(f)
           of == [c \in P |-> {c} \X (1..alertLosses[c] + late[c])]
           T == {of[c] : c \in P}
<1>1. ASSUME NEW c \in P
      PROVE  IsFiniteSet(of[c])
  <2>1. alertLosses[c] + late[c] \in Int
    BY DEF Delivery!DeliveriesPaid, PublishedOf, AlertsOf
  <2> DEFINE n == alertLosses[c] + late[c]
  <2>2. of[c] = {c} \X (1..n)
    OBVIOUS
  <2> HIDE DEF n
  <2>3. IsFiniteSet({c})
    BY FS_Singleton
  <2>4. IsFiniteSet(1..n)
    BY <2>1, FS_Interval DEF n
  <2>5. IsFiniteSet({c} \X (1..n))
    BY <2>3, <2>4, FS_Product
  <2>. QED  BY <2>2, <2>5
<1>2. of \in Surjection(P, T)
  BY DEF Surjection
<1>3. IsFiniteSet(T)
  BY <1>2, FS_Surjection
<1>4. \A S \in T : IsFiniteSet(S)
  BY <1>1
<1>5. IsFiniteSet(UNION T)
  <2> HIDE DEF T
  <2>. QED  BY <1>3, <1>4, FS_UNION
<1>6. Mishaps(f) \subseteq UNION T
  <2>1. ASSUME NEW x \in Mishaps(f)
        PROVE  x \in UNION T
    <3>1. PICK c \in AlertsOf(f) : x \in {c} \X (1..alertLosses[c] + late[c])
      BY DEF Mishaps
    <3>2. PICK k : x = <<c, k>>
      BY <3>1
    <3>3. c \in P
      BY <3>2, PairsOf
    <3>. QED  BY <3>1, <3>3
  <2>. QED  BY <2>1
<1>. QED  BY <1>5, <1>6, FS_Subset

\* The first notification of each alert, and all further ones.
First(f, s) == {n \in Notifications(f, s) : n[2] = 1}

Further(f, s) == {n \in Notifications(f, s) : n[2] # 1}

\* No more alerts are heard of a first time than were published.
LEMMA FirstCounted ==
  ASSUME Delivery!DeliveriesPaid, NEW f, NEW s \in SinkNames, IsFiniteSet(PublishedOf(f))
  PROVE  /\ IsFiniteSet(First(f, s))
         /\ Cardinality(First(f, s)) <= Cardinality(PublishedOf(f))
<1> DEFINE N == First(f, s)
           P == PublishedOf(f)
           alert == [n \in N |-> n[1]]
<1>1. ASSUME NEW n \in N
      PROVE  n = <<n[1], 1>> /\ n[1] \in P
  <2>1. PICK c \in AlertsOf(f) : n \in {c} \X (1..received[c][s])
    BY DEF First, Notifications
  <2>2. n = <<n[1], n[2]>> /\ n[2] = 1
    BY <2>1 DEF First
  <2>. QED  BY <2>2, PairsOf DEF First
<1>2. alert \in [N -> P]
  BY <1>1
<1>3. \A m, n \in N : alert[m] = alert[n] => m = n
  BY <1>1
<1> HIDE DEF N, P, alert
<1>4. alert \in Injection(N, P)
  BY <1>2, <1>3, Fun_IsInj
<1>5. IsFiniteSet(N) /\ Cardinality(N) <= Cardinality(P)
  BY <1>4, FS_Injection DEF P
<1>. QED  BY <1>5 DEF N, P

\* Each further notification of an alert has a mishap of that alert to itself.
LEMMA FurtherCounted ==
  ASSUME Delivery!DeliveriesPaid, NEW f, NEW s \in SinkNames, IsFiniteSet(Mishaps(f))
  PROVE  /\ IsFiniteSet(Further(f, s))
         /\ Cardinality(Further(f, s)) <= Cardinality(Mishaps(f))
<1> DEFINE N == Further(f, s)
           M == Mishaps(f)
           mishap == [n \in N |-> <<n[1], n[2] - 1>>]
<1>1. ASSUME NEW n \in N
      PROVE  /\ n = <<n[1], n[2]>> /\ n[2] \in Nat
             /\ <<n[1], n[2] - 1>> \in M
  <2>1. PICK c \in AlertsOf(f) : n \in {c} \X (1..received[c][s])
    BY DEF Further, Notifications
  <2>2. n = <<c, n[2]>> /\ n[2] \in 1..received[c][s] /\ n[2] # 1 /\ n[1] = c
    BY <2>1 DEF Further
  <2>3. c \in PublishedOf(f)
    BY <2>2, PairsOf DEF Further
  <2>4. /\ alertLosses[c] \in Nat /\ late[c] \in Nat /\ received[c][s] \in Nat
        /\ received[c][s] <= 1 + alertLosses[c] + late[c]
    BY DEF Delivery!DeliveriesPaid, AlertsOf
  <2>5. n[2] \in Nat /\ n[2] - 1 \in 1..alertLosses[c] + late[c]
    BY <2>2, <2>4
  <2>6. <<c, n[2] - 1>> \in M
    BY <2>3, <2>5, PairsOf
  <2>. QED  BY <2>2, <2>5, <2>6
<1>2. mishap \in [N -> M]
  BY <1>1
<1>3. ASSUME NEW m \in N, NEW n \in N, mishap[m] = mishap[n]
      PROVE  m = n
  <2>1. m[1] = n[1] /\ m[2] - 1 = n[2] - 1
    BY <1>3
  <2>2. /\ m[2] \in Nat /\ m = <<m[1], m[2]>>
        /\ n[2] \in Nat /\ n = <<n[1], n[2]>>
    BY <1>1
  <2> DEFINE k == m[2]
             l == n[2]
  <2>3. k \in Nat /\ l \in Nat /\ k - 1 = l - 1
    BY <2>1, <2>2
  <2> HIDE DEF k, l
  <2>4. k = l
    BY <2>3
  <2>5. m[2] = n[2]
    BY <2>4, Zenon DEF k, l
  <2>. QED  BY <2>1, <2>2, <2>5, Zenon
<1> HIDE DEF N, M, mishap
<1>4. mishap \in Injection(N, M)
  BY <1>2, <1>3, Fun_IsInj
<1>5. IsFiniteSet(N) /\ Cardinality(N) <= Cardinality(M)
  BY <1>4, FS_Injection DEF M
<1>. QED  BY <1>5 DEF N, M

\* Every notification is a first one or a further one.
LEMMA NotificationsCounted ==
  ASSUME ClaimInv, Timed, PublishedRaised, Delivery!DeliveriesPaid
  PROVE  NotificationRate
<1> SUFFICES ASSUME NEW f \in Fingerprints, NEW s \in SinkNames
    PROVE  Cardinality(Notifications(f, s)) <= 1 + (now \div Cooldown) + Cardinality(Mishaps(f))
  BY DEF NotificationRate
<1>1. /\ IsFiniteSet(PublishedOf(f))
      /\ Cardinality(PublishedOf(f)) <= 1 + (now \div Cooldown)
  BY AlertsPerPeriod
<1>2. IsFiniteSet(Mishaps(f))
  BY <1>1, MishapsFinite
<1>3. /\ IsFiniteSet(First(f, s))
      /\ Cardinality(First(f, s)) <= Cardinality(PublishedOf(f))
  BY <1>1, FirstCounted
<1>4. /\ IsFiniteSet(Further(f, s))
      /\ Cardinality(Further(f, s)) <= Cardinality(Mishaps(f))
  BY <1>2, FurtherCounted
<1>5. Notifications(f, s) = First(f, s) \union Further(f, s)
  BY DEF First, Further
<1>6. First(f, s) \intersect Further(f, s) = {}
  BY DEF First, Further
<1>7. Cardinality({}) = 0
  BY FS_EmptySet
<1> DEFINE A == First(f, s)
           B == Further(f, s)
<1> HIDE DEF A, B
<1>8. Cardinality(A \union B) = Cardinality(A) + Cardinality(B) - Cardinality(A \intersect B)
  BY <1>3, <1>4, FS_Union DEF A, B
<1>9. Cardinality(Notifications(f, s)) = Cardinality(A) + Cardinality(B) - 0
  BY <1>5, <1>6, <1>7, <1>8 DEF A, B
<1>10. /\ Cardinality(A) \in Nat /\ Cardinality(B) \in Nat
       /\ Cardinality(PublishedOf(f)) \in Nat /\ Cardinality(Mishaps(f)) \in Nat
  BY <1>1, <1>2, <1>3, <1>4, FS_CardinalityType DEF A, B
<1>11. now \div Cooldown \in Nat
  BY Periods DEF Period, ClaimInv, TypeOK
<1> DEFINE a == Cardinality(A)
           b == Cardinality(B)
           p == Cardinality(PublishedOf(f))
           m == Cardinality(Mishaps(f))
           q == now \div Cooldown
<1>12. /\ a \in Nat /\ b \in Nat /\ p \in Nat /\ m \in Nat /\ q \in Nat
       /\ a <= p /\ p <= 1 + q /\ b <= m
  BY <1>1, <1>3, <1>4, <1>10, <1>11 DEF A, B
<1> HIDE DEF a, b, p, m, q
<1>13. a + b - 0 <= 1 + q + m
  BY <1>12
<1>. QED  BY <1>9, <1>13 DEF a, b, m, q

\* PRD G5 and NFR-S5: however many sweeps see a spike, however often Redis, workers and
\* sinks fail, a sink is given alerts of one fingerprint at most once per cooldown period
\* and once more per lost worker or late answer of their delivery.
THEOREM NotificationsAreRated == PipeSpec => []NotificationRate
BY NotificationsCounted, PipelineAggregates, ClaimInvariant, TimedInvariant,
   PublishedAreRaised, PipelineDeliveriesPaid, PTL

-----------------------------------------------------------------------------
(***************************************************************************)
(* No confirmed anomaly is dropped, from consensus to the sinks.           *)
(***************************************************************************)

\* A published alert has been answered for, or a message that will be routed carries it.
LEMMA PipelineAlertsCarried == PipeSpec => []Delivery!StillCarried
<1>1. Route!Spec => Delivery!Spec
  BY SameInit, SameNext, PTL DEF Route!Spec, Delivery!Spec
<1>2. Delivery!Spec => []Delivery!StillCarried
  BY DeliveryAssumptions, Delivery!AlertsAreCarried
<1>. QED  BY <1>1, <1>2, PipelineDelivers, PTL

\* A claim that an aggregation still holds, or that a message takes to the sinks.
OnItsWay(c) ==
  \/ \E g \in Sweeps : c \in agg[g].unique
  \/ \E t \in Copies : msg[t].alert = c /\ msg[t].st \in {"queued", "routing"}

\* The anomaly is accounted for since n, or an alert that will account for it is under way.
Kept(a, n) ==
  \/ Accounted(a, n)
  \/ \E c \in AlertsOf(Fingerprint(a)) : n < c.at + Cooldown /\ OnItsWay(c)

ConfirmedKept ==
  faults = 0 /\ losses = 0 =>
    \A g \in Sweeps : agg[g].st \in {"dispatch", "returned", "done"} =>
      \A a \in ApplyConsensus(agg[g].report) : Kept(a, agg[g].since)

\* A claim is held, or was raised and hence published, and is then carried or answered.
LEMMA CoveredAreKept ==
  ASSUME LapseInv, Timed, PublishedRaised, Delivery!StillCarried, faults = 0, losses = 0,
         NEW g \in Sweeps, NEW a, Covered(g, a)
  PROVE  Kept(a, agg[g].since)
<1>1. PICK c \in wins : Fingerprint(c.an) = Fingerprint(a) /\ agg[g].since < c.at + Cooldown
  BY DEF Covered
<1>2. c \in AlertsOf(Fingerprint(a))
  <2>1. c \in Claim /\ now \in Nat
    BY DEF LapseInv, ClaimInv, TypeOK
  <2>2. c.at \in 0..MaxTime
    BY <2>1, BoundsAssumption DEF Timed, Claim
  <2>. QED  BY <1>1, <2>1, <2>2 DEF Claim, Alerts, AlertsOf
<1>3. CASE c \notin raised
  <2>1. OnItsWay(c)
    BY <1>3 DEF LapseInv, NothingDropped, OnItsWay
  <2>. QED  BY <1>1, <1>2, <2>1 DEF Kept
<1>4. CASE c \in raised
  <2>1. Delivery!Answered(c) \/ Delivery!Hopeful(c)
    BY <1>4 DEF PublishedRaised, Delivery!StillCarried
  <2>2. Delivery!Answered(c) => Accounted(a, agg[g].since)
    BY <1>1, <1>2 DEF Delivery!Answered, Accounted
  <2>3. Delivery!Hopeful(c) => OnItsWay(c)
    BY DEF Delivery!Hopeful, OnItsWay
  <2>. QED  BY <1>1, <1>2, <2>1, <2>2, <2>3 DEF Kept
<1>. QED  BY <1>3, <1>4

(***************************************************************************)
(* Unless Redis fails or an aggregation loses its worker: from the moment  *)
(* its filter loop is through, every anomaly that consensus kept has an    *)
(* alert whose window was open when the task started, and which is         *)
(* delivered, given up on record, or still under way.                      *)
(***************************************************************************)
THEOREM ConfirmedNeverDropped == PipeSpec => []ConfirmedKept
<1>1. LapseInv /\ Timed /\ PublishedRaised /\ Delivery!StillCarried /\ DoneCovered => ConfirmedKept
  <2> SUFFICES ASSUME LapseInv, Timed, PublishedRaised, Delivery!StillCarried, DoneCovered,
                      faults = 0, losses = 0, NEW g \in Sweeps,
                      agg[g].st \in {"dispatch", "returned", "done"},
                      NEW a \in ApplyConsensus(agg[g].report)
               PROVE  Kept(a, agg[g].since)
    BY DEF ConfirmedKept
  <2>1. Covered(g, a)
    BY DEF LapseInv, AllHandled, Handled, DoneCovered
  <2>. QED  BY <2>1, CoveredAreKept
<1>. QED
  BY <1>1, PipelineAggregates, LapseInvariant, TimedInvariant, PublishedAreRaised,
     PipelineAlertsCarried, DoneCoveredInvariant, PTL

\* Neither stage has anything in hand.
PipeSettled == Settled /\ \A t \in Copies : msg[t].st = "free"

(***************************************************************************)
(* When both stages have nothing in hand, and neither Redis nor a worker   *)
(* of the aggregation has failed, every confirmed anomaly is accounted for:*)
(* what ConfirmedAccounted says will come about is so whenever the stages  *)
(* are at rest, whatever the number of sweeps, retries and delivery        *)
(* mishaps.                                                                *)
(***************************************************************************)
ConfirmedAtRest ==
  PipeSettled /\ faults = 0 /\ losses = 0 =>
    \A g \in Sweeps : agg[g].st = "done" =>
      \A a \in ApplyConsensus(agg[g].report) : Accounted(a, agg[g].since)

\* At rest nothing is on its way, so what was kept is accounted for.
THEOREM RestLeavesNothingBehind == PipeSpec => []ConfirmedAtRest
<1>1. ClaimInv /\ ConfirmedKept => ConfirmedAtRest
  <2> SUFFICES ASSUME ClaimInv, ConfirmedKept, PipeSettled, faults = 0, losses = 0,
                      NEW g \in Sweeps, agg[g].st = "done",
                      NEW a \in ApplyConsensus(agg[g].report)
               PROVE  Accounted(a, agg[g].since)
    BY DEF ConfirmedAtRest
  <2>1. Kept(a, agg[g].since)
    BY DEF ConfirmedKept
  <2>2. \A c : ~OnItsWay(c)
    BY DEF OnItsWay, PipeSettled, Settled, ClaimInv, OnlyRunningHold, Running
  <2>. QED  BY <2>1, <2>2 DEF Kept
<1>. QED  BY <1>1, PipelineAggregates, ClaimInvariant, ConfirmedNeverDropped, PTL
=============================================================================
