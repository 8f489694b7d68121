----------------------------- MODULE Anomalies -----------------------------
(***************************************************************************)
(* The anomaly dictionaries that detectors hand to the alerting stage, and *)
(* the two pure functions alerting computes from them: the cooldown        *)
(* fingerprint (alerting/dedup.py) and the ensemble consensus filter       *)
(* (alerting/consensus.py).                                                *)
(*                                                                         *)
(* One sweep gives a point at most one anomaly per detector, so a list of  *)
(* anomalies is a set here.  The fields that alerting never branches on    *)
(* (value, score, method, labels) are left out.                            *)
(***************************************************************************)
EXTENDS Integers, FiniteSets

CONSTANTS
  Tenants,        \* tenant names
  Metrics,        \* metric names
  Detectors,      \* values of an anomaly's "detector" field
  Stamps,         \* anomaly timestamps, in epoch seconds
  BucketSeconds,  \* settings.dedup_bucket_seconds
  MinDetectors,   \* settings.consensus_min_detectors
  Cooldown        \* settings.alert_cooldown_seconds

\* config.py validates both settings with ge=1; epochs are not negative.
ASSUME BucketAssumption == BucketSeconds \in Nat \ {0}
ASSUME StampAssumption == Stamps \subseteq Nat
ASSUME ConsensusAssumption == MinDetectors \in Nat \ {0}

\* SET ... EX rejects 0 and negative expiries.
ASSUME CooldownAssumption == Cooldown \in Nat \ {0}

Anomaly == [tenant : Tenants, metric : Metrics, detector : Detectors, ts : Stamps]

TimeBucket(ts) == ts \div BucketSeconds

\* The digest's key "tenant:metric:detector:bucket".  Metric names (validators.py)
\* and detector names hold no ':', so the string determines its four parts; a
\* collision of the 48-bit digest is left out.
Fingerprint(a) == <<a.tenant, a.metric, a.detector, TimeBucket(a.ts)>>

Fingerprints == {Fingerprint(a) : a \in Anomaly}

ConsensusGroup(a) == <<a.tenant, a.metric, TimeBucket(a.ts)>>

\* The distinct detectors that flagged a's group within the list S.
AgreeingDetectors(S, a) ==
  {b.detector : b \in {c \in S : ConsensusGroup(c) = ConsensusGroup(a)}}

\* Mutant: counts the anomalies of the group, not its distinct detectors.
ApplyConsensusCountingAnomalies(S) ==
  IF MinDetectors <= 1
  THEN S
  ELSE {a \in S :
          Cardinality({b \in S : ConsensusGroup(b) = ConsensusGroup(a)}) >= MinDetectors}

ApplyConsensus(S) ==
  IF MinDetectors <= 1
  THEN S
  ELSE {a \in S : Cardinality(AgreeingDetectors(S, a)) >= MinDetectors}
=============================================================================
