-------------------------- MODULE AlertGateProofs --------------------------
(***************************************************************************)
(* The gate keeps its promise for every set of anomalies, bucket width and *)
(* cooldown.  The invariant that carries the proof: a ticket's window is   *)
(* the latest of its fingerprint, so a new one can only start after it.    *)
(***************************************************************************)
EXTENDS AlertGate, TLAPS

Issued == tickets \union raised

WindowsCover ==
  \A c \in Issued : c.at + Cooldown <= window[Fingerprint(c.an)]

GateInv ==
  /\ GateTypeOK
  /\ WindowsCover
  /\ \A c, d \in Issued : Spaced(c, d)

\* Every anomaly has its fingerprint among Fingerprints.
LEMMA FingerprintType == \A a \in Anomaly : Fingerprint(a) \in Fingerprints
BY DEF Fingerprints

\* A claim made now, when every earlier window of its fingerprint has closed, is
\* spaced from all earlier claims.
LEMMA FreshClaimSpaced ==
  ASSUME GateInv, NEW a \in Anomaly, window[Fingerprint(a)] <= now,
         NEW c \in Issued
  PROVE  /\ Spaced(c, [an |-> a, at |-> now])
         /\ Spaced([an |-> a, at |-> now], c)
<1> DEFINE f == Fingerprint(a)
<1>1. now \in Nat /\ window[f] \in Nat /\ c.at \in Nat /\ c.an \in Anomaly
  BY FingerprintType, Zenon DEF GateInv, GateTypeOK, Claim, Issued
<1>2. c.at + Cooldown <= window[Fingerprint(c.an)]
  BY DEF GateInv, WindowsCover
<1>3. Fingerprint(c.an) = f => c.at + Cooldown <= now
  BY <1>1, <1>2, CooldownAssumption
<1>. QED  BY <1>3 DEF Spaced

\* The invariant is inductive.
LEMMA GateInvStep == GateInv /\ [GateNext]_gateVars => GateInv'
<1> SUFFICES ASSUME GateInv, [GateNext]_gateVars PROVE GateInv'
  OBVIOUS
<1>1. ASSUME NEW a \in Anomaly, Issue(a) PROVE GateInv'
  <2> DEFINE k == [an |-> a, at |-> now]
  <2>1. k \in Claim
    BY DEF GateInv, GateTypeOK, Claim
  <2>2. Issued' = Issued \union {k}
    BY <1>1 DEF Issue, Issued
  <2>3. now \in Nat /\ now + Cooldown \in Nat
    BY CooldownAssumption DEF GateInv, GateTypeOK
  <2>4. GateTypeOK'
    BY <1>1, <2>1, <2>3, FingerprintType DEF Issue, GateInv, GateTypeOK
  <2>5. WindowsCover'
    <3> SUFFICES ASSUME NEW c \in Issued \union {k}
                 PROVE  c.at + Cooldown <= window'[Fingerprint(c.an)]
      BY <2>2 DEF WindowsCover
    <3>1. CASE Fingerprint(c.an) = Fingerprint(a)
      <4>1. window'[Fingerprint(c.an)] = now + Cooldown
        BY <1>1, <3>1, FingerprintType DEF Issue, GateInv, GateTypeOK
      <4>2. CASE c = k
        BY <4>1, <4>2, <2>3
      <4>3. CASE c \in Issued
        <5>1. c.at \in Nat /\ window[Fingerprint(a)] \in Nat
          BY <4>3, FingerprintType DEF GateInv, GateTypeOK, Claim, Issued
        <5>2. c.at + Cooldown <= now
          BY <4>3, <3>1, <1>1, <5>1, <2>3, CooldownAssumption DEF GateInv, WindowsCover, Issue
        <5>. QED  BY <4>1, <5>1, <5>2, <2>3, CooldownAssumption
      <4>. QED  BY <4>2, <4>3
    <3>2. CASE Fingerprint(c.an) # Fingerprint(a)
      <4>1. c \in Issued
        BY <3>2
      <4>2. window'[Fingerprint(c.an)] = window[Fingerprint(c.an)]
        BY <1>1, <3>2, <4>1, FingerprintType DEF Issue, GateInv, GateTypeOK, Claim, Issued
      <4>. QED  BY <4>1, <4>2 DEF GateInv, WindowsCover
    <3>. QED  BY <3>1, <3>2
  <2>6. \A c, d \in Issued \union {k} : Spaced(c, d)
    <3>1. Spaced(k, k)
      BY DEF Spaced
    <3>2. \A c \in Issued : Spaced(c, k) /\ Spaced(k, c)
      BY <1>1, FreshClaimSpaced DEF Issue
    <3>. QED  BY <3>1, <3>2 DEF GateInv
  <2>7. \A c, d \in Issued' : Spaced(c, d)'
    BY <2>2, <2>6 DEF Spaced
  <2>. QED  BY <2>4, <2>5, <2>7 DEF GateInv
<1>2. ASSUME NEW a \in Anomaly, IssueLost(a) PROVE GateInv'
  <2>1. Issued' = Issued
    BY <1>2 DEF IssueLost, Issued
  <2>2. now \in Nat /\ now + Cooldown \in Nat
    BY CooldownAssumption DEF GateInv, GateTypeOK
  <2>3. GateTypeOK'
    BY <1>2, <2>2, FingerprintType DEF IssueLost, GateInv, GateTypeOK
  <2>4. \A f \in Fingerprints : window[f] <= window'[f]
    BY <1>2, <2>2, CooldownAssumption DEF IssueLost, GateInv, GateTypeOK
  <2>5. WindowsCover'
    <3> SUFFICES ASSUME NEW c \in Issued
                 PROVE  c.at + Cooldown <= window'[Fingerprint(c.an)]
      BY <2>1 DEF WindowsCover
    <3>1. c.at \in Nat /\ Fingerprint(c.an) \in Fingerprints
      BY FingerprintType DEF GateInv, GateTypeOK, Claim, Issued
    <3>2. window[Fingerprint(c.an)] \in Nat /\ window'[Fingerprint(c.an)] \in Nat
      BY <3>1, <2>3 DEF GateInv, GateTypeOK
    <3>. QED  BY <3>1, <3>2, <2>4, CooldownAssumption DEF GateInv, WindowsCover
  <2>. QED  BY <2>1, <2>3, <2>5 DEF GateInv, Spaced
<1>3. ASSUME NEW c \in tickets, Raise(c) PROVE GateInv'
  <2>1. Issued' = Issued
    BY <1>3 DEF Raise, Issued
  <2>2. GateTypeOK'
    BY <1>3 DEF Raise, GateInv, GateTypeOK
  <2>. QED  BY <1>3, <2>1, <2>2 DEF Raise, GateInv, WindowsCover, Spaced
<1>4. ASSUME NEW S \in SUBSET tickets, Lose(S) PROVE GateInv'
  <2>1. Issued' \subseteq Issued
    BY <1>4 DEF Lose, Issued
  <2>2. GateTypeOK'
    BY <1>4 DEF Lose, GateInv, GateTypeOK
  <2>. QED  BY <1>4, <2>1, <2>2 DEF Lose, GateInv, WindowsCover, Spaced
<1>5. CASE Pass
  BY <1>5 DEF Pass, GateInv, GateTypeOK, WindowsCover, Issued, Spaced
<1>6. CASE UNCHANGED gateVars
  BY <1>6 DEF gateVars, GateInv, GateTypeOK, WindowsCover, Issued, Spaced
<1>. QED  BY <1>1, <1>2, <1>3, <1>4, <1>5, <1>6 DEF GateNext

\* The gate's state is well typed and its windows cover its tickets.
THEOREM GateInvariant == GateSpec => []GateInv
<1>1. GateInit => GateInv
  BY DEF GateInit, GateInv, GateTypeOK, WindowsCover, Issued, Spaced
<1>. QED  BY <1>1, GateInvStep, PTL DEF GateSpec

\* What AlertDeduplicator promises: two alerts of one fingerprint were claimed at
\* least Cooldown apart.
THEOREM GateAlertsSpaced == GateSpec => []AlertsSpaced
<1>1. GateInv => AlertsSpaced
  BY DEF GateInv, AlertsSpaced, Issued
<1>. QED  BY <1>1, GateInvariant, PTL
=============================================================================
