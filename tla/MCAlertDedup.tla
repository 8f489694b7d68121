---------------------------- MODULE MCAlertDedup ----------------------------
(* Instances of AlertDedup for TLC. *)
EXTENDS AlertDedup

CONSTANTS t1, t2, m1, z, f, g1, g2

MCTenants == {t1, t2}
MCMetrics == {m1}
MCDetectors == {z, f}
MCStamps == {0, 1, 2}

A(t, d, s) == [tenant |-> t, metric |-> m1, detector |-> d, ts |-> s]

\* No consensus: one detector twice in a bucket, the other under another tenant.
\* Consensus in bucket 0 (two fingerprints) and a lone spike in bucket 1.
MCReports == {
  {A(t1, z, 0), A(t1, z, 1), A(t2, f, 0)},
  {A(t1, z, 0), A(t1, f, 1), A(t1, f, 2)} }

\* A sweep that detects one spike with both detectors.
SpikeReports == { {A(t1, z, 0), A(t1, f, 0)} }
=============================================================================
