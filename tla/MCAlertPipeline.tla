-------------------------- MODULE MCAlertPipeline --------------------------
(* Instances of AlertPipeline for TLC. *)
EXTENDS AlertPipeline, FiniteSetsExt

CONSTANTS t1, m1, z, f, g1, g2, c1, c2, c3, log, pagerduty

A(d, s) == [tenant |-> t1, metric |-> m1, detector |-> d, ts |-> s]

\* Every sweep sees the same spike.
OneSpike == { {A(z, 0)} }

\* The rule pages only: the one sink may fail.
PageRules == << [match |-> {m1}, sinks |-> {pagerduty}] >>

\* Bound: one worker is lost in all, at either stage.
LossesInAll == losses + MapThenSumSet(LAMBDA c : alertLosses[c], Alerts)

\* The sweeps are interchangeable: the chord of g1 is the first to call back.
InOrder == agg[g2].st # "waiting" => agg[g1].st # "waiting"

\* The inserts of the audit and alerts rows succeed (that they do not matter to what a
\* sink receives is checked in the delivery run).
Inserted == \A t \in Copies :
  LET c == msg[t].alert
  IN  /\ msg[t].st = "audit" /\ msg'[t].st = "persist" => audited'[c] = audited[c] \union msg[t].routed
      /\ msg[t].st = "persist" /\ msg'[t].st = "over" => alertRows'[c] = alertRows[c] + 1

MCSpec ==
  /\ PipeInit /\ [][PipeNext /\ LossesInAll' <= 1 /\ InOrder' /\ Inserted]_pipeVars
  /\ PipeFairness
=============================================================================
