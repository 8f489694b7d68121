-------------------------- MODULE MCAlertDelivery --------------------------
(* Instances of AlertDelivery for TLC. *)
EXTENDS AlertDelivery, TLC

CONSTANTS a1, c1, c2, c3, log, slack, pagerduty, m1, m2

Sinks == {log, slack, pagerduty}
MetricOfAlert == [a \in Alerts |-> m1]

\* The first rule is another team's; the second selects two sinks and leaves out
\* the log.
TeamRules == << [match |-> {m2}, sinks |-> {log}],
                [match |-> {m1, m2}, sinks |-> {slack, pagerduty}] >>
=============================================================================
