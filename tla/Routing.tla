------------------------------ MODULE Routing ------------------------------
(***************************************************************************)
(* Which sinks an alert goes to: available_sinks, select_sink_names and    *)
(* build_default_router of alerting/router.py.  A glob is the set of       *)
(* metrics it matches; a list of sink names is a set, so a rule that names *)
(* one sink twice (and would send twice) is left out.  Rules that do not   *)
(* parse as JSON count as no rules; JSON that is no list of objects is     *)
(* left out (select_sink_names raises on it).                              *)
(***************************************************************************)
EXTENDS Integers, Sequences

CONSTANTS
  SinkNames,  \* every name a rule may use, known to the registry or not
  LogSink     \* the sink that is always registered

ASSUME LogAssumption == LogSink \in SinkNames

Rule(MetricSet) == [match : SUBSET MetricSet, sinks : SUBSET SinkNames]

\* Every sink but the log is registered only when its settings are filled in.
AvailableSinks(optIn) == {LogSink} \union optIn

Matching(rules, m) == {i \in DOMAIN rules : m \in rules[i].match}

FirstMatch(rules, m) ==
  CHOOSE i \in Matching(rules, m) : \A j \in Matching(rules, m) : i <= j

\* The code returns None when no rule matches; its caller treats None as [].
SelectSinkNames(m, rules) ==
  IF Matching(rules, m) = {} THEN {} ELSE rules[FirstMatch(rules, m)].sinks

\* Mutant: no fallback to the log sink.
BuildRouterWithoutFallback(m, rules, optIn) ==
  IF rules = <<>> THEN AvailableSinks(optIn)
  ELSE SelectSinkNames(m, rules) \intersect AvailableSinks(optIn)

BuildDefaultRouter(m, rules, optIn) ==
  LET registry == AvailableSinks(optIn)
      chosen == SelectSinkNames(m, rules) \intersect registry
  IN  CASE rules = <<>> -> registry
        [] rules # <<>> /\ chosen = {} -> {LogSink}
        [] OTHER -> chosen
=============================================================================
