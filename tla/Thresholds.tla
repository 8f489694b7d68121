----------------------------- MODULE Thresholds -----------------------------
(***************************************************************************)
(* Per-metric thresholds: detection/thresholds.py, and the key under which *)
(* the workers, the detail page and the detection endpoint look one up.    *)
(* An entry is a glob (the metrics it matches), the detectors it names and *)
(* the value it gives them; bad is set when some value is no number.  The  *)
(* entries are those of a JSON object, so no two have the same glob, but   *)
(* two globs may well match the same metrics.                              *)
(***************************************************************************)
EXTENDS Integers, Sequences

CONSTANTS
  Metric,     \* metric names
  Key,        \* threshold keys: detection methods and detectors
  Statistical \* the detector name that all statistical methods report

Entry(Values) == [match : SUBSET Metric, keys : SUBSET Key, value : Values, bad : BOOLEAN]

\* An entry with a bad value is dropped whole; the others keep their order.
Parsed(raw) == {i \in DOMAIN raw : ~raw[i].bad}

Defining(raw, m, k) == {i \in Parsed(raw) : k \in raw[i].keys /\ m \in raw[i].match}

\* Mutant: the last entry that defines the detector wins.
ResolveLast(raw, m, k, default) ==
  LET found == Defining(raw, m, k)
  IN  IF found = {} THEN default
      ELSE raw[CHOOSE i \in found : \A j \in found : i >= j].value

\* The first entry that matches the metric and names the detector wins.
ResolveThreshold(raw, m, k, default) ==
  LET found == Defining(raw, m, k)
  IN  IF found = {} THEN default
      ELSE raw[CHOOSE i \in found : \A j \in found : i <= j].value

\* A row of alerts tells its key by its method, or by its detector when it has none.
ResolverKey(detector, method) ==
  IF detector = Statistical /\ method # "" THEN method ELSE detector

\* getattr(settings, key_threshold, fallback): stl has no setting of its own.
Default(settings, k, fallback) == IF k \in DOMAIN settings THEN settings[k] ELSE fallback

WorkerThreshold(raw, settings, m, method) ==
  ResolveThreshold(raw, m, method, Default(settings, method, settings["zscore"]))

\* The detection endpoint falls back to 0.8, and its caller may name a threshold.
EndpointThreshold(raw, settings, m, k) == ResolveThreshold(raw, m, k, Default(settings, k, 8))

DetailThreshold(raw, settings, m, detector, method) ==
  LET k == ResolverKey(detector, method)
  IN  ResolveThreshold(raw, m, k, Default(settings, k, settings["zscore"]))
=============================================================================
