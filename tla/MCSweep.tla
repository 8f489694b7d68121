------------------------------ MODULE MCSweep ------------------------------
(* Instances of Sweep for TLC. *)
EXTENDS Sweep

CONSTANTS p1, p2, statistical, prophet

\* One detector that may retry once and one that may not.
MCRetries == [k \in Kinds |-> IF k = statistical THEN 1 ELSE 0]
=============================================================================
