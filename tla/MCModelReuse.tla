---------------------------- MODULE MCModelReuse ----------------------------
(* Instances of ModelReuse for TLC. *)
EXTENDS ModelReuse, TLC

CONSTANTS t1, t2, m1, zscore, prophet, j1, j2

MCLimit == [k \in Kinds |-> 1]
MCRetries == [k \in Kinds |-> IF k = zscore THEN 1 ELSE 0]

\* Tenants and tasks are interchangeable; no run of this module checks liveness.
ReuseSymmetry == Permutations(Tenants) \union Permutations(Tasks)
=============================================================================
