------------------------------ MODULE MCStartup ------------------------------
(* Instances of Startup for TLC. *)
EXTENDS Startup

CONSTANTS r1, r2

\* The chart runs two replicas, of which a release replaces one, and no scraper; Compose
\* runs one API and the scraper.
Helm(days) == [apis |-> {r1, r2}, days |-> days, restarts |-> TRUE, rollouts |-> 1, scraper |-> FALSE]
Compose == [apis |-> {r1}, days |-> 30, restarts |-> FALSE, rollouts |-> 0, scraper |-> TRUE]
MCDeployments == {Helm(0), Helm(30), Compose}

\* What the release before labels, methods and tenants has left.
PreTenancy ==
  {"metrics", "metrics hypertable", Cagg, CaggPolicy, "metrics compression",
   "alerts", "detector_models", OldUnique}

\* No database yet, an old one, and that of the last start.
MCReleases == {{}, PreTenancy, Complete}
=============================================================================
