------------------------------- MODULE Startup -------------------------------
(***************************************************************************)
(* A deployment comes up: the API replicas set the schema up while the     *)
(* scraper, which waits for the database but not for the API, already      *)
(* inserts into it.                                                        *)
(***************************************************************************)
EXTENDS SchemaSetup

CONSTANTS BatchSize, PageSize, MaxPoints, MaxBreaks

ASSUME ScraperAssumption ==
  /\ BatchSize \in Nat \ {0} /\ PageSize \in Nat \ {0}
  /\ MaxPoints \in Nat /\ MaxBreaks \in Nat

VARIABLES st, page, numbered, scraped, filled, buffer, stored, ended, breaks

\* What bulk_insert names.
P == INSTANCE Scraper WITH
  tableReady <- {"metrics", "metrics.tenant"} \subseteq db

scraperVars == <<st, page, numbered, scraped, filled, buffer, stored, ended, breaks>>
startupVars == <<vars, scraperVars>>

StartupInit == Init /\ P!ScraperInit

ApiStep == Next /\ UNCHANGED scraperVars

\* The scraper is an opt-in service of docker-compose.yml.
Scrape == deployment.scraper /\ P!ScraperStep /\ UNCHANGED vars

StartupNext == ApiStep \/ Scrape

StartupSpec == StartupInit /\ [][StartupNext]_startupVars

\* The target answers and the container is restarted (restart: unless-stopped).
ScraperFairness ==
  WF_startupVars(deployment.scraper /\ P!Scraping /\ UNCHANGED vars)

StartupFairSpec == StartupSpec /\ Fairness /\ ScraperFairness
-----------------------------------------------------------------------------
\* Type correctness of both parts.
StartupTypeOK == SchemaTypeOK /\ P!ScraperTypeOK

(***************************************************************************)
(* What was scraped is stored once and in order, and what is missing is at *)
(* most a batch and the rest of a page for each end of the process:        *)
(* run_scraper_loop flushes while the scraped page waits in the generator, *)
(* and an exception drops both.                                            *)
(***************************************************************************)
PointsKept == P!StoredOnceInOrder /\ P!LossBounded

(***************************************************************************)
(* The set-up converges, whoever of the replicas fails, restarts or is     *)
(* replaced; and while every flush before the schema is there ends the     *)
(* scraper, it stores batches for ever after once it is there.             *)
(***************************************************************************)
StartupSettles ==
  /\ SchemaConverges
  /\ <>[](deployment.scraper /\ {"metrics", "metrics.tenant"} \subseteq db) => []<>(st = "committing")
=============================================================================
