------------------------------- MODULE Scraper -------------------------------
(***************************************************************************)
(* The Prometheus scraper: scrape_prometheus and run_scraper_loop of       *)
(* ingestion/scraper.py in the process of ingestion/scraper_main.py.  The  *)
(* first MaxPoints points are numbered in the order they are scraped; the  *)
(* scraper goes on for ever, and later points only fill page and buffer.   *)
(***************************************************************************)
EXTENDS Integers, Sequences

CONSTANTS
  BatchSize,  \* points in a bulk insert
  PageSize,   \* bound: points of one scrape
  MaxPoints,  \* bound: points that are followed
  MaxBreaks   \* bound: inserts and commits that fail for a reason of their own

VARIABLES
  tableReady, \* the metrics table and its tenant column exist
  st,         \* "down", "scraping", "inserting" or "committing"
  page,       \* points of the scraped page that are still to be yielded
  numbered,   \* the numbered ones of them
  scraped,    \* numbered points so far, on whatever page
  filled,     \* points that wait for a full batch
  buffer,     \* the numbered ones of them
  stored,     \* numbered points of the metrics table, as they were committed
  ended,      \* processes that have ended, counted while it matters to LossBounded
  breaks

ScraperInit ==
  /\ st = "down"
  /\ page = 0 /\ numbered = 0 /\ scraped = 0 /\ ended = 0 /\ breaks = 0
  /\ filled = 0 /\ buffer = <<>> /\ stored = <<>>

\* main: a process starts with an empty buffer.
Begin ==
  /\ st = "down"
  /\ st' = "scraping"
  /\ UNCHANGED <<page, numbered, scraped, filled, buffer, stored, ended, breaks>>

\* One poll: n usable lines.  A poll that fails is logged and yields nothing, as a
\* page without usable lines does, and the loop sleeps until the next.
Scrape(n) ==
  /\ st = "scraping" /\ page = 0
  /\ page' = n
  /\ numbered' = IF n <= MaxPoints - scraped THEN n ELSE MaxPoints - scraped
  /\ scraped' = scraped + numbered'
  /\ UNCHANGED <<st, filled, buffer, stored, ended, breaks>>

\* A point is yielded into the buffer; a full buffer is inserted at once, with
\* the rest of the page waiting in the generator.
Yield ==
  /\ st = "scraping" /\ page > 0
  /\ page' = page - 1
  /\ filled' = filled + 1
  /\ IF numbered > 0
     THEN numbered' = numbered - 1 /\ buffer' = Append(buffer, scraped - numbered + 1)
     ELSE UNCHANGED <<numbered, buffer>>
  /\ st' = IF filled + 1 >= BatchSize THEN "inserting" ELSE "scraping"
  /\ UNCHANGED <<scraped, stored, ended, breaks>>

Insert ==
  /\ st = "inserting" /\ tableReady
  /\ st' = "committing"
  /\ UNCHANGED <<page, numbered, scraped, filled, buffer, stored, ended, breaks>>

Commit ==
  /\ st = "committing"
  /\ stored' = stored \o buffer
  /\ filled' = 0 /\ buffer' = <<>>
  /\ st' = "scraping"
  /\ UNCHANGED <<page, numbered, scraped, ended, breaks>>

\* What a process holds at most: a batch in hand, of which the last point has left the
\* page, or a page before a batch that still has room.
HeldAtMost == BatchSize + PageSize - 1

CountEnd == ended' = IF ended * HeldAtMost < MaxPoints THEN ended + 1 ELSE ended

\* Mutant: the failure is logged, and the batch kept for the next flush.
EndKeeping ==
  /\ st' = "scraping" /\ UNCHANGED <<page, numbered, filled, buffer>>
  /\ CountEnd

\* An exception in the consumer ends run_scraper_loop and the process with it: the
\* buffer and the rest of the page are gone.
End ==
  /\ st' = "down" /\ page' = 0 /\ numbered' = 0 /\ filled' = 0 /\ buffer' = <<>>
  /\ CountEnd

\* The insert finds no table or no tenant column: the API has not made them yet.
InsertRaises ==
  /\ st = "inserting" /\ ~tableReady
  /\ End
  /\ UNCHANGED <<scraped, stored, breaks>>

\* The database fails in a flush, or the process is killed at any point.
Break ==
  /\ breaks < MaxBreaks
  /\ st # "down"
  /\ breaks' = breaks + 1
  /\ End
  /\ UNCHANGED <<scraped, stored>>

\* The batch is committed, but the answer is lost: an exception all the same.
CommitReplyLost ==
  /\ breaks < MaxBreaks
  /\ st = "committing"
  /\ breaks' = breaks + 1
  /\ stored' = stored \o buffer
  /\ End
  /\ UNCHANGED scraped

Scraping ==
  \/ Begin \/ (\E n \in 1..PageSize : Scrape(n)) \/ Yield
  \/ Insert \/ InsertRaises \/ Commit

ScraperStep == Scraping \/ Break \/ CommitReplyLost
-----------------------------------------------------------------------------
ScraperTypeOK ==
  /\ st \in {"down", "scraping", "inserting", "committing"}
  /\ page \in 0..PageSize
  /\ numbered \in 0..page
  /\ scraped \in numbered..MaxPoints
  /\ filled \in 0..BatchSize
  /\ buffer \in Seq(1..MaxPoints) /\ Len(buffer) <= filled
  /\ stored \in Seq(1..MaxPoints)
  /\ ended \in 0..MaxPoints
  /\ breaks \in 0..MaxBreaks

(***************************************************************************)
(* A point is stored at most once and in the order it was scraped, even    *)
(* when a commit succeeds whose answer is lost.                            *)
(***************************************************************************)
StoredOnceInOrder == \A i, j \in DOMAIN stored : i < j => stored[i] < stored[j]

(***************************************************************************)
(* The end of a process costs at most what it holds, the batch in hand and *)
(* the rest of the page it has scraped: the points that are neither stored *)
(* nor on their way are at most that many for each end.                    *)
(***************************************************************************)
LossBounded ==
  scraped - numbered - Len(buffer) - Len(stored) <= ended * HeldAtMost
=============================================================================
