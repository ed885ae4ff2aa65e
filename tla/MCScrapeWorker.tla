--------------------------- MODULE MCScrapeWorker ----------------------------
(* A scrape of a list and details (Pracuj.pl), one of two lists side by     *)
(* side without details (NoFluffJobs), and one of details only (JustJoinIT).*)
EXTENDS ScrapeWorker

PagesDef == <<{"list"}, {"city", "remote"}, {}>>
DetailsDef == <<2, 0, 1>>
=============================================================================
