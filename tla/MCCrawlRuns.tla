----------------------------- MODULE MCCrawlRuns -----------------------------
(***************************************************************************)
(* Small instance of CrawlRuns for TLC: every constant is given its value  *)
(* by the configuration.  Two jobs are enough for one that names a row and *)
(* one that does not, two rows for a row opened by mistake.                *)
(***************************************************************************)
EXTENDS CrawlRuns
=============================================================================
