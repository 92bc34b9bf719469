--------------------------- MODULE MCReportWorker ---------------------------
(***************************************************************************)
(* ReportWorker with two reports in the pre-#305 file, one behind the      *)
(* other, so that the second can be held up by the first.                  *)
(***************************************************************************)
EXTENDS ReportWorker

CONSTANTS t1, t2, t3

MCTasks == {t1, t2, t3}
MCLegacy == <<t2, t3>>
=============================================================================
