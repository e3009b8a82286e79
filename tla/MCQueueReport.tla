--------------------------- MODULE MCQueueReport ---------------------------
(***************************************************************************)
(* TLC instance of the report: two ports, two slices, up to two packets    *)
(* coming or going during a report.                                        *)
(***************************************************************************)
EXTENDS QueueReport
============================================================================
