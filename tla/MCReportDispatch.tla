--------------------------- MODULE MCReportDispatch ---------------------------
(* ReportDispatch on a small instance. *)
EXTENDS ReportDispatch, TLC

\* Workers are interchangeable; not used by the run that checks liveness.
WorkerSymmetry == Permutations(Workers)
=============================================================================
