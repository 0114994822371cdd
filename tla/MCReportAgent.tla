---------------------------- MODULE MCReportAgent ----------------------------
(* ReportAgent on a small instance. *)
EXTENDS ReportAgent, TLC

\* Workers and answer requests are interchangeable.
Symmetry == Permutations(Workers) \cup Permutations(Requests)
=============================================================================
