------------------------- MODULE MCDocumentIngestion -------------------------
(***************************************************************************)
(* DocumentIngestion on a small instance.                                  *)
(***************************************************************************)
EXTENDS DocumentIngestion, TLC

\* What the passing run explores: everything about the owner of a lease, late
\* workers, and DELETEs that break off.
DisruptionScenarios ==
    {{"CANCEL", "LOST_COMMIT", "STALE_VIEW"}, {"STALL"}, {"CANCEL", "PURGE_ABORTED"}}

\* Workers are interchangeable.
WorkerSymmetry == Permutations(Workers)
=============================================================================
