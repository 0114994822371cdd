-------------------------- MODULE MCStructuredImport --------------------------
EXTENDS StructuredImport, TLC

CONSTANTS wNone, wOld, wNew, wModel

\* A workbook without a year, two editions, and a template nothing can parse.
Books == {wNone, wOld, wNew, wModel}
BookYears == wNone :> 0 @@ wOld :> 1 @@ wNew :> 2 @@ wModel :> 2
Unparsable == {wModel}
=============================================================================
