SPECIFICATION ComponentsSpec
CONSTANTS
  Docs = {d1}
  Workers = {w1, w2}
  NoClaim = NoClaim
  MaxAttempts = 2
  MaxResets = 2
  MaxFaults = 3
  Folders = {f1, f2}
  Documents = {file1}
  Assets = {a1}
  Requests = {q1, q2}
  Dataset = dataset1
  Root = root
  Absent = absent
  NoRequest = noRequest
  wNone = wNone
  wOld = wOld
  wNew = wNew
  wModel = wModel
  Imports = {i1, i2}
  Workbooks <- Books
  Years <- BookYears
  Unparsed <- Unparsable
  NoWorkbook = noWorkbook
  NoImport = noImport
  MaxMishaps = 1
  Turns = {t1, t2}
  Callers = {c1, c2}
  NoTurn = noTurn
  NoCall = noCall
  MaxBreaks = 1
  Queries = {u1, u2}
  Files = {g1, g2, g3}
  Blocks = {b1, b2}
  NoFile = noFile
  NoDownload = noDownload
INVARIANTS
  SingleOwner
  ReadyServesLatestAttempt
  OverwriteIsRequested
  NotGivenUpEarly
  FoldersRooted
  FiledWhereItExists
  NoOrphanedFiling
  CurrentIsServable
  NewestIsServed
  TurnsNumberedInOrder
  OneReportPerQuestion
  CopyIsWhole
PROPERTIES
  LostLeaseStaysLost
  LifecycleImplemented
  TurnsSettle
CHECK_DEADLOCK FALSE
