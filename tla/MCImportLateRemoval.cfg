SPECIFICATION ImportSpec
CONSTANTS
  wNone = wNone
  wOld = wOld
  wNew = wNew
  wModel = wModel
  Imports = {i1, i2}
  Workbooks <- Books
  Years <- BookYears
  Unparsed <- Unparsable
  NoWorkbook = noWorkbook
  NoImport = noImport
  MaxMishaps = 1
INVARIANTS
  PublishedWorkbookKept
