SPECIFICATION Spec

CONSTANTS
  Blank = ""
  NoFile = NoFile
  NoEnd = NoEnd
  MaxPage = 4
  MaxValues = 3
  MaxRange = 2
  MaxFileSize = 6
  Flags <- MCFlags
  Texts <- MCTexts
  Headers <- MCHeaders
  Names = {"a", "b", "c"}
  Values = {"", "x"}
  Batches <- MCBatches

VIEW MCView

INVARIANTS
  TypeOK
  TidyStaysTidy
  ReadersAgree

PROPERTIES
  ChangesAreEnabled
  ImplementsTable
