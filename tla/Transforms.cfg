SPECIFICATION Spec

CONSTANTS
  Calls = {1, 2}
  Requests <- MCRequests
  Starts <- MCStarts
  OldTokens <- MCOldTokens
  NoFile = NoFile
  Links <- MCLinks
  NoRequest = NoRequest
  Fresh <- MCFresh
  Limit = 2
  MaxFileSize = 2
  Editable <- MCEditable
  MaxEdits = 1

INVARIANTS
  TypeOK
  SourceKept
  DecryptsWhatWasSealed

PROPERTIES
  SuccessIsComplete
  LimitHolds
  AnsweredChangesOnce
