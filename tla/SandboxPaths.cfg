SPECIFICATION Spec

VIEW MCView

CONSTANTS
  Calls = {1, 2}
  Requests <- MCRequests
  Configs <- MCConfigs
  Trees <- MCTrees
  Cwd <- R
  NoPath = NoPath
  NoRequest = NoRequest
  Unopened = Unopened
  Aborted = Aborted
  Changes <- MCChanges
  MaxChanges = 1
  MaxHops = 8
  MaxFileSize = 2
  HiddenNames = {".h"}
  BinaryNames = {"o"}
  MaxTreeDepth = 3
  WalkDepth = 4
  Ui = Ui
  NameOrder <- MCNameOrder
  PageSize = 2
  LookedUp <- MCLookedUp
  MaxListedFiles = 3

INVARIANTS
  TypeOK
  TrieFindsRoots
  AcceptedIsCanonical
  WalksAgree

PROPERTIES
  ReadsWhatIsThere
  ReportsWhatItChanged
  ListedIsReadable
  PagesCoverAll
