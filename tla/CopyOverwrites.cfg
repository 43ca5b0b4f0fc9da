SPECIFICATION Spec

CONSTANTS
  c1 = c1
  p1 = p1
  p2 = p2
  Calls = {c1}
  Paths = {p1, p2}
  Tools = {"copy_file"}
  Seed = Seed
  NoOp = NoOp
  NoInode = NoInode
  SeedText <- MCSeedText
  MaxSize = 3
  Sequential = TRUE
  Timeouts = FALSE

PROPERTIES
  CopyNeverOverwrites
