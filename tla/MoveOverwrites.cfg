SPECIFICATION Spec

CONSTANTS
  c1 = c1
  c2 = c2
  p1 = p1
  p2 = p2
  Calls = {c1, c2}
  Paths = {p1, p2}
  Tools = {"move_file", "write_file"}
  Seed = Seed
  NoOp = NoOp
  NoInode = NoInode
  SeedText <- MCSeedText
  MaxSize = 3
  Sequential = FALSE
  Timeouts = FALSE

PROPERTIES
  MoveNeverOverwrites
