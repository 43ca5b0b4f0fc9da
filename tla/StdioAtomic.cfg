SPECIFICATION Spec

CONSTANTS
  c1 = c1
  c2 = c2
  p1 = p1
  p2 = p2
  Calls = {c1, c2}
  Paths = {p1, p2}
  Tools = {"read_text_file", "write_file", "edit_file", "edit_dry_run", "move_file", "copy_file", "delete_file", "csv_create", "csv_add_row"}
  Seed = Seed
  NoOp = NoOp
  NoInode = NoInode
  SeedText <- MCSeedText
  MaxSize = 3
  Sequential = TRUE
  Timeouts = FALSE

PROPERTIES
  ImplementsFileStore
