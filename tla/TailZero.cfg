SPECIFICATION Spec

CONSTANTS
  a = a
  b = b
  Items = {a, b}
  NoItem = NoItem
  Capacities = {0, 1, 2}
  Files <- MCFiles
  MaxLines = 3

INVARIANTS
  TailIsServed
