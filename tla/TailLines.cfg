SPECIFICATION Spec

CONSTANTS
  a = a
  b = b
  Items = {a, b}
  NoItem = NoItem
  Capacities = {0, 1, 2, 3}
  Files <- MCFiles
  MaxLines = 7

INVARIANTS
  RingOK
  AnswersTail
PROPERTIES
  ImplementsQueue
