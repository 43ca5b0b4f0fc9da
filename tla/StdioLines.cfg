SPECIFICATION FairSpec

CONSTANTS
  Inputs <- MCInputs
  MaxInput = 6
  MaxLine = 3
  Capacity = 3

INVARIANTS
  TypeOK
  InOrder
  AllAnswered
  NotHeldBack
PROPERTIES
  Stops
