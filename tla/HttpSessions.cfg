SPECIFICATION FairSpec

CONSTANTS
  r1 = r1
  r2 = r2
  r3 = r3
  s1 = s1
  s2 = s2
  s3 = s3
  Requests = {r1, r2, r3}
  Sessions = {s1, s2, s3}
  NoSession = NoSession
  Shapes <- MCShapes

INVARIANTS
  TypeOK
  EndedStayEnded
  OneOwner
  DeletedOnce
  LateIsRefused
PROPERTIES
  Answered
