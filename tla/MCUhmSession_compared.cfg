SPECIFICATION Spec
CONSTANTS
  None = None
  f1 = f1
  r1 = r1
  r2 = r2
  File = {f1}
  Request = {r1, r2}
  Contents <- MCContents
  Match <- MCMatch
  Faults = {}
  Usage = {}
  MaxMessages = 2
INVARIANTS
  ComparedInOrder
