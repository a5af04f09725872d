SPECIFICATION Spec
CONSTANTS
  None = None
  r1 = r1
  r2 = r2
  ok = ok
  no = no
  h = h
  u = u
  w = w
  e = e
  Text = {r1, r2, ok, no, h, u, w, e}
  Blank = e
  Class <- MCClass
  Recording <- MCRecording
  Damaged <- MCDamaged
  Faults = {"read"}
INVARIANTS
  InPlace
  RecordedMessagesLoad
  LoadedIsWhole
PROPERTIES
  PassesReadPairs
