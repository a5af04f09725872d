SPECIFICATION Spec
CONSTANTS
  None = None
  x = x
  y = y
  a = a
  b = b
  t = t
  p1 = p1
  p2 = p2
  Name = {x, y}
  Value = {a, b}
  Text = {t}
  Message <- MCMessage
  Port = {p1, p2}
  MaxFilters = 1
INVARIANTS
  IgnoredParametersPresent
