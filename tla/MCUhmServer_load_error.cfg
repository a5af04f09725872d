SPECIFICATION Spec
CONSTANTS
  None = None
  StatusNone = StatusNone
  Malformed = Malformed
  f1 = f1
  f2 = f2
  r1 = r1
  r2 = r2
  own = own
  h = h
  c1 = c1
  c2 = c2
  s1 = s1
  s2 = s2
  Trace <- MCTrace
  HostsOf <- MCHostsOf
  Match <- MCMatch
  DomainNames <- MCDomainNames
  File = {f1, f2}
  OwnHandled = {own}
  Host = {h}
  Client = {c1, c2}
  Request = {r1, r2, own}
  Stream = {s1}
  Faults = {"read", "hosts"}
  Usage = {}
  MaxCounter = 2
INVARIANTS
  LoadErrorLeavesState
