SPECIFICATION Spec
CONSTANTS
  None = None
  StatusNone = StatusNone
  Malformed = Malformed
  f1 = f1
  f2 = f2
  r1 = r1
  r2 = r2
  own = own
  h = h
  c1 = c1
  c2 = c2
  s1 = s1
  s2 = s2
  Trace <- MCTrace
  HostsOf <- MCHostsOf
  Match <- MCMatch
  DomainNames <- MCDomainNames
  File = {f1}
  OwnHandled = {}
  Host = {h}
  Client = {c1}
  Request = {r1, r2}
  Stream = {s1, s2}
  Faults = {"read", "hosts"}
  Usage = {"early", "overlap", "load_before_run"}
  MaxCounter = 1
SYMMETRY StreamSymmetry
INVARIANTS
  TypeOK
  StopWaitsForHandler
