SPECIFICATION FairSpec
CONSTANTS
  None = None
  c1 = c1
  v1 = v1
  v2 = v2
  h1 = h1
  h2 = h2
  srv = srv
  a4 = a4
  a6 = a6
  bad = bad
  t1 = t1
  Client = {c1}
  Object = {v1, v2}
  Host = {h1, h2}
  Service = {srv}
  Addr = {a4, a6, bad}
  Family <- MCFamily
  Local = {a4, a6}
  Target = {t1}
  DomainNames <- MCDomainNames
  Usage = {"overlap"}
  MaxRecords = 2
INVARIANTS
  TypeOK
  StoppedServerIsForgotten
  ExpectedNamesAreFound
  Coherent
PROPERTIES
  LookupIsAtomic
  LookupsReturn
