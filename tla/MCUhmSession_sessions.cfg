SPECIFICATION Spec
CONSTANTS
  None = None
  f1 = f1
  r1 = r1
  r2 = r2
  File = {f1}
  Request = {r1, r2}
  Contents <- MCContents
  Match <- MCMatch
  Faults = {"replace", "replace_hosts", "write", "open", "read", "hosts"}
  Usage = {"overlap"}
  MaxMessages = 3
INVARIANTS
  TypeOK
  RecordingPlaysBack
  HostsAreRecorded
  WholeMessagesCompared
  StartedIsReady
  RecordingDoesNotCrash
  Tidy
  InStep
