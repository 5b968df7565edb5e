SPECIFICATION SystemSpec
CONSTANTS
  Sweep = {}
  Position = {0, 1}
  Key = {k1, u1, u2}
  Uuid = {u1, u2}
  LeaseTimeout = {1}
  Retention = {1}
  None = None
  Second = 1
  MinimumTtl = 1
  MaxNow = 8
  MaxFaults = 2
  MaxToken = 3
  Call = {w1, w2, w3}
  Value = {w1, w2, w3}
  Rpc = {}
  k1 = k1
  TaskLease = 1
  OnAbort = TRUE
  MayGenerateKeys = TRUE
  Sequential = TRUE
  TaskKey <- OneKey
SYMMETRY Symmetry
INVARIANTS ReturnedIsStored SameResults
PROPERTIES CompletedNotReexecuted LeaseNotStolen
CHECK_DEADLOCK FALSE
