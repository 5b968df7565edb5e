SPECIFICATION SystemSpec
CONSTANTS
  Sweep = {}
  Position = {0}
  Key = {k1}
  Uuid = {}
  LeaseTimeout = {1}
  Retention = {1}
  None = None
  Second = 1
  MinimumTtl = 1
  MaxNow = 8
  MaxFaults = 0
  MaxToken = 2
  Call = {w1, w2}
  Value = {w1, w2}
  Rpc = {}
  k1 = k1
  TaskLease = 1
  OnAbort = TRUE
  MayGenerateKeys = FALSE
  Sequential = FALSE
  TaskKey <- OneKey
PROPERTIES CompletedNotReexecuted
CHECK_DEADLOCK FALSE
