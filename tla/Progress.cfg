SPECIFICATION TracedSpec
CONSTANTS
  Sweep = {}
  Position = {0}
  Key = {k1}
  Uuid = {}
  LeaseTimeout = {1}
  Retention = {1}
  None = None
  Second = 1
  MinimumTtl = 1
  MaxNow = 5
  MaxFaults = 1
  MaxToken = 2
  Call = {w1, w2}
  Value = {w1, w2}
  Rpc = {}
  k1 = k1
  TaskLease = 1
  OnAbort = FALSE
  MayGenerateKeys = FALSE
  Sequential = FALSE
  TaskKey <- OneKey
PROPERTIES EveryRunEnds
CHECK_DEADLOCK FALSE
