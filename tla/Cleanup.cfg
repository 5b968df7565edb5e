SPECIFICATION CleanupSpec
CONSTANTS
  Sweep = {s1, s2}
  Position = {0, 1}
  Key = {k1}
  Uuid = {}
  LeaseTimeout = {1}
  Retention = {2}
  None = None
  Second = 1
  MinimumTtl = 1
  MaxNow = 4
  MaxFaults = 2
  Call = {}
  Value = {v1}
PROPERTIES EventuallyDeleted
