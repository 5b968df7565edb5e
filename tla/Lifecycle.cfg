SPECIFICATION TracedSpec
CONSTANTS
  Sweep = {s1}
  Position = {0}
  Key = {k1, u1}
  Uuid = {u1}
  LeaseTimeout = {1}
  Retention = {1}
  None = None
  Second = 1
  MinimumTtl = 1
  MaxNow = 2
  MaxFaults = 1
  MaxToken = 2
  Call = {c1}
  Value = {v1}
  Rpc = {"start", "complete", "lease", "checkpoint", "release", "key"}
PROPERTIES DurableKeys CallsAtomic
