SPECIFICATION Spec
CONSTANTS
  Sweep = {}
  Position = {0}
  Key = {k1, u1}
  Uuid = {u1}
  LeaseTimeout = {1}
  Retention = {1}
  None = None
  Second = 1
  MinimumTtl = 1
  MaxNow = 2
  MaxFaults = 1
  MaxToken = 2
  Call = {c1, c2}
  Value = {v1, v2}
  Rpc = {"start", "lease", "checkpoint", "release", "complete", "key"}
CONSTRAINT Focus
SYMMETRY Symmetry
INVARIANTS TypeOK Fenced
PROPERTIES ResultsWrittenOnce AcknowledgedIsStored
