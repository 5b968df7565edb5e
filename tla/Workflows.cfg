SPECIFICATION Spec
CONSTANTS
  Explored <- AllPrograms
  Runs = 2
  Uuid = {"uuid"}
  Key <- Keys
  Value <- TaskNames
  Position = {0, 1, 2, 3, 4, 5}
  None = None
  Second = 2
  MinimumTtl = 1
  DefaultLease = 3
  ShortLease = 2
  Retention = 2
  MaxNow = 4
  MaxFaults <- OneFault
INVARIANTS TypeOK ResultOfOwnTask ScenariosPass
PROPERTIES KeptUntilRetention OneHolder StatusKept
CONSTRAINT FaultOrPieces
CHECK_DEADLOCK FALSE
