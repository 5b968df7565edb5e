SPECIFICATION Spec
CONSTANTS
  Process = {p1, p2}
  Base = Base
  Derived = Derived
  Other = Other
  Class = {Base, Derived, Other}
  InstanceOf <- Hierarchy
  Contract = {Base, Derived}
  Name = {"a", "b"}
  Naming <- Versions
  None = None
  MaxExtensions = 4
SYMMETRY Symmetry
INVARIANTS TypeOK DecodedAsWritten
PROPERTIES ReadyNotRefused
CHECK_DEADLOCK FALSE
