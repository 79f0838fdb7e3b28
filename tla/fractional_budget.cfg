CONSTANTS
  ServiceAccounts = {"agent"}
  Quotas = {"agent"}
  NameKey <- SoloNameKey
  SpecsOf <- FractionalSpecs
  Amounts = {1}
  Patches = {}
  Micro = 1
  MaxClock = 2
  MaxRuns = 2
  MaxEdits = 1
  MaxFaults = 0
  MaxRestarts = 0
  Absent = Absent
  Unset = Unset
\* With every quota deleted and the bounds used up the operator is idle.
CHECK_DEADLOCK FALSE
SPECIFICATION Spec
INVARIANT CapIsHard
