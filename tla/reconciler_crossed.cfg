CONSTANTS
  ServiceAccounts = {"red", "blue"}
  Quotas = {"red", "blue"}
  NameKey <- CrossedNameKey
  SpecsOf <- CrossedSpecs
  Amounts = {1}
  Patches = {}
  Micro = 1
  MaxClock = 1
  MaxRuns = 1
  MaxEdits = 3
  MaxFaults = 0
  MaxRestarts = 0
  Absent = Absent
  Unset = Unset
\* With every quota deleted and the bounds used up the operator is idle.
CHECK_DEADLOCK FALSE
SPECIFICATION FairSpec
PROPERTIES EventuallyMirrored DurableRecordKept
