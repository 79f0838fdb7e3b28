CONSTANTS
  ServiceAccounts = {"agent", "agent-quota"}
  Quotas = {"agent-quota"}
  NameKey <- ApartNameKey
  SpecsOf <- ApartSpecs
  Amounts = {1}
  Patches = {}
  Micro = 1
  MaxClock = 0
  MaxRuns = 0
  MaxEdits = 2
  MaxFaults = 0
  MaxRestarts = 0
  Absent = Absent
  Unset = Unset
\* With every quota deleted and the bounds used up the operator is idle.
CHECK_DEADLOCK FALSE
SPECIFICATION FairSpec
PROPERTY DeletionReleases
