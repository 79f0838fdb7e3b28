CONSTANTS
  ServiceAccounts = {"agent"}
  Quotas = {"agent"}
  NameKey <- SoloNameKey
  SpecsOf <- SoloSpecs
  Amounts = {1}
  Patches = {"Suspended"}
  Micro = 1
  MaxClock = 2
  MaxRuns = 1
  MaxEdits = 2
  MaxFaults = 1
  MaxRestarts = 1
  Absent = Absent
  Unset = Unset
\* With every quota deleted and the bounds used up the operator is idle.
CHECK_DEADLOCK FALSE
SPECIFICATION FairSpec
PROPERTIES RenewalHappens EventuallyMirrored DeletionReleases
