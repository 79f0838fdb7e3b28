CONSTANTS
  ServiceAccounts = {"agent"}
  Quotas = {"agent"}
  NameKey <- SoloNameKey
  SpecsOf <- FineSpecs
  Amounts = {4}
  Patches = {"Suspended", "Active"}
  Micro = 3
  MaxClock = 2
  MaxRuns = 2
  MaxEdits = 2
  MaxFaults = 1
  MaxRestarts = 1
  Absent = Absent
  Unset = Unset
\* With every quota deleted and the bounds used up the operator is idle.
CHECK_DEADLOCK FALSE
SPECIFICATION Spec
INVARIANTS TypeOK NeverOvercharged EarnedDenial NeverForgotten
PROPERTY DurableRecordKept
