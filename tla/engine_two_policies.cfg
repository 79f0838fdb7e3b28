CONSTANTS
  Pods = {"agent"}
  Tools = {"search"}
  Policies = {"evict", "suspend"}
  SpecOf <- TwoSpecs
  Deployments = {}
  OwnerOf <- OrphanPod
  NoOwner = NoOwner
  Absent = Absent
  Never = Never
  Lags = {0, 1}
  Cooldown = 2
  MaxAge = 2
  Interval = 0
  Prompt = FALSE
  MaxClock = 2
  MaxCalls = 2
  MaxMoves = 2
  MaxEdits = 2
  MaxFaults = 1
  MaxRestarts = 0
SPECIFICATION Spec
INVARIANTS TypeOK EvictionsReported DetectionsAccounted
PROPERTY CallsCountOnce
