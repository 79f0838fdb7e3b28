CONSTANTS
  Pods = {"agent"}
  Tools = {"search"}
  Policies = {"evict"}
  SpecOf <- PacedSpec
  Deployments = {}
  OwnerOf <- OrphanPod
  NoOwner = NoOwner
  Absent = Absent
  Never = Never
  Lags = {0, 1}
  Cooldown = 2
  MaxAge = 3
  Interval = 1
  Prompt = TRUE
  MaxClock = 5
  MaxCalls = 3
  MaxMoves = 2
  MaxEdits = 1
  MaxFaults = 0
  MaxRestarts = 0
\* Time and the engine stop for good once the clock has reached its bound.
CHECK_DEADLOCK FALSE
SPECIFICATION TimedSpec
PROPERTY LoopIsCaught
