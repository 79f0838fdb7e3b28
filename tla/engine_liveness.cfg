CONSTANTS
  Pods = {"agent"}
  Tools = {"search"}
  Policies = {"suspend"}
  SpecOf <- SuspendSpec
  Deployments = {"agents"}
  OwnerOf <- OwnedPod
  NoOwner = NoOwner
  Absent = Absent
  Never = Never
  Lags = {0}
  Cooldown = 2
  MaxAge = 2
  Interval = 0
  Prompt = FALSE
  MaxClock = 3
  MaxCalls = 2
  MaxMoves = 2
  MaxEdits = 2
  MaxFaults = 1
  MaxRestarts = 1
SPECIFICATION FairSpec
PROPERTY LoopNeverIgnored
