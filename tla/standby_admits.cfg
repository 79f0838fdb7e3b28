SPECIFICATION Spec
CONSTANTS
    Replicas = {"r1", "r2"}
    Accounts = {"agent"}
    Pods = {"pod"}
    Tools = {"search", "chat"}
    Models = {"gpt-4o-mini", "gpt-4o", "unknown"}
    Patterns <- MCPatterns
    Matches <- MCMatches
    Length <- MCLength
    Prices <- MCPrices
    Fallback <- MCFallback
    Absent = Absent
    Unset = Unset
    Batches = {"a", "b"}
    SpansOf <- MCSpansOf
    MaxExports = 2
    Elections = {TRUE}
    BudgetOf <- MCBudgetOf
    AgentPods = {"new"}
    AccountOf <- MCAccountOf
    Default = "agent"
    Workload <- MCWorkload
    MaxCrashes <- NoCrash
PROPERTIES
    ExhaustedStaysOut
