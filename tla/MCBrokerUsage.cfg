SPECIFICATION Spec
CONSTANTS
    openai = openai
    tavily = tavily
    Providers <- MCProviders
    RequestsPerMinute <- MCRates
    DailyCost <- MCDailyCosts
    Costs = {2}
    Window = 1
    Skew = 0
    DayLength = 3
    MaxTime = 4
    MaxRewinds = 1
    MaxFaults = 2
INVARIANTS
    TypeOK
    DailyBudget
    ChargesAreDurable
    RateBound
    OwnStateLoads
CHECK_DEADLOCK FALSE
