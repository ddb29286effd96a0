CONSTANTS
    Price = {1000, 2000}
    Cost = {700, 1400}
    Margin = {20, 30}
    Editor = {e1}
    MaxEdits = 1
    MaxRecs = 2
    MaxFailures = 1
    Owner = {"o"}
    Staff = {"s"}
    Condition = {{}, {"low"}, {"low", "out"}}
    MaxChanges = 2
    MaxActs = 2
    Good <- MCGood
    Setting <- MCSetting
    History <- MCHistory
    Quantity = {1, 6}
    MaxSteps = 1
    LastDay = 4
    Rebuilder = {"r1", "r2"}
    MaxAsked = 1
    MaxTries = 2
    ListItem = {1, 2, 3}
    Score = {1, 2}
    MaxSuggestions = 2
    MaxPerKind = 1
    MaxCandidates = 3
SPECIFICATION MCSpec
INVARIANTS
    OnePending
    AdviceIsSafe
PROPERTIES
    AcceptedOnBasis
    AlertsFollowCondition
    RiskFollowsStock
    SummaryNeverRegresses
    RecentDaysCatchUp
CHECK_DEADLOCK FALSE
