CONSTANTS
    Owner = {"o"}
    Staff = {"s"}
    Condition = {{}, {"low"}, {"low", "out"}}
    MaxChanges = 3
    MaxActs = 2
SPECIFICATION Spec
PROPERTIES
    ManualResolutionHolds
CHECK_DEADLOCK FALSE
