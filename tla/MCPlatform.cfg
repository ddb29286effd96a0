CONSTANTS
    Caller = {a, b}
    MaxSessions = 3
    MaxTokens = 2
    Request = {"a", "b"}
    User = {"o", "s", "t"}
    FirstOwner = "o"
    Email = {"e", "g"}
    StoreCode = {"c", "d"}
    MaxOtps = 2
    Key = {"k1", "k2"}
    Store = {"x", "y"}
    Code = {"s1", "s2"}
    MaxLeads = 2
    MaxSubmissions = 4
    Event = {"e"}
    MaxRows = 3
    Value = {"on", "off"}
    Default = "on"
    MaxChanges = 3
SPECIFICATION MCSpec
INVARIANTS
    TokensWorkOnce
    CodesWorkOnce
    DeskKeepsRecords
    SetupHolds
PROPERTIES
    HandoverLeavesOneOwner
CHECK_DEADLOCK FALSE
