CONSTANTS
    Price = {1000, 2000}
    Cost = {700, 1400}
    Margin = {20, 30}
    Editor = {e1, e2}
    MaxEdits = 2
    MaxRecs = 2
    MaxFailures = 1
SPECIFICATION Spec
INVARIANTS
    PriceHistoryComplete
CHECK_DEADLOCK FALSE
