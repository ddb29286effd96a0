CONSTANTS
    Caller = {a}
    Category = {k}
    Product = {p}
    Item = {i, j}
    MaxEdits = 1
SPECIFICATION Spec
INVARIANTS
    ArchivedIsNotSold
CHECK_DEADLOCK FALSE
