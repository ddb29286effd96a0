CONSTANTS
    User = {o, s, t}
    FirstOwner = o
    Caller = {a, b, c}
SPECIFICATION Spec
INVARIANTS
    StoreKeepsOwner
CHECK_DEADLOCK FALSE
