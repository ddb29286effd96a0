CONSTANTS
    Attempt = {a1, a2, a3}
    Key = {"receipt", "receipt2", "take"}
    Body = {"first", "other"}
    Keyed = {"receipt", "receipt2"}
    Extends <- MCExtends
    MaxLapses = 2
    Take = {s1, s2}
    Counter = {a1, a2}
    Goods = {1, 2}
    Opening <- MCOpening
    Trading = {2}
    MaxQty = 1
    Editor = {a1, a2}
    Category = {"k"}
    Product = {"p"}
    Sku = {"i"}
    MaxEdits = 2
SPECIFICATION MCSpec
SYMMETRY Symmetric
INVARIANTS
    CountsAdjustStock
    EffectOnce
    AnswerIsOwnEffect
PROPERTIES
    EditsStartFromWhatTheyRead
CHECK_DEADLOCK FALSE
