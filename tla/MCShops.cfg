CONSTANTS
    Order <- MCOrder
    Item = {1, 2}
    Call = {c1, c2}
    MaxQty = 2
    Channel <- MCChannel
    Qty <- MCQty
    Refundable <- MCRefundable
    Opening <- MCOpening
    YearDays = 2
    QuarterDays = 1
    Window = 3
    MinDays = 2
    Grace = 1
    Threshold = 4
    Amount = {2}
    FileMoment = {1}
    MaxDocs = 4
    MaxBooked = 2
    MaxMeanwhile = 1
    Subtotal = {0, 1, 2, 5, 100}
    LineCount = {1, 2, 3}
    Discount = {0, 1, 2, 7}
    Levy = {0, 1, 10}
    ClientTotal = {0, 60}
SPECIFICATION MCSpec
INVARIANTS
    ReturnsWithinSale
    DeductedOnce
    RestockBounded
    PaidIsFulfilled
PROPERTIES
    CanceledIsFinal
    PaidIsSettled
    MoneyAddsUp
CHECK_DEADLOCK FALSE
