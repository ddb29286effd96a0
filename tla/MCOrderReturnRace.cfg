CONSTANTS
    Order = {"counter"}
    Item = {1}
    Call = {c1, c2}
    MaxQty = 2
    Channel <- OwnChannel
    Qty <- OneLineQty
    Refundable <- OneLineRefundable
    Opening <- TwoUnits
SPECIFICATION Spec
PROPERTIES
    ReturnOfFulfilled
CHECK_DEADLOCK FALSE
