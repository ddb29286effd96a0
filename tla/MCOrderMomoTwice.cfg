CONSTANTS
    Order = {"momo"}
    Item = {1}
    Call = {c1, c2}
    MaxQty = 2
    Channel <- OwnChannel
    Qty <- OneLineQty
    Refundable <- OneLineRefundable
    Opening <- TwoUnits
SPECIFICATION Spec
PROPERTIES
    FulfilledOnce
CHECK_DEADLOCK FALSE
