SPECIFICATION Spec
CONSTANTS
    ColumnUnit = 2
    WalletUnit = 8
    Qty = {1, 2, 3}
    Price = {1, 4, 8}
    MaxQty = 3
    MaxPrice = 8
    Amount = {8, 20}
    MaxOrders = 3
    MaxBalance = 48
    MaxLoose = 1
INVARIANTS
    DriftIsRounding
    ExactHolds
CHECK_DEADLOCK FALSE
