SPECIFICATION Spec
CONSTANTS
    User = {u1, u2}
    Asset = {"BTC", "USDT"}
    Pair = {BTCUSDT}
    BaseOf <- MCBaseOf
    QuoteOf <- MCQuoteOf
    Endowment <- MCEndowment
    MaxOrders = 2
    Qty = {1}
    Price = {1, 2}
    Amount = {2}
    MaxBalance = 3
    MaxFunds = 6
CONSTRAINT FundsBound
SYMMETRY UserSymmetry
INVARIANTS
    TypeOK
    Solvent
    FrozenIsHeld
    LedgerExplainsBalance
    OneTradePerFill
PROPERTIES
    ClosedIsFinal
    KeepsEscrow
CHECK_DEADLOCK FALSE
