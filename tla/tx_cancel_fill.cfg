SPECIFICATION TxSpec
CONSTANTS
    User = {u1}
    Asset = {"BTC", "USDT"}
    Pair = {BTCUSDT}
    BaseOf <- MCBaseOf
    QuoteOf <- MCQuoteOf
    Endowment <- MCEndowment
    Funds = 2
    MaxFunds = 6
    MaxOrders = 2
    Qty = {1}
    Price = {1, 2}
    Amount = {1}
    MaxBalance = 2
    Session = {s1, s2}
    None = None
    Kinds = {"resting", "monitor", "cancel"}
CONSTRAINT FundsBound
SYMMETRY SessionSymmetry
PROPERTIES
    ClosedIsFinal
CHECK_DEADLOCK FALSE
