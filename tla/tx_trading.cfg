SPECIFICATION TxSpec
CONSTANTS
    User = {u1}
    Asset = {"BTC", "USDT"}
    Pair = {BTCUSDT}
    BaseOf <- MCBaseOf
    QuoteOf <- MCQuoteOf
    Endowment <- MCEndowment
    Funds = 1
    MaxFunds = 4
    MaxOrders = 2
    Qty = {1}
    Price = {1, 2}
    Amount = {1}
    MaxBalance = 2
    Session = {s1, s2, s3}
    None = None
    Kinds = {"transfer", "resting", "market", "monitor"}
CONSTRAINT FundsBound
SYMMETRY SessionSymmetry
INVARIANTS
    TxTypeOK
    NothingLeaks
PROPERTIES
    Atomic
CHECK_DEADLOCK FALSE
