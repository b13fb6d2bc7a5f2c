SPECIFICATION TxFairSpec
CONSTANTS
    User = {u1}
    Asset = {"BTC", "USDT"}
    Pair = {BTCUSDT}
    BaseOf <- MCBaseOf
    QuoteOf <- MCQuoteOf
    Endowment <- MCEndowment
    Funds = 1
    MaxFunds = 99
    MaxOrders = 1
    Qty = {1}
    Price = {1, 2}
    Amount = {1}
    MaxBalance = 1
    Session = {s1, s2}
    None = None
    Kinds = {"deposit", "withdraw", "transfer", "resting", "market", "monitor", "cancel"}
INVARIANTS
    BooksBalance
PROPERTIES
    
    AtomicButLateCancels
CHECK_DEADLOCK FALSE
