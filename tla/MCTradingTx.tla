---------------------------- MODULE MCTradingTx ----------------------------
(* One pair of two assets; the sets and bounds are in the .cfg files. *)
EXTENDS TradingTx, FiniteSetsExt, TLC

CONSTANTS
    Funds,    \* what every spot wallet starts with
    MaxFunds  \* bound: total of all balances in the states explored

MCBaseOf == [p \in Pair |-> "BTC"]
MCQuoteOf == [p \in Pair |-> "USDT"]
MCEndowment == [w \in Wallet |-> IF w[3] = "spot" THEN Funds ELSE 0]

\* Nothing names a session.
SessionSymmetry == Permutations(Session)

FundsBound == MapThenSumSet(LAMBDA w : draft.wallet[w].balance, Wallet) <= MaxFunds
=============================================================================
