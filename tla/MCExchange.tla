----------------------------- MODULE MCExchange -----------------------------
(* One pair of two assets; the sets and bounds are in the .cfg files. *)
EXTENDS Exchange, FiniteSetsExt, TLC

CONSTANT MaxFunds  \* bound: total of all balances in the states explored

MCBaseOf == [p \in Pair |-> "BTC"]
MCEndowment == [w \in Wallet |-> IF w[3] = "spot" THEN 1 ELSE 0]
MCQuoteOf == [p \in Pair |-> "USDT"]

\* The users are interchangeable: nothing in Exchange names one.
UserSymmetry == Permutations(User)

FundsBound == MapThenSumSet(LAMBDA w : wallet[w].balance, Wallet) <= MaxFunds
=============================================================================
