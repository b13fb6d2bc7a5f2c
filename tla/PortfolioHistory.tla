-------------------------- MODULE PortfolioHistory --------------------------
(***************************************************************************)
(* How get_portfolio_history works out what a user's spot balance of an    *)
(* asset was at earlier times: it reads the spot wallet, then, with a      *)
(* second statement, all the user's transactions, and takes the deltas of  *)
(* the later ones off the balance.  The ledger itself is that of Exchange: *)
(* one entry for each change of a wallet.                                  *)
(*                                                                         *)
(* One user, one asset, priced 1: the report values each balance by itself *)
(* and adds the values up.                                                 *)
(***************************************************************************)
EXTENDS Integers, Sequences, Sums

CONSTANTS
    Amount,     \* amounts moved
    MaxTime,    \* bound: the clock stops there
    MaxRows     \* bound: Transaction rows

ASSUME BoundsAssumption ==
    /\ Amount \subseteq Nat \ {0}
    /\ MaxTime \in Nat
    /\ MaxRows \in Nat

Time == 0 .. MaxTime
WalletType == {"spot", "funding"}

VARIABLES
    clock,
    wallet,  \* [WalletType -> balance]
    log,     \* the Transaction rows, oldest first: the wallet, the delta, when
    reader,  \* where the request for the history is
    read,    \* the spot balance it has read
    seen,    \* the Transaction rows it has read: their places in log
    now,     \* the time of its answer
    torn     \* history: another request committed between its two statements

vars == <<clock, wallet, log, reader, read, seen, now, torn>>

\* What the rows at the places S of the log add up to.
Delta(S) == Sum([t \in 1 .. MaxRows |-> IF t \in S THEN log[t].delta ELSE 0], MaxRows)

Since(rows, ts) == {t \in rows : log[t].time > ts}

\* Faulty: an entry made at the sampled time itself counts as later.
UnwrapInclusive(balance, rows) ==
    [ts \in Time |-> balance - Delta({t \in rows : log[t].time >= ts})]
\* The deltas of the rows after each sampled time, taken off the balance.
Unwrap(balance, rows) == [ts \in Time |-> balance - Delta(Since(rows, ts))]

Row(w, deltas) == [type |-> w, delta |-> deltas[w], time |-> clock]

\* Faulty: only a wallet that gains gets a row.
RowsOfGains(deltas) ==
    LET gains == {w \in DOMAIN deltas : deltas[w] > 0}
    IN  IF gains = {} THEN <<>> ELSE <<Row(CHOOSE w \in gains : TRUE, deltas)>>
\* The ledger entries of a request: deltas is a function from wallet types.
Rows(deltas) ==
    IF "funding" \in DOMAIN deltas THEN <<Row("spot", deltas), Row("funding", deltas)>>
                                   ELSE <<Row("spot", deltas)>>

After(deltas) ==
    [w \in WalletType |-> wallet[w] + (IF w \in DOMAIN deltas THEN deltas[w] ELSE 0)]

\* A request that changes wallets commits.
Write(deltas) ==
    /\ Len(log) + Len(Rows(deltas)) <= MaxRows
    /\ \A w \in WalletType : After(deltas)[w] >= 0
    /\ wallet' = After(deltas)
    /\ log' = log \o Rows(deltas)
    /\ torn' = (torn \/ reader = "transactions")
    /\ UNCHANGED <<clock, reader, read, seen, now>>

-----------------------------------------------------------------------------
Init ==
    /\ clock = 0
    /\ wallet = [w \in WalletType |-> 0]
    /\ log = <<>>
    /\ reader = "idle"
    /\ read = 0
    /\ seen = {}
    /\ now = 0
    /\ torn = FALSE

Tick ==
    /\ clock < MaxTime
    /\ clock' = clock + 1
    /\ UNCHANGED <<wallet, log, reader, read, seen, now, torn>>

\* A deposit, a withdrawal or a leg of a trade.
SpotChange(amt) ==
    \E sign \in {1, -1} : Write([w \in {"spot"} |-> sign * amt])

\* POST /wallets/transfer: a row for each of the two wallets.
Transfer(amt) ==
    \E from \in WalletType : Write([w \in WalletType |-> IF w = from THEN -amt ELSE amt])

\* get_portfolio_history reads the spot wallets,
ReadWallets ==
    /\ reader # "transactions"
    /\ read' = wallet["spot"]
    /\ reader' = "transactions"
    /\ torn' = FALSE
    /\ UNCHANGED <<clock, wallet, log, seen, now>>

\* then the transactions of all the user's wallets, and answers.
ReadTransactions ==
    /\ reader = "transactions"
    /\ seen' = DOMAIN log
    /\ now' = clock
    /\ reader' = "done"
    /\ UNCHANGED <<clock, wallet, log, read, torn>>

Next ==
    \/ Tick
    \/ \E amt \in Amount : SpotChange(amt) \/ Transfer(amt)
    \/ ReadWallets
    \/ ReadTransactions

Spec == Init /\ [][Next]_vars

-----------------------------------------------------------------------------
\* What the request answers.
Answer == Unwrap(read, seen)

\* The sum of the deltas of the rows of the given wallets up to time ts.
BalanceAt(types, ts) ==
    Delta({t \in DOMAIN log : log[t].type \in types} \ Since(DOMAIN log, ts))

Whole == reader = "done" /\ ~torn

\* A report no commit came in between is exact for every sampled time that is
\* over: balances are "reconstructed exactly from current balances minus all
\* transaction deltas".
HistoryExact ==
    Whole => \A ts \in 0 .. now - 1 : Answer[ts] = BalanceAt({"spot"}, ts)

\* What such a report does follow, whatever was deposited, traded, withdrawn
\* and transferred before, within and after the reported time: the user's funds
\* in both types of wallets, less what is in funding by now.
HistoryFollowsTotal ==
    Whole =>
        \A ts \in 0 .. now - 1 :
            Answer[ts] + Delta({t \in seen : log[t].type = "funding"}) = BalanceAt(WalletType, ts)

\* A report a commit came in between is wrong by that commit and no more: what
\* the rows read explain of the balance differs from it by the rows the first
\* statement had not seen.
TornByOneRead ==
    reader = "done" =>
        \E late \in SUBSET seen :
            /\ torn \/ late = {}
            /\ \A t \in late, u \in seen \ late : u < t
            /\ read + Delta({t \in late : log[t].type = "spot"}) =
                   Delta({t \in seen : log[t].type = "spot"})
=============================================================================
