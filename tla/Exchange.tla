------------------------------ MODULE Exchange ------------------------------
(***************************************************************************)
(* What the trading backend promises about its users' funds: every request *)
(* and every pass of the conditional-order monitor is one database         *)
(* transaction, seen here as a single step from one committed state to the *)
(* next (services/trading.py, services/wallet.py and the routers and the   *)
(* monitor that commit them).  TradingTx splits these steps into the row   *)
(* reads, row locks and writes the code really makes, and implements this  *)
(* module.                                                                 *)
(*                                                                         *)
(* A wallet row that does not exist yet reads as zeros: get_or_create_     *)
(* wallet inserts it with zeros on first use.  Quantities and prices are   *)
(* whole numbers here; the rounding of the real columns is the subject of  *)
(* HoldScale.                                                              *)
(***************************************************************************)
EXTENDS Integers, Sums

CONSTANTS
    User,       \* users
    Asset,      \* catalogue assets
    Pair,       \* active trading pairs
    BaseOf,     \* [Pair -> Asset]
    QuoteOf,    \* [Pair -> Asset]
    MaxOrders,  \* bound: order rows that can ever be created
    Qty,        \* order quantities offered
    Price,      \* order prices offered, and the prices a live look-up returns
    Amount,     \* amounts of a deposit, a withdrawal or a transfer
    Endowment,  \* [Wallet -> Nat], what past deposits left in the wallets
    MaxBalance  \* bound: no deposit takes a user's wallets of an asset above it

ASSUME ConstantsAssumption ==
    /\ MaxOrders \in Nat
    /\ MaxBalance \in Nat
    /\ Qty \subseteq Nat \ {0}
    /\ Price \subseteq Nat \ {0}
    /\ Amount \subseteq Nat \ {0}
    /\ BaseOf \in [Pair -> Asset]
    /\ QuoteOf \in [Pair -> Asset]
    /\ \A p \in Pair : BaseOf[p] # QuoteOf[p]

OrderId == 1 .. MaxOrders
WalletType == {"spot", "funding"}
Wallet == User \X Asset \X WalletType

ASSUME EndowmentAssumption == Endowment \in [Wallet -> Nat]

Spot(u, a) == <<u, a, "spot">>
Side == {"buy", "sell"}
RestingType == {"limit", "take_profit", "stop_loss"}
Status == {"open", "filled", "cancelled"}

VARIABLES
    wallet,  \* [Wallet -> [balance, available, frozen]]
    order,   \* [OrderId -> order row, or Unused]
    trades,  \* [OrderId -> number of Trade rows of the order]
    ledger   \* [Wallet -> sum of the Transaction deltas of the wallet]

vars == <<wallet, order, trades, ledger>>

WalletRow == [balance : Int, available : Int, frozen : Int]
OrderRow == [user : User, pair : Pair, side : Side,
             type : RestingType \cup {"market"},
             price : Price, qty : Qty, status : Status]
Unused == [status |-> "none"]

TypeOK ==
    /\ wallet \in [Wallet -> WalletRow]
    /\ order \in [OrderId -> OrderRow \cup {Unused}]
    /\ trades \in [OrderId -> Nat]
    /\ ledger \in [Wallet -> Int]

-----------------------------------------------------------------------------
(* An order pays out of one wallet, where its hold is kept, into another.  *)

PayWallet(t) ==
    IF t.side = "buy" THEN Spot(t.user, QuoteOf[t.pair]) ELSE Spot(t.user, BaseOf[t.pair])
GetWallet(t) ==
    IF t.side = "buy" THEN Spot(t.user, BaseOf[t.pair]) ELSE Spot(t.user, QuoteOf[t.pair])
PayAmount(t) == IF t.side = "buy" THEN t.qty * t.price ELSE t.qty
GetAmount(t) == IF t.side = "buy" THEN t.qty ELSE t.qty * t.price

\* What order row t pays out of, and into, wallet w when it is filled.
Paid(t, w) == IF PayWallet(t) = w THEN PayAmount(t) ELSE 0
Got(t, w) == IF GetWallet(t) = w THEN GetAmount(t) ELSE 0

\* Totals over the orders in F of the rows ord.
TotalPaid(ord, F, w) ==
    Sum([o \in OrderId |-> IF o \in F THEN Paid(ord[o], w) ELSE 0], MaxOrders)
TotalGot(ord, F, w) ==
    Sum([o \in OrderId |-> IF o \in F THEN Got(ord[o], w) ELSE 0], MaxOrders)

-----------------------------------------------------------------------------
(* When the live price lets a resting order execute.                       *)

Crossed(t, live) == IF t.side = "buy" THEN live <= t.price ELSE live >= t.price

ConditionalTriggered(t, live) ==
    IF (t.type = "take_profit") <=> (t.side = "sell")
    THEN live >= t.price
    ELSE live <= t.price

Triggered(t, live) ==
    IF t.type = "limit" THEN Crossed(t, live) ELSE ConditionalTriggered(t, live)

IsOpen(t) == t.status = "open"
Conditional(t) == t.type \in {"take_profit", "stop_loss"}

\* The orders a pass over the open orders of the users in us may fill.  Each
\* order is priced by a look-up of its own, and the look-ups of one pass need
\* not agree: any subset of these may be the one that is filled.
Fillable(ord, us) ==
    {o \in OrderId : /\ IsOpen(ord[o])
                     /\ ord[o].user \in us
                     /\ \E live \in Price : Triggered(ord[o], live)}

\* What row t holds of wallet w, and what all rows ord hold of it together.
Hold(t, w) == IF IsOpen(t) THEN Paid(t, w) ELSE 0
Held(ord, w) == Sum([o \in OrderId |-> Hold(ord[o], w)], MaxOrders)

-----------------------------------------------------------------------------
(* Effects on the tables, as functions of the tables.                      *)

\* Wallet w with its three columns changed by these amounts.
Move(wal, w, balance, available, frozen) ==
    [wal EXCEPT ![w] = [balance   |-> @.balance + balance,
                        available |-> @.available + available,
                        frozen    |-> @.frozen + frozen]]

\* Faulty: takes the hold out of available and keeps no record of it.
FreezeForgetsFrozen(wal, t) == Move(wal, PayWallet(t), 0, -PayAmount(t), 0)
Freeze(wal, t) == Move(wal, PayWallet(t), 0, -PayAmount(t), PayAmount(t))

\* Faulty: gives back the quantity, whatever the side.
UnfreezeQuantity(wal, t) == Move(wal, PayWallet(t), 0, t.qty, -t.qty)
Unfreeze(wal, t) == Move(wal, PayWallet(t), 0, PayAmount(t), -PayAmount(t))

\* One row of the ledger.
Enter(led, w, delta) == [led EXCEPT ![w] = @ + delta]

FillWallets(wal, ord, F) ==
    [w \in Wallet |->
        [balance   |-> wal[w].balance - TotalPaid(ord, F, w) + TotalGot(ord, F, w),
         available |-> wal[w].available + TotalGot(ord, F, w),
         frozen    |-> wal[w].frozen - TotalPaid(ord, F, w)]]

\* Faulty: only the paying leg is entered.
FillLedgerOneLeg(led, ord, F) == [w \in Wallet |-> led[w] - TotalPaid(ord, F, w)]
FillLedger(led, ord, F) ==
    [w \in Wallet |-> led[w] - TotalPaid(ord, F, w) + TotalGot(ord, F, w)]

\* Faulty: leaves filled orders in a status no other step handles.
FillOrdersPartially(ord, F) ==
    [o \in OrderId |-> IF o \in F THEN [ord[o] EXCEPT !.status = "partially_filled"]
                                   ELSE ord[o]]
FillOrders(ord, F) ==
    [o \in OrderId |-> IF o \in F THEN [ord[o] EXCEPT !.status = "filled"] ELSE ord[o]]

\* Faulty: no Trade row is written.
FillTradesNone(trd, F) == trd
FillTrades(trd, F) == [o \in OrderId |-> IF o \in F THEN trd[o] + 1 ELSE trd[o]]

\* _execute_limit_fill for every order of F, on the given tables.
FillAll(wal, ord, trd, led, F) ==
    /\ wallet' = FillWallets(wal, ord, F)
    /\ order' = FillOrders(ord, F)
    /\ trades' = FillTrades(trd, F)
    /\ ledger' = FillLedger(led, ord, F)

-----------------------------------------------------------------------------
Init ==
    /\ wallet = [w \in Wallet |->
                    [balance |-> Endowment[w], available |-> Endowment[w], frozen |-> 0]]
    /\ order = [o \in OrderId |-> Unused]
    /\ trades = [o \in OrderId |-> 0]
    /\ ledger = Endowment

\* POST /wallets/deposit, and the bonus of a new user.
Deposit(u, a, amt) ==
    LET w == Spot(u, a) IN
    /\ wallet[w].balance + wallet[<<u, a, "funding">>].balance + amt <= MaxBalance
    /\ wallet' = Move(wallet, w, amt, amt, 0)
    /\ ledger' = Enter(ledger, w, amt)
    /\ UNCHANGED <<order, trades>>

\* POST /wallets/withdraw: only what is available, never what is frozen.
Withdraw(u, a, amt) ==
    LET w == Spot(u, a) IN
    /\ wallet[w].available >= amt
    /\ wallet' = Move(wallet, w, -amt, -amt, 0)
    /\ ledger' = Enter(ledger, w, -amt)
    /\ UNCHANGED <<order, trades>>

\* POST /wallets/transfer between a user's wallets of different types.
Transfer(u, a, from, to, amt) ==
    LET f == <<u, a, from>>
        t == <<u, a, to>>
    IN  /\ from # to
        /\ wallet[f].available >= amt
        /\ wallet' = Move(Move(wallet, f, -amt, -amt, 0), t, amt, amt, 0)
        /\ ledger' = Enter(Enter(ledger, f, -amt), t, amt)
        /\ UNCHANGED <<order, trades>>

\* POST /orders with a limit, take_profit or stop_loss order: freeze the hold,
\* insert the row, then run both passes over the user's open orders, of which
\* the new one is one.
PlaceResting(u, p, side, type, qty, price) ==
    \E o \in OrderId :
        LET t == [user |-> u, pair |-> p, side |-> side, type |-> type,
                  price |-> price, qty |-> qty, status |-> "open"]
            ord == [order EXCEPT ![o] = t]
        IN  /\ order[o] = Unused
            /\ wallet[PayWallet(t)].available >= PayAmount(t)
            /\ \E F \in SUBSET Fillable(ord, {u}) :
                   FillAll(Freeze(wallet, t), ord, trades, ledger, F)

SettleMarket(wal, t) ==
    Move(Move(wal, PayWallet(t), -PayAmount(t), -PayAmount(t), 0),
         GetWallet(t), GetAmount(t), GetAmount(t), 0)

\* POST /orders with a market order: settle at the live price, then run both
\* passes over the user's open orders.
PlaceMarket(u, p, side, qty, live) ==
    \E o \in OrderId :
        LET t == [user |-> u, pair |-> p, side |-> side, type |-> "market",
                  price |-> live, qty |-> qty, status |-> "filled"]
            ord == [order EXCEPT ![o] = t]
        IN  /\ order[o] = Unused
            /\ wallet[PayWallet(t)].available >= PayAmount(t)
            /\ \E F \in SUBSET Fillable(ord, {u}) :
                   FillAll(SettleMarket(wallet, t), ord,
                           [trades EXCEPT ![o] = 1],
                           Enter(Enter(ledger, PayWallet(t), -PayAmount(t)),
                                 GetWallet(t), GetAmount(t)),
                           F)

\* Faulty: cancels an order that is no longer open.
CancelAnyStatus(o) ==
    /\ order[o] # Unused
    /\ wallet' = Unfreeze(wallet, order[o])
    /\ order' = [order EXCEPT ![o].status = "cancelled"]
    /\ UNCHANGED <<trades, ledger>>

\* POST /orders/{id}/cancel.
Cancel(o) ==
    /\ IsOpen(order[o])
    /\ wallet' = Unfreeze(wallet, order[o])
    /\ order' = [order EXCEPT ![o].status = "cancelled"]
    /\ UNCHANGED <<trades, ledger>>

\* One pass of _conditional_monitor_loop or of the run_conditional_orders
\* task, over the take-profit and stop-loss orders of every user.
Monitor ==
    \E F \in SUBSET {o \in Fillable(order, User) : Conditional(order[o])} :
        /\ F # {}
        /\ FillAll(wallet, order, trades, ledger, F)

Next ==
    \/ \E u \in User, a \in Asset, amt \in Amount : Deposit(u, a, amt)
    \/ \E u \in User, a \in Asset, amt \in Amount : Withdraw(u, a, amt)
    \/ \E u \in User, a \in Asset, from, to \in WalletType, amt \in Amount :
           Transfer(u, a, from, to, amt)
    \/ \E u \in User, p \in Pair, side \in Side, type \in RestingType,
          qty \in Qty, price \in Price : PlaceResting(u, p, side, type, qty, price)
    \/ \E u \in User, p \in Pair, side \in Side, qty \in Qty, live \in Price :
           PlaceMarket(u, p, side, qty, live)
    \/ \E o \in OrderId : Cancel(o)
    \/ Monitor

Spec == Init /\ [][Next]_vars

-----------------------------------------------------------------------------
\* A wallet's balance is its available part plus its frozen part, and neither
\* part is ever negative, whatever placements, fills and cancellations its
\* owner and the monitor commit (_freeze_limit, _unfreeze_limit and
\* _execute_limit_fill check nothing once the hold is taken).
Solvent ==
    \A w \in Wallet :
        /\ wallet[w].balance = wallet[w].available + wallet[w].frozen
        /\ wallet[w].available >= 0
        /\ wallet[w].frozen >= 0

\* What is frozen in a wallet is exactly what the open orders paid from it
\* hold: no fill or cancellation releases too much, too little or twice.
FrozenIsHeld == \A w \in Wallet : wallet[w].frozen = Held(order, w)

\* The ledger explains every balance: the deltas of a wallet's Transaction
\* rows add up to its balance.
LedgerExplainsBalance == \A w \in Wallet : ledger[w] = wallet[w].balance

\* A filled order has exactly one Trade row; an order that is open or
\* cancelled has none.
OneTradePerFill ==
    \A o \in OrderId : trades[o] = IF order[o].status = "filled" THEN 1 ELSE 0

\* A filled or cancelled order row never changes again.
ClosedIsFinal ==
    [][\A o \in OrderId :
          order[o].status \in {"filled", "cancelled"} => order'[o] = order[o]]_vars

\* The wallets as accounts of their owners: what is available is free, the open
\* orders are the holds, and the ledger has the movements.
HeldBy(ord) == [w \in Wallet |-> [o \in OrderId |-> Hold(ord[o], w)]]

Account == INSTANCE Escrow WITH
    Owned   <- Wallet,
    N       <- MaxOrders,
    free    <- [w \in Wallet |-> wallet[w].available],
    held    <- HeldBy(order),
    entered <- ledger

\* Every wallet keeps the promises of an escrow account, request by request: a
\* placement sets its hold aside from funds that are free, each hold ends as a
\* whole with its order, and free funds and holds add up to what was entered.
KeepsEscrow == Account!EscrowSpec
=============================================================================
