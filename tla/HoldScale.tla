----------------------------- MODULE HoldScale -----------------------------
(***************************************************************************)
(* The digits of a hold.  A request's quantity and price are floats turned *)
(* into exact decimals; _freeze_limit holds their exact product; the order *)
(* row keeps 8 decimal places of each (Numeric(30, 8)) and the wallet row  *)
(* 12 of its three columns (Numeric(40, 12)); a later fill or cancellation *)
(* works out the amount again from the order row.                          *)
(*                                                                         *)
(* One wallet and the orders that pay out of it, one request at a time.    *)
(* Quantities and prices are counted in grains of a request, amounts in    *)
(* products of two such grains.  The real ratios of the scales are powers  *)
(* of ten; only their order matters here: a request is finer than an order *)
(* column, the product of two order columns is finer than a wallet column. *)
(***************************************************************************)
EXTENDS Sums, FiniteSets

CONSTANTS
    ColumnUnit,  \* grains in the last digit of an order column
    WalletUnit,  \* amounts in the last digit of a wallet column
    Qty,         \* quantities of the requests
    Price,       \* prices of the requests; that of a sell's hold is 1.0
    MaxQty,      \* the largest quantity and the largest price that the
    MaxPrice,    \* columns of an order take
    Amount,      \* amounts of the deposits and withdrawals
    MaxOrders,   \* bound: orders placed
    MaxBalance,  \* bound: no deposit takes the wallet above it
    MaxLoose     \* bound: deposits and withdrawals that have to be rounded

ASSUME ScaleAssumption ==
    /\ ColumnUnit \in Nat \ {0}
    /\ WalletUnit \in Nat \ {0}
    /\ Amount \subseteq Nat \ {0}
    /\ MaxQty \in Nat /\ Qty \subseteq 1 .. MaxQty
    /\ MaxPrice \in Nat /\ Price \subseteq 1 .. MaxPrice
    /\ MaxOrders \in Nat
    /\ MaxBalance \in Nat
    /\ MaxLoose \in Nat

OrderId == 1 .. MaxOrders

VARIABLES
    wallet,  \* [balance, available, frozen], as stored
    order,   \* [OrderId -> [status, qty, price] as stored, or Unused]
    exact,   \* history: no request yet had digits the columns cannot hold
    loose    \* history: how many deposits and withdrawals had such digits

vars == <<wallet, order, exact, loose>>

Abs(n) == IF n < 0 THEN -n ELSE n

\* n to the nearest multiple of unit, halves away from zero, as PostgreSQL
\* rounds a numeric to the scale of its column.
Nearest(n, unit) ==
    LET up == unit * ((2 * Abs(n) + unit) \div (2 * unit))
    IN  IF n < 0 THEN -up ELSE up

OrderColumn(n) == Nearest(n, ColumnUnit)
\* Faulty: a wallet column with no digits after the point.
WalletColumnWide(n) == Nearest(n, 4 * WalletUnit)
WalletColumn(n) == Nearest(n, WalletUnit)

Store(balance, available, frozen) ==
    wallet' = [balance   |-> WalletColumn(balance),
               available |-> WalletColumn(available),
               frozen    |-> WalletColumn(frozen)]

Unused == [status |-> "none"]
IsOpen(o) == order[o].status = "open"

\* The amount worked out from a stored order row.
RowAmount(o) == order[o].qty * order[o].price

\* A deposit or a withdrawal of amt has been entered.
Entered(amt) ==
    /\ exact' = (exact /\ amt % WalletUnit = 0)
    /\ loose' = IF amt % WalletUnit = 0 THEN loose ELSE loose + 1
    /\ loose' <= MaxLoose

Insert(qty, price, status) ==
    /\ exact' = (exact /\ qty % ColumnUnit = 0 /\ price % ColumnUnit = 0
                       /\ (qty * price) % WalletUnit = 0)
    /\ \E o \in OrderId :
           /\ order[o] = Unused
           /\ order' = [order EXCEPT ![o] = [status |-> status, qty |-> OrderColumn(qty),
                                             price |-> OrderColumn(price)]]
    /\ UNCHANGED loose

-----------------------------------------------------------------------------
Init ==
    /\ wallet = [balance |-> 0, available |-> 0, frozen |-> 0]
    /\ order = [o \in OrderId |-> Unused]
    /\ exact = TRUE
    /\ loose = 0

\* credit
Deposit(amt) ==
    /\ wallet.balance + amt <= MaxBalance
    /\ Store(wallet.balance + amt, wallet.available + amt, wallet.frozen)
    /\ Entered(amt)
    /\ UNCHANGED order

\* debit
Withdraw(amt) ==
    /\ wallet.available >= amt
    /\ Store(wallet.balance - amt, wallet.available - amt, wallet.frozen)
    /\ Entered(amt)
    /\ UNCHANGED order

\* place_order of an order that stays open: the hold is the request's product.
PlaceOpen(qty, price) ==
    /\ wallet.available >= qty * price
    /\ Store(wallet.balance, wallet.available - qty * price, wallet.frozen + qty * price)
    /\ Insert(qty, price, "open")

\* place_order of an order its own sweep fills: the session still has the
\* request's digits in memory, in the order and in the wallet.
PlaceFilled(qty, price) ==
    /\ wallet.available >= qty * price
    /\ Store(wallet.balance - qty * price, wallet.available - qty * price, wallet.frozen)
    /\ Insert(qty, price, "filled")

\* Faulty: the hold stays after it was spent.
FillKeepsHold(o) ==
    /\ IsOpen(o)
    /\ Store(wallet.balance - RowAmount(o), wallet.available, wallet.frozen)
    /\ order' = [order EXCEPT ![o].status = "filled"]
    /\ UNCHANGED <<exact, loose>>
\* _execute_limit_fill in a later transaction.
Fill(o) ==
    /\ IsOpen(o)
    /\ Store(wallet.balance - RowAmount(o), wallet.available, wallet.frozen - RowAmount(o))
    /\ order' = [order EXCEPT ![o].status = "filled"]
    /\ UNCHANGED <<exact, loose>>

\* cancel_order and _unfreeze_limit.
Cancel(o) ==
    /\ IsOpen(o)
    /\ Store(wallet.balance, wallet.available + RowAmount(o), wallet.frozen - RowAmount(o))
    /\ order' = [order EXCEPT ![o].status = "cancelled"]
    /\ UNCHANGED <<exact, loose>>

Next ==
    \/ \E amt \in Amount : Deposit(amt) \/ Withdraw(amt)
    \/ \E qty \in Qty, price \in Price : PlaceOpen(qty, price) \/ PlaceFilled(qty, price)
    \/ \E o \in OrderId : Fill(o) \/ Cancel(o)

Spec == Init /\ [][Next]_vars

-----------------------------------------------------------------------------
\* For requests whose digits the columns hold, the stored balance is the stored
\* available part plus the stored frozen part, and with no order open nothing is
\* frozen: a fill or a cancellation releases the whole of what the placement held,
\* though it works the amount out again from the stored row.
ExactHolds ==
    exact =>
        /\ wallet.balance = wallet.available + wallet.frozen
        /\ (\A o \in OrderId : ~IsOpen(o)) => wallet.frozen = 0

\* How far one order can move the frozen amount away from what it releases:
\* half a digit of each order column, and half a digit of the wallet column
\* when it is held and when it is released.
Slack == (ColumnUnit * (MaxQty + MaxPrice + ColumnUnit)) \div 2 + WalletUnit

Placed == {o \in OrderId : order[o] # Unused}

\* What the open orders will release.
Held == Sum([o \in OrderId |-> IF IsOpen(o) THEN RowAmount(o) ELSE 0], MaxOrders)

\* The frozen amount is never further from what the open orders will release
\* than their roundings explain, and the three columns no further from their
\* sum than a digit for each order placed and closed and for each deposit or
\* withdrawal that had to be rounded: nothing else drifts.
DriftIsRounding ==
    /\ Abs(wallet.frozen - Held) <= Slack * Cardinality(Placed)
    /\ Abs(wallet.balance - wallet.available - wallet.frozen)
           <= WalletUnit * (2 * Cardinality(Placed) + loose)
=============================================================================
