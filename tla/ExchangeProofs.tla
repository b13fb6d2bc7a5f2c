--------------------------- MODULE ExchangeProofs ---------------------------
(***************************************************************************)
(* Exchange keeps its users' funds, for any users, assets, pairs and       *)
(* bounds.  The tables are Consistent in every state; the proof follows    *)
(* the code's own structure: placing an order first takes the hold, then   *)
(* fills a batch of open orders, and each half keeps the tables            *)
(* Consistent (Insertion and Filling below).                               *)
(***************************************************************************)
EXTENDS Exchange, SumsProofs

Tables(wal, ord, trd, led) ==
    /\ wal \in [Wallet -> WalletRow]
    /\ ord \in [OrderId -> OrderRow \cup {Unused}]
    /\ trd \in [OrderId -> Nat]
    /\ led \in [Wallet -> Int]

\* The inductive invariant, of any tables.  available >= 0 is inductive with
\* the rest; frozen >= 0 is not by itself, it follows from frozen being a sum
\* of holds.
Consistent(wal, ord, trd, led) ==
    /\ Tables(wal, ord, trd, led)
    /\ \A w \in Wallet : /\ wal[w].balance = wal[w].available + wal[w].frozen
                         /\ wal[w].available >= 0
                         /\ wal[w].frozen = Held(ord, w)
                         /\ led[w] = wal[w].balance
    /\ \A o \in OrderId : trd[o] = IF ord[o].status = "filled" THEN 1 ELSE 0

IInv == Consistent(wallet, order, trades, ledger)

-----------------------------------------------------------------------------
LEMMA NatProduct == \A m, n \in Nat : m * n \in Nat
OBVIOUS

\* An order pays a natural amount out of one wallet and gets a natural amount
\* into another one.
LEMMA TermsTypes ==
    ASSUME NEW t \in OrderRow
    PROVE  /\ PayWallet(t) \in Wallet /\ GetWallet(t) \in Wallet
           /\ PayWallet(t) # GetWallet(t)
           /\ PayAmount(t) \in Nat /\ GetAmount(t) \in Nat
           /\ \A w \in Wallet : Paid(t, w) \in Nat /\ Got(t, w) \in Nat
<1>1. /\ t.user \in User /\ BaseOf[t.pair] \in Asset /\ QuoteOf[t.pair] \in Asset
      /\ BaseOf[t.pair] # QuoteOf[t.pair] /\ t.qty \in Nat /\ t.price \in Nat
  BY ConstantsAssumption DEF OrderRow
<1>2. t.qty * t.price \in Nat
  BY <1>1, NatProduct
<1>3. PayAmount(t) \in Nat /\ GetAmount(t) \in Nat
  BY <1>1, <1>2 DEF PayAmount, GetAmount
<1>4. /\ PayWallet(t) \in Wallet /\ GetWallet(t) \in Wallet
      /\ PayWallet(t) # GetWallet(t)
  BY <1>1 DEF PayWallet, GetWallet, Wallet, Spot, WalletType
<1> QED BY <1>3, <1>4 DEF Paid, Got

LEMMA HoldType ==
    ASSUME NEW t \in OrderRow \cup {Unused}, NEW w \in Wallet
    PROVE  Hold(t, w) \in Nat
<1>1. CASE t = Unused
  BY <1>1 DEF Hold, IsOpen, Unused
<1>2. CASE t \in OrderRow
  BY <1>2, TermsTypes DEF Hold
<1> QED BY <1>1, <1>2

LEMMA HeldType ==
    ASSUME NEW ord \in [OrderId -> OrderRow \cup {Unused}], NEW w \in Wallet
    PROVE  Held(ord, w) \in Nat
<1> DEFINE f == [o \in OrderId |-> Hold(ord[o], w)]
<1>1. f \in [1 .. MaxOrders -> Nat]
  BY HoldType DEF OrderId
<1> HIDE DEF f
<1>2. Sum(f, MaxOrders) \in Nat
  BY <1>1, SumNonNegative, ConstantsAssumption
<1> QED BY <1>2 DEF Held, f

\* Open rows are order rows.
LEMMA OpenRow ==
    ASSUME NEW ord \in [OrderId -> OrderRow \cup {Unused}], NEW o \in OrderId,
           IsOpen(ord[o])
    PROVE  ord[o] \in OrderRow /\ ord[o] # Unused
BY DEF IsOpen, Unused

LEMMA TotalTypes ==
    ASSUME NEW ord \in [OrderId -> OrderRow \cup {Unused}], NEW w \in Wallet,
           NEW F \in SUBSET {o \in OrderId : IsOpen(ord[o])}
    PROVE  TotalPaid(ord, F, w) \in Nat /\ TotalGot(ord, F, w) \in Nat
<1> DEFINE p == [o \in OrderId |-> IF o \in F THEN Paid(ord[o], w) ELSE 0]
           g == [o \in OrderId |-> IF o \in F THEN Got(ord[o], w) ELSE 0]
<1>1. \A o \in F : Paid(ord[o], w) \in Nat /\ Got(ord[o], w) \in Nat
  BY OpenRow, TermsTypes
<1>2. p \in [1 .. MaxOrders -> Nat] /\ g \in [1 .. MaxOrders -> Nat]
  BY <1>1 DEF OrderId
<1> HIDE DEF p, g
<1>3. Sum(p, MaxOrders) \in Nat
  BY <1>2, SumNonNegative, ConstantsAssumption
<1>4. Sum(g, MaxOrders) \in Nat
  BY <1>2, SumNonNegative, ConstantsAssumption
<1> QED BY <1>3, <1>4 DEF TotalPaid, TotalGot, p, g

\* Changing one row changes what is held by what that row holds.
LEMMA HeldUpdate ==
    ASSUME NEW ord \in [OrderId -> OrderRow \cup {Unused}], NEW w \in Wallet,
           NEW new \in [OrderId -> OrderRow \cup {Unused}], NEW k \in OrderId,
           \A i \in OrderId : i # k => new[i] = ord[i]
    PROVE  Held(new, w) = Held(ord, w) - Hold(ord[k], w) + Hold(new[k], w)
<1> DEFINE before == [o \in OrderId |-> Hold(ord[o], w)]
           after == [o \in OrderId |-> Hold(new[o], w)]
           diff == [o \in OrderId |-> IF o = k THEN Hold(new[k], w) - Hold(ord[k], w) ELSE 0]
<1>1. \A o \in OrderId : Hold(ord[o], w) \in Nat /\ Hold(new[o], w) \in Nat
  BY HoldType
<1>2. /\ before \in [1 .. MaxOrders -> Int]
      /\ diff \in [1 .. MaxOrders -> Int]
      /\ after \in [1 .. MaxOrders -> Int]
  BY <1>1 DEF OrderId
<1>3. \A o \in 1 .. MaxOrders : after[o] = before[o] + diff[o]
  BY <1>1 DEF OrderId
<1>4. k \in 1 .. MaxOrders /\ (\A o \in 1 .. MaxOrders : o # k => diff[o] = 0)
  BY DEF OrderId
<1>5. diff[k] = Hold(new[k], w) - Hold(ord[k], w)
  OBVIOUS
<1>6. Sum(before, MaxOrders) = Held(ord, w) /\ Sum(after, MaxOrders) = Held(new, w)
  BY DEF Held
<1> HIDE DEF before, after, diff
<1>7. MaxOrders \in Nat
  BY ConstantsAssumption
<1>8. Sum(after, MaxOrders) = Sum(before, MaxOrders) + Sum(diff, MaxOrders)
  BY <1>2, <1>3, <1>7, SumAdd
<1>9. Sum(diff, MaxOrders) = diff[k]
  BY <1>2, <1>4, <1>7, SumPoint
<1>10. Held(ord, w) \in Int
  BY HeldType
<1> QED BY <1>1, <1>5, <1>6, <1>8, <1>9, <1>10

\* Filling open orders releases exactly what they pay.
LEMMA HeldFill ==
    ASSUME NEW ord \in [OrderId -> OrderRow \cup {Unused}], NEW w \in Wallet,
           NEW F \in SUBSET {o \in OrderId : IsOpen(ord[o])}
    PROVE  Held(FillOrders(ord, F), w) = Held(ord, w) - TotalPaid(ord, F, w)
<1> DEFINE before == [o \in OrderId |-> Hold(ord[o], w)]
           after == [o \in OrderId |-> Hold(FillOrders(ord, F)[o], w)]
           paid == [o \in OrderId |-> IF o \in F THEN Paid(ord[o], w) ELSE 0]
<1>1. ASSUME NEW o \in OrderId
      PROVE  before[o] = after[o] + paid[o] /\ after[o] \in Int /\ paid[o] \in Int
             /\ before[o] \in Int
  <2>1. CASE o \in F
    <3>1. IsOpen(ord[o]) /\ ord[o] \in OrderRow
      BY <2>1, OpenRow
    <3>2. FillOrders(ord, F)[o].status = "filled"
      BY <2>1, <3>1 DEF FillOrders, OrderRow
    <3>3. after[o] = 0
      BY <3>2 DEF Hold, IsOpen
    <3>4. before[o] = Paid(ord[o], w) /\ Paid(ord[o], w) \in Nat
      BY <3>1, TermsTypes DEF Hold
    <3> QED BY <2>1, <3>3, <3>4
  <2>2. CASE o \notin F
    <3>1. after[o] = before[o] /\ paid[o] = 0
      BY <2>2 DEF FillOrders
    <3>2. before[o] \in Nat
      BY HoldType
    <3> QED BY <3>1, <3>2
  <2> QED BY <2>1, <2>2
<1>2. /\ before \in [1 .. MaxOrders -> Int]
      /\ after \in [1 .. MaxOrders -> Int]
      /\ paid \in [1 .. MaxOrders -> Int]
  <2>1. \A o \in OrderId : before[o] \in Int /\ after[o] \in Int /\ paid[o] \in Int
    BY <1>1
  <2> QED BY <2>1 DEF OrderId
<1>3. \A o \in 1 .. MaxOrders : before[o] = after[o] + paid[o]
  BY <1>1 DEF OrderId
<1>4. /\ Sum(before, MaxOrders) = Held(ord, w)
      /\ Sum(after, MaxOrders) = Held(FillOrders(ord, F), w)
      /\ Sum(paid, MaxOrders) = TotalPaid(ord, F, w)
  BY DEF Held, TotalPaid
<1> HIDE DEF before, after, paid
<1>5. Sum(before, MaxOrders) = Sum(after, MaxOrders) + Sum(paid, MaxOrders)
  BY <1>2, <1>3, SumAdd, ConstantsAssumption
<1>6. Sum(after, MaxOrders) \in Int
  BY <1>2, SumType, ConstantsAssumption
<1>7. Sum(paid, MaxOrders) \in Int
  BY <1>2, SumType, ConstantsAssumption
<1> QED BY <1>4, <1>5, <1>6, <1>7

-----------------------------------------------------------------------------
\* Filling any batch of open orders keeps the tables consistent
\* (_sweep_open_orders, check_conditional_orders).
LEMMA Filling ==
    ASSUME NEW wal, NEW ord, NEW trd, NEW led, Consistent(wal, ord, trd, led),
           NEW F \in SUBSET {o \in OrderId : IsOpen(ord[o])}
    PROVE  Consistent(FillWallets(wal, ord, F), FillOrders(ord, F),
                      FillTrades(trd, F), FillLedger(led, ord, F))
<1> USE DEF Tables
<1>1. ASSUME NEW w \in Wallet
      PROVE  /\ wal[w].balance \in Int /\ wal[w].available \in Int
             /\ wal[w].frozen \in Int /\ led[w] \in Int
             /\ TotalPaid(ord, F, w) \in Nat /\ TotalGot(ord, F, w) \in Nat
  BY TotalTypes DEF Consistent, WalletRow
<1>2. ASSUME NEW o \in OrderId
      PROVE  /\ FillOrders(ord, F)[o] \in OrderRow \cup {Unused}
             /\ FillOrders(ord, F)[o].status =
                    IF o \in F THEN "filled" ELSE ord[o].status
  <2>1. CASE o \in F
    <3>1. ord[o] \in OrderRow
      BY <2>1, OpenRow DEF Consistent
    <3> QED BY <2>1, <3>1 DEF FillOrders, OrderRow, Status
  <2>2. CASE o \notin F
    BY <2>2 DEF FillOrders, Consistent
  <2> QED BY <2>1, <2>2
<1>3. FillOrders(ord, F) \in [OrderId -> OrderRow \cup {Unused}]
  <2>1. FillOrders(ord, F) = [o \in OrderId |-> FillOrders(ord, F)[o]]
    BY DEF FillOrders
  <2> QED BY <1>2, <2>1
<1>4. FillWallets(wal, ord, F) \in [Wallet -> WalletRow]
  BY <1>1 DEF FillWallets, WalletRow
<1>5. FillLedger(led, ord, F) \in [Wallet -> Int]
  BY <1>1 DEF FillLedger
<1>6. FillTrades(trd, F) \in [OrderId -> Nat]
  BY DEF FillTrades, Consistent
<1>7. ASSUME NEW w \in Wallet
      PROVE  LET row == FillWallets(wal, ord, F)[w] IN
             /\ row.balance = row.available + row.frozen
             /\ row.available >= 0
             /\ row.frozen = Held(FillOrders(ord, F), w)
             /\ FillLedger(led, ord, F)[w] = row.balance
  <2>1. /\ wal[w].balance = wal[w].available + wal[w].frozen
        /\ wal[w].available >= 0
        /\ wal[w].frozen = Held(ord, w)
        /\ led[w] = wal[w].balance
    BY DEF Consistent
  <2>2. Held(FillOrders(ord, F), w) = Held(ord, w) - TotalPaid(ord, F, w)
    BY HeldFill DEF Consistent
  <2> QED BY <1>1, <2>1, <2>2 DEF FillWallets, FillLedger
<1>8. ASSUME NEW o \in OrderId
      PROVE  FillTrades(trd, F)[o] =
                 IF FillOrders(ord, F)[o].status = "filled" THEN 1 ELSE 0
  <2>1. trd[o] = IF ord[o].status = "filled" THEN 1 ELSE 0
    BY DEF Consistent
  <2>2. o \in F => ord[o].status = "open"
    BY DEF IsOpen
  <2> QED BY <1>2, <2>1, <2>2 DEF FillTrades
<1> QED BY <1>3, <1>4, <1>5, <1>6, <1>7, <1>8 DEF Consistent

\* The facts an action's proof starts from.
LEMMA InvFacts ==
    ASSUME IInv
    PROVE  /\ wallet \in [Wallet -> WalletRow]
           /\ order \in [OrderId -> OrderRow \cup {Unused}]
           /\ trades \in [OrderId -> Nat]
           /\ ledger \in [Wallet -> Int]
           /\ \A w \in Wallet :
                  /\ wallet[w].balance \in Int /\ wallet[w].available \in Int
                  /\ wallet[w].frozen \in Int
                  /\ wallet[w].balance = wallet[w].available + wallet[w].frozen
                  /\ wallet[w].available >= 0
                  /\ wallet[w].frozen = Held(order, w)
                  /\ ledger[w] = wallet[w].balance
           /\ \A o \in OrderId :
                  trades[o] = IF order[o].status = "filled" THEN 1 ELSE 0
<1>1. \A row \in WalletRow : row.balance \in Int /\ row.available \in Int /\ row.frozen \in Int
  BY DEF WalletRow
<1> QED BY <1>1 DEF IInv, Consistent, Tables

LEMMA MoveRows ==
    ASSUME NEW wal \in [Wallet -> WalletRow], NEW w \in Wallet,
           NEW b \in Int, NEW a \in Int, NEW f \in Int
    PROVE  /\ Move(wal, w, b, a, f) \in [Wallet -> WalletRow]
           /\ Move(wal, w, b, a, f)[w].balance = wal[w].balance + b
           /\ Move(wal, w, b, a, f)[w].available = wal[w].available + a
           /\ Move(wal, w, b, a, f)[w].frozen = wal[w].frozen + f
           /\ \A v \in Wallet : v # w => Move(wal, w, b, a, f)[v] = wal[v]
<1>1. wal[w].balance \in Int /\ wal[w].available \in Int /\ wal[w].frozen \in Int
  BY DEF WalletRow
<1>2. [balance   |-> wal[w].balance + b,
       available |-> wal[w].available + a,
       frozen    |-> wal[w].frozen + f] \in WalletRow
  BY <1>1 DEF WalletRow
<1> QED BY <1>2 DEF Move

LEMMA EnterRows ==
    ASSUME NEW led \in [Wallet -> Int], NEW w \in Wallet, NEW d \in Int
    PROVE  /\ Enter(led, w, d) \in [Wallet -> Int]
           /\ Enter(led, w, d)[w] = led[w] + d
           /\ \A v \in Wallet : v # w => Enter(led, w, d)[v] = led[v]
BY DEF Enter

\* A move that changes balance and available alike, entered in the ledger,
\* keeps the tables consistent (credit, debit, and the halves of transfer).
LEMMA Booking ==
    ASSUME NEW wal, NEW ord, NEW trd, NEW led, Consistent(wal, ord, trd, led),
           NEW w \in Wallet, NEW d \in Int, wal[w].available + d >= 0
    PROVE  Consistent(Move(wal, w, d, d, 0), ord, trd, Enter(led, w, d))
<1>1. wal \in [Wallet -> WalletRow] /\ led \in [Wallet -> Int]
  BY DEF Consistent, Tables
<1> DEFINE new == Move(wal, w, d, d, 0)
           entered == Enter(led, w, d)
<1>2. /\ new \in [Wallet -> WalletRow]
      /\ new[w].balance = wal[w].balance + d
      /\ new[w].available = wal[w].available + d
      /\ new[w].frozen = wal[w].frozen + 0
      /\ \A v \in Wallet : v # w => new[v] = wal[v]
  BY <1>1, MoveRows
<1>3. /\ entered \in [Wallet -> Int]
      /\ entered[w] = led[w] + d
      /\ \A v \in Wallet : v # w => entered[v] = led[v]
  BY <1>1, EnterRows
<1> HIDE DEF new, entered
<1>4. ASSUME NEW v \in Wallet
      PROVE  /\ new[v].balance = new[v].available + new[v].frozen
             /\ new[v].available >= 0
             /\ new[v].frozen = Held(ord, v)
             /\ entered[v] = new[v].balance
  <2>1. /\ wal[v].balance = wal[v].available + wal[v].frozen
        /\ wal[v].available >= 0
        /\ wal[v].frozen = Held(ord, v)
        /\ led[v] = wal[v].balance
    BY DEF Consistent
  <2>2. wal[v].balance \in Int /\ wal[v].available \in Int /\ wal[v].frozen \in Int
    BY <1>1 DEF WalletRow
  <2>3. CASE v = w
    BY <1>2, <1>3, <2>1, <2>2, <2>3
  <2>4. CASE v # w
    BY <1>2, <1>3, <2>1, <2>4
  <2> QED BY <2>3, <2>4
<1>5. Consistent(new, ord, trd, entered)
  BY <1>2, <1>3, <1>4 DEF Consistent, Tables
<1> QED BY <1>5 DEF new, entered

\* Replacing the row of an order that is not filled, and moving the change of
\* its hold between the available and the frozen part of the wallet it is kept
\* in, keeps the tables consistent (_freeze_limit, _unfreeze_limit).
LEMMA Reholding ==
    ASSUME NEW wal, NEW ord, NEW trd, NEW led, Consistent(wal, ord, trd, led),
           NEW k \in OrderId, NEW t \in OrderRow,
           ord[k].status # "filled", t.status # "filled",
           NEW p \in Wallet, NEW d \in Int, wal[p].available - d >= 0,
           \A w \in Wallet : Hold(t, w) = Hold(ord[k], w) + (IF w = p THEN d ELSE 0)
    PROVE  Consistent(Move(wal, p, 0, -d, d), [ord EXCEPT ![k] = t], trd, led)
<1> DEFINE new == Move(wal, p, 0, -d, d)
           rows == [ord EXCEPT ![k] = t]
<1>1. /\ wal \in [Wallet -> WalletRow]
      /\ ord \in [OrderId -> OrderRow \cup {Unused}]
      /\ rows \in [OrderId -> OrderRow \cup {Unused}]
  BY DEF Consistent, Tables
<1>2. /\ new \in [Wallet -> WalletRow]
      /\ new[p].balance = wal[p].balance + 0
      /\ new[p].available = wal[p].available + (-d)
      /\ new[p].frozen = wal[p].frozen + d
      /\ \A v \in Wallet : v # p => new[v] = wal[v]
  BY <1>1, MoveRows
<1>3. ASSUME NEW w \in Wallet
      PROVE  Held(rows, w) = Held(ord, w) + (IF w = p THEN d ELSE 0)
  <2>1. ord[k] \in OrderRow \cup {Unused} /\ t \in OrderRow \cup {Unused}
    BY <1>1
  <2>2. Held(rows, w) = Held(ord, w) - Hold(ord[k], w) + Hold(t, w)
    <3>1. rows[k] = t /\ \A i \in OrderId : i # k => rows[i] = ord[i]
      BY <1>1
    <3> HIDE DEF rows
    <3> QED BY <1>1, <3>1, HeldUpdate
  <2>3. Held(ord, w) \in Int
    BY <1>1, HeldType
  <2>4. Hold(ord[k], w) \in Int
    BY <2>1, HoldType
  <2> QED BY <2>2, <2>3, <2>4
<1>4. \A o \in OrderId : trd[o] = IF rows[o].status = "filled" THEN 1 ELSE 0
  BY <1>1 DEF Consistent
<1> HIDE DEF new, rows
<1>5. ASSUME NEW v \in Wallet
      PROVE  /\ new[v].balance = new[v].available + new[v].frozen
             /\ new[v].available >= 0
             /\ new[v].frozen = Held(rows, v)
             /\ led[v] = new[v].balance
  <2>1. /\ wal[v].balance = wal[v].available + wal[v].frozen
        /\ wal[v].available >= 0
        /\ wal[v].frozen = Held(ord, v)
        /\ led[v] = wal[v].balance
    BY DEF Consistent
  <2>2. wal[v].balance \in Int /\ wal[v].available \in Int /\ wal[v].frozen \in Int
    BY <1>1 DEF WalletRow
  <2>3. CASE v = p
    BY <1>2, <1>3, <2>1, <2>2, <2>3
  <2>4. CASE v # p
    BY <1>2, <1>3, <2>1, <2>2, <2>4
  <2> QED BY <2>3, <2>4
<1>6. Consistent(new, rows, trd, led)
  BY <1>1, <1>2, <1>4, <1>5 DEF Consistent, Tables
<1> QED BY <1>6 DEF new, rows

\* Inserting the row of an order that is filled at once, with its Trade row,
\* holds nothing (_place_market).
LEMMA InsertFilled ==
    ASSUME NEW wal, NEW ord, NEW trd, NEW led, Consistent(wal, ord, trd, led),
           NEW k \in OrderId, ord[k] = Unused, NEW t \in OrderRow, t.status = "filled"
    PROVE  Consistent(wal, [ord EXCEPT ![k] = t], [trd EXCEPT ![k] = 1], led)
<1> DEFINE rows == [ord EXCEPT ![k] = t]
<1>1. /\ ord \in [OrderId -> OrderRow \cup {Unused}]
      /\ rows \in [OrderId -> OrderRow \cup {Unused}]
      /\ [trd EXCEPT ![k] = 1] \in [OrderId -> Nat]
  BY DEF Consistent, Tables
<1>2. ASSUME NEW w \in Wallet
      PROVE  Held(rows, w) = Held(ord, w)
  <2>1. rows[k] = t /\ \A i \in OrderId : i # k => rows[i] = ord[i]
    BY <1>1
  <2>2. Hold(ord[k], w) = 0 /\ Hold(t, w) = 0
    BY DEF Hold, IsOpen, Unused
  <2> HIDE DEF rows
  <2>4. Held(rows, w) = Held(ord, w) - Hold(ord[k], w) + Hold(t, w)
    BY <1>1, <2>1, HeldUpdate
  <2>3. Held(ord, w) \in Int
    BY <1>1, HeldType
  <2> QED BY <2>2, <2>3, <2>4
<1>3. \A o \in OrderId :
          [trd EXCEPT ![k] = 1][o] = IF rows[o].status = "filled" THEN 1 ELSE 0
  BY <1>1 DEF Consistent, Tables
<1> HIDE DEF rows
<1>4. Consistent(wal, rows, [trd EXCEPT ![k] = 1], led)
  BY <1>1, <1>2, <1>3 DEF Consistent, Tables
<1> QED BY <1>4 DEF rows

-----------------------------------------------------------------------------
LEMMA InitInv == Init => IInv
<1> SUFFICES ASSUME Init PROVE IInv
  OBVIOUS
<1>1. /\ wallet \in [Wallet -> WalletRow] /\ ledger \in [Wallet -> Int]
      /\ order \in [OrderId -> OrderRow \cup {Unused}] /\ trades \in [OrderId -> Nat]
  BY EndowmentAssumption DEF Init, WalletRow
<1>2. ASSUME NEW w \in Wallet
      PROVE  Held(order, w) = 0
  <2> DEFINE f == [o \in OrderId |-> Hold(order[o], w)]
  <2>1. f \in [1 .. MaxOrders -> Int] /\ \A i \in 1 .. MaxOrders : f[i] = 0
    BY DEF Init, OrderId, Hold, IsOpen, Unused
  <2> HIDE DEF f
  <2>2. MaxOrders \in Nat
    BY ConstantsAssumption
  <2>3. Sum(f, MaxOrders) = 0
    BY <2>1, <2>2, SumZero
  <2> QED BY <2>3 DEF Held, f
<1>3. \A w \in Wallet : /\ wallet[w].balance = Endowment[w] /\ Endowment[w] \in Nat
                        /\ wallet[w].available = Endowment[w]
                        /\ wallet[w].frozen = 0 /\ ledger[w] = Endowment[w]
  BY EndowmentAssumption DEF Init
<1>4. \A o \in OrderId : trades[o] = 0 /\ order[o].status = "none"
  BY DEF Init, Unused
<1> QED BY <1>1, <1>2, <1>3, <1>4 DEF IInv, Consistent, Tables

\* Filled orders are open ones of the tables they are filled in.
LEMMA FillableOpen ==
    ASSUME NEW ord, NEW us
    PROVE  Fillable(ord, us) \subseteq {o \in OrderId : IsOpen(ord[o])}
BY DEF Fillable

LEMMA DepositInv ==
    ASSUME IInv, NEW u \in User, NEW a \in Asset, NEW amt \in Amount, Deposit(u, a, amt)
    PROVE  IInv'
<1>1. Spot(u, a) \in Wallet /\ amt \in Nat
  BY ConstantsAssumption DEF Spot, Wallet, WalletType
<1>2. wallet[Spot(u, a)].available + amt >= 0
  BY <1>1, InvFacts
<1>3. Consistent(Move(wallet, Spot(u, a), amt, amt, 0), order, trades,
                 Enter(ledger, Spot(u, a), amt))
  BY <1>1, <1>2, Booking DEF IInv
<1> QED BY <1>3 DEF Deposit, IInv

LEMMA WithdrawInv ==
    ASSUME IInv, NEW u \in User, NEW a \in Asset, NEW amt \in Amount, Withdraw(u, a, amt)
    PROVE  IInv'
<1>1. Spot(u, a) \in Wallet /\ amt \in Nat
  BY ConstantsAssumption DEF Spot, Wallet, WalletType
<1>2. -amt \in Int /\ wallet[Spot(u, a)].available + (-amt) >= 0
  BY <1>1, InvFacts DEF Withdraw
<1>3. Consistent(Move(wallet, Spot(u, a), -amt, -amt, 0), order, trades,
                 Enter(ledger, Spot(u, a), -amt))
  BY <1>1, <1>2, Booking DEF IInv
<1> QED BY <1>3 DEF Withdraw, IInv

LEMMA TransferInv ==
    ASSUME IInv, NEW u \in User, NEW a \in Asset, NEW from \in WalletType,
           NEW to \in WalletType, NEW amt \in Amount, Transfer(u, a, from, to, amt)
    PROVE  IInv'
<1> DEFINE f == <<u, a, from>>
           t == <<u, a, to>>
           half == Move(wallet, f, -amt, -amt, 0)
           entered == Enter(ledger, f, -amt)
<1>1. f \in Wallet /\ t \in Wallet /\ f # t /\ amt \in Nat /\ -amt \in Int
  BY ConstantsAssumption DEF Wallet, Transfer
<1>2. wallet[f].available + (-amt) >= 0
  BY <1>1, InvFacts DEF Transfer
<1>3. /\ wallet' = Move(half, t, amt, amt, 0)
      /\ ledger' = Enter(entered, t, amt)
      /\ order' = order /\ trades' = trades
  BY DEF Transfer
<1> HIDE DEF f, t
<1>4. Consistent(half, order, trades, entered)
  BY <1>1, <1>2, Booking DEF IInv
<1>5. half[t].available = wallet[t].available
  BY <1>1, InvFacts, MoveRows
<1>6. half[t].available + amt >= 0
  BY <1>1, <1>5, InvFacts
<1> HIDE DEF half, entered
<1>7. Consistent(Move(half, t, amt, amt, 0), order, trades, Enter(entered, t, amt))
  BY <1>1, <1>4, <1>6, Booking
<1> QED BY <1>3, <1>7 DEF IInv

LEMMA PlaceRestingInv ==
    ASSUME IInv, NEW u \in User, NEW p \in Pair, NEW side \in Side,
           NEW type \in RestingType, NEW qty \in Qty, NEW price \in Price,
           PlaceResting(u, p, side, type, qty, price)
    PROVE  IInv'
<1> DEFINE t == [user |-> u, pair |-> p, side |-> side, type |-> type,
                 price |-> price, qty |-> qty, status |-> "open"]
<1>1. t \in OrderRow /\ IsOpen(t) /\ t.status # "filled"
  BY DEF OrderRow, Status, IsOpen
<1> HIDE DEF t
<1>2. PICK o \in OrderId :
          /\ order[o] = Unused
          /\ wallet[PayWallet(t)].available >= PayAmount(t)
          /\ \E F \in SUBSET Fillable([order EXCEPT ![o] = t], {u}) :
                 FillAll(Freeze(wallet, t), [order EXCEPT ![o] = t], trades, ledger, F)
  BY DEF PlaceResting, t
<1> DEFINE ord == [order EXCEPT ![o] = t]
<1>3. PICK F \in SUBSET Fillable(ord, {u}) :
          FillAll(Freeze(wallet, t), ord, trades, ledger, F)
  BY <1>2
<1>4. PayWallet(t) \in Wallet /\ PayAmount(t) \in Nat
  BY <1>1, TermsTypes
<1>5. order[o] = Unused /\ order[o].status # "filled"
  BY <1>2 DEF Unused
<1>6. \A w \in Wallet :
          Hold(t, w) = Hold(order[o], w) + (IF w = PayWallet(t) THEN PayAmount(t) ELSE 0)
  BY <1>1, <1>4, <1>5 DEF Hold, IsOpen, Unused, Paid
<1>7. wallet[PayWallet(t)].available - PayAmount(t) >= 0
  BY <1>2, <1>4, InvFacts
<1>8. Consistent(Freeze(wallet, t), ord, trades, ledger)
  <2> DEFINE w == PayWallet(t)
             n == PayAmount(t)
  <2>1. w \in Wallet /\ n \in Int /\ wallet[w].available - n >= 0
    BY <1>4, <1>7
  <2>2. \A v \in Wallet : Hold(t, v) = Hold(order[o], v) + (IF v = w THEN n ELSE 0)
    BY <1>6
  <2>3. Freeze(wallet, t) = Move(wallet, w, 0, -n, n)
    BY DEF Freeze
  <2> HIDE DEF w, n
  <2>4. Consistent(Move(wallet, w, 0, -n, n), [order EXCEPT ![o] = t], trades, ledger)
    BY <1>1, <1>5, <2>1, <2>2, Reholding DEF IInv
  <2> QED BY <2>3, <2>4
<1> HIDE DEF ord
<1>9. F \in SUBSET {i \in OrderId : IsOpen(ord[i])}
  BY FillableOpen
<1>10. Consistent(FillWallets(Freeze(wallet, t), ord, F), FillOrders(ord, F),
                  FillTrades(trades, F), FillLedger(ledger, ord, F))
  BY <1>8, <1>9, Filling
<1> QED BY <1>3, <1>10 DEF FillAll, IInv

LEMMA PlaceMarketInv ==
    ASSUME IInv, NEW u \in User, NEW p \in Pair, NEW side \in Side,
           NEW qty \in Qty, NEW live \in Price, PlaceMarket(u, p, side, qty, live)
    PROVE  IInv'
<1> DEFINE t == [user |-> u, pair |-> p, side |-> side, type |-> "market",
                 price |-> live, qty |-> qty, status |-> "filled"]
<1>1. t \in OrderRow /\ t.status = "filled"
  BY DEF OrderRow, Status
<1> HIDE DEF t
<1> DEFINE led == Enter(Enter(ledger, PayWallet(t), -PayAmount(t)), GetWallet(t), GetAmount(t))
<1>2. PICK o \in OrderId :
          /\ order[o] = Unused
          /\ wallet[PayWallet(t)].available >= PayAmount(t)
          /\ \E F \in SUBSET Fillable([order EXCEPT ![o] = t], {u}) :
                 FillAll(SettleMarket(wallet, t), [order EXCEPT ![o] = t],
                         [trades EXCEPT ![o] = 1], led, F)
  BY DEF PlaceMarket, t
<1> DEFINE ord == [order EXCEPT ![o] = t]
           trd == [trades EXCEPT ![o] = 1]
           half == Move(wallet, PayWallet(t), -PayAmount(t), -PayAmount(t), 0)
           entered == Enter(ledger, PayWallet(t), -PayAmount(t))
<1>3. PICK F \in SUBSET Fillable(ord, {u}) :
          FillAll(SettleMarket(wallet, t), ord, trd, led, F)
  BY <1>2
<1>4. /\ PayWallet(t) \in Wallet /\ GetWallet(t) \in Wallet
      /\ PayWallet(t) # GetWallet(t)
      /\ PayAmount(t) \in Nat /\ -PayAmount(t) \in Int /\ GetAmount(t) \in Nat
  BY <1>1, TermsTypes
<1>5. wallet[PayWallet(t)].available + (-PayAmount(t)) >= 0
  BY <1>2, <1>4, InvFacts
<1>6. Consistent(half, order, trades, entered)
  BY <1>4, <1>5, Booking DEF IInv
<1>7. half[GetWallet(t)].available = wallet[GetWallet(t)].available
  BY <1>4, InvFacts, MoveRows
<1>8. half[GetWallet(t)].available + GetAmount(t) >= 0
  BY <1>4, <1>7, InvFacts
<1>9. SettleMarket(wallet, t) = Move(half, GetWallet(t), GetAmount(t), GetAmount(t), 0)
      /\ led = Enter(entered, GetWallet(t), GetAmount(t))
  BY DEF SettleMarket
<1> HIDE DEF half, entered, led
<1>10. Consistent(SettleMarket(wallet, t), order, trades, led)
  BY <1>4, <1>6, <1>8, <1>9, Booking
<1>11. order[o] = Unused
  BY <1>2
<1>12. Consistent(SettleMarket(wallet, t), ord, trd, led)
  BY <1>1, <1>10, <1>11, InsertFilled
<1> HIDE DEF ord, trd
<1>13. F \in SUBSET {i \in OrderId : IsOpen(ord[i])}
  BY FillableOpen
<1>14. Consistent(FillWallets(SettleMarket(wallet, t), ord, F), FillOrders(ord, F),
                  FillTrades(trd, F), FillLedger(led, ord, F))
  BY <1>12, <1>13, Filling
<1> QED BY <1>3, <1>14 DEF FillAll, IInv

LEMMA CancelInv ==
    ASSUME IInv, NEW o \in OrderId, Cancel(o)
    PROVE  IInv'
<1> DEFINE t == [order[o] EXCEPT !.status = "cancelled"]
           p == PayWallet(order[o])
           n == PayAmount(order[o])
<1>1. order[o] \in OrderRow /\ IsOpen(order[o])
  BY OpenRow, InvFacts DEF Cancel
<1>2. t \in OrderRow /\ t.status = "cancelled"
  BY <1>1 DEF OrderRow, Status
<1>3. p \in Wallet /\ n \in Nat /\ -n \in Int /\ -(-n) = n
  BY <1>1, TermsTypes
<1>4. \A w \in Wallet : Hold(t, w) = Hold(order[o], w) + (IF w = p THEN -n ELSE 0)
  BY <1>1, <1>2, <1>3 DEF Hold, IsOpen, Paid
<1>5. wallet[p].available - (-n) >= 0
  BY <1>3, InvFacts
<1>6. order[o].status # "filled" /\ t.status # "filled"
  BY <1>1, <1>2 DEF IsOpen
<1>7. order' = [order EXCEPT ![o] = t] /\ wallet' = Move(wallet, p, 0, n, -n)
      /\ trades' = trades /\ ledger' = ledger
  BY DEF Cancel, Unfreeze
<1> HIDE DEF t, p, n
<1>8. Consistent(Move(wallet, p, 0, -(-n), -n), [order EXCEPT ![o] = t], trades, ledger)
  BY <1>2, <1>3, <1>4, <1>5, <1>6, Reholding DEF IInv
<1> QED BY <1>3, <1>7, <1>8 DEF IInv

LEMMA MonitorInv ==
    ASSUME IInv, Monitor
    PROVE  IInv'
<1>1. PICK F \in SUBSET {o \in Fillable(order, User) : Conditional(order[o])} :
          FillAll(wallet, order, trades, ledger, F)
  BY DEF Monitor
<1>2. F \in SUBSET {o \in OrderId : IsOpen(order[o])}
  BY FillableOpen
<1>3. Consistent(FillWallets(wallet, order, F), FillOrders(order, F),
                 FillTrades(trades, F), FillLedger(ledger, order, F))
  BY <1>2, Filling DEF IInv
<1> QED BY <1>1, <1>3 DEF FillAll, IInv

LEMMA NextInv ==
    ASSUME IInv, [Next]_vars
    PROVE  IInv'
<1>1. CASE UNCHANGED vars
  BY <1>1 DEF vars, IInv
<1>2. CASE Next
  BY <1>2, DepositInv, WithdrawInv, TransferInv, PlaceRestingInv, PlaceMarketInv,
     CancelInv, MonitorInv DEF Next
<1> QED BY <1>1, <1>2

-----------------------------------------------------------------------------
\* The inductive invariant holds in every state of every behaviour.
THEOREM Invariance == Spec => []IInv
<1>1. IInv /\ [Next]_vars => IInv'
  BY NextInv
<1> QED BY InitInv, <1>1, PTL DEF Spec

\* The tables keep their types: whole amounts, order rows with legal columns.
THEOREM TypeCorrect == Spec => []TypeOK
<1>1. IInv => TypeOK
  BY DEF IInv, Consistent, Tables, TypeOK
<1> QED BY <1>1, Invariance, PTL

\* What is frozen is exactly what the open orders hold, for any number of
\* users, pairs and orders.
THEOREM FrozenCorrect == Spec => []FrozenIsHeld
<1>1. IInv => FrozenIsHeld
  BY DEF IInv, Consistent, FrozenIsHeld
<1> QED BY <1>1, Invariance, PTL

\* No wallet is ever overdrawn, in its available or in its frozen part, and
\* the two parts make up the balance.
THEOREM Solvency == Spec => []Solvent
<1>1. ASSUME IInv PROVE Solvent
  <2>1. \A w \in Wallet : Held(order, w) \in Nat
    BY <1>1, InvFacts, HeldType
  <2> QED BY <1>1, <2>1, InvFacts DEF Solvent
<1> QED BY <1>1, Invariance, PTL

\* The ledger explains every balance.
THEOREM LedgerCorrect == Spec => []LedgerExplainsBalance
<1>1. IInv => LedgerExplainsBalance
  BY DEF IInv, Consistent, LedgerExplainsBalance
<1> QED BY <1>1, Invariance, PTL

\* An order is traded exactly once if it is filled and never otherwise.
THEOREM OneTrade == Spec => []OneTradePerFill
<1>1. IInv => OneTradePerFill
  BY DEF IInv, Consistent, OneTradePerFill
<1> QED BY <1>1, Invariance, PTL

\* No step changes a filled or a cancelled row: placements use free slots,
\* fills and cancellations need an open row.
THEOREM ClosedFinal == Spec => ClosedIsFinal
<1> DEFINE Final == \A o \in OrderId :
                order[o].status \in {"filled", "cancelled"} => order'[o] = order[o]
<1>1. ASSUME [Next]_vars PROVE Final \/ UNCHANGED vars
  <2>1. SUFFICES ASSUME Next, NEW k \in OrderId, order[k].status \in {"filled", "cancelled"}
                 PROVE  order'[k] = order[k]
    BY <1>1
  <2>2. ~IsOpen(order[k]) /\ order[k] # Unused
    BY <2>1 DEF IsOpen, Unused
  <2>4. ASSUME NEW u \in User, NEW p \in Pair, NEW side \in Side,
               NEW type \in RestingType, NEW qty \in Qty, NEW price \in Price,
               PlaceResting(u, p, side, type, qty, price)
        PROVE  order'[k] = order[k]
    BY <2>2, <2>4 DEF PlaceResting, FillAll, FillOrders, Fillable
  <2>5. ASSUME NEW u \in User, NEW p \in Pair, NEW side \in Side, NEW qty \in Qty,
               NEW live \in Price, PlaceMarket(u, p, side, qty, live)
        PROVE  order'[k] = order[k]
    BY <2>2, <2>5 DEF PlaceMarket, FillAll, FillOrders, Fillable
  <2>6. ASSUME NEW o \in OrderId, Cancel(o)
        PROVE  order'[k] = order[k]
    BY <2>2, <2>6 DEF Cancel
  <2>7. ASSUME Monitor
        PROVE  order'[k] = order[k]
    BY <2>2, <2>7 DEF Monitor, FillAll, FillOrders, Fillable
  <2> QED BY <2>1, <2>4, <2>5, <2>6, <2>7 DEF Next, Deposit, Withdraw, Transfer
<1>2. [Next]_vars => [Final]_vars
  BY <1>1
<1> QED BY <1>2, PTL DEF Spec, ClosedIsFinal

-----------------------------------------------------------------------------
(* Exchange implements Escrow.  Balanced accounts follow from the          *)
(* invariant.  What is left to show is about steps: every request opens at *)
(* most one hold, out of free funds, and leaves all others as they are or  *)
(* ends them.                                                              *)

\* Between two tables of orders, only order k may have come to hold anything,
\* and then no more than the wallets of wal have free; k need not be an order.
OpensOnly(k, wal, old, new) ==
    \A w \in Wallet :
        /\ \A i \in OrderId \ {k} : Hold(new[i], w) \in {Hold(old[i], w), 0}
        /\ k \in OrderId => Hold(old[k], w) = 0 /\ Hold(new[k], w) <= wal[w].available

\* Filling a batch leaves the hold of an order as it was, or ends it.
LEMMA FilledHolds ==
    ASSUME NEW ord \in [OrderId -> OrderRow \cup {Unused}], NEW w \in Wallet,
           NEW F \in SUBSET {o \in OrderId : IsOpen(ord[o])}, NEW i \in OrderId
    PROVE  Hold(FillOrders(ord, F)[i], w) \in {Hold(ord[i], w), 0}
<1>1. CASE i \in F
  <2>1. ord[i] \in OrderRow
    BY <1>1, OpenRow
  <2>2. FillOrders(ord, F)[i].status = "filled"
    BY <1>1, <2>1 DEF FillOrders, OrderRow
  <2> QED BY <2>2 DEF Hold, IsOpen
<1>2. CASE i \notin F
  BY <1>2 DEF FillOrders
<1> QED BY <1>1, <1>2

\* A placement opens the hold of its own order, in its wallet, and the fills that
\* end it may end that hold with others.
LEMMA PlaceRestingOpens ==
    ASSUME IInv, NEW u \in User, NEW p \in Pair, NEW side \in Side,
           NEW type \in RestingType, NEW qty \in Qty, NEW price \in Price,
           PlaceResting(u, p, side, type, qty, price)
    PROVE  \E k : OpensOnly(k, wallet, order, order')
<1> DEFINE t == [user |-> u, pair |-> p, side |-> side, type |-> type,
                 price |-> price, qty |-> qty, status |-> "open"]
<1>1. t \in OrderRow /\ IsOpen(t)
  BY DEF OrderRow, Status, IsOpen
<1> HIDE DEF t
<1>2. PICK o \in OrderId :
          /\ order[o] = Unused
          /\ wallet[PayWallet(t)].available >= PayAmount(t)
          /\ \E F \in SUBSET Fillable([order EXCEPT ![o] = t], {u}) :
                 FillAll(Freeze(wallet, t), [order EXCEPT ![o] = t], trades, ledger, F)
  BY DEF PlaceResting, t
<1> DEFINE ord == [order EXCEPT ![o] = t]
<1>3. PICK F \in SUBSET Fillable(ord, {u}) : order' = FillOrders(ord, F)
  BY <1>2 DEF FillAll
<1>4. /\ ord \in [OrderId -> OrderRow \cup {Unused}]
      /\ ord[o] = t
      /\ \A i \in OrderId \ {o} : ord[i] = order[i]
  BY <1>1, InvFacts
<1> HIDE DEF ord
<1>5. F \in SUBSET {i \in OrderId : IsOpen(ord[i])}
  BY FillableOpen
<1>6. ASSUME NEW w \in Wallet, NEW i \in OrderId
      PROVE  Hold(order'[i], w) \in {Hold(ord[i], w), 0}
  BY <1>3, <1>4, <1>5, FilledHolds
<1>7. ASSUME NEW w \in Wallet
      PROVE  /\ \A i \in OrderId \ {o} : Hold(order'[i], w) \in {Hold(order[i], w), 0}
             /\ Hold(order[o], w) = 0
             /\ Hold(order'[o], w) <= wallet[w].available
  <2>1. \A i \in OrderId \ {o} : Hold(order'[i], w) \in {Hold(order[i], w), 0}
    BY <1>4, <1>6
  <2>2. Hold(order[o], w) = 0
    BY <1>2 DEF Hold, IsOpen, Unused
  <2>3. Hold(t, w) <= wallet[w].available
    <3>1. Hold(t, w) = IF PayWallet(t) = w THEN PayAmount(t) ELSE 0
      BY <1>1 DEF Hold, Paid
    <3>2. PayAmount(t) \in Nat /\ wallet[w].available \in Int /\ wallet[w].available >= 0
      BY <1>1, TermsTypes, InvFacts
    <3>3. CASE PayWallet(t) = w
      BY <1>2, <3>1, <3>2, <3>3
    <3>4. CASE PayWallet(t) # w
      BY <3>1, <3>2, <3>4
    <3> QED BY <3>3, <3>4
  <2>4. Hold(order'[o], w) \in {Hold(t, w), 0}
    BY <1>4, <1>6
  <2>5. 0 <= wallet[w].available
    BY InvFacts
  <2> QED BY <2>1, <2>2, <2>3, <2>4, <2>5
<1> QED BY <1>7 DEF OpensOnly

LEMMA PlaceMarketOpens ==
    ASSUME IInv, NEW u \in User, NEW p \in Pair, NEW side \in Side,
           NEW qty \in Qty, NEW live \in Price, PlaceMarket(u, p, side, qty, live)
    PROVE  \E k : OpensOnly(k, wallet, order, order')
<1> DEFINE t == [user |-> u, pair |-> p, side |-> side, type |-> "market",
                 price |-> live, qty |-> qty, status |-> "filled"]
<1>1. t \in OrderRow /\ ~IsOpen(t)
  BY DEF OrderRow, Status, IsOpen
<1>2. PICK o \in OrderId :
          /\ order[o] = Unused
          /\ \E F \in SUBSET Fillable([order EXCEPT ![o] = t], {u}) :
                 order' = FillOrders([order EXCEPT ![o] = t], F)
  BY DEF PlaceMarket, FillAll
<1> HIDE DEF t
<1> DEFINE ord == [order EXCEPT ![o] = t]
<1>3. PICK F \in SUBSET Fillable(ord, {u}) : order' = FillOrders(ord, F)
  BY <1>2
<1>4. /\ ord \in [OrderId -> OrderRow \cup {Unused}]
      /\ ord[o] = t
      /\ \A i \in OrderId \ {o} : ord[i] = order[i]
  BY <1>1, InvFacts
<1> HIDE DEF ord
<1>5. F \in SUBSET {i \in OrderId : IsOpen(ord[i])}
  BY FillableOpen
<1>6. ASSUME NEW w \in Wallet, NEW i \in OrderId
      PROVE  Hold(order'[i], w) \in {Hold(ord[i], w), 0}
  BY <1>3, <1>4, <1>5, FilledHolds
<1>7. ASSUME NEW w \in Wallet
      PROVE  /\ \A i \in OrderId \ {o} : Hold(order'[i], w) \in {Hold(order[i], w), 0}
             /\ Hold(order[o], w) = 0
             /\ Hold(order'[o], w) <= wallet[w].available
  <2>1. Hold(t, w) = 0 /\ Hold(order[o], w) = 0
    BY <1>1, <1>2 DEF Hold, IsOpen, Unused
  <2>2. Hold(order'[o], w) = 0
    BY <1>4, <1>6, <2>1
  <2>3. 0 <= wallet[w].available
    BY InvFacts
  <2> QED BY <1>4, <1>6, <2>1, <2>2, <2>3
<1> QED BY <1>7 DEF OpensOnly

LEMMA CancelOpens ==
    ASSUME IInv, NEW o \in OrderId, Cancel(o)
    PROVE  \E k : OpensOnly(k, wallet, order, order')
<1>1. order[o] \in OrderRow
  BY OpenRow, InvFacts DEF Cancel
<1>2. order'[o].status = "cancelled"
  BY <1>1, InvFacts DEF Cancel, OrderRow
<1>3. \A i \in OrderId \ {o} : order'[i] = order[i]
  BY InvFacts DEF Cancel
<1>4. \A w \in Wallet : Hold(order'[o], w) = 0
  BY <1>2 DEF Hold, IsOpen
<1>5. OpensOnly(0, wallet, order, order')
  BY <1>3, <1>4 DEF OpensOnly, OrderId
<1> QED BY <1>5

LEMMA MonitorOpens ==
    ASSUME IInv, Monitor
    PROVE  \E k : OpensOnly(k, wallet, order, order')
<1>1. PICK F \in SUBSET {o \in Fillable(order, User) : Conditional(order[o])} :
          order' = FillOrders(order, F)
  BY DEF Monitor, FillAll
<1>2. F \in SUBSET {o \in OrderId : IsOpen(order[o])}
  BY FillableOpen
<1>3. \A w \in Wallet : \A i \in OrderId : Hold(order'[i], w) \in {Hold(order[i], w), 0}
  BY <1>1, <1>2, FilledHolds, InvFacts
<1>4. OpensOnly(0, wallet, order, order')
  BY <1>3 DEF OpensOnly, OrderId
<1> QED BY <1>4

LEMMA NextOpens ==
    ASSUME IInv, [Next]_vars
    PROVE  \E k : OpensOnly(k, wallet, order, order')
<1>1. CASE order' = order
  <2>1. OpensOnly(0, wallet, order, order')
    BY <1>1 DEF OpensOnly, OrderId
  <2> QED BY <2>1
<1>2. CASE order' # order
  <2>1. \/ \E u \in User, p \in Pair, side \in Side, type \in RestingType,
              qty \in Qty, price \in Price : PlaceResting(u, p, side, type, qty, price)
        \/ \E u \in User, p \in Pair, side \in Side, qty \in Qty, live \in Price :
              PlaceMarket(u, p, side, qty, live)
        \/ \E o \in OrderId : Cancel(o)
        \/ Monitor
    BY <1>2 DEF Next, vars, Deposit, Withdraw, Transfer
  <2> QED BY <2>1, PlaceRestingOpens, PlaceMarketOpens, CancelOpens, MonitorOpens
<1> QED BY <1>1, <1>2

-----------------------------------------------------------------------------
\* Escrow brings the totals of Sums in under a name of its own.
LEMMA SameSum ==
    ASSUME NEW f, NEW n
    PROVE  Account!Sum(f, n) = Sum(f, n)
BY DEF Account!Sum, Account!Prefix, Sum, Prefix

LEMMA HoldsType ==
    ASSUME NEW ord \in [OrderId -> OrderRow \cup {Unused}], NEW w \in Wallet
    PROVE  [o \in OrderId |-> Hold(ord[o], w)] \in [1 .. MaxOrders -> Nat]
BY HoldType DEF OrderId

\* At most one hold that is new adds up to at most what it may be.
LEMMA NewHolds ==
    ASSUME NEW old \in [OrderId -> OrderRow \cup {Unused}],
           NEW new \in [OrderId -> OrderRow \cup {Unused}],
           NEW wal, NEW k, OpensOnly(k, wal, old, new),
           NEW w \in Wallet, wal[w].available \in Nat
    PROVE  Sum([i \in 1 .. MaxOrders |-> IF Hold(old[i], w) = 0 THEN Hold(new[i], w) ELSE 0],
               MaxOrders) <= wal[w].available
<1> DEFINE opened == [i \in 1 .. MaxOrders |->
                         IF Hold(old[i], w) = 0 THEN Hold(new[i], w) ELSE 0]
<1>1. MaxOrders \in Nat
  BY ConstantsAssumption
<1>2. opened \in [1 .. MaxOrders -> Int]
  <2>1. \A i \in OrderId : Hold(new[i], w) \in Nat
    BY HoldType
  <2> QED BY <2>1 DEF OrderId
<1>3. \A i \in 1 .. MaxOrders : i # k => opened[i] = 0
  BY DEF OpensOnly, OrderId
<1>4. CASE k \in OrderId
  <2>1. k \in 1 .. MaxOrders /\ opened[k] <= wal[w].available
    BY <1>4 DEF OpensOnly, OrderId
  <2> HIDE DEF opened
  <2>2. Sum(opened, MaxOrders) = opened[k]
    BY <1>1, <1>2, <1>3, <2>1, SumPoint
  <2> QED BY <2>1, <2>2 DEF opened
<1>5. CASE k \notin OrderId
  <2>1. \A i \in 1 .. MaxOrders : opened[i] = 0
    BY <1>3, <1>5 DEF OrderId
  <2> HIDE DEF opened
  <2>2. Sum(opened, MaxOrders) = 0
    BY <1>1, <1>2, <2>1, SumZero
  <2> QED BY <2>2 DEF opened
<1> QED BY <1>4, <1>5

\* In consistent tables every account is balanced.
LEMMA AccountsBalanced == IInv => \A w \in Wallet : Account!Balanced(w)
<1> SUFFICES ASSUME IInv, NEW w \in Wallet PROVE Account!Balanced(w)
  OBVIOUS
<1> DEFINE held == [o \in OrderId |-> Hold(order[o], w)]
<1>1. HeldBy(order)[w] = held
  BY DEF HeldBy
<1>2. Account!Sum(held, MaxOrders) = Held(order, w)
  BY SameSum DEF Held
<1>3. [v \in Wallet |-> wallet[v].available][w] = wallet[w].available
  OBVIOUS
<1> HIDE DEF held
<1>4. /\ wallet[w].available >= 0
      /\ wallet[w].available + Account!Sum(held, MaxOrders) = ledger[w]
  BY <1>2, InvFacts
<1> QED BY <1>1, <1>3, <1>4 DEF Account!Balanced

LEMMA AccountsBalancedNext == IInv' => (\A w \in Wallet : Account!Balanced(w))'
BY AccountsBalanced, PTL

LEMMA EscrowBegins == Init => Account!EscrowInit
<1> SUFFICES ASSUME Init PROVE Account!EscrowInit
  OBVIOUS
<1>1. \A w \in Wallet : Account!Balanced(w)
  BY InitInv, AccountsBalanced
<1>2. \A w \in Wallet : HeldBy(order)[w] = [i \in 1 .. MaxOrders |-> 0]
  BY DEF Init, HeldBy, Hold, IsOpen, Unused, OrderId
<1> QED BY <1>1, <1>2 DEF Account!EscrowInit

LEMMA EscrowSteps ==
    ASSUME IInv, [Next]_vars
    PROVE  Account!EscrowNext
<1>1. IInv'
  BY NextInv
<1>2. PICK k : OpensOnly(k, wallet, order, order')
  BY NextOpens
<1>3. order \in [OrderId -> OrderRow \cup {Unused}] /\ order' \in [OrderId -> OrderRow \cup {Unused}]
  BY <1>1, InvFacts DEF IInv, Consistent, Tables
<1>4. ASSUME NEW w \in Wallet
      PROVE  /\ Account!WholeHolds(w)
             /\ Account!CoveredHolds(w)
             /\ Account!Balanced(w)'
  <2>1. /\ HeldBy(order)[w] = [o \in 1 .. MaxOrders |-> Hold(order[o], w)]
        /\ HeldBy(order)'[w] = [o \in 1 .. MaxOrders |-> Hold(order'[o], w)]
        /\ [v \in Wallet |-> wallet[v].available][w] = wallet[w].available
    BY DEF HeldBy, OrderId
  <2>2. \A i \in 1 .. MaxOrders :
            Hold(order[i], w) # 0 => Hold(order'[i], w) \in {Hold(order[i], w), 0}
    BY <1>2 DEF OpensOnly, OrderId
  <2>3. wallet[w].available \in Nat
    BY InvFacts
  <2>4. Sum([i \in 1 .. MaxOrders |->
                 IF Hold(order[i], w) = 0 THEN Hold(order'[i], w) ELSE 0], MaxOrders)
            <= wallet[w].available
    BY <1>2, <1>3, <2>3, NewHolds
  <2>5. Account!WholeHolds(w)
    BY <2>1, <2>2 DEF Account!WholeHolds
  <2>6. Account!CoveredHolds(w)
    <3>1. [i \in 1 .. MaxOrders |-> IF HeldBy(order)[w][i] = 0 THEN HeldBy(order)'[w][i] ELSE 0]
          = [i \in 1 .. MaxOrders |-> IF Hold(order[i], w) = 0 THEN Hold(order'[i], w) ELSE 0]
      BY <2>1
    <3> QED BY <2>1, <2>4, <3>1, SameSum DEF Account!CoveredHolds
  <2>7. Account!Balanced(w)'
    BY <1>1, AccountsBalancedNext
  <2> QED BY <2>5, <2>6, <2>7
<1> QED BY <1>4 DEF Account!EscrowNext

\* The exchange keeps an escrow account for every wallet, for any users, assets,
\* pairs and numbers of orders: initial states map to initial states, and every
\* request and every pass of the monitor to a step that the accounts allow.
THEOREM ImplementsEscrow == Spec => KeepsEscrow
<1>1. IInv /\ [Next]_vars => [Account!EscrowNext]_(Account!escrow)
  BY EscrowSteps
<1> QED BY EscrowBegins, <1>1, Invariance, PTL DEF Spec, KeepsEscrow, Account!EscrowSpec
=============================================================================
