---------------------------- MODULE AtomicProofs ----------------------------
(***************************************************************************)
(* Every transaction of TradingTx commits as one request of Exchange, for  *)
(* any sessions, any rows and any interleaving of their statements.        *)
(*                                                                         *)
(* The argument follows a transaction: it begins with what its request     *)
(* does by itself (Begun), then fills some of the orders it has locked     *)
(* (Filled).  All of it happens to rows the session has locked, which no   *)
(* other session commits to meanwhile; so the rows it has locked stay what *)
(* Begun and Filled make of the committed tables (Does), and the commit    *)
(* is that step of Exchange.                                               *)
(***************************************************************************)
EXTENDS TradingTxProofs

Database == [wallet : [Wallet -> WalletRow], order : [OrderId -> Row],
             trades : [OrderId -> Nat], ledger : [Wallet -> Int]]

Request ==
    [kind : {"deposit", "withdraw"}, user : User, asset : Asset, amt : Amount]
    \cup [kind : {"transfer"}, user : User, asset : Asset, amt : Amount,
          from : WalletType, to : WalletType]
    \cup [kind : {"resting", "market", "cancel"}, id : OrderId, row : OrderRow]
    \cup [kind : {"monitor"}]

\* The wallets and the order rows a request writes by itself, and the users
\* whose orders it may fill then.
Touched(x) ==
    CASE x.kind \in {"deposit", "withdraw"} -> {Spot(x.user, x.asset)}
      [] x.kind = "transfer" -> {<<x.user, x.asset, x.from>>, <<x.user, x.asset, x.to>>}
      [] x.kind \in {"resting", "cancel"} -> {PayWallet(x.row)}
      [] x.kind = "market" -> {PayWallet(x.row), GetWallet(x.row)}
      [] OTHER -> {}
Written(x) == IF x.kind \in {"resting", "market", "cancel"} THEN {x.id} ELSE {}
Sweeps(x) ==
    CASE x.kind \in {"resting", "market"} -> {x.row.user}
      [] x.kind = "monitor" -> User
      [] OTHER -> {}

\* What the request may be made of in tables C,
Allowed(x, C) ==
    CASE x.kind = "deposit" ->
             C.wallet[Spot(x.user, x.asset)].balance
                 + C.wallet[<<x.user, x.asset, "funding">>].balance + x.amt <= MaxBalance
      [] x.kind = "withdraw" -> C.wallet[Spot(x.user, x.asset)].available >= x.amt
      [] x.kind = "transfer" ->
             x.from # x.to /\ C.wallet[<<x.user, x.asset, x.from>>].available >= x.amt
      [] x.kind = "resting" ->
             /\ C.order[x.id] = Unused /\ x.row.status = "open" /\ x.row.type \in RestingType
             /\ C.wallet[PayWallet(x.row)].available >= PayAmount(x.row)
      [] x.kind = "market" ->
             /\ C.order[x.id] = Unused /\ x.row.status = "filled" /\ x.row.type = "market"
             /\ C.wallet[PayWallet(x.row)].available >= PayAmount(x.row)
      [] x.kind = "cancel" -> C.order[x.id] = x.row
      [] OTHER -> TRUE

\* what it makes of them by itself,
BegunWallets(x, wal) ==
    CASE x.kind = "deposit" -> Move(wal, Spot(x.user, x.asset), x.amt, x.amt, 0)
      [] x.kind = "withdraw" -> Move(wal, Spot(x.user, x.asset), -x.amt, -x.amt, 0)
      [] x.kind = "transfer" ->
             Move(Move(wal, <<x.user, x.asset, x.from>>, -x.amt, -x.amt, 0),
                  <<x.user, x.asset, x.to>>, x.amt, x.amt, 0)
      [] x.kind = "resting" -> Freeze(wal, x.row)
      [] x.kind = "market" -> SettleMarket(wal, x.row)
      [] x.kind = "cancel" -> Unfreeze(wal, x.row)
      [] OTHER -> wal
BegunLedger(x, led) ==
    CASE x.kind = "deposit" -> Enter(led, Spot(x.user, x.asset), x.amt)
      [] x.kind = "withdraw" -> Enter(led, Spot(x.user, x.asset), -x.amt)
      [] x.kind = "transfer" ->
             Enter(Enter(led, <<x.user, x.asset, x.from>>, -x.amt),
                   <<x.user, x.asset, x.to>>, x.amt)
      [] x.kind = "market" ->
             Enter(Enter(led, PayWallet(x.row), -PayAmount(x.row)),
                   GetWallet(x.row), GetAmount(x.row))
      [] OTHER -> led
BegunOrders(x, ord) ==
    CASE x.kind \in {"resting", "market"} -> [ord EXCEPT ![x.id] = x.row]
      [] x.kind = "cancel" -> [ord EXCEPT ![x.id] = [x.row EXCEPT !.status = "cancelled"]]
      [] OTHER -> ord
BegunTrades(x, trd) == IF x.kind = "market" THEN [trd EXCEPT ![x.id] = 1] ELSE trd
Begun(x, C) ==
    [wallet |-> BegunWallets(x, C.wallet), order |-> BegunOrders(x, C.order),
     trades |-> BegunTrades(x, C.trades), ledger |-> BegunLedger(x, C.ledger)]

\* and what filling the orders F makes of tables B.
Filled(B, F) ==
    [wallet |-> FillWallets(B.wallet, B.order, F), order |-> FillOrders(B.order, F),
     trades |-> FillTrades(B.trades, F), ledger |-> FillLedger(B.ledger, B.order, F)]

\* Tables C and D have the same wallets ws and the same orders os.
Agree(C, D, ws, os) ==
    /\ \A w \in ws : C.wallet[w] = D.wallet[w] /\ C.ledger[w] = D.ledger[w]
    /\ \A o \in os : C.order[o] = D.order[o] /\ C.trades[o] = D.trades[o]

\* Of committed tables C, request x and the fills of F make what draft D has of
\* the locked wallets ws and orders os, and concern no others.
Does(x, F, C, D, ws, os) ==
    /\ x.kind \in Kinds
    /\ Touched(x) \subseteq ws
    /\ Written(x) \subseteq os
    /\ Allowed(x, C)
    /\ F \subseteq os
    /\ \A o \in F :
           /\ o \in Fillable(Begun(x, C).order, Sweeps(x))
           /\ x.kind = "monitor" => Conditional(C.order[o])
           /\ {PayWallet(Begun(x, C).order[o]), GetWallet(Begun(x, C).order[o])} \subseteq ws
    /\ Agree(D, Filled(Begun(x, C), F), ws, os)

\* The orders a transaction at t has yet to lock, look up or fill.
Listed(t) ==
    CASE t.pc = "lock" -> t.todo \cup t.rows
      [] t.pc \in {"pay", "get"} -> t.rows \cup {t.id}
      [] OTHER -> {}

\* What a transaction at t that has locked ws and os has done so far.
Work(t, C, D, ws, os) ==
    /\ t.pc = "credit" =>
           /\ "transfer" \in Kinds
           /\ \E u \in User, a \in Asset, x, y \in WalletType :
                  x # y /\ t.from = <<u, a, x>> /\ t.to = <<u, a, y>>
           /\ ws \subseteq {t.from}
           /\ Agree(D, C, ws, os)
    /\ t.pc = "settle" =>
           /\ "market" \in Kinds
           /\ t.row.status = "filled" /\ t.row.type = "market"
           /\ C.order[t.id] = Unused
           /\ C.wallet[PayWallet(t.row)].available >= PayAmount(t.row)
           /\ ws \subseteq {PayWallet(t.row)} /\ os \subseteq {t.id}
           /\ \A w \in ws :
                  /\ D.wallet[w] = Move(C.wallet, w, -PayAmount(t.row), -PayAmount(t.row), 0)[w]
                  /\ D.ledger[w] = C.ledger[w]
    /\ t.pc \in {"scan", "lock", "pay", "get"} =>
           \E x \in Request, F \in SUBSET OrderId :
               /\ Does(x, F, C, D, ws, os)
               /\ t.users = Sweeps(x)
               /\ x.kind \in {"resting", "market", "monitor"}
               /\ x.kind = "monitor" => t.pass = "conditional"
    /\ \A o \in Listed(t) :
           LET row == IF o \in os THEN D.order[o] ELSE C.order[o] IN
           /\ row # Unused
           /\ row.user \in t.users
           /\ t.pass = "conditional" => Conditional(row)
    /\ t.pc \in {"pay", "get"} => \E live \in Price : Triggered(D.order[t.id], live)
    /\ t.pc \in {"unfreeze", "close"} => "cancel" \in Kinds /\ C.order[t.id] # Unused
    /\ t.pc = "unfreeze" => ws = {} /\ os = {}
    /\ t.pc = "close" =>
           /\ ws = {PayWallet(C.order[t.id])} /\ os = {}
           /\ \A w \in ws : /\ D.wallet[w] = Unfreeze(C.wallet, C.order[t.id])[w]
                            /\ D.ledger[w] = C.ledger[w]
    /\ t.pc = "commit" =>
           \E x \in Request, F \in SUBSET OrderId : Does(x, F, C, D, ws, os)

Wallets(s) == {w \in Wallet : walLock[w] = s}
Orders(s) == {o \in OrderId : ordLock[o] = s}

AtomicInv ==
    /\ TxInv
    /\ \A s \in Session : Work(tx[s], Committed, draft, Wallets(s), Orders(s))

-----------------------------------------------------------------------------
(* A request by itself.                                                    *)

\* An order row with another status is a row of the same order.
SameTerms(t, r) ==
    /\ t.user = r.user /\ t.pair = r.pair /\ t.side = r.side
    /\ t.type = r.type /\ t.price = r.price /\ t.qty = r.qty

LEMMA Closing ==
    ASSUME NEW t \in OrderRow, NEW st \in Status
    PROVE  /\ [t EXCEPT !.status = st] \in OrderRow
           /\ [t EXCEPT !.status = st].status = st
           /\ SameTerms([t EXCEPT !.status = st], t)
BY DEF OrderRow, SameTerms

LEMMA Requests ==
    ASSUME NEW x \in Request
    PROVE  /\ x.kind \in {"deposit", "withdraw", "transfer", "resting", "market", "cancel",
                          "monitor"}
           /\ x.kind \in {"deposit", "withdraw", "transfer"} =>
                  x.user \in User /\ x.asset \in Asset /\ x.amt \in Amount
                  /\ x.amt \in Int /\ -x.amt \in Int
           /\ x.kind = "transfer" =>
                  /\ x.from \in WalletType /\ x.to \in WalletType
                  /\ <<x.user, x.asset, x.from>> \in Wallet
                  /\ <<x.user, x.asset, x.to>> \in Wallet
           /\ x.kind \in {"deposit", "withdraw"} => Spot(x.user, x.asset) \in Wallet
           /\ x.kind \in {"resting", "market", "cancel"} =>
                  /\ x.id \in OrderId /\ x.row \in OrderRow
                  /\ PayWallet(x.row) \in Wallet /\ GetWallet(x.row) \in Wallet
                  /\ PayWallet(x.row) # GetWallet(x.row)
                  /\ PayAmount(x.row) \in Int /\ -PayAmount(x.row) \in Int
                  /\ GetAmount(x.row) \in Int
           /\ Touched(x) \in SUBSET Wallet /\ Written(x) \in SUBSET OrderId
<1>1. x.kind \in {"deposit", "withdraw", "transfer", "resting", "market", "cancel", "monitor"}
  BY DEF Request
<1>2. x.kind \in {"deposit", "withdraw", "transfer"} =>
          x.user \in User /\ x.asset \in Asset /\ x.amt \in Amount
          /\ x.amt \in Int /\ -x.amt \in Int
  BY ConstantsAssumption DEF Request
<1>3. x.kind = "transfer" =>
          /\ x.from \in WalletType /\ x.to \in WalletType
          /\ <<x.user, x.asset, x.from>> \in Wallet
          /\ <<x.user, x.asset, x.to>> \in Wallet
  BY <1>2 DEF Request, Wallet
<1>4. x.kind \in {"deposit", "withdraw"} => Spot(x.user, x.asset) \in Wallet
  BY <1>2 DEF Wallet, Spot, WalletType
<1>5. x.kind \in {"resting", "market", "cancel"} => x.id \in OrderId /\ x.row \in OrderRow
  BY DEF Request
<1>6. \A n \in Nat : n \in Int /\ -n \in Int
  OBVIOUS
<1>7. x.kind \in {"resting", "market", "cancel"} =>
          /\ PayWallet(x.row) \in Wallet /\ GetWallet(x.row) \in Wallet
          /\ PayWallet(x.row) # GetWallet(x.row)
          /\ PayAmount(x.row) \in Int /\ -PayAmount(x.row) \in Int
          /\ GetAmount(x.row) \in Int
  BY <1>5, <1>6, TermsTypes
<1>8. Touched(x) \in SUBSET Wallet /\ Written(x) \in SUBSET OrderId
  BY <1>1, <1>3, <1>4, <1>5, <1>7 DEF Touched, Written
<1> QED BY <1>1, <1>2, <1>3, <1>4, <1>5, <1>7, <1>8

\* A movement depends on the wallet it changes and on no other.
LEMMA MoveLocal ==
    ASSUME NEW w \in Wallet, NEW b \in Int, NEW a \in Int, NEW f \in Int,
           NEW wal \in [Wallet -> WalletRow], NEW wal2 \in [Wallet -> WalletRow]
    PROVE  \A v \in Wallet : wal[v] = wal2[v] => Move(wal, w, b, a, f)[v] = Move(wal2, w, b, a, f)[v]
BY DEF Move

\* So does what a request does to the wallets,
LEMMA BegunWalletRows ==
    ASSUME NEW x \in Request,
           NEW wal \in [Wallet -> WalletRow], NEW wal2 \in [Wallet -> WalletRow]
    PROVE  /\ BegunWallets(x, wal) \in [Wallet -> WalletRow]
           /\ \A v \in Wallet : v \notin Touched(x) => BegunWallets(x, wal)[v] = wal[v]
           /\ \A v \in Wallet : wal[v] = wal2[v] =>
                  BegunWallets(x, wal)[v] = BegunWallets(x, wal2)[v]
<1> DEFINE Keeps(new, new2, ws) ==
               /\ new \in [Wallet -> WalletRow] /\ new2 \in [Wallet -> WalletRow]
               /\ \A v \in Wallet : v \notin ws => new[v] = wal[v] /\ new2[v] = wal2[v]
               /\ \A v \in Wallet : wal[v] = wal2[v] => new[v] = new2[v]
<1>1. ASSUME NEW w \in Wallet, NEW b \in Int, NEW a \in Int, NEW f \in Int
      PROVE  Keeps(Move(wal, w, b, a, f), Move(wal2, w, b, a, f), {w})
  BY MoveRows, MoveLocal
<1>2. ASSUME NEW w \in Wallet, NEW b \in Int, NEW u \in Wallet, NEW c \in Int
      PROVE  Keeps(Move(Move(wal, w, b, b, 0), u, c, c, 0),
                   Move(Move(wal2, w, b, b, 0), u, c, c, 0), {w, u})
  <2> DEFINE m == Move(wal, w, b, b, 0)
             m2 == Move(wal2, w, b, b, 0)
  <2>1. Keeps(m, m2, {w})
    BY <1>1
  <2> HIDE DEF m, m2
  <2>2. /\ Move(m, u, c, c, 0) \in [Wallet -> WalletRow]
        /\ Move(m2, u, c, c, 0) \in [Wallet -> WalletRow]
        /\ \A v \in Wallet : v # u =>
               Move(m, u, c, c, 0)[v] = m[v] /\ Move(m2, u, c, c, 0)[v] = m2[v]
        /\ \A v \in Wallet : m[v] = m2[v] => Move(m, u, c, c, 0)[v] = Move(m2, u, c, c, 0)[v]
    BY <2>1, MoveRows, MoveLocal
  <2>3. Keeps(Move(m, u, c, c, 0), Move(m2, u, c, c, 0), {w, u})
    BY <2>1, <2>2
  <2> QED BY <2>3 DEF m, m2
<1>3. Keeps(BegunWallets(x, wal), BegunWallets(x, wal2), Touched(x))
  <2> HIDE DEF Keeps
  <2>1. CASE x.kind \in {"deposit", "withdraw"}
    BY <2>1, <1>1, Requests DEF BegunWallets, Touched
  <2>2. CASE x.kind = "transfer"
    BY <2>2, <1>2, Requests DEF BegunWallets, Touched
  <2>3. CASE x.kind \in {"resting", "cancel"}
    BY <2>3, <1>1, Requests DEF BegunWallets, Touched, Freeze, Unfreeze
  <2>4. CASE x.kind = "market"
    BY <2>4, <1>2, Requests DEF BegunWallets, Touched, SettleMarket
  <2>5. CASE x.kind = "monitor"
    BY <2>5 DEF BegunWallets, Touched, Keeps
  <2> QED BY <2>1, <2>2, <2>3, <2>4, <2>5, Requests
<1> QED BY <1>3

\* to the ledger,
LEMMA BegunLedgerRows ==
    ASSUME NEW x \in Request, NEW led \in [Wallet -> Int], NEW led2 \in [Wallet -> Int]
    PROVE  /\ BegunLedger(x, led) \in [Wallet -> Int]
           /\ \A v \in Wallet : v \notin Touched(x) => BegunLedger(x, led)[v] = led[v]
           /\ \A v \in Wallet : led[v] = led2[v] =>
                  BegunLedger(x, led)[v] = BegunLedger(x, led2)[v]
<1> DEFINE Keeps(new, new2, ws) ==
               /\ new \in [Wallet -> Int] /\ new2 \in [Wallet -> Int]
               /\ \A v \in Wallet : v \notin ws => new[v] = led[v] /\ new2[v] = led2[v]
               /\ \A v \in Wallet : led[v] = led2[v] => new[v] = new2[v]
<1>1. ASSUME NEW w \in Wallet, NEW d \in Int
      PROVE  Keeps(Enter(led, w, d), Enter(led2, w, d), {w})
  BY DEF Enter
<1>2. ASSUME NEW w \in Wallet, NEW d \in Int, NEW u \in Wallet, NEW e \in Int
      PROVE  Keeps(Enter(Enter(led, w, d), u, e), Enter(Enter(led2, w, d), u, e), {w, u})
  <2> DEFINE m == Enter(led, w, d)
             m2 == Enter(led2, w, d)
  <2>1. Keeps(m, m2, {w})
    BY <1>1
  <2> HIDE DEF m, m2
  <2>2. /\ Enter(m, u, e) \in [Wallet -> Int] /\ Enter(m2, u, e) \in [Wallet -> Int]
        /\ \A v \in Wallet : v # u => Enter(m, u, e)[v] = m[v] /\ Enter(m2, u, e)[v] = m2[v]
        /\ \A v \in Wallet : m[v] = m2[v] => Enter(m, u, e)[v] = Enter(m2, u, e)[v]
    BY <2>1 DEF Enter
  <2>3. Keeps(Enter(m, u, e), Enter(m2, u, e), {w, u})
    BY <2>1, <2>2
  <2> QED BY <2>3 DEF m, m2
<1>3. Keeps(BegunLedger(x, led), BegunLedger(x, led2), Touched(x))
  <2> HIDE DEF Keeps
  <2>1. CASE x.kind \in {"deposit", "withdraw"}
    BY <2>1, <1>1, Requests DEF BegunLedger, Touched
  <2>2. CASE x.kind = "transfer"
    BY <2>2, <1>2, Requests DEF BegunLedger, Touched
  <2>3. CASE x.kind \in {"resting", "cancel", "monitor"}
    BY <2>3 DEF BegunLedger, Keeps
  <2>4. CASE x.kind = "market"
    BY <2>4, <1>2, Requests DEF BegunLedger, Touched
  <2> QED BY <2>1, <2>2, <2>3, <2>4, Requests
<1> QED BY <1>3

\* and to the orders and their trades.
LEMMA BegunOrderRows ==
    ASSUME NEW x \in Request, NEW ord \in [OrderId -> Row], NEW trd \in [OrderId -> Nat]
    PROVE  /\ BegunOrders(x, ord) \in [OrderId -> Row]
           /\ BegunTrades(x, trd) \in [OrderId -> Nat]
           /\ \A o \in OrderId : o \notin Written(x) =>
                  BegunOrders(x, ord)[o] = ord[o] /\ BegunTrades(x, trd)[o] = trd[o]
           /\ x.kind \in {"resting", "market"} => BegunOrders(x, ord)[x.id] = x.row
           /\ x.kind = "cancel" => SameTerms(BegunOrders(x, ord)[x.id], x.row)
<1>1. x.kind \in {"resting", "market", "cancel"} =>
          x.row \in Row /\ [x.row EXCEPT !.status = "cancelled"] \in Row
  BY Requests, Closing DEF Row, Status
<1>2. /\ BegunOrders(x, ord) \in [OrderId -> Row]
      /\ BegunTrades(x, trd) \in [OrderId -> Nat]
      /\ \A o \in OrderId : o \notin Written(x) =>
             BegunOrders(x, ord)[o] = ord[o] /\ BegunTrades(x, trd)[o] = trd[o]
      /\ x.kind \in {"resting", "market"} => BegunOrders(x, ord)[x.id] = x.row
      /\ x.kind = "cancel" =>
             BegunOrders(x, ord)[x.id] = [x.row EXCEPT !.status = "cancelled"]
  BY <1>1, Requests DEF BegunOrders, BegunTrades, Written
<1>3. x.kind = "cancel" => SameTerms(BegunOrders(x, ord)[x.id], x.row)
  BY <1>2, Requests, Closing DEF Status
<1> QED BY <1>2, <1>3

LEMMA BegunRows ==
    ASSUME NEW x \in Request, NEW C \in Database
    PROVE  /\ Begun(x, C) \in Database
           /\ \A w \in Wallet : w \notin Touched(x) =>
                  Begun(x, C).wallet[w] = C.wallet[w] /\ Begun(x, C).ledger[w] = C.ledger[w]
           /\ \A o \in OrderId : o \notin Written(x) =>
                  Begun(x, C).order[o] = C.order[o] /\ Begun(x, C).trades[o] = C.trades[o]
           /\ x.kind \in {"resting", "market"} => Begun(x, C).order[x.id] = x.row
           /\ x.kind = "cancel" => SameTerms(Begun(x, C).order[x.id], x.row)
<1>1. /\ C.wallet \in [Wallet -> WalletRow] /\ C.order \in [OrderId -> Row]
      /\ C.trades \in [OrderId -> Nat] /\ C.ledger \in [Wallet -> Int]
  BY DEF Database
<1>2. /\ BegunWallets(x, C.wallet) \in [Wallet -> WalletRow]
      /\ \A v \in Wallet : v \notin Touched(x) => BegunWallets(x, C.wallet)[v] = C.wallet[v]
  BY <1>1, BegunWalletRows
<1>3. /\ BegunLedger(x, C.ledger) \in [Wallet -> Int]
      /\ \A v \in Wallet : v \notin Touched(x) => BegunLedger(x, C.ledger)[v] = C.ledger[v]
  BY <1>1, BegunLedgerRows
<1>4. /\ BegunOrders(x, C.order) \in [OrderId -> Row]
      /\ BegunTrades(x, C.trades) \in [OrderId -> Nat]
      /\ \A o \in OrderId : o \notin Written(x) =>
             /\ BegunOrders(x, C.order)[o] = C.order[o]
             /\ BegunTrades(x, C.trades)[o] = C.trades[o]
      /\ x.kind \in {"resting", "market"} => BegunOrders(x, C.order)[x.id] = x.row
      /\ x.kind = "cancel" => SameTerms(BegunOrders(x, C.order)[x.id], x.row)
  BY <1>1, BegunOrderRows
<1>5. /\ Begun(x, C).wallet = BegunWallets(x, C.wallet)
      /\ Begun(x, C).order = BegunOrders(x, C.order)
      /\ Begun(x, C).trades = BegunTrades(x, C.trades)
      /\ Begun(x, C).ledger = BegunLedger(x, C.ledger)
      /\ Begun(x, C) = [wallet |-> BegunWallets(x, C.wallet), order |-> BegunOrders(x, C.order),
                        trades |-> BegunTrades(x, C.trades), ledger |-> BegunLedger(x, C.ledger)]
  BY DEF Begun
<1>6. Begun(x, C) \in Database
  BY <1>2, <1>3, <1>4, <1>5 DEF Database
<1> QED BY <1>2, <1>3, <1>4, <1>5, <1>6

\* What it makes of a row depends on that row only.
LEMMA BegunLocal ==
    ASSUME NEW x \in Request, NEW C \in Database, NEW C2 \in Database
    PROVE  /\ \A w \in Wallet : C.wallet[w] = C2.wallet[w] =>
                  Begun(x, C).wallet[w] = Begun(x, C2).wallet[w]
           /\ \A w \in Wallet : C.ledger[w] = C2.ledger[w] =>
                  Begun(x, C).ledger[w] = Begun(x, C2).ledger[w]
           /\ \A o \in OrderId : C.order[o] = C2.order[o] =>
                  Begun(x, C).order[o] = Begun(x, C2).order[o]
           /\ \A o \in OrderId : C.trades[o] = C2.trades[o] =>
                  Begun(x, C).trades[o] = Begun(x, C2).trades[o]
<1>1. /\ C.wallet \in [Wallet -> WalletRow] /\ C2.wallet \in [Wallet -> WalletRow]
      /\ C.order \in [OrderId -> Row] /\ C2.order \in [OrderId -> Row]
      /\ C.trades \in [OrderId -> Nat] /\ C2.trades \in [OrderId -> Nat]
      /\ C.ledger \in [Wallet -> Int] /\ C2.ledger \in [Wallet -> Int]
  BY DEF Database
<1>2. \A w \in Wallet : C.wallet[w] = C2.wallet[w] =>
          BegunWallets(x, C.wallet)[w] = BegunWallets(x, C2.wallet)[w]
  BY <1>1, BegunWalletRows
<1>3. \A w \in Wallet : C.ledger[w] = C2.ledger[w] =>
          BegunLedger(x, C.ledger)[w] = BegunLedger(x, C2.ledger)[w]
  BY <1>1, BegunLedgerRows
<1>4. /\ \A o \in OrderId : C.order[o] = C2.order[o] =>
             BegunOrders(x, C.order)[o] = BegunOrders(x, C2.order)[o]
      /\ \A o \in OrderId : C.trades[o] = C2.trades[o] =>
             BegunTrades(x, C.trades)[o] = BegunTrades(x, C2.trades)[o]
  BY <1>1 DEF BegunOrders, BegunTrades
<1> QED BY <1>2, <1>3, <1>4 DEF Begun

-----------------------------------------------------------------------------
(* Fills.                                                                  *)

OpenRows(ord) == {o \in OrderId : IsOpen(ord[o])}

\* Fills pay and get nothing in wallets they do not name.
LEMMA NoTotals ==
    ASSUME NEW ord \in [OrderId -> Row], NEW F \in SUBSET OrderId, NEW w \in Wallet,
           \A o \in F : w # PayWallet(ord[o]) /\ w # GetWallet(ord[o])
    PROVE  TotalPaid(ord, F, w) = 0 /\ TotalGot(ord, F, w) = 0
<1> DEFINE zero == [o \in OrderId |-> 0]
<1>1. /\ [o \in OrderId |-> IF o \in F THEN Paid(ord[o], w) ELSE 0] = zero
      /\ [o \in OrderId |-> IF o \in F THEN Got(ord[o], w) ELSE 0] = zero
  BY DEF Paid, Got
<1>2. zero \in [1 .. MaxOrders -> Int] /\ (\A i \in 1 .. MaxOrders : zero[i] = 0)
  BY DEF OrderId
<1> HIDE DEF zero
<1>3. Sum(zero, MaxOrders) = 0
  BY <1>2, SumZero, ConstantsAssumption
<1> QED BY <1>1, <1>3 DEF TotalPaid, TotalGot

\* What they pay and get depends on the rows filled only.
LEMMA SameTotals ==
    ASSUME NEW ord, NEW ord2, NEW F \in SUBSET OrderId, NEW w,
           \A o \in F : ord[o] = ord2[o]
    PROVE  TotalPaid(ord, F, w) = TotalPaid(ord2, F, w) /\ TotalGot(ord, F, w) = TotalGot(ord2, F, w)
<1>1. /\ [o \in OrderId |-> IF o \in F THEN Paid(ord[o], w) ELSE 0]
             = [o \in OrderId |-> IF o \in F THEN Paid(ord2[o], w) ELSE 0]
      /\ [o \in OrderId |-> IF o \in F THEN Got(ord[o], w) ELSE 0]
             = [o \in OrderId |-> IF o \in F THEN Got(ord2[o], w) ELSE 0]
  OBVIOUS
<1> QED BY <1>1 DEF TotalPaid, TotalGot

\* One more fill adds what its order pays and gets, whatever else is filled.
LEMMA OneMore ==
    ASSUME NEW ord \in [OrderId -> Row], NEW ord2 \in [OrderId -> Row],
           NEW k \in OrderId, IsOpen(ord[k]), ord2[k] = ord[k],
           NEW F \in SUBSET OpenRows(ord), k \notin F, NEW w \in Wallet
    PROVE  /\ TotalPaid(ord, F \cup {k}, w) = TotalPaid(ord, F, w) + TotalPaid(ord2, {k}, w)
           /\ TotalGot(ord, F \cup {k}, w) = TotalGot(ord, F, w) + TotalGot(ord2, {k}, w)
<1>1. \A o \in F \cup {k} : o \in OrderId /\ ord[o] \in OrderRow
  BY OpenRow DEF OpenRows, Row
<1>2. \A o \in F \cup {k} : Paid(ord[o], w) \in Int /\ Got(ord[o], w) \in Int
  BY <1>1, TermsTypes
<1> DEFINE p == [o \in OrderId |-> IF o \in F THEN Paid(ord[o], w) ELSE 0]
           dp == [o \in OrderId |-> IF o \in {k} THEN Paid(ord2[o], w) ELSE 0]
           np == [o \in OrderId |-> IF o \in F \cup {k} THEN Paid(ord[o], w) ELSE 0]
           g == [o \in OrderId |-> IF o \in F THEN Got(ord[o], w) ELSE 0]
           dg == [o \in OrderId |-> IF o \in {k} THEN Got(ord2[o], w) ELSE 0]
           ng == [o \in OrderId |-> IF o \in F \cup {k} THEN Got(ord[o], w) ELSE 0]
<1>3. /\ p \in [1 .. MaxOrders -> Int] /\ dp \in [1 .. MaxOrders -> Int]
      /\ np \in [1 .. MaxOrders -> Int]
      /\ \A i \in 1 .. MaxOrders : np[i] = p[i] + dp[i]
  BY <1>2 DEF OrderId
<1>4. /\ g \in [1 .. MaxOrders -> Int] /\ dg \in [1 .. MaxOrders -> Int]
      /\ ng \in [1 .. MaxOrders -> Int]
      /\ \A i \in 1 .. MaxOrders : ng[i] = g[i] + dg[i]
  BY <1>2 DEF OrderId
<1>5. /\ Sum(p, MaxOrders) = TotalPaid(ord, F, w)
      /\ Sum(dp, MaxOrders) = TotalPaid(ord2, {k}, w)
      /\ Sum(np, MaxOrders) = TotalPaid(ord, F \cup {k}, w)
      /\ Sum(g, MaxOrders) = TotalGot(ord, F, w)
      /\ Sum(dg, MaxOrders) = TotalGot(ord2, {k}, w)
      /\ Sum(ng, MaxOrders) = TotalGot(ord, F \cup {k}, w)
  BY DEF TotalPaid, TotalGot
<1> HIDE DEF p, dp, np, g, dg, ng
<1>6. Sum(np, MaxOrders) = Sum(p, MaxOrders) + Sum(dp, MaxOrders)
  BY <1>3, SumAdd, ConstantsAssumption
<1>7. Sum(ng, MaxOrders) = Sum(g, MaxOrders) + Sum(dg, MaxOrders)
  BY <1>4, SumAdd, ConstantsAssumption
<1> QED BY <1>5, <1>6, <1>7

LEMMA Totals ==
    ASSUME NEW ord \in [OrderId -> Row], NEW F \in SUBSET OpenRows(ord), NEW w \in Wallet
    PROVE  TotalPaid(ord, F, w) \in Int /\ TotalGot(ord, F, w) \in Int
<1>1. ord \in [OrderId -> OrderRow \cup {Unused}] /\ F \in SUBSET {o \in OrderId : IsOpen(ord[o])}
  BY DEF Row, OpenRows
<1>2. TotalPaid(ord, F, w) \in Nat /\ TotalGot(ord, F, w) \in Nat
  BY <1>1, TotalTypes
<1> QED BY <1>2

\* Fills change the wallets they name
LEMMA FilledWalletRows ==
    ASSUME NEW wal \in [Wallet -> WalletRow], NEW led \in [Wallet -> Int],
           NEW ord \in [OrderId -> Row], NEW F \in SUBSET OpenRows(ord)
    PROVE  /\ FillWallets(wal, ord, F) \in [Wallet -> WalletRow]
           /\ FillLedger(led, ord, F) \in [Wallet -> Int]
           /\ \A w \in Wallet :
                  (\A o \in F : w # PayWallet(ord[o]) /\ w # GetWallet(ord[o])) =>
                      FillWallets(wal, ord, F)[w] = wal[w] /\ FillLedger(led, ord, F)[w] = led[w]
<1>1. ASSUME NEW w \in Wallet
      PROVE  /\ wal[w].balance \in Int /\ wal[w].available \in Int /\ wal[w].frozen \in Int
             /\ wal[w] = [balance |-> wal[w].balance, available |-> wal[w].available,
                          frozen |-> wal[w].frozen]
  BY DEF WalletRow
<1>2. \A w \in Wallet : TotalPaid(ord, F, w) \in Int /\ TotalGot(ord, F, w) \in Int
  BY Totals
<1>3. FillWallets(wal, ord, F) \in [Wallet -> WalletRow]
  BY <1>1, <1>2 DEF FillWallets, WalletRow
<1>4. FillLedger(led, ord, F) \in [Wallet -> Int]
  BY <1>2 DEF FillLedger
<1>5. ASSUME NEW w \in Wallet, \A o \in F : w # PayWallet(ord[o]) /\ w # GetWallet(ord[o])
      PROVE  FillWallets(wal, ord, F)[w] = wal[w] /\ FillLedger(led, ord, F)[w] = led[w]
  <2>1. TotalPaid(ord, F, w) = 0 /\ TotalGot(ord, F, w) = 0
    BY <1>5, NoTotals DEF OpenRows
  <2> QED BY <1>1, <2>1 DEF FillWallets, FillLedger
<1> QED BY <1>3, <1>4, <1>5

\* and the orders filled.
LEMMA FilledRows ==
    ASSUME NEW B \in Database, NEW F \in SUBSET OpenRows(B.order)
    PROVE  /\ Filled(B, F) \in Database
           /\ \A w \in Wallet :
                  (\A o \in F : w # PayWallet(B.order[o]) /\ w # GetWallet(B.order[o])) =>
                      /\ Filled(B, F).wallet[w] = B.wallet[w]
                      /\ Filled(B, F).ledger[w] = B.ledger[w]
           /\ \A o \in OrderId : o \notin F =>
                  Filled(B, F).order[o] = B.order[o] /\ Filled(B, F).trades[o] = B.trades[o]
           /\ \A o \in F : /\ B.order[o] \in OrderRow
                           /\ Filled(B, F).order[o].status = "filled"
                           /\ SameTerms(Filled(B, F).order[o], B.order[o])
<1>1. /\ B.wallet \in [Wallet -> WalletRow] /\ B.order \in [OrderId -> Row]
      /\ B.trades \in [OrderId -> Nat] /\ B.ledger \in [Wallet -> Int]
      /\ F \in SUBSET OrderId
  BY DEF Database, OpenRows
<1>4. \A o \in F : B.order[o] \in OrderRow
  BY <1>1, OpenRow DEF OpenRows, Row
<1>5. \A o \in F : [B.order[o] EXCEPT !.status = "filled"] \in Row
  BY <1>4, Closing DEF Row, Status
<1>6. /\ FillWallets(B.wallet, B.order, F) \in [Wallet -> WalletRow]
      /\ FillLedger(B.ledger, B.order, F) \in [Wallet -> Int]
      /\ \A w \in Wallet :
             (\A o \in F : w # PayWallet(B.order[o]) /\ w # GetWallet(B.order[o])) =>
                 /\ FillWallets(B.wallet, B.order, F)[w] = B.wallet[w]
                 /\ FillLedger(B.ledger, B.order, F)[w] = B.ledger[w]
  BY <1>1, FilledWalletRows
<1>7. /\ FillOrders(B.order, F) \in [OrderId -> Row]
      /\ FillTrades(B.trades, F) \in [OrderId -> Nat]
  BY <1>1, <1>5 DEF FillOrders, FillTrades
<1>8. Filled(B, F) \in Database
  BY <1>6, <1>7 DEF Filled, Database
<1>9. \A w \in Wallet :
          (\A o \in F : w # PayWallet(B.order[o]) /\ w # GetWallet(B.order[o])) =>
              Filled(B, F).wallet[w] = B.wallet[w] /\ Filled(B, F).ledger[w] = B.ledger[w]
  BY <1>6 DEF Filled
<1>10. /\ \A o \in OrderId : o \notin F =>
              Filled(B, F).order[o] = B.order[o] /\ Filled(B, F).trades[o] = B.trades[o]
  BY <1>1 DEF Filled, FillOrders, FillTrades
<1>11. ASSUME NEW o \in F
       PROVE  Filled(B, F).order[o].status = "filled" /\ SameTerms(Filled(B, F).order[o], B.order[o])
  <2>1. PICK t \in OrderRow : t = B.order[o]
    BY <1>4
  <2>2. Filled(B, F).order[o] = [t EXCEPT !.status = "filled"]
    BY <1>1, <2>1 DEF Filled, FillOrders
  <2> QED BY <2>1, <2>2, Closing DEF Status
<1> QED BY <1>4, <1>8, <1>9, <1>10, <1>11

\* What they make of a row depends on that row and the orders filled.
LEMMA FilledLocal ==
    ASSUME NEW B, NEW B2, NEW F \in SUBSET OrderId, \A o \in F : B.order[o] = B2.order[o]
    PROVE  /\ \A w \in Wallet : B.wallet[w] = B2.wallet[w] =>
                  Filled(B, F).wallet[w] = Filled(B2, F).wallet[w]
           /\ \A w \in Wallet : B.ledger[w] = B2.ledger[w] =>
                  Filled(B, F).ledger[w] = Filled(B2, F).ledger[w]
           /\ \A o \in OrderId : B.order[o] = B2.order[o] =>
                  Filled(B, F).order[o] = Filled(B2, F).order[o]
           /\ \A o \in OrderId : B.trades[o] = B2.trades[o] =>
                  Filled(B, F).trades[o] = Filled(B2, F).trades[o]
<1>1. \A w \in Wallet : /\ TotalPaid(B.order, F, w) = TotalPaid(B2.order, F, w)
                        /\ TotalGot(B.order, F, w) = TotalGot(B2.order, F, w)
  BY SameTotals
<1> QED BY <1>1 DEF Filled, FillWallets, FillOrders, FillTrades, FillLedger

\* Filling F and then k is filling both.
LEMMA FilledMore ==
    ASSUME NEW B \in Database, NEW F \in SUBSET OpenRows(B.order),
           NEW k \in OpenRows(B.order), k \notin F
    PROVE  Filled(Filled(B, F), {k}) = Filled(B, F \cup {k})
<1> DEFINE M == Filled(B, F)
           G == F \cup {k}
           K == {k}
           p == [w \in Wallet |-> TotalPaid(B.order, F, w)]
           g == [w \in Wallet |-> TotalGot(B.order, F, w)]
           dp == [w \in Wallet |-> TotalPaid(M.order, K, w)]
           dg == [w \in Wallet |-> TotalGot(M.order, K, w)]
<1>1. /\ B.wallet \in [Wallet -> WalletRow] /\ B.order \in [OrderId -> Row]
      /\ B.ledger \in [Wallet -> Int] /\ k \in OrderId /\ IsOpen(B.order[k])
  BY DEF Database, OpenRows
<1>2. M \in Database /\ M.order[k] = B.order[k]
  BY <1>1, FilledRows
<1>3. M.order \in [OrderId -> Row] /\ K \in SUBSET OpenRows(M.order)
  BY <1>1, <1>2 DEF Database, OpenRows
<1>4. p \in [Wallet -> Int] /\ g \in [Wallet -> Int]
  BY <1>1, Totals
<1>5. dp \in [Wallet -> Int] /\ dg \in [Wallet -> Int]
  <2> HIDE DEF M, K
  <2> QED BY <1>3, Totals
<1>6. \A w \in Wallet : /\ TotalPaid(B.order, G, w) = p[w] + dp[w]
                        /\ TotalGot(B.order, G, w) = g[w] + dg[w]
  <2> HIDE DEF M
  <2>1. ASSUME NEW w \in Wallet
        PROVE  /\ TotalPaid(B.order, F \cup {k}, w)
                      = TotalPaid(B.order, F, w) + TotalPaid(M.order, {k}, w)
               /\ TotalGot(B.order, F \cup {k}, w)
                      = TotalGot(B.order, F, w) + TotalGot(M.order, {k}, w)
    <3> DEFINE ord == B.order
               ord2 == M.order
    <3> HIDE DEF G, K, p, g, dp, dg
    <3>1. /\ ord \in [OrderId -> Row] /\ ord2 \in [OrderId -> Row] /\ k \in OrderId
          /\ IsOpen(ord[k]) /\ ord2[k] = ord[k] /\ F \in SUBSET OpenRows(ord) /\ k \notin F
      BY <1>1, <1>2, <1>3
    <3> HIDE DEF ord, ord2
    <3>2. /\ TotalPaid(ord, F \cup {k}, w) = TotalPaid(ord, F, w) + TotalPaid(ord2, {k}, w)
          /\ TotalGot(ord, F \cup {k}, w) = TotalGot(ord, F, w) + TotalGot(ord2, {k}, w)
      BY <3>1, OneMore
    <3> QED BY <3>2 DEF ord, ord2
  <2> QED BY <2>1
<1>7. M = [wallet |-> [w \in Wallet |->
                          [balance |-> B.wallet[w].balance - p[w] + g[w],
                           available |-> B.wallet[w].available + g[w],
                           frozen |-> B.wallet[w].frozen - p[w]]],
           order |-> FillOrders(B.order, F), trades |-> FillTrades(B.trades, F),
           ledger |-> [w \in Wallet |-> B.ledger[w] - p[w] + g[w]]]
  BY DEF Filled, FillWallets, FillLedger
<1>8. \A w \in Wallet : /\ TotalPaid(M.order, K, w) = dp[w] /\ TotalGot(M.order, K, w) = dg[w]
  OBVIOUS
<1>9. ASSUME NEW w \in Wallet
      PROVE  /\ B.wallet[w].balance \in Int /\ B.wallet[w].available \in Int
             /\ B.wallet[w].frozen \in Int /\ B.ledger[w] \in Int
  BY <1>1 DEF WalletRow
<1> HIDE DEF M, G, K, p, g, dp, dg
<1>10. FillWallets(M.wallet, M.order, K) = FillWallets(B.wallet, B.order, G)
  <2>1. ASSUME NEW w \in Wallet
        PROVE  /\ M.wallet[w].balance - dp[w] + dg[w]
                      = B.wallet[w].balance - (p[w] + dp[w]) + (g[w] + dg[w])
               /\ M.wallet[w].available + dg[w] = B.wallet[w].available + (g[w] + dg[w])
               /\ M.wallet[w].frozen - dp[w] = B.wallet[w].frozen - (p[w] + dp[w])
    <3>1. /\ M.wallet[w].balance = B.wallet[w].balance - p[w] + g[w]
          /\ M.wallet[w].available = B.wallet[w].available + g[w]
          /\ M.wallet[w].frozen = B.wallet[w].frozen - p[w]
      BY <1>7
    <3>2. p[w] \in Int /\ g[w] \in Int /\ dp[w] \in Int /\ dg[w] \in Int
      BY <1>4, <1>5
    <3> QED BY <1>9, <3>1, <3>2
  <2> QED BY <1>6, <1>8, <2>1 DEF FillWallets
<1>11. FillLedger(M.ledger, M.order, K) = FillLedger(B.ledger, B.order, G)
  <2>1. ASSUME NEW w \in Wallet
        PROVE  M.ledger[w] - dp[w] + dg[w] = B.ledger[w] - (p[w] + dp[w]) + (g[w] + dg[w])
    <3>1. M.ledger[w] = B.ledger[w] - p[w] + g[w]
      BY <1>7
    <3>2. p[w] \in Int /\ g[w] \in Int /\ dp[w] \in Int /\ dg[w] \in Int
      BY <1>4, <1>5
    <3> QED BY <1>9, <3>1, <3>2
  <2> QED BY <1>6, <1>8, <2>1 DEF FillLedger
<1>12. /\ FillOrders(M.order, K) = FillOrders(B.order, G)
       /\ FillTrades(M.trades, K) = FillTrades(B.trades, G)
  BY <1>7 DEF FillOrders, FillTrades, G, K
<1>13. Filled(M, K) = Filled(B, G)
  BY <1>10, <1>11, <1>12 DEF Filled
<1> QED BY <1>13 DEF M, G, K

-----------------------------------------------------------------------------
(* What a transaction does.                                                *)

\* Without fills, a transaction does what its request does by itself.
LEMMA DoesBegin ==
    ASSUME NEW x \in Request, x.kind \in Kinds, NEW C \in Database, NEW D \in Database,
           NEW ws \in SUBSET Wallet, NEW os \in SUBSET OrderId,
           Touched(x) \subseteq ws, Written(x) \subseteq os, Allowed(x, C),
           Agree(D, Begun(x, C), ws, os)
    PROVE  Does(x, {}, C, D, ws, os)
<1> DEFINE B == Begun(x, C)
<1>1. B \in Database
  BY BegunRows
<1> HIDE DEF B
<1>2. {} \in SUBSET OpenRows(B.order)
  OBVIOUS
<1>3. /\ \A w \in Wallet : Filled(B, {}).wallet[w] = B.wallet[w]
                           /\ Filled(B, {}).ledger[w] = B.ledger[w]
      /\ \A o \in OrderId : Filled(B, {}).order[o] = B.order[o]
                            /\ Filled(B, {}).trades[o] = B.trades[o]
  BY <1>1, <1>2, FilledRows
<1>4. Agree(D, Filled(B, {}), ws, os)
  BY <1>3 DEF Agree, B
<1> QED BY <1>4 DEF Does, B

\* The orders filled are open once the request has begun.
LEMMA DoesOpen ==
    ASSUME NEW x \in Request, NEW F, NEW C \in Database, NEW D \in Database,
           NEW ws \in SUBSET Wallet, NEW os \in SUBSET OrderId, Does(x, F, C, D, ws, os)
    PROVE  /\ Begun(x, C) \in Database
           /\ F \in SUBSET OpenRows(Begun(x, C).order)
           /\ Filled(Begun(x, C), F) \in Database
<1>1. Begun(x, C) \in Database
  BY BegunRows
<1>2. F \in SUBSET OpenRows(Begun(x, C).order)
  BY DEF Does, Fillable, OpenRows
<1>3. Filled(Begun(x, C), F) \in Database
  <2> HIDE DEF Begun
  <2> QED BY <1>1, <1>2, FilledRows
<1> QED BY <1>1, <1>2, <1>3

\* Rows a session has just locked are as committed, and it has yet to write
\* them.
LEMMA DoesGrow ==
    ASSUME NEW x \in Request, NEW F, NEW C \in Database, NEW D \in Database,
           NEW ws \in SUBSET Wallet, NEW os \in SUBSET OrderId, Does(x, F, C, D, ws, os),
           NEW ws2 \in SUBSET Wallet, NEW os2 \in SUBSET OrderId,
           ws \subseteq ws2, os \subseteq os2, Agree(D, C, ws2 \ ws, os2 \ os)
    PROVE  Does(x, F, C, D, ws2, os2)
<1> DEFINE B == Begun(x, C)
<1>1. B \in Database /\ F \in SUBSET OpenRows(B.order)
  BY DoesOpen
<1>2. /\ \A w \in Wallet : w \notin Touched(x) =>
             B.wallet[w] = C.wallet[w] /\ B.ledger[w] = C.ledger[w]
      /\ \A o \in OrderId : o \notin Written(x) =>
             B.order[o] = C.order[o] /\ B.trades[o] = C.trades[o]
  BY BegunRows
<1>3. /\ Touched(x) \subseteq ws /\ Written(x) \subseteq os /\ F \subseteq os
      /\ \A o \in F : {PayWallet(B.order[o]), GetWallet(B.order[o])} \subseteq ws
      /\ Agree(D, Filled(B, F), ws, os)
  BY DEF Does
<1> HIDE DEF B
<1>4. /\ \A w \in Wallet \ ws : Filled(B, F).wallet[w] = C.wallet[w]
                                /\ Filled(B, F).ledger[w] = C.ledger[w]
      /\ \A o \in OrderId \ os : Filled(B, F).order[o] = C.order[o]
                                 /\ Filled(B, F).trades[o] = C.trades[o]
  <2>1. /\ \A w \in Wallet :
               (\A o \in F : w # PayWallet(B.order[o]) /\ w # GetWallet(B.order[o])) =>
                   Filled(B, F).wallet[w] = B.wallet[w] /\ Filled(B, F).ledger[w] = B.ledger[w]
        /\ \A o \in OrderId : o \notin F =>
               Filled(B, F).order[o] = B.order[o] /\ Filled(B, F).trades[o] = B.trades[o]
    BY <1>1, FilledRows
  <2>2. \A w \in Wallet \ ws : \A o \in F : w # PayWallet(B.order[o]) /\ w # GetWallet(B.order[o])
    BY <1>3
  <2> QED BY <1>2, <1>3, <2>1, <2>2
<1>5. Agree(D, Filled(B, F), ws2, os2)
  BY <1>3, <1>4 DEF Agree
<1>6. /\ x.kind \in Kinds /\ Touched(x) \subseteq ws2 /\ Written(x) \subseteq os2
      /\ Allowed(x, C) /\ F \subseteq os2
      /\ \A o \in F :
             /\ o \in Fillable(B.order, Sweeps(x))
             /\ x.kind = "monitor" => Conditional(C.order[o])
             /\ {PayWallet(B.order[o]), GetWallet(B.order[o])} \subseteq ws2
  BY <1>3 DEF Does, B
<1> QED BY <1>5, <1>6 DEF Does, B

\* Filling one more of the orders it has locked.
LEMMA DoesFill ==
    ASSUME NEW x \in Request, NEW F, NEW C \in Database, NEW D \in Database,
           NEW ws \in SUBSET Wallet, NEW os \in SUBSET OrderId, Does(x, F, C, D, ws, os),
           NEW k \in os, IsOpen(D.order[k]), D.order[k].user \in Sweeps(x),
           \E live \in Price : Triggered(D.order[k], live),
           x.kind = "monitor" => Conditional(D.order[k]),
           {PayWallet(D.order[k]), GetWallet(D.order[k])} \subseteq ws
    PROVE  Does(x, F \cup {k}, C, Filled(D, {k}), ws, os)
<1> DEFINE B == Begun(x, C)
           G == F \cup {k}
<1>1. B \in Database /\ F \in SUBSET OpenRows(B.order)
  BY DoesOpen
<1>2. /\ Touched(x) \subseteq ws /\ Written(x) \subseteq os /\ F \subseteq os
      /\ \A o \in F :
             /\ o \in Fillable(B.order, Sweeps(x))
             /\ x.kind = "monitor" => Conditional(C.order[o])
             /\ {PayWallet(B.order[o]), GetWallet(B.order[o])} \subseteq ws
      /\ Agree(D, Filled(B, F), ws, os)
      /\ x.kind \in Kinds /\ Allowed(x, C)
  BY DEF Does
<1>3. x.kind = "monitor" => B.order = C.order
  BY DEF Begun, BegunOrders
<1> HIDE DEF B
<1>4. k \notin F /\ B.order[k] = D.order[k]
  <2>1. /\ \A o \in OrderId : o \notin F => Filled(B, F).order[o] = B.order[o]
        /\ \A o \in F : Filled(B, F).order[o].status = "filled"
    BY <1>1, FilledRows
  <2>2. D.order[k] = Filled(B, F).order[k]
    BY <1>2 DEF Agree
  <2> QED BY <2>1, <2>2 DEF IsOpen
<1>5. k \in OpenRows(B.order) /\ k \in Fillable(B.order, Sweeps(x))
  BY <1>4 DEF OpenRows, Fillable
<1>6. Filled(Filled(B, F), {k}) = Filled(B, G)
  BY <1>1, <1>4, <1>5, FilledMore
<1>7. Agree(Filled(D, {k}), Filled(Filled(B, F), {k}), ws, os)
  <2> DEFINE M == Filled(B, F)
             K == {k}
  <2>1. Agree(D, M, ws, os)
    BY <1>2
  <2> HIDE DEF M
  <2>2. \A o \in K : D.order[o] = M.order[o]
    BY <2>1 DEF Agree
  <2>3. K \in SUBSET OrderId
    OBVIOUS
  <2> HIDE DEF K
  <2>4. /\ \A w \in Wallet : D.wallet[w] = M.wallet[w] =>
               Filled(D, K).wallet[w] = Filled(M, K).wallet[w]
        /\ \A w \in Wallet : D.ledger[w] = M.ledger[w] =>
               Filled(D, K).ledger[w] = Filled(M, K).ledger[w]
        /\ \A o \in OrderId : D.order[o] = M.order[o] =>
               Filled(D, K).order[o] = Filled(M, K).order[o]
        /\ \A o \in OrderId : D.trades[o] = M.trades[o] =>
               Filled(D, K).trades[o] = Filled(M, K).trades[o]
    BY <2>2, <2>3, FilledLocal
  <2>5. Agree(Filled(D, K), Filled(M, K), ws, os)
    BY <2>1, <2>4 DEF Agree
  <2> QED BY <2>5 DEF M, K
<1>8. \A o \in G :
          /\ o \in Fillable(B.order, Sweeps(x))
          /\ x.kind = "monitor" => Conditional(C.order[o])
          /\ {PayWallet(B.order[o]), GetWallet(B.order[o])} \subseteq ws
  BY <1>2, <1>3, <1>4, <1>5
<1> QED BY <1>2, <1>6, <1>7, <1>8 DEF Does, B, G

\* Others' commits change none of the rows it has locked, nor the balance a
\* deposit was measured against.
LEMMA DoesFrame ==
    ASSUME NEW x \in Request, NEW F, NEW C \in Database, NEW D \in Database,
           NEW ws \in SUBSET Wallet, NEW os \in SUBSET OrderId, Does(x, F, C, D, ws, os),
           NEW C2 \in Database, NEW D2 \in Database,
           Agree(C, C2, ws, os), Agree(D, D2, ws, os),
           \A u \in User, a \in Asset : Spot(u, a) \in ws =>
               C.wallet[<<u, a, "funding">>] = C2.wallet[<<u, a, "funding">>]
    PROVE  Does(x, F, C2, D2, ws, os)
<1> DEFINE B == Begun(x, C)
           B2 == Begun(x, C2)
<1>1. /\ Touched(x) \subseteq ws /\ Written(x) \subseteq os /\ F \subseteq os
      /\ \A o \in F :
             /\ o \in Fillable(B.order, Sweeps(x))
             /\ x.kind = "monitor" => Conditional(C.order[o])
             /\ {PayWallet(B.order[o]), GetWallet(B.order[o])} \subseteq ws
      /\ Agree(D, Filled(B, F), ws, os)
      /\ x.kind \in Kinds /\ Allowed(x, C)
  BY DEF Does
<1>2. Agree(B, B2, ws, os)
  <2>1. /\ \A w \in Wallet : C.wallet[w] = C2.wallet[w] => B.wallet[w] = B2.wallet[w]
        /\ \A w \in Wallet : C.ledger[w] = C2.ledger[w] => B.ledger[w] = B2.ledger[w]
        /\ \A o \in OrderId : C.order[o] = C2.order[o] => B.order[o] = B2.order[o]
        /\ \A o \in OrderId : C.trades[o] = C2.trades[o] => B.trades[o] = B2.trades[o]
    BY BegunLocal
  <2> HIDE DEF B, B2
  <2> QED BY <2>1 DEF Agree
<1>3. Allowed(x, C2)
  <2>1. CASE x.kind = "deposit"
    <3>1. Spot(x.user, x.asset) \in ws /\ x.user \in User /\ x.asset \in Asset
      BY <1>1, <2>1, Requests DEF Touched
    <3> QED BY <1>1, <2>1, <3>1 DEF Allowed, Agree
  <2>2. CASE x.kind = "withdraw"
    BY <1>1, <2>2 DEF Allowed, Agree, Touched
  <2>3. CASE x.kind = "transfer"
    BY <1>1, <2>3 DEF Allowed, Agree, Touched
  <2>4. CASE x.kind \in {"resting", "market", "cancel"}
    BY <1>1, <2>4 DEF Allowed, Agree, Touched, Written
  <2>5. CASE x.kind = "monitor"
    BY <2>5 DEF Allowed
  <2> QED BY <2>1, <2>2, <2>3, <2>4, <2>5, Requests
<1> HIDE DEF B, B2
<1>4. \A o \in F : B.order[o] = B2.order[o] /\ C.order[o] = C2.order[o] /\ o \in OrderId
  BY <1>1, <1>2 DEF Agree
<1>5. \A o \in F :
          /\ o \in Fillable(B2.order, Sweeps(x))
          /\ x.kind = "monitor" => Conditional(C2.order[o])
          /\ {PayWallet(B2.order[o]), GetWallet(B2.order[o])} \subseteq ws
  BY <1>1, <1>4 DEF Fillable
<1>6. /\ \A w \in Wallet : B.wallet[w] = B2.wallet[w] =>
             Filled(B, F).wallet[w] = Filled(B2, F).wallet[w]
      /\ \A w \in Wallet : B.ledger[w] = B2.ledger[w] =>
             Filled(B, F).ledger[w] = Filled(B2, F).ledger[w]
      /\ \A o \in OrderId : B.order[o] = B2.order[o] =>
             Filled(B, F).order[o] = Filled(B2, F).order[o]
      /\ \A o \in OrderId : B.trades[o] = B2.trades[o] =>
             Filled(B, F).trades[o] = Filled(B2, F).trades[o]
  <2>1. F \in SUBSET OrderId
    BY <1>1
  <2> QED BY <1>4, <2>1, FilledLocal
<1>7. Agree(D2, Filled(B2, F), ws, os)
  BY <1>1, <1>2, <1>6 DEF Agree
<1> QED BY <1>1, <1>3, <1>5, <1>7 DEF Does, B2

\* Once every row it has locked is written back, the tables are those of the
\* whole request.
LEMMA DoesAll ==
    ASSUME NEW x \in Request, NEW F, NEW C \in Database, NEW D \in Database,
           NEW ws \in SUBSET Wallet, NEW os \in SUBSET OrderId, Does(x, F, C, D, ws, os),
           NEW M \in Database, Agree(M, D, ws, os), Agree(M, C, Wallet \ ws, OrderId \ os)
    PROVE  M = Filled(Begun(x, C), F)
<1> DEFINE E == Filled(Begun(x, C), F)
<1>1. Agree(D, E, ws, os)
  BY DEF Does
<1>2. Agree(M, E, ws, os)
  BY <1>1 DEF Agree
<1>3. Does(x, F, C, M, ws, os)
  BY <1>2 DEF Does
<1>4. Does(x, F, C, M, Wallet, OrderId)
  BY <1>3, DoesGrow
<1>5. Agree(M, E, Wallet, OrderId)
  BY <1>4 DEF Does
<1>6. E \in Database
  BY DoesOpen
<1> HIDE DEF E
<1>7. M.wallet = E.wallet /\ M.order = E.order /\ M.trades = E.trades /\ M.ledger = E.ledger
  BY <1>5, <1>6 DEF Agree, Database
<1>8. M = E
  BY <1>6, <1>7 DEF Database
<1> QED BY <1>8 DEF E

\* A transaction changes nothing of an order but its status,
LEMMA DoesTerms ==
    ASSUME NEW x \in Request, NEW F, NEW C \in Database, NEW D \in Database,
           NEW ws \in SUBSET Wallet, NEW os \in SUBSET OrderId, Does(x, F, C, D, ws, os),
           NEW o \in os, C.order[o] # Unused
    PROVE  SameTerms(D.order[o], C.order[o])
<1> DEFINE B == Begun(x, C)
<1>1. B \in Database /\ F \in SUBSET OpenRows(B.order)
  BY DoesOpen
<1>2. D.order[o] = Filled(B, F).order[o] /\ o \in OrderId
  BY DEF Does, Agree
<1>3. SameTerms(B.order[o], C.order[o])
  <2>1. CASE o \in Written(x)
    <3>1. o = x.id /\ x.kind = "cancel" /\ C.order[x.id] = x.row
      BY <2>1, Requests DEF Written, Does, Allowed
    <3> QED BY <3>1, BegunRows
  <2>2. CASE o \notin Written(x)
    BY <1>2, <2>2, BegunRows DEF SameTerms
  <2> QED BY <2>1, <2>2
<1> HIDE DEF B
<1>4. SameTerms(Filled(B, F).order[o], B.order[o])
  <2>1. CASE o \in F
    BY <1>1, <2>1, FilledRows
  <2>2. CASE o \notin F
    <3>1. Filled(B, F).order[o] = B.order[o]
      BY <1>1, <1>2, <2>2, FilledRows
    <3> QED BY <3>1 DEF SameTerms
  <2> QED BY <2>1, <2>2
<1> QED BY <1>2, <1>3, <1>4 DEF SameTerms

\* and changes a funding wallet only while it has its spot wallet.
LEMMA DoesFunding ==
    ASSUME NEW x \in Request, NEW F, NEW C \in Database, NEW D \in Database,
           NEW ws \in SUBSET Wallet, NEW os \in SUBSET OrderId, Does(x, F, C, D, ws, os),
           NEW u \in User, NEW a \in Asset, <<u, a, "funding">> \in ws,
           D.wallet[<<u, a, "funding">>] # C.wallet[<<u, a, "funding">>]
    PROVE  Spot(u, a) \in ws
<1> DEFINE B == Begun(x, C)
           f == <<u, a, "funding">>
<1>1. B \in Database /\ F \in SUBSET OpenRows(B.order)
  BY DoesOpen
<1>2. \A t : PayWallet(t) # f /\ GetWallet(t) # f
  BY DEF PayWallet, GetWallet, Spot
<1>3. D.wallet[f] = Filled(B, F).wallet[f] /\ f \in Wallet /\ Touched(x) \subseteq ws
  BY DEF Does, Agree
<1>4. \A w \in Wallet : w \notin Touched(x) => B.wallet[w] = C.wallet[w]
  BY BegunRows
<1>5. Filled(B, F).wallet[f] = B.wallet[f]
  <2> HIDE DEF B, f
  <2> QED BY <1>1, <1>2, <1>3, FilledRows
<1>6. f \in Touched(x)
  BY <1>3, <1>4, <1>5
<1>7. x.kind = "transfer"
  <2>1. x.kind \in {"deposit", "withdraw"} => f \notin Touched(x)
    BY DEF Touched, Spot
  <2>2. x.kind \in {"resting", "cancel", "market", "monitor"} => f \notin Touched(x)
    BY <1>2 DEF Touched
  <2> QED BY <1>6, <2>1, <2>2, Requests
<1>8. /\ x.from # x.to /\ x.from \in WalletType /\ x.to \in WalletType
      /\ Touched(x) = {<<x.user, x.asset, x.from>>, <<x.user, x.asset, x.to>>}
  BY <1>7, Requests DEF Does, Allowed, Touched
<1> QED BY <1>3, <1>6, <1>8 DEF Spot, WalletType

-----------------------------------------------------------------------------
(* Where a transaction stands.                                             *)

LEMMA SameNames ==
    ASSUME NEW t, NEW r, SameTerms(t, r)
    PROVE  /\ PayWallet(t) = PayWallet(r) /\ GetWallet(t) = GetWallet(r)
           /\ PayAmount(t) = PayAmount(r) /\ GetAmount(t) = GetAmount(r)
           /\ Conditional(t) = Conditional(r)
           /\ \A live : Triggered(t, live) = Triggered(r, live)
BY DEF SameTerms, PayWallet, GetWallet, PayAmount, GetAmount, Conditional, Triggered,
       Crossed, ConditionalTriggered

\* Nor does what others do change where it stands.
LEMMA WorkFrame ==
    ASSUME NEW t \in Transaction, NEW C \in Database, NEW D \in Database,
           NEW ws \in SUBSET Wallet, NEW os \in SUBSET OrderId, Work(t, C, D, ws, os),
           t.pc = "settle" => PayWallet(t.row) \in ws /\ t.id \in os,
           t.pc \in {"pay", "get"} => t.id \in os,
           NEW C2 \in Database, NEW D2 \in Database,
           Agree(C, C2, ws, os), Agree(D, D2, ws, os),
           \A u \in User, a \in Asset : Spot(u, a) \in ws =>
               C.wallet[<<u, a, "funding">>] = C2.wallet[<<u, a, "funding">>],
           \A o \in OrderId : C.order[o] # Unused =>
               C2.order[o] # Unused /\ SameTerms(C2.order[o], C.order[o])
    PROVE  Work(t, C2, D2, ws, os)
<1>1. ASSUME t.pc = "credit"
      PROVE  /\ "transfer" \in Kinds
             /\ \E u \in User, a \in Asset, x, y \in WalletType :
                    x # y /\ t.from = <<u, a, x>> /\ t.to = <<u, a, y>>
             /\ ws \subseteq {t.from}
             /\ Agree(D2, C2, ws, os)
  BY <1>1 DEF Work, Agree
<1>2. ASSUME t.pc = "settle"
      PROVE  /\ "market" \in Kinds
             /\ t.row.status = "filled" /\ t.row.type = "market"
             /\ C2.order[t.id] = Unused
             /\ C2.wallet[PayWallet(t.row)].available >= PayAmount(t.row)
             /\ ws \subseteq {PayWallet(t.row)} /\ os \subseteq {t.id}
             /\ \A w \in ws :
                    /\ D2.wallet[w] = Move(C2.wallet, w, -PayAmount(t.row), -PayAmount(t.row), 0)[w]
                    /\ D2.ledger[w] = C2.ledger[w]
  <2>1. PayAmount(t.row) \in Nat /\ C.wallet \in [Wallet -> WalletRow] /\ C2.wallet \in [Wallet -> WalletRow]
    BY <1>2, Shapes, TermsTypes DEF Database
  <2> DEFINE n == -PayAmount(t.row)
  <2>2. n \in Int
    BY <2>1
  <2>3. \A w \in ws : /\ D.wallet[w] = Move(C.wallet, w, n, n, 0)[w]
                      /\ D.ledger[w] = C.ledger[w]
    BY <1>2 DEF Work
  <2> HIDE DEF n
  <2>4. \A w \in ws : Move(C.wallet, w, n, n, 0)[w] = Move(C2.wallet, w, n, n, 0)[w]
    BY <2>1, <2>2, MoveLocal DEF Agree
  <2>5. \A w \in ws : /\ D2.wallet[w] = Move(C2.wallet, w, n, n, 0)[w]
                      /\ D2.ledger[w] = C2.ledger[w]
    BY <2>3, <2>4 DEF Agree
  <2>6. /\ C2.order[t.id] = Unused
        /\ C2.wallet[PayWallet(t.row)].available >= PayAmount(t.row)
    BY <1>2 DEF Work, Agree
  <2> QED BY <1>2, <2>5, <2>6 DEF Work, n
<1>3. ASSUME NEW x \in Request, NEW F \in SUBSET OrderId, Does(x, F, C, D, ws, os)
      PROVE  Does(x, F, C2, D2, ws, os)
  BY <1>3, DoesFrame
<1>4. ASSUME NEW o \in Listed(t)
      PROVE  LET row == IF o \in os THEN D2.order[o] ELSE C2.order[o] IN
             /\ row # Unused
             /\ row.user \in t.users
             /\ t.pass = "conditional" => Conditional(row)
  <2>1. o \in OrderId
    BY Shapes DEF Listed
  <2> DEFINE row == IF o \in os THEN D.order[o] ELSE C.order[o]
  <2>2. row # Unused /\ row.user \in t.users /\ (t.pass = "conditional" => Conditional(row))
    BY DEF Work
  <2>3. CASE o \in os
    BY <2>2, <2>3 DEF Agree
  <2>4. CASE o \notin os
    <3>1. C2.order[o] # Unused /\ SameTerms(C2.order[o], C.order[o])
      BY <2>1, <2>2, <2>4
    <3>2. C2.order[o].user = C.order[o].user /\ Conditional(C2.order[o]) = Conditional(C.order[o])
      BY <3>1, SameNames DEF SameTerms
    <3> QED BY <2>2, <2>4, <3>1, <3>2
  <2> QED BY <2>3, <2>4
<1>5. ASSUME t.pc \in {"pay", "get"}
      PROVE  \E live \in Price : Triggered(D2.order[t.id], live)
  BY <1>5 DEF Work, Agree
<1>6. ASSUME t.pc \in {"unfreeze", "close"}
      PROVE  "cancel" \in Kinds /\ C2.order[t.id] # Unused /\ SameTerms(C2.order[t.id], C.order[t.id])
  BY <1>6, Shapes DEF Work
<1>7. ASSUME t.pc = "close"
      PROVE  /\ ws = {PayWallet(C2.order[t.id])} /\ os = {}
             /\ \A w \in ws : /\ D2.wallet[w] = Unfreeze(C2.wallet, C2.order[t.id])[w]
                              /\ D2.ledger[w] = C2.ledger[w]
  <2>1. C.order[t.id] \in OrderRow /\ C.wallet \in [Wallet -> WalletRow] /\ C2.wallet \in [Wallet -> WalletRow]
    BY <1>7, Shapes DEF Work, Database, Row
  <2>2. PICK p \in Wallet, n \in Int, m \in Int :
            p = PayWallet(C.order[t.id]) /\ n = PayAmount(C.order[t.id]) /\ m = -n
    BY <2>1, TermsTypes
  <2>3. p = PayWallet(C2.order[t.id]) /\ n = PayAmount(C2.order[t.id])
    BY <1>6, <1>7, <2>2, SameNames
  <2>4. /\ ws = {p} /\ os = {}
        /\ \A w \in ws : D.wallet[w] = Move(C.wallet, p, 0, n, m)[w] /\ D.ledger[w] = C.ledger[w]
    BY <1>7, <2>2 DEF Work, Unfreeze
  <2>5. \A w \in ws : Move(C.wallet, p, 0, n, m)[w] = Move(C2.wallet, p, 0, n, m)[w]
    BY <2>1, MoveLocal DEF Agree
  <2>6. \A w \in ws : D2.wallet[w] = Move(C2.wallet, p, 0, n, m)[w] /\ D2.ledger[w] = C2.ledger[w]
    BY <2>4, <2>5 DEF Agree
  <2> QED BY <2>2, <2>3, <2>4, <2>6 DEF Unfreeze
<1>8. /\ t.pc \in {"scan", "lock", "pay", "get"} =>
             \E x \in Request, F \in SUBSET OrderId :
                 /\ Does(x, F, C2, D2, ws, os)
                 /\ t.users = Sweeps(x)
                 /\ x.kind \in {"resting", "market", "monitor"}
                 /\ x.kind = "monitor" => t.pass = "conditional"
      /\ t.pc = "commit" =>
             \E x \in Request, F \in SUBSET OrderId : Does(x, F, C2, D2, ws, os)
      /\ t.pc = "unfreeze" => ws = {} /\ os = {}
  BY <1>3 DEF Work
<1> HIDE DEF Listed
<1> QED BY <1>1, <1>2, <1>4, <1>5, <1>6, <1>7, <1>8 DEF Work

\* A request that has just written by itself, in a draft that was as committed.
LEMMA DoesBegun ==
    ASSUME NEW x \in Request, x.kind \in Kinds, NEW C \in Database, NEW D \in Database,
           NEW ws \in SUBSET Wallet, NEW os \in SUBSET OrderId,
           Touched(x) \subseteq ws, Written(x) \subseteq os, Allowed(x, C),
           Agree(D, C, ws, os)
    PROVE  /\ Begun(x, D) \in Database
           /\ Does(x, {}, C, Begun(x, D), ws, os)
           /\ Agree(Begun(x, D), D, Wallet \ ws, OrderId \ os)
<1> DEFINE B == Begun(x, D)
           E == Begun(x, C)
<1>1. /\ B \in Database
      /\ \A w \in Wallet : w \notin Touched(x) =>
             B.wallet[w] = D.wallet[w] /\ B.ledger[w] = D.ledger[w]
      /\ \A o \in OrderId : o \notin Written(x) =>
             B.order[o] = D.order[o] /\ B.trades[o] = D.trades[o]
  BY BegunRows
<1>2. /\ \A w \in Wallet : D.wallet[w] = C.wallet[w] => B.wallet[w] = E.wallet[w]
      /\ \A w \in Wallet : D.ledger[w] = C.ledger[w] => B.ledger[w] = E.ledger[w]
      /\ \A o \in OrderId : D.order[o] = C.order[o] => B.order[o] = E.order[o]
      /\ \A o \in OrderId : D.trades[o] = C.trades[o] => B.trades[o] = E.trades[o]
  BY BegunLocal
<1> HIDE DEF B, E
<1>3. Agree(B, E, ws, os) /\ Agree(B, D, Wallet \ ws, OrderId \ os)
  BY <1>1, <1>2 DEF Agree
<1>4. Does(x, {}, C, B, ws, os)
  <2>1. Agree(B, Begun(x, C), ws, os)
    BY <1>3 DEF E
  <2> QED BY <1>1, <2>1, DoesBegin
<1> QED BY <1>1, <1>3, <1>4 DEF B

-----------------------------------------------------------------------------
(* The invariant, statement by statement.                                  *)

LEMMA States ==
    ASSUME TxInv, NEW s \in Session
    PROVE  /\ Committed \in Database /\ draft \in Database
           /\ Committed.wallet = wallet /\ Committed.order = order
           /\ Committed.trades = trades /\ Committed.ledger = ledger
           /\ Wallets(s) \in SUBSET Wallet /\ Orders(s) \in SUBSET OrderId
           /\ tx[s] \in Transaction
           /\ tx[s].pc = "settle" => PayWallet(tx[s].row) \in Wallets(s) /\ tx[s].id \in Orders(s)
           /\ tx[s].pc \in {"pay", "get"} => tx[s].id \in Orders(s)
           /\ tx[s] = Idle => Wallets(s) = {} /\ Orders(s) = {}
<1>1. Committed \in Database /\ draft \in Database
  BY Types DEF TxInv, Committed, Database
<1>2. tx[s] \in Transaction
  BY DEF TxInv, TxTypeOK
<1>3. /\ tx[s].pc = "settle" => PayWallet(tx[s].row) \in Wallets(s) /\ tx[s].id \in Orders(s)
      /\ tx[s].pc \in {"pay", "get"} => tx[s].id \in Orders(s)
  BY <1>2, Shapes, TermsTypes DEF TxInv, Owns, Wallets, Orders
<1>4. tx[s] = Idle => Wallets(s) = {} /\ Orders(s) = {}
  BY DEF TxInv, NothingLeaks, Wallets, Orders
<1> QED BY <1>1, <1>2, <1>3, <1>4 DEF Committed, Wallets, Orders

\* A session stands where it stood after a step of another one.
LEMMA OthersWork ==
    ASSUME AtomicInv, TxInv', NEW r \in Session, tx'[r] = tx[r],
           \A w \in Wallet : walLock'[w] = r <=> walLock[w] = r,
           \A o \in OrderId : ordLock'[o] = r <=> ordLock[o] = r,
           \A w \in Wallet : walLock[w] = r =>
               /\ draft'.wallet[w] = draft.wallet[w] /\ draft'.ledger[w] = draft.ledger[w]
               /\ wallet'[w] = wallet[w] /\ ledger'[w] = ledger[w],
           \A o \in OrderId : ordLock[o] = r =>
               /\ draft'.order[o] = draft.order[o] /\ draft'.trades[o] = draft.trades[o]
               /\ order'[o] = order[o] /\ trades'[o] = trades[o],
           \A u \in User, a \in Asset : walLock[Spot(u, a)] = r =>
               wallet'[<<u, a, "funding">>] = wallet[<<u, a, "funding">>],
           \A o \in OrderId : order[o] # Unused =>
               order'[o] # Unused /\ SameTerms(order'[o], order[o])
    PROVE  Work(tx[r], Committed, draft, Wallets(r), Orders(r))'
<1> DEFINE C == Committed
           D == draft
           C2 == Committed'
           D2 == draft'
           ws == Wallets(r)
           os == Orders(r)
<1>1. TxInv /\ Work(tx[r], C, D, ws, os)
  BY DEF AtomicInv
<1>2. /\ C \in Database /\ D \in Database /\ tx[r] \in Transaction
      /\ C.wallet = wallet /\ C.order = order /\ C.trades = trades /\ C.ledger = ledger
      /\ ws \in SUBSET Wallet /\ os \in SUBSET OrderId
      /\ tx[r].pc = "settle" => PayWallet(tx[r].row) \in ws /\ tx[r].id \in os
      /\ tx[r].pc \in {"pay", "get"} => tx[r].id \in os
  BY <1>1, States
<1>3. C2 \in Database /\ D2 \in Database
  <2>1. TxTypeOK'
    BY DEF TxInv
  <2> QED BY <2>1 DEF TxTypeOK, TypeOK, Row, Committed, Database
<1>4. /\ C2.wallet = wallet' /\ C2.order = order' /\ C2.trades = trades' /\ C2.ledger = ledger'
      /\ Wallets(r)' = ws /\ Orders(r)' = os
  BY DEF Committed, Wallets, Orders
<1>5. Agree(C, C2, ws, os) /\ Agree(D, D2, ws, os)
  BY <1>2, <1>4 DEF Agree, Wallets, Orders
<1>6. \A u \in User, a \in Asset : Spot(u, a) \in ws =>
          C.wallet[<<u, a, "funding">>] = C2.wallet[<<u, a, "funding">>]
  BY <1>2, <1>4 DEF Wallets
<1>7. \A o \in OrderId : C.order[o] # Unused =>
          C2.order[o] # Unused /\ SameTerms(C2.order[o], C.order[o])
  BY <1>2, <1>4
<1>8. Work(tx[r], C2, D2, ws, os)
  <2> HIDE DEF C, D, C2, D2, ws, os
  <2> QED BY <1>1, <1>2, <1>3, <1>5, <1>6, <1>7, WorkFrame
<1> QED BY <1>4, <1>8

\* A statement that commits nothing keeps the invariant if it writes only rows
\* its session has locked and leaves the session where it should stand.
LEMMA OwnWork ==
    ASSUME AtomicInv, TxInv', NEW s \in Session, UNCHANGED vars,
           NEW x, tx' = [tx EXCEPT ![s] = x],
           NEW ws \in SUBSET Wallet, NEW os \in SUBSET OrderId, Lock(s, ws, os),
           Agree(draft', draft, Wallet \ (Wallets(s) \cup ws), OrderId \ (Orders(s) \cup os)),
           Work(x, Committed, draft', Wallets(s) \cup ws, Orders(s) \cup os)
    PROVE  AtomicInv'
<1>1. /\ \A w \in Wallet : walLock'[w] = IF w \in ws THEN s ELSE walLock[w]
      /\ \A o \in OrderId : ordLock'[o] = IF o \in os THEN s ELSE ordLock[o]
      /\ \A w \in ws : walLock[w] \in {s, None}
      /\ \A o \in os : ordLock[o] \in {s, None}
      /\ tx'[s] = x /\ \A r \in Session : r # s => tx'[r] = tx[r]
      /\ \A r \in Session : r # None
  BY NoneAssumption DEF Lock, AtomicInv, TxInv, TxTypeOK
<1>2. wallet' = wallet /\ order' = order /\ trades' = trades /\ ledger' = ledger
      /\ Committed' = Committed
  BY DEF vars, Committed
<1>3. ASSUME NEW r \in Session
      PROVE  Work(tx[r], Committed, draft, Wallets(r), Orders(r))'
  <2>1. CASE r = s
    <3>1. Wallets(s)' = Wallets(s) \cup ws /\ Orders(s)' = Orders(s) \cup os
      BY <1>1 DEF Wallets, Orders
    <3> QED BY <1>1, <1>2, <2>1, <3>1
  <2>2. CASE r # s
    <3>1. /\ \A w \in Wallet : walLock'[w] = r <=> walLock[w] = r
          /\ \A o \in OrderId : ordLock'[o] = r <=> ordLock[o] = r
      BY <1>1, <2>2
    <3>2. /\ \A w \in Wallet : walLock[w] = r =>
                 draft'.wallet[w] = draft.wallet[w] /\ draft'.ledger[w] = draft.ledger[w]
          /\ \A o \in OrderId : ordLock[o] = r =>
                 draft'.order[o] = draft.order[o] /\ draft'.trades[o] = draft.trades[o]
      BY <1>1, <2>2 DEF Agree, Wallets, Orders
    <3>3. \A o \in OrderId : order[o] # Unused =>
              order'[o] # Unused /\ SameTerms(order'[o], order[o])
      BY <1>2 DEF SameTerms
    <3>4. tx'[r] = tx[r]
      BY <1>1, <2>2
    <3> QED BY <1>2, <3>1, <3>2, <3>3, <3>4, OthersWork
  <2> QED BY <2>1, <2>2
<1> QED BY <1>3 DEF AtomicInv

\* Rows a session takes that it had not locked are in draft as committed.
LEMMA FreshRows ==
    ASSUME TxInv, NEW s \in Session, NEW ws \in SUBSET Wallet, NEW os \in SUBSET OrderId,
           Lock(s, ws, os)
    PROVE  Agree(draft, Committed, ws \ Wallets(s), os \ Orders(s))
<1>1. /\ \A w \in ws \ Wallets(s) : walLock[w] = None
      /\ \A o \in os \ Orders(s) : ordLock[o] = None
  BY DEF Lock, Wallets, Orders
<1> QED BY <1>1 DEF TxInv, NothingLeaks, Committed, Agree

\* The funding wallet of a free spot wallet is in draft as committed.
LEMMA FundingKept ==
    ASSUME AtomicInv, NEW u \in User, NEW a \in Asset, walLock[Spot(u, a)] = None
    PROVE  draft.wallet[<<u, a, "funding">>] = wallet[<<u, a, "funding">>]
<1> DEFINE f == <<u, a, "funding">>
<1>1. f \in Wallet /\ Spot(u, a) \in Wallet
  BY DEF Wallet, WalletType, Spot
<1>2. CASE walLock[f] = None
  BY <1>1, <1>2 DEF AtomicInv, TxInv, NothingLeaks
<1>3. CASE walLock[f] \in Session
  <2> DEFINE r == walLock[f]
  <2>1. /\ Work(tx[r], Committed, draft, Wallets(r), Orders(r)) /\ TxInv
        /\ f \in Wallets(r) /\ Spot(u, a) \notin Wallets(r)
    BY <1>1, <1>3, NoneAssumption DEF AtomicInv, Wallets
  <2>2. /\ Committed \in Database /\ draft \in Database /\ Committed.wallet = wallet
        /\ Wallets(r) \in SUBSET Wallet /\ Orders(r) \in SUBSET OrderId
        /\ tx[r] \in Transaction /\ tx[r] # Idle
    BY <1>3, <2>1, States
  <2>3. \A t : PayWallet(t) # f
    BY DEF PayWallet, Spot
  <2>4. tx[r].pc \in {"credit", "settle", "scan", "lock", "pay", "get", "unfreeze", "close",
                      "commit"}
    BY <2>2 DEF Transaction, Idle
  <2> HIDE DEF r, f
  <2>5. CASE tx[r].pc = "credit"
    BY <2>1, <2>2, <2>5 DEF Work, Agree, f
  <2>6. CASE tx[r].pc \in {"settle", "unfreeze", "close"}
    BY <2>1, <2>3, <2>6 DEF Work
  <2>7. CASE tx[r].pc \in {"scan", "lock", "pay", "get", "commit"}
    <3>1. PICK x \in Request, F \in SUBSET OrderId :
              Does(x, F, Committed, draft, Wallets(r), Orders(r))
      BY <2>1, <2>7 DEF Work
    <3> QED BY <2>1, <2>2, <3>1, DoesFunding DEF f
  <2> QED BY <2>4, <2>5, <2>6, <2>7
<1> QED BY <1>1, <1>2, <1>3 DEF AtomicInv, TxInv, TxTypeOK

\* A statement with which a request has done what it does by itself.
LEMMA BegunWork ==
    ASSUME AtomicInv, TxInv', NEW s \in Session, UNCHANGED vars,
           NEW t, tx' = [tx EXCEPT ![s] = t],
           NEW ws \in SUBSET Wallet, NEW os \in SUBSET OrderId, Lock(s, ws, os),
           Agree(draft, Committed, Wallets(s) \cup ws, Orders(s) \cup os),
           NEW x \in Request, x.kind \in Kinds, Allowed(x, Committed),
           Touched(x) \subseteq Wallets(s) \cup ws, Written(x) \subseteq Orders(s) \cup os,
           draft' = Begun(x, draft),
           \/ t.pc = "commit"
           \/ /\ t.pc = "scan" /\ t.users = Sweeps(x)
              /\ x.kind \in {"resting", "market", "monitor"}
              /\ x.kind = "monitor" => t.pass = "conditional"
    PROVE  AtomicInv'
<1> DEFINE C == Committed
           D == draft
           W == Wallets(s) \cup ws
           O == Orders(s) \cup os
<1>1. C \in Database /\ D \in Database /\ W \in SUBSET Wallet /\ O \in SUBSET OrderId
  BY States DEF AtomicInv
<1>2. /\ Does(x, {}, C, Begun(x, D), W, O)
      /\ Agree(Begun(x, D), D, Wallet \ W, OrderId \ O)
  <2> HIDE DEF C, D, W, O
  <2>1. Agree(D, C, W, O) /\ Allowed(x, C) /\ Touched(x) \subseteq W /\ Written(x) \subseteq O
    BY DEF C, D, W, O
  <2> QED BY <1>1, <2>1, DoesBegun
<1>3. Work(t, C, Begun(x, D), W, O)
  <2> HIDE DEF C, D, W, O
  <2>1. {} \in SUBSET OrderId
    OBVIOUS
  <2> QED BY <1>2, <2>1 DEF Work, Listed
<1> QED BY <1>2, <1>3, OwnWork

\* The request of a session between two requests.
LEMMA FirstWork ==
    ASSUME TxInv, NEW s \in Session, tx[s] = Idle,
           NEW ws \in SUBSET Wallet, NEW os \in SUBSET OrderId, Lock(s, ws, os)
    PROVE  /\ Wallets(s) \cup ws = ws /\ Orders(s) \cup os = os
           /\ Agree(draft, Committed, Wallets(s) \cup ws, Orders(s) \cup os)
           /\ \A w \in ws : walLock[w] = None
<1>1. Wallets(s) = {} /\ Orders(s) = {}
  BY States
<1>2. Agree(draft, Committed, ws, os)
  BY <1>1, FreshRows DEF Agree
<1>3. \A w \in ws : walLock[w] = None
  BY DEF Lock, TxInv, NothingLeaks
<1> QED BY <1>1, <1>2, <1>3

LEMMA BeginDepositWork ==
    ASSUME AtomicInv, TxInv', "deposit" \in Kinds, NEW s \in Session,
           NEW u \in User, NEW a \in Asset, NEW amt \in Amount, BeginDeposit(s, u, a, amt)
    PROVE  AtomicInv'
<1> DEFINE x == [kind |-> "deposit", user |-> u, asset |-> a, amt |-> amt]
           t == [pc |-> "commit"]
           w == Spot(u, a)
<1>1. /\ tx[s] = Idle /\ Lock(s, {w}, {}) /\ tx' = [tx EXCEPT ![s] = t] /\ UNCHANGED vars
      /\ draft.wallet[w].balance + draft.wallet[<<u, a, "funding">>].balance + amt <= MaxBalance
      /\ draft' = [draft EXCEPT !.wallet = Move(@, w, amt, amt, 0), !.ledger = Enter(@, w, amt)]
  BY DEF BeginDeposit, Goto
<1>2. x \in Request /\ Touched(x) = {w} /\ Written(x) = {} /\ w \in Wallet
  BY DEF Request, Touched, Written, Spot, Wallet, WalletType
<1>3. TxInv /\ {w} \in SUBSET Wallet /\ {} \in SUBSET OrderId
  BY <1>2 DEF AtomicInv
<1>4. /\ Wallets(s) \cup {w} = {w}
      /\ Agree(draft, Committed, Wallets(s) \cup {w}, Orders(s) \cup {})
      /\ walLock[w] = None
  BY <1>1, <1>3, FirstWork
<1>5. draft' = Begun(x, draft)
  BY <1>1, <1>3, Types DEF TxInv, Begun, BegunWallets, BegunOrders, BegunTrades, BegunLedger
<1>6. Allowed(x, Committed)
  <2>1. draft.wallet[<<u, a, "funding">>] = wallet[<<u, a, "funding">>]
    BY <1>4, FundingKept
  <2>2. draft.wallet[w] = wallet[w]
    BY <1>4 DEF Agree, Committed
  <2> QED BY <1>1, <2>1, <2>2 DEF Allowed, Committed
<1>7. x.kind \in Kinds /\ t.pc = "commit"
  OBVIOUS
<1> HIDE DEF x, w, t
<1> QED BY <1>1, <1>2, <1>3, <1>4, <1>5, <1>6, <1>7, BegunWork

LEMMA BeginWithdrawWork ==
    ASSUME AtomicInv, TxInv', "withdraw" \in Kinds, NEW s \in Session,
           NEW u \in User, NEW a \in Asset, NEW amt \in Amount, BeginWithdraw(s, u, a, amt)
    PROVE  AtomicInv'
<1> DEFINE x == [kind |-> "withdraw", user |-> u, asset |-> a, amt |-> amt]
           t == [pc |-> "commit"]
           w == Spot(u, a)
<1>1. /\ tx[s] = Idle /\ Lock(s, {w}, {}) /\ tx' = [tx EXCEPT ![s] = t] /\ UNCHANGED vars
      /\ draft.wallet[w].available >= amt
      /\ draft' = [draft EXCEPT !.wallet = Move(@, w, -amt, -amt, 0), !.ledger = Enter(@, w, -amt)]
  BY DEF BeginWithdraw, Goto
<1>2. x \in Request /\ Touched(x) = {w} /\ Written(x) = {} /\ w \in Wallet
  BY DEF Request, Touched, Written, Spot, Wallet, WalletType
<1>3. TxInv /\ {w} \in SUBSET Wallet /\ {} \in SUBSET OrderId
  BY <1>2 DEF AtomicInv
<1>4. /\ Wallets(s) \cup {w} = {w}
      /\ Agree(draft, Committed, Wallets(s) \cup {w}, Orders(s) \cup {})
  BY <1>1, <1>3, FirstWork
<1>5. draft' = Begun(x, draft)
  BY <1>1, <1>3, Types DEF TxInv, Begun, BegunWallets, BegunOrders, BegunTrades, BegunLedger
<1>6. Allowed(x, Committed)
  <2>1. draft.wallet[w] = wallet[w]
    BY <1>4 DEF Agree, Committed
  <2> QED BY <1>1, <2>1 DEF Allowed, Committed
<1>7. x.kind \in Kinds /\ t.pc = "commit"
  OBVIOUS
<1> HIDE DEF x, w, t
<1> QED BY <1>1, <1>2, <1>3, <1>4, <1>5, <1>6, <1>7, BegunWork

LEMMA BeginTransferWork ==
    ASSUME AtomicInv, TxInv', "transfer" \in Kinds, NEW s \in Session,
           NEW u \in User, NEW a \in Asset, NEW from \in WalletType, NEW to \in WalletType,
           NEW amt \in Amount, BeginTransfer(s, u, a, from, to, amt)
    PROVE  AtomicInv'
<1> DEFINE w == <<u, a, from>>
           t == [pc |-> "credit", from |-> w, to |-> <<u, a, to>>, amt |-> amt]
<1>1. /\ tx[s] = Idle /\ from # to /\ Lock(s, {w}, {}) /\ tx' = [tx EXCEPT ![s] = t]
      /\ draft' = draft /\ UNCHANGED vars
  BY DEF BeginTransfer, Goto
<1>2. TxInv /\ {w} \in SUBSET Wallet /\ {} \in SUBSET OrderId
  BY DEF AtomicInv, Wallet
<1>3. /\ Wallets(s) \cup {w} = {w} /\ Orders(s) \cup {} = {}
      /\ Agree(draft, Committed, Wallets(s) \cup {w}, Orders(s) \cup {})
  BY <1>1, <1>2, FirstWork
<1>4. Work(t, Committed, draft', Wallets(s) \cup {w}, Orders(s) \cup {})
  BY <1>1, <1>3 DEF Work, Listed
<1>5. Agree(draft', draft, Wallet \ (Wallets(s) \cup {w}), OrderId \ (Orders(s) \cup {}))
  BY <1>1 DEF Agree
<1> HIDE DEF t
<1> QED BY <1>1, <1>2, <1>4, <1>5, OwnWork

LEMMA CreditWork ==
    ASSUME AtomicInv, TxInv', NEW s \in Session, Credit(s)
    PROVE  AtomicInv'
<1> DEFINE t == [pc |-> "commit"]
<1>1. /\ tx[s].pc = "credit" /\ Lock(s, {tx[s].to}, {}) /\ tx' = [tx EXCEPT ![s] = t]
      /\ UNCHANGED vars
      /\ draft.wallet[tx[s].from].available >= tx[s].amt
      /\ draft' = [draft EXCEPT
             !.wallet = Move(Move(@, tx[s].from, -tx[s].amt, -tx[s].amt, 0),
                             tx[s].to, tx[s].amt, tx[s].amt, 0),
             !.ledger = Enter(Enter(@, tx[s].from, -tx[s].amt), tx[s].to, tx[s].amt)]
  BY DEF Credit, Goto
<1>2. /\ TxInv /\ tx[s] \in Transaction /\ tx[s].amt \in Amount
      /\ walLock[tx[s].from] = s /\ tx[s].from \in Wallet /\ tx[s].to \in Wallet
  BY <1>1, Shapes DEF AtomicInv, TxInv, TxTypeOK, Owns
<1>3. /\ "transfer" \in Kinds /\ Agree(draft, Committed, Wallets(s), Orders(s))
      /\ \E u \in User, a \in Asset, y, z \in WalletType :
             y # z /\ tx[s].from = <<u, a, y>> /\ tx[s].to = <<u, a, z>>
  BY <1>1 DEF AtomicInv, Work
<1>4. PICK u \in User, a \in Asset, y \in WalletType, z \in WalletType :
          y # z /\ tx[s].from = <<u, a, y>> /\ tx[s].to = <<u, a, z>>
  BY <1>3
<1>5. PICK amt \in Amount : amt = tx[s].amt
  BY <1>2
<1> DEFINE x == [kind |-> "transfer", user |-> u, asset |-> a, amt |-> amt, from |-> y, to |-> z]
           w == tx[s].to
<1>6. /\ x \in Request /\ x.kind = "transfer" /\ Touched(x) = {tx[s].from, w} /\ Written(x) = {}
  BY <1>4 DEF Request, Touched, Written
<1>7. draft' = Begun(x, draft)
  BY <1>1, <1>2, <1>4, <1>5, Types
     DEF TxInv, Begun, BegunWallets, BegunOrders, BegunTrades, BegunLedger
<1>8. {w} \in SUBSET Wallet /\ {} \in SUBSET OrderId
  BY <1>2
<1>9. Agree(draft, Committed, Wallets(s) \cup {w}, Orders(s) \cup {})
  <2>1. Agree(draft, Committed, {w} \ Wallets(s), {} \ Orders(s))
    BY <1>1, <1>2, <1>8, FreshRows
  <2> QED BY <1>3, <2>1 DEF Agree
<1>10. Touched(x) \subseteq Wallets(s) \cup {w} /\ Written(x) \subseteq Orders(s) \cup {}
  BY <1>2, <1>6 DEF Wallets
<1>11. Allowed(x, Committed)
  <2>1. draft.wallet[tx[s].from] = Committed.wallet[tx[s].from]
    BY <1>2, <1>3 DEF Agree, Wallets
  <2> QED BY <1>1, <1>4, <1>5, <2>1 DEF Allowed
<1>12. /\ t.pc = "commit" /\ x.kind \in Kinds
       /\ Lock(s, {w}, {}) /\ tx' = [tx EXCEPT ![s] = t] /\ UNCHANGED vars
  BY <1>1, <1>3
<1> HIDE DEF x, w, t
<1> QED BY <1>6, <1>7, <1>8, <1>9, <1>10, <1>11, <1>12, BegunWork

LEMMA BeginRestingWork ==
    ASSUME AtomicInv, TxInv', "resting" \in Kinds, NEW s \in Session, NEW r \in OrderRow,
           r.status = "open", r.type \in RestingType, BeginResting(s, r)
    PROVE  AtomicInv'
<1> DEFINE t == Scan("limit", {r.user})
           w == PayWallet(r)
<1>1. PICK o \in NewIds :
          /\ Lock(s, {w}, {o})
          /\ draft.wallet[w].available >= PayAmount(r)
          /\ draft' = [draft EXCEPT !.wallet = Freeze(@, r), !.order[o] = r]
  BY DEF BeginResting
<1> DEFINE x == [kind |-> "resting", id |-> o, row |-> r]
<1>2. /\ tx[s] = Idle /\ tx' = [tx EXCEPT ![s] = t] /\ UNCHANGED vars
      /\ o \in OrderId /\ draft.order[o] = Unused /\ w \in Wallet
  BY TermsTypes DEF BeginResting, Goto, NewIds
<1>3. x \in Request /\ Touched(x) = {w} /\ Written(x) = {o} /\ Sweeps(x) = {r.user}
  BY <1>2 DEF Request, Touched, Written, Sweeps
<1>4. TxInv /\ {w} \in SUBSET Wallet /\ {o} \in SUBSET OrderId
  BY <1>2 DEF AtomicInv
<1>5. /\ Wallets(s) \cup {w} = {w} /\ Orders(s) \cup {o} = {o}
      /\ Agree(draft, Committed, Wallets(s) \cup {w}, Orders(s) \cup {o})
  BY <1>1, <1>2, <1>4, FirstWork
<1>6. draft' = Begun(x, draft)
  BY <1>1, <1>4, Types DEF TxInv, Begun, BegunWallets, BegunOrders, BegunTrades, BegunLedger
<1>7. Allowed(x, Committed)
  <2>1. Committed.wallet[w] = draft.wallet[w] /\ Committed.order[o] = draft.order[o]
    BY <1>5 DEF Agree
  <2> QED BY <1>1, <1>2, <2>1 DEF Allowed
<1>8. /\ x.kind \in Kinds /\ t.pc = "scan" /\ t.users = Sweeps(x)
      /\ x.kind \in {"resting", "market", "monitor"} /\ x.kind # "monitor"
  BY <1>3 DEF Scan
<1>9. Touched(x) \subseteq Wallets(s) \cup {w} /\ Written(x) \subseteq Orders(s) \cup {o}
  BY <1>3
<1> HIDE DEF x, w, t
<1> QED BY <1>1, <1>2, <1>3, <1>4, <1>5, <1>6, <1>7, <1>8, <1>9, BegunWork

LEMMA BeginMonitorWork ==
    ASSUME AtomicInv, TxInv', "monitor" \in Kinds, NEW s \in Session, BeginMonitor(s)
    PROVE  AtomicInv'
<1> DEFINE t == Scan("conditional", User)
           x == [kind |-> "monitor"]
<1>1. /\ tx[s] = Idle /\ tx' = [tx EXCEPT ![s] = t] /\ UNCHANGED vars
      /\ draft' = draft /\ walLock' = walLock /\ ordLock' = ordLock
  BY DEF BeginMonitor, Goto
<1>2. x \in Request /\ Touched(x) = {} /\ Written(x) = {} /\ Sweeps(x) = User
  BY DEF Request, Touched, Written, Sweeps
<1>3. TxInv /\ {} \in SUBSET Wallet /\ {} \in SUBSET OrderId /\ Lock(s, {}, {})
  BY <1>1, NoLock DEF AtomicInv, TxInv
<1>4. Agree(draft, Committed, Wallets(s) \cup {}, Orders(s) \cup {})
  BY <1>1, <1>3, FirstWork
<1>5. draft' = Begun(x, draft)
  BY <1>1, <1>3, Types DEF TxInv, Begun, BegunWallets, BegunOrders, BegunTrades, BegunLedger
<1>6. Allowed(x, Committed)
  BY DEF Allowed
<1>7. /\ x.kind \in Kinds /\ t.pc = "scan" /\ t.users = Sweeps(x)
      /\ x.kind \in {"resting", "market", "monitor"} /\ t.pass = "conditional"
  BY <1>2 DEF Scan
<1>8. Touched(x) \subseteq Wallets(s) \cup {} /\ Written(x) \subseteq Orders(s) \cup {}
  BY <1>2
<1> HIDE DEF x, t
<1> QED BY <1>1, <1>2, <1>3, <1>4, <1>5, <1>6, <1>7, <1>8, BegunWork

LEMMA BeginMarketWork ==
    ASSUME AtomicInv, TxInv', "market" \in Kinds, NEW s \in Session, NEW r \in OrderRow,
           r.status = "filled", r.type = "market", BeginMarket(s, r)
    PROVE  AtomicInv'
<1> DEFINE w == PayWallet(r)
<1>1. PICK p \in Int, n \in Int : p = PayAmount(r) /\ n = -PayAmount(r)
  BY TermsTypes
<1>2. PICK o \in NewIds :
          /\ Lock(s, {w}, {o})
          /\ draft.wallet[w].available >= p
          /\ draft' = [draft EXCEPT !.wallet = Move(@, w, n, n, 0)]
          /\ tx' = [tx EXCEPT ![s] = [pc |-> "settle", id |-> o, row |-> r]]
  BY <1>1 DEF BeginMarket, Goto
<1> DEFINE t == [pc |-> "settle", id |-> o, row |-> r]
           D == [wallet |-> Move(draft.wallet, w, n, n, 0), order |-> draft.order,
                 trades |-> draft.trades, ledger |-> draft.ledger]
<1>3. /\ tx[s] = Idle /\ UNCHANGED vars
      /\ o \in OrderId /\ draft.order[o] = Unused /\ w \in Wallet
  BY TermsTypes DEF BeginMarket, NewIds
<1>4. TxInv /\ {w} \in SUBSET Wallet /\ {o} \in SUBSET OrderId
  BY <1>3 DEF AtomicInv
<1>5. /\ Wallets(s) \cup {w} = {w} /\ Orders(s) \cup {o} = {o}
      /\ Agree(draft, Committed, Wallets(s) \cup {w}, Orders(s) \cup {o})
  BY <1>2, <1>3, <1>4, FirstWork
<1>6. /\ draft' = D /\ draft.wallet \in [Wallet -> WalletRow] /\ wallet \in [Wallet -> WalletRow]
      /\ Committed.wallet = wallet /\ Committed.order = order /\ Committed.ledger = ledger
  BY <1>2, <1>4, Types DEF TxInv, Committed
<1>7. /\ draft.wallet[w] = wallet[w] /\ draft.ledger[w] = ledger[w] /\ draft.order[o] = order[o]
  BY <1>5, <1>6 DEF Agree
<1>8. /\ Move(draft.wallet, w, n, n, 0)[w] = Move(wallet, w, n, n, 0)[w]
      /\ \A v \in Wallet : v # w => Move(draft.wallet, w, n, n, 0)[v] = draft.wallet[v]
  <2>1. /\ draft.wallet \in [Wallet -> WalletRow] /\ wallet \in [Wallet -> WalletRow]
        /\ w \in Wallet /\ n \in Int /\ 0 \in Int /\ draft.wallet[w] = wallet[w]
    BY <1>3, <1>6, <1>7
  <2> HIDE DEF w, D
  <2>2. Move(draft.wallet, w, n, n, 0)[w] = Move(wallet, w, n, n, 0)[w]
    BY <2>1 DEF Move
  <2>3. \A v \in Wallet : v # w => Move(draft.wallet, w, n, n, 0)[v] = draft.wallet[v]
    BY <2>1 DEF Move
  <2> QED BY <2>2, <2>3
<1>9. Agree(D, draft, Wallet \ {w}, OrderId \ {o})
  BY <1>8 DEF Agree
<1>10. Work(t, Committed, D, {w}, {o})
  <2>1. Committed.order[o] = Unused /\ Committed.wallet[w].available >= PayAmount(r)
    BY <1>1, <1>2, <1>3, <1>6, <1>7
  <2>2. D.wallet[w] = Move(Committed.wallet, w, -PayAmount(r), -PayAmount(r), 0)[w]
    BY <1>1, <1>6, <1>8
  <2>3. D.ledger[w] = Committed.ledger[w]
    BY <1>6, <1>7
  <2>4. /\ t.pc = "settle" /\ t.id = o /\ t.row = r /\ Listed(t) = {}
    BY DEF Listed
  <2> HIDE DEF t, D
  <2> QED BY <2>1, <2>2, <2>3, <2>4 DEF Work
<1>11. tx' = [tx EXCEPT ![s] = t]
  BY <1>2
<1>12. /\ Work(t, Committed, draft', Wallets(s) \cup {w}, Orders(s) \cup {o})
       /\ Agree(draft', draft, Wallet \ (Wallets(s) \cup {w}), OrderId \ (Orders(s) \cup {o}))
  BY <1>5, <1>6, <1>9, <1>10
<1> HIDE DEF t, w, D
<1> QED BY <1>2, <1>3, <1>4, <1>11, <1>12, OwnWork

\* Where a session in a pass over open orders stands.
LEMMA InPassWork ==
    ASSUME NEW t, NEW C, NEW D, NEW ws, NEW os,
           t.pc \in {"scan", "lock", "pay", "get"},
           NEW x \in Request, NEW F \in SUBSET OrderId, Does(x, F, C, D, ws, os),
           t.users = Sweeps(x), x.kind \in {"resting", "market", "monitor"},
           x.kind = "monitor" => t.pass = "conditional",
           \A o \in Listed(t) :
               LET row == IF o \in os THEN D.order[o] ELSE C.order[o] IN
               /\ row # Unused
               /\ row.user \in t.users
               /\ t.pass = "conditional" => Conditional(row),
           t.pc \in {"pay", "get"} => \E live \in Price : Triggered(D.order[t.id], live)
    PROVE  Work(t, C, D, ws, os)
BY DEF Work

LEMMA InPassDoes ==
    ASSUME AtomicInv, NEW s \in Session, tx[s].pc \in {"scan", "lock", "pay", "get"}
    PROVE  /\ \E x \in Request, F \in SUBSET OrderId :
                  /\ Does(x, F, Committed, draft, Wallets(s), Orders(s))
                  /\ tx[s].users = Sweeps(x)
                  /\ x.kind \in {"resting", "market", "monitor"}
                  /\ x.kind = "monitor" => tx[s].pass = "conditional"
           /\ \A o \in Listed(tx[s]) :
                  LET row == IF o \in Orders(s) THEN draft.order[o] ELSE Committed.order[o] IN
                  /\ row # Unused
                  /\ row.user \in tx[s].users
                  /\ tx[s].pass = "conditional" => Conditional(row)
           /\ tx[s].pc \in {"pay", "get"} =>
                  \E live \in Price : Triggered(draft.order[tx[s].id], live)
<1>1. Work(tx[s], Committed, draft, Wallets(s), Orders(s))
  BY DEF AtomicInv
<1> HIDE DEF Listed
<1> QED BY <1>1 DEF Work

\* A statement of a pass that locks and writes nothing.
LEMMA PassingWork ==
    ASSUME AtomicInv, TxInv', NEW s \in Session, UNCHANGED <<draft, walLock, ordLock, vars>>,
           NEW t, tx' = [tx EXCEPT ![s] = t],
           Work(t, Committed, draft, Wallets(s), Orders(s))
    PROVE  AtomicInv'
<1>1. /\ {} \in SUBSET Wallet /\ {} \in SUBSET OrderId /\ Lock(s, {}, {}) /\ draft' = draft
      /\ UNCHANGED vars
      /\ Wallets(s) \cup {} = Wallets(s) /\ Orders(s) \cup {} = Orders(s)
  BY NoLock DEF AtomicInv, TxInv
<1>2. Work(t, Committed, draft', Wallets(s) \cup {}, Orders(s) \cup {})
  BY <1>1
<1>3. Agree(draft', draft, Wallet \ (Wallets(s) \cup {}), OrderId \ (Orders(s) \cup {}))
  BY <1>1 DEF Agree
<1> QED BY <1>1, <1>2, <1>3, OwnWork

LEMMA SelectWork ==
    ASSUME AtomicInv, TxInv', NEW s \in Session, Select(s)
    PROVE  AtomicInv'
<1> DEFINE t == [pc |-> "lock", pass |-> tx[s].pass, users |-> tx[s].users, rows |-> {},
                 todo |-> {o \in OrderId : InPass(Seen(s, o), tx[s].pass, tx[s].users)}]
<1>1. /\ tx[s].pc = "scan" /\ UNCHANGED <<draft, walLock, ordLock, vars>>
      /\ tx' = [tx EXCEPT ![s] = t]
  BY DEF Select, Goto
<1>2. PICK x \in Request, F \in SUBSET OrderId :
          /\ Does(x, F, Committed, draft, Wallets(s), Orders(s))
          /\ tx[s].users = Sweeps(x)
          /\ x.kind \in {"resting", "market", "monitor"}
          /\ x.kind = "monitor" => tx[s].pass = "conditional"
  BY <1>1, InPassDoes
<1>3. /\ t.pc = "lock" /\ t.users = Sweeps(x) /\ t.pass = tx[s].pass
      /\ Listed(t) = {o \in OrderId : InPass(Seen(s, o), tx[s].pass, tx[s].users)}
  BY <1>2 DEF Listed
<1>4. ASSUME NEW o \in Listed(t)
      PROVE  LET row == IF o \in Orders(s) THEN draft.order[o] ELSE Committed.order[o] IN
             /\ row # Unused
             /\ row.user \in t.users
             /\ t.pass = "conditional" => Conditional(row)
  <2> DEFINE row == IF o \in Orders(s) THEN draft.order[o] ELSE Committed.order[o]
  <2>1. o \in OrderId /\ InPass(Seen(s, o), tx[s].pass, tx[s].users)
    BY <1>3
  <2>2. row = Seen(s, o)
    BY <2>1 DEF Seen, Orders, Committed
  <2> HIDE DEF row
  <2>3. row # Unused /\ row.user \in tx[s].users /\ (tx[s].pass = "conditional" => Conditional(row))
    BY <2>1, <2>2 DEF InPass, IsOpen, Unused
  <2> QED BY <2>3, <1>2, <1>3 DEF row
<1> HIDE DEF t
<1>5. Work(t, Committed, draft, Wallets(s), Orders(s))
  BY <1>2, <1>3, <1>4, InPassWork
<1> QED BY <1>1, <1>5, PassingWork

LEMMA LockRowWork ==
    ASSUME AtomicInv, TxInv', NEW s \in Session, NEW k \in OrderId, LockRow(s, k)
    PROVE  AtomicInv'
<1> DEFINE t == [tx[s] EXCEPT !.todo = @ \ {k},
                              !.rows = IF IsOpen(draft.order[k]) THEN @ \cup {k} ELSE @]
           os == Orders(s) \cup {k}
           ws == Wallets(s) \cup {}
<1>1. /\ tx[s].pc = "lock" /\ k \in tx[s].todo /\ Lock(s, {}, {k})
      /\ draft' = draft /\ UNCHANGED vars /\ tx' = [tx EXCEPT ![s] = t]
  BY DEF LockRow, Goto
<1>2. PICK x \in Request, F \in SUBSET OrderId :
          /\ Does(x, F, Committed, draft, Wallets(s), Orders(s))
          /\ tx[s].users = Sweeps(x)
          /\ x.kind \in {"resting", "market", "monitor"}
          /\ x.kind = "monitor" => tx[s].pass = "conditional"
  BY <1>1, InPassDoes
<1>3. /\ TxInv /\ {} \in SUBSET Wallet /\ {k} \in SUBSET OrderId
      /\ Committed \in Database /\ draft \in Database
      /\ Wallets(s) \in SUBSET Wallet /\ Orders(s) \in SUBSET OrderId /\ tx[s] \in Transaction
  BY States DEF AtomicInv
<1>4. Agree(draft, Committed, {}, {k} \ Orders(s))
  BY <1>1, <1>3, FreshRows DEF Agree
<1>5. Does(x, F, Committed, draft, ws, os)
  <2>1. Agree(draft, Committed, ws \ Wallets(s), os \ Orders(s))
    BY <1>4 DEF Agree
  <2>2. /\ Wallets(s) \subseteq ws /\ Orders(s) \subseteq os
        /\ ws \in SUBSET Wallet /\ os \in SUBSET OrderId
    BY <1>3
  <2> HIDE DEF ws, os
  <2> QED BY <1>2, <1>3, <2>1, <2>2, DoesGrow
<1>6. /\ t.pc = "lock" /\ t.users = tx[s].users /\ t.pass = tx[s].pass
      /\ Listed(t) \subseteq Listed(tx[s])
  BY <1>1, <1>3, Shapes DEF Listed
<1>7. ASSUME NEW o \in Listed(t)
      PROVE  LET row == IF o \in os THEN draft.order[o] ELSE Committed.order[o] IN
             /\ row # Unused
             /\ row.user \in t.users
             /\ t.pass = "conditional" => Conditional(row)
  <2> DEFINE row == IF o \in Orders(s) THEN draft.order[o] ELSE Committed.order[o]
  <2>1. row # Unused /\ row.user \in tx[s].users /\ (tx[s].pass = "conditional" => Conditional(row))
    BY <1>1, <1>6, InPassDoes
  <2>2. (IF o \in os THEN draft.order[o] ELSE Committed.order[o]) = row
    BY <1>4 DEF Agree
  <2> QED BY <1>6, <2>1, <2>2
<1> HIDE DEF t
<1>8. Work(t, Committed, draft, ws, os)
  <2> HIDE DEF ws, os
  <2> QED BY <1>2, <1>5, <1>6, <1>7, InPassWork
<1>9. Agree(draft', draft, Wallet \ ws, OrderId \ os) /\ Work(t, Committed, draft', ws, os)
  BY <1>1, <1>8 DEF Agree
<1> QED BY <1>1, <1>3, <1>9, OwnWork

LEMMA LookWork ==
    ASSUME AtomicInv, TxInv', NEW s \in Session, NEW k \in OrderId, Look(s, k)
    PROVE  AtomicInv'
<1> DEFINE t == [pc |-> "pay", pass |-> tx[s].pass, users |-> tx[s].users,
                 rows |-> tx[s].rows \ {k}, id |-> k]
<1>1. /\ tx[s].pc = "lock" /\ tx[s].todo = {} /\ k \in tx[s].rows
      /\ \E live \in Price : Triggered(draft.order[k], live)
      /\ UNCHANGED <<draft, walLock, ordLock, vars>> /\ tx' = [tx EXCEPT ![s] = t]
  BY DEF Look, Goto
<1>2. PICK x \in Request, F \in SUBSET OrderId :
          /\ Does(x, F, Committed, draft, Wallets(s), Orders(s))
          /\ tx[s].users = Sweeps(x)
          /\ x.kind \in {"resting", "market", "monitor"}
          /\ x.kind = "monitor" => tx[s].pass = "conditional"
  BY <1>1, InPassDoes
<1>3. /\ t.pc = "pay" /\ t.id = k /\ t.users = tx[s].users /\ t.pass = tx[s].pass
      /\ Listed(t) \subseteq Listed(tx[s])
  BY <1>1 DEF Listed
<1>4. \A o \in Listed(t) :
          LET row == IF o \in Orders(s) THEN draft.order[o] ELSE Committed.order[o] IN
          /\ row # Unused
          /\ row.user \in t.users
          /\ t.pass = "conditional" => Conditional(row)
  BY <1>1, <1>3, InPassDoes
<1> HIDE DEF t
<1>5. Work(t, Committed, draft, Wallets(s), Orders(s))
  BY <1>1, <1>2, <1>3, <1>4, InPassWork
<1> QED BY <1>1, <1>5, PassingWork

LEMMA EndPassWork ==
    ASSUME AtomicInv, TxInv', NEW s \in Session, EndPass(s)
    PROVE  AtomicInv'
<1> DEFINE t == IF tx[s].pass = "limit" THEN Scan("conditional", tx[s].users)
                                         ELSE [pc |-> "commit"]
<1>1. /\ tx[s].pc = "lock"
      /\ UNCHANGED <<draft, walLock, ordLock, vars>> /\ tx' = [tx EXCEPT ![s] = t]
  BY DEF EndPass, Goto
<1>2. PICK x \in Request, F \in SUBSET OrderId :
          /\ Does(x, F, Committed, draft, Wallets(s), Orders(s))
          /\ tx[s].users = Sweeps(x)
          /\ x.kind \in {"resting", "market", "monitor"}
  BY <1>1, InPassDoes
<1>3. \/ t.pc = "commit" /\ Listed(t) = {}
      \/ t.pc = "scan" /\ t.users = Sweeps(x) /\ t.pass = "conditional" /\ Listed(t) = {}
  BY <1>2 DEF Scan, Listed
<1> HIDE DEF t
<1>4. Work(t, Committed, draft, Wallets(s), Orders(s))
  BY <1>2, <1>3 DEF Work
<1> QED BY <1>1, <1>4, PassingWork

LEMMA FillPayWork ==
    ASSUME AtomicInv, TxInv', NEW s \in Session, FillPay(s)
    PROVE  AtomicInv'
<1> DEFINE t == [tx[s] EXCEPT !.pc = "get"]
           w == PayWallet(draft.order[tx[s].id])
           ws == Wallets(s) \cup {w}
           os == Orders(s) \cup {}
<1>1. /\ tx[s].pc = "pay" /\ Lock(s, {w}, {})
      /\ draft' = draft /\ UNCHANGED vars /\ tx' = [tx EXCEPT ![s] = t]
  BY DEF FillPay, Goto
<1>2. PICK x \in Request, F \in SUBSET OrderId :
          /\ Does(x, F, Committed, draft, Wallets(s), Orders(s))
          /\ tx[s].users = Sweeps(x)
          /\ x.kind \in {"resting", "market", "monitor"}
          /\ x.kind = "monitor" => tx[s].pass = "conditional"
  BY <1>1, InPassDoes
<1>3. /\ TxInv /\ {} \in SUBSET OrderId
      /\ Committed \in Database /\ draft \in Database
      /\ Wallets(s) \in SUBSET Wallet /\ Orders(s) \in SUBSET OrderId /\ tx[s] \in Transaction
  BY States DEF AtomicInv
<1>4. {w} \in SUBSET Wallet
  <2>1. tx[s].id \in OrderId /\ IsOpen(draft.order[tx[s].id])
    BY <1>1, <1>3, Shapes DEF TxInv, Owns
  <2>2. draft.order[tx[s].id] \in OrderRow
    BY <1>3, <2>1, OpenRow DEF Database, Row
  <2> QED BY <2>2, TermsTypes
<1>5. Does(x, F, Committed, draft, ws, os)
  <2>1. Agree(draft, Committed, ws \ Wallets(s), os \ Orders(s))
    <3>1. Agree(draft, Committed, {w} \ Wallets(s), {} \ Orders(s))
      BY <1>1, <1>3, <1>4, FreshRows
    <3> QED BY <3>1 DEF Agree
  <2>2. /\ Wallets(s) \subseteq ws /\ Orders(s) \subseteq os
        /\ ws \in SUBSET Wallet /\ os \in SUBSET OrderId
    BY <1>3, <1>4
  <2> HIDE DEF ws, os
  <2> QED BY <1>2, <1>3, <2>1, <2>2, DoesGrow
<1>6. /\ t.pc = "get" /\ t.id = tx[s].id /\ t.users = tx[s].users /\ t.pass = tx[s].pass
      /\ Listed(t) = Listed(tx[s])
  BY <1>1, <1>3, Shapes DEF Listed
<1>7. /\ \A o \in Listed(t) :
             LET row == IF o \in os THEN draft.order[o] ELSE Committed.order[o] IN
             /\ row # Unused
             /\ row.user \in t.users
             /\ t.pass = "conditional" => Conditional(row)
      /\ \E live \in Price : Triggered(draft.order[t.id], live)
  BY <1>1, <1>6, InPassDoes
<1> HIDE DEF t, w
<1>8. Work(t, Committed, draft, ws, os)
  <2> HIDE DEF ws, os
  <2> QED BY <1>2, <1>5, <1>6, <1>7, InPassWork
<1>9. Agree(draft', draft, Wallet \ ws, OrderId \ os) /\ Work(t, Committed, draft', ws, os)
  BY <1>1, <1>8 DEF Agree
<1> QED BY <1>1, <1>3, <1>4, <1>9, OwnWork

LEMMA FillGetWork ==
    ASSUME AtomicInv, TxInv', NEW s \in Session, FillGet(s)
    PROVE  AtomicInv'
<1> DEFINE k == tx[s].id
           t == [pc |-> "lock", pass |-> tx[s].pass, users |-> tx[s].users,
                 todo |-> {}, rows |-> tx[s].rows]
           w == GetWallet(draft.order[k])
           ws == Wallets(s) \cup {w}
           os == Orders(s) \cup {}
<1>1. /\ tx[s].pc = "get" /\ Lock(s, {w}, {}) /\ draft' = Filled(draft, {k})
      /\ UNCHANGED vars /\ tx' = [tx EXCEPT ![s] = t]
  BY DEF FillGet, Goto, Filled
<1>2. PICK x \in Request, F \in SUBSET OrderId :
          /\ Does(x, F, Committed, draft, Wallets(s), Orders(s))
          /\ tx[s].users = Sweeps(x)
          /\ x.kind \in {"resting", "market", "monitor"}
          /\ x.kind = "monitor" => tx[s].pass = "conditional"
  BY <1>1, InPassDoes
<1>3. /\ TxInv /\ {} \in SUBSET OrderId
      /\ Committed \in Database /\ draft \in Database
      /\ Wallets(s) \in SUBSET Wallet /\ Orders(s) \in SUBSET OrderId /\ tx[s] \in Transaction
  BY States DEF AtomicInv
<1>4. /\ k \in OrderId /\ k \in Orders(s) /\ IsOpen(draft.order[k]) /\ k \notin tx[s].rows
      /\ tx[s].rows \subseteq Orders(s) /\ PayWallet(draft.order[k]) \in Wallets(s)
      /\ w \in Wallet
  <2>1. tx[s].id \in OrderId /\ IsOpen(draft.order[k]) /\ tx[s].rows \subseteq OrderId
    BY <1>1, <1>3, Shapes DEF TxInv, Owns
  <2>2. draft.order[k] \in OrderRow
    BY <1>3, <2>1, OpenRow DEF Database, Row
  <2>3. PayWallet(draft.order[k]) \in Wallet /\ w \in Wallet
    BY <2>2, TermsTypes
  <2> QED BY <1>1, <1>3, <2>1, <2>3 DEF TxInv, Owns, Wallets, Orders
<1>5. /\ ws \in SUBSET Wallet /\ os \in SUBSET OrderId /\ {w} \in SUBSET Wallet
      /\ Wallets(s) \subseteq ws /\ os = Orders(s)
      /\ {PayWallet(draft.order[k]), GetWallet(draft.order[k])} \subseteq ws
  BY <1>3, <1>4
<1>6. Does(x, F, Committed, draft, ws, os)
  <2>1. Agree(draft, Committed, ws \ Wallets(s), os \ Orders(s))
    <3>1. Agree(draft, Committed, {w} \ Wallets(s), {} \ Orders(s))
      BY <1>1, <1>3, <1>5, FreshRows
    <3> QED BY <3>1 DEF Agree
  <2> HIDE DEF ws, os
  <2> QED BY <1>2, <1>3, <1>5, <2>1, DoesGrow
<1>7. /\ draft.order[k].user \in Sweeps(x)
      /\ x.kind = "monitor" => Conditional(draft.order[k])
      /\ \E live \in Price : Triggered(draft.order[k], live)
  <2>1. k \in Listed(tx[s])
    BY <1>1 DEF Listed
  <2> QED BY <1>1, <1>2, <1>4, <2>1, InPassDoes
<1>8. Does(x, F \cup {k}, Committed, draft', ws, os) /\ F \cup {k} \in SUBSET OrderId
  <2> HIDE DEF ws, os, k
  <2> QED BY <1>1, <1>3, <1>4, <1>5, <1>6, <1>7, DoesFill
<1>9. Agree(draft', draft, Wallet \ ws, OrderId \ {k})
  <2>1. {k} \in SUBSET OpenRows(draft.order)
    BY <1>4 DEF OpenRows
  <2>2. /\ \A v \in Wallet \ ws : /\ draft'.wallet[v] = draft.wallet[v]
                                  /\ draft'.ledger[v] = draft.ledger[v]
        /\ \A o \in OrderId \ {k} : /\ draft'.order[o] = draft.order[o]
                                    /\ draft'.trades[o] = draft.trades[o]
    <3> HIDE DEF ws, k
    <3> QED BY <1>1, <1>3, <1>5, <2>1, FilledRows
  <2> QED BY <2>2 DEF Agree
<1>10. /\ t.pc = "lock" /\ t.users = tx[s].users /\ t.pass = tx[s].pass
       /\ Listed(t) = tx[s].rows /\ Listed(t) \subseteq Listed(tx[s])
  BY <1>1 DEF Listed
<1>11. ASSUME NEW o \in Listed(t)
       PROVE  LET row == IF o \in os THEN draft'.order[o] ELSE Committed.order[o] IN
              /\ row # Unused
              /\ row.user \in t.users
              /\ t.pass = "conditional" => Conditional(row)
  <2>1. /\ draft.order[o] # Unused /\ draft.order[o].user \in tx[s].users
        /\ tx[s].pass = "conditional" => Conditional(draft.order[o])
    BY <1>1, <1>4, <1>10, InPassDoes
  <2>2. o \in os /\ draft'.order[o] = draft.order[o]
    BY <1>3, <1>4, <1>9, <1>10 DEF Agree
  <2> QED BY <1>10, <2>1, <2>2
<1> HIDE DEF t, w, k
<1>12. Work(t, Committed, draft', ws, os)
  <2> HIDE DEF ws, os
  <2> QED BY <1>2, <1>8, <1>10, <1>11, InPassWork
<1>13. Agree(draft', draft, Wallet \ ws, OrderId \ os)
  BY <1>4, <1>9 DEF Agree
<1> QED BY <1>1, <1>3, <1>5, <1>12, <1>13, OwnWork

LEMMA BeginCancelWork ==
    ASSUME AtomicInv, TxInv', "cancel" \in Kinds, NEW s \in Session, NEW o \in OrderId,
           BeginCancel(s, o)
    PROVE  AtomicInv'
<1> DEFINE t == [pc |-> "unfreeze", id |-> o]
<1>1. /\ tx[s] = Idle /\ IsOpen(order[o]) /\ tx' = [tx EXCEPT ![s] = t]
      /\ UNCHANGED <<draft, walLock, ordLock, vars>>
  BY DEF BeginCancel, Goto
<1>2. Wallets(s) = {} /\ Orders(s) = {} /\ Committed.order = order
  BY <1>1, States DEF AtomicInv
<1>3. Work(t, Committed, draft, Wallets(s), Orders(s))
  BY <1>1, <1>2 DEF Work, Listed, IsOpen, Unused
<1> HIDE DEF t
<1> QED BY <1>1, <1>3, PassingWork

\* The order a session is about to cancel, and the hold it gives back.
LEMMA Cancelling ==
    ASSUME AtomicInv, NEW s \in Session, tx[s].pc \in {"unfreeze", "close"}
    PROVE  /\ tx[s].id \in OrderId /\ order[tx[s].id] \in OrderRow /\ "cancel" \in Kinds
           /\ PayWallet(order[tx[s].id]) \in Wallet
           /\ PayAmount(order[tx[s].id]) \in Int /\ -PayAmount(order[tx[s].id]) \in Int
           /\ Orders(s) = {}
           /\ tx[s].pc = "unfreeze" => Wallets(s) = {}
<1>1. tx[s].id \in OrderId /\ Work(tx[s], Committed, draft, Wallets(s), Orders(s))
  BY Shapes DEF AtomicInv, TxInv, TxTypeOK
<1>2. /\ "cancel" \in Kinds /\ order[tx[s].id] # Unused /\ Orders(s) = {}
      /\ tx[s].pc = "unfreeze" => Wallets(s) = {}
  BY <1>1 DEF Work, Committed
<1>3. order[tx[s].id] \in OrderRow
  BY <1>1, <1>2, Types DEF AtomicInv, TxInv, Row
<1>4. /\ PayWallet(order[tx[s].id]) \in Wallet
      /\ PayAmount(order[tx[s].id]) \in Int /\ -PayAmount(order[tx[s].id]) \in Int
  BY <1>3, TermsTypes
<1> QED BY <1>1, <1>2, <1>3, <1>4

LEMMA CancelUnfreezeWork ==
    ASSUME AtomicInv, TxInv', NEW s \in Session, CancelUnfreeze(s)
    PROVE  AtomicInv'
<1> DEFINE r == order[tx[s].id]
           w == PayWallet(r)
           t == [tx[s] EXCEPT !.pc = "close"]
<1>1. /\ tx[s].pc = "unfreeze" /\ Lock(s, {w}, {}) /\ UNCHANGED vars
      /\ draft' = [draft EXCEPT !.wallet = Unfreeze(@, r)]
      /\ tx' = [tx EXCEPT ![s] = t]
  BY DEF CancelUnfreeze, Goto
<1>2. /\ tx[s].id \in OrderId /\ r \in OrderRow /\ "cancel" \in Kinds /\ w \in Wallet
      /\ Wallets(s) = {} /\ Orders(s) = {}
  BY <1>1, Cancelling
<1>3. PICK n \in Int, m \in Int : n = PayAmount(r) /\ m = -PayAmount(r)
  BY <1>1, Cancelling
<1>4. /\ TxInv /\ {w} \in SUBSET Wallet /\ {} \in SUBSET OrderId
      /\ draft.wallet \in [Wallet -> WalletRow] /\ wallet \in [Wallet -> WalletRow]
      /\ Committed.wallet = wallet /\ Committed.order = order /\ Committed.ledger = ledger
      /\ draft'.wallet = Move(draft.wallet, w, 0, n, m) /\ draft'.order = draft.order
      /\ draft'.trades = draft.trades /\ draft'.ledger = draft.ledger
  BY <1>1, <1>2, <1>3, Types DEF AtomicInv, TxInv, Committed, Unfreeze
<1>5. draft.wallet[w] = wallet[w] /\ draft.ledger[w] = ledger[w]
  <2>1. Agree(draft, Committed, {w} \ Wallets(s), {} \ Orders(s))
    BY <1>1, <1>4, FreshRows
  <2> QED BY <1>2, <1>4, <2>1 DEF Agree
<1>6. /\ draft'.wallet[w] = Unfreeze(Committed.wallet, r)[w]
      /\ draft'.ledger[w] = Committed.ledger[w]
      /\ \A v \in Wallet \ {w} : draft'.wallet[v] = draft.wallet[v]
  <2>1. draft'.wallet[w] = Move(wallet, w, 0, n, m)[w]
    BY <1>2, <1>4, <1>5 DEF Move
  <2>2. \A v \in Wallet \ {w} : draft'.wallet[v] = draft.wallet[v]
    BY <1>2, <1>4 DEF Move
  <2> QED BY <1>3, <1>4, <1>5, <2>1, <2>2 DEF Unfreeze
<1>7. t.pc = "close" /\ t.id = tx[s].id /\ Listed(t) = {}
  <2>1. tx[s] \in [pc : {"unfreeze"}, id : OrderId]
    BY <1>1 DEF AtomicInv, TxInv, TxTypeOK, Transaction, Idle
  <2> QED BY <2>1 DEF Listed
<1>8. Work(t, Committed, draft', {w}, {})
  <2>1. r = Committed.order[t.id] /\ Committed.order[t.id] # Unused
    BY <1>1, <1>4, <1>7 DEF AtomicInv, Work
  <2> HIDE DEF t
  <2> QED BY <1>2, <1>6, <1>7, <2>1 DEF Work
<1>9. /\ Work(t, Committed, draft', Wallets(s) \cup {w}, Orders(s) \cup {})
      /\ Agree(draft', draft, Wallet \ (Wallets(s) \cup {w}), OrderId \ (Orders(s) \cup {}))
  BY <1>2, <1>4, <1>6, <1>8 DEF Agree
<1> HIDE DEF r, w, t
<1> QED BY <1>1, <1>4, <1>9, OwnWork

LEMMA CancelCloseWork ==
    ASSUME AtomicInv, TxInv', NEW s \in Session, CancelClose(s)
    PROVE  AtomicInv'
<1> DEFINE o == tx[s].id
           r == order[o]
           w == PayWallet(r)
           t == [pc |-> "commit"]
           x == [kind |-> "cancel", id |-> o, row |-> r]
<1>1. /\ tx[s].pc = "close" /\ Lock(s, {}, {o}) /\ UNCHANGED vars
      /\ draft' = [draft EXCEPT !.order[o].status = "cancelled"]
      /\ tx' = [tx EXCEPT ![s] = t]
  BY DEF CancelClose, Goto
<1>2. o \in OrderId /\ r \in OrderRow /\ "cancel" \in Kinds /\ w \in Wallet /\ Orders(s) = {}
  BY <1>1, Cancelling
<1>3. /\ TxInv /\ {} \in SUBSET Wallet /\ {o} \in SUBSET OrderId
      /\ Committed \in Database /\ draft \in Database /\ draft' \in Database
      /\ Committed.order = order
  <2>1. TxTypeOK'
    BY DEF TxInv
  <2>2. draft' \in Database
    BY <2>1 DEF TxTypeOK, Database, Row
  <2> QED BY <1>2, <2>2, States DEF AtomicInv
<1>4. /\ Wallets(s) = {w}
      /\ draft.wallet[w] = Unfreeze(Committed.wallet, r)[w]
      /\ draft.ledger[w] = Committed.ledger[w]
  BY <1>1, <1>3 DEF AtomicInv, Work
<1>5. draft.order[o] = order[o] /\ draft.trades[o] = Committed.trades[o]
  <2>1. Agree(draft, Committed, {} \ Wallets(s), {o} \ Orders(s))
    BY <1>1, <1>3, FreshRows
  <2> QED BY <1>2, <1>3, <2>1 DEF Agree
<1>6. /\ draft'.wallet = draft.wallet /\ draft'.ledger = draft.ledger
      /\ draft'.trades = draft.trades
      /\ draft'.order = [draft.order EXCEPT ![o].status = "cancelled"]
      /\ draft.order \in [OrderId -> Row] /\ Committed.order \in [OrderId -> Row]
  BY <1>1, <1>3 DEF Database
<1>7. x \in Request /\ x.kind \in Kinds /\ Touched(x) = {w} /\ Written(x) = {o}
  BY <1>2 DEF Request, Touched, Written
<1>8. Allowed(x, Committed)
  BY <1>3 DEF Allowed
<1>9. Agree(draft', Begun(x, Committed), {w}, {o})
  <2>1. /\ Begun(x, Committed).wallet = Unfreeze(Committed.wallet, r)
        /\ Begun(x, Committed).ledger = Committed.ledger
        /\ Begun(x, Committed).trades = Committed.trades
        /\ Begun(x, Committed).order = [Committed.order EXCEPT ![o] = [r EXCEPT !.status = "cancelled"]]
    BY DEF Begun, BegunWallets, BegunLedger, BegunTrades, BegunOrders
  <2>2. draft'.order[o] = [r EXCEPT !.status = "cancelled"]
    BY <1>2, <1>5, <1>6
  <2>3. Begun(x, Committed).order[o] = [r EXCEPT !.status = "cancelled"]
    BY <1>2, <1>6, <2>1
  <2> HIDE DEF x, r, w, o
  <2> QED BY <1>4, <1>5, <1>6, <2>1, <2>2, <2>3 DEF Agree
<1>10. Does(x, {}, Committed, draft', {w}, {o})
  <2>1. {w} \in SUBSET Wallet
    BY <1>2
  <2> HIDE DEF x, r, w, o
  <2> QED BY <1>3, <1>7, <1>8, <1>9, <2>1, DoesBegin
<1>11. Work(t, Committed, draft', {w}, {o})
  <2>1. {} \in SUBSET OrderId /\ t.pc = "commit" /\ Listed(t) = {}
    BY DEF Listed
  <2> HIDE DEF x, r, w, o, t
  <2> QED BY <1>7, <1>10, <2>1 DEF Work
<1>12. /\ Work(t, Committed, draft', Wallets(s) \cup {}, Orders(s) \cup {o})
       /\ Agree(draft', draft, Wallet \ (Wallets(s) \cup {}), OrderId \ (Orders(s) \cup {o}))
  BY <1>2, <1>4, <1>6, <1>11 DEF Agree
<1> HIDE DEF r, w, t, x, o
<1> QED BY <1>1, <1>3, <1>12, OwnWork

LEMMA SettleWork ==
    ASSUME AtomicInv, TxInv', NEW s \in Session, Settle(s)
    PROVE  AtomicInv'
<1> DEFINE o == tx[s].id
           r == tx[s].row
           p == PayWallet(r)
           g == GetWallet(r)
           t == Scan("limit", {r.user})
           x == [kind |-> "market", id |-> o, row |-> r]
<1>1. tx[s].pc = "settle" /\ o \in OrderId /\ r \in OrderRow
  BY Shapes DEF Settle, AtomicInv, TxInv, TxTypeOK
<1>2. p \in Wallet /\ g \in Wallet /\ p # g /\ PayAmount(r) \in Int /\ GetAmount(r) \in Int
  BY <1>1, TermsTypes
<1>3. PICK n \in Int, m \in Int : n = -PayAmount(r) /\ m = GetAmount(r)
  BY <1>2
<1>4. /\ Lock(s, {g}, {}) /\ tx' = [tx EXCEPT ![s] = t] /\ UNCHANGED vars
      /\ draft'.wallet = Move(draft.wallet, g, m, m, 0)
      /\ draft'.order = [draft.order EXCEPT ![o] = r]
      /\ draft'.trades = [draft.trades EXCEPT ![o] = 1]
      /\ draft'.ledger = Enter(Enter(draft.ledger, p, n), g, m)
  BY <1>3 DEF Settle, Goto
<1>5. /\ TxInv /\ {g} \in SUBSET Wallet /\ {} \in SUBSET OrderId
      /\ Committed \in Database /\ draft \in Database /\ draft' \in Database
  <2>1. TxTypeOK'
    BY DEF TxInv
  <2>2. draft' \in Database
    BY <2>1 DEF TxTypeOK, Database, Row
  <2> QED BY <1>2, <2>2, States DEF AtomicInv
<1>6. Wallets(s) = {p} /\ Orders(s) = {o}
  <2>1. /\ PayWallet(tx[s].row) \in Wallets(s) /\ tx[s].id \in Orders(s)
    BY <1>1, States DEF AtomicInv
  <2>2. Wallets(s) \subseteq {PayWallet(tx[s].row)} /\ Orders(s) \subseteq {tx[s].id}
    BY <1>1 DEF AtomicInv, Work
  <2> QED BY <2>1, <2>2
<1>7. /\ "market" \in Kinds /\ r.status = "filled" /\ r.type = "market"
      /\ Committed.order[o] = Unused
      /\ Committed.wallet[p].available >= PayAmount(r)
      /\ draft.wallet[p] = Move(Committed.wallet, p, n, n, 0)[p]
      /\ draft.ledger[p] = Committed.ledger[p]
  <2>1. Work(tx[s], Committed, draft, {p}, {o})
    BY <1>6 DEF AtomicInv
  <2> QED BY <1>1, <1>3, <2>1 DEF Work
<1>8. draft.wallet[g] = Committed.wallet[g] /\ draft.ledger[g] = Committed.ledger[g]
  <2>1. Agree(draft, Committed, {g} \ Wallets(s), {} \ Orders(s))
    BY <1>4, <1>5, FreshRows
  <2> QED BY <1>2, <1>6, <2>1 DEF Agree
<1>9. /\ draft.wallet \in [Wallet -> WalletRow] /\ draft.ledger \in [Wallet -> Int]
      /\ draft.order \in [OrderId -> Row] /\ draft.trades \in [OrderId -> Nat]
      /\ Committed.wallet \in [Wallet -> WalletRow] /\ Committed.ledger \in [Wallet -> Int]
      /\ Committed.order \in [OrderId -> Row] /\ Committed.trades \in [OrderId -> Nat]
  BY <1>5 DEF Database
<1>10. /\ Begun(x, Committed).wallet = Move(Move(Committed.wallet, p, n, n, 0), g, m, m, 0)
       /\ Begun(x, Committed).order = [Committed.order EXCEPT ![o] = r]
       /\ Begun(x, Committed).trades = [Committed.trades EXCEPT ![o] = 1]
       /\ Begun(x, Committed).ledger = Enter(Enter(Committed.ledger, p, n), g, m)
  BY <1>3 DEF Begun, BegunWallets, BegunOrders, BegunTrades, BegunLedger, SettleMarket
<1>11. /\ x \in Request /\ x.kind \in Kinds /\ x.kind = "market"
       /\ Touched(x) = {p, g} /\ Written(x) = {o} /\ Sweeps(x) = {r.user}
  BY <1>1, <1>7 DEF Request, Touched, Written, Sweeps
<1>12. Allowed(x, Committed)
  BY <1>7 DEF Allowed
<1> HIDE DEF x, r, p, g, o
<1>13. \A w \in {p, g} : /\ draft'.wallet[w] = Begun(x, Committed).wallet[w]
                         /\ draft'.ledger[w] = Begun(x, Committed).ledger[w]
  <2> DEFINE c == Move(Committed.wallet, p, n, n, 0)
  <2>1. c \in [Wallet -> WalletRow] /\ c[p] = draft.wallet[p] /\ c[g] = draft.wallet[g]
    BY <1>2, <1>7, <1>8, <1>9, MoveRows
  <2> HIDE DEF c
  <2>2. \A w \in {p, g} : Move(draft.wallet, g, m, m, 0)[w] = Move(c, g, m, m, 0)[w]
    BY <1>2, <1>9, <2>1 DEF Move
  <2>3. \A w \in {p, g} : draft'.ledger[w] = Begun(x, Committed).ledger[w]
    BY <1>2, <1>4, <1>7, <1>8, <1>9, <1>10 DEF Enter
  <2> QED BY <1>4, <1>10, <2>2, <2>3 DEF c
<1>14. draft'.order[o] = Begun(x, Committed).order[o] /\ draft'.trades[o] = Begun(x, Committed).trades[o]
  BY <1>1, <1>4, <1>9, <1>10
<1>15. Does(x, {}, Committed, draft', {p, g}, {o})
  <2>1. Agree(draft', Begun(x, Committed), {p, g}, {o})
    BY <1>13, <1>14 DEF Agree
  <2>2. {p, g} \in SUBSET Wallet /\ {o} \in SUBSET OrderId
    BY <1>1, <1>2
  <2> QED BY <1>5, <1>11, <1>12, <2>1, <2>2, DoesBegin
<1>16. Work(t, Committed, draft', {p, g}, {o})
  <2>1. /\ t.pc = "scan" /\ t.users = Sweeps(x) /\ Listed(t) = {} /\ {} \in SUBSET OrderId
    BY <1>11 DEF Scan, Listed
  <2> HIDE DEF t
  <2> QED BY <1>11, <1>15, <2>1, InPassWork
<1>17. /\ Work(t, Committed, draft', Wallets(s) \cup {g}, Orders(s) \cup {})
       /\ Agree(draft', draft, Wallet \ (Wallets(s) \cup {g}), OrderId \ (Orders(s) \cup {}))
  <2>1. Wallets(s) \cup {g} = {p, g} /\ Orders(s) \cup {} = {o}
    BY <1>6
  <2>2. Agree(draft', draft, Wallet \ {p, g}, OrderId \ {o})
    BY <1>2, <1>4, <1>9 DEF Agree, Move, Enter
  <2> HIDE DEF t
  <2> QED BY <1>16, <2>1, <2>2
<1> HIDE DEF t
<1> QED BY <1>4, <1>5, <1>17, OwnWork

\* A session that has ended its transaction has locked nothing more than others
\* had, and stands nowhere.
LEMMA ReleaseFacts ==
    ASSUME TxInv, NEW s \in Session, Release(s), Goto(s, Idle)
    PROVE  /\ \A r \in Session : r # s =>
                  /\ tx'[r] = tx[r]
                  /\ \A w \in Wallet : walLock'[w] = r <=> walLock[w] = r
                  /\ \A o \in OrderId : ordLock'[o] = r <=> ordLock[o] = r
           /\ tx'[s] = Idle
           /\ Work(tx[s], Committed, draft, Wallets(s), Orders(s))'
<1>1. tx \in [Session -> Transaction] /\ tx' = [tx EXCEPT ![s] = Idle]
  BY DEF Goto, TxInv, TxTypeOK
<1>2. tx'[s] = Idle /\ \A r \in Session : r # s => tx'[r] = tx[r]
  BY <1>1
<1>3. \A r \in Session : r # s =>
          /\ \A w \in Wallet : walLock'[w] = r <=> walLock[w] = r
          /\ \A o \in OrderId : ordLock'[o] = r <=> ordLock[o] = r
  BY NoneAssumption DEF Release
<1>4. Idle.pc = "idle" /\ Listed(Idle) = {}
  BY DEF Idle, Listed
<1>5. \A C, D, ws, os : Work(Idle, C, D, ws, os)
  BY <1>4 DEF Work
<1> QED BY <1>2, <1>3, <1>5

LEMMA RollbackWork ==
    ASSUME AtomicInv, TxInv', NEW s \in Session, Rollback(s)
    PROVE  AtomicInv'
<1>1. /\ Release(s) /\ Goto(s, Idle) /\ TxInv
      /\ wallet' = wallet /\ order' = order /\ trades' = trades /\ ledger' = ledger
      /\ draft' = Merge(s, Committed, draft)
  BY DEF Rollback, vars, AtomicInv
<1>2. ASSUME NEW r \in Session
      PROVE  Work(tx[r], Committed, draft, Wallets(r), Orders(r))'
  <2>1. CASE r = s
    BY <1>1, <2>1, ReleaseFacts
  <2>2. CASE r # s
    <3>1. /\ tx'[r] = tx[r]
          /\ \A w \in Wallet : walLock'[w] = r <=> walLock[w] = r
          /\ \A o \in OrderId : ordLock'[o] = r <=> ordLock[o] = r
      BY <1>1, <2>2, ReleaseFacts
    <3>2. /\ \A w \in Wallet : walLock[w] = r =>
                 draft'.wallet[w] = draft.wallet[w] /\ draft'.ledger[w] = draft.ledger[w]
          /\ \A o \in OrderId : ordLock[o] = r =>
                 draft'.order[o] = draft.order[o] /\ draft'.trades[o] = draft.trades[o]
      BY <1>1, <2>2 DEF Merge
    <3>3. \A o \in OrderId : order[o] # Unused =>
              order'[o] # Unused /\ SameTerms(order'[o], order[o])
      BY <1>1 DEF SameTerms
    <3> QED BY <1>1, <3>1, <3>2, <3>3, OthersWork
  <2> QED BY <2>1, <2>2
<1> QED BY <1>2 DEF AtomicInv

LEMMA CommitWork ==
    ASSUME AtomicInv, TxInv', NEW s \in Session, Commit(s)
    PROVE  AtomicInv'
<1>1. /\ Release(s) /\ Goto(s, Idle) /\ TxInv /\ draft' = draft /\ tx[s].pc = "commit"
  BY DEF Commit, AtomicInv
<1>2. /\ \A w \in Wallet :
             /\ wallet'[w] = IF walLock[w] = s THEN draft.wallet[w] ELSE wallet[w]
             /\ ledger'[w] = IF walLock[w] = s THEN draft.ledger[w] ELSE ledger[w]
      /\ \A o \in OrderId :
             /\ order'[o] = IF ordLock[o] = s THEN draft.order[o] ELSE order[o]
             /\ trades'[o] = IF ordLock[o] = s THEN draft.trades[o] ELSE trades[o]
  BY DEF Commit, Merge, Committed
<1>3. /\ Committed \in Database /\ draft \in Database
      /\ Committed.wallet = wallet /\ Committed.order = order
      /\ Wallets(s) \in SUBSET Wallet /\ Orders(s) \in SUBSET OrderId
  BY <1>1, States
<1>4. PICK x \in Request, F \in SUBSET OrderId :
          Does(x, F, Committed, draft, Wallets(s), Orders(s))
  BY <1>1 DEF AtomicInv, Work
<1>5. \A o \in OrderId : order[o] # Unused => order'[o] # Unused /\ SameTerms(order'[o], order[o])
  <2> SUFFICES ASSUME NEW o \in OrderId, order[o] # Unused
               PROVE  order'[o] # Unused /\ SameTerms(order'[o], order[o])
    OBVIOUS
  <2>1. CASE ordLock[o] # s
    BY <1>2, <2>1 DEF SameTerms
  <2>2. CASE ordLock[o] = s
    <3>1. o \in Orders(s) /\ Committed.order[o] # Unused
      BY <1>3, <2>2 DEF Orders
    <3>2. SameTerms(draft.order[o], Committed.order[o])
      BY <1>3, <1>4, <3>1, DoesTerms
    <3>3. draft.order[o] # Unused
      BY <1>1 DEF TxInv, RowsKept
    <3> QED BY <1>2, <1>3, <2>2, <3>2, <3>3
  <2> QED BY <2>1, <2>2
<1>6. ASSUME NEW r \in Session, r # s, NEW u \in User, NEW a \in Asset,
             walLock[Spot(u, a)] = r
      PROVE  wallet'[<<u, a, "funding">>] = wallet[<<u, a, "funding">>]
  <2> DEFINE f == <<u, a, "funding">>
  <2>1. f \in Wallet /\ Spot(u, a) \in Wallet /\ Spot(u, a) \notin Wallets(s)
    BY <1>6 DEF Wallet, WalletType, Spot, Wallets
  <2>2. CASE walLock[f] = s
    <3>1. f \in Wallets(s)
      BY <2>1, <2>2 DEF Wallets
    <3>2. draft.wallet[f] = Committed.wallet[f]
      BY <1>3, <1>4, <2>1, <3>1, DoesFunding
    <3> QED BY <1>2, <1>3, <2>1, <3>2
  <2>3. CASE walLock[f] # s
    BY <1>2, <2>1, <2>3
  <2> QED BY <2>2, <2>3
<1>7. ASSUME NEW r \in Session
      PROVE  Work(tx[r], Committed, draft, Wallets(r), Orders(r))'
  <2>1. CASE r = s
    BY <1>1, <2>1, ReleaseFacts
  <2>2. CASE r # s
    <3>1. /\ tx'[r] = tx[r]
          /\ \A w \in Wallet : walLock'[w] = r <=> walLock[w] = r
          /\ \A o \in OrderId : ordLock'[o] = r <=> ordLock[o] = r
      BY <1>1, <2>2, ReleaseFacts
    <3>2. /\ \A w \in Wallet : walLock[w] = r =>
                 /\ draft'.wallet[w] = draft.wallet[w] /\ draft'.ledger[w] = draft.ledger[w]
                 /\ wallet'[w] = wallet[w] /\ ledger'[w] = ledger[w]
          /\ \A o \in OrderId : ordLock[o] = r =>
                 /\ draft'.order[o] = draft.order[o] /\ draft'.trades[o] = draft.trades[o]
                 /\ order'[o] = order[o] /\ trades'[o] = trades[o]
      BY <1>1, <1>2, <2>2
    <3>3. \A u \in User, a \in Asset : walLock[Spot(u, a)] = r =>
              wallet'[<<u, a, "funding">>] = wallet[<<u, a, "funding">>]
      BY <1>6, <2>2
    <3> QED BY <1>5, <3>1, <3>2, <3>3, OthersWork
  <2> QED BY <2>1, <2>2
<1> QED BY <1>7 DEF AtomicInv

LEMMA AtomicInitInv == TxInit => AtomicInv
<1> SUFFICES ASSUME TxInit PROVE AtomicInv
  OBVIOUS
<1>1. TxInv
  BY TxInitInv
<1>2. ASSUME NEW s \in Session PROVE Work(tx[s], Committed, draft, Wallets(s), Orders(s))
  <2>1. tx[s] = Idle /\ Idle.pc = "idle" /\ Listed(Idle) = {}
    BY DEF TxInit, Idle, Listed
  <2> QED BY <2>1 DEF Work
<1> QED BY <1>1, <1>2 DEF AtomicInv

LEMMA AtomicNextInv == AtomicInv /\ [TxNext]_txVars => AtomicInv'
<1> SUFFICES ASSUME AtomicInv, [TxNext]_txVars PROVE AtomicInv'
  OBVIOUS
<1>1. TxInv'
  BY TxNextInv DEF AtomicInv
<1>2. CASE UNCHANGED txVars
  <2>1. /\ tx' = tx /\ draft' = draft /\ Committed' = Committed
        /\ \A s \in Session : Wallets(s)' = Wallets(s) /\ Orders(s)' = Orders(s)
    BY <1>2 DEF txVars, Committed, Wallets, Orders
  <2> QED BY <1>1, <2>1 DEF AtomicInv
<1>3. ASSUME NEW s \in Session, Begin(s) PROVE AtomicInv'
  <2>1. ASSUME "deposit" \in Kinds,
               NEW u \in User, NEW a \in Asset, NEW amt \in Amount, BeginDeposit(s, u, a, amt)
        PROVE  AtomicInv'
    BY <1>1, <2>1, BeginDepositWork
  <2>2. ASSUME "withdraw" \in Kinds,
               NEW u \in User, NEW a \in Asset, NEW amt \in Amount, BeginWithdraw(s, u, a, amt)
        PROVE  AtomicInv'
    BY <1>1, <2>2, BeginWithdrawWork
  <2>3. ASSUME "transfer" \in Kinds,
               NEW u \in User, NEW a \in Asset, NEW from \in WalletType, NEW to \in WalletType,
               NEW amt \in Amount, BeginTransfer(s, u, a, from, to, amt)
        PROVE  AtomicInv'
    BY <1>1, <2>3, BeginTransferWork
  <2>4. ASSUME "resting" \in Kinds, NEW t \in OrderRow,
               t.status = "open", t.type \in RestingType, BeginResting(s, t)
        PROVE  AtomicInv'
    BY <1>1, <2>4, BeginRestingWork
  <2>5. ASSUME "market" \in Kinds, NEW t \in OrderRow,
               t.status = "filled", t.type = "market", BeginMarket(s, t)
        PROVE  AtomicInv'
    BY <1>1, <2>5, BeginMarketWork
  <2>6. ASSUME "cancel" \in Kinds, NEW o \in OrderId, BeginCancel(s, o) PROVE AtomicInv'
    BY <1>1, <2>6, BeginCancelWork
  <2>7. ASSUME "monitor" \in Kinds, BeginMonitor(s) PROVE AtomicInv'
    BY <1>1, <2>7, BeginMonitorWork
  <2> QED BY <1>3, <2>1, <2>2, <2>3, <2>4, <2>5, <2>6, <2>7 DEF Begin
<1>4. ASSUME NEW s \in Session, Continue(s) PROVE AtomicInv'
  <2>1. CASE Commit(s)
    BY <1>1, <2>1, CommitWork
  <2>2. CASE Credit(s)
    BY <1>1, <2>2, CreditWork
  <2>3. CASE RefuseCredit(s)
    BY <1>1, <2>3, RollbackWork DEF RefuseCredit
  <2>4. CASE Settle(s)
    BY <1>1, <2>4, SettleWork
  <2>5. CASE Select(s)
    BY <1>1, <2>5, SelectWork
  <2>6. ASSUME NEW o \in OrderId, LockRow(s, o) PROVE AtomicInv'
    BY <1>1, <2>6, LockRowWork
  <2>7. ASSUME NEW o \in OrderId, Look(s, o) PROVE AtomicInv'
    BY <1>1, <2>7, LookWork
  <2>8. CASE FillPay(s)
    BY <1>1, <2>8, FillPayWork
  <2>9. CASE FillGet(s)
    BY <1>1, <2>9, FillGetWork
  <2>10. CASE EndPass(s)
    BY <1>1, <2>10, EndPassWork
  <2>11. CASE CancelUnfreeze(s)
    BY <1>1, <2>11, CancelUnfreezeWork
  <2>12. CASE CancelClose(s)
    BY <1>1, <2>12, CancelCloseWork
  <2> QED BY <1>4, <2>1, <2>2, <2>3, <2>4, <2>5, <2>6, <2>7, <2>8, <2>9, <2>10, <2>11, <2>12
          DEF Continue
<1>5. ASSUME NEW s \in Session, Fail(s) \/ Victim(s) PROVE AtomicInv'
  BY <1>1, <1>5, RollbackWork DEF Fail, Victim
<1> QED BY <1>2, <1>3, <1>4, <1>5 DEF TxNext

-----------------------------------------------------------------------------
(* The steps of Exchange.                                                  *)

LEMMA FilledNone ==
    ASSUME NEW B \in Database
    PROVE  Filled(B, {}) = B
<1>1. {} \in SUBSET OpenRows(B.order)
  OBVIOUS
<1> DEFINE M == Filled(B, {})
<1>2. /\ M \in Database
      /\ \A w \in Wallet : M.wallet[w] = B.wallet[w] /\ M.ledger[w] = B.ledger[w]
      /\ \A o \in OrderId : M.order[o] = B.order[o] /\ M.trades[o] = B.trades[o]
  BY <1>1, FilledRows
<1> HIDE DEF M
<1>3. M.wallet = B.wallet /\ M.ledger = B.ledger /\ M.order = B.order /\ M.trades = B.trades
  BY <1>2 DEF Database
<1>4. M = B
  BY <1>2, <1>3 DEF Database
<1> QED BY <1>4 DEF M

\* A row is the record of its columns.
LEMMA RowColumns ==
    ASSUME NEW r \in OrderRow
    PROVE  /\ r = [user |-> r.user, pair |-> r.pair, side |-> r.side, type |-> r.type,
                   price |-> r.price, qty |-> r.qty, status |-> r.status]
           /\ r.user \in User /\ r.pair \in Pair /\ r.side \in Side /\ r.price \in Price
           /\ r.qty \in Qty /\ r.status \in Status
BY DEF OrderRow

\* What a request and its fills make of the committed tables is a step of
\* Exchange, but for a cancellation that comes too late.
LEMMA RequestStep ==
    ASSUME NEW x \in Request, x.kind \in Kinds, NEW F, F \subseteq OrderId,
           Committed \in Database, Allowed(x, Committed),
           \A o \in F : /\ o \in Fillable(Begun(x, Committed).order, Sweeps(x))
                        /\ x.kind = "monitor" => Conditional(order[o]),
           Committed' = Filled(Begun(x, Committed), F)
    PROVE  UNCHANGED vars \/ Next \/ LateCancel
<1> DEFINE B == Begun(x, Committed)
<1>1. /\ B.wallet = BegunWallets(x, wallet) /\ B.order = BegunOrders(x, order)
      /\ B.trades = BegunTrades(x, trades) /\ B.ledger = BegunLedger(x, ledger)
      /\ B \in Database
  BY BegunRows DEF Begun, Committed
<1>2. FillAll(B.wallet, B.order, B.trades, B.ledger, F)
  BY DEF FillAll, Filled, Committed
<1>3. Sweeps(x) = {} =>
          /\ F = {}
          /\ wallet' = B.wallet /\ order' = B.order /\ trades' = B.trades /\ ledger' = B.ledger
  <2>1. SUFFICES ASSUME Sweeps(x) = {}
                 PROVE  /\ F = {}
                        /\ wallet' = B.wallet /\ order' = B.order
                        /\ trades' = B.trades /\ ledger' = B.ledger
    OBVIOUS
  <2>2. F = {}
    BY <2>1 DEF Fillable
  <2>3. Committed' = B
    BY <1>1, <2>2, FilledNone
  <2> HIDE DEF B
  <2> QED BY <2>2, <2>3 DEF Committed
<1>4. /\ wallet \in [Wallet -> WalletRow] /\ order \in [OrderId -> Row]
      /\ trades \in [OrderId -> Nat] /\ ledger \in [Wallet -> Int]
  BY DEF Database, Committed
<1>5. F \subseteq Fillable(B.order, Sweeps(x))
  OBVIOUS
<1> HIDE DEF B
<1>6. CASE x.kind = "deposit"
  <2>1. Sweeps(x) = {}
    BY <1>6 DEF Sweeps
  <2>2. Deposit(x.user, x.asset, x.amt)
    BY <1>1, <1>3, <1>6, <2>1
       DEF Deposit, Allowed, Committed, BegunWallets, BegunOrders, BegunTrades, BegunLedger
  <2> QED BY <1>6, <2>2, Requests DEF Next
<1>7. CASE x.kind = "withdraw"
  <2>1. Sweeps(x) = {}
    BY <1>7 DEF Sweeps
  <2>2. Withdraw(x.user, x.asset, x.amt)
    BY <1>1, <1>3, <1>7, <2>1
       DEF Withdraw, Allowed, Committed, BegunWallets, BegunOrders, BegunTrades, BegunLedger
  <2> QED BY <1>7, <2>2, Requests DEF Next
<1>8. CASE x.kind = "transfer"
  <2>1. Sweeps(x) = {}
    BY <1>8 DEF Sweeps
  <2>2. Transfer(x.user, x.asset, x.from, x.to, x.amt)
    BY <1>1, <1>3, <1>8, <2>1
       DEF Transfer, Allowed, Committed, BegunWallets, BegunOrders, BegunTrades, BegunLedger
  <2> QED BY <1>8, <2>2, Requests DEF Next
<1>9. CASE x.kind = "resting"
  <2> DEFINE r == x.row
             o == x.id
             ord == [order EXCEPT ![o] = r]
  <2>1. /\ o \in OrderId /\ r \in OrderRow /\ order[o] = Unused
        /\ r.status = "open" /\ r.type \in RestingType
        /\ wallet[PayWallet(r)].available >= PayAmount(r)
    BY <1>9, Requests DEF Allowed, Committed
  <2>2. Sweeps(x) = {r.user}
    BY <1>9 DEF Sweeps
  <2>3. /\ B.wallet = Freeze(wallet, r) /\ B.order = ord
        /\ B.trades = trades /\ B.ledger = ledger
    BY <1>1, <1>9 DEF BegunWallets, BegunOrders, BegunTrades, BegunLedger
  <2>4. F \in SUBSET Fillable(ord, {r.user}) /\ FillAll(Freeze(wallet, r), ord, trades, ledger, F)
    BY <1>2, <1>5, <2>2, <2>3
  <2> HIDE DEF o, r
  <2>5. r = [user |-> r.user, pair |-> r.pair, side |-> r.side, type |-> r.type,
             price |-> r.price, qty |-> r.qty, status |-> "open"]
    BY <2>1, RowColumns
  <2>6. PlaceResting(r.user, r.pair, r.side, r.type, r.qty, r.price)
    BY <2>1, <2>4, <2>5 DEF PlaceResting
  <2> QED BY <2>1, <2>6, RowColumns DEF Next
<1>10. CASE x.kind = "market"
  <2> DEFINE r == x.row
             o == x.id
             ord == [order EXCEPT ![o] = r]
             trd == [trades EXCEPT ![o] = 1]
             led == Enter(Enter(ledger, PayWallet(r), -PayAmount(r)), GetWallet(r), GetAmount(r))
  <2>1. /\ o \in OrderId /\ r \in OrderRow /\ order[o] = Unused
        /\ r.status = "filled" /\ r.type = "market"
        /\ wallet[PayWallet(r)].available >= PayAmount(r)
    BY <1>10, Requests DEF Allowed, Committed
  <2>2. Sweeps(x) = {r.user}
    BY <1>10 DEF Sweeps
  <2>3. /\ B.wallet = SettleMarket(wallet, r) /\ B.order = ord
        /\ B.trades = trd /\ B.ledger = led
    BY <1>1, <1>10 DEF BegunWallets, BegunOrders, BegunTrades, BegunLedger
  <2>4. F \in SUBSET Fillable(ord, {r.user}) /\ FillAll(SettleMarket(wallet, r), ord, trd, led, F)
    BY <1>2, <1>5, <2>2, <2>3
  <2> HIDE DEF o, r
  <2>5. r = [user |-> r.user, pair |-> r.pair, side |-> r.side, type |-> "market",
             price |-> r.price, qty |-> r.qty, status |-> "filled"]
    BY <2>1, RowColumns
  <2>6. PlaceMarket(r.user, r.pair, r.side, r.qty, r.price)
    BY <2>1, <2>4, <2>5 DEF PlaceMarket
  <2> QED BY <2>1, <2>6, RowColumns DEF Next
<1>11. CASE x.kind = "cancel"
  <2> DEFINE o == x.id
  <2>1. o \in OrderId /\ order[o] = x.row /\ x.row \in OrderRow /\ Sweeps(x) = {}
    BY <1>11, Requests DEF Allowed, Committed, Sweeps
  <2>2. /\ wallet' = Unfreeze(wallet, order[o])
        /\ order' = [order EXCEPT ![o] = [order[o] EXCEPT !.status = "cancelled"]]
        /\ trades' = trades /\ ledger' = ledger
    BY <1>1, <1>3, <1>11, <2>1 DEF BegunWallets, BegunOrders, BegunTrades, BegunLedger
  <2>3. order[o].status \in Status
    BY <2>1, RowColumns
  <2> HIDE DEF o
  <2>4. CASE IsOpen(order[o])
    BY <2>1, <2>2, <2>4 DEF Cancel, Next
  <2>5. CASE ~IsOpen(order[o])
    BY <1>11, <2>1, <2>2, <2>3, <2>5 DEF CancelClosed, LateCancel, IsOpen, Status
  <2> QED BY <2>4, <2>5
<1>12. CASE x.kind = "monitor"
  <2>1. B.wallet = wallet /\ B.order = order /\ B.trades = trades /\ B.ledger = ledger
    BY <1>1, <1>12 DEF BegunWallets, BegunOrders, BegunTrades, BegunLedger
  <2>2. F \in SUBSET {o \in Fillable(order, User) : Conditional(order[o])}
    BY <1>5, <1>12, <2>1 DEF Sweeps
  <2>3. CASE F = {}
    <3>1. Committed' = B
      BY <1>1, <2>3, FilledNone DEF B
    <3> QED BY <2>1, <3>1 DEF Committed, vars
  <2>4. CASE F # {}
    BY <1>2, <2>1, <2>2, <2>4 DEF Monitor, Next
  <2> QED BY <2>3, <2>4
<1> QED BY <1>6, <1>7, <1>8, <1>9, <1>10, <1>11, <1>12, Requests

LEMMA CommitStep ==
    ASSUME AtomicInv, TxInv', NEW s \in Session, Commit(s)
    PROVE  UNCHANGED vars \/ Next \/ LateCancel
<1> DEFINE C == Committed
           M == Committed'
           ws == Wallets(s)
           os == Orders(s)
<1>1. TxInv /\ tx[s].pc = "commit"
  BY DEF Commit, AtomicInv
<1>2. /\ C \in Database /\ draft \in Database
      /\ C.wallet = wallet /\ C.order = order /\ C.trades = trades /\ C.ledger = ledger
      /\ ws \in SUBSET Wallet /\ os \in SUBSET OrderId
  BY <1>1, States
<1>3. M \in Database
  <2>1. TxTypeOK'
    BY DEF TxInv
  <2> QED BY <2>1 DEF TxTypeOK, TypeOK, Row, Committed, Database
<1>4. PICK x \in Request, F \in SUBSET OrderId : Does(x, F, C, draft, ws, os)
  BY <1>1 DEF AtomicInv, Work
<1>5. Agree(M, draft, ws, os) /\ Agree(M, C, Wallet \ ws, OrderId \ os)
  BY DEF Commit, Merge, Committed, Agree, Wallets, Orders
<1>6. M = Filled(Begun(x, C), F)
  <2> HIDE DEF C, M, ws, os
  <2> QED BY <1>2, <1>3, <1>4, <1>5, DoesAll
<1>7. /\ x.kind \in Kinds /\ F \subseteq OrderId /\ Allowed(x, Committed)
      /\ \A o \in F : /\ o \in Fillable(Begun(x, Committed).order, Sweeps(x))
                      /\ x.kind = "monitor" => Conditional(order[o])
  BY <1>2, <1>4 DEF Does
<1>8. Committed \in Database /\ Committed' = Filled(Begun(x, Committed), F)
  BY <1>2, <1>6
<1> QED BY <1>7, <1>8, RequestStep

\* A statement that is no commit leaves the committed tables.
LEMMA TxStep ==
    ASSUME AtomicInv, [TxNext]_txVars
    PROVE  UNCHANGED vars \/ Next \/ LateCancel
<1>1. AtomicInv' /\ TxInv'
  BY AtomicNextInv DEF AtomicInv
<1>2. CASE UNCHANGED txVars
  BY <1>2 DEF txVars, vars
<1>3. ASSUME NEW s \in Session, Begin(s) PROVE UNCHANGED vars
  BY <1>3 DEF Begin, BeginDeposit, BeginWithdraw, BeginTransfer, BeginResting, BeginMarket,
              BeginCancel, BeginMonitor
<1>4. ASSUME NEW s \in Session, Continue(s) PROVE Commit(s) \/ UNCHANGED vars
  BY <1>4 DEF Continue, Credit, RefuseCredit, Rollback, Settle, Select, LockRow, Look, FillPay,
              FillGet, EndPass, CancelUnfreeze, CancelClose
<1>5. ASSUME NEW s \in Session, Fail(s) \/ Victim(s) PROVE UNCHANGED vars
  BY <1>5 DEF Fail, Victim, Rollback
<1> QED BY <1>1, <1>2, <1>3, <1>4, <1>5, CommitStep DEF TxNext

THEOREM AtomicInvariance == TxSpec => []AtomicInv
<1>1. TxInit => AtomicInv
  BY AtomicInitInv
<1>2. AtomicInv /\ [TxNext]_txVars => AtomicInv'
  BY AtomicNextInv
<1> QED BY <1>1, <1>2, PTL DEF TxSpec

\* Whatever requests interleave, over any rows: a commit that is not a step of
\* Exchange is a cancellation of an order that was filled or cancelled while
\* cancel_order waited for the row it had read.
THEOREM OnlyLateCancels == TxSpec => AtomicButLateCancels
<1> DEFINE A == UNCHANGED vars \/ Next \/ LateCancel
<1>1. TxInit => Init
  BY DEF TxInit
<1>2. AtomicInv /\ [TxNext]_txVars => A
  BY TxStep
<1> HIDE DEF A
<1>3. TxSpec => Init /\ [][A]_vars
  BY <1>1, <1>2, AtomicInvariance, PTL DEF TxSpec
<1> QED BY <1>3 DEF AtomicButLateCancels, A

\* Without cancellations every commit is one step of Exchange: TradingTx
\* implements it, for any number of sessions, users, assets, pairs and orders.
THEOREM AtomicRequests ==
    ASSUME "cancel" \notin Kinds
    PROVE  TxSpec => Atomic
<1> DEFINE A == UNCHANGED vars \/ Next
<1>1. TxInit => Init
  BY DEF TxInit
<1>2. AtomicInv /\ [TxNext]_txVars => A
  BY TxStep DEF LateCancel
<1> HIDE DEF A
<1>3. TxSpec => Init /\ [][A]_vars
  BY <1>1, <1>2, AtomicInvariance, PTL DEF TxSpec
<1> QED BY <1>3 DEF Atomic, A

\* So what is proved of the requests of Exchange as single steps holds of their
\* statements as they interleave: no wallet is overdrawn, what is frozen is
\* what the open orders hold, an order is filled once, and a filled row never
\* changes.
THEOREM AtomicSafety ==
    ASSUME "cancel" \notin Kinds
    PROVE  TxSpec => [](Solvent /\ FrozenIsHeld /\ OneTradePerFill) /\ ClosedIsFinal
<1>1. [UNCHANGED vars \/ Next]_vars => [Next]_vars
  OBVIOUS
<1>2. Atomic => Spec
  BY <1>1, PTL DEF Atomic, Spec
<1> QED BY <1>2, AtomicRequests, Solvency, FrozenCorrect, OneTrade, ClosedFinal, PTL
=============================================================================
