-------------------------- MODULE TradingTxProofs --------------------------
(***************************************************************************)
(* Transactions do not leak and keep the books (TradingTx), for any users, *)
(* assets, pairs, numbers of orders and of sessions, whatever requests     *)
(* they interleave, cancellations that race with fills among them.         *)
(***************************************************************************)
EXTENDS TradingTx, ExchangeProofs

Row == OrderRow \cup {Unused}

\* What the ledger lacks of wallet w in draft: a market order has paid out of
\* it and enters that when it settles.
Due(w) ==
    LET s == walLock[w] IN
    IF s # None /\ tx[s].pc = "settle" /\ PayWallet(tx[s].row) = w
    THEN PayAmount(tx[s].row)
    ELSE 0

Balanced(w) ==
    /\ draft.wallet[w].balance = draft.wallet[w].available + draft.wallet[w].frozen
    /\ draft.ledger[w] = draft.wallet[w].balance + Due(w)

\* Session s has locked the rows it is about to write, and those it fills are
\* open.
Owns(s) ==
    /\ tx[s].pc = "credit" => walLock[tx[s].from] = s
    /\ tx[s].pc = "settle" => walLock[PayWallet(tx[s].row)] = s /\ ordLock[tx[s].id] = s
    /\ tx[s].pc \in {"lock", "pay", "get"} =>
           \A o \in tx[s].rows : ordLock[o] = s /\ IsOpen(draft.order[o])
    /\ tx[s].pc \in {"pay", "get"} =>
           tx[s].id \notin tx[s].rows /\ ordLock[tx[s].id] = s /\ IsOpen(draft.order[tx[s].id])
    /\ tx[s].pc = "get" => walLock[PayWallet(draft.order[tx[s].id])] = s
    /\ tx[s].pc \in {"unfreeze", "close"} => order[tx[s].id] # Unused

\* Committed orders are in draft.
RowsKept == \A o \in OrderId : order[o] # Unused => draft.order[o] # Unused

TxInv ==
    /\ TxTypeOK
    /\ NothingLeaks
    /\ RowsKept
    /\ \A s \in Session : Owns(s)
    /\ \A w \in Wallet : Balanced(w)
    /\ BooksBalance

-----------------------------------------------------------------------------
\* What a session that is somewhere keeps there.
LEMMA Shapes ==
    ASSUME NEW t \in Transaction
    PROVE  /\ t.pc = "credit" => t.from \in Wallet /\ t.to \in Wallet /\ t.amt \in Amount
           /\ t.pc = "settle" => t.id \in OrderId /\ t.row \in OrderRow
           /\ t.pc = "scan" => t.pass \in Pass /\ t.users \in SUBSET User
           /\ t.pc = "lock" =>
                  t \in [pc : {"lock"}, pass : Pass, users : SUBSET User,
                         todo : SUBSET OrderId, rows : SUBSET OrderId]
           /\ t.pc \in {"pay", "get"} =>
                  t \in [pc : {"pay", "get"}, pass : Pass, users : SUBSET User,
                         rows : SUBSET OrderId, id : OrderId]
           /\ t.pc \in {"unfreeze", "close"} =>
                  t \in [pc : {"unfreeze", "close"}, id : OrderId]
BY DEF Transaction

LEMMA TxInitInv == TxInit => TxInv
<1> SUFFICES ASSUME TxInit PROVE TxInv
  OBVIOUS
<1>1. TypeOK
  BY EndowmentAssumption DEF TxInit, Init, TypeOK, WalletRow
<1>2. TxTypeOK
  BY <1>1 DEF TxInit, TxTypeOK, TypeOK, Committed, Idle, Transaction
<1>3. NothingLeaks /\ RowsKept
  BY NoneAssumption DEF TxInit, NothingLeaks, RowsKept, Committed
<1>4. \A s \in Session : Owns(s)
  BY DEF TxInit, Owns, Idle
<1>5. \A w \in Wallet : Balanced(w)
  BY EndowmentAssumption DEF TxInit, Init, Committed, Balanced, Due
<1>6. BooksBalance
  BY EndowmentAssumption DEF TxInit, Init, BooksBalance
<1> QED BY <1>2, <1>3, <1>4, <1>5, <1>6 DEF TxInv

\* The tables a transaction sees and what was committed, in parts.
LEMMA Types ==
    ASSUME TxTypeOK
    PROVE  /\ wallet \in [Wallet -> WalletRow] /\ order \in [OrderId -> Row]
           /\ trades \in [OrderId -> Nat] /\ ledger \in [Wallet -> Int]
           /\ draft.wallet \in [Wallet -> WalletRow] /\ draft.order \in [OrderId -> Row]
           /\ draft.trades \in [OrderId -> Nat] /\ draft.ledger \in [Wallet -> Int]
           /\ draft = [wallet |-> draft.wallet, order |-> draft.order,
                       trades |-> draft.trades, ledger |-> draft.ledger]
BY DEF TxTypeOK, TypeOK, Row

\* A session's step is nothing to the rows and the places of the others.
LEMMA OthersOwn ==
    ASSUME TxTypeOK, NEW s \in Session, NEW r \in Session, r # s, Owns(r),
           NEW x, tx' = [tx EXCEPT ![s] = x],
           \A w \in Wallet : walLock[w] = r => walLock'[w] = r,
           \A o \in OrderId : ordLock[o] = r =>
               ordLock'[o] = r /\ draft'.order[o] = draft.order[o],
           \A o \in OrderId : order[o] # Unused => order'[o] # Unused
    PROVE  Owns(r)'
<1>1. tx'[r] = tx[r] /\ tx[r] \in Transaction
  BY DEF TxTypeOK
<1>2. tx[r].pc = "credit" => tx[r].from \in Wallet
  BY <1>1, Shapes
<1>3. tx[r].pc = "settle" => tx[r].id \in OrderId /\ PayWallet(tx[r].row) \in Wallet
  BY <1>1, Shapes, TermsTypes
<1>4. tx[r].pc \in {"lock", "pay", "get"} => tx[r].rows \subseteq OrderId
  BY <1>1, Shapes
<1>5. tx[r].pc \in {"pay", "get", "unfreeze", "close"} => tx[r].id \in OrderId
  BY <1>1, Shapes
<1>6. tx[r].pc = "get" =>
          /\ PayWallet(draft.order[tx[r].id]) \in Wallet
          /\ draft'.order[tx[r].id] = draft.order[tx[r].id]
  BY <1>5, Types, OpenRow, TermsTypes DEF Owns, Row
<1>7. (tx[r].pc = "get" => walLock[PayWallet(draft.order[tx[r].id])] = r)'
  BY <1>1, <1>6 DEF Owns, PayWallet, Spot
<1>8. /\ (tx[r].pc = "credit" => walLock[tx[r].from] = r)'
      /\ (tx[r].pc = "settle" => walLock[PayWallet(tx[r].row)] = r /\ ordLock[tx[r].id] = r)'
  BY <1>1, <1>2, <1>3 DEF Owns, PayWallet, Spot
<1>9. /\ (tx[r].pc \in {"lock", "pay", "get"} =>
             \A o \in tx[r].rows : ordLock[o] = r /\ IsOpen(draft.order[o]))'
      /\ (tx[r].pc \in {"pay", "get"} =>
             tx[r].id \notin tx[r].rows /\ ordLock[tx[r].id] = r /\ IsOpen(draft.order[tx[r].id]))'
      /\ (tx[r].pc \in {"unfreeze", "close"} => order[tx[r].id] # Unused)'
  BY <1>1, <1>4, <1>5 DEF Owns, IsOpen
<1> QED BY <1>7, <1>8, <1>9 DEF Owns

\* A statement that commits nothing preserves the invariant if it writes only
\* rows its session has locked, and leaves those balanced.
LEMMA Statement ==
    ASSUME TxInv, NEW s \in Session, NEW ws \in SUBSET Wallet, NEW os \in SUBSET OrderId,
           Lock(s, ws, os), UNCHANGED vars,
           NEW x \in Transaction, x.pc # "idle", tx' = [tx EXCEPT ![s] = x],
           draft' \in [wallet : [Wallet -> WalletRow], order : [OrderId -> Row],
                       trades : [OrderId -> Nat], ledger : [Wallet -> Int]],
           \A w \in Wallet : walLock'[w] # s =>
               draft'.wallet[w] = draft.wallet[w] /\ draft'.ledger[w] = draft.ledger[w],
           \A o \in OrderId : ordLock'[o] # s =>
               draft'.order[o] = draft.order[o] /\ draft'.trades[o] = draft.trades[o],
           \A o \in OrderId : draft.order[o] # Unused => draft'.order[o] # Unused,
           Owns(s)',
           \A w \in Wallet : walLock'[w] = s => Balanced(w)'
    PROVE  TxInv'
<1>1. /\ \A w \in Wallet : walLock'[w] = IF w \in ws THEN s ELSE walLock[w]
      /\ \A o \in OrderId : ordLock'[o] = IF o \in os THEN s ELSE ordLock[o]
      /\ \A w \in ws : walLock[w] \in {s, None}
      /\ \A o \in os : ordLock[o] \in {s, None}
  BY DEF Lock
<1>2. /\ tx \in [Session -> Transaction]
      /\ tx'[s] = x /\ \A r \in Session : r # s => tx'[r] = tx[r]
  BY DEF TxInv, TxTypeOK
<1>3. TxTypeOK'
  BY <1>2 DEF TxInv, TxTypeOK, TypeOK, Row, vars, Lock
<1>4. NothingLeaks'
  BY <1>1, <1>2, NoneAssumption DEF TxInv, NothingLeaks, vars, Idle
<1>5. RowsKept'
  BY DEF TxInv, RowsKept, vars
<1>6. ASSUME NEW r \in Session PROVE Owns(r)'
  <2>1. CASE r = s
    BY <2>1
  <2>2. CASE r # s
    <3>1. \A w \in Wallet : walLock[w] = r => walLock'[w] = r
      BY <1>1, <2>2, NoneAssumption
    <3>2. \A o \in OrderId : ordLock[o] = r =>
              ordLock'[o] = r /\ draft'.order[o] = draft.order[o]
      BY <1>1, <2>2, NoneAssumption
    <3> QED BY <2>2, <3>1, <3>2, OthersOwn DEF TxInv, vars
  <2> QED BY <2>1, <2>2
<1>7. ASSUME NEW w \in Wallet PROVE Balanced(w)'
  <2>1. CASE walLock'[w] = s
    BY <2>1
  <2>2. CASE walLock'[w] # s
    <3>1. walLock'[w] = walLock[w] /\ walLock[w] \in Session \cup {None}
      BY <1>1, <2>2 DEF TxInv, TxTypeOK
    <3>2. walLock[w] # None => tx'[walLock[w]] = tx[walLock[w]]
      BY <1>2, <2>2, <3>1
    <3>3. Due(w)' = Due(w)
      BY <3>1, <3>2 DEF Due, PayWallet, PayAmount, Spot
    <3> QED BY <2>2, <3>3 DEF TxInv, Balanced
  <2> QED BY <2>1, <2>2
<1>8. BooksBalance'
  BY DEF TxInv, BooksBalance, vars
<1> QED BY <1>3, <1>4, <1>5, <1>6, <1>7, <1>8 DEF TxInv

\* A statement that writes nothing either keeps the invariant as soon as its
\* session owns what it should.
LEMMA Reading ==
    ASSUME TxInv, NEW s \in Session, NEW ws \in SUBSET Wallet, NEW os \in SUBSET OrderId,
           Lock(s, ws, os), UNCHANGED <<draft, vars>>,
           NEW x \in Transaction, x.pc \notin {"idle", "settle"}, tx[s].pc # "settle",
           tx' = [tx EXCEPT ![s] = x],
           Owns(s)'
    PROVE  TxInv'
<1>1. draft \in [wallet : [Wallet -> WalletRow], order : [OrderId -> Row],
                 trades : [OrderId -> Nat], ledger : [Wallet -> Int]]
  BY DEF TxInv, TxTypeOK, Row
<1>2. ASSUME NEW w \in Wallet, walLock'[w] = s PROVE Balanced(w)'
  <2>1. tx'[s] = x /\ s # None /\ walLock[w] \in {s, None}
    BY <1>2, NoneAssumption DEF Lock, TxInv, TxTypeOK
  <2>2. Due(w) = 0 /\ Due(w)' = 0
    BY <1>2, <2>1 DEF Due
  <2> QED BY <2>2 DEF TxInv, Balanced
<1> QED BY <1>1, <1>2, Statement

\* Not taking a lock is taking none.
LEMMA NoLock ==
    ASSUME TxTypeOK, NEW s, UNCHANGED <<walLock, ordLock>>
    PROVE  Lock(s, {}, {})
BY DEF Lock, TxTypeOK

LEMMA BeginTransferInv ==
    ASSUME TxInv, NEW s \in Session, NEW u \in User, NEW a \in Asset, NEW from \in WalletType,
           NEW to \in WalletType, NEW amt \in Amount, BeginTransfer(s, u, a, from, to, amt)
    PROVE  TxInv'
<1> DEFINE f == <<u, a, from>>
           x == [pc |-> "credit", from |-> f, to |-> <<u, a, to>>, amt |-> amt]
<1>1. /\ tx[s] = Idle /\ Lock(s, {f}, {}) /\ tx' = [tx EXCEPT ![s] = x]
      /\ UNCHANGED <<draft, vars>>
  BY DEF BeginTransfer, Goto
<1>2. f \in Wallet /\ x \in Transaction /\ tx[s].pc = "idle"
  BY <1>1 DEF Wallet, Transaction, Idle
<1>3. tx'[s] = x /\ walLock'[f] = s
  BY <1>1, <1>2 DEF Lock, TxInv, TxTypeOK
<1>4. Owns(s)'
  BY <1>3 DEF Owns
<1>5. {f} \in SUBSET Wallet /\ {} \in SUBSET OrderId
  BY <1>2
<1>6. x.pc \notin {"idle", "settle"} /\ tx[s].pc # "settle"
  BY <1>2
<1> HIDE DEF x, f
<1> QED BY <1>1, <1>2, <1>4, <1>5, <1>6, Reading

LEMMA SelectInv ==
    ASSUME TxInv, NEW s \in Session, Select(s)
    PROVE  TxInv'
<1> DEFINE x == [pc |-> "lock", pass |-> tx[s].pass, users |-> tx[s].users, rows |-> {},
                 todo |-> {o \in OrderId : InPass(Seen(s, o), tx[s].pass, tx[s].users)}]
<1>1. /\ tx[s].pc = "scan" /\ tx' = [tx EXCEPT ![s] = x]
      /\ UNCHANGED <<draft, walLock, ordLock, vars>> /\ tx[s] \in Transaction
  BY DEF Select, Goto, TxInv, TxTypeOK
<1>2. x \in Transaction
  BY <1>1, Shapes DEF Transaction
<1>3. Owns(s)'
  BY <1>1 DEF Owns, TxInv, TxTypeOK
<1> QED BY <1>1, <1>2, <1>3, NoLock, Reading DEF TxInv

LEMMA LockRowInv ==
    ASSUME TxInv, NEW s \in Session, NEW o \in OrderId, LockRow(s, o)
    PROVE  TxInv'
<1> DEFINE x == [tx[s] EXCEPT !.todo = @ \ {o},
                              !.rows = IF IsOpen(draft.order[o]) THEN @ \cup {o} ELSE @]
<1>1. /\ tx[s].pc = "lock" /\ Lock(s, {}, {o}) /\ tx' = [tx EXCEPT ![s] = x]
      /\ UNCHANGED <<draft, vars>> /\ tx[s] \in Transaction
  BY DEF LockRow, Goto, TxInv, TxTypeOK
<1>2. tx[s] \in [pc : {"lock"}, pass : Pass, users : SUBSET User,
                 todo : SUBSET OrderId, rows : SUBSET OrderId]
  BY <1>1, Shapes
<1>3. /\ x \in [pc : {"lock"}, pass : Pass, users : SUBSET User,
                todo : SUBSET OrderId, rows : SUBSET OrderId]
      /\ x.rows = IF IsOpen(draft.order[o]) THEN tx[s].rows \cup {o} ELSE tx[s].rows
  BY <1>2
<1> HIDE DEF x
<1>4. x \in Transaction /\ x.pc = "lock" /\ tx'[s] = x
  BY <1>1, <1>3 DEF Transaction, TxInv, TxTypeOK
<1>5. Owns(s)'
  <2>1. \A i \in tx[s].rows : i \in OrderId /\ ordLock[i] = s /\ IsOpen(draft.order[i])
    BY <1>1, <1>2 DEF TxInv, Owns
  <2>2. \A i \in x.rows : ordLock'[i] = s /\ IsOpen(draft.order[i])
    BY <1>1, <1>3, <2>1 DEF Lock
  <2> QED BY <1>1, <1>4, <2>2 DEF Owns, IsOpen
<1> QED BY <1>1, <1>4, <1>5, Reading

LEMMA LookInv ==
    ASSUME TxInv, NEW s \in Session, NEW o \in OrderId, Look(s, o)
    PROVE  TxInv'
<1> DEFINE x == [pc |-> "pay", pass |-> tx[s].pass, users |-> tx[s].users,
                 rows |-> tx[s].rows \ {o}, id |-> o]
<1>1. /\ tx[s].pc = "lock" /\ o \in tx[s].rows /\ tx' = [tx EXCEPT ![s] = x]
      /\ UNCHANGED <<draft, walLock, ordLock, vars>> /\ tx[s] \in Transaction
  BY DEF Look, Goto, TxInv, TxTypeOK
<1>2. x \in Transaction /\ tx'[s] = x
  BY <1>1, Shapes DEF Transaction, TxInv, TxTypeOK
<1>3. Owns(s)'
  BY <1>1, <1>2 DEF Owns, TxInv, IsOpen
<1> QED BY <1>1, <1>2, <1>3, NoLock, Reading DEF TxInv

LEMMA FillPayInv ==
    ASSUME TxInv, NEW s \in Session, FillPay(s)
    PROVE  TxInv'
<1> DEFINE x == [tx[s] EXCEPT !.pc = "get"]
           w == PayWallet(draft.order[tx[s].id])
<1>1. /\ tx[s].pc = "pay" /\ Lock(s, {w}, {}) /\ tx' = [tx EXCEPT ![s] = x]
      /\ UNCHANGED <<draft, vars>> /\ tx[s] \in Transaction
  BY DEF FillPay, Goto, TxInv, TxTypeOK
<1>2. tx[s] \in [pc : {"pay", "get"}, pass : Pass, users : SUBSET User,
                 rows : SUBSET OrderId, id : OrderId]
  BY <1>1, Shapes
<1>3. /\ x \in [pc : {"pay", "get"}, pass : Pass, users : SUBSET User,
                rows : SUBSET OrderId, id : OrderId]
      /\ x.pc = "get" /\ x.rows = tx[s].rows /\ x.id = tx[s].id
  BY <1>2
<1>4. w \in Wallet
  BY <1>1, <1>2, Types, OpenRow, TermsTypes DEF TxInv, Owns, Row
<1> HIDE DEF x
<1>5. x \in Transaction /\ tx'[s] = x
  BY <1>1, <1>3 DEF Transaction, TxInv, TxTypeOK
<1>6. walLock'[w] = s /\ \A i \in OrderId : ordLock'[i] = ordLock[i]
  BY <1>1, <1>4 DEF Lock
<1>7. Owns(s)'
  <2>1. walLock'[PayWallet(draft.order[x.id])] = s
    BY <1>3, <1>6
  <2>2. draft' = draft /\ tx'[s] = x
    BY <1>1, <1>5
  <2>3. /\ \A i \in x.rows : ordLock'[i] = s /\ IsOpen(draft.order[i])
        /\ x.id \notin x.rows /\ ordLock'[x.id] = s /\ IsOpen(draft.order[x.id])
    BY <1>1, <1>2, <1>3, <1>6 DEF Owns, TxInv
  <2> QED BY <1>3, <2>1, <2>2, <2>3 DEF Owns, IsOpen, PayWallet, Spot
<1>8. {w} \in SUBSET Wallet /\ {} \in SUBSET OrderId
  BY <1>4
<1> HIDE DEF w
<1> QED BY <1>1, <1>3, <1>5, <1>7, <1>8, Reading

LEMMA EndPassInv ==
    ASSUME TxInv, NEW s \in Session, EndPass(s)
    PROVE  TxInv'
<1>1. PICK x : /\ x \in {Scan("conditional", tx[s].users), [pc |-> "commit"]}
               /\ tx' = [tx EXCEPT ![s] = x]
  BY DEF EndPass, Goto
<1>2. tx[s].pc = "lock" /\ UNCHANGED <<draft, walLock, ordLock, vars>> /\ tx[s] \in Transaction
  BY DEF EndPass, TxInv, TxTypeOK
<1>3. x \in Transaction /\ x.pc \in {"scan", "commit"}
  BY <1>1, <1>2, Shapes DEF Scan, Transaction, Pass
<1>4. Owns(s)'
  BY <1>1, <1>3 DEF Owns, TxInv, TxTypeOK
<1> QED BY <1>1, <1>2, <1>3, <1>4, NoLock, Reading DEF TxInv

LEMMA BeginMonitorInv ==
    ASSUME TxInv, NEW s \in Session, BeginMonitor(s)
    PROVE  TxInv'
<1> DEFINE x == Scan("conditional", User)
<1>1. /\ tx[s] = Idle /\ tx' = [tx EXCEPT ![s] = x]
      /\ UNCHANGED <<draft, walLock, ordLock, vars>>
  BY DEF BeginMonitor, Goto
<1>2. x \in Transaction /\ x.pc = "scan" /\ tx[s].pc = "idle"
  BY <1>1 DEF Scan, Transaction, Pass, Idle
<1>3. Owns(s)'
  BY <1>1, <1>2 DEF Owns, TxInv, TxTypeOK
<1> QED BY <1>1, <1>2, <1>3, NoLock, Reading DEF TxInv

LEMMA BeginCancelInv ==
    ASSUME TxInv, NEW s \in Session, NEW o \in OrderId, BeginCancel(s, o)
    PROVE  TxInv'
<1> DEFINE x == [pc |-> "unfreeze", id |-> o]
<1>1. /\ tx[s] = Idle /\ IsOpen(order[o]) /\ tx' = [tx EXCEPT ![s] = x]
      /\ UNCHANGED <<draft, walLock, ordLock, vars>>
  BY DEF BeginCancel, Goto
<1>2. x \in Transaction /\ tx[s].pc = "idle" /\ order[o] # Unused
  BY <1>1 DEF Transaction, Idle, IsOpen, Unused
<1>3. Owns(s)'
  BY <1>1, <1>2 DEF Owns, TxInv, TxTypeOK, vars
<1> QED BY <1>1, <1>2, <1>3, NoLock, Reading DEF TxInv

-----------------------------------------------------------------------------
(* The books of one wallet.                                                *)

\* The two parts make up the balance of wallet w, and its ledger is c above it.
Off(wal, led, w, c) ==
    /\ wal[w].balance = wal[w].available + wal[w].frozen
    /\ led[w] = wal[w].balance + c

LEMMA Moved ==
    ASSUME NEW wal \in [Wallet -> WalletRow], NEW led \in [Wallet -> Int],
           NEW w \in Wallet, NEW b \in Int, NEW a \in Int, NEW f \in Int, b = a + f,
           NEW v \in Wallet, NEW c \in Int, Off(wal, led, v, c)
    PROVE  Off(Move(wal, w, b, a, f), led, v, IF v = w THEN c - b ELSE c)
<1> DEFINE W == Move(wal, w, b, a, f)
<1>1. /\ W[w].balance = wal[w].balance + b
      /\ W[w].available = wal[w].available + a
      /\ W[w].frozen = wal[w].frozen + f
      /\ v # w => W[v] = wal[v]
  BY MoveRows
<1>2. wal[v].balance \in Int /\ wal[v].available \in Int /\ wal[v].frozen \in Int
  BY DEF WalletRow
<1> HIDE DEF W
<1>3. Off(W, led, v, IF v = w THEN c - b ELSE c)
  BY <1>1, <1>2 DEF Off
<1> QED BY <1>3 DEF W

LEMMA Entered ==
    ASSUME NEW wal \in [Wallet -> WalletRow], NEW led \in [Wallet -> Int],
           NEW w \in Wallet, NEW e \in Int, NEW v \in Wallet, NEW c \in Int, Off(wal, led, v, c)
    PROVE  Off(wal, Enter(led, w, e), v, IF v = w THEN c + e ELSE c)
<1> DEFINE L == Enter(led, w, e)
<1>1. L[w] = led[w] + e /\ (v # w => L[v] = led[v])
  BY EnterRows
<1>2. wal[v].balance \in Int /\ led[v] \in Int
  BY DEF WalletRow
<1> HIDE DEF L
<1>3. Off(wal, L, v, IF v = w THEN c + e ELSE c)
  BY <1>1, <1>2 DEF Off
<1> QED BY <1>3 DEF L

\* A booking leaves the books as they were.
LEMMA Booked ==
    ASSUME NEW wal \in [Wallet -> WalletRow], NEW led \in [Wallet -> Int],
           NEW w \in Wallet, NEW d \in Int
    PROVE  \A v \in Wallet, c \in Int : Off(wal, led, v, c) =>
               Off(Move(wal, w, d, d, 0), Enter(led, w, d), v, c)
<1> DEFINE W == Move(wal, w, d, d, 0)
           L == Enter(led, w, d)
<1>1. W \in [Wallet -> WalletRow]
  BY MoveRows
<1>2. ASSUME NEW v \in Wallet, NEW c \in Int, Off(wal, led, v, c) PROVE Off(W, L, v, c)
  <2> DEFINE k == IF v = w THEN c - d ELSE c
  <2>1. Off(W, led, v, k) /\ k \in Int
    BY <1>2, Moved
  <2> HIDE DEF W, k
  <2>2. Off(W, L, v, IF v = w THEN k + d ELSE k)
    BY <1>1, <2>1, Entered
  <2>3. (IF v = w THEN k + d ELSE k) = c
    BY DEF k
  <2> QED BY <2>2, <2>3
<1> QED BY <1>2

\* What a transaction at x owes the ledger of wallet w.
Owes(x, w) ==
    IF x.pc = "settle" /\ PayWallet(x.row) = w THEN PayAmount(x.row) ELSE 0

\* Statement, for one that leaves these tables.
LEMMA Writing ==
    ASSUME TxInv, NEW s \in Session, NEW ws \in SUBSET Wallet, NEW os \in SUBSET OrderId,
           Lock(s, ws, os), UNCHANGED vars,
           NEW x \in Transaction, x.pc # "idle", tx' = [tx EXCEPT ![s] = x],
           NEW W \in [Wallet -> WalletRow], NEW O \in [OrderId -> Row],
           NEW T \in [OrderId -> Nat], NEW L \in [Wallet -> Int],
           draft' = [wallet |-> W, order |-> O, trades |-> T, ledger |-> L],
           \A w \in Wallet : walLock'[w] # s => W[w] = draft.wallet[w] /\ L[w] = draft.ledger[w],
           \A o \in OrderId : ordLock'[o] # s => O[o] = draft.order[o] /\ T[o] = draft.trades[o],
           \A o \in OrderId : draft.order[o] # Unused => O[o] # Unused,
           Owns(s)',
           \A w \in Wallet : walLock'[w] = s => Off(W, L, w, Owes(x, w))
    PROVE  TxInv'
<1>1. /\ draft'.wallet = W /\ draft'.order = O /\ draft'.trades = T /\ draft'.ledger = L
      /\ draft' \in [wallet : [Wallet -> WalletRow], order : [OrderId -> Row],
                     trades : [OrderId -> Nat], ledger : [Wallet -> Int]]
  OBVIOUS
<1>2. tx'[s] = x /\ s # None
  BY NoneAssumption DEF TxInv, TxTypeOK
<1>3. ASSUME NEW w \in Wallet, walLock'[w] = s PROVE Balanced(w)'
  <2>1. Due(w)' = Owes(x, w)
    BY <1>2, <1>3 DEF Due, Owes, PayWallet, PayAmount, Spot
  <2> QED BY <1>1, <1>3, <2>1 DEF Balanced, Off
<1>4. /\ \A w \in Wallet : walLock'[w] # s =>
             draft'.wallet[w] = draft.wallet[w] /\ draft'.ledger[w] = draft.ledger[w]
      /\ \A o \in OrderId : ordLock'[o] # s =>
             draft'.order[o] = draft.order[o] /\ draft'.trades[o] = draft.trades[o]
      /\ \A o \in OrderId : draft.order[o] # Unused => draft'.order[o] # Unused
  BY <1>1
<1> QED BY <1>1, <1>3, <1>4, Statement

\* Writing, for one that leaves the orders alone.
LEMMA WritingWallets ==
    ASSUME TxInv, NEW s \in Session, NEW ws \in SUBSET Wallet, NEW os \in SUBSET OrderId,
           Lock(s, ws, os), UNCHANGED vars,
           NEW x \in Transaction, x.pc # "idle", tx' = [tx EXCEPT ![s] = x],
           NEW W \in [Wallet -> WalletRow], NEW L \in [Wallet -> Int],
           draft' = [wallet |-> W, order |-> draft.order, trades |-> draft.trades, ledger |-> L],
           \A w \in Wallet : walLock'[w] # s => W[w] = draft.wallet[w] /\ L[w] = draft.ledger[w],
           Owns(s)',
           \A w \in Wallet : walLock'[w] = s => Off(W, L, w, Owes(x, w))
    PROVE  TxInv'
<1> DEFINE O == draft.order
           T == draft.trades
<1>1. O \in [OrderId -> Row] /\ T \in [OrderId -> Nat]
  BY Types DEF TxInv
<1>2. draft' = [wallet |-> W, order |-> O, trades |-> T, ledger |-> L]
  OBVIOUS
<1>3. /\ \A o \in OrderId : ordLock'[o] # s => O[o] = draft.order[o] /\ T[o] = draft.trades[o]
      /\ \A o \in OrderId : draft.order[o] # Unused => O[o] # Unused
  OBVIOUS
<1> HIDE DEF O, T
<1> QED BY <1>1, <1>2, <1>3, Writing

\* A wallet that is free for a session that is not settling owes nothing.
LEMMA Free ==
    ASSUME TxInv, NEW s \in Session, tx[s].pc # "settle", NEW w \in Wallet,
           walLock[w] \in {s, None}
    PROVE  Off(draft.wallet, draft.ledger, w, 0)
<1>1. draft.wallet[w] \in WalletRow /\ Balanced(w)
  BY Types DEF TxInv
<1>2. Due(w) = 0
  BY DEF Due
<1> QED BY <1>1, <1>2 DEF WalletRow, Balanced, Off

\* The locks of a session after it took one wallet.
LEMMA LockOne ==
    ASSUME TxTypeOK, NEW s \in Session, NEW w \in Wallet, NEW os \in SUBSET OrderId,
           Lock(s, {w}, os)
    PROVE  /\ {w} \in SUBSET Wallet
           /\ walLock[w] \in {s, None} /\ walLock'[w] = s
           /\ \A v \in Wallet : v # w => walLock'[v] = walLock[v]
           /\ \A v \in Wallet : walLock'[v] = s => walLock[v] \in {s, None}
           /\ \A o \in OrderId : ordLock'[o] = IF o \in os THEN s ELSE ordLock[o]
BY DEF Lock, TxTypeOK

\* A booking of d on a wallet in draft.
LEMMA BookInv ==
    ASSUME TxInv, NEW s \in Session, tx[s] = Idle, NEW w \in Wallet, NEW d \in Int,
           Lock(s, {w}, {}), UNCHANGED vars, tx' = [tx EXCEPT ![s] = [pc |-> "commit"]],
           draft' = [draft EXCEPT !.wallet = Move(@, w, d, d, 0), !.ledger = Enter(@, w, d)]
    PROVE  TxInv'
<1> DEFINE x == [pc |-> "commit"]
           W == Move(draft.wallet, w, d, d, 0)
           L == Enter(draft.ledger, w, d)
<1>1. /\ draft.wallet \in [Wallet -> WalletRow] /\ draft.order \in [OrderId -> Row]
      /\ draft.trades \in [OrderId -> Nat] /\ draft.ledger \in [Wallet -> Int]
      /\ draft' = [wallet |-> W, order |-> draft.order, trades |-> draft.trades, ledger |-> L]
  <2>1. draft = [wallet |-> draft.wallet, order |-> draft.order,
                 trades |-> draft.trades, ledger |-> draft.ledger]
    BY Types DEF TxInv
  <2> QED BY <2>1, Types DEF TxInv
<1>2. /\ {w} \in SUBSET Wallet /\ {} \in SUBSET OrderId /\ walLock'[w] = s
      /\ \A v \in Wallet : walLock'[v] = s => walLock[v] \in {s, None}
  BY LockOne DEF TxInv
<1>3. tx[s].pc = "idle" /\ x \in Transaction /\ x.pc = "commit"
  BY DEF Idle, Transaction
<1>4. /\ W \in [Wallet -> WalletRow] /\ L \in [Wallet -> Int]
      /\ \A v \in Wallet : v # w => W[v] = draft.wallet[v] /\ L[v] = draft.ledger[v]
      /\ \A v \in Wallet, c \in Int :
             Off(draft.wallet, draft.ledger, v, c) => Off(W, L, v, c)
  <2>1. W \in [Wallet -> WalletRow] /\ \A v \in Wallet : v # w => W[v] = draft.wallet[v]
    BY <1>1, MoveRows
  <2>2. L \in [Wallet -> Int] /\ \A v \in Wallet : v # w => L[v] = draft.ledger[v]
    BY <1>1, EnterRows
  <2>3. \A v \in Wallet, c \in Int :
            Off(draft.wallet, draft.ledger, v, c) => Off(W, L, v, c)
    BY <1>1, Booked
  <2> QED BY <2>1, <2>2, <2>3
<1>5. Owns(s)'
  BY <1>3 DEF Owns, TxInv, TxTypeOK
<1>6. tx' = [tx EXCEPT ![s] = x] /\ x.pc # "idle"
  OBVIOUS
<1> HIDE DEF W, L, x
<1>7. ASSUME NEW v \in Wallet, walLock'[v] = s PROVE Off(W, L, v, Owes(x, v))
  <2>1. Owes(x, v) = 0
    BY <1>3 DEF Owes
  <2>2. Off(draft.wallet, draft.ledger, v, 0)
    BY <1>2, <1>3, <1>7, Free
  <2> QED BY <1>4, <2>1, <2>2
<1>8. \A v \in Wallet : walLock'[v] # s => W[v] = draft.wallet[v] /\ L[v] = draft.ledger[v]
  BY <1>2, <1>4
<1> QED BY <1>1, <1>2, <1>3, <1>4, <1>5, <1>6, <1>7, <1>8, WritingWallets

LEMMA BeginDepositInv ==
    ASSUME TxInv, NEW s \in Session, NEW u \in User, NEW a \in Asset, NEW amt \in Amount,
           BeginDeposit(s, u, a, amt)
    PROVE  TxInv'
<1>1. Spot(u, a) \in Wallet /\ amt \in Int
  BY ConstantsAssumption DEF Spot, Wallet, WalletType
<1> QED BY <1>1, BookInv DEF BeginDeposit, Goto

LEMMA BeginWithdrawInv ==
    ASSUME TxInv, NEW s \in Session, NEW u \in User, NEW a \in Asset, NEW amt \in Amount,
           BeginWithdraw(s, u, a, amt)
    PROVE  TxInv'
<1>1. Spot(u, a) \in Wallet /\ -amt \in Int
  BY ConstantsAssumption DEF Spot, Wallet, WalletType
<1> QED BY <1>1, BookInv DEF BeginWithdraw, Goto

\* So do the two bookings of a transfer.
LEMMA Carried ==
    ASSUME NEW wal \in [Wallet -> WalletRow], NEW led \in [Wallet -> Int],
           NEW f \in Wallet, NEW t \in Wallet, NEW d \in Int, NEW e \in Int
    PROVE  /\ Move(Move(wal, f, d, d, 0), t, e, e, 0) \in [Wallet -> WalletRow]
           /\ Enter(Enter(led, f, d), t, e) \in [Wallet -> Int]
           /\ \A v \in Wallet : v \notin {f, t} =>
                  /\ Move(Move(wal, f, d, d, 0), t, e, e, 0)[v] = wal[v]
                  /\ Enter(Enter(led, f, d), t, e)[v] = led[v]
           /\ \A v \in Wallet, c \in Int : Off(wal, led, v, c) =>
                  Off(Move(Move(wal, f, d, d, 0), t, e, e, 0), Enter(Enter(led, f, d), t, e), v, c)
<1> DEFINE half == Move(wal, f, d, d, 0)
           entered == Enter(led, f, d)
<1>1. /\ half \in [Wallet -> WalletRow] /\ entered \in [Wallet -> Int]
      /\ \A v \in Wallet : v # f => half[v] = wal[v]
      /\ \A v \in Wallet : v # f => entered[v] = led[v]
  <2>1. half \in [Wallet -> WalletRow] /\ \A v \in Wallet : v # f => half[v] = wal[v]
    BY MoveRows
  <2>2. entered \in [Wallet -> Int] /\ \A v \in Wallet : v # f => entered[v] = led[v]
    BY EnterRows
  <2> QED BY <2>1, <2>2
<1>2. \A v \in Wallet, c \in Int : Off(wal, led, v, c) => Off(half, entered, v, c)
  BY Booked
<1> HIDE DEF half, entered
<1>3. /\ Move(half, t, e, e, 0) \in [Wallet -> WalletRow] /\ Enter(entered, t, e) \in [Wallet -> Int]
      /\ \A v \in Wallet : v # t => Move(half, t, e, e, 0)[v] = half[v]
      /\ \A v \in Wallet : v # t => Enter(entered, t, e)[v] = entered[v]
  <2>1. /\ Move(half, t, e, e, 0) \in [Wallet -> WalletRow]
        /\ \A v \in Wallet : v # t => Move(half, t, e, e, 0)[v] = half[v]
    BY <1>1, MoveRows
  <2>2. /\ Enter(entered, t, e) \in [Wallet -> Int]
        /\ \A v \in Wallet : v # t => Enter(entered, t, e)[v] = entered[v]
    BY <1>1, EnterRows
  <2> QED BY <2>1, <2>2
<1>4. \A v \in Wallet, c \in Int : Off(half, entered, v, c) =>
          Off(Move(half, t, e, e, 0), Enter(entered, t, e), v, c)
  BY <1>1, Booked
<1>5. /\ Move(half, t, e, e, 0) \in [Wallet -> WalletRow] /\ Enter(entered, t, e) \in [Wallet -> Int]
      /\ \A v \in Wallet : v \notin {f, t} =>
             Move(half, t, e, e, 0)[v] = wal[v] /\ Enter(entered, t, e)[v] = led[v]
      /\ \A v \in Wallet, c \in Int : Off(wal, led, v, c) =>
             Off(Move(half, t, e, e, 0), Enter(entered, t, e), v, c)
  BY <1>1, <1>2, <1>3, <1>4
<1> QED BY <1>5 DEF half, entered

LEMMA CreditInv ==
    ASSUME TxInv, NEW s \in Session, Credit(s)
    PROVE  TxInv'
<1>1. PICK f \in Wallet, t \in Wallet, amt \in Int, owed \in Int :
          f = tx[s].from /\ t = tx[s].to /\ amt = tx[s].amt /\ owed = -amt
  BY Shapes, ConstantsAssumption DEF Credit, TxInv, TxTypeOK
<1> DEFINE x == [pc |-> "commit"]
           W == Move(Move(draft.wallet, f, owed, owed, 0), t, amt, amt, 0)
           L == Enter(Enter(draft.ledger, f, owed), t, amt)
<1>2. tx[s].pc = "credit" /\ walLock[f] = s
  BY <1>1 DEF Credit, TxInv, Owns
<1>3. draft' = [wallet |-> W, order |-> draft.order, trades |-> draft.trades, ledger |-> L]
  <2>1. draft = [wallet |-> draft.wallet, order |-> draft.order,
                 trades |-> draft.trades, ledger |-> draft.ledger]
    BY Types DEF TxInv
  <2>2. draft' = [draft EXCEPT !.wallet = W, !.ledger = L]
    BY <1>1 DEF Credit
  <2> QED BY <2>1, <2>2, Types DEF TxInv
<1>4. Lock(s, {t}, {}) /\ UNCHANGED vars /\ tx' = [tx EXCEPT ![s] = x]
  BY <1>1 DEF Credit, Goto
<1>5. /\ {t} \in SUBSET Wallet /\ {} \in SUBSET OrderId /\ walLock'[t] = s
      /\ \A v \in Wallet : v # t => walLock'[v] = walLock[v]
      /\ \A v \in Wallet : walLock'[v] = s => walLock[v] \in {s, None}
  BY <1>4, LockOne DEF TxInv
<1>6. x \in Transaction /\ x.pc = "commit" /\ x.pc # "idle"
  BY DEF Transaction
<1>7. Owns(s)'
  BY <1>4, <1>6 DEF Owns, TxInv, TxTypeOK
<1>8. draft.wallet \in [Wallet -> WalletRow] /\ draft.ledger \in [Wallet -> Int]
  BY Types DEF TxInv
<1>9. /\ W \in [Wallet -> WalletRow] /\ L \in [Wallet -> Int]
      /\ \A v \in Wallet : v \notin {f, t} => W[v] = draft.wallet[v] /\ L[v] = draft.ledger[v]
      /\ \A v \in Wallet, c \in Int :
             Off(draft.wallet, draft.ledger, v, c) => Off(W, L, v, c)
  BY <1>8, Carried
<1> HIDE DEF W, L, x
<1>10. ASSUME NEW v \in Wallet, walLock'[v] = s PROVE Off(W, L, v, Owes(x, v))
  <2>1. Owes(x, v) = 0
    BY <1>6 DEF Owes
  <2>2. Off(draft.wallet, draft.ledger, v, 0)
    BY <1>2, <1>5, <1>10, Free
  <2> QED BY <1>9, <2>1, <2>2
<1>11. \A v \in Wallet : walLock'[v] # s => W[v] = draft.wallet[v] /\ L[v] = draft.ledger[v]
  <2> SUFFICES ASSUME NEW v \in Wallet, walLock'[v] # s
               PROVE  W[v] = draft.wallet[v] /\ L[v] = draft.ledger[v]
    OBVIOUS
  <2>1. v \notin {f, t}
    BY <1>2, <1>5
  <2> QED BY <1>9, <2>1
<1> QED BY <1>3, <1>4, <1>5, <1>6, <1>7, <1>9, <1>10, <1>11, WritingWallets

\* Moving an amount between the parts of a wallet changes one row and leaves
\* the books as they were.
LEMMA Shifted ==
    ASSUME NEW wal \in [Wallet -> WalletRow], NEW led \in [Wallet -> Int],
           NEW w \in Wallet, NEW a \in Int, NEW f \in Int, a + f = 0
    PROVE  /\ Move(wal, w, 0, a, f) \in [Wallet -> WalletRow]
           /\ \A v \in Wallet : v # w => Move(wal, w, 0, a, f)[v] = wal[v]
           /\ \A v \in Wallet : Off(wal, led, v, 0) => Off(Move(wal, w, 0, a, f), led, v, 0)
<1> DEFINE W == Move(wal, w, 0, a, f)
<1>1. W \in [Wallet -> WalletRow] /\ \A v \in Wallet : v # w => W[v] = wal[v]
  BY MoveRows
<1>2. ASSUME NEW v \in Wallet, Off(wal, led, v, 0) PROVE Off(W, led, v, 0)
  <2>1. /\ W[w].balance = wal[w].balance + 0
        /\ W[w].available = wal[w].available + a
        /\ W[w].frozen = wal[w].frozen + f
    BY MoveRows
  <2>2. wal[w].balance \in Int /\ wal[w].available \in Int /\ wal[w].frozen \in Int
    BY DEF WalletRow
  <2> HIDE DEF W
  <2> QED BY <1>1, <1>2, <2>1, <2>2 DEF Off
<1> QED BY <1>1, <1>2

LEMMA BeginRestingInv ==
    ASSUME TxInv, NEW s \in Session, NEW t \in OrderRow, BeginResting(s, t)
    PROVE  TxInv'
<1>1. PICK w \in Wallet, p \in Int, owed \in Int :
          w = PayWallet(t) /\ p = PayAmount(t) /\ owed = -p
  BY TermsTypes
<1>2. PICK o \in NewIds :
          /\ Lock(s, {w}, {o})
          /\ draft' = [draft EXCEPT !.wallet = Move(@, w, 0, owed, p), !.order[o] = t]
  BY <1>1 DEF BeginResting, Freeze
<1> DEFINE x == Scan("limit", {t.user})
           W == Move(draft.wallet, w, 0, owed, p)
           O == [draft.order EXCEPT ![o] = t]
<1>3. /\ draft.wallet \in [Wallet -> WalletRow] /\ draft.order \in [OrderId -> Row]
      /\ draft.trades \in [OrderId -> Nat] /\ draft.ledger \in [Wallet -> Int]
      /\ draft' = [wallet |-> W, order |-> O, trades |-> draft.trades, ledger |-> draft.ledger]
  <2>1. draft = [wallet |-> draft.wallet, order |-> draft.order,
                 trades |-> draft.trades, ledger |-> draft.ledger]
    BY Types DEF TxInv
  <2> QED BY <1>2, <2>1, Types DEF TxInv
<1>4. /\ o \in OrderId /\ UNCHANGED vars /\ tx' = [tx EXCEPT ![s] = x] /\ tx[s].pc # "settle"
  BY DEF BeginResting, Goto, NewIds, Idle
<1>5. /\ {w} \in SUBSET Wallet /\ {o} \in SUBSET OrderId /\ walLock'[w] = s /\ ordLock'[o] = s
      /\ \A v \in Wallet : walLock'[v] = s => walLock[v] \in {s, None}
  BY <1>2, <1>4, LockOne DEF TxInv
<1>6. x \in Transaction /\ x.pc = "scan" /\ x.pc # "idle"
  BY DEF Scan, Transaction, Pass, OrderRow
<1> HIDE DEF x
<1>7. Owns(s)'
  BY <1>4, <1>6 DEF Owns, TxInv, TxTypeOK
<1>8. /\ O \in [OrderId -> Row] /\ O[o] = t /\ t # Unused
      /\ \A i \in OrderId : i # o => O[i] = draft.order[i]
  <2>1. t \in Row /\ t # Unused
    BY DEF Row, OrderRow, Status, Unused
  <2> QED BY <1>3, <1>4, <2>1
<1>9. /\ W \in [Wallet -> WalletRow]
      /\ \A v \in Wallet : v # w => W[v] = draft.wallet[v]
      /\ \A v \in Wallet : Off(draft.wallet, draft.ledger, v, 0) => Off(W, draft.ledger, v, 0)
  <2>1. owed + p = 0
    BY <1>1
  <2> QED BY <1>3, <2>1, Shifted
<1> DEFINE T == draft.trades
           L == draft.ledger
<1> HIDE DEF W, O
<1>10. ASSUME NEW v \in Wallet, walLock'[v] = s PROVE Off(W, L, v, Owes(x, v))
  <2>1. Owes(x, v) = 0
    BY <1>6 DEF Owes
  <2>2. Off(draft.wallet, draft.ledger, v, 0)
    BY <1>4, <1>5, <1>10, Free
  <2> QED BY <1>9, <2>1, <2>2
<1>11. /\ \A v \in Wallet : walLock'[v] # s => W[v] = draft.wallet[v] /\ L[v] = draft.ledger[v]
       /\ \A i \in OrderId : ordLock'[i] # s => O[i] = draft.order[i] /\ T[i] = draft.trades[i]
       /\ \A i \in OrderId : draft.order[i] # Unused => O[i] # Unused
  BY <1>5, <1>8, <1>9
<1> DEFINE ws == {w}
           os == {o}
<1>12. /\ ws \in SUBSET Wallet /\ os \in SUBSET OrderId /\ Lock(s, ws, os)
       /\ T \in [OrderId -> Nat] /\ L \in [Wallet -> Int]
       /\ draft' = [wallet |-> W, order |-> O, trades |-> T, ledger |-> L]
  BY <1>2, <1>3, <1>5
<1> HIDE DEF T, L, ws, os
<1> QED BY <1>4, <1>6, <1>7, <1>8, <1>9, <1>10, <1>11, <1>12, Writing

LEMMA CancelUnfreezeInv ==
    ASSUME TxInv, NEW s \in Session, CancelUnfreeze(s)
    PROVE  TxInv'
<1>1. /\ tx[s].pc = "unfreeze" /\ tx[s] \in [pc : {"unfreeze", "close"}, id : OrderId]
      /\ order[tx[s].id] \in OrderRow /\ UNCHANGED vars
  BY Shapes, Types DEF CancelUnfreeze, TxInv, TxTypeOK, Owns, Row
<1>2. PICK w \in Wallet, p \in Int, owed \in Int :
          w = PayWallet(order[tx[s].id]) /\ p = PayAmount(order[tx[s].id]) /\ owed = -p
  BY <1>1, TermsTypes
<1> DEFINE x == [tx[s] EXCEPT !.pc = "close"]
           W == Move(draft.wallet, w, 0, p, owed)
<1>3. Lock(s, {w}, {}) /\ tx' = [tx EXCEPT ![s] = x] /\ draft' = [draft EXCEPT !.wallet = W]
  BY <1>2 DEF CancelUnfreeze, Unfreeze, Goto
<1>4. /\ draft.wallet \in [Wallet -> WalletRow] /\ draft.ledger \in [Wallet -> Int]
      /\ draft' = [wallet |-> W, order |-> draft.order, trades |-> draft.trades,
                   ledger |-> draft.ledger]
  <2>1. draft = [wallet |-> draft.wallet, order |-> draft.order,
                 trades |-> draft.trades, ledger |-> draft.ledger]
    BY Types DEF TxInv
  <2> QED BY <1>3, <2>1, Types DEF TxInv
<1>5. /\ {w} \in SUBSET Wallet /\ {} \in SUBSET OrderId /\ walLock'[w] = s
      /\ \A v \in Wallet : walLock'[v] = s => walLock[v] \in {s, None}
  BY <1>3, LockOne DEF TxInv
<1>6. x \in Transaction /\ x.pc = "close" /\ x.id = tx[s].id /\ x.pc # "idle"
  BY <1>1 DEF Transaction
<1>7. /\ W \in [Wallet -> WalletRow]
      /\ \A v \in Wallet : v # w => W[v] = draft.wallet[v]
      /\ \A v \in Wallet : Off(draft.wallet, draft.ledger, v, 0) => Off(W, draft.ledger, v, 0)
  <2>1. p + owed = 0
    BY <1>2
  <2> QED BY <1>4, <2>1, Shifted
<1> HIDE DEF W, x
<1>8. Owns(s)'
  BY <1>1, <1>3, <1>6 DEF Owns, TxInv, TxTypeOK, vars
<1> DEFINE L == draft.ledger
<1>9. ASSUME NEW v \in Wallet, walLock'[v] = s PROVE Off(W, L, v, Owes(x, v))
  <2>1. Owes(x, v) = 0
    BY <1>6 DEF Owes
  <2>2. Off(draft.wallet, draft.ledger, v, 0)
    BY <1>1, <1>5, <1>9, Free
  <2> QED BY <1>7, <2>1, <2>2
<1>10. \A v \in Wallet : walLock'[v] # s => W[v] = draft.wallet[v] /\ L[v] = draft.ledger[v]
  BY <1>5, <1>7
<1>11. /\ Lock(s, {w}, {}) /\ tx' = [tx EXCEPT ![s] = x] /\ UNCHANGED vars
       /\ L \in [Wallet -> Int]
       /\ draft' = [wallet |-> W, order |-> draft.order, trades |-> draft.trades, ledger |-> L]
  BY <1>1, <1>3, <1>4
<1> HIDE DEF L
<1> QED BY <1>5, <1>6, <1>7, <1>8, <1>9, <1>10, <1>11, WritingWallets

LEMMA CancelCloseInv ==
    ASSUME TxInv, NEW s \in Session, CancelClose(s)
    PROVE  TxInv'
<1>1. PICK o \in OrderId : o = tx[s].id
  BY Shapes DEF CancelClose, TxInv, TxTypeOK
<1>2. /\ tx[s].pc = "close" /\ Lock(s, {}, {o}) /\ UNCHANGED vars
      /\ draft' = [draft EXCEPT !.order[o].status = "cancelled"]
      /\ tx' = [tx EXCEPT ![s] = [pc |-> "commit"]]
  BY <1>1 DEF CancelClose, Goto
<1> DEFINE x == [pc |-> "commit"]
           O == [draft.order EXCEPT ![o].status = "cancelled"]
           W == draft.wallet
           L == draft.ledger
           T == draft.trades
<1>3. /\ W \in [Wallet -> WalletRow] /\ draft.order \in [OrderId -> Row]
      /\ T \in [OrderId -> Nat] /\ L \in [Wallet -> Int]
      /\ draft' = [wallet |-> W, order |-> O, trades |-> T, ledger |-> L]
  <2>1. draft = [wallet |-> draft.wallet, order |-> draft.order,
                 trades |-> draft.trades, ledger |-> draft.ledger]
    BY Types DEF TxInv
  <2> QED BY <1>2, <2>1, Types DEF TxInv
<1>4. draft.order[o] \in OrderRow
  BY <1>1, <1>2, <1>3 DEF TxInv, Owns, RowsKept, Row
<1>5. /\ O \in [OrderId -> Row] /\ O[o] # Unused
      /\ \A i \in OrderId : i # o => O[i] = draft.order[i]
  <2>1. O[o] = [draft.order[o] EXCEPT !.status = "cancelled"]
    BY <1>3
  <2>2. O[o] \in OrderRow
    BY <1>4, <2>1 DEF OrderRow, Status
  <2>3. O[o].status = "cancelled"
    BY <1>4, <2>1 DEF OrderRow
  <2> QED BY <1>3, <2>2, <2>3 DEF Row, Unused
<1>6. /\ {} \in SUBSET Wallet /\ {o} \in SUBSET OrderId /\ ordLock'[o] = s
      /\ \A v \in Wallet : walLock'[v] = walLock[v]
  BY <1>2 DEF Lock
<1>7. x \in Transaction /\ x.pc = "commit" /\ x.pc # "idle" /\ tx' = [tx EXCEPT ![s] = x]
  BY <1>2 DEF Transaction
<1>8. Owns(s)'
  BY <1>7 DEF Owns, TxInv, TxTypeOK
<1>9. ASSUME NEW v \in Wallet, walLock'[v] = s PROVE Off(W, L, v, Owes(x, v))
  <2>1. Owes(x, v) = 0
    BY <1>7 DEF Owes
  <2>2. Off(W, L, v, 0)
    BY <1>2, <1>6, <1>9, Free
  <2> QED BY <2>1, <2>2
<1>10. /\ \A v \in Wallet : walLock'[v] # s => W[v] = draft.wallet[v] /\ L[v] = draft.ledger[v]
       /\ \A i \in OrderId : ordLock'[i] # s => O[i] = draft.order[i] /\ T[i] = draft.trades[i]
       /\ \A i \in OrderId : draft.order[i] # Unused => O[i] # Unused
  BY <1>5, <1>6
<1> DEFINE ws == {}
           os == {o}
<1>11. /\ ws \in SUBSET Wallet /\ os \in SUBSET OrderId /\ Lock(s, ws, os) /\ UNCHANGED vars
       /\ W \in [Wallet -> WalletRow] /\ T \in [OrderId -> Nat] /\ L \in [Wallet -> Int]
       /\ draft' = [wallet |-> W, order |-> O, trades |-> T, ledger |-> L]
  BY <1>2, <1>3
<1> HIDE DEF W, O, T, L, x, ws, os
<1> QED BY <1>5, <1>7, <1>8, <1>9, <1>10, <1>11, Writing

\* A market order pays: the ledger is to follow.
LEMMA PaidOut ==
    ASSUME NEW wal \in [Wallet -> WalletRow], NEW led \in [Wallet -> Int],
           NEW w \in Wallet, NEW p \in Int, NEW owed \in Int, owed = -p
    PROVE  /\ Move(wal, w, owed, owed, 0) \in [Wallet -> WalletRow]
           /\ \A v \in Wallet : v # w => Move(wal, w, owed, owed, 0)[v] = wal[v]
           /\ \A v \in Wallet : Off(wal, led, v, 0) =>
                  Off(Move(wal, w, owed, owed, 0), led, v, IF v = w THEN p ELSE 0)
<1> DEFINE W == Move(wal, w, owed, owed, 0)
<1>1. W \in [Wallet -> WalletRow] /\ \A v \in Wallet : v # w => W[v] = wal[v]
  BY MoveRows
<1>2. ASSUME NEW v \in Wallet, Off(wal, led, v, 0)
      PROVE  Off(W, led, v, IF v = w THEN p ELSE 0)
  <2>1. /\ W[w].balance = wal[w].balance + owed
        /\ W[w].available = wal[w].available + owed
        /\ W[w].frozen = wal[w].frozen + 0
    BY MoveRows
  <2>2. wal[w].balance \in Int /\ wal[w].available \in Int /\ wal[w].frozen \in Int
    BY DEF WalletRow
  <2> HIDE DEF W
  <2> QED BY <1>1, <1>2, <2>1, <2>2 DEF Off
<1> QED BY <1>1, <1>2

LEMMA BeginMarketInv ==
    ASSUME TxInv, NEW s \in Session, NEW t \in OrderRow, BeginMarket(s, t)
    PROVE  TxInv'
<1>1. PICK w \in Wallet, p \in Int, owed \in Int :
          w = PayWallet(t) /\ p = PayAmount(t) /\ owed = -p
  BY TermsTypes
<1>2. PICK o \in NewIds :
          /\ Lock(s, {w}, {o})
          /\ draft' = [draft EXCEPT !.wallet = Move(@, w, owed, owed, 0)]
          /\ tx' = [tx EXCEPT ![s] = [pc |-> "settle", id |-> o, row |-> t]]
  BY <1>1 DEF BeginMarket, Goto
<1> DEFINE x == [pc |-> "settle", id |-> o, row |-> t]
           W == Move(draft.wallet, w, owed, owed, 0)
           L == draft.ledger
<1>3. /\ draft.wallet \in [Wallet -> WalletRow] /\ L \in [Wallet -> Int]
      /\ draft' = [wallet |-> W, order |-> draft.order, trades |-> draft.trades, ledger |-> L]
  <2>1. draft = [wallet |-> draft.wallet, order |-> draft.order,
                 trades |-> draft.trades, ledger |-> draft.ledger]
    BY Types DEF TxInv
  <2> QED BY <1>2, <2>1, Types DEF TxInv
<1>4. o \in OrderId /\ UNCHANGED vars /\ tx[s].pc # "settle"
  BY DEF BeginMarket, NewIds, Idle
<1>5. /\ {w} \in SUBSET Wallet /\ {o} \in SUBSET OrderId /\ walLock'[w] = s /\ ordLock'[o] = s
      /\ \A v \in Wallet : v # w => walLock'[v] = walLock[v]
      /\ \A v \in Wallet : walLock'[v] = s => walLock[v] \in {s, None}
  BY <1>2, <1>4, LockOne DEF TxInv
<1>6. /\ x \in Transaction /\ x.pc = "settle" /\ x.pc # "idle" /\ x.id = o /\ x.row = t
      /\ tx' = [tx EXCEPT ![s] = x]
  BY <1>2, <1>4 DEF Transaction
<1>7. /\ W \in [Wallet -> WalletRow]
      /\ \A v \in Wallet : v # w => W[v] = draft.wallet[v]
      /\ \A v \in Wallet : Off(draft.wallet, L, v, 0) => Off(W, L, v, IF v = w THEN p ELSE 0)
  BY <1>1, <1>3, PaidOut
<1> DEFINE ws == {w}
           os == {o}
<1>8. ws \in SUBSET Wallet /\ os \in SUBSET OrderId /\ Lock(s, ws, os)
  BY <1>2, <1>5
<1> HIDE DEF W, x, ws, os
<1>9. Owns(s)'
  <2>1. tx'[s] = x
    BY <1>6 DEF TxInv, TxTypeOK
  <2> QED BY <1>1, <1>5, <1>6, <2>1 DEF Owns, PayWallet, Spot
<1>10. ASSUME NEW v \in Wallet, walLock'[v] = s PROVE Off(W, L, v, Owes(x, v))
  <2>1. Owes(x, v) = IF v = w THEN p ELSE 0
    BY <1>1, <1>6 DEF Owes
  <2>2. Off(draft.wallet, L, v, 0)
    BY <1>4, <1>5, <1>10, Free
  <2> QED BY <1>7, <2>1, <2>2
<1>11. \A v \in Wallet : walLock'[v] # s => W[v] = draft.wallet[v] /\ L[v] = draft.ledger[v]
  BY <1>5, <1>7
<1> HIDE DEF L
<1> DEFINE O == draft.order
           T == draft.trades
<1>12. /\ O \in [OrderId -> Row] /\ T \in [OrderId -> Nat]
       /\ draft' = [wallet |-> W, order |-> O, trades |-> T, ledger |-> L]
       /\ \A i \in OrderId : ordLock'[i] # s => O[i] = draft.order[i] /\ T[i] = draft.trades[i]
       /\ \A i \in OrderId : draft.order[i] # Unused => O[i] # Unused
  BY <1>3, Types DEF TxInv
<1> HIDE DEF O, T
<1> QED BY <1>3, <1>4, <1>6, <1>7, <1>8, <1>9, <1>10, <1>11, <1>12, Writing

\* A market order's payment enters the ledger, then what it gets is booked.
LEMMA Settled ==
    ASSUME NEW wal \in [Wallet -> WalletRow], NEW led \in [Wallet -> Int],
           NEW w \in Wallet, NEW owed \in Int, NEW g \in Wallet, NEW d \in Int
    PROVE  \A v \in Wallet : Off(wal, led, v, IF v = w THEN -owed ELSE 0) =>
               Off(Move(wal, g, d, d, 0), Enter(Enter(led, w, owed), g, d), v, 0)
<1> DEFINE W == Move(wal, g, d, d, 0)
           half == Enter(led, w, owed)
<1>1. /\ half \in [Wallet -> Int] /\ half[w] = led[w] + owed
      /\ \A v \in Wallet : v # w => half[v] = led[v]
  BY EnterRows
<1> HIDE DEF half
<1> DEFINE L == Enter(half, g, d)
<1>2. ASSUME NEW v \in Wallet, Off(wal, led, v, IF v = w THEN -owed ELSE 0) PROVE Off(W, L, v, 0)
  <2>1. wal[v].balance \in Int /\ led[v] \in Int
    BY DEF WalletRow
  <2>2. Off(wal, half, v, 0)
    BY <1>1, <1>2, <2>1 DEF Off
  <2> QED BY <1>1, <2>2, Booked
<1> QED BY <1>2 DEF half

LEMMA SettleInv ==
    ASSUME TxInv, NEW s \in Session, Settle(s)
    PROVE  TxInv'
<1>1. PICK t \in OrderRow, o \in OrderId :
          t = tx[s].row /\ o = tx[s].id /\ tx[s].pc = "settle"
  BY Shapes DEF Settle, TxInv, TxTypeOK
<1>2. PICK w \in Wallet, p \in Int, owed \in Int, g \in Wallet, d \in Int :
          w = PayWallet(t) /\ p = PayAmount(t) /\ owed = -p /\ g = GetWallet(t) /\ d = GetAmount(t)
  BY TermsTypes
<1> DEFINE x == Scan("limit", {t.user})
           W == Move(draft.wallet, g, d, d, 0)
           O == [draft.order EXCEPT ![o] = t]
           T == [draft.trades EXCEPT ![o] = 1]
           L == Enter(Enter(draft.ledger, w, owed), g, d)
           ws == {g}
           os == {}
<1>3. /\ draft' = [wallet |-> W, order |-> O, trades |-> T, ledger |-> L]
      /\ Lock(s, ws, os) /\ UNCHANGED vars /\ tx' = [tx EXCEPT ![s] = x]
  BY <1>1, <1>2 DEF Settle, Goto
<1>4. /\ ws \in SUBSET Wallet /\ os \in SUBSET OrderId /\ walLock'[g] = s
      /\ \A v \in Wallet : v # g => walLock'[v] = walLock[v]
      /\ \A v \in Wallet : walLock'[v] = s => walLock[v] \in {s, None}
      /\ \A i \in OrderId : ordLock'[i] = ordLock[i]
  <2>1. Lock(s, {g}, {}) /\ {} \in SUBSET OrderId
    BY <1>3
  <2>2. \A i \in OrderId : ordLock'[i] = ordLock[i]
    BY <2>1 DEF Lock
  <2> QED BY <2>1, <2>2, LockOne DEF TxInv
<1>5. walLock[w] = s /\ ordLock[o] = s
  BY <1>1, <1>2 DEF TxInv, Owns
<1>6. x \in Transaction /\ x.pc = "scan" /\ x.pc # "idle"
  BY DEF Scan, Transaction, Pass, OrderRow
<1> HIDE DEF x
<1>7. Owns(s)'
  BY <1>3, <1>6 DEF Owns, TxInv, TxTypeOK
<1>8. /\ draft.wallet \in [Wallet -> WalletRow] /\ draft.order \in [OrderId -> Row]
      /\ draft.trades \in [OrderId -> Nat] /\ draft.ledger \in [Wallet -> Int]
  BY Types DEF TxInv
<1>9. /\ O \in [OrderId -> Row] /\ T \in [OrderId -> Nat]
      /\ \A i \in OrderId : i # o => O[i] = draft.order[i] /\ T[i] = draft.trades[i]
      /\ \A i \in OrderId : draft.order[i] # Unused => O[i] # Unused
  <2>1. t \in Row /\ t # Unused
    BY DEF Row, OrderRow, Status, Unused
  <2> QED BY <1>8, <2>1
<1>10. /\ W \in [Wallet -> WalletRow] /\ L \in [Wallet -> Int]
       /\ \A v \in Wallet : v \notin {w, g} => W[v] = draft.wallet[v] /\ L[v] = draft.ledger[v]
       /\ \A v \in Wallet : Off(draft.wallet, draft.ledger, v, IF v = w THEN -owed ELSE 0) =>
              Off(W, L, v, 0)
  <2> DEFINE half == Enter(draft.ledger, w, owed)
  <2>1. half \in [Wallet -> Int] /\ \A v \in Wallet : v # w => half[v] = draft.ledger[v]
    BY <1>8, EnterRows
  <2>2. /\ \A v \in Wallet : Off(draft.wallet, draft.ledger, v, IF v = w THEN -owed ELSE 0) =>
               Off(W, L, v, 0)
    BY <1>8, Settled
  <2> HIDE DEF half
  <2>3. W \in [Wallet -> WalletRow] /\ \A v \in Wallet : v # g => W[v] = draft.wallet[v]
    <3>1. d \in Int /\ 0 \in Int /\ g \in Wallet /\ draft.wallet \in [Wallet -> WalletRow]
      BY <1>8
    <3>2. W \in [Wallet -> WalletRow]
      BY <3>1, MoveRows
    <3>3. ASSUME NEW v \in Wallet, v # g PROVE W[v] = draft.wallet[v]
      BY <3>1, <3>3 DEF Move
    <3> QED BY <3>2, <3>3
  <2>4. /\ Enter(half, g, d) \in [Wallet -> Int]
        /\ \A v \in Wallet : v # g => Enter(half, g, d)[v] = half[v]
    BY <2>1, EnterRows
  <2>5. L = Enter(half, g, d)
    BY DEF half
  <2> HIDE DEF W, L
  <2> QED BY <2>1, <2>2, <2>3, <2>4, <2>5
<1> HIDE DEF W, O, T, L, ws, os
<1>11. ASSUME NEW v \in Wallet, walLock'[v] = s PROVE Off(W, L, v, Owes(x, v))
  <2>1. Owes(x, v) = 0
    BY <1>6 DEF Owes
  <2>2. Due(v) = IF v = w THEN -owed ELSE 0
    <3>1. walLock[v] \in {s, None} /\ s # None
      BY <1>4, <1>11, NoneAssumption
    <3>2. p = -owed
      BY <1>2
    <3> QED BY <1>1, <1>2, <1>5, <3>1, <3>2 DEF Due
  <2>3. Off(draft.wallet, draft.ledger, v, IF v = w THEN -owed ELSE 0)
    BY <2>2 DEF TxInv, Balanced, Off
  <2> QED BY <1>10, <2>1, <2>3
<1>12. /\ \A v \in Wallet : walLock'[v] # s => W[v] = draft.wallet[v] /\ L[v] = draft.ledger[v]
       /\ \A i \in OrderId : ordLock'[i] # s => O[i] = draft.order[i] /\ T[i] = draft.trades[i]
  <2>1. ASSUME NEW v \in Wallet, walLock'[v] # s PROVE v \notin {w, g}
    BY <1>4, <1>5, <2>1
  <2> QED BY <1>4, <1>5, <1>9, <1>10, <2>1
<1>13. ws \in SUBSET Wallet /\ os \in SUBSET OrderId
  BY <1>4
<1> QED BY <1>3, <1>6, <1>7, <1>9, <1>10, <1>11, <1>12, <1>13, Writing

\* Filling one order pays and gets nothing in wallets it does not name,
LEMMA NotNamed ==
    ASSUME NEW ord \in [OrderId -> Row], NEW k \in OrderId, NEW v \in Wallet,
           v # PayWallet(ord[k]), v # GetWallet(ord[k])
    PROVE  TotalPaid(ord, {k}, v) = 0 /\ TotalGot(ord, {k}, v) = 0
<1> DEFINE zero == [o \in OrderId |-> 0]
<1>1. /\ [o \in OrderId |-> IF o \in {k} THEN Paid(ord[o], v) ELSE 0] = zero
      /\ [o \in OrderId |-> IF o \in {k} THEN Got(ord[o], v) ELSE 0] = zero
  BY DEF Paid, Got
<1>2. zero \in [1 .. MaxOrders -> Int] /\ (\A i \in 1 .. MaxOrders : zero[i] = 0)
  BY DEF OrderId
<1> HIDE DEF zero
<1>3. Sum(zero, MaxOrders) = 0
  BY <1>2, SumZero, ConstantsAssumption
<1> QED BY <1>1, <1>3 DEF TotalPaid, TotalGot

LEMMA FilledTotals ==
    ASSUME NEW ord \in [OrderId -> Row], NEW k \in OrderId, IsOpen(ord[k]), NEW v \in Wallet
    PROVE  TotalPaid(ord, {k}, v) \in Int /\ TotalGot(ord, {k}, v) \in Int
<1>1. ord \in [OrderId -> OrderRow \cup {Unused}] /\ {k} \in SUBSET {o \in OrderId : IsOpen(ord[o])}
  BY DEF Row
<1>2. TotalPaid(ord, {k}, v) \in Nat /\ TotalGot(ord, {k}, v) \in Nat
  BY <1>1, TotalTypes
<1> QED BY <1>2

\* changes their rows
LEMMA FilledWallets ==
    ASSUME NEW wal \in [Wallet -> WalletRow], NEW ord \in [OrderId -> Row],
           NEW k \in OrderId, IsOpen(ord[k])
    PROVE  /\ FillWallets(wal, ord, {k}) \in [Wallet -> WalletRow]
           /\ \A v \in Wallet : v # PayWallet(ord[k]) /\ v # GetWallet(ord[k]) =>
                  FillWallets(wal, ord, {k})[v] = wal[v]
<1>1. ASSUME NEW v \in Wallet
      PROVE  /\ wal[v].balance \in Int /\ wal[v].available \in Int /\ wal[v].frozen \in Int
             /\ wal[v] = [balance |-> wal[v].balance, available |-> wal[v].available,
                          frozen |-> wal[v].frozen]
  BY DEF WalletRow
<1>2. FillWallets(wal, ord, {k}) \in [Wallet -> WalletRow]
  <2>1. \A v \in Wallet : TotalPaid(ord, {k}, v) \in Int /\ TotalGot(ord, {k}, v) \in Int
    BY FilledTotals
  <2> DEFINE F == {k}
  <2>2. \A v \in Wallet : TotalPaid(ord, F, v) \in Int /\ TotalGot(ord, F, v) \in Int
    BY <2>1
  <2> HIDE DEF F
  <2>3. FillWallets(wal, ord, F) \in [Wallet -> WalletRow]
    BY <1>1, <2>2 DEF FillWallets, WalletRow
  <2> QED BY <2>3 DEF F
<1>3. ASSUME NEW v \in Wallet, v # PayWallet(ord[k]), v # GetWallet(ord[k])
      PROVE  FillWallets(wal, ord, {k})[v] = wal[v]
  BY <1>1, <1>3, NotNamed DEF FillWallets
<1> QED BY <1>2, <1>3

LEMMA FilledLedger ==
    ASSUME NEW led \in [Wallet -> Int], NEW ord \in [OrderId -> Row],
           NEW k \in OrderId, IsOpen(ord[k])
    PROVE  /\ FillLedger(led, ord, {k}) \in [Wallet -> Int]
           /\ \A v \in Wallet : v # PayWallet(ord[k]) /\ v # GetWallet(ord[k]) =>
                  FillLedger(led, ord, {k})[v] = led[v]
<1>1. FillLedger(led, ord, {k}) \in [Wallet -> Int]
  BY FilledTotals DEF FillLedger
<1>2. ASSUME NEW v \in Wallet, v # PayWallet(ord[k]), v # GetWallet(ord[k])
      PROVE  FillLedger(led, ord, {k})[v] = led[v]
  BY <1>2, NotNamed DEF FillLedger
<1> QED BY <1>1, <1>2

\* and leaves the books as they were.
LEMMA FilledBooks ==
    ASSUME NEW wal \in [Wallet -> WalletRow], NEW led \in [Wallet -> Int],
           NEW ord \in [OrderId -> Row], NEW k \in OrderId, IsOpen(ord[k]),
           NEW v \in Wallet, Off(wal, led, v, 0)
    PROVE  Off(FillWallets(wal, ord, {k}), FillLedger(led, ord, {k}), v, 0)
<1>1. /\ wal[v].balance \in Int /\ wal[v].available \in Int /\ wal[v].frozen \in Int
      /\ led[v] \in Int
  BY DEF WalletRow
<1> QED BY <1>1, FilledTotals DEF Off, FillWallets, FillLedger

LEMMA FillGetInv ==
    ASSUME TxInv, NEW s \in Session, FillGet(s)
    PROVE  TxInv'
<1>1. /\ tx[s].pc = "get"
      /\ tx[s] \in [pc : {"pay", "get"}, pass : Pass, users : SUBSET User,
                    rows : SUBSET OrderId, id : OrderId]
  BY Shapes DEF FillGet, TxInv, TxTypeOK
<1>2. PICK o \in OrderId : o = tx[s].id
  BY <1>1
<1>3. /\ ordLock[o] = s /\ IsOpen(draft.order[o]) /\ o \notin tx[s].rows
      /\ walLock[PayWallet(draft.order[o])] = s
      /\ \A i \in tx[s].rows : ordLock[i] = s /\ IsOpen(draft.order[i])
  BY <1>1, <1>2 DEF TxInv, Owns
<1>4. /\ draft.wallet \in [Wallet -> WalletRow] /\ draft.order \in [OrderId -> Row]
      /\ draft.trades \in [OrderId -> Nat] /\ draft.ledger \in [Wallet -> Int]
  BY Types DEF TxInv
<1>5. draft.order[o] \in OrderRow
  BY <1>3, <1>4, OpenRow DEF Row
<1>6. PICK w \in Wallet, g \in Wallet :
          w = PayWallet(draft.order[o]) /\ g = GetWallet(draft.order[o])
  BY <1>5, TermsTypes
<1> DEFINE x == [pc |-> "lock", pass |-> tx[s].pass, users |-> tx[s].users,
                 todo |-> {}, rows |-> tx[s].rows]
           W == FillWallets(draft.wallet, draft.order, {o})
           O == FillOrders(draft.order, {o})
           T == FillTrades(draft.trades, {o})
           L == FillLedger(draft.ledger, draft.order, {o})
           ws == {g}
           os == {}
<1>7. /\ draft' = [wallet |-> W, order |-> O, trades |-> T, ledger |-> L]
      /\ Lock(s, ws, os) /\ UNCHANGED vars /\ tx' = [tx EXCEPT ![s] = x]
  BY <1>2, <1>6 DEF FillGet, Goto
<1>8. /\ ws \in SUBSET Wallet /\ os \in SUBSET OrderId /\ walLock'[g] = s
      /\ \A v \in Wallet : v # g => walLock'[v] = walLock[v]
      /\ \A v \in Wallet : walLock'[v] = s => walLock[v] \in {s, None}
      /\ \A i \in OrderId : ordLock'[i] = ordLock[i]
  <2>1. Lock(s, {g}, {}) /\ {} \in SUBSET OrderId /\ TxTypeOK
    BY <1>7 DEF TxInv
  <2>2. \A i \in OrderId : ordLock'[i] = ordLock[i]
    BY <2>1 DEF Lock
  <2>3. /\ walLock'[g] = s
        /\ \A v \in Wallet : v # g => walLock'[v] = walLock[v]
        /\ \A v \in Wallet : walLock'[v] = s => walLock[v] \in {s, None}
    BY <2>1 DEF Lock
  <2> QED BY <2>2, <2>3
<1>9. /\ x \in Transaction /\ x.pc = "lock" /\ x.pc # "idle" /\ x.rows = tx[s].rows
      /\ \A v \in Wallet : Owes(x, v) = 0
  BY <1>1 DEF Transaction, Owes
<1>10. /\ O \in [OrderId -> Row] /\ T \in [OrderId -> Nat]
       /\ \A i \in OrderId : i # o => O[i] = draft.order[i] /\ T[i] = draft.trades[i]
       /\ \A i \in OrderId : draft.order[i] # Unused => O[i] # Unused
  <2>1. O[o] = [draft.order[o] EXCEPT !.status = "filled"]
    BY DEF FillOrders
  <2>2. O[o] \in OrderRow
    BY <1>5, <2>1 DEF OrderRow, Status
  <2>3. O[o].status = "filled"
    BY <1>5, <2>1 DEF OrderRow
  <2>4. O[o] \in Row /\ O[o] # Unused
    BY <2>2, <2>3 DEF Row, Unused
  <2>5. \A i \in OrderId : i # o => O[i] = draft.order[i] /\ T[i] = draft.trades[i]
    BY DEF FillOrders, FillTrades
  <2>6. T \in [OrderId -> Nat]
    BY <1>4 DEF FillTrades
  <2>7. O = [i \in OrderId |-> O[i]]
    BY DEF FillOrders
  <2> HIDE DEF O, T
  <2> QED BY <1>4, <2>4, <2>5, <2>6, <2>7
<1>11. /\ W \in [Wallet -> WalletRow] /\ L \in [Wallet -> Int]
       /\ \A v \in Wallet : v \notin {w, g} => W[v] = draft.wallet[v] /\ L[v] = draft.ledger[v]
       /\ \A v \in Wallet : Off(draft.wallet, draft.ledger, v, 0) => Off(W, L, v, 0)
  <2>1. W \in [Wallet -> WalletRow] /\ \A v \in Wallet : v # w /\ v # g => W[v] = draft.wallet[v]
    BY <1>3, <1>4, <1>6, FilledWallets
  <2>2. L \in [Wallet -> Int] /\ \A v \in Wallet : v # w /\ v # g => L[v] = draft.ledger[v]
    BY <1>3, <1>4, <1>6, FilledLedger
  <2>3. \A v \in Wallet : Off(draft.wallet, draft.ledger, v, 0) => Off(W, L, v, 0)
    BY <1>3, <1>4, FilledBooks
  <2> HIDE DEF W, L
  <2> QED BY <2>1, <2>2, <2>3
<1> HIDE DEF W, O, T, L, x, ws, os
<1>12. Owns(s)'
  <2>1. tx'[s] = x /\ draft'.order = O
    BY <1>7 DEF TxInv, TxTypeOK
  <2>2. \A i \in x.rows : ordLock'[i] = s /\ O[i] = draft.order[i] /\ IsOpen(O[i])
    BY <1>1, <1>3, <1>8, <1>9, <1>10
  <2> QED BY <1>9, <2>1, <2>2 DEF Owns, IsOpen
<1>13. ASSUME NEW v \in Wallet, walLock'[v] = s PROVE Off(W, L, v, Owes(x, v))
  <2>1. Off(draft.wallet, draft.ledger, v, 0)
    BY <1>1, <1>8, <1>13, Free
  <2> QED BY <1>9, <1>11, <2>1
<1>14. /\ \A v \in Wallet : walLock'[v] # s => W[v] = draft.wallet[v] /\ L[v] = draft.ledger[v]
       /\ \A i \in OrderId : ordLock'[i] # s => O[i] = draft.order[i] /\ T[i] = draft.trades[i]
  <2>1. ASSUME NEW v \in Wallet, walLock'[v] # s PROVE v \notin {w, g}
    BY <1>3, <1>6, <1>8, <2>1
  <2> QED BY <1>3, <1>8, <1>10, <1>11, <2>1
<1>15. ws \in SUBSET Wallet /\ os \in SUBSET OrderId
  BY <1>8
<1> QED BY <1>7, <1>9, <1>10, <1>11, <1>12, <1>13, <1>14, <1>15, Writing

-----------------------------------------------------------------------------
(* The end of a transaction.                                               *)

\* A session that ends gives back its rows and keeps nothing.
LEMMA Released ==
    ASSUME TxTypeOK, NEW s \in Session, Release(s), tx' = [tx EXCEPT ![s] = Idle]
    PROVE  /\ walLock' \in [Wallet -> Session \cup {None}]
           /\ ordLock' \in [OrderId -> Session \cup {None}]
           /\ tx' \in [Session -> Transaction]
           /\ tx'[s] = Idle /\ \A r \in Session : r # s => tx'[r] = tx[r]
           /\ \A w \in Wallet : walLock'[w] = IF walLock[w] = s THEN None ELSE walLock[w]
           /\ \A o \in OrderId : ordLock'[o] = IF ordLock[o] = s THEN None ELSE ordLock[o]
           /\ s # None /\ (\A r \in Session : r # None)
BY NoneAssumption DEF TxTypeOK, Release, Idle, Transaction

\* It keeps the invariant if it leaves its rows as it commits them and the
\* books of its wallets balanced, and touches no other row.
LEMMA Ending ==
    ASSUME TxInv, NEW s \in Session, Release(s), tx' = [tx EXCEPT ![s] = Idle],
           TypeOK',
           draft' \in [wallet : [Wallet -> WalletRow], order : [OrderId -> Row],
                       trades : [OrderId -> Nat], ledger : [Wallet -> Int]],
           \A w \in Wallet : IF walLock[w] = s
               THEN draft'.wallet[w] = wallet'[w] /\ draft'.ledger[w] = ledger'[w]
               ELSE /\ draft'.wallet[w] = draft.wallet[w] /\ draft'.ledger[w] = draft.ledger[w]
                    /\ wallet'[w] = wallet[w] /\ ledger'[w] = ledger[w],
           \A o \in OrderId : IF ordLock[o] = s
               THEN draft'.order[o] = order'[o] /\ draft'.trades[o] = trades'[o]
               ELSE /\ draft'.order[o] = draft.order[o] /\ draft'.trades[o] = draft.trades[o]
                    /\ order'[o] = order[o] /\ trades'[o] = trades[o],
           \A o \in OrderId : order[o] # Unused => order'[o] # Unused,
           \A w \in Wallet : walLock[w] = s => Off(wallet', ledger', w, 0)
    PROVE  TxInv'
<1>1. /\ walLock' \in [Wallet -> Session \cup {None}]
      /\ ordLock' \in [OrderId -> Session \cup {None}]
      /\ tx' \in [Session -> Transaction]
      /\ tx'[s] = Idle /\ \A r \in Session : r # s => tx'[r] = tx[r]
      /\ \A w \in Wallet : walLock'[w] = IF walLock[w] = s THEN None ELSE walLock[w]
      /\ \A o \in OrderId : ordLock'[o] = IF ordLock[o] = s THEN None ELSE ordLock[o]
      /\ s # None /\ (\A r \in Session : r # None)
  BY Released DEF TxInv
<1>2. TxTypeOK'
  BY <1>1 DEF TxTypeOK, Row
<1>3. NothingLeaks'
  <2>1. ASSUME NEW w \in Wallet, walLock'[w] = None
        PROVE  draft'.wallet[w] = wallet'[w] /\ draft'.ledger[w] = ledger'[w]
    BY <1>1, <2>1 DEF TxInv, NothingLeaks
  <2>2. ASSUME NEW o \in OrderId, ordLock'[o] = None
        PROVE  draft'.order[o] = order'[o] /\ draft'.trades[o] = trades'[o]
    BY <1>1, <2>2 DEF TxInv, NothingLeaks
  <2>3. ASSUME NEW r \in Session, tx'[r] = Idle
        PROVE  /\ \A w \in Wallet : walLock'[w] # r
               /\ \A o \in OrderId : ordLock'[o] # r
    BY <1>1, <2>3 DEF TxInv, NothingLeaks
  <2> QED BY <2>1, <2>2, <2>3 DEF NothingLeaks, Idle
<1>4. RowsKept'
  BY DEF TxInv, RowsKept, Unused
<1>5. ASSUME NEW r \in Session PROVE Owns(r)'
  <2>1. CASE r = s
    BY <1>1, <2>1 DEF Owns, Idle
  <2>2. CASE r # s
    <3>1. \A w \in Wallet : walLock[w] = r => walLock'[w] = r
      BY <1>1, <2>2
    <3>2. \A o \in OrderId : ordLock[o] = r =>
              ordLock'[o] = r /\ draft'.order[o] = draft.order[o]
      BY <1>1, <2>2
    <3>3. TxTypeOK /\ Owns(r)
      BY DEF TxInv
    <3> QED BY <2>2, <3>1, <3>2, <3>3, OthersOwn
  <2> QED BY <2>1, <2>2
<1>6. ASSUME NEW w \in Wallet PROVE Balanced(w)'
  <2>1. CASE walLock[w] = s
    <3>1. Due(w)' = 0
      BY <1>1, <2>1 DEF Due
    <3>2. wallet'[w].balance \in Int
      BY DEF TypeOK, WalletRow
    <3> QED BY <2>1, <3>1, <3>2 DEF Balanced, Off
  <2>2. CASE walLock[w] # s
    <3>1. walLock'[w] = walLock[w] /\ walLock[w] \in Session \cup {None}
      BY <1>1, <2>2 DEF TxInv, TxTypeOK
    <3>2. walLock[w] # None => tx'[walLock[w]] = tx[walLock[w]]
      BY <1>1, <2>2, <3>1
    <3>3. Due(w)' = Due(w)
      BY <3>1, <3>2 DEF Due, PayWallet, PayAmount, Spot
    <3> QED BY <2>2, <3>3 DEF TxInv, Balanced
  <2> QED BY <2>1, <2>2
<1>7. BooksBalance'
  <2> SUFFICES ASSUME NEW w \in Wallet
               PROVE  /\ wallet'[w].balance = wallet'[w].available + wallet'[w].frozen
                      /\ ledger'[w] = wallet'[w].balance
    BY DEF BooksBalance
  <2>1. CASE walLock[w] = s
    <3>1. wallet'[w].balance \in Int
      BY DEF TypeOK, WalletRow
    <3> QED BY <2>1, <3>1 DEF Off
  <2>2. CASE walLock[w] # s
    BY <2>2 DEF TxInv, BooksBalance
  <2> QED BY <2>1, <2>2
<1> QED BY <1>2, <1>3, <1>4, <1>5, <1>6, <1>7 DEF TxInv

LEMMA CommitInv ==
    ASSUME TxInv, NEW s \in Session, Commit(s)
    PROVE  TxInv'
<1>1. /\ tx[s].pc = "commit" /\ draft' = draft /\ Release(s) /\ tx' = [tx EXCEPT ![s] = Idle]
      /\ wallet' = [w \in Wallet |-> IF walLock[w] = s THEN draft.wallet[w] ELSE wallet[w]]
      /\ order' = [o \in OrderId |-> IF ordLock[o] = s THEN draft.order[o] ELSE order[o]]
      /\ trades' = [o \in OrderId |-> IF ordLock[o] = s THEN draft.trades[o] ELSE trades[o]]
      /\ ledger' = [w \in Wallet |-> IF walLock[w] = s THEN draft.ledger[w] ELSE ledger[w]]
  BY DEF Commit, Goto, Merge, Committed
<1>2. /\ draft.wallet \in [Wallet -> WalletRow] /\ draft.order \in [OrderId -> Row]
      /\ draft.trades \in [OrderId -> Nat] /\ draft.ledger \in [Wallet -> Int]
      /\ wallet \in [Wallet -> WalletRow] /\ order \in [OrderId -> Row]
      /\ trades \in [OrderId -> Nat] /\ ledger \in [Wallet -> Int]
  BY Types DEF TxInv
<1>3. TypeOK'
  BY <1>1, <1>2 DEF TypeOK, Row
<1>4. draft' \in [wallet : [Wallet -> WalletRow], order : [OrderId -> Row],
                  trades : [OrderId -> Nat], ledger : [Wallet -> Int]]
  BY <1>1 DEF TxInv, TxTypeOK, Row
<1>5. \A o \in OrderId : order[o] # Unused => order'[o] # Unused
  BY <1>1 DEF TxInv, RowsKept
<1>6. ASSUME NEW w \in Wallet, walLock[w] = s PROVE Off(wallet', ledger', w, 0)
  <2>1. Off(draft.wallet, draft.ledger, w, 0)
    BY <1>1, <1>6, Free
  <2> QED BY <1>1, <1>6, <2>1 DEF Off
<1>7. \A w \in Wallet : IF walLock[w] = s
          THEN draft'.wallet[w] = wallet'[w] /\ draft'.ledger[w] = ledger'[w]
          ELSE /\ draft'.wallet[w] = draft.wallet[w] /\ draft'.ledger[w] = draft.ledger[w]
               /\ wallet'[w] = wallet[w] /\ ledger'[w] = ledger[w]
  BY <1>1
<1>8. \A o \in OrderId : IF ordLock[o] = s
          THEN draft'.order[o] = order'[o] /\ draft'.trades[o] = trades'[o]
          ELSE /\ draft'.order[o] = draft.order[o] /\ draft'.trades[o] = draft.trades[o]
               /\ order'[o] = order[o] /\ trades'[o] = trades[o]
  BY <1>1
<1>9. Release(s) /\ tx' = [tx EXCEPT ![s] = Idle]
  BY <1>1
<1> QED BY <1>3, <1>4, <1>5, <1>6, <1>7, <1>8, <1>9, Ending

LEMMA RollbackInv ==
    ASSUME TxInv, NEW s \in Session, Rollback(s)
    PROVE  TxInv'
<1> DEFINE W == [w \in Wallet |-> IF walLock[w] = s THEN wallet[w] ELSE draft.wallet[w]]
           O == [o \in OrderId |-> IF ordLock[o] = s THEN order[o] ELSE draft.order[o]]
           T == [o \in OrderId |-> IF ordLock[o] = s THEN trades[o] ELSE draft.trades[o]]
           L == [w \in Wallet |-> IF walLock[w] = s THEN ledger[w] ELSE draft.ledger[w]]
<1>1. /\ Release(s) /\ tx' = [tx EXCEPT ![s] = Idle]
      /\ wallet' = wallet /\ order' = order /\ trades' = trades /\ ledger' = ledger
      /\ draft' = [wallet |-> W, order |-> O, trades |-> T, ledger |-> L]
  BY DEF Rollback, Goto, Merge, Committed, vars
<1>2. /\ draft.wallet \in [Wallet -> WalletRow] /\ draft.order \in [OrderId -> Row]
      /\ draft.trades \in [OrderId -> Nat] /\ draft.ledger \in [Wallet -> Int]
      /\ wallet \in [Wallet -> WalletRow] /\ order \in [OrderId -> Row]
      /\ trades \in [OrderId -> Nat] /\ ledger \in [Wallet -> Int]
  BY Types DEF TxInv
<1>3. TypeOK'
  BY <1>1, <1>2 DEF TypeOK, Row
<1>4. /\ W \in [Wallet -> WalletRow] /\ O \in [OrderId -> Row]
      /\ T \in [OrderId -> Nat] /\ L \in [Wallet -> Int]
  BY <1>2
<1>5. /\ \A w \in Wallet : W[w] = IF walLock[w] = s THEN wallet[w] ELSE draft.wallet[w]
      /\ \A w \in Wallet : L[w] = IF walLock[w] = s THEN ledger[w] ELSE draft.ledger[w]
      /\ \A o \in OrderId : O[o] = IF ordLock[o] = s THEN order[o] ELSE draft.order[o]
      /\ \A o \in OrderId : T[o] = IF ordLock[o] = s THEN trades[o] ELSE draft.trades[o]
  OBVIOUS
<1> HIDE DEF W, O, T, L
<1>6. /\ draft'.wallet = W /\ draft'.order = O /\ draft'.trades = T /\ draft'.ledger = L
      /\ draft' \in [wallet : [Wallet -> WalletRow], order : [OrderId -> Row],
                     trades : [OrderId -> Nat], ledger : [Wallet -> Int]]
  BY <1>1, <1>4
<1>7. \A o \in OrderId : order[o] # Unused => order'[o] # Unused
  BY <1>1
<1>8. ASSUME NEW w \in Wallet, walLock[w] = s PROVE Off(wallet', ledger', w, 0)
  <2>1. wallet[w].balance \in Int
    BY <1>2 DEF WalletRow
  <2> QED BY <1>1, <2>1 DEF TxInv, BooksBalance, Off
<1>9. \A w \in Wallet : IF walLock[w] = s
          THEN draft'.wallet[w] = wallet'[w] /\ draft'.ledger[w] = ledger'[w]
          ELSE /\ draft'.wallet[w] = draft.wallet[w] /\ draft'.ledger[w] = draft.ledger[w]
               /\ wallet'[w] = wallet[w] /\ ledger'[w] = ledger[w]
  BY <1>1, <1>5, <1>6
<1>10. \A o \in OrderId : IF ordLock[o] = s
           THEN draft'.order[o] = order'[o] /\ draft'.trades[o] = trades'[o]
           ELSE /\ draft'.order[o] = draft.order[o] /\ draft'.trades[o] = draft.trades[o]
                /\ order'[o] = order[o] /\ trades'[o] = trades[o]
  BY <1>1, <1>5, <1>6
<1>11. Release(s) /\ tx' = [tx EXCEPT ![s] = Idle]
  BY <1>1
<1> QED BY <1>3, <1>6, <1>7, <1>8, <1>9, <1>10, <1>11, Ending

-----------------------------------------------------------------------------
LEMMA TxNextInv == TxInv /\ [TxNext]_txVars => TxInv'
<1> SUFFICES ASSUME TxInv, [TxNext]_txVars PROVE TxInv'
  OBVIOUS
<1>1. CASE UNCHANGED txVars
  <2>1. /\ wallet' = wallet /\ order' = order /\ trades' = trades /\ ledger' = ledger
        /\ draft' = draft /\ walLock' = walLock /\ ordLock' = ordLock /\ tx' = tx
    BY <1>1 DEF txVars
  <2>2. TxTypeOK' /\ NothingLeaks' /\ RowsKept' /\ BooksBalance'
    BY <2>1 DEF TxInv, TxTypeOK, TypeOK, NothingLeaks, RowsKept, BooksBalance, Idle
  <2>3. ASSUME NEW s \in Session PROVE Owns(s)'
    <3>1. Owns(s)
      BY DEF TxInv
    <3> QED BY <2>1, <3>1 DEF Owns, IsOpen, PayWallet, Spot
  <2>4. ASSUME NEW w \in Wallet PROVE Balanced(w)'
    <3>1. Due(w)' = Due(w)
      BY <2>1 DEF Due, PayWallet, PayAmount, Spot
    <3> QED BY <2>1, <3>1 DEF TxInv, Balanced
  <2> QED BY <2>2, <2>3, <2>4 DEF TxInv
<1>2. ASSUME NEW s \in Session, Begin(s) PROVE TxInv'
  <2>1. ASSUME NEW u \in User, NEW a \in Asset, NEW amt \in Amount, BeginDeposit(s, u, a, amt)
        PROVE  TxInv'
    BY <2>1, BeginDepositInv
  <2>2. ASSUME NEW u \in User, NEW a \in Asset, NEW amt \in Amount, BeginWithdraw(s, u, a, amt)
        PROVE  TxInv'
    BY <2>2, BeginWithdrawInv
  <2>3. ASSUME NEW u \in User, NEW a \in Asset, NEW from \in WalletType, NEW to \in WalletType,
               NEW amt \in Amount, BeginTransfer(s, u, a, from, to, amt)
        PROVE  TxInv'
    BY <2>3, BeginTransferInv
  <2>4. ASSUME NEW t \in OrderRow, BeginResting(s, t) PROVE TxInv'
    BY <2>4, BeginRestingInv
  <2>5. ASSUME NEW t \in OrderRow, BeginMarket(s, t) PROVE TxInv'
    BY <2>5, BeginMarketInv
  <2>6. ASSUME NEW o \in OrderId, BeginCancel(s, o) PROVE TxInv'
    BY <2>6, BeginCancelInv
  <2>7. CASE BeginMonitor(s)
    BY <2>7, BeginMonitorInv
  <2> QED BY <1>2, <2>1, <2>2, <2>3, <2>4, <2>5, <2>6, <2>7 DEF Begin
<1>3. ASSUME NEW s \in Session, Continue(s) PROVE TxInv'
  <2>1. CASE Commit(s)
    BY <2>1, CommitInv
  <2>2. CASE Credit(s)
    BY <2>2, CreditInv
  <2>3. CASE RefuseCredit(s)
    BY <2>3, RollbackInv DEF RefuseCredit
  <2>4. CASE Settle(s)
    BY <2>4, SettleInv
  <2>5. CASE Select(s)
    BY <2>5, SelectInv
  <2>6. ASSUME NEW o \in OrderId, LockRow(s, o) PROVE TxInv'
    BY <2>6, LockRowInv
  <2>7. ASSUME NEW o \in OrderId, Look(s, o) PROVE TxInv'
    BY <2>7, LookInv
  <2>8. CASE FillPay(s)
    BY <2>8, FillPayInv
  <2>9. CASE FillGet(s)
    BY <2>9, FillGetInv
  <2>10. CASE EndPass(s)
    BY <2>10, EndPassInv
  <2>11. CASE CancelUnfreeze(s)
    BY <2>11, CancelUnfreezeInv
  <2>12. CASE CancelClose(s)
    BY <2>12, CancelCloseInv
  <2> QED BY <1>3, <2>1, <2>2, <2>3, <2>4, <2>5, <2>6, <2>7, <2>8, <2>9, <2>10, <2>11, <2>12
          DEF Continue
<1>4. ASSUME NEW s \in Session, Fail(s) \/ Victim(s) PROVE TxInv'
  BY <1>4, RollbackInv DEF Fail, Victim
<1> QED BY <1>1, <1>2, <1>3, <1>4 DEF TxNext

THEOREM TxInvariance == TxSpec => []TxInv
<1>1. TxInit => TxInv
  BY TxInitInv
<1>2. TxInv /\ [TxNext]_txVars => TxInv'
  BY TxNextInv
<1> QED BY <1>1, <1>2, PTL DEF TxSpec

\* The tables and every session's place keep their types.
THEOREM TxTypeCorrect == TxSpec => []TxTypeOK
<1>1. TxInv => TxTypeOK
  BY DEF TxInv
<1> QED BY <1>1, TxInvariance, PTL

\* For any sessions and any interleaving of their statements, cancellations
\* among them: a row nobody has locked is as committed, and a session between
\* requests has locked none (every rollback of trading.py's callers).
THEOREM Isolation == TxSpec => []NothingLeaks
<1>1. TxInv => NothingLeaks
  BY DEF TxInv
<1> QED BY <1>1, TxInvariance, PTL

\* Each wallet keeps balance = available + frozen and a ledger that explains
\* it, even when cancellations race with fills (cancel_order).
THEOREM BooksAlwaysBalance == TxSpec => []BooksBalance
<1>1. TxInv => BooksBalance
  BY DEF TxInv
<1> QED BY <1>1, TxInvariance, PTL
=============================================================================
