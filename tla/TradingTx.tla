----------------------------- MODULE TradingTx -----------------------------
(***************************************************************************)
(* The requests of Exchange as the database runs them: each is a           *)
(* transaction of one session, a sequence of statements that read rows,    *)
(* lock rows and write rows, interleaved with those of other sessions      *)
(* (PostgreSQL, READ COMMITTED).                                           *)
(*                                                                         *)
(* The variables of Exchange are the committed tables.  draft holds the    *)
(* rows as the session that has locked them sees them; a row nobody has    *)
(* locked is in draft as it is committed.  A statement that must wait for  *)
(* a row is an action that is not enabled.  A request whose first          *)
(* statement is still waiting holds nothing and has read nothing, and      *)
(* counts as not begun.                                                    *)
(*                                                                         *)
(* get_or_create_wallet inserts a missing wallet row under the unique      *)
(* constraint.  The loser of two such inserts waits like for a row lock;   *)
(* its transaction is then lost, which is Fail.                            *)
(***************************************************************************)
EXTENDS Exchange

CONSTANTS
    Session,  \* connections that serve requests, the monitor's among them
    None,     \* no session
    Kinds     \* bound: the kinds of requests made

ASSUME NoneAssumption == None \notin Session

VARIABLES
    draft,    \* the four tables, with what open transactions wrote
    walLock,  \* [Wallet -> who has the row locked]
    ordLock,  \* [OrderId -> who has the row locked]
    tx        \* [Session -> where its transaction stands]

txVars == <<wallet, order, trades, ledger, draft, walLock, ordLock, tx>>

Committed == [wallet |-> wallet, order |-> order, trades |-> trades, ledger |-> ledger]

Pass == {"limit", "conditional"}
Idle == [pc |-> "idle"]
Scan(pass, us) == [pc |-> "scan", pass |-> pass, users |-> us]

Transaction ==
    [pc : {"idle", "commit"}]
    \cup [pc : {"credit"}, from : Wallet, to : Wallet, amt : Amount]
    \cup [pc : {"settle"}, id : OrderId, row : OrderRow]
    \cup [pc : {"scan"}, pass : Pass, users : SUBSET User]
    \cup [pc : {"lock"}, pass : Pass, users : SUBSET User,
          todo : SUBSET OrderId, rows : SUBSET OrderId]
    \cup [pc : {"pay", "get"}, pass : Pass, users : SUBSET User,
          rows : SUBSET OrderId, id : OrderId]
    \cup [pc : {"unfreeze", "close"}, id : OrderId]

-----------------------------------------------------------------------------
(* Row locks, and the end of a transaction.                                *)

\* s takes the rows ws and os, or waits.
Lock(s, ws, os) ==
    /\ \A w \in ws : walLock[w] \in {s, None}
    /\ \A o \in os : ordLock[o] \in {s, None}
    /\ walLock' = [w \in Wallet |-> IF w \in ws THEN s ELSE walLock[w]]
    /\ ordLock' = [o \in OrderId |-> IF o \in os THEN s ELSE ordLock[o]]

Goto(s, where) == tx' = [tx EXCEPT ![s] = where]

\* Tables old with the rows s has locked taken from new.
Merge(s, new, old) ==
    LET Wal(n, o) == [w \in Wallet |-> IF walLock[w] = s THEN n[w] ELSE o[w]]
        Ord(n, o) == [i \in OrderId |-> IF ordLock[i] = s THEN n[i] ELSE o[i]]
    IN  [wallet |-> Wal(new.wallet, old.wallet), order |-> Ord(new.order, old.order),
         trades |-> Ord(new.trades, old.trades), ledger |-> Wal(new.ledger, old.ledger)]

\* Faulty: a session gives back its wallets and leaves its orders locked.
ReleaseWallets(s) ==
    /\ walLock' = [w \in Wallet |-> IF walLock[w] = s THEN None ELSE walLock[w]]
    /\ UNCHANGED ordLock
Release(s) ==
    /\ walLock' = [w \in Wallet |-> IF walLock[w] = s THEN None ELSE walLock[w]]
    /\ ordLock' = [o \in OrderId |-> IF ordLock[o] = s THEN None ELSE ordLock[o]]

Commit(s) ==
    /\ tx[s].pc = "commit"
    /\ LET m == Merge(s, draft, Committed) IN
           /\ wallet' = m.wallet
           /\ order' = m.order
           /\ trades' = m.trades
           /\ ledger' = m.ledger
    /\ Release(s)
    /\ Goto(s, Idle)
    /\ UNCHANGED draft

\* Faulty: the rows of an abandoned transaction keep what it wrote.
RollbackKeepsWrites(s) ==
    /\ Release(s)
    /\ Goto(s, Idle)
    /\ UNCHANGED <<draft, vars>>
Rollback(s) ==
    /\ draft' = Merge(s, Committed, draft)
    /\ Release(s)
    /\ Goto(s, Idle)
    /\ UNCHANGED vars

-----------------------------------------------------------------------------
(* Wallet requests.                                                        *)

\* credit
BeginDeposit(s, u, a, amt) ==
    LET w == Spot(u, a) IN
    /\ tx[s] = Idle
    /\ draft.wallet[w].balance + draft.wallet[<<u, a, "funding">>].balance + amt <= MaxBalance
    /\ Lock(s, {w}, {})
    /\ draft' = [draft EXCEPT !.wallet = Move(@, w, amt, amt, 0),
                              !.ledger = Enter(@, w, amt)]
    /\ Goto(s, [pc |-> "commit"])
    /\ UNCHANGED vars

\* debit; a request it refuses has no effect.
BeginWithdraw(s, u, a, amt) ==
    LET w == Spot(u, a) IN
    /\ tx[s] = Idle
    /\ Lock(s, {w}, {})
    /\ draft.wallet[w].available >= amt
    /\ draft' = [draft EXCEPT !.wallet = Move(@, w, -amt, -amt, 0),
                              !.ledger = Enter(@, w, -amt)]
    /\ Goto(s, [pc |-> "commit"])
    /\ UNCHANGED vars

\* transfer, up to the lock of its source wallet.
BeginTransfer(s, u, a, from, to, amt) ==
    /\ tx[s] = Idle
    /\ from # to
    /\ Lock(s, {<<u, a, from>>}, {})
    /\ Goto(s, [pc |-> "credit", from |-> <<u, a, from>>, to |-> <<u, a, to>>, amt |-> amt])
    /\ UNCHANGED <<draft, vars>>

\* transfer, from the lock of its target wallet on.
Credit(s) ==
    /\ tx[s].pc = "credit"
    /\ Lock(s, {tx[s].to}, {})
    /\ draft.wallet[tx[s].from].available >= tx[s].amt
    /\ draft' = [draft EXCEPT
           !.wallet = Move(Move(@, tx[s].from, -tx[s].amt, -tx[s].amt, 0),
                           tx[s].to, tx[s].amt, tx[s].amt, 0),
           !.ledger = Enter(Enter(@, tx[s].from, -tx[s].amt), tx[s].to, tx[s].amt)]
    /\ Goto(s, [pc |-> "commit"])
    /\ UNCHANGED vars

\* transfer, "Insufficient available balance".
RefuseCredit(s) ==
    /\ tx[s].pc = "credit"
    /\ walLock[tx[s].to] \in {s, None}
    /\ draft.wallet[tx[s].from].available < tx[s].amt
    /\ Rollback(s)

-----------------------------------------------------------------------------
(* Placing an order.                                                       *)

\* Order rows no transaction has inserted, committed or not.
NewIds == {o \in OrderId : draft.order[o] = Unused /\ ordLock[o] = None}

\* place_order and _freeze_limit for an order that rests; one it refuses has
\* no effect.
BeginResting(s, t) ==
    /\ tx[s] = Idle
    /\ \E o \in NewIds :
           /\ Lock(s, {PayWallet(t)}, {o})
           /\ draft.wallet[PayWallet(t)].available >= PayAmount(t)
           /\ draft' = [draft EXCEPT !.wallet = Freeze(@, t), !.order[o] = t]
    /\ Goto(s, Scan("limit", {t.user}))
    /\ UNCHANGED vars

\* _place_market, up to the lock of the wallet it pays into.
BeginMarket(s, t) ==
    LET w == PayWallet(t) IN
    /\ tx[s] = Idle
    /\ \E o \in NewIds :
           /\ Lock(s, {w}, {o})
           /\ draft.wallet[w].available >= PayAmount(t)
           /\ draft' = [draft EXCEPT !.wallet = Move(@, w, -PayAmount(t), -PayAmount(t), 0)]
           /\ Goto(s, [pc |-> "settle", id |-> o, row |-> t])
    /\ UNCHANGED vars

\* _place_market, from the lock of the wallet it pays into on.
Settle(s) ==
    LET t == tx[s].row
        o == tx[s].id
    IN  /\ tx[s].pc = "settle"
        /\ Lock(s, {GetWallet(t)}, {})
        /\ draft' = [wallet |-> Move(draft.wallet, GetWallet(t), GetAmount(t), GetAmount(t), 0),
                     order  |-> [draft.order EXCEPT ![o] = t],
                     trades |-> [draft.trades EXCEPT ![o] = 1],
                     ledger |-> Enter(Enter(draft.ledger, PayWallet(t), -PayAmount(t)),
                                      GetWallet(t), GetAmount(t))]
        /\ Goto(s, Scan("limit", {t.user}))
        /\ UNCHANGED vars

-----------------------------------------------------------------------------
(* The two passes over open orders: _sweep_open_orders, then               *)
(* check_conditional_orders.                                               *)

InPass(t, pass, us) ==
    IsOpen(t) /\ t.user \in us /\ (pass = "conditional" <=> Conditional(t))

\* An order row as session s sees it.
Seen(s, o) == IF ordLock[o] = s THEN draft.order[o] ELSE order[o]

\* SELECT ... FOR UPDATE finds its rows,
Select(s) ==
    /\ tx[s].pc = "scan"
    /\ Goto(s, [pc |-> "lock", pass |-> tx[s].pass, users |-> tx[s].users, rows |-> {},
                todo |-> {o \in OrderId : InPass(Seen(s, o), tx[s].pass, tx[s].users)}])
    /\ UNCHANGED <<draft, walLock, ordLock, vars>>

\* Faulty: a row that had to be waited for is used as it was found.
LockRowUnchecked(s, o) ==
    /\ tx[s].pc = "lock"
    /\ o \in tx[s].todo
    /\ Lock(s, {}, {o})
    /\ Goto(s, [tx[s] EXCEPT !.todo = @ \ {o}, !.rows = @ \cup {o}])
    /\ UNCHANGED <<draft, vars>>
\* and locks them one by one; a row that is no longer open when its lock is
\* granted stays locked and is not returned.
LockRow(s, o) ==
    /\ tx[s].pc = "lock"
    /\ o \in tx[s].todo
    /\ Lock(s, {}, {o})
    /\ Goto(s, [tx[s] EXCEPT !.todo = @ \ {o},
                              !.rows = IF IsOpen(draft.order[o]) THEN @ \cup {o} ELSE @])
    /\ UNCHANGED <<draft, vars>>

\* One of the rows is looked up at a live price that triggers it.
Look(s, o) ==
    /\ tx[s].pc = "lock"
    /\ tx[s].todo = {}
    /\ o \in tx[s].rows
    /\ \E live \in Price : Triggered(draft.order[o], live)
    /\ Goto(s, [pc |-> "pay", pass |-> tx[s].pass, users |-> tx[s].users,
                rows |-> tx[s].rows \ {o}, id |-> o])
    /\ UNCHANGED <<draft, walLock, ordLock, vars>>

\* _execute_limit_fill locks the wallet it pays from,
FillPay(s) ==
    /\ tx[s].pc = "pay"
    /\ Lock(s, {PayWallet(draft.order[tx[s].id])}, {})
    /\ Goto(s, [tx[s] EXCEPT !.pc = "get"])
    /\ UNCHANGED <<draft, vars>>

\* then the wallet it pays into, and fills.
FillGet(s) ==
    LET F == {tx[s].id} IN
    /\ tx[s].pc = "get"
    /\ Lock(s, {GetWallet(draft.order[tx[s].id])}, {})
    /\ draft' = [wallet |-> FillWallets(draft.wallet, draft.order, F),
                 order  |-> FillOrders(draft.order, F),
                 trades |-> FillTrades(draft.trades, F),
                 ledger |-> FillLedger(draft.ledger, draft.order, F)]
    /\ Goto(s, [pc |-> "lock", pass |-> tx[s].pass, users |-> tx[s].users,
                todo |-> {}, rows |-> tx[s].rows])
    /\ UNCHANGED vars

\* The other rows are looked up at live prices that do not trigger them.
EndPass(s) ==
    /\ tx[s].pc = "lock"
    /\ tx[s].todo = {}
    /\ \A o \in tx[s].rows : \E live \in Price : ~Triggered(draft.order[o], live)
    /\ Goto(s, IF tx[s].pass = "limit" THEN Scan("conditional", tx[s].users)
                                       ELSE [pc |-> "commit"])
    /\ UNCHANGED <<draft, walLock, ordLock, vars>>

\* _conditional_monitor_loop and run_conditional_orders.
BeginMonitor(s) ==
    /\ tx[s] = Idle
    /\ Goto(s, Scan("conditional", User))
    /\ UNCHANGED <<draft, walLock, ordLock, vars>>

-----------------------------------------------------------------------------
(* cancel_order.                                                           *)

\* It reads the order without a lock, and goes on only if it is open,
BeginCancel(s, o) ==
    /\ tx[s] = Idle
    /\ IsOpen(order[o])
    /\ Goto(s, [pc |-> "unfreeze", id |-> o])
    /\ UNCHANGED <<draft, walLock, ordLock, vars>>

\* Faulty: gives the hold back without telling the available amount apart.
CancelUnfreezeMint(s) ==
    LET w == PayWallet(order[tx[s].id]) IN
    /\ tx[s].pc = "unfreeze"
    /\ Lock(s, {w}, {})
    /\ draft' = [draft EXCEPT !.wallet[w].available = @ + PayAmount(order[tx[s].id])]
    /\ Goto(s, [tx[s] EXCEPT !.pc = "close"])
    /\ UNCHANGED vars
\* gives the hold of the row it read back under the wallet's lock,
CancelUnfreeze(s) ==
    LET t == order[tx[s].id] IN  \* only the status of a row ever changes
    /\ tx[s].pc = "unfreeze"
    /\ Lock(s, {PayWallet(t)}, {})
    /\ draft' = [draft EXCEPT !.wallet = Unfreeze(@, t)]
    /\ Goto(s, [tx[s] EXCEPT !.pc = "close"])
    /\ UNCHANGED vars

\* and sets the status, whatever it has become.
CancelClose(s) ==
    /\ tx[s].pc = "close"
    /\ Lock(s, {}, {tx[s].id})
    /\ draft' = [draft EXCEPT !.order[tx[s].id].status = "cancelled"]
    /\ Goto(s, [pc |-> "commit"])
    /\ UNCHANGED vars

-----------------------------------------------------------------------------
(* Failures.                                                               *)

\* An exception in the handler, a lost connection or a crash of the process:
\* every path rolls the transaction back.
Fail(s) == tx[s] # Idle /\ Rollback(s)

\* The rows s is waiting for one of.
WantedWallets(s) ==
    CASE tx[s].pc = "credit" -> {tx[s].to}
      [] tx[s].pc = "settle" -> {GetWallet(tx[s].row)}
      [] tx[s].pc = "pay" -> {PayWallet(draft.order[tx[s].id])}
      [] tx[s].pc = "get" -> {GetWallet(draft.order[tx[s].id])}
      [] tx[s].pc = "unfreeze" -> {PayWallet(order[tx[s].id])}
      [] OTHER -> {}
WantedOrders(s) ==
    CASE tx[s].pc = "lock" -> tx[s].todo
      [] tx[s].pc = "close" -> {tx[s].id}
      [] OTHER -> {}

\* Every session of D waits for rows other sessions of D have locked.
Deadlocked(D) ==
    \A s \in D :
        LET holders == {walLock[w] : w \in WantedWallets(s)}
                       \cup {ordLock[o] : o \in WantedOrders(s)}
        IN  holders # {} /\ holders \subseteq D \ {s}

\* The database breaks a deadlock by failing one of its transactions.
Victim(s) ==
    /\ \E D \in SUBSET Session : s \in D /\ Deadlocked(D)
    /\ Rollback(s)

-----------------------------------------------------------------------------
TxInit ==
    /\ Init
    /\ draft = Committed
    /\ walLock = [w \in Wallet |-> None]
    /\ ordLock = [o \in OrderId |-> None]
    /\ tx = [s \in Session |-> Idle]

Begin(s) ==
    \/ "deposit" \in Kinds /\ \E u \in User, a \in Asset, amt \in Amount :
           BeginDeposit(s, u, a, amt)
    \/ "withdraw" \in Kinds /\ \E u \in User, a \in Asset, amt \in Amount :
           BeginWithdraw(s, u, a, amt)
    \/ "transfer" \in Kinds /\ \E u \in User, a \in Asset, from, to \in WalletType,
                                 amt \in Amount : BeginTransfer(s, u, a, from, to, amt)
    \/ "resting" \in Kinds /\ \E t \in OrderRow :
           t.status = "open" /\ t.type \in RestingType /\ BeginResting(s, t)
    \/ "market" \in Kinds /\ \E t \in OrderRow :
           t.status = "filled" /\ t.type = "market" /\ BeginMarket(s, t)
    \/ "cancel" \in Kinds /\ \E o \in OrderId : BeginCancel(s, o)
    \/ "monitor" \in Kinds /\ BeginMonitor(s)

\* The statement session s is at.
Continue(s) ==
    \/ Commit(s)
    \/ Credit(s)
    \/ RefuseCredit(s)
    \/ Settle(s)
    \/ Select(s)
    \/ \E o \in OrderId : LockRow(s, o)
    \/ \E o \in OrderId : Look(s, o)
    \/ FillPay(s)
    \/ FillGet(s)
    \/ EndPass(s)
    \/ CancelUnfreeze(s)
    \/ CancelClose(s)

TxNext == \E s \in Session : Begin(s) \/ Continue(s) \/ Fail(s) \/ Victim(s)

TxSpec == TxInit /\ [][TxNext]_txVars

\* The database grants row locks in the order of their requests, so that a
\* statement that can run again and again runs; and it does detect deadlocks.
TxFairSpec ==
    /\ TxSpec
    /\ \A s \in Session : SF_txVars(Continue(s)) /\ WF_txVars(Victim(s))

-----------------------------------------------------------------------------
TxTypeOK ==
    /\ TypeOK
    /\ draft \in [wallet : [Wallet -> WalletRow], order : [OrderId -> OrderRow \cup {Unused}],
                  trades : [OrderId -> Nat], ledger : [Wallet -> Int]]
    /\ walLock \in [Wallet -> Session \cup {None}]
    /\ ordLock \in [OrderId -> Session \cup {None}]
    /\ tx \in [Session -> Transaction]

\* What a transaction wrote is seen by no other before it commits and is gone
\* when it is rolled back: a row that is not locked is as committed, and a
\* session between two requests has locked nothing.  It is what every
\* exception path of place_order and every closed session relies on.
NothingLeaks ==
    /\ \A w \in Wallet : walLock[w] = None =>
           draft.wallet[w] = wallet[w] /\ draft.ledger[w] = ledger[w]
    /\ \A o \in OrderId : ordLock[o] = None =>
           draft.order[o] = order[o] /\ draft.trades[o] = trades[o]
    /\ \A s \in Session : tx[s] = Idle =>
           (\A w \in Wallet : walLock[w] # s) /\ (\A o \in OrderId : ordLock[o] # s)

\* Whatever the interleaving, every commit is one step of Exchange: no double
\* fill, no lost update of a wallet, no order filled on funds that are gone.
\* This is Spec, which lets TLC see first that most statements commit nothing.
Atomic == Init /\ [][UNCHANGED vars \/ Next]_vars

\* What the commit of a cancellation does whose order was filled or cancelled
\* after it was read: the hold is given back again, and the row is cancelled.
CancelClosed(o) ==
    /\ order[o].status \in {"filled", "cancelled"}
    /\ wallet' = Unfreeze(wallet, order[o])
    /\ order' = [order EXCEPT ![o].status = "cancelled"]
    /\ UNCHANGED <<trades, ledger>>
LateCancel == "cancel" \in Kinds /\ \E o \in OrderId : CancelClosed(o)

\* With cancellations, those that come too late are all that keeps Atomic from
\* holding: every other commit is one step of Exchange, whatever rows its
\* transaction waited for and whoever had them (_sweep_open_orders and
\* check_conditional_orders fill the orders as they find them once locked, and
\* _execute_limit_fill finds the wallets so).
AtomicButLateCancels == Init /\ [][UNCHANGED vars \/ Next \/ LateCancel]_vars

\* Even with cancellations that race with fills, each wallet keeps
\* balance = available + frozen and a ledger that explains its balance.
BooksBalance ==
    \A w \in Wallet :
        /\ wallet[w].balance = wallet[w].available + wallet[w].frozen
        /\ ledger[w] = wallet[w].balance

\* Every request that has begun ends, committed or rolled back: no session
\* waits for ever for a row, in whatever order the others lock theirs.
EveryRequestEnds == \A s \in Session : tx[s] # Idle ~> tx[s] = Idle
=============================================================================
