--------------------------- MODULE ReportsProofs ---------------------------
(***************************************************************************)
(* Safety of what is read in several statements, while other requests      *)
(* commit: the history of a portfolio, the paged lists, and the statistics *)
(* of the admin page, each for all values of its constants.                *)
(***************************************************************************)
EXTENDS MCReports, SumsProofs, FiniteSetTheorems, SequenceTheorems

(***************************************************************************)
(* PortfolioHistory.  The wallets are what their rows add up to, and rows  *)
(* are only ever added.  A reader that has its balance has that of the     *)
(* first k rows, and of all rows unless it is torn; it then sees the first *)
(* n, and those that come later are of no earlier time than its answer.    *)
(***************************************************************************)
\* Delta of the places S of log l.
Total(l, S) == Sum([t \in 1 .. MaxRows |-> IF t \in S THEN l[t].delta ELSE 0], MaxRows)

Entry == [type : WalletType, delta : Int, time : Nat]

Log(l) ==
    /\ l \in Seq(Entry)
    /\ Len(l) <= MaxRows

Of(l, n, w) == {t \in 1 .. n : l[t].type = w}

ReadUpTo(n) ==
    \E k \in 0 .. n : read = Total(log, Of(log, k, "spot")) /\ (torn \/ k = n)

HistoryTyped ==
    /\ clock \in Time
    /\ wallet \in [WalletType -> Nat]
    /\ Log(log)
    /\ reader \in {"idle", "transactions", "done"}
    /\ read \in Int
    /\ now \in 0 .. clock
    /\ torn \in BOOLEAN

HistoryInv ==
    /\ HistoryTyped
    /\ \A t \in 1 .. Len(log) : log[t].time <= clock
    /\ \A w \in WalletType : wallet[w] = Total(log, Of(log, Len(log), w))
    /\ reader = "transactions" => ReadUpTo(Len(log))
    /\ reader = "done" =>
           \E n \in 0 .. Len(log) :
               /\ seen = 1 .. n
               /\ ReadUpTo(n)
               /\ \A t \in n + 1 .. Len(log) : log[t].time >= now

-----------------------------------------------------------------------------
LEMMA DeltaTotal == \A S : Delta(S) = Total(log, S)
BY DEF Delta, Total

LEMMA LogRow ==
    ASSUME NEW l, Log(l)
    PROVE  /\ Len(l) \in Nat /\ DOMAIN l = 1 .. Len(l)
           /\ \A t \in 1 .. Len(l) :
                  /\ l[t].type \in WalletType
                  /\ l[t].delta \in Int
                  /\ l[t].time \in Nat
<1>1. l \in Seq(Entry)
  BY DEF Log
<1>2. Len(l) \in Nat /\ DOMAIN l = 1 .. Len(l) /\ \A t \in 1 .. Len(l) : l[t] \in Entry
  BY <1>1, LenProperties, ElementOfSeq
<1> QED BY <1>2 DEF Entry

LEMMA TotalFunction ==
    ASSUME NEW l, Log(l), NEW S \in SUBSET (1 .. Len(l))
    PROVE  [t \in 1 .. MaxRows |-> IF t \in S THEN l[t].delta ELSE 0] \in [1 .. MaxRows -> Int]
BY LogRow

LEMMA TotalType ==
    ASSUME NEW l, Log(l), NEW S \in SUBSET (1 .. Len(l))
    PROVE  Total(l, S) \in Int
BY TotalFunction, SumType, BoundsAssumption DEF Total

LEMMA TotalUnion ==
    ASSUME NEW l, Log(l), NEW S \in SUBSET (1 .. Len(l)), NEW T \in SUBSET (1 .. Len(l)),
           S \cap T = {}
    PROVE  Total(l, S \cup T) = Total(l, S) + Total(l, T)
<1> DEFINE f(R) == [t \in 1 .. MaxRows |-> IF t \in R THEN l[t].delta ELSE 0]
<1>1. /\ f(S) \in [1 .. MaxRows -> Int] /\ f(T) \in [1 .. MaxRows -> Int]
      /\ f(S \cup T) \in [1 .. MaxRows -> Int]
  BY TotalFunction
<1>2. \A i \in 1 .. MaxRows : f(S \cup T)[i] = f(S)[i] + f(T)[i]
  BY LogRow
<1> HIDE DEF f
<1>3. Sum(f(S \cup T), MaxRows) = Sum(f(S), MaxRows) + Sum(f(T), MaxRows)
  BY <1>1, <1>2, SumAdd, BoundsAssumption
<1> QED BY <1>3 DEF Total, f

\* Rows that are there already count as before.
LEMMA TotalKept ==
    ASSUME NEW l, NEW m, NEW S, \A t \in S : m[t] = l[t]
    PROVE  Total(m, S) = Total(l, S)
<1>1. [t \in 1 .. MaxRows |-> IF t \in S THEN m[t].delta ELSE 0]
          = [t \in 1 .. MaxRows |-> IF t \in S THEN l[t].delta ELSE 0]
  OBVIOUS
<1> QED BY <1>1 DEF Total

LEMMA TotalOne ==
    ASSUME NEW l, Log(l), NEW k \in 1 .. Len(l)
    PROVE  Total(l, {k}) = l[k].delta
<1> DEFINE f == [t \in 1 .. MaxRows |-> IF t \in {k} THEN l[t].delta ELSE 0]
<1>1. /\ f \in [1 .. MaxRows -> Int] /\ k \in 1 .. MaxRows
      /\ \A i \in 1 .. MaxRows : i # k => f[i] = 0
      /\ f[k] = l[k].delta
  BY TotalFunction, BoundsAssumption DEF Log
<1> HIDE DEF f
<1>2. Sum(f, MaxRows) = l[k].delta
  BY <1>1, SumPoint, BoundsAssumption
<1> QED BY <1>2 DEF Total, f

LEMMA TotalNone ==
    ASSUME NEW l
    PROVE  Total(l, {}) = 0
BY SumZero, BoundsAssumption DEF Total

LEMMA HistoryInitInv == Init => HistoryInv
<1> SUFFICES ASSUME Init PROVE HistoryInv
  OBVIOUS
<1>1. HistoryTyped
  <2>1. log \in Seq(Entry) /\ Len(log) = 0
    BY EmptySeq DEF Init
  <2>2. Log(log)
    BY <2>1, BoundsAssumption DEF Log
  <2>3. /\ clock = 0 /\ wallet = [w \in WalletType |-> 0] /\ reader = "idle"
        /\ read = 0 /\ now = 0 /\ torn = FALSE
    BY DEF Init
  <2>4. wallet \in [WalletType -> Nat]
    BY <2>3
  <2>5. clock \in 0 .. MaxTime /\ read \in Int /\ now \in 0 .. clock
    BY <2>3, BoundsAssumption
  <2> QED BY <2>2, <2>3, <2>4, <2>5 DEF HistoryTyped, Time
<1>2. Len(log) = 0 /\ \A w \in WalletType : Of(log, Len(log), w) = {}
  <2>1. Len(log) = 0
    BY DEF Init
  <2> QED BY <2>1 DEF Of
<1>3. \A w \in WalletType : wallet[w] = Total(log, Of(log, Len(log), w))
  <2>1. \A w \in WalletType : wallet[w] = 0
    BY DEF Init
  <2> QED BY <1>2, <2>1, TotalNone
<1>4. reader = "idle"
  BY DEF Init
<1> QED BY <1>1, <1>2, <1>3, <1>4 DEF HistoryInv

\* What a request that changes the wallets of deltas does to the log.
LEMMA WriteRows ==
    ASSUME HistoryTyped, NEW deltas,
           \/ deltas \in [{"spot"} -> Int]
           \/ deltas \in [WalletType -> Int],
           Write(deltas)
    PROVE  /\ HistoryTyped'
           /\ Len(log) <= Len(log')
           /\ \A t \in 1 .. Len(log) : log'[t] = log[t]
           /\ \A t \in Len(log) + 1 .. Len(log') : log'[t].time = clock
           /\ \A w \in DOMAIN deltas : \E p \in Len(log) + 1 .. Len(log') :
                  /\ Of(log', Len(log'), w) = Of(log, Len(log), w) \cup {p}
                  /\ log'[p].delta = deltas[w]
           /\ \A w \in WalletType \ DOMAIN deltas :
                  Of(log', Len(log'), w) = Of(log, Len(log), w)
<1> DEFINE n == Len(log)
<1>1. PICK rows : rows = Rows(deltas) /\ log' = log \o rows /\ n + Len(rows) <= MaxRows
  BY DEF Write
<1>2. log \in Seq(Entry) /\ clock \in Nat /\ n \in Nat /\ n <= MaxRows
  BY DEF HistoryTyped, Log, Time
<1>3. wallet' \in [WalletType -> Nat]
  BY DEF Write, After, HistoryTyped, WalletType
<1>4. CASE deltas \in [{"spot"} -> Int]
  <2>1. rows = <<[type |-> "spot", delta |-> deltas["spot"], time |-> clock]>>
    BY <1>1, <1>4 DEF Rows, Row
  <2>2. rows \in Seq(Entry) /\ Len(rows) = 1
    BY <1>2, <1>4, <2>1 DEF Entry, WalletType
  <2>3. /\ log' \in Seq(Entry) /\ Len(log') = n + 1
        /\ \A t \in 1 .. n : log'[t] = log[t]
        /\ log'[n + 1] = rows[1]
    <3>1. /\ log \o rows \in Seq(Entry) /\ Len(log \o rows) = n + Len(rows)
          /\ \A i \in 1 .. n + Len(rows) :
                 (log \o rows)[i] = IF i <= n THEN log[i] ELSE rows[i - n]
      BY <1>2, <2>2, ConcatProperties
    <3> QED BY <1>1, <1>2, <2>2, <3>1
  <2>4. HistoryTyped'
    BY <1>1, <1>2, <1>3, <2>2, <2>3 DEF HistoryTyped, Log, Write, Time
  <2>5. log'[n + 1].type = "spot" /\ log'[n + 1].delta = deltas["spot"] /\ log'[n + 1].time = clock
    BY <2>1, <2>3
  <2>6. /\ Of(log', n + 1, "spot") = Of(log, n, "spot") \cup {n + 1}
        /\ Of(log', n + 1, "funding") = Of(log, n, "funding")
    BY <1>2, <2>3, <2>5 DEF Of
  <2> QED BY <1>2, <1>4, <2>3, <2>4, <2>5, <2>6 DEF WalletType
<1>5. CASE deltas \in [WalletType -> Int]
  <2>1. rows = <<[type |-> "spot", delta |-> deltas["spot"], time |-> clock],
                 [type |-> "funding", delta |-> deltas["funding"], time |-> clock]>>
    BY <1>1, <1>5 DEF Rows, Row, WalletType
  <2>2. rows \in Seq(Entry) /\ Len(rows) = 2
    BY <1>2, <1>5, <2>1 DEF Entry, WalletType
  <2>3. /\ log' \in Seq(Entry) /\ Len(log') = n + 2
        /\ \A t \in 1 .. n : log'[t] = log[t]
        /\ log'[n + 1] = rows[1] /\ log'[n + 2] = rows[2]
    <3>1. /\ log \o rows \in Seq(Entry) /\ Len(log \o rows) = n + Len(rows)
          /\ \A i \in 1 .. n + Len(rows) :
                 (log \o rows)[i] = IF i <= n THEN log[i] ELSE rows[i - n]
      BY <1>2, <2>2, ConcatProperties
    <3> QED BY <1>1, <1>2, <2>2, <3>1
  <2>4. HistoryTyped'
    BY <1>1, <1>2, <1>3, <2>2, <2>3 DEF HistoryTyped, Log, Write, Time
  <2>5. /\ log'[n + 1].type = "spot" /\ log'[n + 1].delta = deltas["spot"]
        /\ log'[n + 1].time = clock /\ log'[n + 2].time = clock
        /\ log'[n + 2].type = "funding" /\ log'[n + 2].delta = deltas["funding"]
    BY <2>1, <2>3
  <2>6. /\ Of(log', n + 2, "spot") = Of(log, n, "spot") \cup {n + 1}
        /\ Of(log', n + 2, "funding") = Of(log, n, "funding") \cup {n + 2}
    BY <1>2, <2>3, <2>5 DEF Of
  <2> QED BY <1>2, <1>5, <2>3, <2>4, <2>5, <2>6 DEF WalletType
<1> QED BY <1>4, <1>5

\* What was read of the log stays what it was read as.
LEMMA ReadKept ==
    ASSUME NEW n \in 0 .. Len(log), ReadUpTo(n), Log(log), read' = read, torn => torn',
           \A t \in 1 .. Len(log) : log'[t] = log[t]
    PROVE  ReadUpTo(n)'
<1>1. PICK k \in 0 .. n : read = Total(log, Of(log, k, "spot")) /\ (torn \/ k = n)
  BY DEF ReadUpTo
<1>2. Of(log', k, "spot") = Of(log, k, "spot") /\ Of(log, k, "spot") \subseteq 1 .. Len(log)
  BY DEF Of, Log
<1>3. Total(log', Of(log', k, "spot")) = Total(log, Of(log, k, "spot"))
  BY <1>2, TotalKept
<1> QED BY <1>1, <1>3 DEF ReadUpTo

LEMMA WriteInv ==
    ASSUME HistoryInv, NEW deltas,
           \/ deltas \in [{"spot"} -> Int]
           \/ deltas \in [WalletType -> Int],
           Write(deltas)
    PROVE  HistoryInv'
<1>0. PICK n \in Nat : n = Len(log)
  BY LogRow DEF HistoryInv, HistoryTyped
<1>1. HistoryTyped /\ HistoryTyped' /\ Log(log) /\ Log(log') /\ Len(log') \in Nat
  BY WriteRows, LogRow DEF HistoryInv, HistoryTyped
<1>2. /\ n <= Len(log')
      /\ \A t \in 1 .. n : log'[t] = log[t]
      /\ \A t \in n + 1 .. Len(log') : log'[t].time = clock
  BY <1>0, <1>1, WriteRows
<1>3. /\ clock' = clock /\ reader' = reader /\ read' = read /\ seen' = seen /\ now' = now
      /\ torn' = (torn \/ reader = "transactions") /\ clock \in Nat /\ now <= clock /\ now \in Nat
  BY <1>1 DEF Write, HistoryTyped, Time
<1>4. \A t \in 1 .. Len(log') : log'[t].time <= clock'
  BY <1>0, <1>1, <1>2, <1>3 DEF HistoryInv
<1>5. ASSUME NEW w \in WalletType PROVE wallet'[w] = Total(log', Of(log', Len(log'), w))
  <2>1. Of(log, n, w) \in SUBSET (1 .. n) /\ Of(log, n, w) \in SUBSET (1 .. Len(log'))
    BY <1>0, <1>1, <1>2 DEF Of
  <2>2. Total(log', Of(log, n, w)) = wallet[w] /\ wallet[w] \in Int
    BY <1>0, <1>1, <1>2, <2>1, TotalKept DEF HistoryInv, HistoryTyped
  <2>3. wallet'[w] = wallet[w] + (IF w \in DOMAIN deltas THEN deltas[w] ELSE 0)
    BY DEF Write, After
  <2>4. CASE w \in DOMAIN deltas
    <3>1. PICK p \in n + 1 .. Len(log') :
              /\ Of(log', Len(log'), w) = Of(log, n, w) \cup {p}
              /\ log'[p].delta = deltas[w]
      BY <1>0, <1>1, <2>4, WriteRows
    <3>2. p \in 1 .. Len(log') /\ Of(log, n, w) \cap {p} = {}
      BY <1>0, <1>1, <2>1
    <3>3. Total(log', Of(log, n, w) \cup {p}) = Total(log', Of(log, n, w)) + Total(log', {p})
      BY <1>0, <1>1, <2>1, <3>2, TotalUnion
    <3>4. Total(log', {p}) = deltas[w]
      BY <1>0, <1>1, <3>1, <3>2, TotalOne
    <3> QED BY <2>2, <2>3, <2>4, <3>1, <3>3, <3>4
  <2>5. CASE w \notin DOMAIN deltas
    BY <1>0, <1>1, <2>2, <2>3, <2>5, WriteRows
  <2> QED BY <2>4, <2>5
<1>6. ASSUME reader = "transactions" PROVE ReadUpTo(Len(log))'
  <2>1. ReadUpTo(n)'
    <3>1. n \in 0 .. Len(log) /\ ReadUpTo(n)
      BY <1>0, <1>1, <1>6 DEF HistoryInv
    <3> QED BY <1>0, <1>1, <1>2, <1>3, <3>1, ReadKept
  <2>2. torn'
    BY <1>3, <1>6, Zenon
  <2>3. PICK k \in 0 .. n : read' = Total(log', Of(log', k, "spot"))
    BY <2>1 DEF ReadUpTo
  <2>4. k \in 0 .. Len(log')
    BY <1>1, <1>2
  <2> QED BY <2>2, <2>3, <2>4 DEF ReadUpTo
<1>7. ASSUME reader = "done"
      PROVE  \E m \in 0 .. Len(log') :
                 /\ seen' = 1 .. m
                 /\ ReadUpTo(m)'
                 /\ \A t \in m + 1 .. Len(log') : log'[t].time >= now'
  <2>1. PICK m \in 0 .. n :
            /\ seen = 1 .. m
            /\ ReadUpTo(m)
            /\ \A t \in m + 1 .. n : log[t].time >= now
    BY <1>0, <1>7 DEF HistoryInv
  <2>2. ReadUpTo(m)'
    BY <1>0, <1>1, <1>2, <1>3, <2>1, ReadKept
  <2>3. ASSUME NEW t \in m + 1 .. Len(log') PROVE log'[t].time >= now
    <3>1. CASE t <= n
      BY <1>0, <1>1, <1>2, <2>1, <3>1
    <3>2. CASE t > n
      BY <1>0, <1>1, <1>2, <1>3, <3>2
    <3> QED BY <1>0, <1>1, <3>1, <3>2
  <2>4. m \in 0 .. Len(log')
    BY <1>0, <1>1, <1>2
  <2> QED BY <1>3, <2>1, <2>2, <2>3, <2>4
<1> QED BY <1>0, <1>1, <1>3, <1>4, <1>5, <1>6, <1>7 DEF HistoryInv

LEMMA HistoryNextInv == HistoryInv /\ [Next]_vars => HistoryInv'
<1> SUFFICES ASSUME HistoryInv, [Next]_vars PROVE HistoryInv'
  OBVIOUS
<1> USE BoundsAssumption
<1>1. CASE UNCHANGED vars
  BY <1>1 DEF vars, HistoryInv, HistoryTyped, ReadUpTo
<1>2. CASE Tick
  <2>1. /\ clock' = clock + 1 /\ clock' \in Time /\ clock \in Nat
        /\ \A t \in 1 .. Len(log) : log[t].time \in Nat
    BY <1>2, LogRow DEF Tick, HistoryInv, HistoryTyped, Time
  <2> QED BY <1>2, <2>1 DEF Tick, HistoryInv, HistoryTyped, ReadUpTo, Time
<1>3. ASSUME NEW amt \in Amount, SpotChange(amt) PROVE HistoryInv'
  <2>1. PICK sign \in {1, -1} : Write([w \in {"spot"} |-> sign * amt])
    BY <1>3 DEF SpotChange
  <2>2. [w \in {"spot"} |-> sign * amt] \in [{"spot"} -> Int]
    OBVIOUS
  <2> QED BY <2>1, <2>2, WriteInv
<1>4. ASSUME NEW amt \in Amount, Transfer(amt) PROVE HistoryInv'
  <2>1. PICK from \in WalletType : Write([w \in WalletType |-> IF w = from THEN -amt ELSE amt])
    BY <1>4 DEF Transfer
  <2>2. [w \in WalletType |-> IF w = from THEN -amt ELSE amt] \in [WalletType -> Int]
    OBVIOUS
  <2> QED BY <2>1, <2>2, WriteInv
<1>5. CASE ReadWallets
  <2>1. /\ read' = Total(log, Of(log, Len(log), "spot")) /\ read' \in Int
        /\ Len(log) \in Nat /\ log' = log /\ reader' = "transactions"
    BY <1>5 DEF ReadWallets, HistoryInv, HistoryTyped, WalletType, Log
  <2>2. ReadUpTo(Len(log))'
    BY <2>1 DEF ReadUpTo
  <2> QED BY <1>5, <2>1, <2>2 DEF ReadWallets, HistoryInv, HistoryTyped
<1>6. CASE ReadTransactions
  <2>1. /\ ReadUpTo(Len(log)) /\ Len(log) \in Nat /\ log' = log /\ seen' = 1 .. Len(log)
        /\ clock \in Nat /\ reader' = "done"
    BY <1>6 DEF ReadTransactions, HistoryInv, HistoryTyped, Log, Time
  <2>2. ReadUpTo(Len(log))'
    BY <1>6, <2>1 DEF ReadTransactions, ReadUpTo
  <2> QED BY <1>6, <2>1, <2>2 DEF ReadTransactions, HistoryInv, HistoryTyped
<1> QED BY <1>1, <1>2, <1>3, <1>4, <1>5, <1>6 DEF Next

THEOREM HistoryInvariance == Spec => []HistoryInv
BY HistoryInitInv, HistoryNextInv, PTL DEF Spec

\* A report no commit came in between follows the user's funds in both types of
\* wallets, whatever was moved between them, before and after.
THEOREM FollowsTotal == Spec => []HistoryFollowsTotal
<1>1. ASSUME HistoryInv PROVE HistoryFollowsTotal
  <2> SUFFICES ASSUME Whole, NEW ts \in 0 .. now - 1
               PROVE  Answer[ts] + Delta({t \in seen : log[t].type = "funding"})
                          = BalanceAt(WalletType, ts)
    BY DEF HistoryFollowsTotal
  <2>1. PICK n \in 0 .. Len(log) :
            /\ seen = 1 .. n
            /\ ReadUpTo(n)
            /\ \A t \in n + 1 .. Len(log) : log[t].time >= now
    BY <1>1 DEF HistoryInv, Whole
  <2>2. /\ Log(log) /\ Len(log) \in Nat /\ now \in Nat /\ ts \in Time
        /\ \A t \in 1 .. Len(log) : log[t].time \in Nat /\ log[t].type \in WalletType
    BY <1>1, LogRow, BoundsAssumption DEF HistoryInv, HistoryTyped, Time
  <2>3. read = Total(log, Of(log, n, "spot"))
    BY <2>1 DEF ReadUpTo, Whole
  <2> DEFINE later == Since(1 .. n, ts)
             before == 1 .. n \ Since(1 .. n, ts)
  <2>4. /\ Of(log, n, "spot") \in SUBSET (1 .. Len(log))
        /\ Of(log, n, "funding") \in SUBSET (1 .. Len(log))
        /\ later \in SUBSET (1 .. Len(log)) /\ before \in SUBSET (1 .. Len(log))
        /\ Of(log, n, "spot") \cap Of(log, n, "funding") = {} /\ later \cap before = {}
        /\ Of(log, n, "spot") \cup Of(log, n, "funding") = 1 .. n
        /\ later \cup before = 1 .. n
    BY <2>2 DEF Of, Since, WalletType
  <2>5. {t \in DOMAIN log : log[t].type \in WalletType} \ Since(DOMAIN log, ts) = before
    <3>1. DOMAIN log = 1 .. Len(log)
      BY <2>2, LogRow
    <3> QED BY <2>1, <2>2, <3>1 DEF Since
  <2>6. {t \in seen : log[t].type = "funding"} = Of(log, n, "funding")
    BY <2>1 DEF Of
  <2>7. /\ Total(log, 1 .. n) = Total(log, Of(log, n, "spot")) + Total(log, Of(log, n, "funding"))
        /\ Total(log, 1 .. n) = Total(log, later) + Total(log, before)
    <3> HIDE DEF later, before
    <3>1. \A S, T \in SUBSET (1 .. Len(log)) :
              S \cap T = {} => Total(log, S \cup T) = Total(log, S) + Total(log, T)
      BY <2>2, TotalUnion
    <3> QED BY <2>4, <3>1
  <2>8. /\ Total(log, Of(log, n, "spot")) \in Int /\ Total(log, Of(log, n, "funding")) \in Int
        /\ Total(log, later) \in Int /\ Total(log, before) \in Int
    BY <2>2, <2>4, TotalType
  <2>9. /\ Answer[ts] = read - Total(log, later)
        /\ Delta({t \in seen : log[t].type = "funding"}) = Total(log, Of(log, n, "funding"))
        /\ BalanceAt(WalletType, ts) = Total(log, before)
    BY <2>1, <2>2, <2>5, <2>6, DeltaTotal DEF Answer, Unwrap, BalanceAt
  <2> HIDE DEF later, before
  <2> QED BY <2>3, <2>7, <2>8, <2>9
<1> QED BY <1>1, HistoryInvariance, PTL

\* A report a commit came in between is wrong by the rows of that commit.
THEOREM TornByLateRows == Spec => []TornByOneRead
<1>1. ASSUME HistoryInv PROVE TornByOneRead
  <2> SUFFICES ASSUME reader = "done"
               PROVE  \E late \in SUBSET seen :
                          /\ torn \/ late = {}
                          /\ \A t \in late, u \in seen \ late : u < t
                          /\ read + Delta({t \in late : log[t].type = "spot"}) =
                                 Delta({t \in seen : log[t].type = "spot"})
    BY DEF TornByOneRead
  <2>1. PICK n \in 0 .. Len(log) : seen = 1 .. n /\ ReadUpTo(n)
    BY <1>1 DEF HistoryInv
  <2>2. PICK k \in 0 .. n : read = Total(log, Of(log, k, "spot")) /\ (torn \/ k = n)
    BY <2>1 DEF ReadUpTo
  <2>3. Log(log) /\ Len(log) \in Nat
    BY <1>1 DEF HistoryInv, HistoryTyped, Log
  <2> DEFINE unread == {t \in k + 1 .. n : log[t].type = "spot"}
  <2>4. /\ Of(log, k, "spot") \in SUBSET (1 .. Len(log)) /\ unread \in SUBSET (1 .. Len(log))
        /\ Of(log, k, "spot") \cap unread = {}
        /\ Of(log, k, "spot") \cup unread = {t \in seen : log[t].type = "spot"}
    BY <2>1, <2>3 DEF Of
  <2>5. read + Delta(unread) = Delta({t \in seen : log[t].type = "spot"})
    BY <2>2, <2>3, <2>4, TotalUnion, DeltaTotal
  <2>6. /\ k + 1 .. n \in SUBSET seen
        /\ torn \/ k + 1 .. n = {}
        /\ \A t \in k + 1 .. n, u \in seen \ (k + 1 .. n) : u < t
    BY <2>1, <2>2, <2>3
  <2> QED BY <2>5, <2>6
<1> QED BY <1>1, HistoryInvariance, PTL

(***************************************************************************)
(* Reports, the lists.  Rows that leave move the rest up by one place, so  *)
(* that with each of them at most one row moves from the pages to come to  *)
(* those that were shown.  Behind is what was missed so; and since places  *)
(* have no gaps, nothing comes after a page that is not full.              *)
(***************************************************************************)
PlaceIn(F, i) == Cardinality({j \in F : j >= i})

Behind == {i \in pages.stayed \ pages.shown : PlaceIn(fitting, i) <= pages.next * PageSize}

TableTyped ==
    /\ made \in 0 .. MaxMade
    /\ pending \subseteq 1 .. made
    /\ live \subseteq 1 .. made
    /\ fitting \subseteq live

Listing == [next : Nat, last : BOOLEAN, shown : SUBSET Nat,
            stayed : SUBSET (1 .. MaxMade), left : Nat]

ListInv ==
    /\ TableTyped
    /\ pages \in Listing
    /\ pages.last => Cardinality(pages.stayed \ pages.shown) <= pages.left
    /\ ~pages.last =>
           /\ pages.stayed \subseteq fitting
           /\ Cardinality(Behind) <= pages.left

-----------------------------------------------------------------------------
LEMMA RowsFinite ==
    ASSUME NEW F \in SUBSET (1 .. MaxMade)
    PROVE  /\ IsFiniteSet(F)
           /\ Cardinality(F) \in 0 .. MaxMade
           /\ \A G \in SUBSET F : /\ IsFiniteSet(G)
                                  /\ Cardinality(G) \in Nat
                                  /\ Cardinality(G) <= Cardinality(F)
<1>1. IsFiniteSet(1 .. MaxMade) /\ Cardinality(1 .. MaxMade) = MaxMade
  BY ReportsAssumption, FS_Interval
<1>2. IsFiniteSet(F) /\ Cardinality(F) <= MaxMade /\ Cardinality(F) \in Nat
  BY <1>1, FS_Subset, FS_CardinalityType
<1>3. ASSUME NEW G \in SUBSET F
      PROVE  IsFiniteSet(G) /\ Cardinality(G) \in Nat /\ Cardinality(G) <= Cardinality(F)
  BY <1>2, FS_Subset, FS_CardinalityType
<1> QED BY <1>2, <1>3, ReportsAssumption

LEMMA Places ==
    ASSUME NEW F \in SUBSET (1 .. MaxMade), NEW i \in Nat
    PROVE  /\ PlaceIn(F, i) \in 0 .. Cardinality(F)
           /\ i \in F => PlaceIn(F, i) >= 1
           /\ \A j \in F : i < j /\ i \in F => PlaceIn(F, j) < PlaceIn(F, i)
           /\ \A G \in SUBSET (1 .. MaxMade) : F \subseteq G => PlaceIn(F, i) <= PlaceIn(G, i)
           /\ \A k : PlaceIn(F \ {k}, i) >= PlaceIn(F, i) - 1
<1> DEFINE Up(G, n) == {j \in G : j >= n}
<1>1. Up(F, i) \in SUBSET F /\ PlaceIn(F, i) = Cardinality(Up(F, i))
  BY DEF PlaceIn
<1>2. IsFiniteSet(Up(F, i)) /\ PlaceIn(F, i) \in Nat /\ PlaceIn(F, i) <= Cardinality(F)
      /\ Cardinality(F) \in Nat
  BY <1>1, RowsFinite
<1>3. i \in F => PlaceIn(F, i) >= 1
  <2> SUFFICES ASSUME i \in F PROVE PlaceIn(F, i) >= 1
    OBVIOUS
  <2>1. i \in Up(F, i)
    OBVIOUS
  <2>2. PlaceIn(F, i) # 0
    BY <1>1, <1>2, <2>1, FS_EmptySet
  <2> QED BY <1>2, <2>2
<1>4. ASSUME NEW j \in F, i < j, i \in F PROVE PlaceIn(F, j) < PlaceIn(F, i)
  <2>1. Up(F, j) \in SUBSET Up(F, i) /\ i \in Up(F, i) /\ i \notin Up(F, j)
    <3>1. i \in Int /\ \A k \in F : k \in Int
      BY ReportsAssumption
    <3>2. \A k \in F : k >= j => k >= i
      BY <1>4, <3>1
    <3>3. i >= i /\ ~(i >= j)
      BY <1>4, <3>1
    <3> QED BY <1>4, <3>2, <3>3, Zenon
  <2>2. /\ Cardinality(Up(F, j)) <= Cardinality(Up(F, i))
        /\ Cardinality(Up(F, j)) # Cardinality(Up(F, i))
    BY <1>2, <2>1, FS_Subset
  <2>3. PlaceIn(F, j) = Cardinality(Up(F, j)) /\ PlaceIn(F, j) \in Nat
    <3>1. Up(F, j) \in SUBSET F
      OBVIOUS
    <3> QED BY <3>1, RowsFinite DEF PlaceIn
  <2> QED BY <1>1, <1>2, <2>2, <2>3
<1>5. ASSUME NEW G \in SUBSET (1 .. MaxMade), F \subseteq G PROVE PlaceIn(F, i) <= PlaceIn(G, i)
  <2>1. Up(F, i) \in SUBSET Up(G, i) /\ Up(G, i) \in SUBSET G
    BY <1>5
  <2>2. IsFiniteSet(Up(G, i))
    BY <2>1, RowsFinite
  <2> QED BY <2>1, <2>2, FS_Subset DEF PlaceIn
<1>6. ASSUME NEW k PROVE PlaceIn(F \ {k}, i) >= PlaceIn(F, i) - 1
  <2>1. Up(F \ {k}, i) = Up(F, i) \ {k}
    OBVIOUS
  <2>2. Cardinality(Up(F, i) \ {k}) >= Cardinality(Up(F, i)) - 1
    <3>1. Cardinality(Up(F, i) \ {k}) = IF k \in Up(F, i) THEN Cardinality(Up(F, i)) - 1
                                                           ELSE Cardinality(Up(F, i))
      BY <1>2, FS_RemoveElement
    <3> QED BY <1>1, <1>2, <3>1
  <2> QED BY <1>1, <2>1, <2>2 DEF PlaceIn
<1> QED BY <1>2, <1>3, <1>4, <1>5, <1>6

\* A place has one row at most,
LEMMA OnePlace ==
    ASSUME NEW F \in SUBSET (1 .. MaxMade), NEW i \in F, NEW j \in F,
           PlaceIn(F, i) = PlaceIn(F, j)
    PROVE  i = j
<1>1. \A k \in F : k \in Nat
  BY ReportsAssumption
<1>2. \A k \in F : /\ PlaceIn(F, k) \in Int
                  /\ \A m \in F : k < m => PlaceIn(F, m) < PlaceIn(F, k)
  BY <1>1, Places, RowsFinite
<1> QED BY <1>1, <1>2

\* and one at least, so that a page is full when there is a row after it.
LEMMA PageIsFull ==
    ASSUME NEW F \in SUBSET (1 .. MaxMade), NEW a \in Nat, NEW k \in F,
           PlaceIn(F, k) > a + PageSize
    PROVE  Cardinality({i \in F : PlaceIn(F, i) > a /\ PlaceIn(F, i) <= a + PageSize}) >= PageSize
<1> DEFINE N == Cardinality(F)
           place == [i \in F |-> PlaceIn(F, i)]
           P == {i \in F : PlaceIn(F, i) > a /\ PlaceIn(F, i) <= a + PageSize}
           paged == [i \in P |-> PlaceIn(F, i)]
<1>1. IsFiniteSet(F) /\ N \in Nat /\ F \subseteq Nat
  BY RowsFinite
<1>2. \A i \in F : PlaceIn(F, i) \in 1 .. N
  BY <1>1, Places
<1>3. place \in Injection(F, 1 .. N)
  BY <1>2, OnePlace DEF Injection, IsInjective
<1>4. IsFiniteSet(1 .. N) /\ Cardinality(1 .. N) = N
  BY <1>1, FS_Interval
<1>5. place \in Surjection(F, 1 .. N)
  BY <1>1, <1>3, <1>4, FS_Injection
<1>6. a + PageSize <= N /\ a + PageSize \in Nat
  BY <1>1, <1>2, ReportsAssumption
<1>7. paged \in Surjection(P, a + 1 .. a + PageSize)
  <2>1. \A i \in P : paged[i] \in a + 1 .. a + PageSize
    BY <1>2
  <2>2. ASSUME NEW p \in a + 1 .. a + PageSize PROVE \E i \in P : paged[i] = p
    <3>1. p \in 1 .. N
      BY <1>1, <1>6
    <3>2. PICK i \in F : place[i] = p
      BY <1>5, <3>1 DEF Surjection
    <3> QED BY <3>2
  <2> QED BY <2>1, <2>2 DEF Surjection
<1>8. IsFiniteSet(P)
  BY RowsFinite
<1>9. Cardinality(a + 1 .. a + PageSize) = PageSize
  BY <1>6, ReportsAssumption, FS_Interval
<1> HIDE DEF P, paged
<1>10. Cardinality(P) >= PageSize
  <2>1. Cardinality(a + 1 .. a + PageSize) <= Cardinality(P)
    BY <1>7, <1>8, FS_Surjection
  <2>2. Cardinality(P) \in Nat
    BY <1>8, FS_CardinalityType
  <2> QED BY <1>9, <2>1, <2>2, ReportsAssumption
<1> QED BY <1>10 DEF P

LEMMA PageRows ==
    ASSUME NEW n \in Nat
    PROVE  /\ n * PageSize \in Nat /\ (n + 1) * PageSize = n * PageSize + PageSize
           /\ Page(n) = {i \in fitting : PlaceIn(fitting, i) > n * PageSize
                                         /\ PlaceIn(fitting, i) <= n * PageSize + PageSize}
<1>1. n * PageSize \in Nat /\ (n + 1) * PageSize = n * PageSize + PageSize
  BY ReportsAssumption
<1> QED BY <1>1 DEF Page, Place, PlaceIn

LEMMA FittingRows ==
    ASSUME TableTyped
    PROVE  fitting \in SUBSET (1 .. MaxMade)
BY ReportsAssumption DEF TableTyped

LEMMA ListInitInv == ReportsInit => ListInv
<1> SUFFICES ASSUME ReportsInit PROVE ListInv
  OBVIOUS
<1>1. pages.stayed \ pages.shown = {} /\ pages.left = 0 /\ pages.last
  BY DEF ReportsInit
<1>2. TableTyped
  BY ReportsAssumption DEF ReportsInit, TableTyped
<1>3. pages \in Listing
  BY DEF ReportsInit, Listing
<1> QED BY <1>1, <1>2, <1>3, FS_EmptySet DEF ListInv

LEMMA TableTypeInv ==
    ASSUME TableTyped, [ReportsNext]_reportVars
    PROVE  TableTyped' /\ live \subseteq live'
<1> USE ReportsAssumption DEF TableTyped
<1>1. CASE UNCHANGED reportVars
  BY <1>1 DEF reportVars
<1>2. CASE Flush
  BY <1>2 DEF Flush
<1>3. ASSUME NEW i \in pending, CommitRow(i) PROVE TableTyped' /\ live \subseteq live'
  BY <1>3 DEF CommitRow
<1>4. ASSUME NEW i \in pending, RollBackRow(i) PROVE TableTyped' /\ live \subseteq live'
  BY <1>4 DEF RollBackRow
<1>5. ASSUME NEW i \in live, StopFitting(i) PROVE TableTyped' /\ live \subseteq live'
  BY <1>5 DEF StopFitting
<1>6. ASSUME NEW i \in live, StartFitting(i) PROVE TableTyped' /\ live \subseteq live'
  BY <1>6 DEF StartFitting
<1>7. CASE ListStep \/ StatsStep
  BY <1>7 DEF ListStep, FirstPage, NextPage, StatsStep, BeginStats, RunStatement, table
<1> QED BY <1>1, <1>2, <1>3, <1>4, <1>5, <1>6, <1>7 DEF ReportsNext, TableStep

\* Rows that begin to fit move others away from what was shown, not into it.
LEMMA MoreFit ==
    ASSUME ListInv, TableTyped', pages' = pages, fitting \subseteq fitting'
    PROVE  ListInv'
<1>1. ASSUME ~pages.last PROVE Cardinality(Behind') <= pages.left
  <2>1. fitting \in SUBSET (1 .. MaxMade) /\ fitting' \in SUBSET (1 .. MaxMade)
        /\ pages.stayed \in SUBSET (1 .. MaxMade) /\ pages.next \in Nat /\ pages.left \in Nat
    <3>1. fitting' \in SUBSET (1 .. MaxMade)
      BY ReportsAssumption DEF TableTyped
    <3> QED BY <3>1, FittingRows DEF ListInv, Listing
  <2>2. pages.next * PageSize \in Nat
    BY <2>1, PageRows
  <2>3. \A i \in pages.stayed : PlaceIn(fitting, i) <= PlaceIn(fitting', i)
                                /\ PlaceIn(fitting, i) \in Int /\ PlaceIn(fitting', i) \in Int
    <3>1. ASSUME NEW i \in pages.stayed
          PROVE  PlaceIn(fitting, i) <= PlaceIn(fitting', i)
                 /\ PlaceIn(fitting, i) \in Int /\ PlaceIn(fitting', i) \in Int
      <4>1. i \in Nat
        BY <2>1, ReportsAssumption
      <4>2. Cardinality(fitting) \in Nat /\ Cardinality(fitting') \in Nat
        BY <2>1, RowsFinite
      <4> QED BY <2>1, <4>1, <4>2, Places
    <3> QED BY <3>1
  <2>4. Behind' \in SUBSET Behind
    BY <2>2, <2>3 DEF Behind
  <2>5. Behind \in SUBSET (1 .. MaxMade)
    BY <2>1 DEF Behind
  <2>6. Cardinality(Behind') <= Cardinality(Behind) /\ Cardinality(Behind') \in Nat
        /\ Cardinality(Behind) \in Nat
    BY <2>4, <2>5, RowsFinite
  <2> QED BY <1>1, <2>1, <2>6 DEF ListInv
<1> QED BY <1>1 DEF ListInv

LEMMA FewerFit ==
    ASSUME ListInv, TableTyped', NEW k \in live, StopFitting(k)
    PROVE  ListInv'
<1>1. CASE pages.last
  BY <1>1 DEF StopFitting, ListInv
<1>2. CASE ~pages.last
  <2>1. /\ fitting \in SUBSET (1 .. MaxMade) /\ k \in fitting /\ fitting' = fitting \ {k}
        /\ pages.stayed \in SUBSET (1 .. MaxMade) /\ pages.next \in Nat /\ pages.left \in Nat
        /\ pages.stayed \subseteq fitting
    BY <1>2, FittingRows DEF ListInv, Listing, StopFitting
  <2>2. /\ pages'.next = pages.next /\ pages'.last = pages.last /\ pages'.shown = pages.shown
        /\ pages'.stayed = pages.stayed \ {k}
        /\ pages'.left = IF pages.left < MaxMade THEN pages.left + 1 ELSE pages.left
        /\ pages' \in Listing
    <3>1. pages \in Listing
      BY DEF ListInv
    <3>2. PICK left \in Nat : left = IF pages.left < MaxMade THEN pages.left + 1 ELSE pages.left
      BY <2>1
    <3>3. pages' = [pages EXCEPT !.stayed = pages.stayed \ {k}, !.left = left]
      BY <1>2, <3>2 DEF StopFitting
    <3> QED BY <2>1, <3>1, <3>2, <3>3 DEF Listing
  <2>3. PICK b \in Nat : b = pages.next * PageSize
    BY <2>1, PageRows
  <2> DEFINE FirstAfter == {i \in fitting : PlaceIn(fitting, i) = b + 1}
  <2>4. IsFiniteSet(FirstAfter) /\ Cardinality(FirstAfter) \in Nat /\ Cardinality(FirstAfter) <= 1
    <3>1. CASE FirstAfter = {}
      BY <3>1, FS_EmptySet
    <3>2. CASE FirstAfter # {}
      <4>1. PICK i : i \in FirstAfter
        BY <3>2
      <4>2. \A j \in FirstAfter : j = i
        BY <2>1, <4>1, OnePlace
      <4>3. FirstAfter = {i}
        <5> HIDE DEF FirstAfter
        <5> QED BY <4>1, <4>2
      <4>4. IsFiniteSet({i}) /\ Cardinality({i}) = 1
        BY FS_Singleton
      <4> HIDE DEF FirstAfter
      <4> QED BY <4>3, <4>4
    <3> QED BY <3>1, <3>2
  <2>5. Behind' \in SUBSET (Behind \cup FirstAfter)
    <3>1. ASSUME NEW i \in pages.stayed, PlaceIn(fitting \ {k}, i) <= b
          PROVE  PlaceIn(fitting, i) <= b \/ PlaceIn(fitting, i) = b + 1
      <4>1. i \in Nat /\ fitting \ {k} \in SUBSET (1 .. MaxMade)
        BY <2>1, ReportsAssumption
      <4>2. /\ PlaceIn(fitting \ {k}, i) >= PlaceIn(fitting, i) - 1
            /\ PlaceIn(fitting \ {k}, i) \in Int /\ PlaceIn(fitting, i) \in Int
        <5>1. PlaceIn(fitting, i) \in 0 .. Cardinality(fitting) /\ Cardinality(fitting) \in Nat
          BY <2>1, <4>1, Places, RowsFinite
        <5>2. /\ PlaceIn(fitting \ {k}, i) \in 0 .. Cardinality(fitting \ {k})
              /\ Cardinality(fitting \ {k}) \in Nat
          BY <4>1, Places, RowsFinite
        <5>3. PlaceIn(fitting \ {k}, i) >= PlaceIn(fitting, i) - 1
          BY <2>1, <4>1, Places
        <5> QED BY <5>1, <5>2, <5>3
      <4> QED BY <2>3, <3>1, <4>2
    <3> QED BY <2>1, <2>2, <2>3, <3>1 DEF Behind
  <2>6. IsFiniteSet(Behind) /\ Cardinality(Behind) \in Nat
        /\ Behind' \in SUBSET (1 .. MaxMade)
    BY <2>1, <2>2, RowsFinite DEF Behind
  <2>7. IsFiniteSet(Behind \cup FirstAfter)
        /\ Cardinality(Behind \cup FirstAfter) <= Cardinality(Behind) + Cardinality(FirstAfter)
    <3>1. IsFiniteSet(Behind \cap FirstAfter)
      BY <2>6, FS_Intersection
    <3>2. Cardinality(Behind \cap FirstAfter) \in Nat
      BY <3>1, FS_CardinalityType
    <3> QED BY <2>4, <2>6, <3>2, FS_Union
  <2>8. /\ Cardinality(Behind') <= Cardinality(Behind \cup FirstAfter)
        /\ Cardinality(Behind \cup FirstAfter) \in Nat
        /\ Cardinality(Behind') \in 0 .. MaxMade
    BY <2>5, <2>6, <2>7, FS_Subset, FS_CardinalityType, RowsFinite
  <2>9. Cardinality(Behind) <= pages.left
    BY <1>2 DEF ListInv
  <2>10. Cardinality(Behind') <= pages'.left
    BY <2>1, <2>2, <2>4, <2>6, <2>7, <2>8, <2>9, ReportsAssumption
  <2>11. pages'.stayed \subseteq fitting'
    BY <2>1, <2>2
  <2> QED BY <1>2, <2>2, <2>10, <2>11 DEF ListInv
<1> QED BY <1>1, <1>2

\* What is left when page n has been read, if that was the last.
LEMMA LastPage ==
    ASSUME TableTyped, NEW n \in Nat, Cardinality(Page(n)) < PageSize
    PROVE  \A i \in fitting : PlaceIn(fitting, i) <= n * PageSize + PageSize
<1> SUFFICES ASSUME NEW i \in fitting, ~(PlaceIn(fitting, i) <= n * PageSize + PageSize)
             PROVE  FALSE
  OBVIOUS
<1>1. fitting \in SUBSET (1 .. MaxMade) /\ i \in Nat
  BY FittingRows, ReportsAssumption
<1>2. PICK a \in Nat : a = n * PageSize
  BY PageRows
<1>3. PlaceIn(fitting, i) \in Int
  BY <1>1, Places, RowsFinite
<1>4. PlaceIn(fitting, i) > a + PageSize
  BY <1>2, <1>3, ReportsAssumption
<1>5. Cardinality({j \in fitting : PlaceIn(fitting, j) > a /\ PlaceIn(fitting, j) <= a + PageSize})
          >= PageSize
  BY <1>1, <1>4, PageIsFull
<1>6. Cardinality(Page(n)) >= PageSize
  BY <1>2, <1>5, PageRows
<1>7. Cardinality(Page(n)) \in Nat
  BY <1>1, RowsFinite DEF Page
<1> QED BY <1>6, <1>7, ReportsAssumption

LEMMA FirstPageInv ==
    ASSUME ListInv, FirstPage
    PROVE  ListInv'
<1>1. /\ TableTyped /\ TableTyped' /\ fitting' = fitting
      /\ fitting \in SUBSET (1 .. MaxMade)
  <2>1. UNCHANGED <<made, pending, live, fitting>>
    BY DEF FirstPage, table
  <2> QED BY <2>1, FittingRows DEF ListInv, TableTyped
<1>2. /\ pages' = [next |-> 1, last |-> Cardinality(Page(0)) < PageSize, shown |-> Page(0),
                   stayed |-> fitting, left |-> 0]
      /\ (Cardinality(Page(0)) < PageSize) \in BOOLEAN
      /\ Page(0) \in SUBSET Nat
  <2>1. Page(0) \in SUBSET fitting
    BY DEF Page
  <2>2. Page(0) \in SUBSET Nat
    <3>1. \A i \in fitting : i \in Nat
      BY <1>1, ReportsAssumption
    <3> QED BY <2>1, <3>1
  <2>3. (Cardinality(Page(0)) < PageSize) \in BOOLEAN
    OBVIOUS
  <2> QED BY <2>2, <2>3, Zenon DEF FirstPage
<1>3. Page(0) = {i \in fitting : PlaceIn(fitting, i) <= PageSize}
  <2>1. \A i \in fitting : PlaceIn(fitting, i) > 0
    <3>1. \A i \in fitting : i \in Nat
      BY <1>1
    <3>2. \A i \in fitting : PlaceIn(fitting, i) >= 1 /\ PlaceIn(fitting, i) \in Int
      BY <1>1, <3>1, Places, RowsFinite
    <3> QED BY <3>2
  <2>2. 0 * PageSize = 0 /\ 0 + PageSize = PageSize
    BY ReportsAssumption
  <2>3. Page(0) = {i \in fitting : PlaceIn(fitting, i) > 0 * PageSize
                                   /\ PlaceIn(fitting, i) <= 0 * PageSize + PageSize}
    BY PageRows
  <2> QED BY <2>1, <2>2, <2>3
<1>4. ASSUME pages'.last PROVE pages'.stayed \ pages'.shown = {}
  <2>1. \A i \in fitting : PlaceIn(fitting, i) <= 0 * PageSize + PageSize
    BY <1>1, <1>2, <1>4, LastPage
  <2>2. 0 * PageSize + PageSize = PageSize
    BY ReportsAssumption
  <2> QED BY <1>2, <1>3, <2>1, <2>2
<1>5. Behind' = {}
  <2>1. 1 * PageSize = PageSize
    BY ReportsAssumption
  <2> QED BY <1>1, <1>2, <1>3, <2>1 DEF Behind
<1>6. pages' \in Listing
  BY <1>1, <1>2 DEF Listing
<1>7. pages'.left = 0 /\ pages'.stayed = fitting
  BY <1>2
<1>8. /\ pages'.last => Cardinality(pages'.stayed \ pages'.shown) = pages'.left
      /\ Cardinality(Behind') = pages'.left
  BY <1>4, <1>5, <1>7, FS_EmptySet
<1> QED BY <1>1, <1>6, <1>7, <1>8 DEF ListInv

LEMMA NextPageInv ==
    ASSUME ListInv, NextPage
    PROVE  ListInv'
<1>1. /\ TableTyped /\ TableTyped' /\ fitting' = fitting
      /\ fitting \in SUBSET (1 .. MaxMade) /\ ~pages.last
      /\ pages.next \in Nat /\ pages.stayed \in SUBSET (1 .. MaxMade)
      /\ pages.shown \in SUBSET Nat /\ pages.left \in Nat
      /\ pages.stayed \subseteq fitting /\ Cardinality(Behind) <= pages.left
  <2>1. UNCHANGED <<made, pending, live, fitting>> /\ ~pages.last
    BY DEF NextPage, table
  <2>2. TableTyped /\ TableTyped'
    BY <2>1 DEF ListInv, TableTyped
  <2> QED BY <2>1, <2>2, FittingRows DEF ListInv, Listing
<1>2. PICK n, p : n \in Nat /\ n = pages.next /\ p = Page(n)
  BY <1>1
<1>3. /\ pages'.next = n + 1 /\ pages'.shown = pages.shown \cup p
      /\ pages'.stayed = pages.stayed /\ pages'.left = pages.left
      /\ pages'.last = (Cardinality(p) < PageSize)
      /\ p \in SUBSET Nat
      /\ pages' \in Listing
  <2>1. pages' = [pages EXCEPT !.next = n + 1, !.shown = pages.shown \cup p,
                               !.last = Cardinality(p) < PageSize]
    BY <1>2 DEF NextPage
  <2>2. p \in SUBSET Nat
    <3>1. p \in SUBSET fitting
      BY <1>2 DEF Page
    <3> QED BY <1>1, <3>1, ReportsAssumption
  <2>3. pages \in Listing
    BY DEF ListInv
  <2>4. PICK last \in BOOLEAN : last = (Cardinality(p) < PageSize)
    <3>1. (Cardinality(p) < PageSize) \in BOOLEAN
      OBVIOUS
    <3> QED BY <3>1, Zenon
  <2>5. pages' = [pages EXCEPT !.next = n + 1, !.shown = pages.shown \cup p, !.last = last]
    BY <2>1, <2>4
  <2>6. n + 1 \in Nat /\ pages.shown \cup p \in SUBSET Nat
    BY <1>1, <1>2, <2>2
  <2>7. pages' \in Listing
    BY <2>3, <2>5, <2>6 DEF Listing
  <2>8. /\ pages'.next = n + 1 /\ pages'.shown = pages.shown \cup p
        /\ pages'.stayed = pages.stayed /\ pages'.left = pages.left /\ pages'.last = last
    BY <2>3, <2>5 DEF Listing
  <2> QED BY <2>2, <2>4, <2>7, <2>8
<1>4. \A i \in fitting : PlaceIn(fitting, i) \in Int
  <2>1. \A i \in fitting : i \in Nat
    BY <1>1, ReportsAssumption
  <2> QED BY <1>1, <2>1, Places, RowsFinite
<1>5. PICK a \in Nat : /\ a = n * PageSize /\ (n + 1) * PageSize = a + PageSize
                       /\ p = {i \in fitting : PlaceIn(fitting, i) > a
                                               /\ PlaceIn(fitting, i) <= a + PageSize}
  BY <1>2, PageRows
<1>6. Behind = {i \in pages.stayed \ pages.shown : PlaceIn(fitting, i) <= a}
  BY <1>2, <1>5 DEF Behind
<1>7. Cardinality(Behind) \in Nat /\ \A B \in SUBSET Behind : Cardinality(B) \in Nat
                                                            /\ Cardinality(B) <= Cardinality(Behind)
  BY <1>1, RowsFinite DEF Behind
<1>8. ASSUME NEW i \in pages.stayed \ (pages.shown \cup p), PlaceIn(fitting, i) <= a + PageSize
      PROVE  i \in Behind
  BY <1>1, <1>4, <1>5, <1>6, <1>8
<1>9. ASSUME Cardinality(p) < PageSize
      PROVE  Cardinality(pages.stayed \ (pages.shown \cup p)) <= pages.left
  <2>1. \A i \in fitting : PlaceIn(fitting, i) <= a + PageSize
    BY <1>1, <1>2, <1>5, <1>9, LastPage
  <2>2. pages.stayed \ (pages.shown \cup p) \in SUBSET Behind
    BY <1>1, <1>8, <2>1
  <2>3. /\ Cardinality(pages.stayed \ (pages.shown \cup p)) <= Cardinality(Behind)
        /\ Cardinality(pages.stayed \ (pages.shown \cup p)) \in Nat
    BY <1>7, <2>2
  <2> QED BY <1>1, <1>7, <2>3
<1>10. Cardinality(Behind') <= pages.left
  <2>1. Behind' \in SUBSET Behind
    BY <1>1, <1>3, <1>5, <1>8 DEF Behind
  <2>2. Cardinality(Behind') <= Cardinality(Behind) /\ Cardinality(Behind') \in Nat
    BY <1>7, <2>1
  <2> QED BY <1>1, <1>7, <2>2
<1> QED BY <1>1, <1>3, <1>9, <1>10 DEF ListInv

LEMMA ListNextInv == ListInv /\ [ReportsNext]_reportVars => ListInv'
<1> SUFFICES ASSUME ListInv, [ReportsNext]_reportVars PROVE ListInv'
  OBVIOUS
<1>1. TableTyped'
  BY TableTypeInv DEF ListInv
<1>2. CASE pages' = pages /\ fitting \subseteq fitting'
  BY <1>1, <1>2, MoreFit
<1>3. ASSUME NEW i \in live, StopFitting(i) PROVE ListInv'
  BY <1>1, <1>3, FewerFit
<1>4. CASE ListStep
  BY <1>4, FirstPageInv, NextPageInv DEF ListStep
<1>5. CASE UNCHANGED reportVars
  BY <1>2, <1>5 DEF reportVars
<1>6. CASE StatsStep \/ Flush
  BY <1>2, <1>6 DEF StatsStep, BeginStats, RunStatement, Flush, table
<1>7. ASSUME NEW i \in pending, CommitRow(i) \/ RollBackRow(i) PROVE ListInv'
  BY <1>2, <1>7 DEF CommitRow, RollBackRow
<1>8. ASSUME NEW i \in live, StartFitting(i) PROVE ListInv'
  BY <1>2, <1>8 DEF StartFitting
<1> QED BY <1>3, <1>4, <1>5, <1>6, <1>7, <1>8 DEF ReportsNext, TableStep

\* Who reads a list to its end misses at most one row for each that left it, for
\* any size of its pages and any number of rows.
THEOREM FewAreMissed == ReportsSpec => []PagesMissFew
<1>1. ListInv => PagesMissFew
  BY DEF ListInv, PagesMissFew
<1> QED BY <1>1, ListInitInv, ListNextInv, PTL DEF ReportsSpec

(***************************************************************************)
(* Reports, the statistics.  What a statement has counted stays among the  *)
(* committed rows, and what it could not count yet is among the fresh ones *)
(* as long as the report is being made.                                    *)
(***************************************************************************)
InPeriod(bound) == {i \in live : i > bound}

StatsInv ==
    /\ TableTyped
    /\ stats.run \in 0 .. 6
    /\ stats.cutoff \in Nat /\ stats.today \in Nat /\ stats.cutoff <= stats.today
    /\ stats.run > 1 /\ StatsRun => live \subseteq stats.counted["all"] \cup stats.fresh
    /\ stats.run > 2 => stats.counted["active"] \subseteq stats.counted["all"] \cup stats.fresh
    /\ stats.run > 3 => stats.counted["today"] \subseteq InPeriod(stats.today)
    /\ stats.run > 4 => stats.counted["by_pair"] \subseteq InPeriod(stats.cutoff)
    /\ stats.run = 5 => InPeriod(stats.cutoff) \subseteq stats.counted["by_pair"] \cup stats.fresh
    /\ stats.run = 6 => StatsAgree

StatsTyped ==
    stats \in [run : 0 .. 6, cutoff : Nat, today : Nat, fresh : SUBSET Nat,
               counted : [Figure -> SUBSET Nat]]

-----------------------------------------------------------------------------
LEMMA Statement ==
    /\ Len(Statements) = 5
    /\ Statements[1] = "all" /\ Statements[2] = "active" /\ Statements[3] = "today"
    /\ Statements[4] = "by_pair" /\ Statements[5] = "timeline"
    /\ Figure = {"all", "active", "today", "by_pair", "timeline"}
<1>1. /\ Len(Statements) = 5 /\ DOMAIN Statements = 1 .. 5
      /\ Statements[1] = "all" /\ Statements[2] = "active" /\ Statements[3] = "today"
      /\ Statements[4] = "by_pair" /\ Statements[5] = "timeline"
  BY DEF Statements
<1>2. 1 .. 5 = {1, 2, 3, 4, 5}
  OBVIOUS
<1> QED BY <1>1, <1>2 DEF Figure

LEMMA StatsInitInv == ReportsInit => StatsTyped /\ StatsInv
<1> SUFFICES ASSUME ReportsInit PROVE StatsTyped /\ StatsInv
  OBVIOUS
<1>1. TableTyped
  BY ReportsAssumption DEF ReportsInit, TableTyped
<1>2. StatsTyped
  BY DEF ReportsInit, StatsTyped
<1> QED BY <1>1, <1>2 DEF ReportsInit, StatsInv

\* A row that is committed while a report is being made is fresh, and rows are
\* never taken back.
LEMMA StatsTable ==
    ASSUME StatsTyped, StatsInv, TableTyped', live \subseteq live',
           \/ stats' = stats /\ live' = live
           \/ \E i \in Nat :
                  /\ live' = live \cup {i}
                  /\ stats' = [stats EXCEPT !.fresh = IF StatsRun THEN @ \cup {i} ELSE @]
    PROVE  StatsTyped' /\ StatsInv'
<1>1. CASE stats' = stats /\ live' = live
  BY <1>1 DEF StatsTyped, StatsInv, StatsRun, InPeriod, StatsAgree
<1>2. ASSUME NEW i \in Nat,
             live' = live \cup {i},
             stats' = [stats EXCEPT !.fresh = IF StatsRun THEN @ \cup {i} ELSE @]
      PROVE  StatsTyped' /\ StatsInv'
  <2>1. StatsTyped'
    BY <1>2 DEF StatsTyped
  <2>2. /\ stats'.run = stats.run /\ stats'.cutoff = stats.cutoff /\ stats'.today = stats.today
        /\ stats'.counted = stats.counted /\ stats.fresh \subseteq stats'.fresh
        /\ StatsRun => i \in stats'.fresh
    BY <1>2 DEF StatsTyped
  <2>3. StatsRun' <=> StatsRun
    BY <2>2 DEF StatsRun
  <2>4. InPeriod(stats.today) \subseteq InPeriod(stats.today)'
        /\ InPeriod(stats.cutoff) \subseteq InPeriod(stats.cutoff)'
        /\ InPeriod(stats.cutoff)' \subseteq InPeriod(stats.cutoff) \cup {i}
    BY <1>2, <2>2 DEF InPeriod
  <2>5. stats.run = 5 => StatsRun
    BY Statement DEF StatsRun
  <2>6. Len(Statements) = 5 /\ (StatsAgree => StatsAgree')
    BY <2>2, Statement DEF StatsAgree
  <2>7. /\ stats.run > 1 /\ StatsRun => live' \subseteq stats.counted["all"] \cup stats'.fresh
        /\ stats.run > 2 => stats.counted["active"] \subseteq stats.counted["all"] \cup stats'.fresh
    BY <1>2, <2>2 DEF StatsInv
  <2>8. /\ stats.run > 3 => stats.counted["today"] \subseteq InPeriod(stats.today)'
        /\ stats.run > 4 => stats.counted["by_pair"] \subseteq InPeriod(stats.cutoff)'
    BY <2>4 DEF StatsInv
  <2>9. stats.run = 5 => InPeriod(stats.cutoff)' \subseteq stats.counted["by_pair"] \cup stats'.fresh
    BY <2>2, <2>4, <2>5 DEF StatsInv
  <2>10. /\ stats.run \in 0 .. 6 /\ stats.cutoff \in Nat /\ stats.today \in Nat
         /\ stats.cutoff <= stats.today /\ (stats.run = 6 => StatsAgree')
    BY <2>6 DEF StatsInv
  <2> QED BY <2>1, <2>2, <2>3, <2>7, <2>8, <2>9, <2>10 DEF StatsInv
<1> QED BY <1>1, <1>2

LEMMA StatsBegins ==
    ASSUME StatsTyped, StatsInv, NEW cutoff \in 0 .. made, NEW today \in 0 .. made,
           BeginStats(cutoff, today)
    PROVE  StatsTyped' /\ StatsInv'
<1>1. /\ TableTyped' /\ cutoff \in Nat /\ today \in Nat
      /\ stats' = [run |-> 1, cutoff |-> cutoff, today |-> today, fresh |-> {},
                   counted |-> [s \in Figure |-> {}]]
      /\ cutoff <= today
  BY DEF BeginStats, StatsInv, TableTyped, table
<1>2. StatsTyped'
  BY <1>1 DEF StatsTyped
<1> QED BY <1>1, <1>2 DEF StatsInv

LEMMA StatementRuns ==
    ASSUME StatsTyped, StatsInv, RunStatement
    PROVE  StatsTyped' /\ StatsInv'
<1>1. /\ TableTyped /\ TableTyped' /\ live' = live /\ fitting' = fitting
      /\ fitting \subseteq live /\ live \subseteq Nat
      /\ stats.run \in {1, 2, 3, 4, 5}
  BY Statement DEF RunStatement, StatsRun, StatsInv, TableTyped, table
<1>2. PICK s \in Figure :
          /\ s = Statements[stats.run]
          /\ stats' = [stats EXCEPT !.run = @ + 1, !.counted[s] = Period(s)]
  <2>1. Statements[stats.run] \in Figure
    BY <1>1, Statement
  <2>2. stats' = [stats EXCEPT !.run = @ + 1,
                               !.counted[Statements[stats.run]] = Period(Statements[stats.run])]
    BY DEF RunStatement
  <2> QED BY <2>1, <2>2, Zenon
<1>3. Period(s) \in SUBSET Nat
  BY <1>1 DEF Period
<1>4. StatsTyped'
  <2>1. PICK counted, run :
            counted = [stats.counted EXCEPT ![s] = Period(s)] /\ run = stats.run + 1
    OBVIOUS
  <2>2. stats' = [stats EXCEPT !.run = run, !.counted = counted]
    BY <1>2, <2>1
  <2>3. counted \in [Figure -> SUBSET Nat]
    BY <1>3, <2>1 DEF StatsTyped
  <2>4. run \in 0 .. 6
    BY <1>1, <2>1
  <2> QED BY <2>2, <2>3, <2>4 DEF StatsTyped
<1>5. /\ stats'.run = stats.run + 1 /\ stats'.cutoff = stats.cutoff /\ stats'.today = stats.today
      /\ stats'.fresh = stats.fresh /\ stats.run \in Nat
      /\ stats'.counted = [stats.counted EXCEPT ![s] = Period(s)]
      /\ stats.cutoff \in Nat /\ stats.today \in Nat /\ stats.cutoff <= stats.today
  BY <1>1, <1>2 DEF StatsTyped, StatsInv
<1>6. /\ stats'.counted[s] = Period(s)
      /\ \A f \in Figure \ {s} : stats'.counted[f] = stats.counted[f]
  BY <1>5 DEF StatsTyped
<1>7. \A bound \in Nat : InPeriod(bound)' = InPeriod(bound)
  BY <1>1 DEF InPeriod
<1>8. StatsRun /\ (StatsRun' <=> stats'.run <= 5)
  BY <1>1, <1>5, Statement DEF StatsRun
<1>9. Figure = {"all", "active", "today", "by_pair", "timeline"} /\ Len(Statements) = 5
  BY Statement
<1>10. CASE stats.run = 1
  <2>1. s = "all" /\ Period(s) = live
    BY <1>2, <1>10, Statement DEF Period
  <2> QED BY <1>1, <1>4, <1>5, <1>6, <1>8, <1>10, <2>1 DEF StatsInv
<1>11. CASE stats.run = 2
  <2>1. s = "active" /\ Period(s) = fitting
    BY <1>2, <1>11, Statement DEF Period
  <2>2. stats'.counted["all"] = stats.counted["all"]
    BY <1>6, <1>9, <2>1
  <2>3. live \subseteq stats.counted["all"] \cup stats.fresh
    BY <1>8, <1>11 DEF StatsInv
  <2>4. stats'.counted["active"] \subseteq stats.counted["all"] \cup stats.fresh
    BY <1>1, <1>6, <2>1, <2>3
  <2>5. stats'.run = 3
    BY <1>5, <1>11
  <2> QED BY <1>1, <1>4, <1>5, <2>2, <2>3, <2>4, <2>5 DEF StatsInv
<1>12. CASE stats.run = 3
  <2>1. s = "today" /\ Period(s) = InPeriod(stats.today)
    BY <1>2, <1>12, Statement DEF Period, InPeriod
  <2>2. stats'.counted["all"] = stats.counted["all"] /\ stats'.counted["active"] = stats.counted["active"]
    BY <1>6, <1>9, <2>1
  <2> QED BY <1>1, <1>4, <1>5, <1>6, <1>7, <1>8, <1>12, <2>1, <2>2 DEF StatsInv
<1>13. CASE stats.run = 4
  <2>1. s = "by_pair" /\ Period(s) = InPeriod(stats.cutoff)
    BY <1>2, <1>13, Statement DEF Period, InPeriod
  <2>2. stats'.counted["all"] = stats.counted["all"] /\ stats'.counted["active"] = stats.counted["active"]
        /\ stats'.counted["today"] = stats.counted["today"]
    BY <1>6, <1>9, <2>1
  <2> QED BY <1>1, <1>4, <1>5, <1>6, <1>7, <1>8, <1>13, <2>1, <2>2 DEF StatsInv
<1>14. CASE stats.run = 5
  <2>1. s = "timeline" /\ Period(s) = InPeriod(stats.cutoff)
    BY <1>2, <1>14, Statement DEF Period, InPeriod
  <2>2. stats'.counted["all"] = stats.counted["all"] /\ stats'.counted["active"] = stats.counted["active"]
        /\ stats'.counted["today"] = stats.counted["today"]
        /\ stats'.counted["by_pair"] = stats.counted["by_pair"]
    BY <1>6, <1>9, <2>1
  <2>3. InPeriod(stats.today) \subseteq {i \in InPeriod(stats.cutoff) : i > stats.today}
    <3>1. \A i \in live : i \in Nat
      BY <1>1
    <3>2. \A i \in live : i > stats.today => i > stats.cutoff
      BY <1>5, <3>1
    <3> QED BY <3>2 DEF InPeriod
  <2>4. /\ stats.counted["active"] \subseteq stats.counted["all"] \cup stats.fresh
        /\ stats.counted["today"] \subseteq InPeriod(stats.today)
        /\ stats.counted["by_pair"] \subseteq InPeriod(stats.cutoff)
        /\ InPeriod(stats.cutoff) \subseteq stats.counted["by_pair"] \cup stats.fresh
    BY <1>14 DEF StatsInv
  <2>5. StatsAgree'
    BY <1>5, <1>6, <2>1, <2>2, <2>3, <2>4 DEF StatsAgree
  <2> QED BY <1>1, <1>4, <1>5, <1>6, <1>7, <1>8, <1>14, <2>1, <2>2, <2>4, <2>5 DEF StatsInv
<1> QED BY <1>1, <1>10, <1>11, <1>12, <1>13, <1>14

LEMMA StatsNextInv == StatsTyped /\ StatsInv /\ [ReportsNext]_reportVars => (StatsTyped /\ StatsInv)'
<1> SUFFICES ASSUME StatsTyped, StatsInv, [ReportsNext]_reportVars PROVE StatsTyped' /\ StatsInv'
  OBVIOUS
<1>1. TableTyped' /\ live \subseteq live'
  BY TableTypeInv DEF StatsInv
<1>2. CASE stats' = stats /\ live' = live
  BY <1>1, <1>2, StatsTable
<1>3. CASE UNCHANGED reportVars
  BY <1>2, <1>3 DEF reportVars
<1>4. CASE ListStep \/ Flush
  BY <1>2, <1>4 DEF ListStep, FirstPage, NextPage, Flush, table
<1>5. ASSUME NEW i \in pending, CommitRow(i) PROVE StatsTyped' /\ StatsInv'
  <2>1. i \in Nat
    BY DEF StatsInv, TableTyped
  <2>2. /\ live' = live \cup {i}
        /\ stats' = [stats EXCEPT !.fresh = IF StatsRun THEN @ \cup {i} ELSE @]
    BY <1>5 DEF CommitRow
  <2> QED BY <1>1, <2>1, <2>2, StatsTable
<1>6. ASSUME NEW i \in pending, RollBackRow(i) PROVE StatsTyped' /\ StatsInv'
  BY <1>2, <1>6 DEF RollBackRow
<1>7. ASSUME NEW i \in live, StopFitting(i) \/ StartFitting(i) PROVE StatsTyped' /\ StatsInv'
  BY <1>2, <1>7 DEF StopFitting, StartFitting
<1>8. CASE StatsStep
  BY <1>8, StatsBegins, StatementRuns DEF StatsStep
<1> QED BY <1>3, <1>4, <1>5, <1>6, <1>7, <1>8 DEF ReportsNext, TableStep

\* The figures of one report differ by what was committed while it was made, and
\* each by what was committed between its statements.
THEOREM FiguresAgree == ReportsSpec => []StatsAgree
<1>1. StatsTyped /\ StatsInv => StatsAgree
  BY Statement DEF StatsTyped, StatsInv, StatsAgree
<1> QED BY <1>1, StatsInitInv, StatsNextInv, PTL DEF ReportsSpec
=============================================================================
