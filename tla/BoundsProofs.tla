---------------------------- MODULE BoundsProofs ----------------------------
(***************************************************************************)
(* How far off the system's figures can be: how far a hold drifts from     *)
(* what its order releases (HoldScale), for any scales, requests and       *)
(* numbers of orders; and how old a market datum is, or how long after the *)
(* hosts recover it can be a simulated one (MarketCache), for any lives of *)
(* the two caches, any patience with the hosts and with Redis, any number  *)
(* of pairs and any calls in progress; and how long a side of the          *)
(* simulated book gets and where its best level stands (MarketMaker), for  *)
(* any number of levels, any gaps and distances and any walk of the mid.   *)
(***************************************************************************)
EXTENDS HoldScale, MarketCache, MarketMaker, SumsProofs, FiniteSetTheorems

Multiple(n, unit) == \E k \in Int : n = unit * k

\* What rounding promises: a multiple of the unit, at most half of it away,
\* and the number itself if that is a multiple.
LEMMA NearestRounds ==
    ASSUME NEW n \in Int, NEW unit \in Nat \ {0}
    PROVE  /\ Nearest(n, unit) \in Int
           /\ Multiple(Nearest(n, unit), unit)
           /\ 2 * (Nearest(n, unit) - n) <= unit
           /\ 2 * (n - Nearest(n, unit)) <= unit
<1> DEFINE a == Abs(n)
           d == 2 * unit
           q == (2 * a + unit) \div d
<1>1. a \in Nat /\ a = IF n < 0 THEN -n ELSE n
  BY DEF Abs
<1>2. d \in Nat \ {0} /\ d = 2 * unit
  OBVIOUS
<1>3. q \in Int /\ d * q <= 2 * a + unit /\ 2 * a + unit < d * q + d
  <2> HIDE DEF a, d
  <2> QED BY <1>1, <1>2
<1>4. Nearest(n, unit) = IF n < 0 THEN -(unit * q) ELSE unit * q
  BY DEF Nearest
<1> HIDE DEF a, q
<1>5. d * q = 2 * (unit * q)
  BY <1>3
<1>6. unit * q \in Int /\ -(unit * q) = unit * (-q)
  BY <1>3
<1>7. 2 * (unit * q) <= 2 * a + unit /\ 2 * a < 2 * (unit * q) + unit
  BY <1>1, <1>2, <1>3, <1>5, <1>6
<1>8. Multiple(Nearest(n, unit), unit)
  <2>1. CASE n < 0
    <3>1. -q \in Int /\ Nearest(n, unit) = unit * (-q)
      BY <1>3, <1>4, <1>6, <2>1
    <3> QED BY <3>1 DEF Multiple
  <2>2. CASE ~(n < 0)
    <3>1. Nearest(n, unit) = unit * q
      BY <1>4, <2>2
    <3> QED BY <1>3, <3>1 DEF Multiple
  <2> QED BY <2>1, <2>2
<1> HIDE DEF d
<1> DEFINE x == unit * q
<1> HIDE DEF x
<1> QED BY <1>1, <1>4, <1>6, <1>7, <1>8 DEF x

LEMMA NearestKeeps ==
    ASSUME NEW n \in Int, NEW unit \in Nat \ {0}, Multiple(n, unit)
    PROVE  Nearest(n, unit) = n
<1>1. PICK k \in Int : n = unit * k
  BY DEF Multiple
<1>2. PICK j \in Int : Nearest(n, unit) = unit * j
  BY NearestRounds DEF Multiple
<1>3. 2 * (unit * j - unit * k) <= unit /\ 2 * (unit * k - unit * j) <= unit
  BY <1>1, <1>2, NearestRounds
<1>4. unit * j - unit * k = unit * (j - k) /\ unit * k - unit * j = unit * (k - j)
  BY SMT
<1>5. CASE j = k
  BY <1>1, <1>2, <1>5
<1>6. CASE j > k
  <2>1. unit * (j - k) >= unit
    BY <1>6, SMT
  <2> QED BY <1>3, <1>4, <2>1, SMT
<1>7. CASE j < k
  <2>1. unit * (k - j) >= unit
    BY <1>7, SMT
  <2> QED BY <1>3, <1>4, <2>1, SMT
<1> QED BY <1>5, <1>6, <1>7

LEMMA MultipleSum ==
    ASSUME NEW m \in Int, NEW n \in Int, NEW unit \in Nat \ {0},
           Multiple(m, unit), Multiple(n, unit)
    PROVE  Multiple(m + n, unit) /\ Multiple(m - n, unit)
<1>1. PICK j \in Int : m = unit * j
  BY DEF Multiple
<1>2. PICK k \in Int : n = unit * k
  BY DEF Multiple
<1>3. unit * (j + k) = unit * j + unit * k /\ unit * (j - k) = unit * j - unit * k
  BY SMT
<1>4. j + k \in Int /\ j - k \in Int /\ m + n = unit * (j + k) /\ m - n = unit * (j - k)
  BY <1>1, <1>2, <1>3
<1> QED BY <1>4, Zenon DEF Multiple

LEMMA NoRemainder ==
    ASSUME NEW n \in Int, NEW unit \in Nat \ {0}, n % unit = 0
    PROVE  Multiple(n, unit)
<1>1. n \div unit \in Int
  OBVIOUS
<1>2. n = unit * (n \div unit)
  BY SMT
<1> QED BY <1>1, <1>2, Zenon DEF Multiple

\* How far a product moves when its factors move by half of c at most.
LEMMA ProductRounds ==
    ASSUME NEW q \in Nat, NEW p \in Nat, NEW Q \in Nat, NEW P \in Nat, NEW c \in Nat,
           NEW r \in Int, NEW s \in Int, q <= Q, p <= P,
           2 * (r - q) <= c, 2 * (q - r) <= c, 2 * (s - p) <= c, 2 * (p - s) <= c
    PROVE  /\ r * s - q * p <= (c * (Q + P + c)) \div 2
           /\ q * p - r * s <= (c * (Q + P + c)) \div 2
<1> DEFINE x == r - q
           y == s - p
           m == c * (Q + P + c)
<1>1. x \in Int /\ y \in Int /\ r = q + x /\ s = p + y
  OBVIOUS
<1>2. 2 * x <= c /\ 2 * (-x) <= c /\ 2 * y <= c /\ 2 * (-y) <= c
  BY <1>1
<1> HIDE DEF x, y
<1>3. r * s - q * p = q * y + p * x + x * y
  BY <1>1, SMT
<1>4. 2 * (q * y) <= c * Q /\ 2 * (-(q * y)) <= c * Q
  <2>1. q * (2 * y) <= q * c /\ q * (2 * (-y)) <= q * c
    BY <1>1, <1>2, SMT
  <2>2. q * c <= Q * c
    BY SMT
  <2> QED BY <1>1, <2>1, <2>2, SMT
<1>5. 2 * (p * x) <= c * P /\ 2 * (-(p * x)) <= c * P
  <2>1. p * (2 * x) <= p * c /\ p * (2 * (-x)) <= p * c
    BY <1>1, <1>2, SMT
  <2>2. p * c <= P * c
    BY SMT
  <2> QED BY <1>1, <2>1, <2>2, SMT
<1>6. 2 * (x * y) <= c * c /\ 2 * (-(x * y)) <= c * c
  BY <1>1, <1>2, SMT
<1>7. m = c * Q + c * P + c * c /\ m \in Int
  BY SMT
<1>8. 2 * (r * s - q * p) <= m /\ 2 * (q * p - r * s) <= m
  BY <1>1, <1>3, <1>4, <1>5, <1>6, <1>7, SMT
<1>9. r * s - q * p \in Int /\ q * p - r * s \in Int
  OBVIOUS
<1> HIDE DEF m
<1> QED BY <1>7, <1>8, <1>9 DEF m

-----------------------------------------------------------------------------
OrderRow == [status : {"open", "filled", "cancelled"}, qty : Int, price : Int]

Table == [OrderId -> OrderRow \cup {Unused}]

\* Table new is table rows with one row written.
Written(new, rows, o, row) == new = [rows EXCEPT ![o] = row]

\* One row has been given another status.
Ended(new, rows, o, status) == new = [rows EXCEPT ![o].status = status]

Open(row) == row.status = "open"
Hold(row) == IF Open(row) THEN row.qty * row.price ELSE 0
OpenOf(rows) == {o \in OrderId : Open(rows[o])}
PlacedOf(rows) == {o \in OrderId : rows[o] # Unused}
HeldOf(rows) == Sum([o \in OrderId |-> Hold(rows[o])], MaxOrders)

\* f is how far the frozen amount is from the holds, d how far the columns are
\* from their sum, after so many orders placed, still open, and loose entries.
\* What an open order may still add, it has room for.
Drifted(f, d, placed, open, entries) ==
    /\ 2 * Abs(f) + WalletUnit * open <= 2 * (Slack * placed)
    /\ Abs(d) + WalletUnit * open <= WalletUnit * (2 * placed + entries)

Cells == [balance : Int, available : Int, frozen : Int]

Stored(row) ==
    /\ row \in Cells
    /\ Multiple(row.balance, WalletUnit)
    /\ Multiple(row.available, WalletUnit)
    /\ Multiple(row.frozen, WalletUnit)

Whole(row, rows) ==
    /\ \A o \in OpenOf(rows) : Multiple(Hold(rows[o]), WalletUnit)
    /\ row.frozen = HeldOf(rows)
    /\ row.balance = row.available + row.frozen

HoldInv ==
    /\ Stored(wallet)
    /\ order \in Table
    /\ exact \in BOOLEAN
    /\ loose \in Nat
    /\ Drifted(wallet.frozen - HeldOf(order),
               wallet.balance - wallet.available - wallet.frozen,
               Cardinality(PlacedOf(order)), Cardinality(OpenOf(order)), loose)
    /\ exact => Whole(wallet, order)

-----------------------------------------------------------------------------
LEMMA SlackNatural ==
    /\ WalletUnit \in Nat \ {0} /\ ColumnUnit \in Nat \ {0}
    /\ MaxQty \in Nat /\ MaxPrice \in Nat /\ MaxOrders \in Nat
    /\ Slack - WalletUnit = (ColumnUnit * (MaxQty + MaxPrice + ColumnUnit)) \div 2
    /\ Slack \in Nat
<1>1. /\ WalletUnit \in Nat \ {0} /\ ColumnUnit \in Nat \ {0}
      /\ MaxQty \in Nat /\ MaxPrice \in Nat /\ MaxOrders \in Nat
  BY ScaleAssumption
<1> DEFINE m == ColumnUnit * (MaxQty + MaxPrice + ColumnUnit)
<1>2. m \in Nat
  BY <1>1, SMT
<1> HIDE DEF m
<1>3. m \div 2 \in Nat
  BY <1>2
<1> QED BY <1>1, <1>3 DEF Slack, m

LEMMA RowCounts ==
    ASSUME NEW rows
    PROVE  /\ IsFiniteSet(OrderId)
           /\ IsFiniteSet(OpenOf(rows)) /\ Cardinality(OpenOf(rows)) \in Nat
           /\ IsFiniteSet(PlacedOf(rows)) /\ Cardinality(PlacedOf(rows)) \in Nat
<1>1. IsFiniteSet(OrderId)
  BY SlackNatural, FS_Interval DEF OrderId
<1>2. OpenOf(rows) \subseteq OrderId /\ PlacedOf(rows) \subseteq OrderId
  BY DEF OpenOf, PlacedOf
<1> QED BY <1>1, <1>2, FS_Subset, FS_CardinalityType

LEMMA HeldType ==
    ASSUME NEW rows \in Table
    PROVE  /\ HeldOf(rows) \in Int
           /\ \A o \in OrderId : Hold(rows[o]) \in Int
<1>1. ASSUME NEW o \in OrderId
      PROVE  Hold(rows[o]) \in Int
  <2>0. rows[o] \in OrderRow \cup {Unused}
    BY DEF Table
  <2>1. CASE rows[o] = Unused
    BY <2>1 DEF Unused, Hold, Open
  <2>2. CASE rows[o] \in OrderRow
    <3>1. rows[o].qty \in Int /\ rows[o].price \in Int
      BY <2>2 DEF OrderRow
    <3> QED BY <3>1 DEF Hold
  <2> QED BY <2>0, <2>1, <2>2
<1>2. [o \in OrderId |-> Hold(rows[o])] \in [1 .. MaxOrders -> Int]
  BY <1>1 DEF OrderId
<1> QED BY <1>1, <1>2, SumType, SlackNatural DEF HeldOf

\* Holds after one row has been written.
LEMMA HeldChange ==
    ASSUME NEW rows \in Table, NEW o \in OrderId,
           NEW row \in OrderRow \cup {Unused}
    PROVE  HeldOf([rows EXCEPT ![o] = row]) = HeldOf(rows) + Hold(row) - Hold(rows[o])
<1> DEFINE new == [rows EXCEPT ![o] = row]
           f == [i \in 1 .. MaxOrders |-> Hold(rows[i])]
           h == [i \in 1 .. MaxOrders |-> Hold(new[i])]
           g == [i \in 1 .. MaxOrders |-> IF i = o THEN Hold(row) - Hold(rows[o]) ELSE 0]
<1>1. new \in Table /\ new[o] = row
  BY DEF Table
<1>2. \A i \in OrderId : Hold(rows[i]) \in Int /\ Hold(new[i]) \in Int
  BY <1>1, HeldType
<1>3. Hold(row) \in Int /\ Hold(rows[o]) \in Int
  BY <1>1, <1>2
<1>4. f \in [1 .. MaxOrders -> Int] /\ h \in [1 .. MaxOrders -> Int]
  BY <1>2 DEF OrderId
<1>5. g \in [1 .. MaxOrders -> Int]
  BY <1>3
<1>6. ASSUME NEW i \in 1 .. MaxOrders
      PROVE  h[i] = f[i] + g[i]
  <2>1. CASE i = o
    BY <1>1, <1>3, <2>1
  <2>2. CASE i # o
    <3>1. new[i] = rows[i] /\ Hold(rows[i]) \in Int
      BY <1>2, <2>2 DEF OrderId, Table
    <3> QED BY <2>2, <3>1
  <2> QED BY <2>1, <2>2
<1>7. MaxOrders \in Nat /\ o \in 1 .. MaxOrders
  BY SlackNatural DEF OrderId
<1>8. Sum(g, MaxOrders) = Hold(row) - Hold(rows[o])
  <2>1. g[o] = Hold(row) - Hold(rows[o])
    BY <1>7
  <2>2. \A i \in 1 .. MaxOrders : i # o => g[i] = 0
    OBVIOUS
  <2> HIDE DEF g
  <2> QED BY <1>5, <1>7, <2>1, <2>2, SumPoint
<1>9. Sum(h, MaxOrders) = Sum(f, MaxOrders) + Sum(g, MaxOrders)
  <2> HIDE DEF f, g, h
  <2> QED BY <1>4, <1>5, <1>6, <1>7, SumAdd
<1>10. HeldOf(rows) = Sum(f, MaxOrders) /\ HeldOf(new) = Sum(h, MaxOrders)
  BY DEF HeldOf, OrderId
<1>11. Sum(f, MaxOrders) \in Int
  BY <1>4, <1>7, SumType
<1> HIDE DEF f, g, h, new
<1> QED BY <1>3, <1>8, <1>9, <1>10, <1>11 DEF new

\* A row is inserted.
LEMMA Inserting ==
    ASSUME NEW rows \in Table, NEW o \in OrderId,
           rows[o] = Unused, NEW row \in OrderRow,
           NEW new, Written(new, rows, o, row)
    PROVE  /\ new \in Table
           /\ HeldOf(new) = HeldOf(rows) + Hold(row)
           /\ Cardinality(PlacedOf(new)) = Cardinality(PlacedOf(rows)) + 1
           /\ Open(row) => /\ OpenOf(new) = OpenOf(rows) \cup {o}
                           /\ Cardinality(OpenOf(new)) = Cardinality(OpenOf(rows)) + 1
           /\ ~Open(row) => OpenOf(new) = OpenOf(rows)
           /\ new[o] = row
           /\ \A i \in OrderId : i # o => new[i] = rows[i]
<1>1. new \in Table /\ new[o] = row
  BY DEF Table, Written
<1>2. \A i \in OrderId : i # o => new[i] = rows[i]
  BY DEF Table, Written
<1>3. ~Open(rows[o]) /\ Hold(rows[o]) = 0 /\ row # Unused
  <2>1. row.status # "none"
    BY DEF OrderRow
  <2> QED BY <2>1 DEF Open, Hold, Unused
<1>4. HeldOf(new) = HeldOf(rows) + Hold(row) - Hold(rows[o])
  BY HeldChange DEF Table, Written
<1>5. HeldOf(rows) \in Int /\ Hold(row) \in Int
  BY <1>1, HeldType DEF Table
<1>6. PlacedOf(new) = PlacedOf(rows) \cup {o} /\ o \notin PlacedOf(rows)
  BY <1>1, <1>2, <1>3 DEF PlacedOf
<1>7. Open(row) => OpenOf(new) = OpenOf(rows) \cup {o} /\ o \notin OpenOf(rows)
  BY <1>1, <1>2, <1>3 DEF OpenOf
<1>8. ~Open(row) => OpenOf(new) = OpenOf(rows)
  BY <1>1, <1>2, <1>3 DEF OpenOf
<1>9. Cardinality(PlacedOf(new)) = Cardinality(PlacedOf(rows)) + 1
  BY <1>6, RowCounts, FS_AddElement
<1>10. Open(row) => Cardinality(OpenOf(new)) = Cardinality(OpenOf(rows)) + 1
  BY <1>7, RowCounts, FS_AddElement
<1>11. HeldOf(new) = HeldOf(rows) + Hold(row)
  BY <1>3, <1>4, <1>5
<1> QED BY <1>1, <1>2, <1>7, <1>8, <1>9, <1>10, <1>11

\* An open order is filled or cancelled.
LEMMA Closing ==
    ASSUME NEW rows \in Table, NEW o \in OrderId,
           Open(rows[o]), NEW row \in OrderRow, ~Open(row),
           NEW new, Written(new, rows, o, row)
    PROVE  /\ new \in Table
           /\ HeldOf(new) = HeldOf(rows) - Hold(rows[o])
           /\ PlacedOf(new) = PlacedOf(rows)
           /\ OpenOf(new) = OpenOf(rows) \ {o}
           /\ Cardinality(OpenOf(new)) = Cardinality(OpenOf(rows)) - 1
           /\ \A i \in OrderId : i # o => new[i] = rows[i]
<1>1. Hold(row) = 0 /\ row # Unused /\ rows[o] # Unused
  BY DEF OrderRow, Open, Hold, Unused
<1>2. new \in Table /\ new[o] = row
  BY DEF Table, Written
<1>3. \A i \in OrderId : i # o => new[i] = rows[i]
  BY DEF Table, Written
<1>4. HeldOf(new) = HeldOf(rows) + Hold(row) - Hold(rows[o])
  BY HeldChange DEF Table, Written
<1>5. HeldOf(rows) \in Int /\ Hold(rows[o]) \in Int
  BY HeldType DEF Table
<1>6. PlacedOf(new) = PlacedOf(rows)
  BY <1>1, <1>2, <1>3 DEF PlacedOf
<1>7. OpenOf(new) = OpenOf(rows) \ {o} /\ o \in OpenOf(rows)
  BY <1>1, <1>2, <1>3 DEF OpenOf
<1>8. Cardinality(OpenOf(new)) = Cardinality(OpenOf(rows)) - 1
  BY <1>7, RowCounts, FS_RemoveElement
<1>9. HeldOf(new) = HeldOf(rows) - Hold(rows[o])
  BY <1>1, <1>4, <1>5
<1> QED BY <1>2, <1>3, <1>6, <1>7, <1>8, <1>9

-----------------------------------------------------------------------------
\* The four ways in which a request may add to what is rounded.
LEMMA Drifting ==
    ASSUME NEW f \in Int, NEW d \in Int, NEW p \in Nat, NEW n \in Int, NEW l \in Nat,
           Drifted(f, d, p, n, l), NEW f2 \in Int, NEW d2 \in Int,
           Abs(d2 - d) <= WalletUnit
    PROVE  /\ 2 * Abs(f2 - f) <= 2 * Slack - WalletUnit => Drifted(f2, d2, p + 1, n + 1, l)
           /\ f2 = f => Drifted(f2, d2, p + 1, n, l)
           /\ 2 * Abs(f2 - f) <= WalletUnit => Drifted(f2, d2, p, n - 1, l)
           /\ f2 = f => Drifted(f2, d2, p, n, l + 1)
           /\ f2 = f /\ d2 = d => Drifted(f2, d2, p, n, l)
<1> DEFINE w == WalletUnit
           s == Slack
           wn == w * n
           sp == s * p
           wp == w * (2 * p + l)
<1>1. w \in Nat /\ s \in Nat /\ s - w >= 0
  <2>1. (ColumnUnit * (MaxQty + MaxPrice + ColumnUnit)) \in Nat
    BY SlackNatural, SMT
  <2>2. Slack - WalletUnit \in Nat
    BY SlackNatural, <2>1
  <2> QED BY SlackNatural, <2>2
<1> HIDE DEF w, s
<1>2. wn \in Int /\ sp \in Int /\ wp \in Int
  BY <1>1
<1>3. w * (n + 1) = wn + w /\ w * (n - 1) = wn - w /\ s * (p + 1) = sp + s
  BY <1>1, SMT
<1>4. w * (2 * (p + 1) + l) = wp + 2 * w /\ w * (2 * p + (l + 1)) = wp + w
  BY <1>1, SMT
<1> HIDE DEF wn, sp, wp
<1>5. 2 * Abs(f) + wn <= 2 * sp /\ Abs(d) + wn <= wp
  BY DEF Drifted, w, s, wn, sp, wp
<1>6. Abs(d2 - d) <= w
  BY DEF w
<1>7. ASSUME 2 * Abs(f2 - f) <= 2 * s - w
      PROVE  2 * Abs(f2) + (wn + w) <= 2 * (sp + s) /\ Abs(d2) + (wn + w) <= wp + 2 * w
  BY <1>1, <1>2, <1>5, <1>6, <1>7 DEF Abs
<1>8. ASSUME f2 = f
      PROVE  2 * Abs(f2) + wn <= 2 * (sp + s) /\ Abs(d2) + wn <= wp + 2 * w
  BY <1>1, <1>2, <1>5, <1>6, <1>8 DEF Abs
<1>9. ASSUME 2 * Abs(f2 - f) <= w
      PROVE  2 * Abs(f2) + (wn - w) <= 2 * sp /\ Abs(d2) + (wn - w) <= wp
  BY <1>1, <1>2, <1>5, <1>6, <1>9 DEF Abs
<1>10. ASSUME f2 = f
       PROVE  2 * Abs(f2) + wn <= 2 * sp /\ Abs(d2) + wn <= wp + w
  BY <1>1, <1>2, <1>5, <1>6, <1>10 DEF Abs
<1>11. 2 * Abs(f2 - f) <= 2 * Slack - WalletUnit => Drifted(f2, d2, p + 1, n + 1, l)
  BY <1>3, <1>4, <1>7 DEF Drifted, w, s
<1>12. f2 = f => Drifted(f2, d2, p + 1, n, l)
  BY <1>3, <1>4, <1>8 DEF Drifted, w, s, wn
<1>13. 2 * Abs(f2 - f) <= WalletUnit => Drifted(f2, d2, p, n - 1, l)
  BY <1>3, <1>4, <1>9 DEF Drifted, w, s, sp, wp
<1>14. f2 = f => Drifted(f2, d2, p, n, l + 1)
  BY <1>3, <1>4, <1>10 DEF Drifted, w, s, wn, sp
<1> QED BY <1>11, <1>12, <1>13, <1>14

LEMMA ColumnRounds ==
    ASSUME NEW n \in Int
    PROVE  /\ WalletColumn(n) \in Int
           /\ Multiple(WalletColumn(n), WalletUnit)
           /\ 2 * Abs(WalletColumn(n) - n) <= WalletUnit
           /\ Multiple(n, WalletUnit) => WalletColumn(n) = n
<1> DEFINE m == WalletColumn(n)
<1>1. /\ m \in Int
      /\ Multiple(m, WalletUnit)
      /\ 2 * (m - n) <= WalletUnit
      /\ 2 * (n - m) <= WalletUnit
      /\ Multiple(n, WalletUnit) => m = n
  BY SlackNatural, NearestRounds, NearestKeeps DEF WalletColumn
<1> HIDE DEF m
<1>2. 2 * Abs(m - n) <= WalletUnit
  BY <1>1 DEF Abs
<1> QED BY <1>1, <1>2 DEF m

\* What is written to the wallet's row is a row of cells.
LEMMA Writing ==
    ASSUME NEW b \in Int, NEW a \in Int, NEW f \in Int, Store(b, a, f)
    PROVE  /\ Stored(wallet')
           /\ wallet'.balance = WalletColumn(b)
           /\ wallet'.available = WalletColumn(a)
           /\ wallet'.frozen = WalletColumn(f)
BY ColumnRounds DEF Store, Stored, Cells

\* The product of the stored columns and that of the request.
LEMMA RowRounds ==
    ASSUME NEW qty \in Qty, NEW price \in Price
    PROVE  /\ qty * price \in Nat
           /\ OrderColumn(qty) \in Int /\ OrderColumn(price) \in Int
           /\ Abs(OrderColumn(qty) * OrderColumn(price) - qty * price) <= Slack - WalletUnit
           /\ qty % ColumnUnit = 0 /\ price % ColumnUnit = 0 =>
                  OrderColumn(qty) = qty /\ OrderColumn(price) = price
<1> DEFINE r == OrderColumn(qty)
           s == OrderColumn(price)
<1>1. qty \in Nat /\ qty <= MaxQty /\ price \in Nat /\ price <= MaxPrice
  BY ScaleAssumption
<1>2. /\ r \in Int /\ 2 * (r - qty) <= ColumnUnit /\ 2 * (qty - r) <= ColumnUnit
      /\ s \in Int /\ 2 * (s - price) <= ColumnUnit /\ 2 * (price - s) <= ColumnUnit
  BY <1>1, SlackNatural, NearestRounds DEF OrderColumn
<1>3. qty % ColumnUnit = 0 /\ price % ColumnUnit = 0 => r = qty /\ s = price
  BY <1>1, SlackNatural, NearestKeeps, NoRemainder DEF OrderColumn
<1> HIDE DEF r, s
<1>4. /\ r * s - qty * price <= (ColumnUnit * (MaxQty + MaxPrice + ColumnUnit)) \div 2
      /\ qty * price - r * s <= (ColumnUnit * (MaxQty + MaxPrice + ColumnUnit)) \div 2
  BY <1>1, <1>2, SlackNatural, ProductRounds
<1> DEFINE x == qty * price
           y == r * s
<1>5. x \in Nat /\ y \in Int
  BY <1>1, <1>2
<1>6. y - x <= Slack - WalletUnit /\ x - y <= Slack - WalletUnit
  BY <1>4, SlackNatural
<1> HIDE DEF x, y
<1>7. Abs(y - x) <= Slack - WalletUnit
  BY <1>5, <1>6 DEF Abs
<1> QED BY <1>2, <1>3, <1>5, <1>7 DEF x, y, r, s

-----------------------------------------------------------------------------
LEMMA HoldInit ==
    ASSUME Init
    PROVE  HoldInv
<1>1. /\ wallet = [balance |-> 0, available |-> 0, frozen |-> 0]
      /\ order = [o \in OrderId |-> Unused] /\ exact = TRUE /\ loose = 0
  BY DEF Init
<1>2. order \in Table
  BY <1>1 DEF Table
<1>3. Stored(wallet)
  <2>1. Multiple(0, WalletUnit)
    <3>1. 0 = WalletUnit * 0
      BY SlackNatural
    <3> QED BY <3>1 DEF Multiple
  <2> QED BY <1>1, <2>1 DEF Stored, Cells
<1>4. PlacedOf(order) = {}
  BY <1>1 DEF PlacedOf
<1>5. OpenOf(order) = {}
  BY <1>1 DEF OpenOf, Open, Unused
<1>6. HeldOf(order) = 0
  <2> DEFINE f == [o \in 1 .. MaxOrders |-> Hold(order[o])]
  <2>1. \A o \in 1 .. MaxOrders : f[o] = 0
    BY <1>1 DEF Hold, Open, Unused, OrderId
  <2>2. f \in [1 .. MaxOrders -> Int]
    BY <2>1
  <2>3. HeldOf(order) = Sum(f, MaxOrders)
    BY DEF HeldOf, OrderId
  <2> HIDE DEF f
  <2> QED BY <2>1, <2>2, <2>3, SumZero, SlackNatural
<1>7. Cardinality(PlacedOf(order)) = 0 /\ Cardinality(OpenOf(order)) = 0
  BY <1>4, <1>5, FS_EmptySet
<1>8. Drifted(0, 0, 0, 0, 0)
  BY SlackNatural DEF Drifted, Abs
<1>9. /\ wallet.frozen - HeldOf(order) = 0
      /\ wallet.balance - wallet.available - wallet.frozen = 0
  BY <1>1, <1>6
<1>10. Whole(wallet, order)
  BY <1>1, <1>5, <1>6 DEF Whole
<1> QED BY <1>1, <1>2, <1>3, <1>7, <1>8, <1>9, <1>10 DEF HoldInv

\* What the invariant says of the numbers in a state.
LEMMA HoldNumbers ==
    ASSUME HoldInv
    PROVE  /\ wallet.balance \in Int /\ wallet.available \in Int /\ wallet.frozen \in Int
           /\ HeldOf(order) \in Int
           /\ Cardinality(PlacedOf(order)) \in Nat /\ Cardinality(OpenOf(order)) \in Nat
           /\ loose \in Nat
BY HeldType, RowCounts DEF HoldInv, Stored, Cells

\* A deposit or a withdrawal.
LEMMA Entering ==
    ASSUME HoldInv, NEW amt \in Amount, NEW delta \in {amt, -amt},
           Store(wallet.balance + delta, wallet.available + delta, wallet.frozen),
           Entered(amt), UNCHANGED order
    PROVE  HoldInv'
<1> DEFINE b == wallet.balance
           a == wallet.available
           f == wallet.frozen
<1>1. amt \in Nat /\ delta \in Int
  BY ScaleAssumption
<1>2. b \in Int /\ a \in Int /\ f \in Int /\ Multiple(b, WalletUnit)
      /\ Multiple(a, WalletUnit) /\ Multiple(f, WalletUnit)
  BY DEF HoldInv, Stored, Cells
<1>3. /\ Stored(wallet')
      /\ wallet'.balance = WalletColumn(b + delta)
      /\ wallet'.available = WalletColumn(a + delta)
      /\ wallet'.frozen = WalletColumn(f)
  <2>1. b + delta \in Int /\ a + delta \in Int
    BY <1>1, <1>2
  <2>2. Store(b + delta, a + delta, f)
    OBVIOUS
  <2> HIDE DEF b, a, f
  <2> QED BY <1>2, <2>1, <2>2, Writing
<1>4. wallet'.frozen = f
  BY <1>2, <1>3, ColumnRounds
<1> HIDE DEF b, a, f
<1> DEFINE b2 == wallet'.balance
           a2 == wallet'.available
<1>5. /\ b2 \in Int /\ 2 * Abs(b2 - (b + delta)) <= WalletUnit
      /\ a2 \in Int /\ 2 * Abs(a2 - (a + delta)) <= WalletUnit
  <2>1. b + delta \in Int /\ a + delta \in Int
    BY <1>1, <1>2
  <2> QED BY <1>3, <2>1, ColumnRounds
<1> DEFINE d == b - a - f
           d2 == b2 - a2 - f
           g == f - HeldOf(order)
           p == Cardinality(PlacedOf(order))
           n == Cardinality(OpenOf(order))
<1>6. p \in Nat /\ n \in Nat /\ loose \in Nat /\ HeldOf(order) \in Int
      /\ Drifted(g, d, p, n, loose)
  BY HoldNumbers DEF HoldInv, b, a, f
<1>7. g \in Int /\ d \in Int
  BY <1>2, <1>6
<1>8. exact' \in BOOLEAN
  BY DEF Entered
<1>9. CASE amt % WalletUnit = 0
  <2>1. loose' = loose /\ (exact' => exact)
    BY <1>9 DEF Entered, HoldInv
  <2>2. Multiple(b + delta, WalletUnit) /\ Multiple(a + delta, WalletUnit)
    <3>1. Multiple(amt, WalletUnit)
      BY <1>1, <1>9, SlackNatural, NoRemainder
    <3>2. Multiple(b + amt, WalletUnit) /\ Multiple(a + amt, WalletUnit)
      BY <1>1, <1>2, <3>1, SlackNatural, MultipleSum
    <3>3. Multiple(b - amt, WalletUnit) /\ Multiple(a - amt, WalletUnit)
      BY <1>1, <1>2, <3>1, SlackNatural, MultipleSum
    <3>4. delta = -amt => b + delta = b - amt /\ a + delta = a - amt
      BY <1>1, <1>2
    <3> QED BY <3>2, <3>3, <3>4
  <2>3. b2 = b + delta /\ a2 = a + delta
    BY <1>1, <1>2, <1>3, <2>2, ColumnRounds
  <2>4. d2 = d
    BY <1>1, <1>2, <2>3
  <2>5. exact' => Whole(wallet', order')
    <3>1. exact => Whole(wallet, order)
      BY DEF HoldInv
    <3>2. ASSUME Whole(wallet, order)
          PROVE  Whole(wallet', order')
      <4>1. b = a + f /\ f = HeldOf(order)
        BY <3>2 DEF Whole, b, a, f
      <4>2. b2 = a2 + f
        BY <1>1, <1>2, <2>3, <4>1
      <4> QED BY <1>4, <3>2, <4>1, <4>2 DEF Whole
    <3> QED BY <2>1, <3>1, <3>2
  <2>6. Drifted(wallet'.frozen - HeldOf(order'), b2 - a2 - wallet'.frozen, p, n, loose')
    BY <1>4, <1>6, <2>1, <2>4
  <2> QED BY <1>3, <1>6, <1>8, <2>1, <2>5, <2>6 DEF HoldInv
<1>10. CASE amt % WalletUnit # 0
  <2>1. loose' = loose + 1 /\ ~exact'
    BY <1>10 DEF Entered
  <2>2. Abs(d2 - d) <= WalletUnit
    BY <1>1, <1>2, <1>5, SlackNatural DEF Abs
  <2>3. d2 \in Int
    BY <1>2, <1>5
  <2>4. Drifted(g, d2, p, n, loose + 1)
    <3> HIDE DEF g, d, d2, p, n
    <3>1. n \in Int
      BY <1>6
    <3>2. g = g => Drifted(g, d2, p, n, loose + 1)
      BY <1>6, <1>7, <2>2, <2>3, <3>1, Drifting, Zenon
    <3> QED BY <3>2
  <2>5. Drifted(wallet'.frozen - HeldOf(order'), b2 - a2 - wallet'.frozen, p, n, loose')
    BY <1>4, <2>1, <2>4
  <2>6. loose' \in Nat
    BY <1>6, <2>1
  <2> QED BY <1>3, <1>8, <2>1, <2>5, <2>6 DEF HoldInv
<1> QED BY <1>9, <1>10

LEMMA DepositHolds ==
    ASSUME HoldInv, NEW amt \in Amount, Deposit(amt)
    PROVE  HoldInv'
BY Entering DEF Deposit

LEMMA WithdrawHolds ==
    ASSUME HoldInv, NEW amt \in Amount, Withdraw(amt)
    PROVE  HoldInv'
<1>1. amt \in Nat /\ wallet.balance \in Int /\ wallet.available \in Int
  BY ScaleAssumption, HoldNumbers
<1>2. /\ wallet.balance + (-amt) = wallet.balance - amt
      /\ wallet.available + (-amt) = wallet.available - amt
  BY <1>1
<1>3. Store(wallet.balance + (-amt), wallet.available + (-amt), wallet.frozen)
  BY <1>2 DEF Withdraw
<1> QED BY <1>3, Entering DEF Withdraw

\* An open order is filled or cancelled: its amount leaves frozen, and the
\* balance or comes back to available.
LEMMA Releasing ==
    ASSUME HoldInv, NEW o \in OrderId, IsOpen(o), NEW status \in {"filled", "cancelled"},
           NEW b0 \in Int, NEW a0 \in Int,
           b0 - a0 = wallet.balance - wallet.available - RowAmount(o),
           exact => Multiple(b0, WalletUnit) /\ Multiple(a0, WalletUnit),
           \/ b0 = wallet.balance
           \/ a0 = wallet.available,
           Store(b0, a0, wallet.frozen - RowAmount(o)),
           Ended(order', order, o, status), UNCHANGED <<exact, loose>>
    PROVE  HoldInv'
<1> DEFINE x == RowAmount(o)
           b == wallet.balance
           a == wallet.available
           f == wallet.frozen
           h == HeldOf(order)
<1>1. order \in Table /\ Open(order[o])
  BY DEF HoldInv, IsOpen, Open
<1>2. x = Hold(order[o]) /\ x \in Int
  BY <1>1, HeldType DEF Hold, RowAmount
<1>3. /\ b \in Int /\ a \in Int /\ f \in Int /\ h \in Int
      /\ Multiple(b, WalletUnit) /\ Multiple(a, WalletUnit) /\ Multiple(f, WalletUnit)
  BY HoldNumbers DEF HoldInv, Stored
<1>4. /\ order' \in Table
      /\ HeldOf(order') = h - x
      /\ PlacedOf(order') = PlacedOf(order)
      /\ OpenOf(order') = OpenOf(order) \ {o}
      /\ Cardinality(OpenOf(order')) = Cardinality(OpenOf(order)) - 1
      /\ \A i \in OrderId : i # o => order'[i] = order[i]
  <2> DEFINE row == [status |-> status, qty |-> order[o].qty, price |-> order[o].price]
  <2>1. order[o] \in OrderRow
    BY <1>1 DEF Open, Unused, Table
  <2>2. row \in OrderRow /\ ~Open(row)
    BY <2>1 DEF OrderRow, Open
  <2>3. Written(order', order, o, row)
    <3>1. [order[o] EXCEPT !.status = status] = row
      BY <2>1 DEF OrderRow
    <3>2. order' = [order EXCEPT ![o] = [order[o] EXCEPT !.status = status]]
      BY DEF Ended
    <3> QED BY <3>1, <3>2, Zenon DEF Written
  <2> HIDE DEF row
  <2>4. /\ order' \in Table
        /\ HeldOf(order') = HeldOf(order) - Hold(order[o])
        /\ PlacedOf(order') = PlacedOf(order)
        /\ OpenOf(order') = OpenOf(order) \ {o}
        /\ Cardinality(OpenOf(order')) = Cardinality(OpenOf(order)) - 1
        /\ \A i \in OrderId : i # o => order'[i] = order[i]
    BY <1>1, <2>2, <2>3, Closing
  <2> QED BY <1>2, <2>4
<1>5. b0 - a0 = b - a - x /\ (b0 = b \/ a0 = a)
  OBVIOUS
<1> HIDE DEF x, b, a, f, h
<1>6. f - x \in Int
  BY <1>2, <1>3
<1> DEFINE b2 == wallet'.balance
           a2 == wallet'.available
           f2 == wallet'.frozen
<1>7. /\ Stored(wallet')
      /\ b2 = WalletColumn(b0) /\ a2 = WalletColumn(a0) /\ f2 = WalletColumn(f - x)
  BY <1>6, Writing DEF f, x
<1>8. /\ b2 \in Int /\ 2 * Abs(b2 - b0) <= WalletUnit
      /\ a2 \in Int /\ 2 * Abs(a2 - a0) <= WalletUnit
      /\ f2 \in Int /\ 2 * Abs(f2 - (f - x)) <= WalletUnit
  BY <1>6, <1>7, ColumnRounds
<1>9. b2 = b0 \/ a2 = a0
  BY <1>3, <1>5, <1>7, ColumnRounds
<1> HIDE DEF b2, a2, f2
<1> DEFINE d == b - a - f
           d2 == b2 - a2 - f2
           g == f - h
           g2 == f2 - (h - x)
           p == Cardinality(PlacedOf(order))
           n == Cardinality(OpenOf(order))
<1>10. p \in Nat /\ n \in Nat /\ loose \in Nat /\ Drifted(g, d, p, n, loose)
  BY HoldNumbers DEF HoldInv, b, a, f, h
<1>11. g \in Int /\ d \in Int /\ g2 \in Int /\ d2 \in Int
  BY <1>2, <1>3, <1>8
<1>12. 2 * Abs(g2 - g) <= WalletUnit
  <2>1. g2 - g = f2 - (f - x)
    BY <1>2, <1>3, <1>8
  <2> QED BY <1>8, <2>1
<1>13. Abs(d2 - d) <= WalletUnit
  <2>1. d2 - d = (b2 - b0) - (a2 - a0) - (f2 - (f - x))
    BY <1>2, <1>3, <1>5, <1>8
  <2> DEFINE u == b2 - b0
             v == a2 - a0
             w == f2 - (f - x)
  <2>2. u \in Int /\ v \in Int /\ w \in Int /\ (u = 0 \/ v = 0)
    BY <1>2, <1>3, <1>8, <1>9
  <2>3. 2 * Abs(u) <= WalletUnit /\ 2 * Abs(v) <= WalletUnit /\ 2 * Abs(w) <= WalletUnit
    BY <1>8
  <2>4. d2 - d = u - v - w
    BY <2>1
  <2> HIDE DEF u, v, w, d, d2
  <2>5. Abs(u - v - w) <= WalletUnit
    BY <2>2, <2>3, SlackNatural DEF Abs
  <2> QED BY <2>4, <2>5
<1>14. Drifted(g2, d2, p, n - 1, loose)
  <2> HIDE DEF g, g2, d, d2, p, n
  <2>1. n \in Int
    BY <1>10
  <2>2. 2 * Abs(g2 - g) <= WalletUnit => Drifted(g2, d2, p, n - 1, loose)
    BY <1>10, <1>11, <1>13, <2>1, Drifting, Zenon
  <2> QED BY <1>12, <2>2
<1>15. ASSUME exact
       PROVE  Whole(wallet', order')
  <2>1. /\ \A i \in OpenOf(order) : Multiple(Hold(order[i]), WalletUnit)
        /\ f = h /\ b = a + f
    BY <1>15 DEF HoldInv, Whole, b, a, f, h
  <2>2. Multiple(x, WalletUnit)
    BY <1>1, <1>2, <2>1 DEF OpenOf
  <2>3. Multiple(f - x, WalletUnit)
    BY <1>2, <1>3, <2>2, SlackNatural, MultipleSum
  <2>4. b2 = b0 /\ a2 = a0 /\ f2 = f - x
    BY <1>6, <1>7, <1>15, <2>3, ColumnRounds
  <2>5. f2 = h - x /\ b2 = a2 + f2
    BY <1>2, <1>3, <1>5, <2>1, <2>4
  <2>6. \A i \in OpenOf(order') : Multiple(Hold(order'[i]), WalletUnit)
    <3>1. \A i \in OpenOf(order') : i \in OpenOf(order) /\ order'[i] = order[i]
      BY <1>1, <1>4 DEF OpenOf
    <3> QED BY <2>1, <3>1
  <2> QED BY <1>4, <2>5, <2>6 DEF Whole, b2, a2, f2
<1>16. Drifted(wallet'.frozen - HeldOf(order'),
               wallet'.balance - wallet'.available - wallet'.frozen,
               Cardinality(PlacedOf(order')), Cardinality(OpenOf(order')), loose')
  BY <1>4, <1>14 DEF b2, a2, f2
<1>17. exact' \in BOOLEAN /\ loose' \in Nat /\ (exact' => Whole(wallet', order'))
  BY <1>15 DEF HoldInv
<1> QED BY <1>4, <1>7, <1>16, <1>17 DEF HoldInv

\* What an open order releases is a whole number of wallet digits as long as
\* every request was.
LEMMA WholeAmount ==
    ASSUME HoldInv, NEW o \in OrderId, IsOpen(o)
    PROVE  /\ RowAmount(o) \in Int
           /\ exact => Multiple(RowAmount(o), WalletUnit)
<1>1. order \in Table /\ Open(order[o])
  BY DEF HoldInv, IsOpen, Open
<1>2. RowAmount(o) = Hold(order[o])
  BY <1>1 DEF Hold, RowAmount
<1>3. exact => Multiple(Hold(order[o]), WalletUnit)
  BY <1>1 DEF HoldInv, Whole, OpenOf
<1> QED BY <1>1, <1>2, <1>3, HeldType

LEMMA FillHolds ==
    ASSUME HoldInv, NEW o \in OrderId, Fill(o)
    PROVE  HoldInv'
<1> DEFINE b0 == wallet.balance - RowAmount(o)
           a0 == wallet.available
<1>1. IsOpen(o) /\ Ended(order', order, o, "filled") /\ UNCHANGED <<exact, loose>>
  BY DEF Fill, Ended
<1>2. Store(b0, a0, wallet.frozen - RowAmount(o))
  BY DEF Fill
<1>3. RowAmount(o) \in Int /\ wallet.balance \in Int /\ wallet.available \in Int
  BY <1>1, WholeAmount, HoldNumbers
<1>4. exact => Multiple(b0, WalletUnit) /\ Multiple(a0, WalletUnit)
  BY <1>1, <1>3, WholeAmount, MultipleSum, SlackNatural DEF HoldInv, Stored
<1>5. b0 \in Int /\ a0 \in Int /\ a0 = wallet.available
      /\ b0 - a0 = wallet.balance - wallet.available - RowAmount(o)
  BY <1>3
<1> HIDE DEF b0, a0
<1> QED BY <1>1, <1>2, <1>4, <1>5, Releasing

LEMMA CancelHolds ==
    ASSUME HoldInv, NEW o \in OrderId, Cancel(o)
    PROVE  HoldInv'
<1> DEFINE b0 == wallet.balance
           a0 == wallet.available + RowAmount(o)
<1>1. IsOpen(o) /\ Ended(order', order, o, "cancelled") /\ UNCHANGED <<exact, loose>>
  BY DEF Cancel, Ended
<1>2. Store(b0, a0, wallet.frozen - RowAmount(o))
  BY DEF Cancel
<1>3. RowAmount(o) \in Int /\ wallet.balance \in Int /\ wallet.available \in Int
  BY <1>1, WholeAmount, HoldNumbers
<1>4. exact => Multiple(b0, WalletUnit) /\ Multiple(a0, WalletUnit)
  BY <1>1, <1>3, WholeAmount, MultipleSum, SlackNatural DEF HoldInv, Stored
<1>5. b0 \in Int /\ a0 \in Int /\ b0 = wallet.balance
      /\ b0 - a0 = wallet.balance - wallet.available - RowAmount(o)
  BY <1>3
<1> HIDE DEF b0, a0
<1> QED BY <1>1, <1>2, <1>4, <1>5, Releasing

\* A placement: the request's product x leaves available, and goes to frozen
\* or, with an order filled at once, out of the balance.
LEMMA Placing ==
    ASSUME HoldInv, NEW qty \in Qty, NEW price \in Price, NEW status \in {"open", "filled"},
           NEW x, x = qty * price, NEW kept, kept = IF status = "open" THEN x ELSE 0,
           Store(wallet.balance - (x - kept), wallet.available - x, wallet.frozen + kept),
           Insert(qty, price, status)
    PROVE  HoldInv'
<1> DEFINE b == wallet.balance
           a == wallet.available
           f == wallet.frozen
           h == HeldOf(order)
           row == [status |-> status, qty |-> OrderColumn(qty), price |-> OrderColumn(price)]
           r == Hold(row)
<1>1. PICK o \in OrderId : order[o] = Unused /\ Written(order', order, o, row)
  BY DEF Insert, Written
<1>2. /\ x \in Nat /\ kept \in Nat
      /\ Abs(OrderColumn(qty) * OrderColumn(price) - x) <= Slack - WalletUnit
  BY RowRounds
<1>3. row \in OrderRow
  BY RowRounds DEF OrderRow
<1>4. /\ status = "open" => Open(row) /\ kept = x /\ r = OrderColumn(qty) * OrderColumn(price)
      /\ status # "open" => ~Open(row) /\ kept = 0 /\ r = 0
  BY DEF Open, Hold
<1>5. /\ b \in Int /\ a \in Int /\ f \in Int /\ h \in Int /\ order \in Table
      /\ Multiple(b, WalletUnit) /\ Multiple(a, WalletUnit) /\ Multiple(f, WalletUnit)
  BY HoldNumbers DEF HoldInv, Stored
<1> HIDE DEF row
<1>6. /\ order' \in Table
      /\ HeldOf(order') = HeldOf(order) + Hold(row)
      /\ Cardinality(PlacedOf(order')) = Cardinality(PlacedOf(order)) + 1
      /\ Open(row) => /\ OpenOf(order') = OpenOf(order) \cup {o}
                      /\ Cardinality(OpenOf(order')) = Cardinality(OpenOf(order)) + 1
      /\ ~Open(row) => OpenOf(order') = OpenOf(order)
      /\ order'[o] = row
      /\ \A i \in OrderId : i # o => order'[i] = order[i]
  BY <1>1, <1>3, <1>5, Inserting
<1>7. r \in Int
  BY <1>6, HeldType
<1> DEFINE b0 == b - (x - kept)
           a0 == a - x
           f0 == f + kept
           b2 == wallet'.balance
           a2 == wallet'.available
           f2 == wallet'.frozen
<1>8. b0 \in Int /\ a0 \in Int /\ f0 \in Int
      /\ b0 - a0 - f0 = b - a - f /\ (b0 = b \/ f0 = f)
  BY <1>2, <1>4, <1>5
<1>9. Store(b0, a0, f0)
  OBVIOUS
<1> HIDE DEF b, a, f, h, r, b0, a0, f0
<1>10. /\ Stored(wallet')
       /\ b2 = WalletColumn(b0) /\ a2 = WalletColumn(a0) /\ f2 = WalletColumn(f0)
  BY <1>8, <1>9, Writing
<1> HIDE DEF b2, a2, f2
<1>11. /\ b2 \in Int /\ 2 * Abs(b2 - b0) <= WalletUnit
       /\ a2 \in Int /\ 2 * Abs(a2 - a0) <= WalletUnit
       /\ f2 \in Int /\ 2 * Abs(f2 - f0) <= WalletUnit
  BY <1>8, <1>10, ColumnRounds
<1>12. b2 = b0 \/ f2 = f0
  BY <1>5, <1>8, <1>10, ColumnRounds
<1> DEFINE d == b - a - f
           d2 == b2 - a2 - f2
           g == f - h
           g2 == f2 - (h + r)
           p == Cardinality(PlacedOf(order))
           n == Cardinality(OpenOf(order))
           n2 == Cardinality(OpenOf(order'))
<1>13. p \in Nat /\ n \in Nat /\ loose \in Nat /\ Drifted(g, d, p, n, loose)
  BY HoldNumbers DEF HoldInv, b, a, f, h
<1>14. g \in Int /\ d \in Int /\ g2 \in Int /\ d2 \in Int
  BY <1>5, <1>7, <1>11
<1>15. Abs(d2 - d) <= WalletUnit
  <2> DEFINE u == b2 - b0
             v == a2 - a0
             w == f2 - f0
  <2>1. d2 - d = u - v - w
    BY <1>5, <1>8, <1>11
  <2>2. u \in Int /\ v \in Int /\ w \in Int /\ (u = 0 \/ w = 0)
    BY <1>8, <1>11, <1>12
  <2>3. 2 * Abs(u) <= WalletUnit /\ 2 * Abs(v) <= WalletUnit /\ 2 * Abs(w) <= WalletUnit
    BY <1>11
  <2> HIDE DEF u, v, w, d, d2
  <2>4. Abs(u - v - w) <= WalletUnit
    BY <2>2, <2>3, SlackNatural DEF Abs
  <2> QED BY <2>1, <2>4
<1>16. Drifted(g2, d2, p + 1, n2, loose)
  <2>1. n \in Int
    BY <1>13
  <2>2. CASE status = "open"
    <3>1. 2 * Abs(g2 - g) <= 2 * Slack - WalletUnit
      <4> DEFINE w == f2 - f0
                 y == r - x
      <4>1. g2 - g = w - y /\ w \in Int /\ y \in Int
        BY <1>2, <1>4, <1>5, <1>7, <1>8, <1>11, <2>2 DEF f0
      <4>2. 2 * Abs(w) <= WalletUnit /\ Abs(y) <= Slack - WalletUnit
        BY <1>2, <1>4, <1>11, <2>2
      <4> HIDE DEF w, y, g, g2
      <4>3. 2 * Abs(w - y) <= 2 * Slack - WalletUnit
        BY <4>1, <4>2, SlackNatural DEF Abs
      <4> QED BY <4>1, <4>3
    <3>2. n2 = n + 1
      BY <1>4, <1>6, <2>2
    <3> HIDE DEF g, g2, d, d2, p, n, n2
    <3>3. 2 * Abs(g2 - g) <= 2 * Slack - WalletUnit => Drifted(g2, d2, p + 1, n + 1, loose)
      BY <1>13, <1>14, <1>15, <2>1, Drifting, Zenon
    <3> QED BY <3>1, <3>2, <3>3
  <2>3. CASE status # "open"
    <3>1. f2 = f0 /\ f0 = f
      BY <1>4, <1>5, <1>8, <1>10, <2>3, ColumnRounds DEF f0
    <3>2. g2 = g
      BY <1>4, <1>5, <2>3, <3>1
    <3>3. n2 = n
      BY <1>4, <1>6, <2>3
    <3> HIDE DEF g, g2, d, d2, p, n, n2
    <3>4. g2 = g => Drifted(g2, d2, p + 1, n, loose)
      BY <1>13, <1>14, <1>15, <2>1, Drifting, Zenon
    <3> QED BY <3>2, <3>3, <3>4
  <2> QED BY <2>2, <2>3
<1>17. ASSUME exact'
       PROVE  Whole(wallet', order')
  <2>1. exact /\ qty % ColumnUnit = 0 /\ price % ColumnUnit = 0 /\ x % WalletUnit = 0
    BY <1>17 DEF Insert
  <2>2. /\ \A i \in OpenOf(order) : Multiple(Hold(order[i]), WalletUnit)
        /\ f = h /\ b = a + f
    BY <2>1 DEF HoldInv, Whole, b, a, f, h
  <2>3. OrderColumn(qty) * OrderColumn(price) = x
    BY <2>1, RowRounds
  <2>4. r = kept
    BY <1>4, <2>3
  <2>5. Multiple(x, WalletUnit) /\ Multiple(kept, WalletUnit) /\ Multiple(x - kept, WalletUnit)
    <3>1. Multiple(x, WalletUnit)
      BY <1>2, <2>1, SlackNatural, NoRemainder
    <3>2. 0 = x - x
      BY <1>2
    <3>3. Multiple(0, WalletUnit)
      BY <1>2, <3>1, <3>2, SlackNatural, MultipleSum
    <3>4. CASE kept = x
      <4>1. x - kept = 0
        BY <1>2, <3>4
      <4> QED BY <3>1, <3>3, <3>4, <4>1
    <3>5. CASE kept = 0
      <4>1. x - kept = x
        BY <1>2, <3>5
      <4> QED BY <3>1, <3>3, <3>5, <4>1
    <3> QED BY <1>4, <3>4, <3>5
  <2>6. Multiple(b0, WalletUnit) /\ Multiple(a0, WalletUnit) /\ Multiple(f0, WalletUnit)
    <3> DEFINE spent == x - kept
    <3>1. spent \in Int /\ Multiple(spent, WalletUnit)
      BY <1>2, <2>5
    <3>2. b0 = b - spent
      BY DEF b0
    <3> HIDE DEF spent
    <3>3. Multiple(b0, WalletUnit)
      BY <1>5, <3>1, <3>2, SlackNatural, MultipleSum
    <3>4. Multiple(a0, WalletUnit)
      BY <1>2, <1>5, <2>5, SlackNatural, MultipleSum DEF a0
    <3>5. Multiple(f0, WalletUnit)
      <4>1. PICK k \in Int : k = kept /\ Multiple(k, WalletUnit)
        BY <1>2, <2>5
      <4>2. f0 = f + k
        BY <4>1 DEF f0
      <4> QED BY <1>5, <4>1, <4>2, SlackNatural, MultipleSum
    <3> QED BY <3>3, <3>4, <3>5
  <2>7. b2 = b0 /\ a2 = a0 /\ f2 = f0
    BY <1>8, <1>10, <2>6, ColumnRounds
  <2>8. f2 = h + r /\ b2 = a2 + f2
    BY <1>2, <1>5, <1>7, <1>8, <2>2, <2>4, <2>7 DEF f0
  <2>9. \A i \in OpenOf(order') : Multiple(Hold(order'[i]), WalletUnit)
    <3>1. Multiple(Hold(order'[o]), WalletUnit)
      BY <1>6, <2>4, <2>5 DEF r
    <3>2. \A i \in OpenOf(order') : i # o => i \in OpenOf(order) /\ order'[i] = order[i]
      BY <1>6 DEF OpenOf
    <3> QED BY <2>2, <3>1, <3>2
  <2> QED BY <1>6, <2>8, <2>9 DEF Whole, b2, a2, f2, h, r
<1>18. /\ exact' \in BOOLEAN /\ loose' = loose
  BY DEF Insert
<1>19. Drifted(wallet'.frozen - HeldOf(order'),
               wallet'.balance - wallet'.available - wallet'.frozen,
               Cardinality(PlacedOf(order')), Cardinality(OpenOf(order')), loose')
  BY <1>6, <1>16, <1>18 DEF b2, a2, f2, h, r
<1> QED BY <1>6, <1>10, <1>13, <1>17, <1>18, <1>19 DEF HoldInv

LEMMA PlaceOpenHolds ==
    ASSUME HoldInv, NEW qty \in Qty, NEW price \in Price, PlaceOpen(qty, price)
    PROVE  HoldInv'
<1>1. PICK x : x = qty * price
  OBVIOUS
<1>2. x \in Int /\ wallet.balance \in Int
  BY <1>1, RowRounds, HoldNumbers
<1>3. wallet.balance - (x - x) = wallet.balance
  BY <1>2
<1>4. Store(wallet.balance - (x - x), wallet.available - x, wallet.frozen + x)
  BY <1>1, <1>3 DEF PlaceOpen
<1>5. Insert(qty, price, "open")
  BY DEF PlaceOpen
<1> QED BY <1>1, <1>4, <1>5, Placing

LEMMA PlaceFilledHolds ==
    ASSUME HoldInv, NEW qty \in Qty, NEW price \in Price, PlaceFilled(qty, price)
    PROVE  HoldInv'
<1>1. PICK x : x = qty * price
  OBVIOUS
<1>2. x \in Int /\ wallet.balance \in Int /\ wallet.frozen \in Int
  BY <1>1, RowRounds, HoldNumbers
<1>3. x - 0 = x /\ wallet.frozen + 0 = wallet.frozen
  BY <1>2
<1>4. Store(wallet.balance - (x - 0), wallet.available - x, wallet.frozen + 0)
  BY <1>1, <1>3 DEF PlaceFilled
<1>5. Insert(qty, price, "filled")
  BY DEF PlaceFilled
<1> QED BY <1>1, <1>4, <1>5, Placing

LEMMA HoldStep ==
    ASSUME HoldInv, [Next]_vars
    PROVE  HoldInv'
<1>1. CASE UNCHANGED vars
  BY <1>1 DEF vars, HoldInv
<1>2. ASSUME NEW amt \in Amount, Deposit(amt)
      PROVE  HoldInv'
  BY <1>2, DepositHolds
<1>3. ASSUME NEW amt \in Amount, Withdraw(amt)
      PROVE  HoldInv'
  BY <1>3, WithdrawHolds
<1>4. ASSUME NEW qty \in Qty, NEW price \in Price, PlaceOpen(qty, price)
      PROVE  HoldInv'
  BY <1>4, PlaceOpenHolds
<1>5. ASSUME NEW qty \in Qty, NEW price \in Price, PlaceFilled(qty, price)
      PROVE  HoldInv'
  BY <1>5, PlaceFilledHolds
<1>6. ASSUME NEW o \in OrderId, Fill(o)
      PROVE  HoldInv'
  BY <1>6, FillHolds
<1>7. ASSUME NEW o \in OrderId, Cancel(o)
      PROVE  HoldInv'
  BY <1>7, CancelHolds
<1> QED BY <1>1, <1>2, <1>3, <1>4, <1>5, <1>6, <1>7 DEF Next

LEMMA HoldInvariance == Spec => []HoldInv
<1>1. Init => HoldInv
  BY HoldInit
<1>2. HoldInv /\ [Next]_vars => HoldInv'
  BY HoldStep
<1> QED BY <1>1, <1>2, PTL DEF Spec

\* The frozen amount stays as close to what the open orders will release as their
\* roundings explain, and the three columns to their sum (DriftIsRounding), for any
\* scales of the columns, any requests and any number of orders.
THEOREM DriftStaysRounding == Spec => []DriftIsRounding
<1>1. HoldInv => DriftIsRounding
  <2> SUFFICES ASSUME HoldInv
               PROVE  DriftIsRounding
    OBVIOUS
  <2> DEFINE f == wallet.frozen - HeldOf(order)
             d == wallet.balance - wallet.available - wallet.frozen
             p == Cardinality(PlacedOf(order))
             n == Cardinality(OpenOf(order))
  <2>1. f \in Int /\ d \in Int /\ p \in Nat /\ n \in Nat /\ loose \in Nat
    BY HoldNumbers
  <2>2. Drifted(f, d, p, n, loose)
    BY DEF HoldInv
  <2>3. /\ Held = HeldOf(order)
        /\ Placed = PlacedOf(order)
    BY DEF Held, HeldOf, Placed, PlacedOf, Hold, Open, IsOpen, RowAmount
  <2> HIDE DEF f, d, p, n
  <2>4. WalletUnit * n >= 0
    BY <2>1, SlackNatural, SMT
  <2>5. Slack * p \in Int /\ WalletUnit * (2 * p + loose) \in Int /\ WalletUnit * n \in Int
    BY <2>1, SlackNatural, SMT
  <2>6. Abs(f) <= Slack * p /\ Abs(d) <= WalletUnit * (2 * p + loose)
    <3>1. Abs(f) \in Int /\ Abs(d) \in Int
      BY <2>1 DEF Abs
    <3> QED BY <2>2, <2>4, <2>5, <3>1 DEF Drifted
  <2> QED BY <2>3, <2>6 DEF DriftIsRounding, f, d, p
<1> QED BY <1>1, HoldInvariance, PTL

\* As long as no request had digits the columns cannot hold, the books of the wallet
\* are exact and nothing stays frozen for closed orders (ExactHolds).
THEOREM HoldsAreExact == Spec => []ExactHolds
<1>1. HoldInv => ExactHolds
  <2> SUFFICES ASSUME HoldInv, exact
               PROVE  /\ wallet.balance = wallet.available + wallet.frozen
                      /\ (\A o \in OrderId : ~IsOpen(o)) => wallet.frozen = 0
    BY DEF ExactHolds
  <2>1. Whole(wallet, order)
    BY DEF HoldInv
  <2>2. ASSUME \A o \in OrderId : ~IsOpen(o)
        PROVE  HeldOf(order) = 0
    <3> DEFINE f == [o \in 1 .. MaxOrders |-> Hold(order[o])]
    <3>1. \A o \in 1 .. MaxOrders : f[o] = 0
      BY <2>2 DEF Hold, Open, IsOpen, OrderId
    <3>2. f \in [1 .. MaxOrders -> Int]
      BY <3>1
    <3>3. HeldOf(order) = Sum(f, MaxOrders)
      BY DEF HeldOf, OrderId
    <3> HIDE DEF f
    <3> QED BY <3>1, <3>2, <3>3, SumZero, SlackNatural
  <2> QED BY <2>1, <2>2 DEF Whole
<1> QED BY <1>1, HoldInvariance, PTL

-----------------------------------------------------------------------------
\* The oldest a payload can be when a ticker is made from it, and the oldest of n
\* tickers, the others of which have had to wait for the last.
OldestPayload == Patience + Delay + InnerTTL - 1
Oldest(n) == OldestPayload + (n - 1) * PairTime

\* Listed, Rest and OldestServed of a call of kind k.
Size(k) == IF k = "tickers" THEN Pairs ELSE 1
Idle(k) == [at |-> "rest", todo |-> Size(k), try |-> 0, got |-> "down",
            fresh |-> 0, age |-> 0, real |-> TRUE, wait |-> 0]
OldestOf(k) == IF k = "price" THEN OldestPayload ELSE Oldest(Size(k)) + Delay + OuterTTL - 1

\* How long a call may have been at work on the next pair, or on the store.
Spent(call) ==
    CASE call.at = "ask" -> Delay + (call.try - 1) * Patience + call.wait
      [] call.at = "keep" -> Delay + 2 * Patience + call.wait
      [] OTHER -> call.wait

\* Something is not too old; and if it is simulated, then because of what a call
\* met that began Patience before, when the hosts had not settled.
Within(since, age, real, bound) ==
    /\ age <= bound
    /\ ~real => since <= Patience + bound

Entry == [left : Nat, age : Nat, real : BOOLEAN]
Call == [at : {"rest", "inner", "ask", "keep", "store", "served"}, todo : Nat, try : 0 .. 2,
         got : {"up", "down", "odd"}, fresh : Nat, age : Nat, real : BOOLEAN, wait : Nat]

\* A call is where it is with as many pairs to do as that place has, and has not
\* been there too long.
Standing(k, call) ==
    /\ call.at = "rest" => call = Idle(k)
    /\ call.at \in {"inner", "ask", "keep"} => call.todo >= 1 /\ call.todo <= Size(k)
    /\ call.at = "store" => call.todo = 0 /\ k # "price"
    /\ call.wait <= Budget(call)
    /\ call.at = "ask" => call.try \in {1, 2}

\* The host that was asked is not as it should be, or no longer as it was.
Asking(call, since, hosts) ==
    /\ call.try = 1 /\ (call.got = "odd" \/ call.got # hosts[1]) => since <= call.wait
    /\ call.try = 2 /\ call.got # "up" => since <= Patience + call.wait

Keeping(call, since) ==
    /\ call.fresh <= Patience + call.wait
    /\ call.got # "up" => since <= Patience + call.fresh

\* The pairs that were made before the one at hand.
Others(k, call, since, bound) ==
    /\ call.todo = Size(k) => call.age = 0 /\ call.real
    /\ call.todo < Size(k) =>
           Within(since, call.age, call.real, Oldest(Size(k) - call.todo) + bound)

Fits(k, call, since, hosts) ==
    /\ call \in Call
    /\ Standing(k, call)
    /\ call.at = "ask" => Asking(call, since, hosts)
    /\ call.at = "keep" => Keeping(call, since)
    /\ call.at \in {"inner", "ask", "keep", "store"} => Others(k, call, since, Spent(call))
    /\ call.at = "served" => Within(since, call.age, call.real, OldestOf(k))

InnerFits(entry, since) ==
    /\ entry \in Entry
    /\ entry.left > 0 =>
           /\ entry.age + entry.left <= Patience + Delay + InnerTTL
           /\ ~entry.real => since <= Patience + entry.age

OuterFits(k, entry, since) ==
    /\ entry \in Entry
    /\ entry.left > 0 =>
           Within(since, entry.age, entry.real, Oldest(Size(k)) + Delay + OuterTTL - entry.left)

MarketInv ==
    /\ kind \in Kind
    /\ host \in [Hosts -> {"up", "down", "odd"}]
    /\ settled \in Nat
    /\ ~Healthy => settled = 0
    /\ InnerFits(inner, settled)
    /\ OuterFits(kind, outer, settled)
    /\ reader = [r \in Reader |-> reader[r]]
    /\ \A r \in Reader : Fits(kind, reader[r], settled, host)

-----------------------------------------------------------------------------
LEMMA Numbers ==
    /\ InnerTTL \in Nat /\ OuterTTL \in Nat /\ Patience \in Nat /\ Pairs \in Nat
    /\ InnerTTL >= 1 /\ OuterTTL >= 1 /\ Patience >= 1 /\ Pairs >= 1
    /\ Delay \in Nat
BY MarketAssumption

LEMMA OldestLaws ==
    /\ PairTime = 2 * Delay + 2 * Patience
    /\ OldestPayload \in Nat /\ Patience + Delay <= OldestPayload
    /\ \A n \in Nat : n >= 1 => Oldest(n) \in Nat /\ OldestPayload <= Oldest(n)
    /\ Oldest(1) = OldestPayload
    /\ \A n \in Nat : Oldest(n + 1) = Oldest(n) + PairTime
<1>1. PairTime = 2 * Delay + 2 * Patience /\ PairTime \in Nat
  BY Numbers DEF PairTime
<1>2. OldestPayload \in Nat /\ Patience + Delay <= OldestPayload
  BY Numbers DEF OldestPayload
<1>3. ASSUME NEW n \in Nat, n >= 1 PROVE Oldest(n) \in Nat /\ OldestPayload <= Oldest(n)
  <2>1. (n - 1) * PairTime \in Nat
    BY <1>1, <1>3
  <2> QED BY <1>2, <2>1 DEF Oldest
<1>4. Oldest(1) = OldestPayload
  BY <1>1, <1>2 DEF Oldest
<1>5. ASSUME NEW n \in Nat PROVE Oldest(n + 1) = Oldest(n) + PairTime
  <2>1. (n + 1 - 1) * PairTime = (n - 1) * PairTime + PairTime /\ (n - 1) * PairTime \in Int
    BY <1>1
  <2> QED BY <1>1, <1>2, <2>1 DEF Oldest
<1> QED BY <1>1, <1>2, <1>3, <1>4, <1>5

LEMMA Sizes ==
    ASSUME NEW k \in Kind
    PROVE  /\ Size(k) \in Nat /\ Size(k) >= 1
           /\ k = "price" => Size(k) = 1
           /\ Oldest(Size(k)) \in Nat /\ OldestPayload <= Oldest(Size(k))
           /\ OldestOf(k) \in Nat /\ Oldest(Size(k)) <= OldestOf(k)
           /\ k # "price" => OldestOf(k) = Oldest(Size(k)) + Delay + OuterTTL - 1
<1>1. Size(k) \in Nat /\ Size(k) >= 1 /\ (k = "price" => Size(k) = 1)
  BY Numbers DEF Size
<1>2. Oldest(Size(k)) \in Nat /\ OldestPayload <= Oldest(Size(k)) /\ OldestPayload \in Nat
      /\ Oldest(1) = OldestPayload
  BY <1>1, OldestLaws
<1> QED BY <1>1, <1>2, Numbers DEF OldestOf

LEMMA OfKind ==
    ASSUME kind \in Kind
    PROVE  /\ Listed = Size(kind) /\ Rest = Idle(kind)
           /\ Nested <=> kind # "price"
           /\ OldestServed = OldestOf(kind)
<1>1. Listed = Size(kind) /\ (Nested <=> kind # "price")
  BY DEF Listed, Size, Nested
<1>2. Rest = Idle(kind)
  BY <1>1 DEF Rest, Idle
<1>3. OldestServed = OldestOf(kind)
  <2>1. Size(kind) \in Nat /\ PairTime \in Nat /\ (Size(kind) - 1) * PairTime \in Int
        /\ OldestPayload \in Nat
    BY Sizes, OldestLaws, Numbers
  <2> QED BY <1>1, <2>1, Numbers DEF OldestServed, OldestOf, Oldest, OldestPayload
<1> QED BY <1>1, <1>2, <1>3

LEMMA WithinMore ==
    ASSUME NEW since \in Nat, NEW age \in Nat, NEW real, NEW a \in Int, NEW b \in Int,
           Within(since, age, real, a), a <= b
    PROVE  Within(since, age, real, b)
BY Numbers DEF Within

-----------------------------------------------------------------------------
\* One more pair has been made, from something that was not too old.
LEMMA MadeFits ==
    ASSUME kind \in Kind, NEW c \in Call, c.todo >= 1, c.todo <= Size(kind),
           NEW a \in Nat, a <= OldestPayload, NEW v \in BOOLEAN, NEW s \in Nat, NEW h,
           ~v => s <= Patience + OldestPayload,
           Others(kind, c, s, PairTime)
    PROVE  Fits(kind, Made(c, a, v), s, h)
<1> DEFINE n == c.todo - 1
           done == Size(kind) - c.todo
           age == Older(c.age, a)
<1>1. /\ c.todo \in Nat /\ n \in Nat /\ c.age \in Nat /\ age \in Nat /\ c.real \in BOOLEAN
      /\ age \in {c.age, a} /\ c.age <= age /\ a <= age
      /\ Size(kind) \in Nat /\ done \in Nat /\ done + 1 = Size(kind) - n
  BY Sizes DEF Call, Older
<1>2. PICK real \in BOOLEAN : real = (c.real /\ v)
  BY Zenon
<1>3. PICK at : at = IF n > 0 THEN "inner" ELSE IF Nested THEN "store" ELSE "served"
  OBVIOUS
<1>4. Made(c, a, v) = [at |-> at, todo |-> n, try |-> 0, got |-> "down", fresh |-> 0,
                       age |-> age, real |-> real, wait |-> 0]
  <2>1. PICK m : m = [c EXCEPT !.todo = n, !.fresh = 0, !.try = 0, !.got = "down",
                               !.age = age, !.real = real]
    OBVIOUS
  <2>2. m = [at |-> c.at, todo |-> n, try |-> 0, got |-> "down", fresh |-> 0,
             age |-> age, real |-> real, wait |-> c.wait]
    BY <2>1 DEF Call
  <2>3. m = [c EXCEPT !.todo = @ - 1, !.fresh = 0, !.try = 0, !.got = "down",
                      !.age = Older(@, a), !.real = @ /\ v]
    BY <1>2, <2>1
  <2>4. Made(c, a, v) = [m EXCEPT !.at = at, !.wait = 0]
    <3>1. Made(c, a, v) = Goes(m, IF m.todo > 0 THEN "inner" ELSE IF Nested THEN "store" ELSE "served")
      BY <2>3, Zenon DEF Made
    <3>2. m.todo = n
      BY <2>2
    <3> QED BY <1>3, <3>1, <3>2, Zenon DEF Goes
  <2> QED BY <2>2, <2>4
<1>5. Within(s, age, real, Oldest(done + 1))
  <2>1. CASE done = 0
    <3>1. c.age = 0 /\ c.real /\ Oldest(done + 1) = OldestPayload
      <4>1. c.todo = Size(kind)
        BY <1>1, <2>1
      <4>2. done + 1 = 1
        BY <1>1, <2>1
      <4> HIDE DEF done
      <4> QED BY <4>1, <4>2, OldestLaws DEF Others
    <3>2. ~real => ~v
      BY <1>2, <3>1, Zenon
    <3> QED BY <1>1, <3>1, <3>2 DEF Within
  <2>2. CASE done > 0
    <3>1. /\ Within(s, c.age, c.real, Oldest(done) + PairTime)
          /\ Oldest(done + 1) = Oldest(done) + PairTime
          /\ OldestPayload <= Oldest(done + 1) /\ OldestPayload \in Nat
          /\ Oldest(done + 1) \in Nat
      BY <1>1, <2>2, OldestLaws DEF Others
    <3>2. ~real => ~v \/ ~c.real
      BY <1>2, Zenon
    <3> QED BY <1>1, <3>1, <3>2, Numbers DEF Within
  <2> QED BY <1>1, <2>1, <2>2
<1> HIDE DEF n, done, age
<1>6. PICK d : d = Made(c, a, v)
  OBVIOUS
<1>7. /\ d.at = at /\ d.todo = n /\ d.try = 0 /\ d.got = "down" /\ d.fresh = 0
      /\ d.age = age /\ d.real = real /\ d.wait = 0
  BY <1>4, <1>6
<1>8. n > 0 \/ n = 0
  BY <1>1
<1>9. at \in {"inner", "store", "served"}
  BY <1>3
<1>10. d \in Call
  BY <1>1, <1>2, <1>4, <1>6, <1>9 DEF Call
<1>11. CASE at = "inner"
  <2>1. n >= 1 /\ n < Size(kind)
    BY <1>1, <1>3, <1>8, <1>11 DEF done
  <2>2. Standing(kind, d)
    BY <1>1, <1>7, <1>11, <2>1, Numbers DEF Standing, Budget
  <2>3. Others(kind, d, s, Spent(d))
    <3>1. Spent(d) = 0
      BY <1>7, <1>11 DEF Spent
    <3>2. Oldest(Size(kind) - n) + 0 = Oldest(done + 1)
      <4>1. Oldest(done + 1) \in Nat
        BY <1>1, OldestLaws
      <4> QED BY <1>1, <4>1
    <3> QED BY <1>1, <1>5, <1>7, <2>1, <3>1, <3>2 DEF Others
  <2> QED BY <1>6, <1>7, <1>10, <1>11, <2>2, <2>3 DEF Fits
<1>12. CASE at = "store"
  <2>1. n = 0 /\ kind # "price"
    BY <1>1, <1>3, <1>8, <1>12 DEF Nested
  <2>2. Standing(kind, d)
    BY <1>1, <1>7, <1>12, <2>1, Numbers DEF Standing, Budget
  <2>3. Others(kind, d, s, Spent(d))
    <3>1. Spent(d) = 0
      BY <1>7, <1>12 DEF Spent
    <3>2. Oldest(Size(kind) - n) + 0 = Oldest(done + 1) /\ n < Size(kind)
      <4>1. Oldest(done + 1) \in Nat
        BY <1>1, OldestLaws
      <4> QED BY <1>1, <2>1, <4>1
    <3> QED BY <1>1, <1>5, <1>7, <3>1, <3>2 DEF Others
  <2> QED BY <1>6, <1>7, <1>10, <1>12, <2>2, <2>3 DEF Fits
<1>13. CASE at = "served"
  <2>1. n = 0 /\ kind = "price"
    BY <1>1, <1>3, <1>8, <1>13 DEF Nested
  <2>2. Standing(kind, d)
    BY <1>7, <1>13 DEF Standing, Budget
  <2>3. Within(s, d.age, d.real, OldestOf(kind))
    <3>1. done + 1 = Size(kind)
      BY <1>1, <2>1
    <3>2. Oldest(Size(kind)) <= OldestOf(kind) /\ Oldest(Size(kind)) \in Nat /\ OldestOf(kind) \in Nat
      BY Sizes
    <3> QED BY <1>1, <1>5, <1>7, <3>1, <3>2, WithinMore
  <2> QED BY <1>6, <1>7, <1>10, <1>13, <2>2, <2>3 DEF Fits
<1> QED BY <1>9, <1>11, <1>12, <1>13

\* A step of one call, that leaves the hosts and the others as they are.
LEMMA OneCall ==
    ASSUME MarketInv, NEW r \in Reader, NEW d, Fits(kind, d, settled, host), Set(r, d),
           UNCHANGED <<kind, host, settled>>,
           InnerFits(inner', settled), OuterFits(kind, outer', settled)
    PROVE  MarketInv'
<1>1. reader' = [reader EXCEPT ![r] = d]
  BY DEF Set
<1>2. reader' = [q \in Reader |-> IF q = r THEN d ELSE reader[q]]
  BY <1>1 DEF MarketInv
<1>3. \A q \in Reader : Fits(kind, reader'[q], settled, host)
  BY <1>2 DEF MarketInv
<1>4. reader' = [q \in Reader |-> reader'[q]]
  BY <1>2
<1>5. Healthy' <=> Healthy
  BY DEF Healthy
<1> QED BY <1>3, <1>4, <1>5 DEF MarketInv

\* What is known of a call in a reachable state.
LEMMA CallOf ==
    ASSUME MarketInv, NEW r \in Reader, NEW c, c = reader[r]
    PROVE  /\ Fits(kind, c, settled, host) /\ c \in Call /\ Standing(kind, c)
           /\ c.todo \in Nat /\ c.fresh \in Nat /\ c.age \in Nat /\ c.wait \in Nat
           /\ c.try \in 0 .. 2 /\ c.real \in BOOLEAN
           /\ kind \in Kind /\ settled \in Nat /\ host \in [Hosts -> {"up", "down", "odd"}]
           /\ c.wait <= Budget(c)
BY DEF MarketInv, Fits, Call, Standing

\* What was made before waits no longer for the next pair than PairTime.
LEMMA OthersMore ==
    ASSUME NEW k \in Kind, NEW c \in Call, NEW s \in Nat, NEW a \in Nat, NEW b \in Nat,
           a <= b, Others(k, c, s, a)
    PROVE  Others(k, c, s, b)
<1>1. c.todo \in Nat /\ c.age \in Nat /\ Size(k) \in Nat
  BY Sizes DEF Call
<1>2. CASE c.todo < Size(k)
  <2>1. PICK n \in Nat : n = Size(k) - c.todo /\ n >= 1
    BY <1>1, <1>2
  <2>2. Oldest(n) \in Nat
    BY <2>1, OldestLaws
  <2>3. Within(s, c.age, c.real, Oldest(n) + a)
    BY <1>2, <2>1 DEF Others
  <2>4. Within(s, c.age, c.real, Oldest(n) + b)
    BY <1>1, <2>2, <2>3, WithinMore
  <2> QED BY <1>1, <1>2, <2>1, <2>4 DEF Others
<1> QED BY <1>1, <1>2 DEF Others

LEMMA IdleFits ==
    ASSUME NEW k \in Kind, NEW s \in Nat, NEW h
    PROVE  Fits(k, Idle(k), s, h)
<1>1. PICK d : d = Idle(k)
  OBVIOUS
<1>2. d \in Call
  BY <1>1, Sizes DEF Idle, Call
<1>3. d.at = "rest" /\ d.wait = 0
  BY <1>1 DEF Idle
<1> QED BY <1>1, <1>2, <1>3 DEF Fits, Standing, Budget

\* A call that looks the next pair's payload up: it begins with it, or goes on to it.
LEMMA AtInner ==
    ASSUME MarketInv, NEW r \in Reader, ReadsInner(r), NEW c, c = reader[r]
    PROVE  /\ c.todo >= 1 /\ c.todo <= Size(kind)
           /\ \E w \in Nat : w <= Delay /\ Others(kind, c, settled, w)
<1>1. CASE c.at = "inner"
  <2>1. c.wait \in Nat /\ c.wait <= Delay /\ Spent(c) = c.wait
    BY <1>1, CallOf DEF Budget, Spent
  <2> QED BY <1>1, <2>1, CallOf DEF Fits, Standing
<1>2. CASE c.at = "rest"
  <2>1. c = Idle(kind) /\ Size(kind) \in Nat /\ Size(kind) >= 1
    BY <1>2, CallOf, Sizes DEF Standing
  <2>2. c.todo = Size(kind) /\ c.age = 0 /\ c.real
    BY <2>1 DEF Idle
  <2>3. ~(c.todo < Size(kind))
    BY <2>1, <2>2
  <2>4. Others(kind, c, settled, 0)
    BY <2>2, <2>3, Zenon DEF Others
  <2> QED BY <2>1, <2>2, <2>4, Numbers
<1> QED BY <1>1, <1>2 DEF ReadsInner, ReadAt

\* A call that asks the first host, or the next.
LEMMA AskedFits ==
    ASSUME MarketInv, NEW r \in Reader, NEW c, c = reader[r], NEW h \in {1, 2},
           c.todo >= 1, c.todo <= Size(kind),
           Others(kind, c, settled, Delay + (h - 1) * Patience),
           h = 2 /\ host[2] # "up" => settled <= Patience
    PROVE  Fits(kind, Asked(c, h), settled, host)
<1>1. PICK got \in {"up", "down", "odd"} : got = host[h]
  BY CallOf DEF Hosts
<1>2. PICK d : d = Asked(c, h)
  OBVIOUS
<1>3. d = [at |-> "ask", todo |-> c.todo, try |-> h, got |-> got, fresh |-> c.fresh,
           age |-> c.age, real |-> c.real, wait |-> 0]
  <2>1. PICK m : m = [c EXCEPT !.try = h, !.got = got]
    OBVIOUS
  <2>2. m = [at |-> c.at, todo |-> c.todo, try |-> h, got |-> got, fresh |-> c.fresh,
             age |-> c.age, real |-> c.real, wait |-> c.wait]
    <3>1. c \in Call
      BY CallOf
    <3> QED BY <2>1, <3>1 DEF Call
  <2>3. d = [m EXCEPT !.at = "ask", !.wait = 0]
    BY <1>1, <1>2, <2>1 DEF Asked, Goes
  <2> QED BY <2>2, <2>3
<1>4. /\ d.at = "ask" /\ d.todo = c.todo /\ d.try = h /\ d.got = got /\ d.age = c.age
      /\ d.real = c.real /\ d.wait = 0
  BY <1>3
<1>5. d \in Call
  BY <1>1, <1>3, CallOf DEF Call
<1>6. Standing(kind, d)
  BY <1>4, CallOf, Numbers DEF Standing, Budget
<1>7. Asking(d, settled, host)
  <2>1. h = 1 /\ got = "odd" => settled = 0
    BY <1>1 DEF MarketInv, Healthy
  <2> QED BY <1>1, <1>4, <2>1, CallOf, Numbers DEF Asking
<1>8. Others(kind, d, settled, Spent(d))
  <2>1. Spent(d) = Delay + (h - 1) * Patience + 0
    BY <1>4 DEF Spent
  <2>2. Spent(d) = Delay + (h - 1) * Patience
    BY <2>1, Numbers
  <2> QED BY <1>4, <2>2 DEF Others
<1> QED BY <1>2, <1>4, <1>5, <1>6, <1>7, <1>8 DEF Fits

LEMMA ReadOuterInv ==
    ASSUME MarketInv, NEW r \in Reader, ReadOuter(r)
    PROVE  MarketInv'
<1>1. PICK c : c = reader[r]
  OBVIOUS
<1>2. /\ c = Idle(kind) /\ Rest = Idle(kind) /\ kind # "price" /\ kind \in Kind
      /\ Size(kind) \in Nat /\ Size(kind) >= 1 /\ settled \in Nat
  BY <1>1, CallOf, OfKind, Sizes DEF ReadOuter, ReadAt, Standing
<1>3. InnerFits(inner', settled) /\ OuterFits(kind, outer', settled)
  BY DEF ReadOuter, MarketInv
<1>4. CASE Hit(outer) /\ Set(r, [Rest EXCEPT !.at = "served", !.todo = 0, !.age = outer.age,
                                             !.real = outer.real])
  <2>1. PICK d : d = [Rest EXCEPT !.at = "served", !.todo = 0, !.age = outer.age,
                                  !.real = outer.real]
    OBVIOUS
  <2>2. outer.left \in Nat /\ outer.left >= 1 /\ outer.age \in Nat /\ outer.real \in BOOLEAN
        /\ Within(settled, outer.age, outer.real,
                  Oldest(Size(kind)) + Delay + OuterTTL - outer.left)
    BY <1>4 DEF Hit, MarketInv, OuterFits, Entry
  <2>3. d = [at |-> "served", todo |-> 0, try |-> 0, got |-> "down", fresh |-> 0,
             age |-> outer.age, real |-> outer.real, wait |-> 0]
    BY <1>2, <2>1 DEF Idle
  <2>4. d \in Call
    BY <2>2, <2>3 DEF Call
  <2>5. d.at = "served" /\ d.age = outer.age /\ d.real = outer.real /\ d.wait = 0
    BY <2>3
  <2>6. Within(settled, d.age, d.real, OldestOf(kind))
    <3>1. PICK b \in Int : b = Oldest(Size(kind)) + Delay + OuterTTL - outer.left
      BY <1>2, <2>2, Sizes, Numbers
    <3>2. b <= OldestOf(kind) /\ OldestOf(kind) \in Int
      BY <1>2, <2>2, <3>1, Sizes, Numbers
    <3> QED BY <1>2, <2>2, <2>5, <3>1, <3>2, WithinMore
  <2>7. Fits(kind, d, settled, host)
    BY <2>4, <2>5, <2>6 DEF Fits, Standing, Budget
  <2> QED BY <1>3, <1>4, <2>1, <2>7, OneCall DEF ReadOuter
<1>5. CASE Set(r, Goes(c, "inner"))
  <2>1. PICK d : d = Goes(c, "inner")
    OBVIOUS
  <2>2. d = [at |-> "inner", todo |-> Size(kind), try |-> 0, got |-> "down", fresh |-> 0,
             age |-> 0, real |-> TRUE, wait |-> 0]
    BY <1>2, <2>1 DEF Goes, Idle
  <2>3. d \in Call
    BY <1>2, <2>2 DEF Call
  <2>4. d.at = "inner" /\ d.todo = Size(kind) /\ d.age = 0 /\ d.real /\ d.wait = 0
    BY <2>2
  <2>5. Standing(kind, d)
    BY <1>2, <2>4, Numbers DEF Standing, Budget
  <2>6. ~(d.todo < Size(kind))
    BY <1>2, <2>4
  <2>7. Others(kind, d, settled, Spent(d))
    BY <2>4, <2>6, Zenon DEF Others
  <2>8. Fits(kind, d, settled, host)
    BY <2>3, <2>4, <2>5, <2>7 DEF Fits
  <2> QED BY <1>3, <1>5, <2>1, <2>8, OneCall DEF ReadOuter
<1> QED BY <1>1, <1>4, <1>5 DEF ReadOuter

LEMMA ReadInnerInv ==
    ASSUME MarketInv, NEW r \in Reader, ReadInner(r)
    PROVE  MarketInv'
<1>1. PICK c : c = reader[r]
  OBVIOUS
<1>2. PICK w \in Nat : w <= Delay /\ Others(kind, c, settled, w)
  BY <1>1, AtInner DEF ReadInner
<1>3. /\ c.todo >= 1 /\ c.todo <= Size(kind) /\ c \in Call /\ kind \in Kind
      /\ settled \in Nat
  BY <1>1, AtInner, CallOf DEF ReadInner
<1>4. InnerFits(inner', settled) /\ OuterFits(kind, outer', settled)
  BY DEF ReadInner, MarketInv
<1>5. CASE Hit(inner) /\ Set(r, IF inner.real THEN Made(c, inner.age, TRUE) ELSE Simulated(c))
  <2>1. /\ inner.left \in Nat /\ inner.left >= 1 /\ inner.age \in Nat
        /\ inner.age + inner.left <= Patience + Delay + InnerTTL
        /\ ~inner.real => settled <= Patience + inner.age
    BY <1>5 DEF Hit, MarketInv, InnerFits, Entry
  <2>2. inner.age <= OldestPayload
    BY <2>1, Numbers DEF OldestPayload
  <2>3. Others(kind, c, settled, PairTime)
    BY <1>2, <1>3, OthersMore, OldestLaws, Numbers
  <2>4. CASE inner.real
    <3>1. Fits(kind, Made(c, inner.age, TRUE), settled, host)
      BY <1>3, <2>1, <2>2, <2>3, MadeFits
    <3> QED BY <1>4, <1>5, <2>4, <3>1, OneCall DEF ReadInner
  <2>5. CASE ~inner.real
    <3>1. settled <= Patience + OldestPayload /\ 0 <= OldestPayload
      BY <1>3, <2>1, <2>2, <2>5, OldestLaws, Numbers
    <3>2. Fits(kind, Made(c, 0, FALSE), settled, host)
      BY <1>3, <2>3, <3>1, MadeFits
    <3> QED BY <1>4, <1>5, <2>5, <3>2, OneCall DEF ReadInner, Simulated
  <2> QED BY <2>4, <2>5
<1>6. CASE Set(r, Asked(c, 1))
  <2>1. Delay + (1 - 1) * Patience = Delay
    BY Numbers
  <2>2. Others(kind, c, settled, Delay)
    BY <1>2, <1>3, OthersMore, Numbers
  <2>3. Others(kind, c, settled, Delay + (1 - 1) * Patience)
    BY <2>1, <2>2
  <2>4. Fits(kind, Asked(c, 1), settled, host)
    BY <1>1, <1>3, <2>3, AskedFits
  <2> QED BY <1>4, <1>6, <2>4, OneCall DEF ReadInner
<1> QED BY <1>1, <1>5, <1>6 DEF ReadInner

LEMMA HostAnswersInv ==
    ASSUME MarketInv, NEW r \in Reader, HostAnswers(r)
    PROVE  MarketInv'
<1>1. PICK c : c = reader[r]
  OBVIOUS
<1>2. /\ c.at = "ask" /\ c \in Call /\ c.todo \in Nat /\ c.todo >= 1 /\ c.todo <= Size(kind)
      /\ c.try \in {1, 2} /\ c.wait \in Nat /\ c.wait <= Patience /\ kind \in Kind
      /\ settled \in Nat
      /\ Asking(c, settled, host) /\ Others(kind, c, settled, Spent(c))
  BY <1>1, CallOf DEF HostAnswers, ReadAt, Standing, Fits, Budget
<1>3. InnerFits(inner', settled) /\ OuterFits(kind, outer', settled)
  BY DEF HostAnswers, MarketInv
<1>4. Spent(c) = Delay + (c.try - 1) * Patience + c.wait
  BY <1>2 DEF Spent
<1>5. /\ Spent(c) \in Nat /\ Spent(c) <= Delay + 2 * Patience /\ Spent(c) <= PairTime
      /\ Delay + 2 * Patience \in Nat /\ PairTime \in Nat
      /\ c.try = 1 => Spent(c) <= Delay + Patience
  <2>1. CASE c.try = 1
    BY <1>2, <1>4, <2>1, OldestLaws, Numbers
  <2>2. CASE c.try = 2
    BY <1>2, <1>4, <2>2, OldestLaws, Numbers
  <2> QED BY <1>2, <2>1, <2>2
<1>6. ASSUME c.got = "odd" \/ (c.got = "down" /\ c.try = 2)
      PROVE  Fits(kind, Simulated(c), settled, host)
  <2>1. settled <= Patience + c.wait
    BY <1>2, <1>6, Numbers DEF Asking
  <2>2. settled <= Patience + OldestPayload /\ 0 <= OldestPayload
    BY <1>2, <2>1, OldestLaws, Numbers
  <2>3. Others(kind, c, settled, PairTime)
    BY <1>2, <1>5, OthersMore
  <2> QED BY <1>2, <2>2, <2>3, MadeFits DEF Simulated
<1>7. CASE c.got # "down" /\ Set(r, [Goes(c, "keep") EXCEPT !.fresh = c.wait])
  <2>1. PICK d, m : m = Goes(c, "keep") /\ d = [m EXCEPT !.fresh = c.wait]
    OBVIOUS
  <2>2. m = [at |-> "keep", todo |-> c.todo, try |-> c.try, got |-> c.got, fresh |-> c.fresh,
             age |-> c.age, real |-> c.real, wait |-> 0]
    BY <1>2, <2>1 DEF Goes, Call
  <2>3. d = [at |-> "keep", todo |-> c.todo, try |-> c.try, got |-> c.got, fresh |-> c.wait,
             age |-> c.age, real |-> c.real, wait |-> 0]
    BY <2>1, <2>2
  <2>4. d \in Call
    BY <1>2, <2>3 DEF Call
  <2>5. /\ d.at = "keep" /\ d.todo = c.todo /\ d.try = c.try /\ d.got = c.got
        /\ d.fresh = c.wait /\ d.age = c.age /\ d.real = c.real /\ d.wait = 0
    BY <2>3
  <2>6. Standing(kind, d)
    BY <1>2, <2>5, Numbers DEF Standing, Budget
  <2>7. Keeping(d, settled)
    <3>1. c.got = "odd" \/ c.got = "up"
      BY <1>2, <1>7 DEF Call
    <3> QED BY <1>2, <2>5, <3>1, Numbers DEF Asking, Keeping
  <2>8. Others(kind, d, settled, Spent(d))
    <3>1. Spent(d) = Delay + 2 * Patience + 0
      BY <2>5 DEF Spent
    <3>2. Spent(d) = Delay + 2 * Patience
      BY <1>5, <3>1
    <3>3. Others(kind, c, settled, Delay + 2 * Patience)
      BY <1>2, <1>5, OthersMore
    <3> QED BY <2>5, <3>2, <3>3 DEF Others
  <2>9. Fits(kind, d, settled, host)
    BY <2>4, <2>5, <2>6, <2>7, <2>8 DEF Fits
  <2> QED BY <1>3, <1>7, <2>1, <2>9, OneCall DEF HostAnswers
<1>8. CASE c.got = "odd" /\ Set(r, Simulated(c))
  BY <1>3, <1>6, <1>8, OneCall DEF HostAnswers
<1>9. CASE c.got = "down" /\ Set(r, IF c.try + 1 \in Hosts THEN Asked(c, c.try + 1)
                                                          ELSE Simulated(c))
  <2>1. CASE c.try = 1
    <3>1. c.try + 1 = 2 /\ c.try + 1 \in Hosts
      BY <2>1 DEF Hosts
    <3>2. host[2] # "up" => settled <= Patience
      <4>1. CASE host[1] = "down" /\ host[2] # "up"
        <5>1. ~Healthy
          BY <4>1 DEF Healthy
        <5> QED BY <5>1, Numbers DEF MarketInv
      <4>2. CASE host[1] # "down"
        BY <1>2, <1>9, <2>1, <4>2, Numbers DEF Asking
      <4> QED BY <4>1, <4>2
    <3>3. Delay + (2 - 1) * Patience = Delay + Patience /\ Delay + Patience \in Nat
      BY Numbers
    <3>4. Others(kind, c, settled, Delay + (2 - 1) * Patience)
      BY <1>2, <1>5, <2>1, <3>3, OthersMore
    <3>5. Fits(kind, Asked(c, 2), settled, host)
      BY <1>1, <1>2, <3>2, <3>4, AskedFits
    <3> QED BY <1>3, <1>9, <3>1, <3>5, OneCall DEF HostAnswers
  <2>2. CASE c.try = 2
    <3>1. c.try + 1 \notin Hosts
      BY <2>2 DEF Hosts
    <3> QED BY <1>3, <1>6, <1>9, <2>2, <3>1, OneCall DEF HostAnswers
  <2> QED BY <1>2, <2>1, <2>2
<1> QED BY <1>1, <1>7, <1>8, <1>9 DEF HostAnswers

LEMMA KeepPayloadInv ==
    ASSUME MarketInv, NEW r \in Reader, KeepPayload(r)
    PROVE  MarketInv'
<1>1. PICK c : c = reader[r]
  OBVIOUS
<1>2. /\ c.at = "keep" /\ c \in Call /\ c.todo \in Nat /\ c.todo >= 1 /\ c.todo <= Size(kind)
      /\ c.wait \in Nat /\ c.wait <= Delay /\ c.fresh \in Nat /\ kind \in Kind
      /\ settled \in Nat
      /\ Keeping(c, settled) /\ Others(kind, c, settled, Spent(c))
  BY <1>1, CallOf DEF KeepPayload, ReadAt, Standing, Fits, Budget
<1>3. OuterFits(kind, outer', settled)
  BY DEF KeepPayload, MarketInv
<1>4. c.fresh <= Patience + Delay /\ c.fresh <= OldestPayload
  BY <1>2, OldestLaws, Numbers DEF Keeping
<1>5. InnerFits(inner', settled)
  <2>1. CASE inner' = inner
    BY <2>1 DEF MarketInv
  <2>2. CASE inner' = [left |-> InnerTTL, age |-> c.fresh, real |-> c.got = "up"]
    <3>1. PICK real \in BOOLEAN : real = (c.got = "up")
      OBVIOUS
    <3>2. inner' = [left |-> InnerTTL, age |-> c.fresh, real |-> real]
      BY <2>2, <3>1
    <3>3. inner'.left = InnerTTL /\ inner'.age = c.fresh /\ inner'.real = real
      BY <3>2
    <3>4. inner' \in Entry
      BY <1>2, <3>2, Numbers DEF Entry
    <3>5. ~real => settled <= Patience + c.fresh
      BY <1>2, <3>1 DEF Keeping
    <3> QED BY <1>2, <1>4, <3>3, <3>4, <3>5, Numbers DEF InnerFits
  <2> QED BY <1>1, <2>1, <2>2 DEF KeepPayload
<1>6. Others(kind, c, settled, PairTime)
  <2>1. Spent(c) = Delay + 2 * Patience + c.wait
    BY <1>2 DEF Spent
  <2>2. Spent(c) \in Nat /\ Spent(c) <= PairTime /\ PairTime \in Nat
    BY <1>2, <2>1, OldestLaws, Numbers
  <2> QED BY <1>2, <2>2, OthersMore
<1>7. Set(r, IF c.got = "up" THEN Made(c, c.fresh, TRUE) ELSE Simulated(c))
  BY <1>1 DEF KeepPayload
<1>8. CASE c.got = "up"
  <2>1. Fits(kind, Made(c, c.fresh, TRUE), settled, host)
    BY <1>2, <1>4, <1>6, MadeFits
  <2> QED BY <1>3, <1>5, <1>7, <1>8, <2>1, OneCall DEF KeepPayload
<1>9. CASE c.got # "up"
  <2>1. settled <= Patience + OldestPayload /\ 0 <= OldestPayload
    BY <1>2, <1>4, <1>9, OldestLaws, Numbers DEF Keeping
  <2>2. Fits(kind, Made(c, 0, FALSE), settled, host)
    BY <1>2, <1>6, <2>1, MadeFits
  <2> QED BY <1>3, <1>5, <1>7, <1>9, <2>2, OneCall DEF KeepPayload, Simulated
<1> QED BY <1>8, <1>9

LEMMA StoreTickersInv ==
    ASSUME MarketInv, NEW r \in Reader, StoreTickers(r)
    PROVE  MarketInv'
<1>1. PICK c : c = reader[r]
  OBVIOUS
<1>2. /\ c.at = "store" /\ c \in Call /\ c.todo = 0 /\ c.age \in Nat /\ c.real \in BOOLEAN
      /\ c.wait \in Nat /\ c.wait <= Delay /\ kind \in Kind /\ kind # "price"
      /\ settled \in Nat /\ Size(kind) \in Nat /\ Size(kind) >= 1
      /\ Others(kind, c, settled, Spent(c))
  BY <1>1, CallOf, Sizes DEF StoreTickers, ReadAt, Standing, Fits, Budget
<1>3. InnerFits(inner', settled)
  BY DEF StoreTickers, MarketInv
<1>4. PICK b \in Nat : b = Oldest(Size(kind)) + c.wait
  BY <1>2, Sizes
<1>5. Within(settled, c.age, c.real, b)
  <2>1. Spent(c) = c.wait
    BY <1>2 DEF Spent
  <2>2. 0 < Size(kind) /\ Size(kind) - 0 = Size(kind)
    BY <1>2
  <2> QED BY <1>2, <1>4, <2>1, <2>2 DEF Others
<1>6. OuterFits(kind, outer', settled)
  <2>1. CASE outer' = outer
    BY <2>1 DEF MarketInv
  <2>2. CASE outer' = [left |-> OuterTTL, age |-> c.age, real |-> c.real]
    <3>1. outer'.left = OuterTTL /\ outer'.age = c.age /\ outer'.real = c.real
      BY <2>2
    <3>2. outer' \in Entry
      BY <1>2, <2>2, Numbers DEF Entry
    <3>3. PICK e \in Int : e = Oldest(Size(kind)) + Delay + OuterTTL - OuterTTL
      BY <1>2, Sizes, Numbers
    <3>4. b <= e
      BY <1>2, <1>4, <3>3, Sizes, Numbers
    <3>5. Within(settled, c.age, c.real, e)
      BY <1>2, <1>5, <3>4, WithinMore
    <3> QED BY <3>1, <3>2, <3>3, <3>5 DEF OuterFits
  <2> QED BY <1>1, <2>1, <2>2 DEF StoreTickers
<1>7. PICK d : d = Goes(c, "served")
  OBVIOUS
<1>8. d = [at |-> "served", todo |-> c.todo, try |-> c.try, got |-> c.got, fresh |-> c.fresh,
           age |-> c.age, real |-> c.real, wait |-> 0]
  BY <1>2, <1>7 DEF Goes, Call
<1>9. d \in Call
  BY <1>2, <1>8 DEF Call
<1>10. d.at = "served" /\ d.age = c.age /\ d.real = c.real /\ d.wait = 0
  BY <1>8
<1>11. Within(settled, d.age, d.real, OldestOf(kind))
  <2>1. b <= OldestOf(kind) /\ OldestOf(kind) \in Nat
    BY <1>2, <1>4, Sizes, Numbers
  <2> QED BY <1>2, <1>5, <1>10, <2>1, WithinMore
<1>12. Fits(kind, d, settled, host)
  BY <1>9, <1>10, <1>11 DEF Fits, Standing, Budget
<1> QED BY <1>1, <1>3, <1>6, <1>7, <1>12, OneCall DEF StoreTickers

LEMMA ReturnInv ==
    ASSUME MarketInv, NEW r \in Reader, Return(r)
    PROVE  MarketInv'
<1>1. Rest = Idle(kind) /\ kind \in Kind /\ settled \in Nat
  BY OfKind DEF MarketInv
<1>2. Fits(kind, Rest, settled, host)
  BY <1>1, IdleFits
<1>3. InnerFits(inner', settled) /\ OuterFits(kind, outer', settled)
  BY DEF Return, MarketInv
<1> QED BY <1>2, <1>3, OneCall DEF Return

-----------------------------------------------------------------------------
\* When a host changes, nothing has been settled for long.
LEMMA FitsAnew ==
    ASSUME NEW k \in Kind, NEW c, NEW s \in Nat, NEW h, NEW g, Fits(k, c, s, h)
    PROVE  Fits(k, c, 0, g)
<1>1. /\ c \in Call /\ c.wait \in Nat /\ c.fresh \in Nat /\ c.todo \in Nat /\ c.age \in Nat
      /\ c.try \in 0 .. 2 /\ Standing(k, c) /\ Size(k) \in Nat
  BY Sizes DEF Fits, Call
<1>2. c.at = "ask" => Asking(c, 0, g)
  BY <1>1, Numbers DEF Asking
<1>3. c.at = "keep" => Keeping(c, 0)
  BY <1>1, Numbers DEF Fits, Keeping
<1>4. ASSUME c.at \in {"inner", "ask", "keep", "store"} PROVE Others(k, c, 0, Spent(c))
  <2>1. c.at = "ask" => c.try \in {1, 2}
    BY <1>1 DEF Standing
  <2>2. Spent(c) \in Nat
    <3>1. CASE c.at = "ask"
      <4>1. Spent(c) = Delay + (c.try - 1) * Patience + c.wait
        BY <3>1 DEF Spent
      <4>2. c.try - 1 = 0 \/ c.try - 1 = 1
        BY <2>1, <3>1
      <4> QED BY <1>1, <4>1, <4>2, Numbers
    <3>2. CASE c.at = "keep"
      BY <1>1, <3>2, Numbers DEF Spent
    <3>3. CASE c.at # "ask" /\ c.at # "keep"
      BY <1>1, <3>3 DEF Spent
    <3> QED BY <3>1, <3>2, <3>3
  <2>3. Others(k, c, s, Spent(c))
    BY <1>4 DEF Fits
  <2>4. CASE c.todo < Size(k)
    <3>1. PICK n \in Nat : n = Size(k) - c.todo /\ n >= 1
      BY <1>1, <2>4
    <3>2. Oldest(n) \in Nat
      BY <3>1, OldestLaws
    <3>3. PICK b \in Nat : b = Oldest(n) + Spent(c)
      BY <2>2, <3>2
    <3>4. Within(s, c.age, c.real, b)
      BY <2>3, <2>4, <3>1, <3>3 DEF Others
    <3>5. Within(0, c.age, c.real, b)
      BY <3>4, Numbers DEF Within
    <3> QED BY <1>1, <2>4, <3>1, <3>3, <3>5 DEF Others
  <2> QED BY <1>1, <2>3, <2>4 DEF Others
<1>5. c.at = "served" => Within(0, c.age, c.real, OldestOf(k))
  BY Sizes, Numbers DEF Fits, Within
<1> QED BY <1>1, <1>2, <1>3, <1>4, <1>5 DEF Fits

LEMMA HostChangesInv ==
    ASSUME MarketInv, NEW g \in Hosts, NEW condition \in Condition(g), HostChanges(g, condition)
    PROVE  MarketInv'
<1>1. condition \in {"up", "down", "odd"}
  BY DEF Condition
<1>2. /\ host' = [host EXCEPT ![g] = condition] /\ settled' = 0 /\ kind' = kind
      /\ inner' = inner /\ outer' = outer /\ reader' = reader
      /\ kind \in Kind /\ settled \in Nat /\ host \in [Hosts -> {"up", "down", "odd"}]
  BY DEF HostChanges, MarketInv
<1>3. host' \in [Hosts -> {"up", "down", "odd"}]
  BY <1>1, <1>2
<1>4. \A r \in Reader : Fits(kind, reader[r], 0, host')
  BY <1>2, FitsAnew DEF MarketInv
<1>5. InnerFits(inner, 0)
  BY Numbers DEF MarketInv, InnerFits, Entry
<1>6. OuterFits(kind, outer, 0)
  <2>1. outer \in Entry
    BY DEF MarketInv, OuterFits
  <2>2. outer.left > 0 =>
            Within(settled, outer.age, outer.real, Oldest(Size(kind)) + Delay + OuterTTL - outer.left)
    BY DEF MarketInv, OuterFits
  <2>3. PICK b \in Int : b = Oldest(Size(kind)) + Delay + OuterTTL - outer.left
    BY <1>2, <2>1, Sizes, Numbers DEF Entry
  <2>4. ASSUME outer.left > 0 PROVE Within(0, outer.age, outer.real, b)
    <3>1. Within(settled, outer.age, outer.real, b)
      BY <2>2, <2>3, <2>4
    <3>2. outer.age \in Nat
      BY <2>1 DEF Entry
    <3> QED BY <3>1, <3>2, Numbers DEF Within
  <2> QED BY <2>1, <2>3, <2>4 DEF OuterFits
<1> QED BY <1>2, <1>3, <1>4, <1>5, <1>6 DEF MarketInv

LEMMA WithinTick ==
    ASSUME NEW s \in Nat, NEW t \in {s, s + 1}, NEW a \in Nat, NEW e \in {a, a + 1},
           NEW real, NEW b \in Int, Within(s, a, real, b)
    PROVE  Within(t, e, real, b + 1)
BY Numbers DEF Within

\* A second passes for a call,
LEMMA FitsLater ==
    ASSUME kind \in Kind, NEW c, NEW s \in Nat, NEW h, Fits(kind, c, s, h),
           NEW t \in {s, s + 1}, c.wait < Budget(c)
    PROVE  Fits(kind, Waited(c), t, h)
<1>1. /\ c \in Call /\ c.wait \in Nat /\ c.fresh \in Nat /\ c.todo \in Nat /\ c.age \in Nat
      /\ c.try \in 0 .. 2 /\ c.at \in {"rest", "inner", "ask", "keep", "store", "served"}
      /\ Standing(kind, c) /\ Size(kind) \in Nat /\ Size(kind) >= 1
      /\ t \in Nat
  BY Sizes DEF Fits, Call
<1>2. c.at # "served"
  BY <1>1 DEF Budget
<1>3. CASE c.at = "rest"
  <2>1. Waited(c) = c /\ c = Idle(kind)
    BY <1>1, <1>3 DEF Waited, Standing
  <2> QED BY <1>1, <2>1, IdleFits
<1>4. CASE c.at # "rest"
  <2>1. PICK fresh \in Nat : fresh = IF c.at = "keep" THEN c.fresh + 1 ELSE c.fresh
    BY <1>1
  <2>2. PICK age \in Nat : age = IF c.at = "store" \/ c.todo < Listed THEN c.age + 1 ELSE c.age
    BY <1>1
  <2>3. PICK d : d = Waited(c)
    OBVIOUS
  <2>4. d = [c EXCEPT !.wait = c.wait + 1, !.fresh = fresh, !.age = age]
    BY <1>4, <2>1, <2>2, <2>3 DEF Waited
  <2>5. d = [at |-> c.at, todo |-> c.todo, try |-> c.try, got |-> c.got, fresh |-> fresh,
             age |-> age, real |-> c.real, wait |-> c.wait + 1]
    BY <1>1, <2>4 DEF Call
  <2>6. d \in Call
    BY <1>1, <2>5 DEF Call
  <2>7. /\ d.at = c.at /\ d.todo = c.todo /\ d.try = c.try /\ d.got = c.got /\ d.fresh = fresh
        /\ d.age = age /\ d.real = c.real /\ d.wait = c.wait + 1
    BY <2>5
  <2>8. Budget(d) = Budget(c) /\ Budget(c) \in Nat
    BY <1>1, <2>7, Numbers DEF Budget
  <2>9. Standing(kind, d)
    BY <1>1, <1>4, <2>7, <2>8 DEF Standing
  <2>10. ASSUME c.at = "ask" PROVE Asking(d, t, h)
    <3>1. Asking(c, s, h)
      BY <2>10 DEF Fits
    <3> QED BY <1>1, <2>7, <3>1, Numbers DEF Asking
  <2>11. ASSUME c.at = "keep" PROVE Keeping(d, t)
    <3>1. Keeping(c, s) /\ fresh = c.fresh + 1
      BY <2>1, <2>11 DEF Fits
    <3> QED BY <1>1, <2>7, <3>1, Numbers DEF Keeping
  <2>12. ASSUME c.at \in {"inner", "ask", "keep", "store"} PROVE Others(kind, d, t, Spent(d))
    <3>1. Others(kind, c, s, Spent(c)) /\ Listed = Size(kind)
      BY <2>12, OfKind DEF Fits
    <3>2. Spent(c) \in Nat /\ Spent(d) = Spent(c) + 1
      <4>1. CASE c.at = "ask"
        <5>1. c.try - 1 = 0 \/ c.try - 1 = 1
          BY <1>1, <4>1 DEF Standing
        <5>2. PICK spent \in Nat : spent = Delay + (c.try - 1) * Patience
          BY <5>1, Numbers
        <5>3. Spent(c) = spent + c.wait /\ Spent(d) = spent + (c.wait + 1)
          BY <2>7, <4>1, <5>2 DEF Spent
        <5> QED BY <1>1, <5>3
      <4>2. CASE c.at = "keep"
        BY <1>1, <2>7, <4>2, Numbers DEF Spent
      <4>3. CASE c.at # "ask" /\ c.at # "keep"
        BY <1>1, <2>7, <4>3 DEF Spent
      <4> QED BY <4>1, <4>2, <4>3
    <3>3. CASE c.todo < Size(kind)
      <4>1. PICK n \in Nat : n = Size(kind) - c.todo /\ n >= 1
        BY <1>1, <3>3
      <4>2. Oldest(n) \in Nat
        BY <4>1, OldestLaws
      <4>3. PICK b \in Nat : b = Oldest(n) + Spent(c)
        BY <3>2, <4>2
      <4>4. Within(s, c.age, c.real, b)
        BY <3>1, <3>3, <4>1, <4>3 DEF Others
      <4>5. Within(t, d.age, d.real, b + 1)
        BY <1>1, <2>2, <2>7, <4>4, WithinTick
      <4>6. b + 1 = Oldest(n) + Spent(d)
        BY <3>2, <4>2, <4>3
      <4> QED BY <1>1, <2>7, <3>3, <4>1, <4>5, <4>6 DEF Others
    <3>4. CASE ~(c.todo < Size(kind))
      <4>1. c.at # "store"
        BY <1>1, <3>4 DEF Standing
      <4>2. age = c.age
        BY <2>2, <3>1, <3>4, <4>1
      <4> QED BY <2>7, <3>1, <3>4, <4>2 DEF Others
    <3> QED BY <3>3, <3>4
  <2> QED BY <1>2, <2>3, <2>6, <2>7, <2>9, <2>10, <2>11, <2>12 DEF Fits
<1> QED BY <1>3, <1>4

\* and for what is cached.
LEMMA AgedFits ==
    ASSUME NEW e \in Entry, NEW a, a = Aged(e)
    PROVE  \/ a \in Entry /\ a.left = 0
           \/ /\ a \in Entry /\ e.left > 0
              /\ a.left = e.left - 1 /\ a.age = e.age + 1 /\ a.real = e.real
<1>1. CASE e.left <= 1
  <2>1. a = Absent
    BY <1>1 DEF Aged
  <2> QED BY <2>1 DEF Absent, Entry
<1>2. CASE ~(e.left <= 1)
  <2>1. a = [e EXCEPT !.left = e.left - 1, !.age = e.age + 1]
    BY <1>2 DEF Aged
  <2>2. e.left - 1 \in Nat /\ e.age + 1 \in Nat /\ e.left > 0
    BY <1>2 DEF Entry
  <2>3. a = [left |-> e.left - 1, age |-> e.age + 1, real |-> e.real]
    BY <2>1 DEF Entry
  <2>4. a \in Entry
    BY <2>2, <2>3 DEF Entry
  <2> QED BY <2>2, <2>3, <2>4
<1> QED BY <1>1, <1>2

LEMMA MarketTickInv ==
    ASSUME MarketInv, MarketTick
    PROVE  MarketInv'
<1>1. /\ kind \in Kind /\ settled \in Nat /\ kind' = kind /\ host' = host
      /\ host \in [Hosts -> {"up", "down", "odd"}]
      /\ InnerFits(inner, settled) /\ OuterFits(kind, outer, settled)
  BY DEF MarketInv, MarketTick
<1>2. settled' \in {settled, settled + 1} /\ settled' \in Nat
  BY <1>1 DEF MarketTick
<1>3. ~Healthy' => settled' = 0
  BY <1>1 DEF MarketInv, MarketTick, Healthy
<1>4. reader' = [r \in Reader |-> reader'[r]]
      /\ \A r \in Reader : Fits(kind, reader'[r], settled', host)
  <2>1. reader' = [r \in Reader |-> Waited(reader[r])]
    BY DEF MarketTick
  <2>2. ASSUME NEW r \in Reader PROVE Fits(kind, Waited(reader[r]), settled', host)
    BY <1>1, <1>2, FitsLater DEF MarketInv, MarketTick
  <2> QED BY <2>1, <2>2
<1>5. InnerFits(inner', settled')
  <2>1. inner \in Entry /\ inner' = Aged(inner)
    BY <1>1 DEF InnerFits, MarketTick
  <2>2. CASE inner' \in Entry /\ inner'.left = 0
    BY <2>2 DEF InnerFits
  <2>3. CASE /\ inner' \in Entry /\ inner.left > 0
             /\ inner'.left = inner.left - 1 /\ inner'.age = inner.age + 1
             /\ inner'.real = inner.real
    BY <1>1, <1>2, <2>1, <2>3, Numbers DEF InnerFits, Entry
  <2> QED BY <2>1, <2>2, <2>3, AgedFits
<1>6. OuterFits(kind, outer', settled')
  <2>1. outer \in Entry /\ outer' = Aged(outer)
    BY <1>1 DEF OuterFits, MarketTick
  <2>2. CASE outer' \in Entry /\ outer'.left = 0
    BY <2>2 DEF OuterFits
  <2>3. CASE /\ outer' \in Entry /\ outer.left > 0
             /\ outer'.left = outer.left - 1 /\ outer'.age = outer.age + 1
             /\ outer'.real = outer.real
    <3>1. outer.left \in Nat /\ outer.age \in Nat
      BY <2>1 DEF Entry
    <3>2. PICK b \in Int : b = Oldest(Size(kind)) + Delay + OuterTTL - outer.left
      BY <1>1, <3>1, Sizes, Numbers
    <3>3. Within(settled, outer.age, outer.real, b)
      BY <1>1, <2>3, <3>2 DEF OuterFits
    <3>4. Within(settled', outer'.age, outer'.real, b + 1)
      BY <1>1, <1>2, <2>3, <3>1, <3>3, WithinTick
    <3>5. b + 1 = Oldest(Size(kind)) + Delay + OuterTTL - outer'.left
      BY <1>1, <2>3, <3>1, <3>2, Sizes, Numbers
    <3> QED BY <2>3, <3>4, <3>5 DEF OuterFits
  <2> QED BY <2>1, <2>2, <2>3, AgedFits
<1> QED BY <1>1, <1>2, <1>3, <1>4, <1>5, <1>6 DEF MarketInv

-----------------------------------------------------------------------------
LEMMA MarketInitInv == MarketInit => MarketInv
<1> SUFFICES ASSUME MarketInit PROVE MarketInv
  OBVIOUS
<1>1. kind \in Kind /\ settled = 0 /\ host \in [Hosts -> {"up", "down"}]
  BY DEF MarketInit
<1>2. reader = [r \in Reader |-> Idle(kind)]
  BY <1>1, OfKind DEF MarketInit
<1>3. \A r \in Reader : Fits(kind, reader[r], settled, host)
  <2>1. Fits(kind, Idle(kind), settled, host)
    BY <1>1, IdleFits
  <2> QED BY <1>2, <2>1
<1>4. InnerFits(inner, settled) /\ OuterFits(kind, outer, settled)
  <2>1. Absent \in Entry /\ Absent.left = 0
    BY DEF Absent, Entry
  <2> QED BY <2>1 DEF MarketInit, InnerFits, OuterFits
<1>5. reader = [r \in Reader |-> reader[r]]
  BY <1>2
<1>6. host \in [Hosts -> {"up", "down", "odd"}]
  BY <1>1
<1> QED BY <1>1, <1>3, <1>4, <1>5, <1>6 DEF MarketInv

LEMMA MarketNextInv == MarketInv /\ [MarketNext]_marketVars => MarketInv'
<1> SUFFICES ASSUME MarketInv, [MarketNext]_marketVars PROVE MarketInv'
  OBVIOUS
<1>1. CASE UNCHANGED marketVars
  BY <1>1 DEF marketVars, MarketInv, Healthy
<1>2. ASSUME NEW r \in Reader,
             ReadOuter(r) \/ ReadInner(r) \/ HostAnswers(r) \/ KeepPayload(r)
                 \/ StoreTickers(r) \/ Return(r)
      PROVE  MarketInv'
  BY <1>2, ReadOuterInv, ReadInnerInv, HostAnswersInv, KeepPayloadInv, StoreTickersInv, ReturnInv
<1>3. ASSUME NEW g \in Hosts, NEW condition \in Condition(g), HostChanges(g, condition)
      PROVE  MarketInv'
  BY <1>3, HostChangesInv
<1>4. CASE MarketTick
  BY <1>4, MarketTickInv
<1> QED BY <1>1, <1>2, <1>3, <1>4 DEF MarketNext

LEMMA MarketInvariance == MarketSpec => []MarketInv
BY MarketInitInv, MarketNextInv, PTL DEF MarketSpec

\* What the two levels of caches, slow hosts, a slow Redis and the other pairs of a
\* list add up to is the oldest that is served.
THEOREM NothingIsOlder == MarketSpec => []AgeBounded
<1>1. ASSUME MarketInv PROVE AgeBounded
  <2> SUFFICES ASSUME NEW r \in Reader, ReadAt(r, "served")
               PROVE  reader[r].age <= OldestServed
    BY DEF AgeBounded
  <2> QED BY <1>1, OfKind DEF MarketInv, Fits, Within, ReadAt
<1> QED BY <1>1, MarketInvariance, PTL

\* Real prices are back everywhere once the hosts have been healthy for as long.
THEOREM RealPricesReturn == MarketSpec => []RealReturns
<1>1. ASSUME MarketInv PROVE RealReturns
  <2> SUFFICES ASSUME settled > LastSimulated, NEW r \in Reader, ReadAt(r, "served")
               PROVE  reader[r].real
    BY DEF RealReturns
  <2>1. PICK c : c = reader[r]
    OBVIOUS
  <2>2. c \in Call /\ Within(settled, c.age, c.real, OldestOf(kind)) /\ OldestServed = OldestOf(kind)
        /\ settled \in Nat /\ OldestOf(kind) \in Nat
    BY <1>1, <2>1, OfKind, Sizes DEF MarketInv, Fits, ReadAt
  <2>3. ~(settled <= Patience + OldestOf(kind))
    BY <2>2, Numbers DEF LastSimulated
  <2> QED BY <2>1, <2>2, <2>3, Zenon DEF Within
<1> QED BY <1>1, MarketInvariance, PTL

-----------------------------------------------------------------------------
\* A total order R of a finite set S, and how many of S there are up to i in it.
Total(S, R) ==
    /\ \A i \in S : <<i, i>> \in R
    /\ \A i, j \in S : <<i, j>> \in R \/ <<j, i>> \in R
    /\ \A i, j \in S : <<i, j>> \in R /\ <<j, i>> \in R => i = j
    /\ \A i, j, k \in S : <<i, j>> \in R /\ <<j, k>> \in R => <<i, k>> \in R
UpTo(S, R, i) == {j \in S : <<j, i>> \in R}
Rank(S, R, i) == Cardinality(UpTo(S, R, i))

LEMMA RankType ==
    ASSUME NEW S, IsFiniteSet(S), NEW R, NEW i
    PROVE  /\ IsFiniteSet(UpTo(S, R, i))
           /\ Rank(S, R, i) \in Nat
           /\ Cardinality(S) \in Nat
           /\ Rank(S, R, i) <= Cardinality(S)
<1>1. UpTo(S, R, i) \subseteq S
  BY DEF UpTo
<1> QED BY <1>1, FS_Subset, FS_CardinalityType DEF Rank

\* Ranks follow the order, strictly.
LEMMA RankOrder ==
    ASSUME NEW S, IsFiniteSet(S), NEW R, Total(S, R), NEW i \in S, NEW j \in S,
           <<i, j>> \in R, i # j
    PROVE  Rank(S, R, i) < Rank(S, R, j)
<1>1. UpTo(S, R, i) \subseteq UpTo(S, R, j)
  BY DEF UpTo, Total
<1>2. j \in UpTo(S, R, j) /\ j \notin UpTo(S, R, i)
  BY DEF UpTo, Total
<1>3. UpTo(S, R, i) # UpTo(S, R, j)
  BY <1>2
<1> QED BY <1>1, <1>3, RankType, FS_Subset DEF Rank

\* The last of a set has the rank of its size.
LEMMA LastRank ==
    ASSUME NEW S, IsFiniteSet(S), NEW R, Total(S, R), S # {}
    PROVE  \E i \in S : UpTo(S, R, i) = S
<1> DEFINE n == Cardinality(S)
           T == {n - Rank(S, R, i) : i \in S}
<1>1. \A i \in S : Rank(S, R, i) \in Nat /\ n \in Nat /\ Rank(S, R, i) <= n
  BY RankType
<1>2. T \in SUBSET Nat /\ T # {}
  BY <1>1
<1>3. PICK m \in T : \A k \in T : m <= k
  <2> HIDE DEF T
  <2> QED BY <1>2, LeastElement
<1>4. PICK i \in S : m = n - Rank(S, R, i)
  OBVIOUS
<1>5. ASSUME NEW j \in S
      PROVE  <<j, i>> \in R
  <2> SUFFICES ASSUME <<j, i>> \notin R PROVE FALSE
    OBVIOUS
  <2>0. i # j
    BY DEF Total
  <2>1. <<i, j>> \in R
    BY DEF Total
  <2>2. Rank(S, R, i) < Rank(S, R, j)
    BY <2>0, <2>1, RankOrder
  <2>3. n - Rank(S, R, i) <= n - Rank(S, R, j)
    BY <1>3, <1>4
  <2> QED BY <1>1, <2>2, <2>3
<1> QED BY <1>5 DEF UpTo

\* Each rank is that of one element.
LEMMA RankExists ==
    ASSUME NEW S, IsFiniteSet(S), NEW R, Total(S, R), NEW k \in 1 .. Cardinality(S)
    PROVE  \E i \in S : Rank(S, R, i) = k
<1> DEFINE T == {Rank(S, R, i) : i \in {j \in S : Rank(S, R, j) >= k}}
<1>0. Cardinality(S) \in Nat /\ k \in Nat /\ 1 <= k /\ k <= Cardinality(S)
  BY RankType
<1>1. T \in SUBSET Nat
  BY RankType
<1>2. T # {}
  <2>1. S # {}
    BY <1>0, FS_EmptySet
  <2>2. PICK i \in S : UpTo(S, R, i) = S
    BY <2>1, LastRank
  <2>3. Rank(S, R, i) >= k
    BY <1>0, <2>2 DEF Rank
  <2> QED BY <2>3
<1>3. PICK m \in T : \A r \in T : m <= r
  <2> HIDE DEF T
  <2> QED BY <1>1, <1>2, LeastElement
<1>4. PICK i \in S : m = Rank(S, R, i) /\ m >= k
  OBVIOUS
<1>5. ASSUME m # k
      PROVE  FALSE
  <2> DEFINE U == UpTo(S, R, i) \ {i}
  <2>1. m \in Nat /\ m > k
    BY <1>0, <1>4, <1>5, RankType
  <2>2. i \in UpTo(S, R, i) /\ IsFiniteSet(UpTo(S, R, i)) /\ Cardinality(UpTo(S, R, i)) = m
    <3>1. i \in UpTo(S, R, i)
      BY DEF UpTo, Total
    <3>2. IsFiniteSet(UpTo(S, R, i))
      BY RankType
    <3> QED BY <1>4, <3>1, <3>2 DEF Rank
  <2>3. IsFiniteSet(U) /\ Cardinality(U) = m - 1
    BY <2>2, FS_RemoveElement
  <2>4. U # {}
    BY <1>0, <2>1, <2>3, FS_EmptySet
  <2>5. Total(U, R)
    BY DEF UpTo, Total
  <2>6. PICK j \in U : UpTo(U, R, j) = U
    BY <2>3, <2>4, <2>5, LastRank
  <2>7. UpTo(S, R, j) = U
    BY <2>6 DEF UpTo, Total
  <2>8. Rank(S, R, j) = m - 1 /\ j \in S
    BY <2>3, <2>7 DEF Rank, UpTo
  <2>9. m - 1 \in T
    BY <1>0, <2>1, <2>8
  <2> QED BY <1>3, <2>1, <2>9
<1> QED BY <1>4, <1>5

-----------------------------------------------------------------------------
\* What InOrder lists: the k-th level is at the position of rank k.
ListedIn(s, levels, at, R) ==
    /\ s = [k \in 1 .. Cardinality(at) |-> s[k]]
    /\ \A k \in 1 .. Cardinality(at) : \E i \in at :
           Rank(at, R, i) = k /\ s[k] = levels[i]
    /\ \A i \in at : /\ Rank(at, R, i) \in 1 .. Cardinality(at)
                   /\ s[Rank(at, R, i)] = levels[i]

LEMMA InOrderLists ==
    ASSUME NEW levels, NEW at, IsFiniteSet(at), NEW R, Total(at, R)
    PROVE  ListedIn(InOrder(levels, at, R), levels, at, R)
<1> DEFINE n == Cardinality(at)
           s == InOrder(levels, at, R)
<1>1. n \in Nat
  BY RankType
<1>2. ASSUME NEW k \in 1 .. n
      PROVE  \E i \in at : Rank(at, R, i) = k /\ s[k] = levels[i]
  <2> DEFINE i == CHOOSE j \in at : Rank(at, R, j) = k
  <2>1. \E j \in at : Rank(at, R, j) = k
    BY RankExists
  <2>2. i \in at /\ Rank(at, R, i) = k
    BY <2>1
  <2>3. s[k] = levels[i]
    BY DEF InOrder, Rank, UpTo
  <2> QED BY <2>2, <2>3
<1>3. ASSUME NEW i \in at
      PROVE  Rank(at, R, i) \in 1 .. n /\ s[Rank(at, R, i)] = levels[i]
  <2>1. Rank(at, R, i) \in Nat /\ Rank(at, R, i) <= n
    BY RankType
  <2>2. Rank(at, R, i) # 0
    <3>1. i \in UpTo(at, R, i)
      BY DEF UpTo, Total
    <3>2. IsFiniteSet(UpTo(at, R, i))
      BY RankType
    <3> QED BY <3>1, <3>2, FS_EmptySet DEF Rank
  <2>3. Rank(at, R, i) \in 1 .. n
    BY <1>1, <2>1, <2>2
  <2>4. PICK j \in at : Rank(at, R, j) = Rank(at, R, i) /\ s[Rank(at, R, i)] = levels[j]
    BY <1>2, <2>3
  <2>5. j = i
    <3> SUFFICES ASSUME j # i PROVE FALSE
      OBVIOUS
    <3>1. CASE <<i, j>> \in R
      <4>1. Rank(at, R, i) < Rank(at, R, j)
        BY <3>1, RankOrder
      <4> QED BY <2>1, <2>4, <4>1
    <3>2. CASE <<j, i>> \in R
      <4>1. Rank(at, R, j) < Rank(at, R, i)
        BY <3>2, RankOrder
      <4> QED BY <2>1, <2>4, <4>1
    <3> QED BY <3>1, <3>2 DEF Total
  <2> QED BY <2>3, <2>4, <2>5
<1>4. s = [k \in 1 .. n |-> s[k]]
  BY DEF InOrder
<1> HIDE DEF n, s
<1> QED BY <1>1, <1>2, <1>3, <1>4 DEF n, s, ListedIn

LEMMA InOrderType ==
    ASSUME NEW levels, levels \in Seq(Int), NEW at, at \subseteq 1 .. Len(levels),
           NEW R, Total(at, R)
    PROVE  /\ IsFiniteSet(at)
           /\ Cardinality(at) \in Nat /\ Cardinality(at) <= Len(levels)
           /\ InOrder(levels, at, R) \in Seq(Int)
           /\ Len(InOrder(levels, at, R)) = Cardinality(at)
<1>1. Len(levels) \in Nat /\ \A i \in 1 .. Len(levels) : levels[i] \in Int
  OBVIOUS
<1>2. /\ IsFiniteSet(1 .. Len(levels))
      /\ Cardinality(1 .. Len(levels)) = Len(levels)
  <2>1. PICK l \in Nat : l = Len(levels)
    BY <1>1
  <2>2. IsFiniteSet(1 .. l) /\ Cardinality(1 .. l) = IF 1 > l THEN 0 ELSE l - 1 + 1
    BY FS_Interval
  <2>3. Cardinality(1 .. l) = l
    BY <2>2
  <2> QED BY <2>1, <2>2, <2>3
<1>3. /\ IsFiniteSet(at) /\ Cardinality(at) <= Len(levels)
  BY <1>2, FS_Subset
<1>4. ListedIn(InOrder(levels, at, R), levels, at, R)
  BY <1>3, InOrderLists
<1> DEFINE n == Cardinality(at)
           s == InOrder(levels, at, R)
<1>5. n \in Nat
  BY <1>3, FS_CardinalityType
<1> HIDE DEF n, s
<1>6. s \in [1 .. n -> Int]
  <2>1. s = [k \in 1 .. n |-> s[k]]
    BY <1>4 DEF ListedIn, n, s
  <2>2. ASSUME NEW k \in 1 .. n
        PROVE  s[k] \in Int
    BY <1>1, <1>4 DEF ListedIn, n, s
  <2> QED BY <2>1, <2>2
<1>7. s \in Seq(Int) /\ Len(s) = n
  BY <1>5, <1>6
<1> QED BY <1>3, <1>5, <1>7 DEF n, s

\* The first levels of a list, in their order.
Begins(levels, s) == \A k \in 1 .. Len(s) : s[k] = levels[k]

\* A list whose order is that of its positions is listed as it is.
LEMMA InOrderKeeps ==
    ASSUME NEW levels, levels \in Seq(Int), NEW at, at \subseteq 1 .. Len(levels),
           NEW R, Total(at, R), \A i \in at : UpTo(at, R, i) = 1 .. i
    PROVE  Begins(levels, InOrder(levels, at, R))
<1>1. IsFiniteSet(at) /\ Len(InOrder(levels, at, R)) = Cardinality(at)
  BY InOrderType
<1>2. ListedIn(InOrder(levels, at, R), levels, at, R)
  BY <1>1, InOrderLists
<1>3. ASSUME NEW i \in at
      PROVE  Rank(at, R, i) = i
  <2>1. PICK l \in Nat : l = i
    OBVIOUS
  <2>2. Cardinality(1 .. l) = IF 1 > l THEN 0 ELSE l - 1 + 1
    BY FS_Interval
  <2>3. Cardinality(1 .. l) = l
    BY <2>2
  <2> QED BY <2>1, <2>3 DEF Rank
<1> QED BY <1>1, <1>2, <1>3 DEF ListedIn, Begins

-----------------------------------------------------------------------------
\* How prices lie behind one another on a side.
LEMMA BehindOf ==
    ASSUME NEW side \in Side
    PROVE  /\ Away(side) \in {1, -1}
           /\ \A x, y \in Int :
                  /\ Behind(side, x, y) \in Int
                  /\ Behind(side, x, x) = 0
                  /\ Behind(side, x, y) = -Behind(side, y, x)
                  /\ Behind(side, x, y) = 0 <=> x = y
           /\ \A x, y, z \in Int :
                  Behind(side, x, z) = Behind(side, x, y) + Behind(side, y, z)
           /\ \A m, k \in Int :
                  /\ m + Away(side) * k \in Int
                  /\ Behind(side, m + Away(side) * k, m) = k
<1>1. CASE side = "ask"
  <2>1. Away(side) = 1
    BY <1>1 DEF Away
  <2> QED BY <2>1 DEF Behind
<1>2. CASE side = "bid"
  <2>1. Away(side) = -1
    BY <1>2 DEF Away
  <2> QED BY <2>1 DEF Behind
<1> QED BY <1>1, <1>2 DEF Side

LEMMA BehindVia ==
    ASSUME NEW side \in Side, NEW u \in Int, NEW v \in Int, NEW y \in Int
    PROVE  /\ Behind(side, u, v) \in Int
           /\ Behind(side, u, v) = -Behind(side, v, u)
           /\ Behind(side, u, y) = Behind(side, u, v) + Behind(side, v, y)
<1>1. CASE side = "ask"
  <2>1. Away(side) = 1
    BY <1>1 DEF Away
  <2> QED BY <2>1 DEF Behind
<1>2. CASE side = "bid"
  <2>1. Away(side) = -1
    BY <1>2 DEF Away
  <2> QED BY <2>1 DEF Behind
<1> QED BY <1>1, <1>2 DEF Side

\* No level of a list is better than one before it.
Rising(side, s) ==
    \A i, j \in 1 .. Len(s) : i <= j => Behind(side, s[i], s[j]) <= 0

\* What pruning leaves: levels within Reach, and the first of a list that rises.
LEMMA PrunedLeaves ==
    ASSUME NEW side \in Side, NEW t, t \in Seq(Int), NEW m \in Int
    PROVE  /\ Pruned(side, t, m) \in Seq(Int)
           /\ Len(Pruned(side, t, m)) <= Len(t)
           /\ \A k \in 1 .. Len(Pruned(side, t, m)) :
                  Behind(side, Pruned(side, t, m)[k], m) <= Reach
           /\ Rising(side, t) \/ Len(Pruned(side, t, m)) = Len(t) =>
                  Begins(t, Pruned(side, t, m))
<1> DEFINE at == Kept(side, t, m)
           R == Earlier(at)
           p == InOrder(t, at, R)
<1>0. Pruned(side, t, m) = p
  BY DEF Pruned
<1>1. at \subseteq 1 .. Len(t)
  BY DEF Kept
<1>2. Len(t) \in Nat /\ \A i \in 1 .. Len(t) : t[i] \in Int
  OBVIOUS
<1>3. Total(at, R)
  BY <1>1, <1>2 DEF Total, Earlier
<1> HIDE DEF R, p
<1>4. /\ IsFiniteSet(at)
      /\ Cardinality(at) \in Nat /\ Cardinality(at) <= Len(t)
      /\ p \in Seq(Int) /\ Len(p) = Cardinality(at)
  <2> HIDE DEF at
  <2> QED BY <1>1, <1>3, InOrderType DEF p
<1>5. ListedIn(p, t, at, R)
  <2> HIDE DEF at
  <2> QED BY <1>3, <1>4, InOrderLists DEF p
<1>6. \A k \in 1 .. Len(p) : Behind(side, p[k], m) <= Reach
  <2>1. ASSUME NEW k \in 1 .. Len(p)
        PROVE  \E i \in at : p[k] = t[i]
    BY <1>4, <1>5, <2>1 DEF ListedIn
  <2> QED BY <2>1 DEF Kept
<1>7. ASSUME \A i \in at : 1 .. i \subseteq at
      PROVE  Begins(t, p)
  <2>1. \A i \in at : UpTo(at, R, i) = 1 .. i
    <3> SUFFICES ASSUME NEW i \in at
                 PROVE  UpTo(at, R, i) = 1 .. i
      OBVIOUS
    <3>1. i \in Nat /\ i >= 1
      BY <1>1, <1>2
    <3>2. \A j \in at : <<j, i>> \in R <=> j <= i
      BY DEF R, Earlier
    <3>3. \A j \in at : j \in Nat /\ j >= 1
      BY <1>1, <1>2
    <3>4. 1 .. i \subseteq at
      BY <1>7
    <3> HIDE DEF at, R
    <3>5. \A j \in 1 .. i : j \in UpTo(at, R, i)
      BY <3>1, <3>2, <3>4 DEF UpTo
    <3>6. \A j \in UpTo(at, R, i) : j \in 1 .. i
      BY <3>1, <3>2, <3>3 DEF UpTo
    <3> QED BY <3>5, <3>6
  <2> HIDE DEF at
  <2> QED BY <1>1, <1>3, <2>1, InOrderKeeps DEF p
<1>8. ASSUME Rising(side, t)
      PROVE  \A i \in at : 1 .. i \subseteq at
  <2> SUFFICES ASSUME NEW i \in at, NEW j \in 1 .. i
               PROVE  j \in at
    OBVIOUS
  <2>1. i \in 1 .. Len(t) /\ j \in 1 .. Len(t) /\ j <= i
    BY <1>1, <1>2
  <2>2. Behind(side, t[j], t[i]) <= 0
    BY <1>8, <2>1 DEF Rising
  <2>3. Behind(side, t[j], m) = Behind(side, t[j], t[i]) + Behind(side, t[i], m)
    <3>1. t[j] \in Int /\ t[i] \in Int
      BY <1>2, <2>1
    <3>2. \A x, y, z \in Int :
              Behind(side, x, z) = Behind(side, x, y) + Behind(side, y, z)
      BY BehindOf, Zenon
    <3> HIDE DEF at
    <3> QED BY <3>1, <3>2
  <2>4. Behind(side, t[i], m) <= Reach
    BY DEF Kept
  <2>5. /\ Behind(side, t[j], m) \in Int /\ Behind(side, t[j], t[i]) \in Int
        /\ Behind(side, t[i], m) \in Int
    BY <1>2, <2>1, BehindOf
  <2>6. Behind(side, t[j], m) <= Reach
    BY <2>2, <2>3, <2>4, <2>5, LadderAssumption
  <2> QED BY <2>1, <2>6 DEF Kept
<1>9. ASSUME Len(p) = Len(t)
      PROVE  \A i \in at : 1 .. i \subseteq at
  <2>1. PICK l \in Nat : l = Len(t)
    BY <1>2
  <2>2. IsFiniteSet(1 .. l) /\ Cardinality(1 .. l) = IF 1 > l THEN 0 ELSE l - 1 + 1
    BY FS_Interval
  <2>3. IsFiniteSet(1 .. Len(t)) /\ Cardinality(1 .. Len(t)) = Len(t)
    BY <2>1, <2>2
  <2>4. at = 1 .. Len(t)
    <3> HIDE DEF at
    <3> QED BY <1>1, <1>4, <1>9, <2>3, FS_Subset
  <2> HIDE DEF at
  <2> QED BY <1>2, <2>4
<1> HIDE DEF at
<1> QED BY <1>0, <1>2, <1>4, <1>6, <1>7, <1>8, <1>9

LEMMA OrderedByIsTotal ==
    ASSUME NEW S, S \subseteq Int, NEW v, \A i \in S : v[i] \in Int, NEW R,
           \A i, j \in S : <<i, j>> \in R <=> v[i] < v[j] \/ (v[i] = v[j] /\ i <= j)
    PROVE  Total(S, R)
<1>1. ASSUME NEW i \in S, NEW j \in S
      PROVE  <<i, j>> \in R <=> v[i] < v[j] \/ (v[i] = v[j] /\ i <= j)
  BY Zenon
<1>2. \A i \in S : i \in Int
  OBVIOUS
<1>3. \A i \in S : <<i, i>> \in R
  BY <1>1, <1>2
<1>4. ASSUME NEW i \in S, NEW j \in S
      PROVE  /\ <<i, j>> \in R \/ <<j, i>> \in R
             /\ <<i, j>> \in R /\ <<j, i>> \in R => i = j
  <2>1. /\ <<i, j>> \in R <=> v[i] < v[j] \/ (v[i] = v[j] /\ i <= j)
        /\ <<j, i>> \in R <=> v[j] < v[i] \/ (v[j] = v[i] /\ j <= i)
    BY <1>1
  <2>2. v[i] \in Int /\ v[j] \in Int
    OBVIOUS
  <2> QED BY <1>2, <2>1, <2>2
<1>5. ASSUME NEW i \in S, NEW j \in S, NEW k \in S, <<i, j>> \in R, <<j, k>> \in R
      PROVE  <<i, k>> \in R
  <2>1. v[i] < v[j] \/ (v[i] = v[j] /\ i <= j)
    BY <1>1, <1>5
  <2>2. v[j] < v[k] \/ (v[j] = v[k] /\ j <= k)
    BY <1>1, <1>5
  <2>3. v[i] \in Int /\ v[j] \in Int /\ v[k] \in Int
    OBVIOUS
  <2>4. v[i] < v[k] \/ (v[i] = v[k] /\ i <= k)
    BY <1>2, <2>1, <2>2, <2>3
  <2> QED BY <1>1, <2>4
<1> QED BY <1>3, <1>4, <1>5 DEF Total

LEMMA BetterIsTotal ==
    ASSUME NEW side \in Side, NEW r, r \in Seq(Int)
    PROVE  /\ Total(1 .. Len(r), Better(side, r))
           /\ \A i, j \in 1 .. Len(r) :
                  <<i, j>> \in Better(side, r) <=>
                      \/ Behind(side, r[i], r[j]) < 0
                      \/ r[i] = r[j] /\ i <= j
<1> DEFINE S == 1 .. Len(r)
           R == Better(side, r)
           v == [i \in S |-> Behind(side, r[i], 0)]
<1>1. \A i \in S : i \in Int /\ r[i] \in Int
  OBVIOUS
<1>2. DOMAIN r = S
  OBVIOUS
<1>3. \A i, j \in S : <<i, j>> \in R <=>
          \/ Behind(side, r[i], r[j]) < 0
          \/ r[i] = r[j] /\ i <= j
  BY <1>2 DEF Better
<1>4. \A i \in S : v[i] = Behind(side, r[i], 0)
  OBVIOUS
<1> HIDE DEF S, R, v
<1>5. \A x, y \in Int :
          /\ Behind(side, x, y) \in Int
          /\ Behind(side, x, y) = 0 <=> x = y
          /\ Behind(side, x, y) = -Behind(side, y, x)
  BY BehindOf, Zenon
<1>6. \A i \in S : v[i] \in Int
  <2> SUFFICES ASSUME NEW i \in S
               PROVE  v[i] \in Int
    OBVIOUS
  <2>1. r[i] \in Int /\ 0 \in Int
    BY <1>1
  <2>2. Behind(side, r[i], 0) \in Int
    BY <1>5, <2>1, Zenon
  <2> QED BY <1>4, <2>2
<1>7. ASSUME NEW i \in S, NEW j \in S
      PROVE  <<i, j>> \in R <=> v[i] < v[j] \/ (v[i] = v[j] /\ i <= j)
  <2>1. r[i] \in Int /\ r[j] \in Int
    BY <1>1
  <2>2. \A x, y, z \in Int :
            Behind(side, x, z) = Behind(side, x, y) + Behind(side, y, z)
    BY BehindOf, Zenon
  <2>3. Behind(side, r[i], r[j]) = Behind(side, r[i], 0) + Behind(side, 0, r[j])
    BY <2>1, <2>2
  <2>4. Behind(side, r[i], r[j]) = v[i] - v[j]
    <3>1. 0 \in Int
      OBVIOUS
    <3>2. Behind(side, 0, r[j]) = -Behind(side, r[j], 0)
      BY <1>5, <2>1, <3>1, Zenon
    <3>3. v[i] = Behind(side, r[i], 0) /\ v[j] = Behind(side, r[j], 0)
      BY <1>4
    <3> QED BY <1>6, <2>3, <3>2, <3>3
  <2>5. r[i] = r[j] <=> v[i] = v[j]
    <3>1. Behind(side, r[i], r[j]) = 0 <=> r[i] = r[j]
      BY <1>5, <2>1, Zenon
    <3> QED BY <1>6, <2>4, <3>1
  <2>6. <<i, j>> \in R <=> Behind(side, r[i], r[j]) < 0 \/ (r[i] = r[j] /\ i <= j)
    BY <1>3, Zenon
  <2>7. v[i] \in Int /\ v[j] \in Int
    BY <1>6
  <2> QED BY <2>4, <2>5, <2>6, <2>7
<1>8. S \subseteq Int
  BY <1>1
<1>9. Total(S, R)
  BY <1>6, <1>7, <1>8, OrderedByIsTotal
<1> QED BY <1>3, <1>9 DEF S, R

Rearranged(s, r) ==
    /\ \A k \in 1 .. Len(r) : \E i \in 1 .. Len(r) : s[k] = r[i]
    /\ \A i \in 1 .. Len(r) : \E k \in 1 .. Len(r) : s[k] = r[i]
KeepsFirst(side, s, r) ==
    (\A i \in 2 .. Len(r) : Behind(side, r[1], r[i]) < 0) =>
        \A k \in 2 .. Len(r) : \E i \in 2 .. Len(r) : s[k] = r[i]

\* What sorting gives: the same levels, none better than one before it; a list
\* that rises is left as it is, and a first level better than all others stays
\* the first.
LEMMA SortedGives ==
    ASSUME NEW side \in Side, NEW r, r \in Seq(Int)
    PROVE  /\ Sorted(side, r) \in Seq(Int)
           /\ Len(Sorted(side, r)) = Len(r)
           /\ Rising(side, Sorted(side, r))
           /\ Rearranged(Sorted(side, r), r)
           /\ Rising(side, r) => Begins(r, Sorted(side, r))
           /\ KeepsFirst(side, Sorted(side, r), r)
<1> DEFINE S == 1 .. Len(r)
           R == Better(side, r)
           s == InOrder(r, S, R)
<1>0. Sorted(side, r) = s
  <2>1. DOMAIN r = S
    OBVIOUS
  <2> QED BY <2>1 DEF Sorted
<1>1. Len(r) \in Nat /\ \A i \in S : i \in Int /\ r[i] \in Int
  OBVIOUS
<1>2. /\ Total(S, R)
      /\ \A i, j \in S : <<i, j>> \in R <=>
             \/ Behind(side, r[i], r[j]) < 0
             \/ r[i] = r[j] /\ i <= j
  BY BetterIsTotal
<1> HIDE DEF R, s
<1>3. /\ IsFiniteSet(S) /\ s \in Seq(Int) /\ Len(s) = Cardinality(S)
  BY <1>2, InOrderType DEF s
<1>4. Cardinality(S) = Len(r)
  <2>1. PICK l \in Nat : l = Len(r)
    BY <1>1
  <2>2. Cardinality(1 .. l) = IF 1 > l THEN 0 ELSE l - 1 + 1
    BY FS_Interval
  <2> QED BY <2>1, <2>2
<1>5. ListedIn(s, r, S, R)
  BY <1>2, <1>3, InOrderLists DEF s
<1>6. /\ \A k \in S : \E i \in S : Rank(S, R, i) = k /\ s[k] = r[i]
      /\ \A i \in S : Rank(S, R, i) \in S /\ s[Rank(S, R, i)] = r[i]
  BY <1>4, <1>5 DEF ListedIn
<1>7. /\ \A x, y \in Int :
             /\ Behind(side, x, y) \in Int
             /\ Behind(side, x, x) = 0
             /\ Behind(side, x, y) = -Behind(side, y, x)
             /\ Behind(side, x, y) = 0 <=> x = y
  BY BehindOf, Zenon
<1>8. Rising(side, s)
  <2> SUFFICES ASSUME NEW i \in S, NEW j \in S, i <= j
               PROVE  Behind(side, s[i], s[j]) <= 0
    BY <1>3, <1>4 DEF Rising
  <2>1. PICK a \in S : Rank(S, R, a) = i /\ s[i] = r[a]
    BY <1>6
  <2>2. PICK b \in S : Rank(S, R, b) = j /\ s[j] = r[b]
    BY <1>6
  <2>3. <<a, b>> \in R
    <3> SUFFICES ASSUME <<a, b>> \notin R PROVE FALSE
      OBVIOUS
    <3>1. <<b, a>> \in R /\ a # b
      BY <1>2 DEF Total
    <3>2. Rank(S, R, b) < Rank(S, R, a)
      BY <1>2, <1>3, <3>1, RankOrder
    <3> QED BY <1>1, <2>1, <2>2, <3>2
  <2>4. Behind(side, r[a], r[b]) < 0 \/ r[a] = r[b]
    BY <1>2, <2>3, Zenon
  <2>5. /\ Behind(side, r[a], r[b]) \in Int
        /\ Behind(side, r[a], r[b]) = 0 <=> r[a] = r[b]
    BY <1>1, <1>7
  <2> QED BY <2>1, <2>2, <2>4, <2>5
<1>9. ASSUME Rising(side, r)
      PROVE  Begins(r, s)
  <2>1. ASSUME NEW i \in S
        PROVE  UpTo(S, R, i) = 1 .. i
    <3>1. \A j \in S : <<j, i>> \in R <=> j <= i
      <4> SUFFICES ASSUME NEW j \in S
                   PROVE  <<j, i>> \in R <=> j <= i
        OBVIOUS
      <4>1. /\ j <= i => Behind(side, r[j], r[i]) <= 0
            /\ i <= j => Behind(side, r[i], r[j]) <= 0
        BY <1>9 DEF Rising
      <4>2. /\ r[i] \in Int /\ r[j] \in Int /\ i \in Int /\ j \in Int
        BY <1>1
      <4>3. <<j, i>> \in R <=> Behind(side, r[j], r[i]) < 0 \/ (r[j] = r[i] /\ j <= i)
        BY <1>2, Zenon
      <4>4. /\ Behind(side, r[j], r[i]) \in Int
            /\ Behind(side, r[i], r[j]) = -Behind(side, r[j], r[i])
            /\ Behind(side, r[j], r[i]) = 0 <=> r[j] = r[i]
        BY <1>7, <4>2
      <4> QED BY <4>1, <4>2, <4>3, <4>4
    <3>2. \A j \in 1 .. i : j \in UpTo(S, R, i)
      BY <1>1, <3>1 DEF UpTo
    <3>3. \A j \in UpTo(S, R, i) : j \in 1 .. i
      BY <1>1, <3>1 DEF UpTo
    <3> QED BY <3>2, <3>3
  <2> QED BY <1>2, <2>1, InOrderKeeps DEF s
<1>10. ASSUME \A i \in 2 .. Len(r) : Behind(side, r[1], r[i]) < 0
       PROVE  \A k \in 2 .. Len(r) : \E i \in 2 .. Len(r) : s[k] = r[i]
  <2> SUFFICES ASSUME NEW k \in 2 .. Len(r)
               PROVE  \E i \in 2 .. Len(r) : s[k] = r[i]
    OBVIOUS
  <2>1. PICK i \in S : Rank(S, R, i) = k /\ s[k] = r[i]
    BY <1>1, <1>6
  <2>2. i # 1
    <3> SUFFICES ASSUME i = 1 PROVE FALSE
      OBVIOUS
    <3>1. UpTo(S, R, 1) = {1}
      <4>1. \A j \in S : <<j, 1>> \in R => j = 1
        <5> SUFFICES ASSUME NEW j \in S, j # 1
                     PROVE  <<j, 1>> \notin R
          OBVIOUS
        <5>1. j \in 2 .. Len(r) /\ 1 \in S
          BY <1>1
        <5>2. Behind(side, r[1], r[j]) < 0
          BY <1>10, <5>1
        <5>3. /\ Behind(side, r[j], r[1]) \in Int
              /\ Behind(side, r[1], r[j]) = -Behind(side, r[j], r[1])
              /\ Behind(side, r[j], r[1]) = 0 <=> r[j] = r[1]
          BY <1>1, <1>7, <5>1
        <5>4. ~(Behind(side, r[j], r[1]) < 0) /\ r[j] # r[1]
          BY <5>2, <5>3
        <5> QED BY <1>2, <5>1, <5>4
      <4>2. 1 \in S /\ <<1, 1>> \in R
        BY <1>2, <2>1 DEF Total
      <4> QED BY <4>1, <4>2 DEF UpTo
    <3>2. Rank(S, R, 1) = 1
      BY <3>1, FS_Singleton DEF Rank
    <3> QED BY <1>1, <2>1, <3>2
  <2> QED BY <1>1, <2>1, <2>2
<1>11. /\ \A k \in S : \E i \in S : s[k] = r[i]
       /\ \A i \in S : \E k \in S : s[k] = r[i]
  BY <1>6
<1>12. Rearranged(s, r)
  BY <1>11 DEF Rearranged
<1>13. KeepsFirst(side, s, r)
  BY <1>10 DEF KeepsFirst
<1> QED BY <1>0, <1>3, <1>4, <1>8, <1>9, <1>12, <1>13

-----------------------------------------------------------------------------
\* The levels that stand beside a full ladder are BestGap apart, one by one.
Apart(side, s) ==
    \A i, j \in 1 .. Len(s) - Levels + 1 :
        i <= j => Behind(side, s[j], s[i]) >= (j - i) * BestGap
FitInReach(s) == (Len(s) - Levels) * BestGap <= Reach
BestFirst(side, s) == \A i \in 1 .. Len(s) : Behind(side, s[1], s[i]) <= 0

\* A side between two ticks.  Only the first layout does not rise, and it has
\* no level too many.
Ladder(side, s) ==
    /\ s \in Seq(Int)
    /\ Len(s) >= Levels
    /\ BestFirst(side, s)
    /\ Rising(side, s) \/ Len(s) = Levels
    /\ Apart(side, s)
    /\ FitInReach(s)

\* What a print or pruning leaves of it.
Remains(side, s) ==
    /\ s \in Seq(Int)
    /\ Rising(side, s) \/ Len(s) <= Levels
    /\ Rising(side, s) \/ Len(s) # Levels \/ BestFirst(side, s)
    /\ Apart(side, s)
    /\ FitInReach(s)

\* Multiples of BestGap.
LEMMA TimesGap ==
    /\ \A a \in Int : a * BestGap \in Int /\ (a + 1) * BestGap = a * BestGap + BestGap
    /\ \A a, b \in Int : a <= b => a * BestGap <= b * BestGap
    /\ 0 * BestGap = 0 /\ 1 * BestGap = BestGap
<1>1. BestGap \in Nat /\ BestGap > 0
  BY LadderAssumption
<1> QED BY <1>1

\* A list no longer than a ladder has nothing beside one.
LEMMA NoneTooMany ==
    ASSUME NEW side \in Side, NEW s, s \in Seq(Int), Len(s) <= Levels
    PROVE  Apart(side, s) /\ FitInReach(s)
<1>1. Levels \in Nat /\ Levels >= 1 /\ Len(s) \in Nat /\ Reach \in Nat /\ BestGap \in Nat
  BY LadderAssumption
<1>2. FitInReach(s)
  <2>1. Len(s) - Levels \in Int /\ 0 \in Int /\ Len(s) - Levels <= 0
    BY <1>1
  <2>2. (Len(s) - Levels) * BestGap <= 0 * BestGap
    BY <2>1, TimesGap, Zenon
  <2>3. (Len(s) - Levels) * BestGap \in Int /\ 0 * BestGap = 0
    BY <1>1
  <2> QED BY <1>1, <2>2, <2>3 DEF FitInReach
<1>3. Apart(side, s)
  <2> SUFFICES ASSUME NEW i \in 1 .. Len(s) - Levels + 1,
                      NEW j \in 1 .. Len(s) - Levels + 1, i <= j
               PROVE  Behind(side, s[j], s[i]) >= (j - i) * BestGap
    BY DEF Apart
  <2>1. i = 1 /\ j = 1 /\ 1 \in 1 .. Len(s)
    BY <1>1
  <2>2. s[1] \in Int
    BY <2>1
  <2>3. Behind(side, s[1], s[1]) = 0
    BY <2>2, BehindOf
  <2>4. (j - i) * BestGap = 0
    BY <1>1, <2>1
  <2> QED BY <2>1, <2>3, <2>4
<1> QED BY <1>2, <1>3

LEMMA RisingIsBestFirst ==
    ASSUME NEW side \in Side, NEW s, s \in Seq(Int), Rising(side, s)
    PROVE  BestFirst(side, s)
<1> SUFFICES ASSUME NEW i \in 1 .. Len(s)
             PROVE  Behind(side, s[1], s[i]) <= 0
  BY DEF BestFirst
<1>1. 1 \in 1 .. Len(s) /\ 1 <= i
  OBVIOUS
<1> QED BY <1>1 DEF Rising

LEMMA PrintLeaves ==
    ASSUME NEW side \in Side, NEW l, Ladder(side, l)
    PROVE  Remains(side, l) /\ Remains(side, Tail(l))
<1>1. Remains(side, l)
  BY DEF Remains, Ladder
<1>2. /\ Levels \in Nat /\ Levels >= 1 /\ Len(l) \in Nat /\ Len(l) >= Levels
      /\ Reach \in Nat /\ l # <<>>
  BY LadderAssumption DEF Ladder
<1> DEFINE t == Tail(l)
<1>3. /\ t \in Seq(Int) /\ Len(t) = Len(l) - 1
      /\ \A i \in 1 .. Len(t) : i + 1 \in 1 .. Len(l) /\ t[i] = l[i + 1]
  BY <1>2 DEF Ladder
<1> HIDE DEF t
<1>4. ASSUME Rising(side, l)
      PROVE  Rising(side, t)
  <2> SUFFICES ASSUME NEW i \in 1 .. Len(t), NEW j \in 1 .. Len(t), i <= j
               PROVE  Behind(side, t[i], t[j]) <= 0
    BY DEF Rising
  <2>1. Behind(side, l[i + 1], l[j + 1]) <= 0
    BY <1>2, <1>3, <1>4 DEF Rising
  <2> QED BY <1>3, <2>1
<1>5. Apart(side, t)
  <2> SUFFICES ASSUME NEW i \in 1 .. Len(t) - Levels + 1,
                      NEW j \in 1 .. Len(t) - Levels + 1, i <= j
               PROVE  Behind(side, t[j], t[i]) >= (j - i) * BestGap
    BY DEF Apart
  <2>1. /\ i + 1 \in 1 .. Len(l) - Levels + 1 /\ j + 1 \in 1 .. Len(l) - Levels + 1
        /\ i + 1 <= j + 1 /\ i \in 1 .. Len(t) /\ j \in 1 .. Len(t)
    BY <1>2, <1>3
  <2>2. Behind(side, l[j + 1], l[i + 1]) >= ((j + 1) - (i + 1)) * BestGap
    BY <2>1 DEF Ladder, Apart
  <2>3. (j + 1) - (i + 1) = j - i
    OBVIOUS
  <2> QED BY <1>3, <2>1, <2>2, <2>3
<1>6. FitInReach(t)
  <2>1. Len(t) - Levels \in Int /\ Len(l) - Levels \in Int /\ Len(t) - Levels <= Len(l) - Levels
    BY <1>2, <1>3
  <2>2. (Len(t) - Levels) * BestGap <= (Len(l) - Levels) * BestGap
    BY <2>1, TimesGap, Zenon
  <2>3. (Len(t) - Levels) * BestGap \in Int /\ (Len(l) - Levels) * BestGap \in Int
    BY <2>1, TimesGap, Zenon
  <2>4. (Len(l) - Levels) * BestGap <= Reach
    BY DEF Ladder, FitInReach
  <2> QED BY <1>2, <2>2, <2>3, <2>4 DEF FitInReach
<1>7. Rising(side, l) \/ Len(t) < Levels
  BY <1>2, <1>3 DEF Ladder
<1>8. Remains(side, t)
  BY <1>2, <1>3, <1>4, <1>5, <1>6, <1>7 DEF Remains
<1> QED BY <1>1, <1>8 DEF t

LEMMA PruningLeaves ==
    ASSUME NEW side \in Side, NEW t, Remains(side, t), NEW m \in Int
    PROVE  Remains(side, Pruned(side, t, m))
<1> DEFINE p == Pruned(side, t, m)
<1>1. /\ t \in Seq(Int) /\ Len(t) \in Nat
      /\ Levels \in Nat /\ Levels >= 1 /\ Reach \in Nat
  BY LadderAssumption DEF Remains
<1>2. /\ p \in Seq(Int) /\ Len(p) \in Nat /\ Len(p) <= Len(t)
      /\ Rising(side, t) \/ Len(p) = Len(t) => Begins(t, p)
  BY <1>1, PrunedLeaves
<1> HIDE DEF p
<1>3. ASSUME Rising(side, t)
      PROVE  Rising(side, p)
  <2>1. \A k \in 1 .. Len(p) : k \in 1 .. Len(t) /\ p[k] = t[k]
    BY <1>1, <1>2, <1>3 DEF Begins
  <2> QED BY <1>3, <2>1 DEF Rising
<1>4. ASSUME ~Rising(side, t), Len(p) = Levels
      PROVE  BestFirst(side, p)
  <2>1. Len(p) = Len(t) /\ BestFirst(side, t)
    BY <1>1, <1>2, <1>4 DEF Remains
  <2>2. \A k \in 1 .. Len(p) : p[k] = t[k]
    BY <1>2, <2>1 DEF Begins
  <2>3. ASSUME NEW k \in 1 .. Len(p)
        PROVE  Behind(side, p[1], p[k]) <= 0
    <3>1. 1 \in 1 .. Len(p)
      BY <1>2
    <3>2. p[1] = t[1] /\ p[k] = t[k]
      BY <2>2, <3>1
    <3> QED BY <2>1, <3>2 DEF BestFirst
  <2> QED BY <2>3 DEF BestFirst
<1>5. Apart(side, p)
  <2>1. CASE Len(p) <= Levels
    BY <1>2, <2>1, NoneTooMany
  <2>2. CASE Len(p) > Levels
    <3>1. Rising(side, t)
      BY <1>1, <1>2, <2>2 DEF Remains
    <3> SUFFICES ASSUME NEW i \in 1 .. Len(p) - Levels + 1,
                        NEW j \in 1 .. Len(p) - Levels + 1, i <= j
                 PROVE  Behind(side, p[j], p[i]) >= (j - i) * BestGap
      BY DEF Apart
    <3>2. /\ i \in 1 .. Len(t) - Levels + 1 /\ j \in 1 .. Len(t) - Levels + 1
          /\ i \in 1 .. Len(p) /\ j \in 1 .. Len(p)
      BY <1>1, <1>2
    <3>3. p[i] = t[i] /\ p[j] = t[j]
      BY <1>2, <3>1, <3>2 DEF Begins
    <3> QED BY <3>2, <3>3 DEF Remains, Apart
  <2> QED BY <1>1, <1>2, <2>1, <2>2
<1>6. FitInReach(p)
  <2>1. Len(p) - Levels \in Int /\ Len(t) - Levels \in Int /\ Len(p) - Levels <= Len(t) - Levels
    BY <1>1, <1>2
  <2>2. (Len(p) - Levels) * BestGap <= (Len(t) - Levels) * BestGap
    BY <2>1, TimesGap, Zenon
  <2>3. (Len(p) - Levels) * BestGap \in Int /\ (Len(t) - Levels) * BestGap \in Int
    BY <2>1, TimesGap, Zenon
  <2>4. (Len(t) - Levels) * BestGap <= Reach
    BY DEF Remains, FitInReach
  <2> QED BY <1>1, <2>2, <2>3, <2>4 DEF FitInReach
<1>7. Rising(side, t) \/ Len(p) <= Levels
  BY <1>1, <1>2 DEF Remains
<1> HIDE DEF p
<1>8. Remains(side, p)
  BY <1>2, <1>3, <1>4, <1>5, <1>6, <1>7 DEF Remains
<1> QED BY <1>8 DEF p

\* Refilling only appends, up to a full ladder.
LEMMA RefilledHas ==
    ASSUME NEW side \in Side, NEW w, w \in Seq(Int), Len(w) >= 1
    PROVE  /\ Refilled(side, w) \in Seq(Int)
           /\ Len(Refilled(side, w)) = IF Len(w) < Levels THEN Levels ELSE Len(w)
           /\ Begins(Refilled(side, w), w)
<1> DEFINE g == [i \in 1 .. Levels - Len(w) |-> w[Len(w)] + Away(side) * i]
<1>1. /\ Len(w) \in Nat /\ Levels \in Nat /\ w[Len(w)] \in Int
      /\ Away(side) \in Int
  BY LadderAssumption, BehindOf
<1>2. PICK n \in Nat : n = IF Len(w) < Levels THEN Levels - Len(w) ELSE 0
  BY <1>1
<1>3. 1 .. Levels - Len(w) = 1 .. n
  BY <1>1, <1>2
<1>4. g = [i \in 1 .. n |-> w[Len(w)] + Away(side) * i]
  BY <1>3
<1>5. g \in [1 .. n -> Int]
  BY <1>1, <1>2, <1>4
<1> HIDE DEF g
<1>6. g \in Seq(Int) /\ Len(g) = n
  BY <1>2, <1>5
<1>7. /\ w \o g \in Seq(Int) /\ Len(w \o g) = Len(w) + n
      /\ \A k \in 1 .. Len(w) : (w \o g)[k] = w[k]
  BY <1>6
<1>8. Refilled(side, w) = w \o g
  BY DEF Refilled, g
<1>9. Begins(w \o g, w)
  BY <1>7 DEF Begins
<1>10. Len(w) + n = IF Len(w) < Levels THEN Levels ELSE Len(w)
  BY <1>1, <1>2
<1> QED BY <1>7, <1>8, <1>9, <1>10

\* With a fresh best level, or without: the first is near the mid, all are
\* within Reach, and a fresh one is better than the others by BestGap or more.
LEMMA BestLeaves ==
    ASSUME NEW side \in Side, NEW m \in Int, NEW p, Remains(side, p),
           \A k \in 1 .. Len(p) : Behind(side, p[k], m) <= Reach
    PROVE  /\ WithBest(side, p, m) \in Seq(Int)
           /\ Len(WithBest(side, p, m)) >= 1
           /\ Behind(side, WithBest(side, p, m)[1], m) <= BestGap
           /\ \/ WithBest(side, p, m) = p
              \/ /\ WithBest(side, p, m) = <<m + Away(side)>> \o p
                 /\ Behind(side, m + Away(side), m) = 1
                 /\ Len(p) >= 1 => Behind(side, p[1], m) > BestGap
<1> DEFINE x == m + Away(side)
<1>1. p \in Seq(Int) /\ Len(p) \in Nat
  BY DEF Remains
<1>2. BestGap \in Nat /\ BestGap >= 1
  BY LadderAssumption
<1>3. x \in Int /\ Behind(side, x, m) = 1
  <2>1. \A u, k \in Int : /\ u + Away(side) * k \in Int
                          /\ Behind(side, u + Away(side) * k, u) = k
    BY BehindOf, Zenon
  <2>0. 1 \in Int
    OBVIOUS
  <2>2. m + Away(side) * 1 \in Int /\ Behind(side, m + Away(side) * 1, m) = 1
    BY <2>0, <2>1, Zenon
  <2>3. m + Away(side) * 1 = m + Away(side)
    BY BehindOf
  <2> QED BY <2>2, <2>3
<1> HIDE DEF x
<1>4. CASE p = <<>> \/ Behind(side, Head(p), m) > BestGap
  <2>1. WithBest(side, p, m) = <<x>> \o p
    BY <1>4 DEF WithBest, x
  <2>2. <<x>> \o p \in Seq(Int) /\ Len(<<x>> \o p) >= 1 /\ (<<x>> \o p)[1] = x
    BY <1>1, <1>3
  <2>3. ASSUME Len(p) >= 1
        PROVE  Behind(side, p[1], m) > BestGap
    <3>1. p # <<>> /\ Head(p) = p[1]
      BY <1>1, <2>3
    <3> QED BY <1>4, <3>1
  <2> QED BY <1>2, <1>3, <2>1, <2>2, <2>3 DEF x
<1>5. CASE ~(p = <<>> \/ Behind(side, Head(p), m) > BestGap)
  <2>1. WithBest(side, p, m) = p
    BY <1>5 DEF WithBest
  <2>2. Len(p) >= 1 /\ Head(p) = p[1] /\ p[1] \in Int
    BY <1>1, <1>5
  <2>3. Behind(side, p[1], m) \in Int
    BY <2>2, BehindOf
  <2>4. Behind(side, p[1], m) <= BestGap
    BY <1>2, <1>5, <2>2, <2>3
  <2> QED BY <1>1, <2>1, <2>2, <2>4
<1> QED BY <1>4, <1>5

\* A fresh best level on a list that is full already.
LEMMA FreshBestFits ==
    ASSUME NEW side \in Side, NEW m \in Int, NEW p, Remains(side, p), Len(p) >= Levels,
           \A k \in 1 .. Len(p) : Behind(side, p[k], m) <= Reach,
           NEW x \in Int, Behind(side, x, m) = 1, Behind(side, p[1], m) > BestGap
    PROVE  /\ \A i \in 2 .. Len(<<x>> \o p) :
                  Behind(side, (<<x>> \o p)[i], (<<x>> \o p)[1]) >= BestGap
           /\ Rising(side, p) =>
                  /\ Rising(side, <<x>> \o p)
                  /\ Apart(side, <<x>> \o p)
                  /\ FitInReach(<<x>> \o p)
<1> DEFINE w == <<x>> \o p
<1>1. /\ p \in Seq(Int) /\ Len(p) \in Nat /\ Len(p) >= 1
      /\ Levels \in Nat /\ Levels >= 1 /\ Reach \in Nat /\ BestGap \in Nat /\ BestGap >= 1
  BY LadderAssumption DEF Remains
<1>2. /\ w \in Seq(Int) /\ Len(w) = Len(p) + 1 /\ w[1] = x
      /\ \A i \in 2 .. Len(w) : i - 1 \in 1 .. Len(p) /\ w[i] = p[i - 1]
  BY <1>1
<1> HIDE DEF w
<1>3. BestFirst(side, p)
  <2>1. CASE Rising(side, p)
    BY <1>1, <2>1, RisingIsBestFirst
  <2>2. CASE ~Rising(side, p)
    BY <1>1, <2>2 DEF Remains
  <2> QED BY <2>1, <2>2
<1>4. ASSUME NEW u \in Int, NEW v \in Int, NEW y \in Int
      PROVE  /\ Behind(side, u, v) \in Int
             /\ Behind(side, u, v) = -Behind(side, v, u)
             /\ Behind(side, u, y) = Behind(side, u, v) + Behind(side, v, y)
  BY BehindVia
<1>5. p[1] \in Int /\ Behind(side, p[1], x) >= BestGap
  <2>1. p[1] \in Int
    BY <1>1
  <2>2. Behind(side, p[1], m) = Behind(side, p[1], x) + Behind(side, x, m)
    BY <1>4, <2>1
  <2>3. Behind(side, p[1], m) \in Int /\ Behind(side, p[1], x) \in Int
    BY <1>4, <2>1
  <2> QED BY <1>1, <2>1, <2>2, <2>3
<1>6. ASSUME NEW i \in 2 .. Len(w)
      PROVE  Behind(side, w[i], w[1]) >= BestGap
  <2>1. i - 1 \in 1 .. Len(p) /\ w[i] = p[i - 1] /\ p[i - 1] \in Int
    BY <1>1, <1>2
  <2>2. Behind(side, p[1], p[i - 1]) <= 0
    BY <1>3, <2>1 DEF BestFirst
  <2>3. Behind(side, p[i - 1], x) = Behind(side, p[i - 1], p[1]) + Behind(side, p[1], x)
    <3>1. PICK q \in Int : q = p[i - 1]
      BY <2>1
    <3>2. Behind(side, q, x) = Behind(side, q, p[1]) + Behind(side, p[1], x)
      BY <1>4, <1>5
    <3> QED BY <3>1, <3>2
  <2>4. /\ Behind(side, p[1], p[i - 1]) = -Behind(side, p[i - 1], p[1])
        /\ Behind(side, p[i - 1], p[1]) \in Int /\ Behind(side, p[1], x) \in Int
        /\ Behind(side, p[1], p[i - 1]) \in Int
    BY <1>4, <1>5, <2>1
  <2> QED BY <1>1, <1>2, <1>5, <2>1, <2>2, <2>3, <2>4
<1>7. ASSUME Rising(side, p)
      PROVE  Rising(side, w) /\ Apart(side, w) /\ FitInReach(w)
  <2>1. Rising(side, w)
    <3> SUFFICES ASSUME NEW i \in 1 .. Len(w), NEW j \in 1 .. Len(w), i <= j
                 PROVE  Behind(side, w[i], w[j]) <= 0
      BY DEF Rising
    <3>0. w[i] \in Int /\ w[j] \in Int
      BY <1>2
    <3>1. CASE i = 1 /\ j = 1
      BY <1>2, <3>1, BehindOf
    <3>2. CASE i = 1 /\ j # 1
      <4>1. Behind(side, w[j], w[1]) >= BestGap
        BY <1>2, <1>6, <3>2
      <4>2. /\ Behind(side, w[j], w[1]) = -Behind(side, w[1], w[j])
            /\ Behind(side, w[1], w[j]) \in Int
        BY <1>4, <3>0, <3>2
      <4> QED BY <1>1, <3>2, <4>1, <4>2
    <3>3. CASE i # 1
      <4>1. i - 1 \in 1 .. Len(p) /\ j - 1 \in 1 .. Len(p) /\ i - 1 <= j - 1
            /\ w[i] = p[i - 1] /\ w[j] = p[j - 1]
        <5>1. i \in 2 .. Len(w) /\ j \in 2 .. Len(w) /\ i \in Int /\ j \in Int
          BY <1>1, <1>2, <3>3
        <5>2. i - 1 <= j - 1
          BY <5>1
        <5> QED BY <1>2, <5>1, <5>2
      <4> QED BY <1>7, <4>1 DEF Rising
    <3> QED BY <3>1, <3>2, <3>3
  <2>2. ASSUME NEW i \in 1 .. Len(w) - Levels + 1, NEW j \in 1 .. Len(w) - Levels + 1, i <= j
        PROVE  Behind(side, w[j], w[i]) >= (j - i) * BestGap
    <3>0. /\ i \in 1 .. Len(w) /\ j \in 1 .. Len(w) /\ i \in Int /\ j \in Int
      BY <1>1, <1>2
    <3>1. CASE i = 1 /\ j = 1
      <4>1. Behind(side, w[1], w[1]) = 0
        BY <1>2, BehindOf
      <4>2. (j - i) * BestGap = 0
        BY <1>1, <3>1
      <4> QED BY <3>1, <4>1, <4>2
    <3>2. CASE i = 1 /\ j # 1
      <4>1. /\ j - 1 \in 1 .. Len(p) - Levels + 1 /\ 1 \in 1 .. Len(p) - Levels + 1
            /\ 1 <= j - 1 /\ j - 1 \in 1 .. Len(p) /\ w[j] = p[j - 1] /\ p[j - 1] \in Int
        <5>1. j \in 2 .. Len(w)
          BY <1>1, <1>2, <3>0, <3>2
        <5>2. j - 1 \in 1 .. Len(p) /\ w[j] = p[j - 1]
          BY <1>2, <5>1
        <5>3. p[j - 1] \in Int
          BY <1>1, <5>2
        <5>4. /\ j - 1 \in 1 .. Len(p) - Levels + 1 /\ 1 \in 1 .. Len(p) - Levels + 1
              /\ 1 <= j - 1
          BY <1>1, <1>2, <3>0, <5>1
        <5> QED BY <5>2, <5>3, <5>4
      <4>2. Behind(side, p[j - 1], p[1]) >= ((j - 1) - 1) * BestGap
        BY <4>1 DEF Remains, Apart
      <4>3. /\ Behind(side, p[j - 1], x) = Behind(side, p[j - 1], p[1]) + Behind(side, p[1], x)
            /\ Behind(side, p[j - 1], p[1]) \in Int /\ Behind(side, p[1], x) \in Int
        <5>1. PICK q \in Int : q = p[j - 1]
          BY <4>1
        <5>2. /\ Behind(side, q, x) = Behind(side, q, p[1]) + Behind(side, p[1], x)
              /\ Behind(side, q, p[1]) \in Int /\ Behind(side, p[1], x) \in Int
          BY <1>4, <1>5
        <5> QED BY <5>1, <5>2
      <4>4. ((j - 1) - 1) * BestGap + BestGap = (j - 1) * BestGap /\ ((j - 1) - 1) * BestGap \in Int
        BY <1>1, <3>0
      <4> QED BY <1>1, <1>2, <1>5, <3>2, <4>1, <4>2, <4>3, <4>4
    <3>3. CASE i # 1
      <4>1. /\ i - 1 \in 1 .. Len(p) - Levels + 1 /\ j - 1 \in 1 .. Len(p) - Levels + 1
            /\ i - 1 <= j - 1 /\ w[i] = p[i - 1] /\ w[j] = p[j - 1]
        <5>0. Len(w) \in Nat /\ Len(w) = Len(p) + 1
          BY <1>1, <1>2
        <5>1. i \in 2 .. Len(w) /\ j \in 2 .. Len(w)
          BY <2>2, <3>0, <3>3, <5>0
        <5>2. w[i] = p[i - 1] /\ w[j] = p[j - 1]
          BY <1>2, <5>1
        <5>3. /\ i - 1 \in 1 .. Len(p) - Levels + 1 /\ j - 1 \in 1 .. Len(p) - Levels + 1
              /\ i - 1 <= j - 1
          BY <1>1, <2>2, <3>0, <5>0, <5>1
        <5> QED BY <5>2, <5>3
      <4>2. Behind(side, p[j - 1], p[i - 1]) >= ((j - 1) - (i - 1)) * BestGap
        BY <4>1 DEF Remains, Apart
      <4>3. (j - 1) - (i - 1) = j - i
        BY <3>0
      <4> QED BY <4>1, <4>2, <4>3
    <3> QED BY <3>1, <3>2, <3>3
  <2>3. Apart(side, w)
    BY <2>2 DEF Apart
  <2>4. FitInReach(w)
    <3> DEFINE n == Len(w) - Levels
    <3>1. n \in Int /\ n + 1 \in 2 .. Len(w) /\ n + 1 \in 1 .. n + 1 /\ 1 \in 1 .. n + 1 /\ 1 <= n + 1
      BY <1>1, <1>2
    <3>2. Behind(side, w[n + 1], w[1]) >= ((n + 1) - 1) * BestGap
      BY <2>2, <3>1
    <3>3. n + 1 - 1 \in 1 .. Len(p) /\ w[n + 1] = p[n + 1 - 1]
      BY <1>2, <3>1
    <3>4. Behind(side, w[n + 1], m) <= Reach
      BY <3>3
    <3>5. w[n + 1] \in Int
      BY <1>2, <3>1
    <3> HIDE DEF n
    <3>6. /\ Behind(side, w[n + 1], m) = Behind(side, w[n + 1], x) + Behind(side, x, m)
          /\ Behind(side, w[n + 1], m) \in Int /\ Behind(side, w[n + 1], x) \in Int
      BY <1>4, <3>5
    <3>7. (n + 1) - 1 = n /\ n * BestGap \in Int
      BY <1>1, <3>1
    <3>8. n * BestGap <= Reach
      BY <1>1, <1>2, <3>2, <3>4, <3>6, <3>7
    <3> QED BY <3>8 DEF FitInReach, n
  <2> QED BY <2>1, <2>3, <2>4
<1> QED BY <1>6, <1>7 DEF w

LEMMA RebalanceKeeps ==
    ASSUME NEW side \in Side, NEW t, Remains(side, t), NEW m \in Int
    PROVE  /\ Ladder(side, Rebalance(side, t, m))
           /\ Behind(side, Rebalance(side, t, m)[1], m) <= BestGap
<1> DEFINE p == Pruned(side, t, m)
           w == WithBest(side, p, m)
           r == Refilled(side, w)
           s == Sorted(side, r)
           x == m + Away(side)
<1>1. Remains(side, p)
  BY PruningLeaves
<1>2. \A k \in 1 .. Len(p) : Behind(side, p[k], m) <= Reach
  BY PrunedLeaves DEF Remains
<1>3. Rebalance(side, t, m) = s
  BY DEF Rebalance
<1> HIDE DEF p
<1>4. /\ w \in Seq(Int) /\ Len(w) >= 1 /\ Behind(side, w[1], m) <= BestGap
      /\ \/ w = p
         \/ /\ w = <<x>> \o p /\ Behind(side, x, m) = 1
            /\ Len(p) >= 1 => Behind(side, p[1], m) > BestGap
  BY <1>1, <1>2, BestLeaves
<1>5. x \in Int
  BY BehindOf
<1> HIDE DEF w, x
<1>6. /\ r \in Seq(Int) /\ Len(r) = IF Len(w) < Levels THEN Levels ELSE Len(w)
      /\ Begins(r, w)
  BY <1>4, RefilledHas
<1> HIDE DEF r
<1>7. /\ s \in Seq(Int) /\ Len(s) = Len(r) /\ Rising(side, s)
      /\ Rearranged(s, r) /\ KeepsFirst(side, s, r)
      /\ Rising(side, r) => Begins(r, s)
  BY <1>6, SortedGives
<1> HIDE DEF s
<1>8. /\ Levels \in Nat /\ Levels >= 1 /\ Reach \in Nat /\ BestGap \in Nat
      /\ 1 <= BestGap /\ BestGap < Reach
      /\ Len(w) \in Nat /\ Len(r) \in Nat /\ Len(r) >= Levels /\ Len(r) >= Len(w)
  BY <1>4, <1>6, LadderAssumption
<1>9. r[1] = w[1] /\ s[1] \in Int /\ w[1] \in Int
  <2>1. 1 \in 1 .. Len(w) /\ 1 \in 1 .. Len(s)
    BY <1>4, <1>7, <1>8
  <2>2. r[1] = w[1]
    BY <1>6, <2>1 DEF Begins
  <2> QED BY <1>4, <1>7, <2>1, <2>2
<1>10. Behind(side, s[1], m) <= BestGap
  <2>0. 1 \in 1 .. Len(r)
    BY <1>8
  <2>1. PICK k \in 1 .. Len(r) : s[k] = r[1]
    BY <1>7, <2>0 DEF Rearranged
  <2>2. Behind(side, s[1], s[k]) <= 0
    <3>1. 1 \in 1 .. Len(s) /\ k \in 1 .. Len(s) /\ 1 <= k
      BY <1>7, <2>0
    <3> QED BY <1>7, <3>1 DEF Rising
  <2>3. /\ Behind(side, s[1], m) = Behind(side, s[1], w[1]) + Behind(side, w[1], m)
        /\ Behind(side, s[1], w[1]) \in Int
    BY <1>9, BehindVia
  <2>4. Behind(side, w[1], m) \in Int
    BY <1>9, BehindVia
  <2> QED BY <1>4, <1>8, <1>9, <2>1, <2>2, <2>3, <2>4
<1>11. ASSUME Len(r) = Len(w), Rising(side, w)
       PROVE  \A k \in 1 .. Len(s) : s[k] = w[k]
  <2>1. \A k \in 1 .. Len(r) : r[k] = w[k]
    BY <1>6, <1>11 DEF Begins
  <2>2. Rising(side, r)
    BY <1>11, <2>1 DEF Rising
  <2> QED BY <1>7, <2>1, <2>2 DEF Begins
<1>12. ASSUME Len(r) = Len(w), Rising(side, w), Apart(side, w), FitInReach(w)
       PROVE  Apart(side, s) /\ FitInReach(s)
  <2>1. Len(s) = Len(w) /\ \A k \in 1 .. Len(s) : s[k] = w[k]
    BY <1>7, <1>11, <1>12
  <2>2. \A k \in 1 .. Len(s) - Levels + 1 : s[k] = w[k]
    BY <1>7, <1>8, <2>1
  <2> QED BY <1>12, <2>1, <2>2 DEF Apart, FitInReach
<1>13. Apart(side, s) /\ FitInReach(s)
  <2>1. CASE Len(w) <= Levels
    <3>1. Len(s) <= Levels
      BY <1>6, <1>7, <1>8, <2>1
    <3> QED BY <1>7, <3>1, NoneTooMany
  <2>2. CASE Len(w) > Levels /\ w = p
    <3>1. Rising(side, w) /\ Apart(side, w) /\ FitInReach(w)
      BY <1>1, <1>8, <2>2 DEF Remains
    <3>2. Len(r) = Len(w)
      BY <1>6, <1>8, <2>2
    <3> QED BY <1>12, <3>1, <3>2
  <2>3. CASE Len(w) > Levels /\ w # p
    <3>1. p \in Seq(Int) /\ Len(p) \in Nat /\ w = <<x>> \o p /\ Len(w) = Len(p) + 1
      BY <1>1, <1>4, <1>5, <2>3 DEF Remains
    <3>2. Len(p) >= Levels /\ Behind(side, x, m) = 1 /\ Behind(side, p[1], m) > BestGap
      BY <1>4, <1>8, <2>3, <3>1
    <3>3. /\ \A i \in 2 .. Len(w) : Behind(side, w[i], w[1]) >= BestGap
          /\ Rising(side, p) => Rising(side, w) /\ Apart(side, w) /\ FitInReach(w)
      BY <1>1, <1>2, <1>5, <3>1, <3>2, FreshBestFits
    <3>4. Len(r) = Len(w)
      BY <1>6, <1>8, <2>3
    <3>5. CASE Rising(side, p)
      BY <1>12, <3>3, <3>4, <3>5
    <3>6. CASE ~Rising(side, p)
      <4>1. Len(s) = Levels + 1
        BY <1>1, <1>7, <1>8, <3>1, <3>2, <3>4, <3>6 DEF Remains
      <4>2. \A k \in 1 .. Len(r) : r[k] = w[k]
        BY <1>6, <3>4 DEF Begins
      <4>3. ASSUME NEW i \in 2 .. Len(r)
            PROVE  Behind(side, r[i], r[1]) >= BestGap /\ Behind(side, r[1], r[i]) < 0
        <5>1. r[i] \in Int /\ r[1] \in Int
          BY <1>6, <1>8
        <5>2. r[i] = w[i] /\ Behind(side, w[i], w[1]) >= BestGap
          BY <1>8, <3>3, <3>4, <4>2
        <5>3. /\ Behind(side, r[i], r[1]) \in Int
              /\ Behind(side, r[i], r[1]) = -Behind(side, r[1], r[i])
          BY <5>1, BehindVia
        <5>4. Behind(side, r[1], r[i]) \in Int
          BY <5>1, BehindVia
        <5> QED BY <1>8, <1>9, <5>2, <5>3, <5>4
      <4>4. \A k \in 2 .. Len(r) : \E i \in 2 .. Len(r) : s[k] = r[i]
        BY <1>7, <4>3 DEF KeepsFirst
      <4>5. s[1] = r[1]
        <5>0. 1 \in 1 .. Len(r)
          BY <1>8
        <5>1. PICK k \in 1 .. Len(r) : s[k] = r[1]
          BY <1>7, <5>0 DEF Rearranged
        <5>2. ASSUME k # 1
              PROVE  FALSE
          <6>1. PICK i \in 2 .. Len(r) : s[k] = r[i]
            BY <1>8, <4>4, <5>2
          <6>2. Behind(side, r[1], r[1]) < 0
            BY <4>3, <5>1, <6>1
          <6>3. Behind(side, r[1], r[1]) = 0
            BY <1>9, BehindOf
          <6> QED BY <6>2, <6>3
        <5> QED BY <5>1, <5>2
      <4>6. Behind(side, s[2], s[1]) >= BestGap
        <5>1. PICK i \in 2 .. Len(r) : s[2] = r[i]
          BY <1>7, <1>8, <4>1, <4>4, 2 \in 2 .. Len(r)
        <5> QED BY <4>3, <4>5, <5>1
      <4>7. Len(s) - Levels = 1
        BY <1>8, <4>1
      <4>8. FitInReach(s)
        BY <1>8, <4>7, TimesGap DEF FitInReach
      <4>9. ASSUME NEW i \in 1 .. Len(s) - Levels + 1,
                   NEW j \in 1 .. Len(s) - Levels + 1, i <= j
            PROVE  Behind(side, s[j], s[i]) >= (j - i) * BestGap
        <5>1. (i = 1 /\ j = 2) \/ i = j
          BY <4>7, <4>9
        <5>2. CASE i = 1 /\ j = 2
          <6>1. (j - i) * BestGap = BestGap
            BY <1>8, <5>2
          <6> QED BY <4>6, <5>2, <6>1
        <5>3. CASE i = j
          <6>1. i \in 1 .. Len(s)
            BY <1>8, <4>1, <4>7
          <6>2. s[i] \in Int
            BY <1>7, <6>1
          <6>3. Behind(side, s[i], s[i]) = 0
            BY <6>2, BehindOf
          <6>4. (j - i) * BestGap = 0
            BY <1>8, <5>3
          <6> QED BY <5>3, <6>3, <6>4
        <5> QED BY <5>1, <5>2, <5>3
      <4> QED BY <4>8, <4>9 DEF Apart
    <3> QED BY <3>5, <3>6
  <2> QED BY <1>8, <2>1, <2>2, <2>3
<1>14. BestFirst(side, s)
  BY <1>7, RisingIsBestFirst
<1>15. Ladder(side, s)
  BY <1>7, <1>8, <1>13, <1>14 DEF Ladder
<1> QED BY <1>3, <1>10, <1>15

-----------------------------------------------------------------------------
\* The invariant: both sides are ladders with their best level near the mid.
MakerInv ==
    /\ mid \in Int
    /\ book \in [Side -> Seq(Int)]
    /\ \A side \in Side :
           Ladder(side, book[side]) /\ Behind(side, book[side][1], mid) <= BestGap

LEMMA FirstLayout ==
    ASSUME NEW side \in Side, NEW m \in Int, NEW l \in Layouts(side, m)
    PROVE  Ladder(side, l) /\ Behind(side, l[1], m) <= BestGap
<1>1. PICK d \in [1 .. Levels -> 1 .. 2 * Levels] :
          /\ \A i \in 1 .. Levels : 7 * i <= 10 * d[i] /\ 10 * d[i] <= 14 * i
          /\ l = [i \in 1 .. Levels |-> m + Away(side) * d[i]]
  BY DEF Layouts
<1>2. Levels \in Nat /\ Levels >= 1 /\ BestGap \in Nat /\ BestGap >= 1
  BY LadderAssumption
<1>3. \A i \in 1 .. Levels : d[i] \in Int /\ d[i] >= 1
  BY <1>2
<1>4. d[1] = 1
  <2>1. 1 \in 1 .. Levels
    BY <1>2
  <2>2. d[1] \in Int /\ 10 * d[1] <= 14 * 1 /\ d[1] >= 1
    BY <1>1, <1>3, <2>1
  <2> QED BY <2>2
<1>5. Away(side) \in Int
  BY BehindOf
<1>6. l \in [1 .. Levels -> Int]
  BY <1>1, <1>3, <1>5
<1>7. l \in Seq(Int) /\ Len(l) = Levels
  BY <1>2, <1>6
<1>8. ASSUME NEW i \in 1 .. Levels
      PROVE  l[i] \in Int /\ Behind(side, l[i], m) = d[i]
  <2>1. \A u, k \in Int : /\ u + Away(side) * k \in Int
                          /\ Behind(side, u + Away(side) * k, u) = k
    BY BehindOf, Zenon
  <2>2. l[i] = m + Away(side) * d[i]
    BY <1>1
  <2> QED BY <1>3, <1>6, <2>1, <2>2
<1>9. 1 \in 1 .. Levels
  BY <1>2
<1>10. BestFirst(side, l)
  <2> SUFFICES ASSUME NEW i \in 1 .. Levels
               PROVE  Behind(side, l[1], l[i]) <= 0
    BY <1>7 DEF BestFirst
  <2>1. /\ l[1] \in Int /\ Behind(side, l[1], m) = 1
        /\ l[i] \in Int /\ Behind(side, l[i], m) = d[i]
    BY <1>4, <1>8, <1>9
  <2>2. Behind(side, l[1], m) = Behind(side, l[1], l[i]) + Behind(side, l[i], m)
    BY <2>1, BehindVia
  <2>3. Behind(side, l[1], l[i]) \in Int
    BY <2>1, BehindVia
  <2> QED BY <1>3, <2>1, <2>2, <2>3
<1>11. Apart(side, l) /\ FitInReach(l)
  BY <1>2, <1>7, NoneTooMany
<1> QED BY <1>2, <1>4, <1>7, <1>8, <1>9, <1>10, <1>11 DEF Ladder

\* Prints and moves of the mid, each with the rebalancing that follows, keep both
\* sides as they should be.
THEOREM MakerStaysInv == MakerSpec => []MakerInv
<1>1. MakerInit => MakerInv
  <2> SUFFICES ASSUME MakerInit PROVE MakerInv
    OBVIOUS
  <2>1. mid \in Int
    BY LadderAssumption DEF MakerInit, Mid
  <2>2. PICK bids \in Layouts("bid", mid), asks \in Layouts("ask", mid) :
            book = [side \in Side |-> IF side = "bid" THEN bids ELSE asks]
    BY DEF MakerInit
  <2>3. ASSUME NEW side \in Side
        PROVE  book[side] \in Layouts(side, mid)
    BY <2>2 DEF Side
  <2>4. ASSUME NEW side \in Side
        PROVE  Ladder(side, book[side]) /\ Behind(side, book[side][1], mid) <= BestGap
    BY <2>1, <2>3, FirstLayout
  <2>5. \A side \in Side : book[side] \in Seq(Int)
    BY <2>4 DEF Ladder
  <2> QED BY <2>1, <2>2, <2>4, <2>5 DEF MakerInv
<1>2. ASSUME MakerInv, NEW m \in Int, NEW levels, Move(m, levels),
             \A side \in Side : Remains(side, levels[side])
      PROVE  MakerInv'
  <2>1. /\ mid' = m
        /\ book' = [side \in Side |-> Rebalance(side, levels[side], m)]
    BY <1>2 DEF Move
  <2>2. ASSUME NEW side \in Side
        PROVE  /\ Ladder(side, Rebalance(side, levels[side], m))
               /\ Behind(side, Rebalance(side, levels[side], m)[1], m) <= BestGap
    BY <1>2, RebalanceKeeps
  <2>3. \A side \in Side : Rebalance(side, levels[side], m) \in Seq(Int)
    BY <2>2 DEF Ladder
  <2>4. book' \in [Side -> Seq(Int)]
    BY <2>1, <2>3
  <2>5. \A side \in Side :
            Ladder(side, book'[side]) /\ Behind(side, book'[side][1], mid') <= BestGap
    BY <2>1, <2>2
  <2> QED BY <2>1, <2>4, <2>5 DEF MakerInv
<1>3. MakerInv /\ [MakerNext]_makerVars => MakerInv'
  <2> SUFFICES ASSUME MakerInv, [MakerNext]_makerVars
               PROVE  MakerInv'
    OBVIOUS
  <2>1. CASE QuietTick
    <3>1. PICK m : m \in Pulled(mid) /\ Move(m, book)
      BY <2>1 DEF QuietTick
    <3>2. m \in Int
      BY <3>1, LadderAssumption DEF Move, Mid
    <3>3. \A side \in Side : Remains(side, book[side])
      BY PrintLeaves DEF MakerInv
    <3> QED BY <1>2, <3>1, <3>2, <3>3
  <2>2. ASSUME NEW side \in Side, PrintTick(side)
        PROVE  MakerInv'
    <3>0. PICK start \in Pulled(mid), all \in BOOLEAN :
              \E m \in Moved(side, start) :
                  Move(m, [book EXCEPT ![side] = IF all THEN Tail(@) ELSE @])
      BY <2>2 DEF PrintTick
    <3>1. PICK m \in Moved(side, start) :
              Move(m, [book EXCEPT ![side] = IF all THEN Tail(@) ELSE @])
      BY <3>0
    <3> DEFINE left == [book EXCEPT ![side] = IF all THEN Tail(@) ELSE @]
    <3>2. m \in Int
      BY <3>1, LadderAssumption DEF Move, Mid
    <3>3. ASSUME NEW s \in Side
          PROVE  Remains(s, left[s])
      <4>1. left[s] = book[s] \/ left[s] = Tail(book[s])
        BY DEF MakerInv
      <4>2. Remains(s, book[s]) /\ Remains(s, Tail(book[s]))
        BY PrintLeaves DEF MakerInv
      <4> QED BY <4>1, <4>2
    <3>4. Move(m, left)
      BY <3>1
    <3> HIDE DEF left
    <3> QED BY <1>2, <3>2, <3>3, <3>4
  <2>3. CASE UNCHANGED makerVars
    BY <2>3 DEF makerVars, MakerInv
  <2> QED BY <2>1, <2>2, <2>3 DEF MakerNext
<1> QED BY <1>1, <1>3, PTL DEF MakerSpec

\* Each side has a full ladder, and never more beside it than fit in Reach.
THEOREM LaddersKeepTheirSize == MakerSpec => []LadderSized
<1>1. ASSUME MakerInv
      PROVE  LadderSized
  <2> SUFFICES ASSUME NEW side \in Side
               PROVE  Len(book[side]) \in Levels .. Levels + Reach \div BestGap
    BY DEF LadderSized
  <2>0. Len(book[side]) \in Nat /\ Levels \in Nat
    BY <1>1, LadderAssumption DEF MakerInv, Ladder
  <2>1. PICK n \in Int : n = Len(book[side]) - Levels
    BY <2>0
  <2>2. /\ n >= 0 /\ n * BestGap <= Reach
        /\ BestGap \in Nat /\ BestGap > 0 /\ Reach \in Nat /\ Levels \in Nat
        /\ Len(book[side]) \in Nat
    BY <1>1, <2>1, LadderAssumption DEF MakerInv, Ladder, FitInReach
  <2>3. n <= Reach \div BestGap
    BY <2>2
  <2> QED BY <2>1, <2>2, <2>3
<1> QED BY <1>1, MakerStaysInv, PTL

\* The first level of a side is its best, at every tick.
THEOREM PrintsKeepTakingBest == MakerSpec => []PrintsTakeBest
<1>1. MakerInv => PrintsTakeBest
  BY DEF MakerInv, Ladder, BestFirst, PrintsTakeBest
<1> QED BY <1>1, MakerStaysInv, PTL

\* The best level is never left further than BestGap behind the mid.
THEOREM BestStaysClose == MakerSpec => []BestKeepsUp
<1>1. MakerInv => BestKeepsUp
  BY DEF MakerInv, BestKeepsUp
<1> QED BY <1>1, MakerStaysInv, PTL
=============================================================================
