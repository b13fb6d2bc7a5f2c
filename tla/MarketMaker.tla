---------------------------- MODULE MarketMaker ----------------------------
(***************************************************************************)
(* The simulated order book of one pair (services/market_maker.py), which  *)
(* stands in for the exchange feed when that cannot be reached.            *)
(*                                                                         *)
(* Prices are counted in grid steps from the base price: the code's steps  *)
(* are fractions of the mid price, and one step is GRID_STEP of it.  The   *)
(* size resting at a level only decides whether a print uses the level up, *)
(* and so does a choice here.  Every method runs in one event loop without *)
(* awaiting, and is one action.                                            *)
(***************************************************************************)
EXTENDS Integers, Sequences, FiniteSets

CONSTANTS
    Levels,   \* levels of a full ladder
    BestGap,  \* MAX_BEST_GAP, in grid steps
    Reach,    \* MAX_DISTANCE, in grid steps
    Pull,     \* REANCHOR_STEP in percent, or more when Limit is small: a pull of
              \* the real mid across the real band is longer than Reach
    Limit     \* the anchor's band; bound: the mid stays in it too

ASSUME LadderAssumption ==
    /\ Levels \in Nat \ {0}
    /\ BestGap \in Nat \ {0}
    /\ Reach \in Nat
    /\ BestGap < Reach
    /\ Pull \in 0 .. 100
    /\ Limit \in Nat

Mid == -Limit .. Limit
Side == {"bid", "ask"}
Away(side) == IF side = "ask" THEN 1 ELSE -1

VARIABLES
    mid,
    book  \* [Side -> prices of the levels, in the order of the list]

makerVars == <<mid, book>>

\* How far behind the mid m a level at price p lies; negative on the far side.
Behind(side, p, m) == Away(side) * (p - m)

\* The ladders layout may build around m: the distance of level i is jittered,
\* from 0.7 to 1.4 of its i steps.
Layouts(side, m) ==
    {[i \in 1 .. Levels |-> m + Away(side) * d[i]] :
        d \in {e \in [1 .. Levels -> 1 .. 2 * Levels] : \A i \in 1 .. Levels :
                  7 * i <= 10 * e[i] /\ 10 * e[i] <= 14 * i}}

\* The levels at some positions of the list, in a total order of these.
InOrder(levels, at, order) ==
    [k \in 1 .. Cardinality(at) |->
        levels[CHOOSE i \in at : Cardinality({j \in at : <<j, i>> \in order}) = k]]

\* What is left of a list is in the order it was in.
Kept(side, levels, m) == {i \in 1 .. Len(levels) : Behind(side, levels[i], m) <= Reach}
Earlier(at) == {p \in at \X at : p[1] <= p[2]}
Pruned(side, levels, m) ==
    LET kept == Kept(side, levels, m) IN InOrder(levels, kept, Earlier(kept))

\* Faulty: a fresh best level only for a side that has none left.
WithBestIfEmpty(side, levels, m) ==
    IF levels = <<>> THEN <<m + Away(side)>> ELSE levels
WithBest(side, levels, m) ==
    IF levels = <<>> \/ Behind(side, Head(levels), m) > BestGap
    THEN <<m + Away(side)>> \o levels
    ELSE levels

\* Faulty: stops one level short.
RefilledShort(side, levels) ==
    levels \o [i \in 1 .. Levels - 1 - Len(levels) |-> levels[Len(levels)] + Away(side) * i]
Refilled(side, levels) ==
    levels \o [i \in 1 .. Levels - Len(levels) |-> levels[Len(levels)] + Away(side) * i]

\* Which of two positions is the better, the earlier one at the same price.
Better(side, levels) ==
    LET at == DOMAIN levels IN
    {p \in at \X at :
        \/ Behind(side, levels[p[1]], levels[p[2]]) < 0
        \/ levels[p[1]] = levels[p[2]] /\ p[1] <= p[2]}
\* Faulty: bids are sorted upwards, as asks are.
SortedUpwards(side, levels) == InOrder(levels, DOMAIN levels, Better("ask", levels))
Sorted(side, levels) == InOrder(levels, DOMAIN levels, Better(side, levels))

\* _rebalance of one side.
Rebalance(side, levels, m) ==
    Sorted(side, Refilled(side, WithBest(side, Pruned(side, levels, m), m)))

-----------------------------------------------------------------------------
\* _ensure lays the book out around the anchor of the moment.
MakerInit ==
    /\ mid \in Mid
    /\ \E bids \in Layouts("bid", mid), asks \in Layouts("ask", mid) :
           book = [side \in Side |-> IF side = "bid" THEN bids ELSE asks]

\* Where a tick starts from: at times the mid is pulled part of the way to the
\* anchor, which may be anywhere within its band.
Pulled(m) == {m} \cup {m + (Pull * (anchor - m)) \div 100 : anchor \in Mid}

\* How far a print moves the mid: random drift, and impact towards its side.
Moved(side, m) == IF side = "ask" THEN m - 1 .. m + 2 ELSE m - 2 .. m + 1

Move(m, levels) ==
    /\ m \in Mid
    /\ mid' = m
    /\ book' = [side \in Side |-> Rebalance(side, levels[side], m)]

\* _tick_pair without a print.
QuietTick == \E m \in Pulled(mid) : Move(m, book)

\* _tick_pair with a print that takes some or all of the best level of a side.
PrintTick(side) ==
    \E start \in Pulled(mid), all \in BOOLEAN :
        \E m \in Moved(side, start) :
            Move(m, [book EXCEPT ![side] = IF all THEN Tail(@) ELSE @])

MakerNext == QuietTick \/ \E side \in Side : PrintTick(side)

MakerSpec == MakerInit /\ [][MakerNext]_makerVars

-----------------------------------------------------------------------------
\* Whatever was printed and wherever the mid went, each side has a full ladder,
\* so that a snapshot never finds a side empty and never has to rebuild it; and
\* fresh best levels do not pile up on it: those that stand beside a full ladder
\* are BestGap apart and were within Reach when the last of them was inserted.
LadderSized ==
    \A side \in Side : Len(book[side]) \in Levels .. Levels + Reach \div BestGap

\* The first level of a side is its best: a print, which takes the first, takes
\* the best.  It has to hold of lists that _rebalance prunes, extends at both
\* ends and sorts, and of the jittered first layout, which is not sorted.
PrintsTakeBest ==
    \A side \in Side : \A i \in 1 .. Len(book[side]) :
        Behind(side, book[side][1], book[side][i]) <= 0

\* After a jump of the mid the best level is never left far behind it.
BestKeepsUp == \A side \in Side : Behind(side, book[side][1], mid) <= BestGap
=============================================================================
