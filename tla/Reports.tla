------------------------------ MODULE Reports ------------------------------
(***************************************************************************)
(* The lists and figures read off a table that other requests write to     *)
(* meanwhile: the paged lists of orders, trades, transactions and users,   *)
(* and the statistics of the admin page (services/admin.py and the like in *)
(* trading.py, wallet.py, notifications.py and portfolio.py).              *)
(*                                                                         *)
(* Each statement sees what is committed when it runs, and a report is     *)
(* made of several.  The rows of the table are numbered by created_at,     *)
(* which the process sets when it flushes a row, so that rows may become   *)
(* visible out of order.  No request deletes a row.                        *)
(***************************************************************************)
EXTENDS Integers, FiniteSets, Sequences

CONSTANTS
    PageSize,  \* limit
    MaxMade    \* bound: rows of the table

ASSUME ReportsAssumption == PageSize \in Nat \ {0} /\ MaxMade \in Nat

VARIABLES
    made,     \* rows flushed so far, by any transaction
    pending,  \* those whose transaction is under way
    live,     \* the committed rows
    fitting,  \* the committed rows that satisfy the conditions of the list
    pages,    \* the list being read: the next page, the rows shown so far; of its
              \* history, the rows that were in it from its first page on, and how
              \* often a row stopped fitting since, up to a cap
    stats     \* the statistics being made: the next statement, the bounds of their
              \* period and of today, the rows that each statement counted; of
              \* its history, the rows committed since it began

reportVars == <<made, pending, live, fitting, pages, stats>>
table == <<made, pending, live, fitting>>

\* In the order they are run: users or orders, those active or open, the trades
\* of today, the volume by pair, the timeline.
Statements == <<"all", "active", "today", "by_pair", "timeline">>
Figure == {Statements[n] : n \in DOMAIN Statements}
StatsRun == stats.run \in 1 .. Len(Statements)

ReportsInit ==
    /\ made = 0
    /\ pending = {}
    /\ live = {}
    /\ fitting = {}
    /\ pages = [next |-> 0, last |-> TRUE, shown |-> {}, stayed |-> {}, left |-> 0]
    /\ stats = [run |-> 0, cutoff |-> 0, today |-> 0, fresh |-> {},
                counted |-> [s \in Figure |-> {}]]

-----------------------------------------------------------------------------
\* A transaction flushes a row, and later commits or rolls back.
Flush ==
    /\ made < MaxMade
    /\ made' = made + 1
    /\ pending' = pending \cup {made'}
    /\ UNCHANGED <<live, fitting, pages, stats>>

CommitRow(i) ==
    /\ i \in pending
    /\ pending' = pending \ {i}
    /\ live' = live \cup {i}
    /\ fitting' \in {fitting, fitting \cup {i}}
    /\ stats' = [stats EXCEPT !.fresh = IF StatsRun THEN @ \cup {i} ELSE @]
    /\ UNCHANGED <<made, pages>>

RollBackRow(i) ==
    /\ i \in pending
    /\ pending' = pending \ {i}
    /\ UNCHANGED <<made, live, fitting, pages, stats>>

\* An open order is filled or cancelled, an active user blocked, and no longer in
\* a list of open orders or active users;
StopFitting(i) ==
    /\ i \in fitting
    /\ fitting' = fitting \ {i}
    /\ pages' = IF pages.last THEN pages
                ELSE [pages EXCEPT !.stayed = @ \ {i},
                                   !.left = IF @ < MaxMade THEN @ + 1 ELSE @]
    /\ UNCHANGED <<made, pending, live, stats>>

\* or a row is in a list of such orders or users that was not before.
StartFitting(i) ==
    /\ i \in live \ fitting
    /\ fitting' = fitting \cup {i}
    /\ UNCHANGED <<made, pending, live, pages, stats>>

\* ORDER BY created_at DESC OFFSET n * PageSize LIMIT PageSize
Place(i) == Cardinality({j \in fitting : j >= i})
\* Faulty: the first row of every page but the first is left out.
PageSkipping(n) ==
    {i \in fitting : Place(i) > n * PageSize + (IF n > 0 THEN 1 ELSE 0)
                     /\ Place(i) <= (n + 1) * PageSize}
Page(n) == {i \in fitting : Place(i) > n * PageSize /\ Place(i) <= (n + 1) * PageSize}

\* The first page of a list,
FirstPage ==
    /\ pages.last
    /\ pages' = [next |-> 1, last |-> Cardinality(Page(0)) < PageSize, shown |-> Page(0),
                 stayed |-> fitting, left |-> 0]
    /\ UNCHANGED <<table, stats>>

\* and the others, up to the first that is not full.
NextPage ==
    /\ ~pages.last
    /\ pages' = [pages EXCEPT !.next = @ + 1, !.shown = @ \cup Page(pages.next),
                              !.last = Cardinality(Page(pages.next)) < PageSize]
    /\ UNCHANGED <<table, stats>>

\* get_admin_stats works out the bounds of its period once,
BeginStats(cutoff, today) ==
    /\ ~StatsRun
    /\ cutoff <= today /\ today <= made
    /\ stats' = [run |-> 1, cutoff |-> cutoff, today |-> today, fresh |-> {},
                 counted |-> [s \in Figure |-> {}]]
    /\ UNCHANGED <<table, pages>>

Period(s) ==
    CASE s = "all" -> live
      [] s = "active" -> fitting
      [] s = "today" -> {i \in live : i > stats.today}
      [] OTHER -> {i \in live : i > stats.cutoff}

\* Faulty: the bounds are those of the moment of the statement.
RunStatementAnew ==
    /\ StatsRun
    /\ LET s == Statements[stats.run] IN
       \E slid \in 0 .. made - stats.cutoff :
           stats' = [stats EXCEPT !.run = @ + 1,
                         !.counted[s] = {i \in Period(s) : i > stats.cutoff + slid}]
    /\ UNCHANGED <<table, pages>>
\* and runs its statements, one after the other.
RunStatement ==
    /\ StatsRun
    /\ LET s == Statements[stats.run] IN
       stats' = [stats EXCEPT !.run = @ + 1, !.counted[s] = Period(s)]
    /\ UNCHANGED <<table, pages>>

TableStep ==
    \/ Flush
    \/ \E i \in pending : CommitRow(i) \/ RollBackRow(i)
    \/ \E i \in live : StopFitting(i) \/ StartFitting(i)

ListStep == FirstPage \/ NextPage

StatsStep == (\E cutoff, today \in 0 .. made : BeginStats(cutoff, today)) \/ RunStatement

ReportsNext == TableStep \/ ListStep \/ StatsStep

ReportsSpec == ReportsInit /\ [][ReportsNext]_reportVars

-----------------------------------------------------------------------------
\* Whoever pages through a list to its end sees every row that was in it from
\* beginning to end, whatever was added at the front or in between, but for at
\* most one row for each time a row stopped fitting: the rest moved up by one.
PagesMissFew ==
    pages.last => Cardinality(pages.stayed \ pages.shown) <= pages.left

\* The figures of one report differ by what was committed while it was made, and
\* each by what was committed between its statements: trades of today and by pair
\* are all in the timeline, and no more orders are open than there are orders and
\* orders committed since.
StatsAgree ==
    stats.run > Len(Statements) =>
        /\ stats.counted["active"] \ stats.counted["all"] \subseteq stats.fresh
        /\ stats.counted["today"] \subseteq {i \in stats.counted["timeline"] : i > stats.today}
        /\ stats.counted["by_pair"] \subseteq stats.counted["timeline"]
        /\ stats.counted["timeline"] \ stats.counted["by_pair"] \subseteq stats.fresh
=============================================================================
