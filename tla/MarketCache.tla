---------------------------- MODULE MarketCache ----------------------------
(***************************************************************************)
(* The caches market data is read through (services/market.py, depth.py,   *)
(* binance_client.py, core/cache.py).  A payload of Binance stays in Redis *)
(* for InnerTTL.  Prices, depth, candles and trades are made from it; the  *)
(* tickers made from it, or simulated in its stead, stay in Redis for      *)
(* OuterTTL themselves: the ticker of one pair, and the list of all.       *)
(*                                                                         *)
(* What the different calls cache has nothing in common but the payloads   *)
(* tickers are made from, so a behaviour is about one kind of call and its *)
(* entries.  The pairs of a list read the same payload, as BTC/USD and     *)
(* BTC/USDT do.  Time is counted in seconds and lives in the ages of       *)
(* things only.                                                            *)
(***************************************************************************)
EXTENDS Integers

CONSTANTS
    Reader,    \* calls in progress: requests, stream rounds, background tasks
    InnerTTL,  \* BINANCE_24HR_TTL and its like
    OuterTTL,  \* TICKERS_CACHE_TTL
    Patience,  \* REQUEST_TIMEOUT, for each host
    Delay,     \* bound: a call to Redis takes no longer
    Pairs,     \* active pairs
    Odd        \* bound: hosts that may answer otherwise than documented

Hosts == 1 .. 2  \* BASE_URLS, in the order they are tried
Condition(h) == {"up", "down"} \cup IF h \in Odd THEN {"odd"} ELSE {}

ASSUME MarketAssumption ==
    /\ {InnerTTL, OuterTTL, Patience, Pairs} \subseteq Nat \ {0}
    /\ Delay \in Nat
    /\ Odd \subseteq Hosts

Kind == {"price", "ticker", "tickers"}

VARIABLES
    kind,     \* what is read: a price or its like, a ticker, all tickers
    host,     \* [Hosts -> what it does with a request: answer as documented,
              \* answer something else, or fail by an error or a timeout]
    settled,  \* history: seconds the hosts have been healthy and unchanged,
              \* up to a cap
    inner,    \* the payload in Redis
    outer,    \* the tickers in Redis
    reader    \* [Reader -> the call and what it has in hand]

marketVars == <<kind, host, settled, inner, outer, reader>>

\* A cached value: seconds until it expires, or 0 when there is none; seconds
\* since it was asked for or simulated; and whether it is real.
Absent == [left |-> 0, age |-> 0, real |-> FALSE]

\* The first host that does not fail answers as documented.
Healthy == host[1] = "up" \/ host = <<"down", "up">>

Nested == kind # "price"
Listed == IF kind = "tickers" THEN Pairs ELSE 1

Rest == [at |-> "rest", todo |-> Listed, try |-> 0, got |-> "down",
         fresh |-> 0, age |-> 0, real |-> TRUE, wait |-> 0]

MarketInit ==
    /\ kind \in Kind
    /\ host \in [Hosts -> {"up", "down"}]
    /\ settled = 0
    /\ inner = Absent
    /\ outer = Absent
    /\ reader = [r \in Reader |-> Rest]

-----------------------------------------------------------------------------
ReadAt(r, place) == reader[r].at = place
Goes(call, place) == [call EXCEPT !.at = place, !.wait = 0]
Set(r, call) == reader' = [reader EXCEPT ![r] = call]
Older(a, b) == IF a > b THEN a ELSE b

\* cache_get finds an entry; one that is there may be missed, as Redis may fail.
Hit(entry) == entry.left > 0

\* One more pair is made, from a payload or by simulation: on to the next, to
\* the outer cache, or back to the caller.
Made(call, age, real) ==
    LET made == [call EXCEPT !.todo = @ - 1, !.fresh = 0, !.try = 0, !.got = "down",
                             !.age = Older(@, age), !.real = @ /\ real] IN
    Goes(made, IF made.todo > 0 THEN "inner" ELSE IF Nested THEN "store" ELSE "served")
Simulated(call) == Made(call, 0, FALSE)

\* The request to host h, which will end as the host is now.
Asked(call, h) == Goes([call EXCEPT !.try = h, !.got = host[h]], "ask")

ReadsInner(r) == ReadAt(r, "inner") \/ (ReadAt(r, "rest") /\ ~Nested)

\* get_ticker_cached, get_stats_24h_cached and get_all_tickers begin here,
ReadOuter(r) ==
    /\ Nested
    /\ ReadAt(r, "rest")
    /\ \/ /\ Hit(outer)
          /\ Set(r, [Rest EXCEPT !.at = "served", !.todo = 0, !.age = outer.age, !.real = outer.real])
       \/ Set(r, Goes(reader[r], "inner"))
    /\ UNCHANGED <<kind, host, settled, inner, outer>>

\* Faulty: what was found is stored again.
ReadInnerRenews(r) ==
    /\ ReadsInner(r)
    /\ \/ /\ Hit(inner)
          /\ Set(r, Goes([reader[r] EXCEPT !.fresh = inner.age,
                              !.got = IF inner.real THEN "up" ELSE "odd"], "keep"))
       \/ Set(r, Asked(reader[r], 1))
    /\ UNCHANGED <<kind, host, settled, inner, outer>>
\* and what has no outer entry begins here.  A payload that cannot be parsed is as
\* good as none.
ReadInner(r) ==
    /\ ReadsInner(r)
    /\ \/ /\ Hit(inner)
          /\ Set(r, IF inner.real THEN Made(reader[r], inner.age, TRUE) ELSE Simulated(reader[r]))
       \/ Set(r, Asked(reader[r], 1))
    /\ UNCHANGED <<kind, host, settled, inner, outer>>

\* _request: the next host is asked only when this one failed.  An answer of
\* the wrong shape may be told from a payload at once, or not until it is parsed.
HostAnswers(r) ==
    LET call == reader[r] IN
    /\ ReadAt(r, "ask")
    /\ \/ call.got # "down" /\ Set(r, [Goes(call, "keep") EXCEPT !.fresh = call.wait])
       \/ call.got = "odd" /\ Set(r, Simulated(call))
       \/ call.got = "down" /\ Set(r, IF call.try + 1 \in Hosts THEN Asked(call, call.try + 1)
                                                                ELSE Simulated(call))
    /\ UNCHANGED <<kind, host, settled, inner, outer>>

\* cache_set of the payload, when Redis works.
KeepPayload(r) ==
    LET call == reader[r] IN
    /\ ReadAt(r, "keep")
    /\ inner' \in {inner, [left |-> InnerTTL, age |-> call.fresh, real |-> call.got = "up"]}
    /\ Set(r, IF call.got = "up" THEN Made(call, call.fresh, TRUE) ELSE Simulated(call))
    /\ UNCHANGED <<kind, host, settled, outer>>

\* Faulty: simulated tickers are kept twice as long.
StoreTickersLonger(r) ==
    LET call == reader[r] IN
    /\ ReadAt(r, "store")
    /\ outer' \in {outer, [left |-> IF call.real THEN OuterTTL ELSE 2 * OuterTTL,
                          age |-> call.age, real |-> call.real]}
    /\ Set(r, Goes(call, "served"))
    /\ UNCHANGED <<kind, host, settled, inner>>
\* cache_set of the tickers, real or simulated.
StoreTickers(r) ==
    LET call == reader[r] IN
    /\ ReadAt(r, "store")
    /\ outer' \in {outer, [left |-> OuterTTL, age |-> call.age, real |-> call.real]}
    /\ Set(r, Goes(call, "served"))
    /\ UNCHANGED <<kind, host, settled, inner>>

Return(r) == ReadAt(r, "served") /\ Set(r, Rest) /\ UNCHANGED <<kind, host, settled, inner, outer>>

-----------------------------------------------------------------------------
\* A host recovers, goes down or answers something else.
HostChanges(h, condition) ==
    /\ host[h] # condition
    /\ host' = [host EXCEPT ![h] = condition]
    /\ settled' = 0
    /\ UNCHANGED <<kind, inner, outer, reader>>

\* How long a call stays at one place.
Budget(call) ==
    CASE call.at = "rest" -> 1
      [] call.at = "served" -> 0
      [] call.at = "ask" -> Patience
      [] OTHER -> Delay

Aged(entry) == IF entry.left <= 1 THEN Absent
               ELSE [entry EXCEPT !.left = @ - 1, !.age = @ + 1]
Waited(call) ==
    IF call.at = "rest" THEN call
    ELSE [call EXCEPT !.wait = @ + 1,
                      !.fresh = IF call.at = "keep" THEN @ + 1 ELSE @,
                      !.age = IF call.at = "store" \/ call.todo < Listed
                              THEN @ + 1 ELSE @]

\* The oldest a thing can be that is served: a payload that was long in coming
\* and is about to expire, then, for tickers, the time the other pairs of the list
\* take, and the stay in the outer cache.
PairTime == 2 * Delay + 2 * Patience
OldestServed ==
    Patience + Delay + InnerTTL - 1
        + IF Nested THEN (Listed - 1) * PairTime + Delay + OuterTTL - 1 ELSE 0

\* The last that is simulated comes from calls under way when the hosts settle,
\* even from the next host after one that has recovered too late for a call.
LastSimulated == Patience + OldestServed

\* A second passes.
MarketTick ==
    /\ \A r \in Reader : reader[r].wait < Budget(reader[r])
    /\ settled' = IF Healthy /\ settled <= LastSimulated THEN settled + 1 ELSE settled
    /\ inner' = Aged(inner)
    /\ outer' = Aged(outer)
    /\ reader' = [r \in Reader |-> Waited(reader[r])]
    /\ UNCHANGED <<kind, host>>

MarketNext ==
    \/ \E r \in Reader :
           \/ ReadOuter(r) \/ ReadInner(r) \/ HostAnswers(r) \/ KeepPayload(r)
           \/ StoreTickers(r) \/ Return(r)
    \/ \E h \in Hosts : \E condition \in Condition(h) : HostChanges(h, condition)
    \/ MarketTick

MarketSpec == MarketInit /\ [][MarketNext]_marketVars

-----------------------------------------------------------------------------
\* The two levels of caching and the other pairs of a list add up to a bounded
\* age of what is served, whoever read and stored it before and whichever calls
\* to Redis failed.
AgeBounded ==
    \A r \in Reader : ReadAt(r, "served") => reader[r].age <= OldestServed

\* Once the first host that answers at all answers as documented, simulated
\* prices disappear from what is served, out of both caches and out of the hands
\* of calls that began before.
RealReturns ==
    settled > LastSimulated
    => \A r \in Reader : ReadAt(r, "served") => reader[r].real
=============================================================================
