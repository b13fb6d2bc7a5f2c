----------------------------- MODULE RateLimit -----------------------------
(***************************************************************************)
(* The rate limit of one scope of endpoints (core/ratelimit.py 36-85):     *)
(* fixed windows counted in Redis.  A request counts on every counter of   *)
(* its caller, the one of its address and, for rate_limit_user, the one of *)
(* its user, and passes when all of them allow it.  The calls of a request *)
(* on different counters touch nothing in common, so that one step stands  *)
(* for all of them.                                                        *)
(***************************************************************************)
EXTENDS FiniteSets, Sums

CONSTANTS
    Caller,      \* callers: an address, or a user at an address
    Counter,     \* counters of users and of addresses
    CountersOf,  \* [Caller -> SUBSET Counter]
    Limit,       \* requests allowed in a window
    Period,      \* length of a window in ticks of the clock
    MaxMissed      \* bound: Redis calls that are lost

ASSUME RateAssumption ==
    /\ IsFiniteSet(Counter)
    /\ CountersOf \in [Caller -> SUBSET Counter]
    /\ Limit \in Nat \ {0}
    /\ Period \in Nat \ {0}
    /\ MaxMissed \in Nat

VARIABLES
    hits,     \* [Counter -> its value, 0 when there is none, cut at Limit + 1]
    hitsTtl,  \* [Counter -> ticks until it expires, 0 when no expiry is set]
    passed,   \* history: [Counter -> requests of its callers that passed: [1] in
              \* this tick, [2] in the tick before, and so on]
    missed    \* history: Redis calls lost

rateVars == <<hits, hitsTtl, passed, missed>>

Ago == 1 .. Period

RateInit ==
    /\ hits = [k \in Counter |-> 0]
    /\ hitsTtl = [k \in Counter |-> 0]
    /\ passed = [k \in Counter |-> [a \in Ago |-> 0]]
    /\ missed = 0

\* Faulty: compares what was counted before the request.
AllowsBefore(k) == hits[k] <= Limit
\* is_allowed, when its call is answered.
Allows(k) == hits[k] + 1 <= Limit

\* INCR and EXPIRE NX in one pipeline, for the counters in ks.
Count(ks) ==
    /\ hits' = [k \in Counter |-> IF k \in ks /\ hits[k] <= Limit THEN hits[k] + 1 ELSE hits[k]]
    /\ hitsTtl' = [k \in Counter |-> IF k \in ks /\ hitsTtl[k] = 0 THEN Period ELSE hitsTtl[k]]

\* A request.  A lost call allows it; it may have counted or not.
Call(c) ==
    \E failing \in SUBSET CountersOf[c] : \E uncounted \in SUBSET failing :
        /\ missed + Cardinality(failing) <= MaxMissed
        /\ missed' = missed + Cardinality(failing)
        /\ Count(CountersOf[c] \ uncounted)
        /\ passed' = IF \A k \in CountersOf[c] \ failing : Allows(k)
                     THEN [k \in Counter |-> IF k \in CountersOf[c] THEN [passed[k] EXCEPT ![1] = @ + 1]
                                                                   ELSE passed[k]]
                     ELSE passed

WindowTick ==
    /\ hits' = [k \in Counter |-> IF hitsTtl[k] = 1 THEN 0 ELSE hits[k]]
    /\ hitsTtl' = [k \in Counter |-> IF hitsTtl[k] = 0 THEN 0 ELSE hitsTtl[k] - 1]
    /\ passed' = [k \in Counter |-> [a \in Ago |-> IF a = 1 THEN 0 ELSE passed[k][a - 1]]]
    /\ UNCHANGED missed

RateNext == (\E c \in Caller : Call(c)) \/ WindowTick

RateSpec == RateInit /\ [][RateNext]_rateVars

-----------------------------------------------------------------------------
\* Requests of counter k that passed within the last Period ticks.
PassedOn(k) == Sum(passed[k], Period)

\* However the requests of its callers fall around the ends of windows, any
\* stretch of time as long as a window sees less than twice the limit on a
\* counter, and one more for each lost call.
RateBounded == \A k \in Counter : PassedOn(k) <= 2 * Limit - 1 + missed
=============================================================================
