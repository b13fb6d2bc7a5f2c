---------------------------- MODULE TimersProofs ----------------------------
(***************************************************************************)
(* Safety of what lives by timers, windows and loops: the server of a      *)
(* price stream (WsHeartbeat), its client (RealtimeClient), the push       *)
(* stream of notifications, rate limits and account locks, each for all    *)
(* values of its constants.  One section for each.                         *)
(***************************************************************************)
EXTENDS MCTimers, SumsProofs, FiniteSetTheorems

(***************************************************************************)
(* WsHeartbeat.  Slowest is how long a round may take at most.             *)
(*                                                                         *)
(* AnsweringStaysOpen is not inductive: last_seen is renewed only when a   *)
(* pong has come to the front of the inbox.  Rounds counts the rounds n    *)
(* since that happened last: a pong on its way comes nearer with each      *)
(* round, and one is asked for every PingEvery rounds.                     *)
(***************************************************************************)
\* The place of tick in the rounds between two pings: the last is 0.
Since == IF tick = 0 THEN PingEvery ELSE tick

Asked(n) == pings = 1 /\ n <= PingEvery
Waiting(n) == \E q \in 1 .. Len(inbox) : inbox[q] = "pong" /\ n + q <= PingEvery + MaxInbox + 1
Heard(n) == pings = 0 /\ n <= Since - 1

Rounds(slowest) ==
    \E n \in Nat : unseen <= slowest * n /\ (Asked(n) \/ Waiting(n) \/ Heard(n))

Alive(slowest) == client = "up" => state = "open" /\ Rounds(slowest)

\* One message is drained before a ping can be answered.
InboxFits == pings = 1 => Len(inbox) <= MaxInbox

HeartbeatInv(slowest) == HeartbeatTypeOK /\ InboxFits /\ Alive(slowest)

-----------------------------------------------------------------------------
LEMMA TimesMonotone ==
    ASSUME NEW d \in Nat, NEW m \in Nat, NEW n \in Nat, m <= n
    PROVE  d * m <= d * n /\ d * m \in Nat
<1>1. PICK k \in Nat : n = m + k
  <2>1. n - m \in Nat /\ n = m + (n - m)
    OBVIOUS
  <2> QED BY <2>1
<1>2. d * n = d * m + d * k
  BY <1>1
<1>3. d * k \in Nat /\ d * m \in Nat
  OBVIOUS
<1> QED BY <1>2, <1>3

LEMMA AgeBound ==
    ASSUME NEW n \in Nat, NEW d \in Nat
    PROVE  Age(n, d) \in 0 .. Timeout + 1 /\ Age(n, d) <= n + d
BY HeartbeatAssumption DEF Age

LEMMA TickTurns ==
    ASSUME tick \in 0 .. PingEvery - 1
    PROVE  /\ (tick + 1) % PingEvery \in 0 .. PingEvery - 1
           /\ (tick + 1) % PingEvery = IF tick + 1 = PingEvery THEN 0 ELSE tick + 1
BY HeartbeatAssumption, SMT

LEMMA HeartbeatInitInv ==
    ASSUME NEW slowest \in Nat
    PROVE  HeartbeatInit => HeartbeatInv(slowest)
<1> SUFFICES ASSUME HeartbeatInit PROVE HeartbeatInv(slowest)
  OBVIOUS
<1>1. HeartbeatTypeOK /\ InboxFits
  BY HeartbeatAssumption DEF HeartbeatInit, HeartbeatTypeOK, InboxFits
<1>2. Heard(0) /\ slowest * 0 = 0
  BY HeartbeatAssumption DEF HeartbeatInit, Heard, Since
<1>3. Rounds(slowest)
  BY <1>2 DEF Rounds, HeartbeatInit
<1> QED BY <1>1, <1>3 DEF HeartbeatInv, Alive, HeartbeatInit

LEMMA HeartbeatTypeInv ==
    ASSUME HeartbeatTypeOK, InboxFits, [HeartbeatNext]_heartbeatVars
    PROVE  HeartbeatTypeOK' /\ InboxFits'
<1> USE HeartbeatAssumption DEF HeartbeatTypeOK, InboxFits
<1>1. CASE UNCHANGED heartbeatVars
  BY <1>1 DEF heartbeatVars
<1>2. ASSUME NEW d \in Duration, Round(d) PROVE HeartbeatTypeOK' /\ InboxFits'
  <2>1. /\ inbox' \in Seq({"pong", "subscribe"})
        /\ Len(inbox') <= MaxInbox
    <3>1. CASE inbox = <<>>
      BY <1>2, <3>1 DEF Round
    <3>2. CASE inbox # <<>>
      <4>1. inbox' = Tail(inbox)
        BY <1>2, <3>2 DEF Round
      <4> QED BY <3>2, <4>1
    <3> QED BY <3>1, <3>2
  <2>2. pings' \in 0 .. 1 /\ client' = client
    BY <1>2 DEF Round
  <2> DEFINE seen == IF (IF inbox = <<>> THEN "none" ELSE Head(inbox)) = "pong" THEN 0 ELSE unseen
  <2>3. /\ seen \in 0 .. Timeout + 1
        /\ \/ state' = "closed" /\ unseen' = seen /\ tick' = tick
           \/ state' = state /\ unseen' = Age(seen, d) /\ tick' = (tick + 1) % PingEvery
    BY <1>2 DEF Round
  <2> HIDE DEF seen
  <2>4. Age(seen, d) \in 0 .. Timeout + 1 /\ (tick + 1) % PingEvery \in 0 .. PingEvery - 1
    <3>1. d \in Nat /\ seen \in Nat
      BY <2>3
    <3> QED BY <3>1, AgeBound, TickTurns
  <2> QED BY <2>1, <2>2, <2>3, <2>4
<1>3. CASE Pong
  BY <1>3 DEF Pong
<1>4. CASE Subscribe
  BY <1>4 DEF Subscribe
<1>5. CASE Vanish
  BY <1>5 DEF Vanish
<1> QED BY <1>1, <1>2, <1>3, <1>4, <1>5 DEF HeartbeatNext, Loop

\* What one round does while the connection is live.
LEMMA RoundLives ==
    ASSUME NEW slowest \in Nat, \A d \in Duration : d <= slowest,
           slowest * (PingEvery + MaxInbox - 1) <= Timeout,
           HeartbeatInv(slowest), NEW d \in Duration, Round(d), client = "up"
    PROVE  state' = "open" /\ Rounds(slowest)'
<1> USE HeartbeatAssumption
<1>1. /\ d \in Nat /\ d <= slowest /\ unseen \in Nat /\ Len(inbox) \in Nat
      /\ Len(inbox) <= MaxInbox + 1 /\ inbox \in Seq({"pong", "subscribe"})
      /\ tick \in 0 .. PingEvery - 1 /\ pings = 0
  BY DEF HeartbeatInv, HeartbeatTypeOK, Round
<1>2. PICK n \in Nat : unseen <= slowest * n /\ (Waiting(n) \/ Heard(n))
  BY <1>1 DEF HeartbeatInv, Alive, Rounds, Asked
<1>3. tick = 0 => pings' = 1
  BY DEF Round
<1>4. tick # 0 => pings' = 0 /\ (state' = "open" => Since' - 1 = tick)
  BY <1>1, TickTurns DEF Round, Since
<1>5. /\ inbox # <<>> => /\ Len(inbox') = Len(inbox) - 1
                         /\ \A q \in 2 .. Len(inbox) : inbox'[q - 1] = inbox[q]
      /\ inbox = <<>> => inbox' = inbox
  <2>1. CASE inbox # <<>>
    <3>1. inbox' = Tail(inbox)
      BY <2>1 DEF Round
    <3> QED BY <1>1, <2>1, <3>1
  <2>2. CASE inbox = <<>>
    BY <2>2 DEF Round
  <2> QED BY <2>1, <2>2
<1>6. CASE inbox # <<>> /\ Head(inbox) = "pong"
  <2>1. state' = "open" /\ unseen' = Age(0, d)
    BY <1>6 DEF Round
  <2>2. unseen' <= slowest * 1
    <3>1. slowest * 1 = slowest
      OBVIOUS
    <3>2. Age(0, d) \in 0 .. Timeout + 1 /\ Age(0, d) <= 0 + d
      BY <1>1, AgeBound
    <3> QED BY <1>1, <2>1, <3>1, <3>2
  <2>3. CASE tick = 0
    BY <1>3, <2>1, <2>2, <2>3 DEF Rounds, Asked
  <2>4. CASE tick # 0
    <3>1. Heard(1)'
      BY <1>1, <1>4, <2>1, <2>4 DEF Heard
    <3> QED BY <2>1, <2>2, <3>1 DEF Rounds
  <2> QED BY <2>3, <2>4
<1>7. CASE ~(inbox # <<>> /\ Head(inbox) = "pong")
  <2>1. n <= PingEvery + MaxInbox - 1
    <3>1. CASE Heard(n)
      BY <1>1, <3>1 DEF Heard, Since
    <3>2. CASE Waiting(n)
      <4>1. PICK q \in 1 .. Len(inbox) : inbox[q] = "pong" /\ n + q <= PingEvery + MaxInbox + 1
        BY <3>2 DEF Waiting
      <4>2. q # 1
        BY <1>1, <1>7, <4>1
      <4> QED BY <4>1, <4>2
    <3> QED BY <1>2, <3>1, <3>2
  <2>2. unseen <= Timeout
    <3>1. slowest * n <= slowest * (PingEvery + MaxInbox - 1) /\ slowest * n \in Nat
      BY <2>1, TimesMonotone
    <3>2. slowest * (PingEvery + MaxInbox - 1) \in Nat
      OBVIOUS
    <3> QED BY <1>1, <1>2, <3>1, <3>2
  <2>3. state' = "open" /\ unseen' = Age(unseen, d)
    BY <1>1, <1>7, <2>2 DEF Round, HeartbeatInv, Alive
  <2>4. unseen' <= slowest * (n + 1)
    <3>1. slowest * (n + 1) = slowest * n + slowest /\ slowest * n \in Nat
      OBVIOUS
    <3>2. unseen' <= unseen + d
      BY <1>1, <2>3, AgeBound
    <3>3. unseen' \in Nat
      BY <1>1, <2>3, AgeBound
    <3> QED BY <1>1, <1>2, <3>1, <3>2, <3>3
  <2>5. CASE Heard(n)
    <3>1. Asked(n + 1)' \/ Heard(n + 1)'
      BY <1>1, <1>3, <1>4, <2>3, <2>5 DEF Heard, Asked, Since
    <3> QED BY <2>3, <2>4, <3>1 DEF Rounds
  <2>6. CASE Waiting(n)
    <3>1. PICK q \in 1 .. Len(inbox) : inbox[q] = "pong" /\ n + q <= PingEvery + MaxInbox + 1
      BY <2>6 DEF Waiting
    <3>2. q # 1 /\ inbox # <<>>
      BY <1>1, <1>7, <3>1
    <3>3. q - 1 \in 1 .. Len(inbox') /\ inbox'[q - 1] = "pong"
      BY <1>1, <1>5, <3>1, <3>2
    <3>4. Waiting(n + 1)'
      BY <3>1, <3>3 DEF Waiting
    <3> QED BY <2>3, <2>4, <3>4 DEF Rounds
  <2> QED BY <1>2, <2>5, <2>6
<1> QED BY <1>6, <1>7

LEMMA HeartbeatNextInv ==
    ASSUME NEW slowest \in Nat, \A d \in Duration : d <= slowest,
           slowest * (PingEvery + MaxInbox - 1) <= Timeout
    PROVE  HeartbeatInv(slowest) /\ [HeartbeatNext]_heartbeatVars => HeartbeatInv(slowest)'
<1> SUFFICES ASSUME HeartbeatInv(slowest), [HeartbeatNext]_heartbeatVars
             PROVE  HeartbeatInv(slowest)'
  OBVIOUS
<1> USE HeartbeatAssumption
<1>1. HeartbeatTypeOK' /\ InboxFits'
  BY HeartbeatTypeInv DEF HeartbeatInv
<1>2. Alive(slowest)'
  <2>1. CASE UNCHANGED heartbeatVars
    BY <2>1 DEF heartbeatVars, HeartbeatInv, Alive, Rounds, Asked, Waiting, Heard, Since
  <2>2. ASSUME NEW d \in Duration, Round(d) PROVE Alive(slowest)'
    <3>1. client' = client
      BY <2>2 DEF Round
    <3> QED BY <2>2, <3>1, RoundLives DEF Alive
  <2>3. CASE Pong
    <3>1. /\ client = "up" /\ client' = client /\ state' = state /\ pings = 1 /\ unseen' = unseen
          /\ inbox' = Append(inbox, "pong") /\ inbox \in Seq({"pong", "subscribe"})
          /\ Len(inbox) <= MaxInbox
      BY <2>3 DEF Pong, HeartbeatInv, HeartbeatTypeOK, InboxFits
    <3>2. /\ Len(inbox') = Len(inbox) + 1 /\ inbox'[Len(inbox) + 1] = "pong"
          /\ \A q \in 1 .. Len(inbox) : inbox'[q] = inbox[q]
      BY <3>1
    <3>3. \A n \in Nat : Asked(n) \/ Waiting(n) => Waiting(n)'
      BY <3>1, <3>2 DEF Asked, Waiting
    <3> QED BY <3>1, <3>3 DEF HeartbeatInv, Alive, Rounds, Heard
  <2>4. CASE Subscribe
    <3>1. /\ client' = client /\ state' = state /\ pings' = pings /\ unseen' = unseen
          /\ tick' = tick
          /\ inbox' = Append(inbox, "subscribe") /\ inbox \in Seq({"pong", "subscribe"})
      BY <2>4 DEF Subscribe, HeartbeatInv, HeartbeatTypeOK
    <3>2. /\ Len(inbox') = Len(inbox) + 1
          /\ \A q \in 1 .. Len(inbox) : inbox'[q] = inbox[q]
      BY <3>1
    <3>3. \A n \in Nat : Waiting(n) => Waiting(n)'
      BY <3>1, <3>2 DEF Waiting
    <3> QED BY <3>1, <3>3 DEF HeartbeatInv, Alive, Rounds, Asked, Heard, Since
  <2>5. CASE Vanish
    BY <2>5 DEF Vanish, Alive
  <2> QED BY <2>1, <2>2, <2>3, <2>4, <2>5 DEF HeartbeatNext, Loop
<1> QED BY <1>1, <1>2 DEF HeartbeatInv

\* A client that answers is not taken for dead, if a ping's PingEvery rounds and
\* those its answer may wait in the inbox together take no longer than the timeout.
THEOREM AnsweringIsNotDead ==
    ASSUME NEW slowest \in Nat, \A d \in Duration : d <= slowest,
           slowest * (PingEvery + MaxInbox - 1) <= Timeout
    PROVE  HeartbeatSpec => []AnsweringStaysOpen
<1>1. HeartbeatInit => HeartbeatInv(slowest)
  BY HeartbeatInitInv
<1>2. HeartbeatInv(slowest) /\ [HeartbeatNext]_heartbeatVars => HeartbeatInv(slowest)'
  BY HeartbeatNextInv
<1>3. HeartbeatInv(slowest) => AnsweringStaysOpen
  BY DEF HeartbeatInv, Alive, AnsweringStaysOpen
<1> QED BY <1>1, <1>2, <1>3, PTL DEF HeartbeatSpec

(***************************************************************************)
(* RealtimeClient.  As long as no run of the effect is cleaned up while it *)
(* awaits its ticket, whoever starts the polling has just given up its     *)
(* socket, and every run begins with a cleanup that stops it.              *)
(***************************************************************************)
PollsAlone == polling => cur = "gone"

LEMMA ClientTypeInv ==
    ASSUME ClientTypeOK, [ClientNext]_clientVars
    PROVE  ClientTypeOK'
<1>1. attempts' \in 0 .. MaxReconnects + 1
  BY ReconnectAssumption, SMT
  DEF ClientTypeOK, ClientNext, clientVars, Start, Stop, TicketArrives, TicketFails, Opens, Closes,
      StrayCloses, FallsSilent, Stale, Reconnect, Flush, RunEffect, RunConnects, RunPolls, OnClose
<1>2. /\ cur' \in Sockets \cup {"gone", Off}
      /\ stray' \in Sockets \cup {"none"}
      /\ pending' \in Modes \cup {"none"}
      /\ mode' \in Modes
  BY DEF ClientTypeOK, ClientNext, clientVars, Start, Stop, TicketArrives, TicketFails, Opens, Closes,
         StrayCloses, FallsSilent, Stale, Reconnect, Flush, RunEffect, RunConnects, RunPolls, Cleanup,
         OnClose, StartPolling, StopPolling, Sockets, Modes, Off
<1>3. timer' = timer \/ timer' = FALSE \/ timer' = (attempts < MaxReconnects)
  BY Zenon
  DEF ClientNext, clientVars, Start, Stop, TicketArrives, TicketFails, Opens, Closes, StrayCloses,
      FallsSilent, Stale, Reconnect, Flush, RunEffect, RunConnects, RunPolls, Cleanup, OnClose
<1>4. polling' = polling \/ polling' = FALSE \/ polling' = TRUE
  BY Zenon
  DEF ClientNext, clientVars, Start, Stop, TicketArrives, TicketFails, Opens, Closes, StrayCloses,
      FallsSilent, Stale, Reconnect, Flush, RunEffect, RunConnects, RunPolls, Cleanup, OnClose,
      StartPolling, StopPolling
<1>5. (attempts < MaxReconnects) \in BOOLEAN
  OBVIOUS
<1>6. timer' \in BOOLEAN
  BY <1>3, <1>5, Zenon DEF ClientTypeOK
<1>7. polling' \in BOOLEAN
  BY <1>4, Zenon DEF ClientTypeOK
<1> QED BY <1>1, <1>2, <1>6, <1>7 DEF ClientTypeOK

LEMMA PollsAloneInv ==
    ASSUME PollsAlone, [ClientNext]_clientVars, stray = "none", stray' = "none"
    PROVE  PollsAlone'
BY DEF PollsAlone, ClientNext, clientVars, Start, Stop, TicketArrives, TicketFails, Opens, Closes,
       StrayCloses, FallsSilent, Stale, Reconnect, Flush, RunEffect, RunConnects, RunPolls,
       Cleanup, OnClose, StartPolling, StopPolling

LEMMA PollsAloneAlways == ClientSpec /\ NoStray => []PollsAlone
<1>1. ClientInit => PollsAlone
  BY DEF ClientInit, PollsAlone
<1>2. PollsAlone /\ [ClientNext]_clientVars /\ stray = "none" /\ (stray = "none")' => PollsAlone'
  BY PollsAloneInv
<1> QED BY <1>1, <1>2, PTL DEF ClientSpec, NoStray

\* No polling interval outlives the last run of the effect, unless a run was
\* cleaned up while it awaited its ticket.
THEOREM PollingIsTornDown == ClientSpec => TornDown
<1>1. PollsAlone => (cur = Off => ~polling)
  BY DEF PollsAlone, Off
<1> QED BY <1>1, PollsAloneAlways, PTL DEF TornDown

\* A page that polls has no socket and is not getting one, with the same exception.
THEOREM FeedsOnce == ClientSpec => OneFeed
<1>1. PollsAlone => (polling => cur \notin Sockets)
  BY DEF PollsAlone, Sockets
<1> QED BY <1>1, PollsAloneAlways, PTL DEF OneFeed

(***************************************************************************)
(* Notifications.  What a connection was pushed is committed, and what is  *)
(* committed is never unread anew: rows that are committed between the two *)
(* statements of a push were not pushed yet.                               *)
(***************************************************************************)
LEMMA RowsFinite ==
    /\ IsFiniteSet(Unread) /\ Cardinality(Unread) \in 0 .. MaxRows
    /\ \A s : Cardinality(s \cap Unread) \in Nat /\ Cardinality(s \cap Unread) <= Cardinality(Unread)
<1>1. IsFiniteSet(Row) /\ Cardinality(Row) = MaxRows
  BY WindowAssumption, FS_Interval DEF Row
<1>2. IsFiniteSet(Unread) /\ Cardinality(Unread) <= MaxRows
  BY <1>1, FS_Subset DEF Unread
<1>3. Cardinality(Unread) \in Nat
  BY <1>2, FS_CardinalityType
<1>4. \A s : /\ IsFiniteSet(s \cap Unread) /\ Cardinality(s \cap Unread) <= Cardinality(Unread)
             /\ Cardinality(s \cap Unread) \in Nat
  BY <1>2, FS_Subset, FS_CardinalityType
<1> QED BY <1>2, <1>3, <1>4, WindowAssumption

LEMMA PushTypeInv ==
    ASSUME PushTypeOK, [PushNext]_pushVars
    PROVE  PushTypeOK'
<1> USE WindowAssumption DEF PushTypeOK, Committed
<1>1. CASE UNCHANGED pushVars
  BY <1>1 DEF pushVars
<1>2. ASSUME NEW n \in Row, Create(n) \/ EndCreate(n) PROVE PushTypeOK'
  BY <1>2 DEF Create, EndCreate
<1>3. CASE ReadAll \/ \E n \in Row : ReadOne(n)
  BY <1>3 DEF ReadAll, ReadOne, Unread
<1>4. CASE Connect \/ Disconnect
  BY <1>4 DEF Connect, Disconnect
<1>5. CASE PushList
  BY <1>5 DEF PushList, Newest
<1>6. CASE PushCount
  BY <1>6, RowsFinite DEF PushCount
<1> QED BY <1>1, <1>2, <1>3, <1>4, <1>5, <1>6 DEF PushNext, Push

LEMMA CountInv ==
    ASSUME PushTypeOK, CountCoversList, [PushNext]_pushVars
    PROVE  CountCoversList'
<1>1. ASSUME UNCHANGED <<stream, sent, count>>, sent \cap Unread' = sent \cap Unread
      PROVE  CountCoversList'
  BY <1>1 DEF CountCoversList
<1>2. CASE UNCHANGED pushVars
  BY <1>1, <1>2 DEF pushVars, Unread
<1>3. ASSUME NEW n \in Row, Create(n) \/ EndCreate(n) PROVE CountCoversList'
  <2>1. n \notin sent /\ \A m \in Row \ {n} : row'[m] = row[m]
    BY <1>3 DEF Create, EndCreate, PushTypeOK, Committed
  <2>2. sent \cap Unread' = sent \cap Unread
    BY <2>1 DEF Unread, PushTypeOK
  <2> QED BY <1>1, <1>3, <2>2 DEF Create, EndCreate
<1>4. CASE ReadAll \/ \E n \in Row : ReadOne(n)
  BY <1>1, <1>4 DEF ReadAll, ReadOne, Unread
<1>5. CASE Connect
  <2>1. sent' \cap Unread' = {} /\ count' = 0
    BY <1>5 DEF Connect
  <2> QED BY <2>1, FS_EmptySet DEF CountCoversList
<1>6. CASE Disconnect \/ PushList
  BY <1>6 DEF Disconnect, PushList, CountCoversList
<1>7. CASE PushCount
  <2>1. Unread' = Unread /\ sent' = sent /\ count' = Cardinality(Unread)
    BY <1>7 DEF PushCount, Unread
  <2> QED BY <2>1, RowsFinite DEF CountCoversList
<1> QED BY <1>2, <1>3, <1>4, <1>5, <1>6, <1>7 DEF PushNext, Push

LEMMA PushInitInv == PushInit => PushTypeOK /\ CountCoversList
<1>1. PushInit => PushTypeOK
  BY WindowAssumption DEF PushInit, PushTypeOK, Committed
<1>2. PushInit => CountCoversList
  BY DEF PushInit, CountCoversList
<1> QED BY <1>1, <1>2

\* Between two pushes the badge never shows fewer than the pushed rows that are
\* unread.
THEOREM BadgeCoversList == PushSpec => []CountCoversList
<1>1. PushTypeOK /\ CountCoversList /\ [PushNext]_pushVars => (PushTypeOK /\ CountCoversList)'
  BY PushTypeInv, CountInv
<1> QED BY <1>1, PushInitInv, PTL DEF PushSpec

(***************************************************************************)
(* RateLimit.  RateBounded is about any Period ticks, and they may see the *)
(* end of one window and the beginning of the next.  InPeriod says what of *)
(* them each window has used: the request that opened a window was Period  *)
(* ticks ago when the window ends, so that what is left of it is one less  *)
(* than the limit; and the next one opens with a request of its own.       *)
(***************************************************************************)
\* h and r are the value and the expiry of a counter, m are the calls lost, t[n]
\* the requests that passed in the last n ticks, and a window is open for n ticks.
\* Taken is how many of the requests a window has counted may have passed.
Taken(h) == IF h <= Limit THEN h ELSE Limit

InOpen(h, m, t, n) ==
    /\ h > 0
    /\ t[n] <= Taken(h) + m
    /\ t[n - 1] <= Taken(h) - 1 + m
    /\ t[Period] <= Limit - 1 + Taken(h) + m

InClosed(h, m, t) ==
    /\ h = 0
    /\ t[1] <= m
    /\ t[Period] <= Limit - 1 + m

Fits(h, r, m, t) == IF r = 0 THEN InClosed(h, m, t) ELSE InOpen(h, m, t, Period + 1 - r)

Totals(k) == Prefix(passed[k], Period)
InPeriod(k) == Fits(hits[k], hitsTtl[k], missed, Totals(k))

RateTyped ==
    /\ hits \in [Counter -> 0 .. Limit + 1]
    /\ hitsTtl \in [Counter -> 0 .. Period]
    /\ passed \in [Counter -> [Ago -> Nat]]
    /\ missed \in Nat

RateInv == RateTyped /\ \A k \in Counter : InPeriod(k)

-----------------------------------------------------------------------------
\* One more in the first place is one more in every total.
LEMMA PrefixBump ==
    ASSUME NEW n \in Nat \ {0}, NEW f \in [1 .. n -> Int], NEW g \in [1 .. n -> Int],
           g[1] = f[1] + 1, \A i \in 2 .. n : g[i] = f[i]
    PROVE  \A i \in 1 .. n : Prefix(g, n)[i] = Prefix(f, n)[i] + 1
<1> DEFINE S == {i \in 0 .. n : i > 0 => Prefix(g, n)[i] = Prefix(f, n)[i] + 1}
<1>1. 0 \in S
  OBVIOUS
<1>2. ASSUME NEW i \in 1 .. n, i - 1 \in S
      PROVE  i \in S
  <2>1. /\ Prefix(f, n)[i] = Prefix(f, n)[i - 1] + f[i] /\ Prefix(f, n)[0] = 0
        /\ Prefix(g, n)[i] = Prefix(g, n)[i - 1] + g[i] /\ Prefix(g, n)[0] = 0
    BY PrefixEquation
  <2>2. /\ i - 1 \in 0 .. n /\ Prefix(f, n)[i - 1] \in Int /\ f[i] \in Int
    BY PrefixType
  <2>3. CASE i = 1
    BY <2>1, <2>2, <2>3
  <2>4. CASE i > 1
    BY <1>2, <2>1, <2>2, <2>4
  <2> QED BY <2>3, <2>4
<1> HIDE DEF S
<1>3. \A i \in 0 .. n : i \in S
  BY <1>1, <1>2, IntervalInduction
<1> QED BY <1>3 DEF S

\* Values that move up one place take their totals with them.
LEMMA PrefixShift ==
    ASSUME NEW n \in Nat \ {0}, NEW f \in [1 .. n -> Int], NEW g \in [1 .. n -> Int],
           g[1] = 0, \A i \in 2 .. n : g[i] = f[i - 1]
    PROVE  \A i \in 1 .. n : Prefix(g, n)[i] = Prefix(f, n)[i - 1]
<1> DEFINE S == {i \in 0 .. n : i > 0 => Prefix(g, n)[i] = Prefix(f, n)[i - 1]}
<1>1. 0 \in S
  OBVIOUS
<1>2. ASSUME NEW i \in 1 .. n, i - 1 \in S
      PROVE  i \in S
  <2>1. /\ Prefix(g, n)[i] = Prefix(g, n)[i - 1] + g[i]
        /\ Prefix(g, n)[0] = 0 /\ Prefix(f, n)[0] = 0
    BY PrefixEquation
  <2>2. CASE i = 1
    BY <2>1, <2>2
  <2>3. CASE i > 1
    <3>1. i - 1 \in 1 .. n /\ i \in 2 .. n /\ (i - 1) - 1 = i - 2
      BY <2>3
    <3>2. Prefix(f, n)[i - 1] = Prefix(f, n)[i - 2] + f[i - 1]
      <4>1. Prefix(f, n)[i - 1] = Prefix(f, n)[(i - 1) - 1] + f[i - 1]
        BY <3>1, PrefixEquation
      <4> QED BY <3>1, <4>1
    <3>3. Prefix(g, n)[i - 1] = Prefix(f, n)[i - 2]
      BY <1>2, <3>1
    <3> QED BY <2>1, <3>1, <3>2, <3>3
  <2> QED BY <2>2, <2>3
<1> HIDE DEF S
<1>3. \A i \in 0 .. n : i \in S
  BY <1>1, <1>2, IntervalInduction
<1> QED BY <1>3 DEF S

LEMMA PrefixGrows ==
    ASSUME NEW n \in Nat, NEW f \in [1 .. n -> Nat]
    PROVE  /\ Prefix(f, n)[0] = 0
           /\ \A i \in 0 .. n : Prefix(f, n)[i] \in Int
           /\ \A i \in 1 .. n : Prefix(f, n)[i - 1] <= Prefix(f, n)[i]
<1>1. f \in [1 .. n -> Int]
  OBVIOUS
<1>2. /\ Prefix(f, n)[0] = 0
      /\ \A i \in 0 .. n : Prefix(f, n)[i] \in Int
  BY <1>1, PrefixEquation, PrefixType
<1>3. ASSUME NEW i \in 1 .. n PROVE Prefix(f, n)[i - 1] <= Prefix(f, n)[i]
  <2>1. Prefix(f, n)[i] = Prefix(f, n)[i - 1] + f[i]
    BY <1>1, PrefixEquation
  <2>2. i - 1 \in 0 .. n /\ f[i] \in Nat
    OBVIOUS
  <2> QED BY <1>2, <2>1, <2>2
<1> QED BY <1>2, <1>3

LEMMA TakenType ==
    ASSUME NEW h \in 0 .. Limit + 1
    PROVE  /\ Taken(h) \in 0 .. Limit
           /\ h + 1 <= Limit => Taken(h + 1) = Taken(h) + 1
           /\ h = Limit => Taken(h + 1) = Taken(h)
BY RateAssumption DEF Taken

Adds(t, u, d) == \A i \in 1 .. Period : u[i] = t[i] + d

\* A request that counts and passes, or counts or passes without the other.
LEMMA FitsCall ==
    ASSUME NEW h \in 0 .. Limit + 1, NEW r \in 0 .. Period, NEW m \in Nat, NEW t, Fits(h, r, m, t),
           NEW g \in 0 .. Limit + 1, NEW s, NEW l \in Nat, NEW u, NEW d \in 0 .. 1,
           \A i \in 0 .. Period : t[i] \in Int,
           t[0] = 0, u[0] = 0, Adds(t, u, d),
           \/ g = h /\ s = r /\ l >= m + d
           \/ /\ g = IF h <= Limit THEN h + 1 ELSE h
              /\ s = IF r = 0 THEN Period ELSE r
              /\ d = 0 \/ g <= Limit \/ l >= m + 1,
           l >= m
    PROVE  Fits(g, s, l, u)
<1> USE RateAssumption DEF Adds
<1>1. CASE r = 0
  <2>1. h = 0 /\ t[1] <= m /\ t[Period] <= Limit - 1 + m
    BY <1>1 DEF Fits, InClosed
  <2>2. /\ u[1] = t[1] + d /\ u[Period] = t[Period] + d
        /\ t[1] \in Int /\ t[Period] \in Int
    OBVIOUS
  <2>3. CASE g = h /\ s = r /\ l >= m + d
    <3>1. InClosed(g, l, u)
      BY <2>1, <2>2, <2>3 DEF InClosed
    <3> QED BY <1>1, <2>3, <3>1 DEF Fits
  <2>4. CASE g = 1 /\ s = Period
    <3>1. Taken(1) = 1
      BY DEF Taken
    <3>2. InOpen(1, l, u, 1)
      <4>1. u[1] <= 1 + l /\ u[1 - 1] <= 1 - 1 + l /\ u[Period] <= Limit - 1 + 1 + l
        BY <2>1, <2>2
      <4> QED BY <3>1, <4>1 DEF InOpen
    <3>3. Period + 1 - Period = 1 /\ Period # 0
      OBVIOUS
    <3> QED BY <2>4, <3>2, <3>3 DEF Fits
  <2> QED BY <1>1, <2>1, <2>3, <2>4
<1>2. CASE r # 0
  <2>1. PICK n \in 1 .. Period : n = Period + 1 - r
    BY <1>2
  <2>2. /\ u[n] = t[n] + d /\ u[Period] = t[Period] + d /\ u[n - 1] <= t[n - 1] + d
        /\ t[n] \in Int /\ t[Period] \in Int /\ t[n - 1] \in Int /\ u[n - 1] \in Int
    <3>1. n - 1 = 0 \/ n - 1 \in 1 .. Period
      OBVIOUS
    <3> QED BY <3>1
  <2>3. InOpen(h, m, t, n)
    BY <1>2, <2>1 DEF Fits
  <2>4. /\ Taken(h) \in Int /\ Taken(g) \in Int /\ g > 0 /\ s = r
        /\ Taken(g) + l >= Taken(h) + m + d
    BY <1>2, <2>3 DEF InOpen, Taken
  <2>5. InOpen(g, l, u, n)
    BY <2>2, <2>3, <2>4 DEF InOpen
  <2> QED BY <1>2, <2>1, <2>4, <2>5 DEF Fits
<1> QED BY <1>1, <1>2

LEMMA FitsTick ==
    ASSUME NEW h \in 0 .. Limit + 1, NEW r \in 0 .. Period, NEW m \in Nat, NEW t, Fits(h, r, m, t),
           NEW g, NEW s, NEW u,
           g = (IF r = 1 THEN 0 ELSE h), s = (IF r = 0 THEN 0 ELSE r - 1),
           \A i \in 0 .. Period : t[i] \in Int,
           t[0] = 0, u[0] = 0, \A i \in 1 .. Period : u[i] = t[i - 1],
           \A i \in 1 .. Period : t[i - 1] <= t[i]
    PROVE  Fits(g, s, m, u)
<1> USE RateAssumption
<1>1. /\ u[1] = 0 /\ u[Period] = t[Period - 1] /\ t[Period - 1] <= t[Period]
      /\ t[Period - 1] \in Int /\ t[Period] \in Int
  <2>1. u[1] = t[1 - 1] /\ 1 - 1 = 0
    OBVIOUS
  <2> QED BY <2>1
<1>2. CASE r = 0
  <2>1. g = h /\ s = 0 /\ InClosed(h, m, t)
    BY <1>2 DEF Fits
  <2>2. InClosed(h, m, u)
    BY <1>1, <2>1 DEF InClosed
  <2> QED BY <2>1, <2>2 DEF Fits
<1>3. CASE r # 0
  <2>1. PICK n \in 1 .. Period : n = Period + 1 - r
    BY <1>3
  <2>2. InOpen(h, m, t, n) /\ Taken(h) \in 0 .. Limit
    BY <1>3, <2>1, TakenType DEF Fits
  <2>3. CASE r = 1
    <3>1. n = Period /\ g = 0 /\ s = 0
      BY <2>1, <2>3
    <3>2. InClosed(0, m, u)
      BY <1>1, <2>2, <3>1 DEF InOpen, InClosed
    <3> QED BY <3>1, <3>2 DEF Fits
  <2>4. CASE r > 1
    <3>1. /\ n + 1 = Period + 1 - s /\ s # 0 /\ g = h
          /\ n + 1 \in 1 .. Period /\ (n + 1) - 1 = n
      BY <2>1, <2>4
    <3>2. u[n + 1] = t[n] /\ u[(n + 1) - 1] = t[n - 1]
      BY <2>1, <3>1
    <3>3. InOpen(h, m, u, n + 1)
      BY <1>1, <2>2, <3>2 DEF InOpen
    <3> QED BY <3>1, <3>3 DEF Fits
  <2> QED BY <1>3, <2>3, <2>4
<1> QED BY <1>2, <1>3

LEMMA RateInitInv == RateInit => RateInv
<1> SUFFICES ASSUME RateInit PROVE RateInv
  OBVIOUS
<1> USE RateAssumption
<1>1. RateTyped
  BY DEF RateInit, RateTyped
<1>2. ASSUME NEW k \in Counter PROVE InPeriod(k)
  <2>1. hits[k] = 0 /\ hitsTtl[k] = 0 /\ missed = 0
    BY DEF RateInit
  <2>2. /\ passed[k] \in [1 .. Period -> Int] /\ 1 \in 1 .. Period
        /\ \A i \in 1 .. Period : passed[k][i] = 0
    BY DEF RateInit, Ago
  <2>3. Totals(k)[Period] = 0
    BY <2>2, SumZero DEF Totals, Sum
  <2>4. Totals(k)[1] = 0
    <3>1. Totals(k)[1] = Totals(k)[1 - 1] + passed[k][1] /\ Totals(k)[0] = 0
      BY <2>2, PrefixEquation DEF Totals
    <3> QED BY <2>2, <3>1
  <2> QED BY <2>1, <2>3, <2>4 DEF InPeriod, Fits, InClosed
<1> QED BY <1>1, <1>2 DEF RateInv

LEMMA RateTypeInv ==
    ASSUME RateTyped, RateNext
    PROVE  RateTyped'
<1> USE RateAssumption DEF RateTyped, Ago
<1>1. ASSUME NEW c \in Caller, Call(c) PROVE RateTyped'
  <2>1. PICK failing \in SUBSET CountersOf[c], uncounted \in SUBSET CountersOf[c] :
            /\ uncounted \subseteq failing
            /\ missed' = missed + Cardinality(failing)
            /\ Count(CountersOf[c] \ uncounted)
            /\ \/ passed' = passed
               \/ passed' = [k \in Counter |-> IF k \in CountersOf[c] THEN [passed[k] EXCEPT ![1] = @ + 1]
                                                                   ELSE passed[k]]
    BY <1>1 DEF Call
  <2>2. Cardinality(failing) \in Nat
    BY <2>1, FS_Subset, FS_CardinalityType
  <2>3. hits' \in [Counter -> 0 .. Limit + 1]
    BY <2>1 DEF Count
  <2>5. hitsTtl' \in [Counter -> 0 .. Period]
    BY <2>1 DEF Count
  <2>4. passed' \in [Counter -> [1 .. Period -> Nat]]
    <3>1. CASE passed' = passed
      BY <3>1
    <3>2. CASE passed' = [k \in Counter |-> IF k \in CountersOf[c] THEN [passed[k] EXCEPT ![1] = @ + 1]
                                                                 ELSE passed[k]]
      <4>1. ASSUME NEW k \in Counter PROVE passed'[k] \in [1 .. Period -> Nat]
        BY <3>2
      <4>2. DOMAIN passed' = Counter /\ passed' = [k \in DOMAIN passed' |-> passed'[k]]
        BY <3>2
      <4> QED BY <4>1, <4>2
    <3> QED BY <2>1, <3>1, <3>2
  <2> QED BY <2>1, <2>2, <2>3, <2>4, <2>5
<1>2. CASE WindowTick
  BY <1>2 DEF WindowTick
<1> QED BY <1>1, <1>2 DEF RateNext

LEMMA CallInPeriod ==
    ASSUME RateTyped, RateTyped', NEW c \in Caller, Call(c), NEW k \in Counter, InPeriod(k)
    PROVE  InPeriod(k)'
<1> USE RateAssumption
<1>1. PICK failing \in SUBSET CountersOf[c], uncounted \in SUBSET CountersOf[c] :
          /\ uncounted \subseteq failing
          /\ missed' = missed + Cardinality(failing)
          /\ Count(CountersOf[c] \ uncounted)
          /\ passed' = IF \A j \in CountersOf[c] \ failing : Allows(j)
                       THEN [j \in Counter |-> IF j \in CountersOf[c] THEN [passed[j] EXCEPT ![1] = @ + 1]
                                                                    ELSE passed[j]]
                       ELSE passed
  BY DEF Call
<1>2. /\ Cardinality(failing) \in Nat
      /\ k \in failing => Cardinality(failing) >= 1
  <2>1. IsFiniteSet(failing)
    BY <1>1, FS_Subset
  <2> QED BY <2>1, FS_CardinalityType, FS_EmptySet
<1>3. /\ hits[k] \in 0 .. Limit + 1 /\ hitsTtl[k] \in 0 .. Period /\ missed \in Nat /\ missed' \in Nat
      /\ passed[k] \in [1 .. Period -> Nat] /\ passed'[k] \in [1 .. Period -> Nat]
  BY DEF RateTyped, Ago
<1> DEFINE t == Prefix(passed[k], Period)
           u == Prefix(passed'[k], Period)
<1>4. /\ t[0] = 0 /\ u[0] = 0
      /\ \A i \in 0 .. Period : t[i] \in Int
  BY <1>3, PrefixGrows
<1>5. /\ hits'[k] \in 0 .. Limit + 1
      /\ \/ /\ hits'[k] = hits[k] /\ hitsTtl'[k] = hitsTtl[k]
            /\ k \in failing \/ k \notin CountersOf[c]
         \/ /\ hits'[k] = IF hits[k] <= Limit THEN hits[k] + 1 ELSE hits[k]
            /\ hitsTtl'[k] = IF hitsTtl[k] = 0 THEN Period ELSE hitsTtl[k]
  BY <1>1 DEF Count, RateTyped
<1>6. PICK d \in 0 .. 1 :
          /\ \A i \in 1 .. Period : u[i] = t[i] + d
          /\ d = 1 => k \in CountersOf[c] /\ (k \in failing \/ hits[k] + 1 <= Limit)
  <2>1. CASE passed'[k] = passed[k]
    <3>1. \A i \in 1 .. Period : u[i] = t[i] + 0
      BY <1>4, <2>1
    <3> QED BY <3>1
  <2>2. CASE passed'[k] # passed[k]
    <3>1. /\ k \in CountersOf[c]
          /\ k \notin failing => hits[k] + 1 <= Limit
          /\ passed'[k] = [passed[k] EXCEPT ![1] = @ + 1]
      BY <1>1, <2>2 DEF Allows
    <3>2. /\ passed[k] \in [1 .. Period -> Int] /\ passed'[k] \in [1 .. Period -> Int]
          /\ passed'[k][1] = passed[k][1] + 1
          /\ \A i \in 2 .. Period : passed'[k][i] = passed[k][i]
      BY <1>3, <3>1
    <3>3. \A i \in 1 .. Period : u[i] = t[i] + 1
      BY <3>2, PrefixBump
    <3> QED BY <3>1, <3>3
  <2> QED BY <2>1, <2>2
<1> HIDE DEF t, u
<1>7. Fits(hits[k], hitsTtl[k], missed, t)
  BY DEF InPeriod, Totals, t
<1>8. Fits(hits'[k], hitsTtl'[k], missed', u)
  <2>1. /\ missed' >= missed
        /\ k \in failing => missed' >= missed + 1
    BY <1>1, <1>2, <1>3
  <2>2. \/ hits'[k] = hits[k] /\ hitsTtl'[k] = hitsTtl[k] /\ missed' >= missed + d
        \/ /\ hits'[k] = IF hits[k] <= Limit THEN hits[k] + 1 ELSE hits[k]
           /\ hitsTtl'[k] = IF hitsTtl[k] = 0 THEN Period ELSE hitsTtl[k]
           /\ d = 0 \/ hits'[k] <= Limit \/ missed' >= missed + 1
    BY <1>3, <1>5, <1>6, <2>1
  <2>3. /\ hits[k] \in 0 .. Limit + 1 /\ hitsTtl[k] \in 0 .. Period
        /\ missed \in Nat /\ missed' \in Nat /\ hits'[k] \in 0 .. Limit + 1
        /\ \A i \in 0 .. Period : t[i] \in Int
        /\ t[0] = 0 /\ u[0] = 0 /\ (\A i \in 1 .. Period : u[i] = t[i] + d)
        /\ missed' >= missed
    BY <1>3, <1>4, <1>5, <1>6, <2>1
  <2>4. Adds(t, u, d)
    BY <2>3 DEF Adds
  <2> QED BY <1>7, <2>2, <2>3, <2>4, FitsCall
<1> QED BY <1>8 DEF InPeriod, Totals, u

LEMMA TickInPeriod ==
    ASSUME RateTyped, RateTyped', WindowTick, NEW k \in Counter, InPeriod(k)
    PROVE  InPeriod(k)'
<1> USE RateAssumption
<1> DEFINE t == Prefix(passed[k], Period)
           u == Prefix(passed'[k], Period)
<1>1. /\ hits[k] \in 0 .. Limit + 1 /\ hitsTtl[k] \in 0 .. Period /\ missed \in Nat /\ missed' = missed
      /\ passed[k] \in [1 .. Period -> Nat] /\ passed'[k] \in [1 .. Period -> Nat]
      /\ hits'[k] = IF hitsTtl[k] = 1 THEN 0 ELSE hits[k]
      /\ hitsTtl'[k] = IF hitsTtl[k] = 0 THEN 0 ELSE hitsTtl[k] - 1
  BY DEF RateTyped, Ago, WindowTick
<1>2. \A i \in 1 .. Period : u[i] = t[i - 1]
  <2>1. /\ passed[k] \in [1 .. Period -> Int] /\ passed'[k] \in [1 .. Period -> Int]
        /\ passed'[k][1] = 0
        /\ \A i \in 2 .. Period : passed'[k][i] = passed[k][i - 1]
    BY <1>1 DEF WindowTick, Ago
  <2> QED BY <2>1, PrefixShift
<1>3. /\ t[0] = 0 /\ u[0] = 0
      /\ \A i \in 0 .. Period : t[i] \in Int
      /\ \A i \in 1 .. Period : t[i - 1] <= t[i]
  BY <1>1, PrefixGrows
<1> HIDE DEF t, u
<1>4. Fits(hits[k], hitsTtl[k], missed, t)
  BY DEF InPeriod, Totals, t
<1>5. Fits(hits'[k], hitsTtl'[k], missed', u)
  BY <1>1, <1>2, <1>3, <1>4, FitsTick
<1> QED BY <1>5 DEF InPeriod, Totals, u

LEMMA RateNextInv == RateInv /\ [RateNext]_rateVars => RateInv'
<1> SUFFICES ASSUME RateInv, [RateNext]_rateVars PROVE RateInv'
  OBVIOUS
<1>1. CASE UNCHANGED rateVars
  BY <1>1 DEF rateVars, RateInv, RateTyped, InPeriod, Totals
<1>2. CASE RateNext
  <2>1. RateTyped'
    BY <1>2, RateTypeInv DEF RateInv
  <2>2. \A k \in Counter : InPeriod(k)'
    BY <1>2, <2>1, CallInPeriod, TickInPeriod DEF RateInv, RateNext
  <2> QED BY <2>1, <2>2 DEF RateInv
<1> QED BY <1>1, <1>2

\* Any stretch of time as long as a window sees less than twice the limit on a
\* counter, and one more for each lost call, for any callers that share counters
\* in any way.
THEOREM BurstsAreBounded == RateSpec => []RateBounded
<1>1. ASSUME RateInv PROVE RateBounded
  <2> SUFFICES ASSUME NEW k \in Counter PROVE PassedOn(k) <= 2 * Limit - 1 + missed
    BY DEF RateBounded
  <2>1. InPeriod(k) /\ hits[k] \in 0 .. Limit + 1 /\ missed \in Nat /\ passed[k] \in [1 .. Period -> Nat]
    BY <1>1 DEF RateInv, RateTyped, Ago
  <2>2. PassedOn(k) = Totals(k)[Period] /\ Totals(k)[Period] \in Int
    BY <2>1, RateAssumption, PrefixGrows DEF PassedOn, Sum, Totals
  <2>3. Fits(hits[k], hitsTtl[k], missed, Totals(k))
    BY <2>1 DEF InPeriod
  <2>4. Totals(k)[Period] <= 2 * Limit - 1 + missed
    <3>1. CASE hitsTtl[k] = 0
      <4>1. Totals(k)[Period] <= Limit - 1 + missed
        BY <2>3, <3>1 DEF Fits, InClosed
      <4> QED BY <2>1, <2>2, <4>1, RateAssumption
    <3>2. CASE hitsTtl[k] # 0
      <4>1. Totals(k)[Period] <= Limit - 1 + Taken(hits[k]) + missed
        BY <2>3, <3>2 DEF Fits, InOpen
      <4>2. Taken(hits[k]) \in 0 .. Limit
        BY <2>1, TakenType
      <4> QED BY <2>1, <2>2, <4>1, <4>2, RateAssumption
    <3> QED BY <3>1, <3>2
  <2> QED BY <2>2, <2>4
<1> QED BY <1>1, RateInitInv, RateNextInv, PTL DEF RateSpec

(***************************************************************************)
(* Lockout, for any number of login requests, any threshold above one and  *)
(* any length of the lock.                                                 *)
(***************************************************************************)
At(call) == \E r \in Attempt : attempt[r] = call

\* FailuresCount is not inductive: when the lock ends, the counter must have
\* ended with it or before.  It does, since a counter that locks is older than
\* its lock; and while it waits for its expiry no time passes, so that a lock it
\* set meanwhile is as new as can be.
Counted ==
    /\ failed > 0 /\ failedTtl = 0 => At("expire")
    /\ failed >= Threshold /\ ~At("set") => lockTtl > 0 /\ failedTtl <= lockTtl
    /\ failed >= Threshold /\ ~At("set") /\ At("expire") => lockTtl = Lockout

LockoutInv == LockoutTypeOK /\ (lost = 0 => Counted)

-----------------------------------------------------------------------------
LEMMA LockoutInitInv == LockoutInit => LockoutInv
BY LockoutAssumption DEF LockoutInit, LockoutInv, LockoutTypeOK, Counted, Calls

LEMMA CutType == \A n \in Nat : Cut(n) \in 0 .. Threshold + 1 /\ (Cut(n) >= Threshold <=> n >= Threshold)
                                /\ (Cut(n) > 0 <=> n > 0)
BY LockoutAssumption DEF Cut

LEMMA LockoutTypeInv ==
    ASSUME LockoutTypeOK, [LockoutNext]_lockoutVars
    PROVE  LockoutTypeOK'
<1> USE LockoutAssumption DEF LockoutTypeOK
<1>1. CASE UNCHANGED lockoutVars
  BY <1>1 DEF lockoutVars
<1>2. ASSUME NEW r \in Attempt, IsAccountLocked(r) PROVE LockoutTypeOK'
  BY <1>2 DEF IsAccountLocked, CallNext, Calls
<1>3. ASSUME NEW r \in Attempt, Verify(r) PROVE LockoutTypeOK'
  BY <1>3 DEF Verify, CallNext, Calls
<1>4. ASSUME NEW r \in Attempt, Incr(r) PROVE LockoutTypeOK'
  <2>1. Cut(failed + 1) \in 0 .. Threshold + 1
    BY CutType
  <2>2. AfterIncr(failed + 1) \in Calls
    BY DEF AfterIncr, Calls
  <2> QED BY <1>4, <2>1, <2>2 DEF Incr, CallNext
<1>5. ASSUME NEW r \in Attempt, Expire(r) PROVE LockoutTypeOK'
  BY <1>5 DEF Expire, CallNext, Calls
<1>6. ASSUME NEW r \in Attempt, SetLock(r) PROVE LockoutTypeOK'
  BY <1>6 DEF SetLock, CallNext, Calls
<1>7. ASSUME NEW r \in Attempt, Reset(r) PROVE LockoutTypeOK'
  BY <1>7 DEF Reset, CallNext, Calls
<1>8. ASSUME NEW r \in Attempt, Lose(r) PROVE LockoutTypeOK'
  BY <1>8 DEF Lose, CallNext, Calls
<1>9. CASE ClockTick
  BY <1>9 DEF ClockTick
<1> QED BY <1>1, <1>2, <1>3, <1>4, <1>5, <1>6, <1>7, <1>8, <1>9 DEF LockoutNext, AttemptStep

\* The calls other requests are about to make stay what they are.
LEMMA OthersStay ==
    ASSUME LockoutTypeOK, NEW r \in Attempt, NEW call, CallNext(r, call)
    PROVE  /\ attempt'[r] = call
           /\ \A q \in Attempt \ {r} : attempt'[q] = attempt[q]
BY DEF CallNext, LockoutTypeOK

LEMMA CountedInv ==
    ASSUME LockoutTypeOK, Counted, [LockoutNext]_lockoutVars, lost' = 0, lost = 0
    PROVE  Counted'
<1> USE LockoutAssumption
<1>1. CASE UNCHANGED lockoutVars
  BY <1>1 DEF lockoutVars, Counted, At
<1>2. ASSUME NEW r \in Attempt, IsAccountLocked(r) PROVE Counted'
  BY <1>2, OthersStay DEF IsAccountLocked, Counted, At
<1>3. ASSUME NEW r \in Attempt, Verify(r) PROVE Counted'
  <2>1. PICK next \in {"incr", "delete", "ttl"} : CallNext(r, next)
    BY <1>3 DEF Verify
  <2> QED BY <1>3, <2>1, OthersStay DEF Verify, Counted, At
<1>4. ASSUME NEW r \in Attempt, Incr(r) PROVE Counted'
  <2>1. /\ failed \in Nat
        /\ failed' >= Threshold <=> failed + 1 >= Threshold
        /\ failedTtl' = failedTtl /\ lockTtl' = lockTtl
    BY <1>4, CutType DEF Incr, LockoutTypeOK
  <2>2. /\ attempt'[r] = AfterIncr(failed + 1) /\ attempt[r] = "incr"
        /\ \A q \in Attempt \ {r} : attempt'[q] = attempt[q]
    BY <1>4, OthersStay DEF Incr
  <2>3. CASE failed = 0
    <3>1. attempt'[r] = "expire" /\ ~(failed' >= Threshold)
      BY <2>1, <2>2, <2>3 DEF AfterIncr
    <3> QED BY <3>1 DEF Counted, At
  <2>4. CASE failed > 0 /\ failed + 1 >= Threshold
    <3>1. attempt'[r] = "set"
      BY <2>1, <2>2, <2>4 DEF AfterIncr
    <3>2. failedTtl = 0 => \E q \in Attempt \ {r} : attempt[q] = "expire"
      BY <2>2, <2>4 DEF Counted, At
    <3> QED BY <2>1, <2>2, <3>1, <3>2 DEF Counted, At
  <2>5. CASE failed > 0 /\ ~(failed + 1 >= Threshold)
    <3>1. failedTtl = 0 => \E q \in Attempt \ {r} : attempt[q] = "expire"
      BY <2>2, <2>5 DEF Counted, At
    <3> QED BY <2>1, <2>2, <2>5, <3>1 DEF Counted, At
  <2> QED BY <2>1, <2>3, <2>4, <2>5
<1>5. ASSUME NEW r \in Attempt, Expire(r) PROVE Counted'
  <2>1. /\ attempt'[r] = "ttl" /\ attempt[r] = "expire"
        /\ \A q \in Attempt \ {r} : attempt'[q] = attempt[q]
        /\ failed' = failed /\ lockTtl' = lockTtl
        /\ failedTtl' = IF failed > 0 THEN Lockout ELSE failedTtl
    BY <1>5, OthersStay DEF Expire
  <2>2. At("expire") /\ (At("set")' <=> At("set")) /\ (At("expire")' => At("expire"))
    BY <2>1 DEF At
  <2>3. failed \in Nat /\ lockTtl \in Nat
    BY DEF LockoutTypeOK
  <2> QED BY <2>1, <2>2, <2>3 DEF Counted
<1>6. ASSUME NEW r \in Attempt, SetLock(r) PROVE Counted'
  <2>1. /\ attempt'[r] = "ttl" /\ attempt[r] = "set"
        /\ \A q \in Attempt \ {r} : attempt'[q] = attempt[q]
        /\ failed' = failed /\ failedTtl' = failedTtl /\ lockTtl' = Lockout
    BY <1>6, OthersStay DEF SetLock
  <2>2. At("expire")' <=> At("expire")
    BY <2>1 DEF At
  <2>3. failedTtl \in 0 .. Lockout
    BY DEF LockoutTypeOK
  <2> QED BY <2>1, <2>2, <2>3 DEF Counted
<1>7. ASSUME NEW r \in Attempt, Reset(r) PROVE Counted'
  BY <1>7 DEF Reset, Counted
<1>8. ASSUME NEW r \in Attempt, Lose(r) PROVE Counted'
  BY <1>8 DEF Lose
<1>9. CASE ClockTick
  <2>1. ~At("expire") /\ ~At("set") /\ attempt' = attempt
    BY <1>9 DEF ClockTick, At
  <2>2. ~At("expire")' /\ ~At("set")'
    BY <2>1 DEF At
  <2>3. failed \in Nat /\ failedTtl \in Nat /\ lockTtl \in Nat
    BY DEF LockoutTypeOK
  <2> QED BY <1>9, <2>1, <2>2, <2>3 DEF ClockTick, Counted
<1> QED BY <1>1, <1>2, <1>3, <1>4, <1>5, <1>6, <1>7, <1>8, <1>9 DEF LockoutNext, AttemptStep

\* Calls that were lost stay lost.
LEMMA LostStays ==
    ASSUME LockoutTypeOK, [LockoutNext]_lockoutVars, lost' = 0
    PROVE  lost = 0
BY DEF LockoutTypeOK, LockoutNext, AttemptStep, IsAccountLocked, Verify, Incr, Expire,
       SetLock, Reset, Lose, ClockTick, lockoutVars

LEMMA LockoutNextInv == LockoutInv /\ [LockoutNext]_lockoutVars => LockoutInv'
BY LockoutTypeInv, CountedInv, LostStays DEF LockoutInv

\* The calls and times of Lockout keep their types.
THEOREM LockoutTypeCorrect == LockoutSpec => []LockoutTypeOK
<1>1. LockoutInv => LockoutTypeOK
  BY DEF LockoutInv
<1> QED BY LockoutInitInv, LockoutNextInv, <1>1, PTL DEF LockoutSpec

\* While no call to Redis is lost, every counter of failures is given an end, and
\* an account that can be tried has fewer failures to its name than lock it.
THEOREM FailuresAlwaysCount == LockoutSpec => []FailuresCount
<1>1. ASSUME LockoutInv PROVE FailuresCount
  BY <1>1 DEF LockoutInv, Counted, FailuresCount, At, LockoutTypeOK
<1> QED BY LockoutInitInv, LockoutNextInv, <1>1, PTL DEF LockoutSpec

(***************************************************************************)
(* The behaviours of all of them.                                          *)
(***************************************************************************)
EachInv == HeartbeatTypeOK /\ InboxFits /\ ClientTypeOK /\ PushTypeOK /\ LockoutTypeOK

\* Every module keeps the types of its variables, whichever of them takes a step.
THEOREM TypeCorrect == MCSpec => []TypeOK
<1>1. MCInit => EachInv
  <2>1. HeartbeatInit => HeartbeatTypeOK /\ InboxFits
    <3>1. HeartbeatInit => HeartbeatInv(0)
      BY HeartbeatInitInv
    <3> QED BY <3>1 DEF HeartbeatInv
  <2>2. ClientInit => ClientTypeOK
    <3>1. 0 \in 0 .. MaxReconnects + 1
      BY ReconnectAssumption
    <3> QED BY <3>1 DEF ClientInit, ClientTypeOK, Modes
  <2> QED BY <2>1, <2>2, PushInitInv, LockoutInitInv DEF MCInit, EachInv, LockoutInv
<1>2. EachInv /\ [MCNext]_allVars => EachInv'
  <2> SUFFICES ASSUME EachInv, [MCNext]_allVars PROVE EachInv'
    OBVIOUS
  <2>1. [HeartbeatNext]_heartbeatVars /\ [ClientNext]_clientVars /\ [PushNext]_pushVars
        /\ [LockoutNext]_lockoutVars
    BY DEF MCNext, allVars
  <2> QED BY <2>1, HeartbeatTypeInv, ClientTypeInv, PushTypeInv, LockoutTypeInv DEF EachInv
<1>3. EachInv => TypeOK
  BY DEF EachInv, TypeOK
<1> QED BY <1>1, <1>2, <1>3, PTL DEF MCSpec
=============================================================================
