---------------------------- MODULE WsHeartbeat ----------------------------
(***************************************************************************)
(* The send loop of one /ws/prices connection (routers/ws.py) and the      *)
(* client's side of its heartbeat.  A round of the loop drains at most one *)
(* message, sends a ping every few rounds, closes the connection when the  *)
(* last pong is too long ago, and pushes the prices of the subscribed      *)
(* pairs; how long that takes depends on the price look-ups.  The client   *)
(* is the one of useRealtime.ts: it answers every ping, at once.           *)
(***************************************************************************)
EXTENDS Integers, Sequences

CONSTANTS
    PingEvery,  \* HEARTBEAT_EVERY_TICKS
    Timeout,    \* HEARTBEAT_TIMEOUT_SECONDS
    Duration,   \* how long a round may take
    MaxInbox    \* bound: messages of the client the server has not drained

ASSUME HeartbeatAssumption ==
    /\ PingEvery \in Nat \ {0}
    /\ Timeout \in Nat
    /\ Duration \subseteq Nat \ {0}
    /\ MaxInbox \in Nat \ {0}

VARIABLES
    state,   \* the connection: "open" or "closed" by the server
    client,  \* "up", or "gone" without a close, as when a proxy drops it
    tick,    \* rounds since the last ping
    pings,   \* pings the client has not answered
    inbox,   \* messages of the client that wait for the server, oldest first
    unseen   \* how long ago last_seen is, cut at Timeout + 1

heartbeatVars == <<state, client, tick, pings, inbox, unseen>>

HeartbeatTypeOK ==
    /\ state \in {"open", "closed"}
    /\ client \in {"up", "gone"}
    /\ tick \in 0 .. PingEvery - 1
    /\ pings \in 0 .. 1
    /\ inbox \in Seq({"pong", "subscribe"}) /\ Len(inbox) <= MaxInbox + 1
    /\ unseen \in 0 .. Timeout + 1

Age(n, d) == IF n + d > Timeout THEN Timeout + 1 ELSE n + d

HeartbeatInit ==
    /\ state = "open"
    /\ client = "up"
    /\ tick = 0
    /\ pings = 0
    /\ inbox = <<>>
    /\ unseen = 0

\* Faulty: any round proves the connection alive.
RoundSeesItself(d) ==
    /\ state = "open"
    /\ client = "up" => pings = 0
    /\ inbox' = IF inbox = <<>> THEN inbox ELSE Tail(inbox)
    /\ tick' = (tick + 1) % PingEvery
    /\ pings' = IF tick = 0 /\ client = "up" THEN 1 ELSE pings
    /\ unseen' = d
    /\ UNCHANGED <<state, client>>
\* One round of the loop that takes d.  A ping of an earlier round has been
\* answered by a client that answers.
Round(d) ==
    LET msg == IF inbox = <<>> THEN "none" ELSE Head(inbox)
        seen == IF msg = "pong" THEN 0 ELSE unseen
    IN  /\ state = "open"
        /\ client = "up" => pings = 0
        /\ inbox' = IF inbox = <<>> THEN inbox ELSE Tail(inbox)
        /\ pings' = IF tick = 0 /\ client = "up" THEN 1 ELSE pings
        /\ IF seen > Timeout
           THEN /\ state' = "closed"
                /\ unseen' = seen
                /\ UNCHANGED tick
           ELSE /\ unseen' = Age(seen, d)
                /\ tick' = (tick + 1) % PingEvery
                /\ UNCHANGED state
        /\ UNCHANGED client

\* Faulty: the ping is taken and not answered.
PongLost ==
    /\ client = "up"
    /\ pings > 0
    /\ pings' = 0
    /\ UNCHANGED <<state, client, tick, inbox, unseen>>
\* The client answers the ping it received.
Pong ==
    /\ client = "up"
    /\ pings > 0
    /\ pings' = 0
    /\ inbox' = Append(inbox, "pong")
    /\ UNCHANGED <<state, client, tick, unseen>>

\* The client changes its subscriptions.
Subscribe ==
    /\ client = "up"
    /\ Len(inbox) < MaxInbox
    /\ inbox' = Append(inbox, "subscribe")
    /\ UNCHANGED <<state, client, tick, pings, unseen>>

Vanish ==
    /\ client = "up"
    /\ client' = "gone"
    /\ UNCHANGED <<state, tick, pings, inbox, unseen>>

Loop == \E d \in Duration : Round(d)

HeartbeatNext ==
    \/ Loop
    \/ Pong
    \/ Subscribe
    \/ Vanish

HeartbeatSpec == HeartbeatInit /\ [][HeartbeatNext]_heartbeatVars

-----------------------------------------------------------------------------
\* A client that answers every ping is not taken for dead, though its pong waits
\* behind other messages that are drained one a round, it is asked for only now
\* and then, and rounds may take twice as long as their sleep.
AnsweringStaysOpen == client = "up" => state = "open"

\* A client that is gone is noticed, whatever it had still sent.
GoneIsClosed == client = "gone" ~> state = "closed"
=============================================================================
