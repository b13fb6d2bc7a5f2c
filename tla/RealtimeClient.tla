--------------------------- MODULE RealtimeClient ---------------------------
(***************************************************************************)
(* The feed of the trading page (hooks/useRealtime.ts): a WebSocket with   *)
(* bounded reconnection, degrading to REST polling.  Everything runs in    *)
(* the browser's event loop: an action is a callback run to its end or to  *)
(* its next await.  The component stays mounted.                           *)
(*                                                                         *)
(* A run of the effect has a socket, a closed flag and a reconnect timer   *)
(* of its own; the polling interval, the count of attempts and the         *)
(* buffered update are refs that all runs share.  cur is the run whose     *)
(* cleanup has not been called; stray is a run whose cleanup was called    *)
(* while it was waiting for its ticket (one at a time).                    *)
(***************************************************************************)
EXTENDS Integers

CONSTANTS
    MaxReconnects   \* MAX_RECONNECTS

ASSUME ReconnectAssumption == MaxReconnects \in Nat \ {0}

Off == "off"  \* the hook has no pairs or no access token: no run of the effect

VARIABLES
    cur,       \* Off, or where the run's socket is; "gone" when it has none
    timer,     \* whether the run's reconnect timer is set
    stray,     \* "none", or where that run's socket is
    attempts,  \* connectAttemptsRef, cut at MaxReconnects + 1
    polling,   \* whether pollRef holds an interval
    pending,   \* pendingRef's mode (connected is set with it), or "none"
    mode       \* the mode the page shows

clientVars == <<cur, timer, stray, attempts, polling, pending, mode>>

\* "silent": still open, and the server's frames no longer arrive.
Sockets == {"ticket", "connecting", "open", "silent"}
Modes == {"ws", "polling"}

ClientTypeOK ==
    /\ cur \in Sockets \cup {"gone", Off}
    /\ timer \in BOOLEAN
    /\ stray \in Sockets \cup {"none"}
    /\ attempts \in 0 .. MaxReconnects + 1
    /\ polling \in BOOLEAN
    /\ pending \in Modes \cup {"none"}
    /\ mode \in Modes

ClientInit ==
    /\ cur = Off
    /\ timer = FALSE
    /\ stray = "none"
    /\ attempts = 0
    /\ polling = FALSE
    /\ pending = "none"
    /\ mode = "ws"

-----------------------------------------------------------------------------
\* startPolling
StartPolling == polling' = TRUE /\ pending' = "polling"

\* stopPolling
StopPolling == polling' = FALSE

\* Faulty: leaves the polling interval of the run before.
CleanupKeepsPolling ==
    /\ cur = "ticket" => stray = "none"
    /\ timer' = FALSE
    /\ stray' = IF cur = "ticket" THEN "ticket" ELSE stray
    /\ UNCHANGED <<polling, pending>>
\* The cleanup of the current run.  It closes a socket there is, whose onclose
\* then finds closed set; a run that awaits its ticket has none yet.
Cleanup ==
    /\ cur = "ticket" => stray = "none"
    /\ timer' = FALSE
    /\ stray' = IF cur = "ticket" THEN "ticket" ELSE stray
    /\ StopPolling
    /\ UNCHANGED pending

\* connect gives up at once after too many attempts: the new run only polls.
\* The cleanup before it has stopped what polling there was.
RunPolls ==
    /\ attempts >= MaxReconnects
    /\ cur = "ticket" => stray = "none"
    /\ stray' = IF cur = "ticket" THEN "ticket" ELSE stray
    /\ timer' = FALSE
    /\ attempts' = MaxReconnects + 1
    /\ cur' = "gone"
    /\ StartPolling

\* Faulty: every run of the effect counts its attempts anew.
RunConnectsAnew ==
    /\ attempts' = 1
    /\ cur' = "ticket"
    /\ Cleanup
\* connect, up to its await.
RunConnects ==
    /\ attempts < MaxReconnects
    /\ attempts' = attempts + 1
    /\ cur' = "ticket"
    /\ Cleanup

RunEffect == (RunConnects \/ RunPolls) /\ UNCHANGED mode

\* The hook comes into use, or its pairs change.
Start == RunEffect

\* The page has no pairs any more, or the user logs out.
Stop ==
    /\ cur # Off
    /\ cur' = Off
    /\ Cleanup
    /\ UNCHANGED <<attempts, mode>>

\* getWsUrl answers; no one asks whether the run is closed meanwhile.
TicketArrives ==
    /\ \/ cur = "ticket" /\ cur' = "connecting" /\ UNCHANGED stray
       \/ stray = "ticket" /\ stray' = "connecting" /\ UNCHANGED cur
    /\ UNCHANGED <<timer, attempts, polling, pending, mode>>

\* No ticket, or a URL no socket can be made for.
TicketFails ==
    /\ \/ cur = "ticket" /\ cur' = "gone" /\ UNCHANGED stray
       \/ stray = "ticket" /\ stray' = "none" /\ UNCHANGED cur
    /\ StartPolling
    /\ UNCHANGED <<timer, attempts, mode>>

\* onopen
Opens ==
    /\ \/ cur = "connecting" /\ cur' = "open" /\ UNCHANGED stray
       \/ stray = "connecting" /\ stray' = "open" /\ UNCHANGED cur
    /\ attempts' = 0
    /\ StopPolling
    /\ pending' = "ws"
    /\ UNCHANGED <<timer, mode>>

\* Faulty: after the last attempt nothing takes over.
OnCloseQuietly ==
    /\ cur' = "gone"
    /\ timer' = (attempts < MaxReconnects)
    /\ UNCHANGED <<stray, attempts, polling, pending, mode>>
\* onclose of the current run: a reconnect timer, or polling for good.
OnClose ==
    /\ cur' = "gone"
    /\ timer' = (attempts < MaxReconnects)
    /\ IF attempts < MaxReconnects THEN UNCHANGED <<polling, pending>>
                                   ELSE StartPolling
    /\ UNCHANGED <<stray, attempts, mode>>

\* The server closes the socket, or it fails: onerror closes it.
Closes == cur \in {"connecting", "open"} /\ OnClose

\* onclose of a run that has been cleaned up does nothing more.
StrayCloses ==
    /\ stray \in {"connecting", "open"}
    /\ stray' = "none"
    /\ UNCHANGED <<cur, timer, attempts, polling, pending, mode>>

\* The connection dies without a close.
FallsSilent ==
    /\ \/ cur = "open" /\ cur' = "silent" /\ UNCHANGED stray
       \/ stray = "open" /\ stray' = "silent" /\ UNCHANGED cur
    /\ UNCHANGED <<timer, attempts, polling, pending, mode>>

\* staleTimer closes a socket that has been silent for too long.
Stale == cur = "silent" /\ OnClose

\* The reconnect timer runs the effect again.
Reconnect == timer /\ RunEffect

\* flushTimer, an interval of the current run, shows what was buffered.
Flush ==
    /\ cur # Off
    /\ pending # "none"
    /\ mode' = pending
    /\ pending' = "none"
    /\ UNCHANGED <<cur, timer, stray, attempts, polling>>

ClientNext ==
    \/ Start
    \/ Stop
    \/ TicketArrives
    \/ TicketFails
    \/ Opens
    \/ Closes
    \/ StrayCloses
    \/ FallsSilent
    \/ Stale
    \/ Reconnect
    \/ Flush

ClientSpec == ClientInit /\ [][ClientNext]_clientVars

\* The browser's timers fire; an await and a connection attempt end.
ClientFairness ==
    /\ WF_clientVars(TicketArrives \/ TicketFails)
    /\ WF_clientVars(Opens \/ Closes)
    /\ WF_clientVars(Stale)
    /\ WF_clientVars(Reconnect)

-----------------------------------------------------------------------------
Feeding == polling \/ cur = "open"

\* No cleanup ever comes while a run awaits its ticket.  What follows is what
\* the comments of the hook say; a stray run breaks each, since it does not ask
\* whether it is closed when its ticket arrives.
NoStray == [](stray = "none")

\* No polling interval outlives the cleanup of the last run: "we keep a ref so
\* the cleanup can always tear it down regardless of which mode is active".
TornDown == NoStray => [](cur = Off => ~polling)

\* The page polls only while it has no socket and is not getting one: there are
\* never two that write prices, and onopen finds no polling left to stop.
OneFeed == NoStray => [](polling => cur \notin Sockets)

\* The page does not stay frozen: a hook in use is fed again and again.
FeedReturns == NoStray => []<>(cur = Off \/ Feeding)

\* A server that lets no socket open is not tried for ever, however often the
\* effect is run again: MAX_RECONNECTS is honoured across the runs.
GivesUp == []<>(cur = "open" \/ stray = "open") \/ <>[](cur \in {"gone", Off})
=============================================================================
