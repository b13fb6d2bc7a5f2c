------------------------------ MODULE MCTimers ------------------------------
(***************************************************************************)
(* The modules that live by timers, windows and loops in one run, with the *)
(* fairness of each.  They have no variable in common, so that steps of    *)
(* two of them in one behaviour would show nothing that steps of each      *)
(* alone do not: part says which of them a behaviour is of.                *)
(***************************************************************************)
EXTENDS WsHeartbeat, RealtimeClient, Notifications, RateLimit, Lockout

VARIABLE part

allVars == <<part, heartbeatVars, clientVars, pushVars, rateVars, lockoutVars>>

MCInit ==
    /\ part \in {"heartbeat", "client", "push", "rate", "lockout"}
    /\ HeartbeatInit
    /\ ClientInit
    /\ PushInit
    /\ RateInit
    /\ LockoutInit

MCNext ==
    \/ part = "heartbeat" /\ HeartbeatNext
           /\ UNCHANGED <<part, clientVars, pushVars, rateVars, lockoutVars>>
    \/ part = "client" /\ ClientNext
           /\ UNCHANGED <<part, heartbeatVars, pushVars, rateVars, lockoutVars>>
    \/ part = "push" /\ PushNext
           /\ UNCHANGED <<part, heartbeatVars, clientVars, rateVars, lockoutVars>>
    \/ part = "rate" /\ RateNext
           /\ UNCHANGED <<part, heartbeatVars, clientVars, pushVars, lockoutVars>>
    \/ part = "lockout" /\ LockoutNext
           /\ UNCHANGED <<part, heartbeatVars, clientVars, pushVars, rateVars>>

\* The loop of a price stream and the loop of a connected notification stream
\* run on; the browser's timers fire; the clock of Redis runs, and a login that
\* has begun goes on.  Only the first is enabled from the start, and so needs
\* to be told whether the behaviour is its own.
MCFairness ==
    /\ WF_heartbeatVars(part = "heartbeat" /\ Loop)
    /\ ClientFairness
    /\ WF_pushVars(Push)
    /\ LockoutFairness

MCSpec == MCInit /\ [][MCNext]_allVars /\ MCFairness

TypeOK == HeartbeatTypeOK /\ ClientTypeOK /\ PushTypeOK /\ LockoutTypeOK

\* Two users behind one address.
MCCountersOf == [c \in Caller |-> {c, "address"}]
=============================================================================
