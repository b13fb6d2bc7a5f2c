------------------------------ MODULE Tickets ------------------------------
(***************************************************************************)
(* The tickets that open the streams: POST /auth/ws-ticket stores one in   *)
(* Redis with an expiry, authenticate_ws (routers/ws.py) reads it and then *)
(* deletes it (core/cache.py 86-110), two calls of which the second may be *)
(* lost.                                                                   *)
(***************************************************************************)
EXTENDS Integers, FiniteSets

CONSTANTS
    Ticket,   \* tickets that can be created
    Opener    \* connections that may be opening at a time

ASSUME TicketsAssumption == IsFiniteSet(Opener)

VARIABLES
    kept,     \* tickets in Redis
    asked,    \* tickets that were created
    opener,   \* [Opener -> where it is, and with which ticket]
    valid,    \* User.is_active of the tickets' user
    streams,  \* history: [Ticket -> streams it opened]
    overlap   \* history: tickets two connections were reading at once

ticketVars == <<kept, asked, opener, valid, streams, overlap>>

Rest == [at |-> "rest"]

TicketsInit ==
    /\ kept = {}
    /\ asked = {}
    /\ opener = [c \in Opener |-> Rest]
    /\ valid = TRUE
    /\ streams = [k \in Ticket |-> 0]
    /\ overlap = {}

Put(c, place, k) == opener' = [opener EXCEPT ![c] = [at |-> place, ticket |-> k]]
Is(c, place) == opener[c].at = place

\* ws_ticket and create_ws_ticket, for a user get_current_user accepts.
CreateTicket(k) ==
    /\ valid
    /\ k \notin asked
    /\ asked' = asked \cup {k}
    /\ kept' = kept \cup {k}
    /\ UNCHANGED <<opener, valid, streams, overlap>>

\* A connection presents a ticket: consume_ws_ticket reads it,
GetTicket(c, k) ==
    /\ Is(c, "rest")
    /\ k \in kept
    /\ Put(c, "delete", k)
    /\ overlap' = IF \E d \in Opener : Is(d, "delete") /\ opener[d].ticket = k
                  THEN overlap \cup {k} ELSE overlap
    /\ UNCHANGED <<kept, asked, valid, streams>>

\* Faulty: leaves the ticket to its expiry.
DeleteTicketLater(c) ==
    /\ Is(c, "delete")
    /\ Put(c, "load", opener[c].ticket)
    /\ UNCHANGED <<kept, asked, valid, streams, overlap>>
\* deletes it, whether or not it is still there,
DeleteTicket(c) ==
    /\ Is(c, "delete")
    /\ kept' = kept \ {opener[c].ticket}
    /\ Put(c, "load", opener[c].ticket)
    /\ UNCHANGED <<asked, valid, streams, overlap>>

\* or fails to: the connection is refused, and the ticket may be there still.
DeleteLost(c) ==
    /\ Is(c, "delete")
    /\ kept' \in {kept, kept \ {opener[c].ticket}}
    /\ opener' = [opener EXCEPT ![c] = Rest]
    /\ UNCHANGED <<asked, valid, streams, overlap>>

\* authenticate_ws loads the user and lets an active one in.
OpenStream(c) ==
    /\ Is(c, "load")
    /\ streams' = IF valid THEN [streams EXCEPT ![opener[c].ticket] = @ + 1] ELSE streams
    /\ opener' = [opener EXCEPT ![c] = Rest]
    /\ UNCHANGED <<kept, asked, valid, overlap>>

TicketExpires(k) ==
    /\ k \in kept
    /\ kept' = kept \ {k}
    /\ UNCHANGED <<asked, opener, valid, streams, overlap>>

\* An administrator blocks or unblocks the user.
ToggleValid ==
    /\ valid' = ~valid
    /\ UNCHANGED <<kept, asked, opener, streams, overlap>>

TicketsNext ==
    \/ \E k \in Ticket : CreateTicket(k) \/ TicketExpires(k)
    \/ \E c \in Opener, k \in Ticket : GetTicket(c, k)
    \/ \E c \in Opener : DeleteTicket(c) \/ DeleteLost(c) \/ OpenStream(c)
    \/ ToggleValid

TicketsSpec == TicketsInit /\ [][TicketsNext]_ticketVars

-----------------------------------------------------------------------------
\* "One-time": a ticket opens one stream.  Two connections that present it before
\* either deletes it are both let in, and no more: a ticket opens as many streams
\* as there are connections that read it at once, and a lost deletion, which
\* refuses its own connection, leaves no more room than that.
OneTimeTicket ==
    \A k \in Ticket :
        streams[k] <= IF k \in overlap THEN Cardinality(Opener) ELSE 1
=============================================================================
