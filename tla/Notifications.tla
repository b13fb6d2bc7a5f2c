--------------------------- MODULE Notifications ---------------------------
(***************************************************************************)
(* One user's notifications: the rows that fills and cancellations insert  *)
(* in their own transactions, the two endpoints that mark them read, and   *)
(* the /ws/notifications stream that pushes them.                          *)
(*                                                                         *)
(* A notification is its place in the order of created_at, which is set    *)
(* when the row is built; its transaction may commit after those of later  *)
(* rows, or never.                                                         *)
(***************************************************************************)
EXTENDS Integers, FiniteSets

CONSTANTS
    MaxRows,  \* bound: notifications ever created
    Window    \* how many of the newest rows a push looks at (30 in the code)

ASSUME WindowAssumption == MaxRows \in Nat /\ Window \in Nat \ {0}

Row == 1 .. MaxRows

VARIABLES
    row,     \* [Row -> "none", "pending" in a transaction, "gone", "unread", "read"]
    told,    \* rows the user's client was told are read now
    stream,  \* where the push loop of the connection is
    sent,    \* sent_ids: what the connection has pushed
    count    \* the last unread_count the connection has pushed

pushVars == <<row, told, stream, sent, count>>

Committed == {n \in Row : row[n] \in {"unread", "read"}}

PushTypeOK ==
    /\ row \in [Row -> {"none", "pending", "gone", "unread", "read"}]
    /\ told \subseteq Row
    /\ stream \in {"closed", "list", "count"}
    /\ sent \subseteq Committed
    /\ count \in 0 .. MaxRows

Unread == {n \in Row : row[n] = "unread"}
Newer(n) == {m \in Committed : m > n}

\* Faulty: the first rows instead of the latest.
Oldest == {n \in Committed : Cardinality({m \in Committed : m < n}) < Window}
\* list_notifications with the limit of the push.
Newest == {n \in Committed : Cardinality(Newer(n)) < Window}

PushInit ==
    /\ row = [n \in Row |-> "none"]
    /\ told = {}
    /\ stream = "closed"
    /\ sent = {}
    /\ count = 0

\* create_notification, called by a fill or a cancellation.
Create(n) ==
    /\ row[n] = "none"
    /\ \A m \in 1 .. n - 1 : row[m] # "none"
    /\ row' = [row EXCEPT ![n] = "pending"]
    /\ UNCHANGED <<told, stream, sent, count>>

\* The transaction of the fill or of the cancellation ends.
EndCreate(n) ==
    /\ row[n] = "pending"
    /\ \E outcome \in {"unread", "gone"} : row' = [row EXCEPT ![n] = outcome]
    /\ UNCHANGED <<told, stream, sent, count>>

\* POST /notifications/{id}/read: mark_read flushes, the answer says is_read,
\* and the session is closed without a commit.
ReadOne(n) ==
    /\ n \in Committed
    /\ told' = told \cup {n}
    /\ UNCHANGED <<row, stream, sent, count>>

\* POST /notifications/read-all, in the same way.
ReadAll ==
    /\ told' = told \cup Unread
    /\ UNCHANGED <<row, stream, sent, count>>

\* A connection is accepted and authenticated: nothing is sent on it yet.
Connect ==
    /\ stream = "closed"
    /\ stream' = "list"
    /\ sent' = {}
    /\ count' = 0
    /\ UNCHANGED <<row, told>>

Disconnect ==
    /\ stream # "closed"
    /\ stream' = "closed"
    /\ UNCHANGED <<row, told, sent, count>>

\* The loop reads the newest rows, to push those it has not pushed yet;
PushList ==
    /\ stream = "list"
    /\ sent' = sent \cup Newest
    /\ stream' = "count"
    /\ UNCHANGED <<row, told, count>>

\* Faulty: the count is taken from what was pushed before.
PushCountOfSent ==
    /\ stream = "count"
    /\ count' = IF count = 0 THEN Cardinality(sent \cap Unread) ELSE count
    /\ stream' = "list"
    /\ UNCHANGED <<row, told, sent>>
\* then, with a statement of its own, it counts the unread rows.
PushCount ==
    /\ stream = "count"
    /\ count' = Cardinality(Unread)
    /\ stream' = "list"
    /\ UNCHANGED <<row, told, sent>>

Push == PushList \/ PushCount

PushNext ==
    \/ \E n \in Row : Create(n) \/ EndCreate(n) \/ ReadOne(n)
    \/ ReadAll
    \/ Connect
    \/ Disconnect
    \/ Push

PushSpec == PushInit /\ [][PushNext]_pushVars

-----------------------------------------------------------------------------
\* The client of a connection is never left with a badge below the unread
\* notifications it was pushed: the list and the count are two statements,
\* and rows are committed between them.
CountCoversList ==
    stream = "list" => count >= Cardinality(sent \cap Unread)

\* A committed notification is pushed on a connection that stays open, unless
\* Window later ones are committed before the loop looks again, even when its
\* transaction committed after those of later rows.
EventuallyPushed ==
    \A n \in Row : n \in Committed ~>
        \/ n \in sent
        \/ stream = "closed"
        \/ Cardinality(Newer(n)) >= Window

\* What a client was told is read is read, and not counted as unread again.
ReadIsKept == told \cap Unread = {}
=============================================================================
