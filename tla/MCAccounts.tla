----------------------------- MODULE MCAccounts -----------------------------
(***************************************************************************)
(* The modules about users, their tokens and their tickets in one run.     *)
(* They have no variable in common, so that steps of two of them in one    *)
(* behaviour would show nothing that steps of each alone do not: part says *)
(* which of them a behaviour is of.                                        *)
(***************************************************************************)
EXTENDS Accounts, Sessions, Tickets, TLC

VARIABLE part

MCInit ==
    /\ part \in {"accounts", "sessions", "tickets"}
    /\ AccountsInit
    /\ SessionsInit
    /\ TicketsInit

MCNext ==
    \/ part = "accounts" /\ AccountsNext /\ UNCHANGED <<part, sessionVars, ticketVars>>
    \/ part = "sessions" /\ SessionsNext /\ UNCHANGED <<part, accountVars, ticketVars>>
    \/ part = "tickets" /\ TicketsNext /\ UNCHANGED <<part, accountVars, sessionVars>>

MCSpec == MCInit /\ [][MCNext]_<<part, accountVars, sessionVars, ticketVars>>

\* The tabs of a browser are alike, and so are requests of a kind and tickets.
Alike == Permutations(Tab) \cup Permutations(Form) \cup Permutations(Patch)
             \cup Permutations(Opener) \cup Permutations(Ticket)
=============================================================================
