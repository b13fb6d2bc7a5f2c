------------------------------- MODULE Escrow -------------------------------
(***************************************************************************)
(* What the exchange owes the owners of wallets, whatever requests and     *)
(* monitor passes there are: accounts of free funds and of holds.          *)
(* Exchange implements it.                                                 *)
(***************************************************************************)
EXTENDS Integers, Sums

CONSTANTS
    Owned,  \* the accounts
    N       \* in Nat: holds are numbered 1 .. N

VARIABLES
    free,    \* [Owned -> what the owner may spend or withdraw]
    held,    \* [Owned -> [1 .. N -> what is set aside, 0 for no hold]]
    entered  \* [Owned -> the sum of all movements entered so far]

escrow == <<free, held, entered>>

\* Nothing is owed by the owner, and nothing is unaccounted for.
Balanced(a) == free[a] >= 0 /\ free[a] + Sum(held[a], N) = entered[a]

\* A hold stays as it is or ends as a whole, be it spent or given back.
WholeHolds(a) == \A i \in 1 .. N : held[a][i] # 0 => held'[a][i] \in {held[a][i], 0}

\* New holds are set aside from what was free before.
CoveredHolds(a) ==
    Sum([i \in 1 .. N |-> IF held[a][i] = 0 THEN held'[a][i] ELSE 0], N) <= free[a]

EscrowInit ==
    \A a \in Owned : held[a] = [i \in 1 .. N |-> 0] /\ Balanced(a)

EscrowNext == \A a \in Owned : WholeHolds(a) /\ CoveredHolds(a) /\ Balanced(a)'

EscrowSpec == EscrowInit /\ [][EscrowNext]_escrow
=============================================================================
