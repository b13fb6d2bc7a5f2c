-------------------------------- MODULE Sums --------------------------------
(***************************************************************************)
(* Totals over a numbered set of rows.  Prefix is a recursive function and *)
(* not a RECURSIVE operator, so that the modules that use it can be proved *)
(* about; SumsProofs holds its laws.                                       *)
(***************************************************************************)
EXTENDS Integers

\* Running totals of f[1], ..., f[n]; Prefix(f, n)[i] = f[1] + ... + f[i].
Prefix(f, n) ==
    LET total[i \in 0 .. n] == IF i = 0 THEN 0 ELSE total[i - 1] + f[i]
    IN  total

Sum(f, n) == Prefix(f, n)[n]
=============================================================================
