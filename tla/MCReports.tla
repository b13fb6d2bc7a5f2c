----------------------------- MODULE MCReports -----------------------------
(***************************************************************************)
(* The reports, model-checked one at a time: the history of a portfolio,   *)
(* the paged lists, and the statistics.  A behaviour chooses a part; the   *)
(* lists and the statistics read the same table, and nothing of each other.*)
(***************************************************************************)
EXTENDS PortfolioHistory, Reports

VARIABLE part
mcVars == <<part, vars, reportVars>>

MCInit == part \in {"history", "lists", "stats"} /\ Init /\ ReportsInit

MCNext ==
    /\ UNCHANGED part
    /\ \/ part = "history" /\ Next /\ UNCHANGED reportVars
       \/ part = "lists" /\ (TableStep \/ ListStep) /\ UNCHANGED vars
       \/ part = "stats" /\ (TableStep \/ StatsStep) /\ UNCHANGED vars

MCSpec == MCInit /\ [][MCNext]_mcVars
=============================================================================
