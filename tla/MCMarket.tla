------------------------------ MODULE MCMarket ------------------------------
(***************************************************************************)
(* The market data components, model-checked one at a time: the simulated  *)
(* market maker and the caches.  A behaviour chooses a part and leaves the *)
(* other as it is; they share no variable.                                 *)
(***************************************************************************)
EXTENDS MarketMaker, MarketCache, TLC

VARIABLE part
mcVars == <<part, makerVars, marketVars>>

Parts == {"maker", "cache"}

\* A part that is not chosen begins in one of its initial states.
Resting ==
    /\ part # "maker" => mid = 0
    /\ part # "maker" => \A side \in Side : \A i \in 1 .. Levels : Behind(side, book[side][i], mid) = i
    /\ part # "cache" => kind = "price" /\ host = [h \in Hosts |-> "up"]

MCInit == part \in Parts /\ MakerInit /\ MarketInit /\ Resting

MCNext ==
    /\ UNCHANGED part
    /\ \/ part = "maker" /\ MakerNext /\ UNCHANGED marketVars
       \/ part = "cache" /\ MarketNext /\ UNCHANGED makerVars

MCSpec == MCInit /\ [][MCNext]_mcVars

Alike == Permutations(Reader)
=============================================================================
