----------------------------- MODULE MCCurrency -----------------------------
(***************************************************************************)
(* Currency for TLC: two tables, and a sum so small that it rounds to 0.   *)
(***************************************************************************)
EXTENDS Currency

CONSTANTS aed, eu

MCTile == {Qar, Usd, aed, eu}
MCFetched == {Usd, aed}

\* What 100 riyals are worth.
MCMarket == {[c \in MCFetched |-> IF c = Usd THEN 27 ELSE 101],
             [c \in MCFetched |-> IF c = Usd THEN 28 ELSE 99]}
=============================================================================
