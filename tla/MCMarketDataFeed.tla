---------------------------- MODULE MCMarketDataFeed ----------------------------
(* Instances of MarketDataFeed for TLC: two connections and two messages,  *)
(* of one connection or of both.                                           *)
EXTENDS MarketDataFeed

CONSTANTS c1, c2, m1, m2

TwoConnections == {c1, c2}
TwoMessages == {m1, m2}
=============================================================================
