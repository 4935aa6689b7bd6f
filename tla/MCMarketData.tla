---------------------------- MODULE MCMarketData ----------------------------
(* Small instances of MarketData. *)
EXTENDS MarketData

CONSTANTS y1, y2
=============================================================================
