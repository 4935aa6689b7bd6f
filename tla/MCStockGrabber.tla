--------------------------- MODULE MCStockGrabber ---------------------------
(* Two requests for one stock that closed at 10.10 rupees, the second      *)
(* resuming from an earlier price.  The last price is near the day's limit.*)
EXTENDS StockGrabber, TLC

CONSTANTS s1, s2
MCChange == 104 :> 297 @@ 109 :> 792 @@ 113 :> 1188 @@ 116 :> 1485
MCResume == s1 :> 0 @@ s2 :> 104
=============================================================================
