------------------------------ MODULE MCScans -------------------------------
(***************************************************************************)
(* Scans of one order: a built-in strategy (Strategies) or a plan of rules *)
(* (Rules), whose states have nothing in common, so that a behaviour       *)
(* explores one of the two, its "kind".                                    *)
(***************************************************************************)
EXTENDS MCRules, FiniteSetsExt

CONSTANTS Settings, Quotes, Profiles, MaxStrategyScans

-----------------------------------------------------------------------------
(* Orders, quotes and details to scan: one order per strategy and variant, *)
(* quotes around its stops and targets.                                    *)

Plain == [strategy |-> "Fixed Price Buy", alias |-> "", side |-> "buy", qty |-> 5, price |-> 100, avg |-> 0,
          stop |-> 0, limit |-> 0, profit |-> 0, book |-> 0, activation |-> 0, trail |-> 30, slip |-> 10,
          stopPct |-> 30, legs |-> <<>>, split |-> FALSE, confirmed |-> TRUE, atExpiry |-> "Cancel strategy",
          wrapped |-> "", needsFresh |-> FALSE, needsVolume |-> TRUE]
Sell(strategy, alias) == [Plain EXCEPT !.strategy = strategy, !.alias = alias, !.side = "sell", !.avg = 100]

Buys == {[Plain EXCEPT !.strategy = s] :
           s \in {"Fixed Price Buy", "Quality Pullback Recovery Buy", "Confirmed Breakout Buy", "Smart Pullback Buy",
                  "Mean Reversion Bounce Buy", "Order Book Strength Buy"}}
        \cup {[Plain EXCEPT !.strategy = "Time-Based Buy", !.wrapped = w] :
                 w \in {"Quality Pullback Recovery Buy", "Smart Pullback Buy"}}
MCExits == {Sell("Fixed Price Sell", ""), Sell("Technical Weakness Sell", ""),
          Sell("Emergency Exit by Top Buyer", ""), [Sell("Emergency Exit by Top Buyer", "") EXCEPT !.split = TRUE],
          [Sell("Emergency Exit by Top Buyer", "") EXCEPT !.needsFresh = TRUE],
          Sell("Capital Protection Sell", ""), [Sell("Capital Protection Sell", "") EXCEPT !.stop = 96, !.needsFresh = TRUE],
          [Sell("Capital Protection Sell", "Fast Stop Loss") EXCEPT !.stop = 97],
          [Sell("Capital Protection Sell", "Stop Limit Sell") EXCEPT !.stop = 97, !.limit = 96],
          [Sell("Profit Ladder Sell", "") EXCEPT !.price = 120],
          Sell("Profit Ladder Sell", ""),
          [Sell("Profit Ladder Sell", "Partial Profit Booking") EXCEPT !.price = 120,
             !.legs = <<[target |-> 102000, percent |-> 50], [target |-> 104000, percent |-> 70]>>],
          [Sell("Profit Ladder Sell", "Smart Profit Booking") EXCEPT !.price = 120, !.profit = 104],
          [Sell("Profit Ladder Sell", "Book Profit + Stop Loss") EXCEPT !.book = 104, !.stop = 97, !.slip = 100],
          [Sell("Trailing Runner Sell", "Trailing Stop Loss") EXCEPT !.activation = 102, !.price = 120],
          Sell("Time-Based Exit", ""), [Sell("Time-Based Exit", "") EXCEPT !.atExpiry = "Sell using Top Buy"]}
MCSettings == Buys \cup MCExits

Tops == {[bid |-> 0, bidQty |-> 0, ask |-> 0, askQty |-> 0], [bid |-> 93, bidQty |-> 2, ask |-> 105, askQty |-> 4],
          [bid |-> 97, bidQty |-> 3, ask |-> 105, askQty |-> 1], [bid |-> 100, bidQty |-> 1, ask |-> 99, askQty |-> 1],
          [bid |-> 0, bidQty |-> 0, ask |-> 105, askQty |-> 1]}
Quote(p, b, wide, age) ==
  [ltp |-> p, open |-> 97, close |-> 97, high |-> IF wide THEN 106 ELSE Max({p, 99}), low |-> IF wide THEN 94 ELSE Min({p, 97}),
   volume |-> ~wide, chasing |-> p > 103, age |-> age, bid |-> b.bid, bidQty |-> b.bidQty, ask |-> b.ask, askQty |-> b.askQty]
MCQuotes ==
  {Quote(p, b, FALSE, "fresh") : p \in {95, 96, 98, 99, 102, 108}, b \in Tops}
  \cup {Quote(p, b, TRUE, "old") : p \in {95, 98, 102}, b \in {x \in Tops : x.bid \in {0, 97}}}
  \cup {Quote(95, b, FALSE, "stale") : b \in {x \in Tops : x.bid = 0}}

NoDetails == [available |-> FALSE, quality |-> FALSE, technical |-> FALSE, bearish |-> FALSE, reverting |-> FALSE,
              overbought |-> FALSE, oversold |-> FALSE, weak |-> FALSE]
MCProfiles ==
  {NoDetails, [NoDetails EXCEPT !.available = TRUE, !.quality = TRUE, !.technical = TRUE, !.reverting = TRUE],
   [NoDetails EXCEPT !.available = TRUE, !.bearish = TRUE, !.weak = TRUE, !.reverting = TRUE]}

-----------------------------------------------------------------------------
VARIABLES
  kind,  \* "rules" or "strategy"
  order, row, prices, outcome, expired, sales, scanned, seenPeak, breaches

Builtin == INSTANCE Strategies WITH
  MaxScans <- MaxStrategyScans, recent <- prices, status <- outcome, scans <- scanned
\* What is sold is counted: quantities, the percentages of legs and what the top buyer wants;
\* prices are in whole rupees, and one that is not set is 0.
\* A time-based purchase wraps a buying strategy (strategy_query_catalog.py), which has no
\* memory of its own.
ASSUME StrategyConstants ==
  /\ \A o \in Settings : o.qty \in Nat /\ o.legs \in Seq([target : Nat, percent : Nat])
  /\ \A o \in Settings : o.price \in Nat /\ o.avg \in Nat /\ o.stop \in Nat /\ o.limit \in Nat /\ o.slip \in Nat
  /\ \A o \in Settings : o.strategy = "Time-Based Buy" => o.wrapped \in Builtin!Memoryless
  /\ \A q \in Quotes : q.bidQty \in Nat /\ q.ltp \in Nat /\ q.bid \in Nat
  /\ MaxStrategyScans \in Nat

strategyVars == <<order, row, prices, outcome, expired, sales, scanned, seenPeak, breaches>>

\* The other kind of order is any one that is never scanned.
ScanInit ==
  /\ Init /\ Builtin!Init
  /\ \/ kind = "rules" /\ order = CHOOSE o \in Settings : TRUE
     \/ kind = "strategy" /\ plan = CHOOSE p \in Plans : TRUE
ScanNext ==
  \/ kind = "rules" /\ Next /\ UNCHANGED <<kind, strategyVars>>
  \/ kind = "strategy" /\ Builtin!Next /\ UNCHANGED <<kind, vars>>
ScanSpec == ScanInit /\ [][ScanNext]_<<kind, vars, strategyVars>>

\* Strategies: over all its sales an order gives away no more than its quantity, and no target
\* of a profit ladder is sold twice.
SalesWithinQuantity == Builtin!SalesWithinQuantity
\* Strategies: capital protection sells only after two usable scans in a row at or below the
\* effective stop, below a peak that no scan forgets.
ConfirmedBreach == Builtin!ConfirmedBreach
\* Strategies: "Buy when order book buy pressure is strong" (strategy_query_catalog.py).
OrderBookBuyFires == Builtin!OrderBookBuyFires
=============================================================================
