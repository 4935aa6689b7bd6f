------------------------------ MODULE TradeLots ------------------------------
(***************************************************************************)
(* What the portfolio makes of a set of trades (main.py                    *)
(* _build_trade_cost_basis, _build_trade_positions): purchases are lots,   *)
(* a sale empties the oldest lots first, what it finds no lot for is       *)
(* dropped.  A trade is [id, date, symbol, side, qty, price]; a lot is     *)
(* known by its purchase, which has its price and date; an average price   *)
(* is kept as a cost and a quantity.                                       *)
(***************************************************************************)
EXTENDS Integers, FiniteSets, Functions

\* The rows of TMS that are stored, and those of them that have a price.
Usable(t) == t.date # 0 /\ t.symbol # "" /\ t.side \in {"buy", "sell"} /\ t.qty > 0
Priced(t) == Usable(t) /\ t.price > 0

Before(t, u) == t.date < u.date \/ (t.date = u.date /\ t.id < u.id)
Latest(trades) == CHOOSE t \in trades : \A u \in trades : u = t \/ Before(u, t)
SymbolsOf(trades) == {t.symbol : t \in {u \in trades : Priced(u)}}
PricedOf(trades, s) == {t \in trades : Priced(t) /\ t.symbol = s}

\* What is left of each purchase that has something left.
NoLots == [t \in {} |-> 0]
Total(lots) == SumFunction(lots)
Clamp(n, top) == IF n < 0 THEN 0 ELSE IF n > top THEN top ELSE n

\* What a sale takes of each lot; older lots are emptied first.
Older(lots, t) == {u \in DOMAIN lots : Before(u, t)}
MutantTaken(lots, qty) ==
  [t \in DOMAIN lots |-> Clamp(qty - SumFunctionOnSet(lots, {u \in DOMAIN lots : Before(t, u)}), lots[t])]
Taken(lots, qty) ==
  [t \in DOMAIN lots |-> Clamp(qty - SumFunctionOnSet(lots, Older(lots, t)), lots[t])]
Reduced(lots, taken) == [t \in {u \in DOMAIN lots : taken[u] < lots[u]} |-> lots[t] - taken[t]]

AfterTrade(t, lots) ==
  IF t.side = "buy" THEN [u \in DOMAIN lots \cup {t} |-> IF u = t THEN t.qty ELSE lots[u]]
  ELSE Reduced(lots, Taken(lots, t.qty))
\* The trades of one symbol, from the first to the latest.
OpenLots(trades) == MapThenFoldSet(AfterTrade, NoLots, LAMBDA t : t, Latest, trades)

\* The cost basis of the symbols that are still held.
CostBasis(trades) ==
  LET held == {s \in SymbolsOf(trades) : OpenLots(PricedOf(trades, s)) # NoLots} IN
  [s \in held |->
     LET lots == OpenLots(PricedOf(trades, s)) IN
     [quantity |-> Total(lots),
      cost |-> SumFunction([t \in DOMAIN lots |-> t.price * lots[t]]),
      first |-> CHOOSE d \in {t.date : t \in DOMAIN lots} : \A t \in DOMAIN lots : d <= t.date]]

\* The closed positions of a symbol: what each sale took of each lot it found, at the price of
\* the purchase and that of the sale.
Closed(trades) ==
  [t \in {u \in trades : u.side = "sell"} |-> Taken(OpenLots({u \in trades : Before(u, t)}), t.qty)]
=============================================================================
