----------------------------- MODULE MCTradebook -----------------------------
(* Trades of one share, a row that is no trade, weeks of two days. *)
EXTENDS Tradebook, TLC

T(id, date, side, qty, price) == [id |-> id, date |-> date, symbol |-> "A", side |-> side, qty |-> qty, price |-> price]
MCTrades == {T(0, 1, "buy", 0, 12), T(1, 2, "buy", 2, 10), T(2, 2, "buy", 3, 12), 
             T(3, 3, "sell", 4, 15)}
MCRanges == {<<2, 4>>}
Same == Permutations(Requests)
==============================================================================
