----------------------------- MODULE RuleSizing -----------------------------
(***************************************************************************)
(* Price and quantity of a rule's order (utils/strategy_builder: execution *)
(* sizing, depth, quantity; utils/lot_size).  Prices of quotes are whole   *)
(* rupees, limit prices thousandths, percentages tenths; 0 is "not given". *)
(***************************************************************************)
EXTENDS Integers

Lesser(a, b) == IF a <= b THEN a ELSE b
Greater(a, b) == IF a >= b THEN a ELSE b
IfGiven(a, b) == IF a # 0 THEN a ELSE b
DefaultQuantity == 10

HoldingModes == {"percent_of_holding", "all_available", "sell_up_to"}
DepthModes == {"top_buy_qty", "top_sell_qty", "partial_top_buy", "partial_top_sell"}

-----------------------------------------------------------------------------
(* Limit prices.                                                           *)

\* The best offer, at most the slippage above the last price and never below it.
BuyLimit(q, slip) ==
  LET top == IF q.ask = 0 THEN 1000 * q.ltp ELSE Lesser(1000 * q.ask, q.ltp * (1000 + slip))
  IN Greater(top, 1000 * q.ltp)
TopBuyer(q) == 1000 * (IF q.bid = 0 THEN q.ltp ELSE Lesser(q.bid, q.ltp))

RulePrice(q, side, from, slip) ==
  CASE from = "ltp" -> 1000 * q.ltp
    [] from = "top_buy" -> IF side = "sell" THEN TopBuyer(q) ELSE 1000 * IfGiven(q.bid, q.ltp)
    [] from = "top_sell" -> IF side = "buy" THEN BuyLimit(q, slip) ELSE 1000 * IfGiven(q.ask, q.ltp)

-----------------------------------------------------------------------------
(* Quantities.                                                             *)

\* A value of -1 asks for the quantity of the form.
OrderQuantity(mode, value, ltp, held, form) ==
  CASE mode = "quantity" ->
         IF value = -1 THEN IfGiven(form, DefaultQuantity) ELSE IfGiven(IfGiven(value, form), DefaultQuantity)
    [] mode = "amount" /\ ltp > 0 /\ value > 0 -> value \div ltp
    [] mode = "percent_of_holding" /\ held > 0 ->
         Greater(1, (held * (IF value > 0 THEN value ELSE 100)) \div 100)
    [] mode = "all_available" -> held
    [] mode = "sell_up_to" /\ held > 0 -> Greater(1, Lesser(held, IF value > 0 THEN value ELSE held))
    [] mode \in DepthModes -> 0
    [] OTHER -> form

\* Sized by the top of the book; 0 on the wrong side or with nothing there.
DepthQuantity(mode, value, q, side, held, form) ==
  LET asked == IfGiven(IfGiven(value, form), DefaultQuantity)
      cap == IF value # 0 THEN asked ELSE Greater(asked, form)
  IN CASE mode = "top_buy_qty" /\ side = "sell" -> Lesser(held, q.bidQty)
       [] mode = "top_sell_qty" /\ side = "buy" -> q.askQty
       [] mode = "partial_top_buy" /\ side = "sell" -> Lesser(Lesser(held, q.bidQty), cap)
       [] mode = "partial_top_sell" /\ side = "buy" -> Lesser(q.askQty, cap)
       [] OTHER -> 0

RoundedToLot(n, lot) == (n \div lot) * lot
OddLot(n, lot) == 0 < n /\ n < lot

MutantNormalizedSell(want, held, lot) ==
  IF want >= held THEN [qty |-> held, all |-> TRUE] ELSE [qty |-> RoundedToLot(want, lot), all |-> FALSE]
\* A partial sale is a multiple of the lot and leaves no odd lot behind.
NormalizedSell(want, held, lot) ==
  LET whole == RoundedToLot(want, lot)
      safe == IF OddLot(held - whole, lot) THEN whole - lot ELSE whole
  IN IF want >= held THEN [qty |-> held, all |-> TRUE] ELSE [qty |-> Greater(safe, 0), all |-> FALSE]

\* resolve_execution_quantity: a share of the holding the broker reports now; 0 when it
\* may not be sold.
LiveQuantity(mode, value, held, lot, odd, form) ==
  LET want == Lesser(OrderQuantity(mode, value, 0, held, form), held)
      sale == NormalizedSell(want, held, lot)
  IN IF held = 0 \/ (mode = "percent_of_holding" /\ value \notin 1..100) THEN 0
     ELSE IF odd THEN want ELSE Lesser(sale.qty, held)

\* _validate_execution_lot_rule, the last check before the order is sent.
LotRuleBlocks(side, n, held, lot, odd) ==
  LET sale == NormalizedSell(n, held, lot)
  IN /\ ~odd
     /\ IF side = "buy" THEN n <= 0 \/ n % lot # 0
        ELSE held <= 0 \/ n > held \/ (~sale.all /\ sale.qty # n)
=============================================================================
