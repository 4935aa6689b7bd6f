----------------------------- MODULE Strategies -----------------------------
(***************************************************************************)
(* The strategies of a scheduled order (utils/strategies), as the monitor  *)
(* scans one order: each scan reads a quote, remembers the price, decides, *)
(* passes the risk guard, writes what it tracks to the row and submits.    *)
(* Prices of quotes and settings are whole rupees; a price that a          *)
(* percentage is taken of is in thousandths, percentages are in tenths.    *)
(***************************************************************************)
EXTENDS Naturals, Sequences, FiniteSets, SequencesExt

CONSTANTS
  Settings,   \* orders: what the user entered
  Quotes,     \* quotes of the broker
  Profiles,   \* script details of Nepse Alpha, each indicator group as a flag
  MaxScans    \* bound: scans of an order

VARIABLES
  order,     \* the settings of the scanned order
  row,       \* the columns and config keys the strategies write
  recent,    \* the last three of scan_price_history
  status,    \* status of the row; "Active" stands for the statuses that are scanned
  expired,   \* expiry_time has passed
  sales,     \* what the broker accepted, in order
  scans,     \* scans so far
  seenPeak,  \* highest price scanned while the strategy was trailing (for properties only)
  breaches   \* usable scans in a row at or below the stop, up to 2 (for properties only)

vars == <<order, row, recent, status, expired, sales, scans, seenPeak, breaches>>

\* peak 0: highest_tracked_price is not set; last 0: no last_checked_ltp.
Row == [peak : Nat, below : Nat, reached : BOOLEAN, sold : SUBSET Nat, left : Nat, last : Nat]

Init ==
  /\ order \in Settings
  /\ row = [peak |-> 0, below |-> 0, reached |-> FALSE, sold |-> {}, left |-> order.qty, last |-> 0]
  /\ recent = <<>> /\ status = "Active" /\ expired = FALSE
  /\ sales = <<>> /\ scans = 0 /\ seenPeak = 0 /\ breaches = 0

-----------------------------------------------------------------------------
(* Reading the memory, the quote and the book.                             *)
(* (Operators named Mutant... are faulty variants of the definition that   *)
(* follows them.)                                                          *)

OrElse(a, b) == IF a # 0 THEN a ELSE b
Thousandths(p) == 1000 * p
Less(p, tenths) == p * (1000 - tenths)       \* p minus a percentage, in thousandths
More(p, tenths) == p * (1000 + tenths)
Truncated(p) == (p \div 100) * 100           \* one decimal place

\* update_scan_history runs before the memory is built: the last price is this scan's.
Remembered(q) ==
  LET all == Append(recent, q.ltp) IN IF Len(all) > 3 THEN Tail(all) ELSE all
Previous(mem) == mem[Len(mem)]
Rising(mem) == Len(mem) = 3 /\ mem[1] < mem[2] /\ mem[2] < mem[3]
Falling(mem) == Len(mem) = 3 /\ mem[1] > mem[2] /\ mem[2] > mem[3]
Recovering(mem) == Len(mem) = 3 /\ mem[3] > mem[2] /\ mem[2] >= mem[1]

\* Both volumes are this scan's, when the quote has one.
VolumeIncreasing(q) == q.volume
HasDepth(q) == q.bid # 0 \/ q.ask # 0
BuyersLead(q, percent) ==
  HasDepth(q) /\ q.bidQty + q.askQty > 0 /\ q.bidQty * 100 >= percent * (q.bidQty + q.askQty)
SellersLead(q, percent) ==
  HasDepth(q) /\ q.bidQty + q.askQty > 0 /\ q.bidQty * 100 <= percent * (q.bidQty + q.askQty)
UpperRange(q) ==  \* range_position >= 0.55
  (q.ltp - q.low) * 100 >= 55 * Max({q.high - q.low, 1})

Entry == OrElse(order.avg, order.price)

-----------------------------------------------------------------------------
(* Strategies without memory of their own: the prices (in thousandths) and *)
(* quantities (0: what remains) they offer now; none when they wait.       *)

Points(test, n) == IF test THEN n ELSE 0
Score(q, mem, d) ==
  LET gained == Points(d.quality, 45) + Points(d.technical, 40) + Points(q.ltp >= q.open, 10)
                + Points(q.ltp >= q.close, 10) + Points(UpperRange(q), 10)
                + Points(VolumeIncreasing(q), 10) + Points(Rising(mem), 10) + Points(BuyersLead(q, 60), 10)
      lost == Points(SellersLead(q, 40), 15) + Points(d.bearish, 55) + Points(q.chasing, 15)
              + Points(q.age # "fresh", 30) + Points(Falling(mem), 20)
  IN IF gained > lost THEN gained - lost ELSE 0

AtLtp(q, test) == IF test THEN {[price |-> Thousandths(q.ltp), qty |-> 0]} ELSE {}
AtPrice(test) == IF test THEN {[price |-> Thousandths(order.price), qty |-> 0]} ELSE {}

QualityPullbackRecoveryBuy(q, mem, d) ==
  AtLtp(q, /\ d.available /\ Score(q, mem, d) >= 65 /\ ~Falling(mem)
           /\ d.quality /\ d.technical
           /\ q.ltp >= q.open /\ q.ltp * 1000 >= q.close * 995 /\ UpperRange(q)
           /\ q.ltp > Previous(mem) /\ (order.needsVolume => VolumeIncreasing(q)))
ConfirmedBreakoutBuy(q, mem, d) ==
  AtLtp(q, /\ ~q.chasing /\ ~d.overbought
           /\ \/ q.ltp > q.high /\ q.ltp > q.open /\ q.ltp > q.close
              \/ order.price > 0 /\ q.ltp >= order.price
           /\ Rising(mem) /\ VolumeIncreasing(q))
SmartPullbackBuy(q, mem, d) ==
  LET below == IF q.ltp > q.high THEN 0 ELSE (q.high - q.ltp) * 1000
  IN IF order.price > 0 /\ q.ltp <= order.price THEN AtPrice(TRUE)
     ELSE AtLtp(q, /\ ~Falling(mem) /\ Recovering(mem)
                   /\ 15 * q.high <= below /\ below <= 40 * q.high
                   /\ q.ltp * 100 >= q.low * 101 /\ ~d.oversold)
MeanReversionBounceBuy(q, mem, d) ==
  AtLtp(q, /\ d.available /\ d.reverting /\ ~d.bearish
           /\ q.ltp > Previous(mem) /\ q.ltp * 1000 >= q.open * 995 /\ VolumeIncreasing(q)
           /\ Score(q, mem, d) >= 65)
OrderBookStrengthBuy(q, mem) ==
  AtLtp(q, BuyersLead(q, 60) /\ q.ltp >= q.open /\ q.ltp > Previous(mem))

\* resolve_sell_limit_price: the top buyer, kept near a reference and at most the last price.
SellLimit(q, slip, reference) ==
  LET best == IF q.bid # 0 THEN Thousandths(q.bid) ELSE Thousandths(q.ltp)
      capped == Min({best, More(q.ltp, slip)})
      raised == IF reference = 0 THEN capped ELSE Max({capped, Less(reference, slip)})
  IN Min({raised, Thousandths(q.ltp)})

TechnicalWeaknessSell(q, mem, d) ==
  IF /\ d.available /\ d.weak /\ q.ltp < q.open /\ q.ltp < q.close /\ Falling(mem)
    THEN {[price |-> SellLimit(q, 10, 0), qty |-> 0]} ELSE {}
EmergencyExit(q) ==
  LET part == IF q.bidQty # 0 THEN Min({row.left, q.bidQty}) ELSE row.left
  IN IF ~order.confirmed THEN {}
     ELSE IF q.bid = 0 THEN AtLtp(q, TRUE)
     ELSE {[price |-> Thousandths(q.bid),
            qty |-> IF order.split /\ part < row.left THEN part ELSE row.left]}

Memoryless == {"Fixed Price Buy", "Fixed Price Sell", "Quality Pullback Recovery Buy", "Confirmed Breakout Buy",
               "Smart Pullback Buy", "Mean Reversion Bounce Buy", "Order Book Strength Buy",
               "Technical Weakness Sell", "Emergency Exit by Top Buyer"}
Offers(strategy, q, mem, d) ==
  CASE strategy = "Fixed Price Buy" -> AtPrice(q.ltp <= order.price)
    [] strategy = "Fixed Price Sell" -> AtPrice(q.ltp >= order.price)
    [] strategy = "Quality Pullback Recovery Buy" -> QualityPullbackRecoveryBuy(q, mem, d)
    [] strategy = "Confirmed Breakout Buy" -> ConfirmedBreakoutBuy(q, mem, d)
    [] strategy = "Smart Pullback Buy" -> SmartPullbackBuy(q, mem, d)
    [] strategy = "Mean Reversion Bounce Buy" -> MeanReversionBounceBuy(q, mem, d)
    [] strategy = "Order Book Strength Buy" -> OrderBookStrengthBuy(q, mem)
    [] strategy = "Technical Weakness Sell" -> TechnicalWeaknessSell(q, mem, d)
    [] strategy = "Emergency Exit by Top Buyer" -> EmergencyExit(q)

-----------------------------------------------------------------------------
(* What becomes of a decision.                                             *)

\* _mark_tracking: the status stays scanned, the price becomes the last one checked.
Track(q, r) == row' = [r EXCEPT !.last = q.ltp] /\ UNCHANGED <<status, sales>>

Ends(s) == status' = s /\ UNCHANGED <<row, sales>>

\* can_place_order, with the empty account state the monitor leaves it.
RiskAllows(q, price, n) ==
  /\ n > 0 /\ price > 0
  /\ order.needsFresh => q.age = "fresh"
  /\ order.strategy = "Order Book Strength Buy" => HasDepth(q)
  /\ order.side = "sell" => n <= row.left

SlippageExceeded(price) ==
  LET reference == OrElse(order.stop, order.price)
  IN order.side = "sell" /\ reference > 0 /\ price > More(reference, order.slip)

\* The broker takes n shares; r is the row with what the strategy tracked.
Posted(price, n, r, leg) ==
  LET left == IF r.left > n THEN r.left - n ELSE 0
  IN /\ sales' = Append(sales, [leg |-> leg, qty |-> n, price |-> price])
     /\ row' = [r EXCEPT !.left = left, !.sold = IF order.legs # <<>> THEN @ \cup ({leg} \ {0}) ELSE @]
     /\ status' = IF SlippageExceeded(price) THEN "Blocked by slippage"
                  ELSE IF left = 0 THEN "Executed" ELSE "Active"

\* submit_scheduled_order_to_tms: posted, refused by the broker, kept back for a later
\* scan, or kept back with the claim still held.
Submit(price, qty, r, leg) ==
  LET n == OrElse(qty, r.left)
  IN \/ Posted(Truncated(price), n, r, leg)
     \/ status' \in {"Failed", "Executing", "Active"} /\ row' = r /\ UNCHANGED sales

\* The risk guard drops what the strategy tracked along with the order.
Execute(q, price, qty, r, leg) ==
  IF RiskAllows(q, price, OrElse(qty, r.left))
    THEN Submit(price, qty, r, leg)
    ELSE Track(q, row)

\* The first of a set of offers, or none.
Decide(q, offers) ==
  IF offers = {} THEN Track(q, row)
  ELSE LET x == CHOOSE x \in offers : TRUE IN Execute(q, x.price, x.qty, row, 0)

-----------------------------------------------------------------------------
(* Capital protection: a trailing stop confirmed by two scans.             *)

\* A wider day needs a wider stop; the range of the day, in tenths of a percent of close.
TrailingUsed(q) ==
  LET range == (q.high - q.low) * 1000
      floor == IF q.close = 0 THEN 0
               ELSE IF range < 15 * q.close THEN 25
               ELSE IF range < 30 * q.close THEN 30
               ELSE IF range <= 50 * q.close THEN 40 ELSE 50
  IN Max({order.trail, floor})
Peak(r, q) == Max({OrElse(r.peak, Entry), q.ltp})
EffectiveStop(r, q) ==
  Max({IF order.stop # 0 THEN Thousandths(order.stop) ELSE Less(Entry, order.stopPct),
       Less(Peak(r, q), TrailingUsed(q)),
       IF Peak(r, q) * 1000 >= Entry * 1015 THEN Thousandths(Entry) ELSE 0})
AtStop(q) == Thousandths(q.ltp) <= EffectiveStop(row, q)
NewPeak(q) == q.ltp > OrElse(row.peak, Entry)
BidDefendsStop(q) == q.bid # 0 /\ Thousandths(q.bid) >= EffectiveStop(row, q) /\ q.bidQty >= 1
BidHolds(q) == q.bid >= q.ltp /\ q.bidQty > 0 /\ ~(q.ask # 0 /\ q.ask <= q.bid)

MutantTracked(q, count) == [row EXCEPT !.peak = Peak(row, q), !.below = Max({@, count})]
Tracked(q, count) == [row EXCEPT !.peak = Peak(row, q), !.below = count]

\* The price in the decision is the last price: the reference of its limit.
Protect(q) ==
  IF Entry = 0 THEN Track(q, row)
  ELSE IF q.age = "stale" THEN Track(q, row)
  ELSE IF NewPeak(q) \/ ~AtStop(q) \/ BidDefendsStop(q) THEN Track(q, Tracked(q, 0))
  ELSE IF BidHolds(q) THEN Track(q, Tracked(q, row.below))
  ELSE IF row.below + 1 < 2 THEN Track(q, Tracked(q, row.below + 1))
  ELSE Execute(q, SellLimit(q, order.slip, q.ltp), 0, Tracked(q, 0), 0)

StopReached(q) == order.stop # 0 /\ q.ltp <= order.stop
StopLimitSell(q) ==
  IF StopReached(q) THEN Execute(q, Thousandths(OrElse(order.limit, order.price)), 0, row, 0) ELSE Protect(q)

FastStopLoss(q) ==
  LET counted == [row EXCEPT !.below = @ + 1]
      fast == \/ q.ltp * 100 <= order.stop * 99
              \/ row.last # 0 /\ q.ltp * 100 <= row.last * 99
              \/ counted.below >= 2
  IN IF ~StopReached(q) THEN Protect(q)
     ELSE IF fast THEN Execute(q, SellLimit(q, order.slip, order.stop), 0, counted, 0)
     ELSE Track(q, counted)

-----------------------------------------------------------------------------
(* Profit ladder, trailing runner, time-based strategies.                  *)

\* Legs the user gave; without them two targets from the settings.
Legs == IF order.legs # <<>> THEN order.legs
        ELSE <<[target |-> IF OrElse(order.book, order.profit) # 0 THEN Thousandths(OrElse(order.book, order.profit))
                           ELSE More(Entry, 40), percent |-> 30],
               [target |-> More(Entry, 80), percent |-> 30]>>
MutantReached(q) == {i \in DOMAIN Legs : Legs[i].percent > 0 /\ Thousandths(q.ltp) >= Legs[i].target}
Reached(q) ==
  {i \in DOMAIN Legs : i \notin row.sold /\ Legs[i].percent > 0 /\ Thousandths(q.ltp) >= Legs[i].target}
LegQty(i) == Min({Max({1, (order.qty * Legs[i].percent) \div 100}), row.left})

\* The targets of the settings are marked sold with the decision, legs with the sale.
SmartAliases == {"Smart Profit Booking", "Book Profit + Stop Loss"}
Ladder(q) ==
  LET i == Min(Reached(q))
      r == IF order.legs = <<>> THEN [row EXCEPT !.sold = @ \cup {i}] ELSE row
  IN IF Entry = 0 THEN Track(q, row)
     ELSE IF Reached(q) # {} THEN Execute(q, SellLimit(q, 10, 0), LegQty(i), r, i)
     ELSE IF order.alias \in SmartAliases THEN FALSE
     ELSE Track(q, [row EXCEPT !.peak = Max({@, q.ltp})])

SmartProfit(q) ==
  LET high == Max({OrElse(row.peak, q.ltp), q.ltp})
      drop == (high - q.ltp) * 1000
      target == IF order.alias = "Book Profit + Stop Loss" THEN order.book ELSE order.profit
      sell == Execute(q, SellLimit(q, 10, 0), 0, row, 0)
  IN /\ order.alias \in SmartAliases /\ Entry # 0 /\ Reached(q) = {}
     /\ IF order.alias = "Book Profit + Stop Loss" /\ StopReached(q) THEN sell
        ELSE IF ~row.reached
          THEN Track(q, IF target # 0 /\ q.ltp >= target THEN [row EXCEPT !.reached = TRUE, !.peak = q.ltp] ELSE row)
        ELSE IF drop >= order.trail * high /\ drop > 2 * high THEN sell
        ELSE Track(q, [row EXCEPT !.peak = high])

RunnerHigh(q) == Max({OrElse(row.peak, q.ltp), q.ltp})
Runner(q) ==
  IF q.ltp < order.activation THEN Track(q, row)
  ELSE IF Thousandths(q.ltp) <= Less(RunnerHigh(q), order.trail)
    THEN Execute(q, SellLimit(q, 10, 0), row.left, row, 0)
    ELSE Track(q, [row EXCEPT !.peak = RunnerHigh(q)])

\* The two time-based strategies return before the risk guard and the write of the row.
Unguarded(q, offers) ==
  IF offers = {} THEN Track(q, row)
  ELSE \E x \in offers : Submit(x.price, x.qty, row, 0)
TimeBasedBuy(q, mem, d) ==
  IF expired THEN Ends("Expired") ELSE Unguarded(q, Offers(order.wrapped, q, mem, d))
TimeBasedExit(q) ==
  IF ~expired THEN Track(q, row)
  ELSE IF order.atExpiry = "Sell using Top Buy" THEN Unguarded(q, EmergencyExit(q))
  ELSE Ends("Expired")

-----------------------------------------------------------------------------
(* One scan of the order by the monitor.                                   *)

Guarded(q, mem, d) ==
  \/ order.strategy \in Memoryless /\ Decide(q, Offers(order.strategy, q, mem, d))
  \/ /\ order.strategy = "Capital Protection Sell"
     /\ \/ order.alias = "Stop Limit Sell" /\ StopLimitSell(q)
        \/ order.alias = "Fast Stop Loss" /\ FastStopLoss(q)
        \/ order.alias \notin {"Stop Limit Sell", "Fast Stop Loss"} /\ Protect(q)
  \/ order.strategy = "Profit Ladder Sell" /\ (Ladder(q) \/ SmartProfit(q))
  \/ order.strategy = "Trailing Runner Sell" /\ Runner(q)
  \/ order.strategy = "Time-Based Buy" /\ TimeBasedBuy(q, mem, d)
  \/ order.strategy = "Time-Based Exit" /\ TimeBasedExit(q)

Trailing(q) == order.strategy = "Trailing Runner Sell" /\ q.ltp >= order.activation
Protecting(q) == order.strategy = "Capital Protection Sell" /\ order.alias = "" /\ q.age # "stale"

Scan(q, d) ==
  /\ status = "Active" /\ scans < MaxScans
  /\ recent' = Remembered(q)
  /\ Guarded(q, Remembered(q), d)
  /\ seenPeak' = IF Trailing(q) \/ Protecting(q) THEN Max({seenPeak, q.ltp}) ELSE seenPeak
  /\ breaches' = IF ~Protecting(q) THEN breaches ELSE IF AtStop(q) THEN Min({2, breaches + 1}) ELSE 0
  /\ scans' = scans + 1
  /\ UNCHANGED <<order, expired>>

TimePasses ==
  /\ status = "Active" /\ ~expired /\ order.strategy \in {"Time-Based Buy", "Time-Based Exit"}
  /\ expired' = TRUE
  /\ UNCHANGED <<order, row, recent, status, sales, scans, seenPeak, breaches>>

\* The monitor resolves details only for strategies that need them.
NeedsDetails == {"Quality Pullback Recovery Buy", "Mean Reversion Bounce Buy", "Technical Weakness Sell"}
Details == {d \in Profiles : {order.strategy, order.wrapped} \cap NeedsDetails # {} \/ ~d.available}

Next ==
  \/ \E q \in Quotes, d \in Details : Scan(q, d)
  \/ TimePasses

Spec == Init /\ [][Next]_vars

-----------------------------------------------------------------------------
(* Properties.                                                             *)

\* The row, the memory and what was sold have their types.
TypeOK ==
  /\ order \in Settings /\ row \in Row
  /\ recent \in Seq(Nat) /\ Len(recent) <= 3
  /\ status \in {"Active", "Executed", "Blocked by slippage", "Failed", "Executing", "Expired"}
  /\ expired \in BOOLEAN /\ scans \in 0..MaxScans /\ breaches \in 0..2
  /\ sales \in Seq([leg : Nat, qty : Nat, price : Nat])

\* The shares of a sequence of sales.
Shares(s) == LET sum[n \in 0..Len(s)] == IF n = 0 THEN 0 ELSE sum[n - 1] + s[n].qty IN sum[Len(s)]

\* Over all its sales an order gives away no more than its quantity, and no target of a
\* profit ladder is sold twice: sold flags, executed legs and the remaining quantity are
\* written at different places of a scan.
SalesWithinQuantity ==
  /\ Shares(sales) <= order.qty
  /\ \A i, j \in DOMAIN sales : sales[i].leg # 0 /\ sales[i].leg = sales[j].leg => i = j

Sells(strategy) == order.strategy = strategy /\ sales' # sales

\* Capital protection sells only after two usable scans in a row at or below the effective
\* stop, whatever peaks, bid support, refusals and stale quotes came before.
ConfirmedBreach == [][Sells("Capital Protection Sell") /\ order.alias = "" => breaches' = 2]_vars

\* strategy_query_catalog.py says of the order book strategy: buy when the buy pressure is
\* strong.  With the price at or above the open and above the one of the last scan it offers.
OrderBookBuyFires ==
  \A q \in Quotes, d \in Details :
    /\ status = "Active" /\ order.strategy = "Order Book Strength Buy" /\ recent # <<>>
    /\ BuyersLead(q, 60) /\ q.ltp >= q.open /\ q.ltp > Previous(recent)
    => Offers(order.strategy, q, Remembered(q), d) # {}
=============================================================================
