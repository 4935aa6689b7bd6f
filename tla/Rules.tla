------------------------------- MODULE Rules --------------------------------
(***************************************************************************)
(* A rule-based order (utils/strategy_builder), as the monitor scans it:   *)
(* each scan reads a quote, evaluates the rules of the plan with the       *)
(* history each rule keeps in the row, and submits the first that fires.   *)
(* The history lives in strategy_config and is what a later scan knows.    *)
(***************************************************************************)
EXTENDS RuleSizing, Sequences, FiniteSets, SequencesExt

CONSTANTS
  Plans,      \* orders: the rules and settings the user saved
  Prices,     \* last prices of quotes; 0 when the market is closed
  Books,      \* tops of the order book
  Holdings,   \* shares the broker may report when an order is sent
  Window,     \* observations kept of a field (500 in the code)
  MaxScans    \* bound: scans of the order

\* A plan without a rule evaluates nothing and is left out; a lot is at least one share
\* (get_board_lot_size).
ASSUME RuleConstants ==
  /\ Plans # {} /\ Window \in Nat \ {0} /\ MaxScans \in Nat
  /\ Prices \subseteq Nat /\ Holdings \subseteq Nat /\ Books \subseteq [bid : Nat, bidQty : Nat, ask : Nat, askQty : Nat]
  /\ \A p \in Plans :
       /\ p.side \in {"buy", "sell"} /\ p.qty \in Nat /\ p.lot \in Nat \ {0} /\ p.slip \in Nat
       /\ Len(p.rules) \in Nat \ {0} /\ DOMAIN p.rules = 1..Len(p.rules)
       /\ Len(p.exits) \in Nat /\ DOMAIN p.exits = 1..Len(p.exits)
       /\ \A i \in DOMAIN p.exits : p.exits[i].value \in Int
       /\ \A i \in DOMAIN p.rules :
            LET r == p.rules[i] IN
            /\ r.value \in Int /\ r.scans \in Nat /\ r.maxTimes \in Nat
            /\ r.confirm \in {"immediate", "true_for_scans", "matches_in_last"} /\ r.from \in {"ltp", "top_buy", "top_sell"}

VARIABLES
  plan,     \* the order's compiled plan and settings
  hist,     \* target_state: what each rule remembers
  recent,   \* scan_price_history, the last three
  market,   \* last price and the number of its trade
  time,     \* against expiry_time and the secondary expiry
  expiry,   \* config flags of the expiration: {} or some of "pending", "executed", "secondary"
  status,   \* status of the row; "Active" stands for the statuses that are scanned and claimed
  left,     \* remaining_quantity
  orders,   \* what the broker accepted, in order
  scans,    \* scans so far
  seen      \* per rule, the trades its condition held at since it last failed, the scans it held at
            \* without a trade to tell, and whether it failed since the rule's last order (for
            \* properties only)

vars == <<plan, hist, recent, market, time, expiry, status, left, orders, scans, seen>>

NoHistory ==
  [ltp |-> <<>>, depth |-> <<>>, was |-> FALSE, streak |-> 0, confirmedAt |-> 0, held |-> 0,
   matches |-> <<>>, confirms |-> <<>>, entry |-> 0, high |-> 0, trail |-> 0, executed |-> FALSE,
   count |-> 0, cooling |-> FALSE]

Init ==
  /\ plan \in Plans
  /\ hist = [i \in DOMAIN plan.rules |-> NoHistory]
  /\ recent = <<>> /\ market = [ltp |-> 0, at |-> 0] /\ time = "before" /\ expiry = {}
  /\ status = "Active" /\ left = plan.qty /\ orders = <<>> /\ scans = 0
  /\ seen = [i \in DOMAIN plan.rules |-> [trades |-> {}, untimed |-> 0, failed |-> TRUE]]

-----------------------------------------------------------------------------
(* The history of a rule.  (Operators named Mutant... are faulty variants  *)
(* of the definition that follows them.)                                   *)

LastN(s, n) == IF Len(s) <= n THEN s ELSE SubSeq(s, Len(s) - n + 1, Len(s))

\* A price counts once per trade; quotes without the time of a trade (at is 0) are one of it.
Observe(h, price, at) ==
  IF h.ltp # <<>> /\ Last(h.ltp).at = at THEN h
  ELSE [h EXCEPT !.ltp = LastN(Append(@, [v |-> price, at |-> at]), Window)]

\* An empty history starts from the scanned prices, under the timestamp of this quote: only
\* the oldest of them is kept.
Seeded(h, q, mem) == IF h.ltp = <<>> THEN Observe(h, Head(mem), q.at) ELSE h

\* compute_protective_fields: the highest price since entry and the stop trailing it.
Protected(h, q) ==
  LET high == Greater(IfGiven(h.high, h.entry), q.ltp)
  IN IF h.entry = 0 THEN h
     ELSE [h EXCEPT !.high = high,
                    !.trail = IF plan.trail = 0 THEN @ ELSE Greater(@, high * (1000 - plan.trail))]
EffectiveStop(h) == Greater(1000 * plan.fixedStop, h.trail)

MutantMarked(h, q) == h
\* The marks of an execution are written for a purchase only; those of a sale are lost.
Marked(h, q) ==
  IF plan.side = "buy" /\ q.ltp # 0
    THEN [h EXCEPT !.executed = TRUE, !.count = @ + 1, !.cooling = TRUE, !.entry = q.ltp, !.high = q.ltp,
                   !.trail = IF plan.trail = 0 THEN @ ELSE q.ltp * (1000 - plan.trail)]
    ELSE h

-----------------------------------------------------------------------------
(* Conditions.                                                             *)

\* The last n observations (all while there are fewer).
Latest(s, n) == ToSet(LastN(s, n))

\* DEPTH_IMBALANCE in thousandths; an empty book has none.
Imbalance(q) ==
  IF q.bidQty + q.askQty = 0 THEN {} ELSE {(1000 * (q.bidQty - q.askQty)) \div (q.bidQty + q.askQty)}
\* An observation of the order book counts when its value changed.
Noted(h, v) == IF h.depth # <<>> /\ Last(h.depth) = v THEN h ELSE [h EXCEPT !.depth = LastN(Append(@, v), Window)]

\* TRUE_FOR_SCANS, MATCHES_IN_LAST and the depth functions remember each evaluation.
Advance(h, c, q) ==
  CASE c.fn = "true_for_scans" -> [h EXCEPT !.held = IF q.ltp <= c.x THEN Lesser(@ + 1, c.n) ELSE 0]
    [] c.fn = "matches_in_last" -> [h EXCEPT !.matches = LastN(Append(@, q.ltp <= c.x), c.n)]
    [] c.fn \in {"imbalance_remains_above", "imbalance_remains_below"} -> Noted(h, Imbalance(q))
    [] OTHER -> h

Apart(a, b) == IF a < b THEN b - a ELSE a - b
Changed(from, to, percent) == 100 * Apart(from, to) >= percent * from

\* previous_value: the price n trades ago.
HasBack(h, n) == Len(h.ltp) > n
Back(h, n) == h.ltp[Len(h.ltp) - n].v

\* CONSECUTIVE_DROPS and CONSECUTIVE_RISES: n moves, each of c.x percent, c.k percent in all.
Moves(h, c, sign) ==
  LET w == LastN(h.ltp, c.n + 1)
  IN /\ Len(w) = c.n + 1
     /\ \A i \in 1..c.n : /\ sign * (w[i + 1].v - w[i].v) > 0
                          /\ c.x > 0 /\ w[i].v # 0 => Changed(w[i].v, w[i + 1].v, c.x)
     /\ c.k > 0 => w[1].v # 0 /\ Changed(w[1].v, Last(w).v, c.k)

\* TREND over the last n trades; without two of them, or from a price of zero, there is none.
Trend(h, c) ==
  LET w == LastN(h.ltp, c.n)
  IN IF Len(w) < 2 \/ w[1].v = 0 THEN "none"
     ELSE IF ~Changed(w[1].v, Last(w).v, c.x) THEN "flat"
     ELSE IF Last(w).v > w[1].v THEN "up" ELSE "down"

\* SLOPE over the last n trades is above c.x per trade (least squares, cleared of fractions).
Steeper(h, c) ==
  LET w == LastN(h.ltp, c.n)
      weight(i) == 2 * i - Len(w) - 1
      total(f(_)) == FoldSet(LAMBDA i, sum : f(i) + sum, 0, DOMAIN w)
  IN Len(w) >= 2 /\ 2 * total(LAMBDA i : weight(i) * w[i].v) > c.x * total(LAMBDA i : weight(i) * weight(i))

\* The rolling functions are compared with c.x, MAX_VALUE and the sums from above.
Rolling(h, c) ==
  LET w == LastN(h.ltp, c.n)
      sum == FoldSeq(LAMBDA o, acc : o.v + acc, 0, w)
  IN w # <<>> /\ CASE c.fn = "average_lte" -> sum <= c.x * Len(w)
                   [] c.fn = "sum_lte" -> sum <= c.x
                   [] c.fn = "min_lte" -> \E i \in DOMAIN w : w[i].v <= c.x
                   [] c.fn = "max_lte" -> \A i \in DOMAIN w : w[i].v <= c.x

\* A function without a value compares as false.  The position's stop is not among the fields
\* of the snapshot: neither does a comparison with it hold.
Compared(h, c, q) ==
  CASE c.fn \in {"ltp_lte", "reference_lte"} -> q.ltp <= c.x
    [] c.fn = "bid_available" -> q.bid # 0
    [] c.fn = "crosses_below" -> HasBack(h, 1) /\ Back(h, 1) >= c.x /\ q.ltp < c.x
    [] c.fn = "crosses_above" -> HasBack(h, 1) /\ Back(h, 1) <= c.x /\ q.ltp > c.x
    [] c.fn = "remains_below" -> Len(h.ltp) >= c.n /\ \A o \in Latest(h.ltp, c.n) : o.v < c.x
    [] c.fn = "remains_above" -> Len(h.ltp) >= c.n /\ \A o \in Latest(h.ltp, c.n) : o.v > c.x
    [] c.fn = "consecutive_drops" -> Moves(h, c, -1)
    [] c.fn = "consecutive_rises" -> Moves(h, c, 1)
    [] c.fn = "previous_gte" -> HasBack(h, c.n) /\ Back(h, c.n) >= c.x
    [] c.fn = "change_lte" -> HasBack(h, c.n) /\ q.ltp - Back(h, c.n) <= c.x
    [] c.fn = "change_percent_lte" ->
         HasBack(h, c.n) /\ Back(h, c.n) # 0 /\ 100 * (Back(h, 0) - Back(h, c.n)) <= c.x * Back(h, c.n)
    [] c.fn = "slope_gt" -> Steeper(h, c)
    [] c.fn = "trend_down" -> Trend(h, c) = "down"
    [] c.fn \in {"average_lte", "sum_lte", "min_lte", "max_lte"} -> Rolling(h, c)
    [] c.fn = "true_for_scans" -> h.held >= c.n
    [] c.fn = "matches_in_last" -> Len(h.matches) >= c.n /\ Cardinality({i \in 1..c.n : h.matches[i]}) >= c.k
    [] c.fn = "bids_gt" -> q.bidQty > c.x
    [] c.fn = "imbalance_gt" -> \E v \in Imbalance(q) : v > c.x
    [] c.fn = "imbalance_remains_above" -> Len(h.depth) >= c.n /\ \A d \in Latest(h.depth, c.n) : \E v \in d : v > c.x
    [] c.fn = "imbalance_remains_below" -> Len(h.depth) >= c.n /\ \A d \in Latest(h.depth, c.n) : \E v \in d : v < c.x
    [] c.fn = "profit_gte" -> h.entry # 0 /\ q.ltp * 100 >= h.entry * (100 + c.x)
    [] c.fn = "stop_reached" -> FALSE
Holds(h, c, q) == IF c.not THEN ~Compared(h, c, q) ELSE Compared(h, c, q)

Advanced(h, conditions, q) == FoldLeft(LAMBDA g, c : Advance(g, c, q), h, conditions)
\* They touch nothing else of the history.
AdvanceAll(h, conditions, q) ==
  LET g == Advanced(h, conditions, q) IN [h EXCEPT !.held = g.held, !.matches = g.matches, !.depth = g.depth]
Matched(h, r, q) ==
  LET true == {i \in DOMAIN r.signal : Holds(h, r.signal[i], q)}
  IN IF r.logic = "AND" THEN true = DOMAIN r.signal ELSE true # {}
\* A captured reference value is missing: the evaluation raises.
Raises(r) == \E i \in DOMAIN r.signal : r.signal[i].fn = "reference_lte" /\ (~plan.referenced \/ r.signal[i].not)

-----------------------------------------------------------------------------
(* evaluate_rule: confirmation and trigger.                                *)

\* A trade confirms once, however often it is scanned; a quote without the time of its trade
\* confirms at every scan.
Confirmed(r, h, when, q) ==
  CASE r.confirm = "immediate" -> [h |-> h, yes |-> when]
    [] r.confirm = "true_for_scans" ->
         LET n == IF ~when THEN 0 ELSE IF q.at # 0 /\ h.confirmedAt = q.at THEN h.streak ELSE h.streak + 1
         IN [h |-> [h EXCEPT !.streak = Lesser(n, r.scans),
                             !.confirmedAt = IF when /\ q.at # 0 THEN q.at ELSE @],
             yes |-> n >= r.scans]
    [] r.confirm = "matches_in_last" ->
         LET w == LastN(Append(h.confirms, when), r.window)
         IN [h |-> [h EXCEPT !.confirms = w],
             yes |-> Len(w) >= r.window /\ Cardinality({i \in DOMAIN w : w[i]}) >= r.scans]

Unevaluated == [evaluated |-> FALSE, when |-> FALSE, confirmed |-> FALSE, fires |-> FALSE]
NotNow(h) == [h |-> h, e |-> Unevaluated]

MutantWas(h, yes) == h
Was(h, yes) == [h EXCEPT !.was = yes]
Triggered(r, was, when, c) ==
  [h |-> Was(c.h, c.yes), e |-> [evaluated |-> TRUE, when |-> when, confirmed |-> c.yes,
                                 fires |-> c.yes /\ ~(r.trigger = "on_cross" /\ was)]]

\* evaluate_score_block: the weights of the conditions that hold.
Score(r, h, q) ==
  FoldSet(LAMBDA i, sum : r.scores[i].weight + sum, 0, {i \in DOMAIN r.scores : Holds(h, r.scores[i].when, q)})
\* A rule that scores needs a score above zero too, even if none is required.
Scores(r, h, q) == r.scores = <<>> \/ (Score(r, h, q) > 0 /\ Score(r, h, q) >= r.score)

\* The signal is evaluated once more, for the list of its conditions, before it counts.
Signalled(r, h, q, when) == Triggered(r, h.was, when, Confirmed(r, AdvanceAll(h, r.signal, q), when, q))
WhenScored(r, g, q) ==
  IF r.scores # <<>> /\ Score(r, g, q) < r.score THEN NotNow(g)
  ELSE Signalled(r, AdvanceAll(g, r.signal, q), q,
                 (r.signal = <<>> \/ Matched(AdvanceAll(g, r.signal, q), r, q)) /\ Scores(r, g, q))
WhenRequired(r, h, q) ==
  IF \E i \in DOMAIN r.require : ~Holds(h, r.require[i], q) THEN NotNow(h)
  ELSE WhenScored(r, AdvanceAll(h, [i \in DOMAIN r.scores |-> r.scores[i].when], q), q)
WhenEligible(r, h, q) ==
  IF \E i \in DOMAIN r.eligible : ~Holds(h, r.eligible[i], q) THEN NotNow(h)
  ELSE WhenRequired(r, AdvanceAll(h, r.require, q), q)
Evaluated(r, h, q) ==
  IF h.executed /\ r.frequency = "once" THEN NotNow(h) ELSE WhenEligible(r, AdvanceAll(h, r.eligible, q), q)

-----------------------------------------------------------------------------
(* evaluate_rule_based_strategy for one rule: what it wants and remembers. *)

Waits(h) == [act |-> "TRACK", h |-> h, price |-> 0, qty |-> 0, mode |-> "", value |-> 0]
Wants(h, price, qty, mode, value) ==
  [act |-> "EXECUTE", h |-> h, price |-> price, qty |-> qty,
   mode |-> IF mode \in HoldingModes THEN mode ELSE "", value |-> value]

Limited(r, h) ==
  \/ r.frequency = "once" /\ h.executed
  \/ r.maxTimes # 0 /\ h.count >= r.maxTimes
  \/ r.cooldown /\ h.cooling

HasDepth(q) == q.bid # 0 \/ q.ask # 0
NeedsDepth(r) == r.from # "ltp" \/ r.mode \in DepthModes
PortfolioAllows(qty, q) ==
  ~plan.paused /\ (plan.maxAmount = 0 \/ qty * q.ltp <= plan.maxAmount)

Sized(r, q) ==
  IF r.mode \in DepthModes THEN DepthQuantity(r.mode, r.value, q, plan.side, left, left)
  ELSE IfGiven(OrderQuantity(r.mode, r.value, q.ltp, left, left), left)

Fire(r, h, q, n) ==
  IF \/ plan.mode = "paper" \/ n <= 0
     \/ NeedsDepth(r) /\ ~HasDepth(q)
     \/ plan.side = "buy" /\ ~PortfolioAllows(n, q)
    THEN Waits(h)
    ELSE Wants(Marked(h, q), IfGiven(RulePrice(q, plan.side, r.from, plan.slip), 1000 * q.ltp), n, r.mode, r.value)

\* USE_STRATEGY: a built-in strategy (see Strategies) decides, before the execution mode is looked at.
Delegated(r, h, q, offers) ==
  IF offers THEN Wants(Marked(h, q), 1000 * q.ltp, left, r.mode, r.value) ELSE Waits(h)

\* The first exit of the plan whose condition holds and which has something to sell.
Exits(h, q) ==
  {i \in DOMAIN plan.exits :
     /\ Holds(h, plan.exits[i].when, q)
     /\ plan.exits[i].mode \in HoldingModes
        \/ OrderQuantity(plan.exits[i].mode, plan.exits[i].value, q.ltp, left, left) > 0}
Exit(h, q, x) ==
  [Wants(h, 1000 * q.ltp, OrderQuantity(x.mode, x.value, q.ltp, left, left), x.mode, x.value) EXCEPT !.act = "EXIT"]

Started(i, q, mem) == Protected(Seeded(hist[i], q, mem), q)

Act(r, x, q, offers) ==
  IF ~x.e.fires \/ Limited(r, x.h) THEN Waits(x.h)
  ELSE IF r.delegates THEN Delegated(r, x.h, q, offers)
  ELSE Fire(r, x.h, q, Sized(r, q))
Decision(d, e) == [d |-> d, e |-> e]
DecideRule(r, x, q, offers) == Decision(Act(r, x, q, offers), x.e)
DecideFresh(r, h, q, offers) ==
  IF plan.side = "sell" /\ Exits(h, q) # {} THEN Decision(Exit(h, q, plan.exits[Min(Exits(h, q))]), Unevaluated)
  ELSE IF Raises(r) THEN Decision([Waits(h) EXCEPT !.act = "NO_TRADE"], Unevaluated)
  ELSE DecideRule(r, Evaluated(r, h, q), q, offers)
Decide(r, h, q, offers) ==
  IF r.maxAge /\ ~q.fresh THEN Decision(Waits(h), Unevaluated)
  ELSE DecideFresh(r, Observe(h, q.ltp, q.at), q, offers)

\* What the evaluation of rule i saw, for the properties.
Saw(i, e, at, ordered) ==
  IF ~e.evaluated THEN seen[i]
  ELSE [trades |-> IF e.when THEN seen[i].trades \cup ({at} \ {0}) ELSE {},
        untimed |-> IF ~e.when THEN 0 ELSE IF at = 0 THEN seen[i].untimed + 1 ELSE seen[i].untimed,
        failed |-> IF ~e.confirmed THEN TRUE ELSE seen[i].failed /\ ~ordered]

-----------------------------------------------------------------------------
(* Submission of a decision (utils/monitor_order).                         *)

Tenth(p) == (p \div 100) * 100
RiskAllows(d) ==
  d.mode # "" \/ (d.price > 0 /\ IfGiven(d.qty, left) > 0 /\ (plan.side = "sell" => IfGiven(d.qty, left) <= left))

Kept(s) == status' = s /\ UNCHANGED <<left, orders>>

\* The claim stays when the gate is closed, when a purchase is priced above the day's high, and
\* when it could not be had; a holding that cannot be read releases it.
Send(d, rule, held, n) ==
  /\ d.price > 0 /\ n > 0
  /\ \/ LotRuleBlocks(plan.side, n, held, plan.lot, plan.odd) /\ Kept("BlockedByLotRule")
     \/ ~LotRuleBlocks(plan.side, n, held, plan.lot, plan.odd) /\ Kept("Failed")
     \/ /\ ~LotRuleBlocks(plan.side, n, held, plan.lot, plan.odd)
        /\ orders' = Append(orders, [rule |-> rule, qty |-> n, price |-> Tenth(d.price), held |-> held, time |-> time])
        /\ left' = Greater(0, left - n)
        /\ status' = IF left <= n THEN "Executed" ELSE "Active"

Submit(d, rule, held) ==
  \/ Kept("Executing")
  \/ status = "Active" /\ d.mode # "" /\ Kept("Active")
  \/ status = "Active" /\ d.mode # "" /\ Send(d, rule, held, LiveQuantity(d.mode, d.value, held, plan.lot, plan.odd, plan.qty))
  \/ status = "Active" /\ d.mode = "" /\ Send(d, rule, held, IfGiven(d.qty, left))

\* _mark_tracking gives a claimed row back.
Tracked == status' = "Active" /\ UNCHANGED <<left, orders>>

-----------------------------------------------------------------------------
(* Expiration.                                                             *)

Ends == Kept("Expired") /\ UNCHANGED <<hist, expiry, seen>>
Await(flag) == Tracked /\ expiry' = expiry \cup flag /\ UNCHANGED <<hist, seen>>

BuysAtExpiry(q) ==
  /\ plan.atExpiry # "CANCEL" /\ q.ltp # 0
  /\ plan.atExpiry = "BUY_AT_TOP_SELL" => HasDepth(q) \/ plan.fallback

\* The flag is in the row before the order is sent: kept back, it is never sent again.
ExpiryOrder(q, held) ==
  LET d == Wants(NoHistory, BuyLimit(q, plan.slip), left, "quantity", 0)
  IN Submit(d, 0, held) /\ expiry' = expiry \cup {"executed"} /\ UNCHANGED <<hist, seen>>

Expire(q, held) ==
  \/ /\ "executed" \in expiry
     /\ Await({})
  \/ /\ "executed" \notin expiry
     /\ IF time = "late" /\ expiry # {} THEN Ends
        ELSE IF q.ltp = 0 /\ "pending" \in expiry THEN Await({})
        ELSE IF q.ltp = 0 /\ plan.closed # "cancel" /\ plan.atExpiry # "CANCEL"
          THEN Await({IF plan.closed = "next quote" THEN "pending" ELSE "secondary"})
        ELSE IF BuysAtExpiry(q) THEN ExpiryOrder(q, held)
        ELSE Ends

-----------------------------------------------------------------------------
(* One scan.                                                               *)

\* Every rule up to the first that fires is evaluated; what the others remember stays.  An
\* order that the risk guard refuses takes the histories of all rules with it.
Obey(q, w, last, held) ==
  LET d == w[last].d
      remembered == [i \in DOMAIN w |-> IF i <= last THEN w[i].d.h ELSE hist[i]]
      saw == [i \in DOMAIN w |-> IF i <= last THEN Saw(i, w[i].e, q.at, i = last /\ orders' # orders) ELSE seen[i]]
  IN \/ d.act \in {"TRACK", "NO_TRADE"} /\ Tracked /\ hist' = remembered /\ seen' = saw
     \/ /\ d.act \in {"EXECUTE", "EXIT"} /\ RiskAllows(d)
        /\ Submit(d, IF d.act = "EXIT" THEN 0 ELSE last, held) /\ hist' = remembered /\ seen' = saw
     \/ d.act \in {"EXECUTE", "EXIT"} /\ ~RiskAllows(d) /\ Tracked /\ UNCHANGED <<hist, seen>>

Firing(w) == {i \in DOMAIN w : w[i].d.act \in {"EXECUTE", "EXIT"}}
Evaluate(q, mem, offers, held) ==
  /\ UNCHANGED expiry
  /\ \E w \in {[i \in DOMAIN hist |-> Decide(plan.rules[i], Started(i, q, mem), q, offers)]} :
       Obey(q, w, Min(Firing(w) \cup {Len(w)}), held)

\* A quote without the time of its trade is no fresh one (is_quote_within_max_age).
Quoted(price, at, fresh, book) ==
  [ltp |-> price, at |-> at, fresh |-> fresh /\ at # 0,
   bid |-> book.bid, bidQty |-> book.bidQty, ask |-> book.ask, askQty |-> book.askQty]

\* The price changes with a trade only; the quote tells when that was, or does not.
Scan(price, traded, timed, fresh, book, offers, held) ==
  LET trade == IF traded THEN market.at + 1 ELSE market.at
      q == Quoted(price, IF timed THEN trade ELSE 0, fresh, book)
      mem == LastN(Append(recent, price), 3)
  IN /\ status \in {"Active", "Executing"} /\ scans < MaxScans
     /\ IF traded THEN price # 0 ELSE price \in {market.ltp, 0}
     /\ market' = IF price = 0 THEN market ELSE [ltp |-> price, at |-> trade]
     /\ recent' = mem /\ scans' = scans + 1
     /\ IF time = "before" THEN Evaluate(q, mem, offers, held) ELSE Expire(q, held)
     /\ UNCHANGED <<plan, time>>

TimePasses ==
  /\ status \in {"Active", "Executing"} /\ plan.expires /\ time # "late"
  /\ time' = IF time = "before" THEN "expired" ELSE "late"
  /\ UNCHANGED <<plan, hist, recent, market, expiry, status, left, orders, scans, seen>>

CoolDown ==
  /\ \E i \in DOMAIN hist : hist[i].cooling /\ plan.rules[i].cooldown
  /\ hist' = [i \in DOMAIN hist |-> [hist[i] EXCEPT !.cooling = FALSE]]
  /\ UNCHANGED <<plan, recent, market, time, expiry, status, left, orders, scans, seen>>

\* The built-in strategy of a rule that delegates offers an order or not (see Strategies).
Offers(r) == r.delegates
\* Inputs an order does not look at are fixed.
Matters(test) == IF test THEN BOOLEAN ELSE {TRUE}
RulesIn(p) == {p.rules[i] : i \in DOMAIN p.rules}
Next ==
  \/ \E price \in Prices, traded \in BOOLEAN, timed \in BOOLEAN, book \in Books,
        fresh \in Matters(\E r \in RulesIn(plan) : r.maxAge), offers \in Matters(\E r \in RulesIn(plan) : Offers(r)),
        held \in IF plan.side = "sell" THEN Holdings ELSE {0} :
       Scan(price, traded, timed, fresh, book, offers, held)
  \/ TimePasses
  \/ CoolDown

Spec == Init /\ [][Next]_vars

-----------------------------------------------------------------------------
(* Properties.                                                             *)

History ==
  [ltp : Seq([v : Nat, at : Nat]), depth : Seq(SUBSET Int), was : BOOLEAN, streak : Nat, confirmedAt : Nat, held : Nat,
   matches : Seq(BOOLEAN), confirms : Seq(BOOLEAN), entry : Nat, high : Nat, trail : Nat, executed : BOOLEAN,
   count : Nat, cooling : BOOLEAN]

\* Row, histories and orders have their types, and no history outgrows its window.
TypeOK ==
  /\ plan \in Plans /\ \A i \in DOMAIN hist : hist[i] \in History /\ Len(hist[i].ltp) <= Window
  /\ recent \in Seq(Nat) /\ Len(recent) <= 3 /\ market \in [ltp : Nat, at : Nat]
  /\ time \in {"before", "expired", "late"} /\ expiry \subseteq {"pending", "secondary", "executed"}
  /\ status \in {"Active", "Executing", "Executed", "Failed", "Expired", "BlockedByLotRule"}
  /\ left \in 0..plan.qty /\ scans \in 0..MaxScans
  /\ orders \in Seq([rule : Nat, qty : Nat, price : Nat, held : Nat, time : {"before", "expired", "late"}])

NewOrder == Last(orders')
Orders(i) == {j \in DOMAIN orders : orders[j].rule = i}

\* A rule that triggers on a cross orders again only after its confirmed condition failed in
\* between, whatever refusals, stale quotes, limits and orders of other rules came first.
Rearmed == plan.rules[NewOrder.rule].trigger = "on_cross" => seen[NewOrder.rule].failed

\* strategy_llm_prompt.py: CONFIRM TRUE_FOR n SCANS needs n distinct trades, all true in a row
\* (a scan whose order the risk guard refused counts for no rule).  Where a quote does not
\* tell the time of its trade, its scan counts.
ConfirmedByTrades ==
  plan.rules[NewOrder.rule].confirm = "true_for_scans"
    => Cardinality(seen'[NewOrder.rule].trades) + seen'[NewOrder.rule].untimed >= plan.rules[NewOrder.rule].scans

\* What a rule must have seen before each of its orders: both of the above.
OnePerCrossing == [][orders' # orders /\ NewOrder.rule # 0 => Rearmed /\ ConfirmedByTrades]_vars

\* A buying rule that may execute once, or a number of times, never buys more often: its marks
\* survive every later scan, though they are written before the purchase is sent.  A rule that
\* takes its price from the top buyer may also fire on a quote that has no last price, which is
\* not marked, and is left out.
PurchasesLimited ==
  plan.side = "buy" =>
    \A i \in {k \in DOMAIN plan.rules : plan.rules[k].from # "top_buy"} :
      /\ plan.rules[i].frequency = "once" => Cardinality(Orders(i)) <= 1
      /\ plan.rules[i].maxTimes # 0 => Cardinality(Orders(i)) <= plan.rules[i].maxTimes

\* No order leaves an odd lot behind or sells more than the broker holds, whichever of the
\* two checks of the quantity the order passes.
WholeLots ==
  plan.odd \/ \A j \in DOMAIN orders :
    LET o == orders[j] IN
      IF plan.side = "buy" THEN o.qty % plan.lot = 0
      ELSE o.qty <= o.held /\ ~OddLot(o.held - o.qty, plan.lot)

\* strategy_llm_prompt.py: EXECUTE ONCE is one execution per rule, then stop.
OnceMeansOnce ==
  \A i \in DOMAIN plan.rules : plan.rules[i].frequency = "once" => Cardinality(Orders(i)) <= 1

=============================================================================
