------------------------------ MODULE MCRules -------------------------------
(* Plans to scan: one rule or two per plan, one feature or two per rule.   *)
EXTENDS Rules

C(fn, x, n, k) == [fn |-> fn, x |-> x, n |-> n, k |-> k, not |-> FALSE]
Below == C("ltp_lte", 98, 0, 0)

Rule == [signal |-> <<Below>>, logic |-> "AND", eligible |-> <<>>, require |-> <<>>, scores |-> <<>>, score |-> 0, confirm |-> "immediate", scans |-> 0, window |-> 0,
         trigger |-> "on_cross", frequency |-> "unlimited", maxTimes |-> 0, cooldown |-> FALSE, maxAge |-> FALSE,
         mode |-> "quantity", value |-> 0, from |-> "ltp", delegates |-> FALSE]
Plan(rules) ==
  [side |-> "buy", qty |-> 20, lot |-> 10, odd |-> FALSE, mode |-> "live", rules |-> rules, exits |-> <<>>,
   fixedStop |-> 0, trail |-> 0, slip |-> 10, maxAmount |-> 0, paused |-> FALSE, referenced |-> FALSE,
   expires |-> FALSE, atExpiry |-> "CANCEL", closed |-> "cancel", fallback |-> FALSE]
Sale(rules) == [Plan(rules) EXCEPT !.side = "sell"]
Signal(c) == [Rule EXCEPT !.signal = <<c>>]
Either(cs) == [Rule EXCEPT !.signal = cs, !.logic = "OR"]

Twice == [Rule EXCEPT !.confirm = "true_for_scans", !.scans = 2, !.value = 10, !.maxAge = TRUE, !.trigger = "level"]
MCBuys == {
  [Plan(<<[Rule EXCEPT !.value = 10, !.frequency = "once"]>>) EXCEPT !.trail = 30],
  [Plan(<<[Rule EXCEPT !.value = 10, !.maxTimes = 1, !.trigger = "level"]>>) EXCEPT !.trail = 30],
  Plan(<<Twice>>),
  Plan(<<[Rule EXCEPT !.value = 10, !.confirm = "matches_in_last", !.scans = 2, !.window = 3]>>),
  [Plan(<<[Rule EXCEPT !.from = "top_sell", !.value = 10, !.cooldown = TRUE, !.trigger = "level"],
          [Rule EXCEPT !.mode = "partial_top_sell", !.eligible = <<Below>>]>>) EXCEPT !.maxAmount = 1500],
  Plan(<<[Signal(C("crosses_below", 98, 0, 0)) EXCEPT !.mode = "top_sell_qty"], [Rule EXCEPT !.delegates = TRUE, !.signal = <<>>]>>),
  Plan(<<[Rule EXCEPT !.signal = <<C("true_for_scans", 98, 2, 0), C("matches_in_last", 98, 3, 2)>>, !.logic = "OR", !.value = 10]>>),
  Plan(<<[Signal(C("consecutive_drops", 0, 2, 0)) EXCEPT !.mode = "amount", !.value = 980]>>),
  [Plan(<<[Signal(C("reference_lte", 96, 0, 0)) EXCEPT !.value = 10]>>) EXCEPT !.referenced = TRUE],
  [Plan(<<Rule>>) EXCEPT !.mode = "paper"], [Plan(<<Rule>>) EXCEPT !.paused = TRUE],
  [Plan(<<Signal(C("reference_lte", 96, 0, 0))>>) EXCEPT !.expires = TRUE, !.atExpiry = "BUY_AT_TOP_SELL", !.closed = "next quote"],
  Plan(<<[Rule EXCEPT !.value = 10, !.require = <<C("change_lte", 0, 1, 0)>>, !.score = 2,
            !.scores = <<[when |-> Below, weight |-> 1], [when |-> C("trend_down", 1, 2, 0), weight |-> 2]>>]>>),
  Plan(<<[Rule EXCEPT !.value = 10, !.signal = <<>>, !.scores = <<[when |-> C("imbalance_gt", 0, 0, 0), weight |-> 1]>>]>>),
  Plan(<<[Either(<<C("crosses_above", 96, 0, 0), C("consecutive_rises", 3, 2, 5)>>) EXCEPT !.value = 10],
         [Either(<<C("slope_gt", -2, 3, 0), C("sum_lte", 196, 2, 0)>>) EXCEPT !.eligible = <<C("bid_available", 0, 0, 0), C("remains_above", 95, 2, 0)>>]>>),
  Plan(<<[Either(<<C("min_lte", 94, 2, 0), C("imbalance_remains_below", 400, 2, 0)>>) EXCEPT !.logic = "AND", !.value = 10],
         [Either(<<C("max_lte", 98, 2, 0), C("bids_gt", 10, 0, 0)>>) EXCEPT !.require = <<C("previous_gte", 98, 1, 0)>>],
         [Signal(C("change_percent_lte", -3, 1, 0)) EXCEPT !.from = "top_sell"]>>),
  [Plan(<<[Signal(C("average_lte", 96, 2, 0)) EXCEPT !.from = "top_buy"]>>) EXCEPT !.expires = TRUE,
     !.atExpiry = "BUY_AT_PROTECTED_LTP", !.closed = "secondary"],
  [Plan(<<Signal(C("imbalance_remains_above", -400, 2, 0))>>) EXCEPT !.expires = TRUE, !.atExpiry = "BUY_AT_TOP_SELL", !.fallback = TRUE],
  [Plan(<<Signal(C("remains_below", 98, 2, 0))>>) EXCEPT !.expires = TRUE]}
MCSells == {
  Sale(<<[Twice EXCEPT !.mode = "all_available"], [Rule EXCEPT !.value = 30]>>),
  Sale(<<[Rule EXCEPT !.value = 10, !.from = "top_buy"]>>),
  Sale(<<[Rule EXCEPT !.mode = "percent_of_holding", !.value = 25, !.frequency = "once"],
         [Signal([Below EXCEPT !.not = TRUE]) EXCEPT !.mode = "partial_top_buy", !.from = "top_sell"]>>),
  [Sale(<<Signal(C("profit_gte", 2, 0, 0))>>) EXCEPT !.exits = <<[when |-> Below, mode |-> "sell_up_to", value |-> 15]>>],
  [Sale(<<[Signal(C("stop_reached", 0, 0, 0)) EXCEPT !.mode = "all_available"]>>) EXCEPT !.fixedStop = 96,
     !.exits = <<[when |-> [Below EXCEPT !.not = TRUE], mode |-> "quantity", value |-> 15]>>, !.odd = TRUE]}
MCPlans == MCBuys \cup MCSells

MCBooks == {[bid |-> 0, bidQty |-> 0, ask |-> 0, askQty |-> 0], [bid |-> 96, bidQty |-> 10, ask |-> 98, askQty |-> 20],
            [bid |-> 93, bidQty |-> 20, ask |-> 104, askQty |-> 10]}
OncePlan == {p \in MCPlans : p.side = "sell" /\ Len(p.rules) = 2}
=============================================================================
