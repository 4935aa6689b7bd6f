----------------------------- MODULE MCSchedules -----------------------------
(* Two symbols, one board lot of ten, and the kinds of query a page sends. *)
(* What Nepse Alpha reports of a symbol changes when its price does.        *)
EXTENDS Schedules

Rule(symbols, mode, value, tests, refs) ==
  [symbols |-> symbols, mode |-> mode, value |-> value, explicit |-> TRUE, tests |-> tests,
   refs |-> refs, functions |-> {}, strategy |-> ""]
NoPlan == [side |-> "", rules |-> <<>>]
Both == {"A", "B"}
BuyPlan == [side |-> "buy", rules |-> <<Rule(Both, "quantity", 20, {"ltp"}, {})>>]
RefPlan == [side |-> "buy", rules |-> <<Rule({"B"}, "quantity", 20, {"pe"}, {}),
                                        Rule(Both, "quantity", 20, {"pe"}, {"ltp", "year_high"})>>]
AmountPlan == [side |-> "buy", rules |-> <<Rule({"A"}, "amount", 5000, {"from_year_high"}, {})>>]
SellPlan == [side |-> "sell", rules |-> <<Rule(Both, "quantity", 30, {"best_bid"}, {})>>]
AllPlan == [side |-> "sell", rules |-> <<Rule({"A"}, "all_available", 0, {"ltp"}, {})>>]

Form(name, kind, symbols, plan, side, query) ==
  [name |-> name, kind |-> kind, symbols |-> symbols, plan |-> plan, side |-> side, query |-> query,
   qty |-> 20, price |-> 0, odd |-> FALSE, base |-> "none", drop |-> 10, reference |-> 0, level |-> 950,
   ready |-> FALSE, flag |-> "", scope |-> {}]

MCForm == {
  Form("buy", "create", {"A"}, BuyPlan, "buy", "buy"),
  [Form("add capture", "add", {"A"}, BuyPlan, "buy", "buy") EXCEPT !.base = "capture", !.level = 0],
  [Form("previewed", "create", {"A"}, BuyPlan, "buy", "buy") EXCEPT !.base = "sent", !.reference = 100, !.level = 0],
  [Form("amount", "add", {"A"}, AmountPlan, "buy", "amount") EXCEPT !.base = "capture", !.level = 0],
  [Form("fixed", "add", {"A"}, NoPlan, "buy", "") EXCEPT !.price = 100, !.level = 0],
  Form("references", "create", {"A"}, RefPlan, "buy", "references"),
  [Form("sell", "add", {"A"}, SellPlan, "sell", "sell") EXCEPT !.level = 0, !.qty = 30],
  [Form("sell all", "create", {"A"}, AllPlan, "sell", "sell all") EXCEPT !.level = 0, !.qty = 0],
  Form("batch", "batch", Both, RefPlan, "buy", "references"),
  [Form("batch checked", "batch", Both, RefPlan, "buy", "references") EXCEPT !.ready = TRUE],
  [Form("drop", "drop", Both, RefPlan, "buy", "references") EXCEPT !.level = 0],
  [Form("edit", "edit", {"A"}, BuyPlan, "buy", "buy") EXCEPT !.base = "capture", !.flag = "recalc", !.drop = 20, !.level = 0],
  [Form("recalculate", "edit", {"A"}, BuyPlan, "buy", "buy")
     EXCEPT !.base = "capture", !.flag = "recalc", !.reference = 100, !.drop = 20, !.level = 0],
  Form("edit references", "edit", {"A"}, RefPlan, "buy", "references"),
  [Form("refresh", "refresh", {"A"}, NoPlan, "", "") EXCEPT !.level = 0],
  [Form("refresh price", "refresh", {"A"}, NoPlan, "", "") EXCEPT !.level = 0, !.scope = {"ltp"}]}
MCForms == [name \in {form.name : form \in MCForm} |-> CHOOSE form \in MCForm : form.name = name]

Quote(ltp, data, held) ==
  [listed |-> TRUE, ltp |-> ltp, high |-> 110, depth |-> TRUE, up |-> TRUE, data |-> data,
   figure |-> ltp, held |-> held]
All == {"pe", "year_high"}
Calm == [A |-> Quote(100, All, 40), B |-> Quote(50, All, 0)]
Fallen == [A |-> Quote(90, All, 20), B |-> Quote(50, {"pe"}, 10)]
Halted == [A |-> Quote(100, All, 0), B |-> [Quote(0, All, 10) EXCEPT !.up = FALSE, !.depth = FALSE]]
Empty == [A |-> Quote(100, {"pe"}, 0), B |-> Quote(50, All, 0)]
MCMarkets == {Calm, Fallen, Halted, Empty}
Same == Permutations(Requests \ Followers)
==============================================================================
