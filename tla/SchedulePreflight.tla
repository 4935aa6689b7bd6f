-------------------------- MODULE SchedulePreflight --------------------------
(***************************************************************************)
(* What is asked of a query before it becomes a scheduled order            *)
(* (utils/strategy_builder: strategy_validator, reference_validator,       *)
(* schedule_preflight, schedule_baseline, reference_capture; and the form  *)
(* checks of main.py).  A plan is                                          *)
(*   [side, rules: a sequence of [symbols, mode, value, explicit, tests,   *)
(*    refs, functions, strategy]]                                          *)
(* where "tests" are the fields its conditions read, "refs" those it reads *)
(* through REFERENCE.  A market gives each symbol [listed, ltp, high,      *)
(* depth, up, data, figure, held]: what TMS and Nepse Alpha answer about it. *)
(* Prices are whole rupees, triggers tenths; 0 is "not given".             *)
(***************************************************************************)
EXTENDS RuleSizing, FiniteSets, Sequences

Ranking == {"UNIVERSE_PERCENTILE", "SECTOR_PERCENTILE"}
Supported == {"PREVIOUS", "DEPTH_QUANTITY"} \cup Ranking

\* Who provides a field; "soft" is a Nepse Alpha price extreme that may be missing.
FieldSource(f) ==
  CASE f = "ltp" -> "tms"
    [] f = "best_bid" -> "depth"
    [] f = "pe" -> "alpha"
    [] f = "year_high" -> "soft"
    [] f = "from_year_high" -> "derived"
    [] f = "average_price" -> "position"
    [] f = "adx" -> "unsupported"
FieldsOf(fields, sources) == {f \in fields : FieldSource(f) \in sources}

RulesOf(plan) == {plan.rules[i] : i \in DOMAIN plan.rules}
PlanSymbols(plan) == UNION {rule.symbols : rule \in RulesOf(plan)}
PlanTests(plan) == UNION {rule.tests : rule \in RulesOf(plan)}
PlanFunctions(plan) == UNION {rule.functions : rule \in RulesOf(plan)}
PlanUsesReference(plan) == \E rule \in RulesOf(plan) : rule.refs # {}
\* The reference fields of the rules for a symbol, each with the rule's number.
ReferenceFields(plan, s) ==
  UNION {{<<i, f>> : f \in plan.rules[i].refs} : i \in {j \in DOMAIN plan.rules : s \in plan.rules[j].symbols}}

-----------------------------------------------------------------------------
(* The plan by itself.                                                     *)

Unsupported(rule) ==
  \/ FieldsOf(rule.tests, {"unsupported"}) # {}
  \/ ~(rule.functions \subseteq Supported)
ReferenceErrors(rule) == FieldsOf(rule.refs, {"depth", "unsupported", "position"}) # {}
RuleErrors(rule, side) ==
  \/ rule.symbols = {}
  \/ ~rule.explicit
  \/ side = "buy" /\ rule.mode \in HoldingModes
  \/ rule.strategy = "" /\ rule.tests \cup rule.refs = {} /\ rule.functions = {}
  \/ ReferenceErrors(rule)

\* The first gates: the same for every market, and no call is made.
PlanStatus(plan, side, symbol) ==
  IF \E rule \in RulesOf(plan) : Unsupported(rule) THEN "unsupported_feature"
  ELSE IF plan.side # side \/ \E rule \in RulesOf(plan) : RuleErrors(rule, plan.side) THEN "invalid_query"
  ELSE IF PlanFunctions(plan) \cap Ranking # {} THEN "unsupported_feature"
  ELSE IF symbol # "" /\ symbol \notin PlanSymbols(plan) THEN "invalid_query"
  ELSE "ready"

-----------------------------------------------------------------------------
(* The plan and the market.                                                *)

MissingAlpha(plan, q) == FieldsOf(PlanTests(plan), {"alpha", "soft"}) \ q.data
\* A price extreme that is missing is only a warning, unless a derived field needs it.
AlphaError(plan, q) ==
  \/ /\ FieldsOf(PlanTests(plan), {"alpha", "soft"}) # {}
     /\ ~q.up \/ FieldsOf(MissingAlpha(plan, q), {"alpha"}) # {}
  \/ FieldsOf(PlanTests(plan), {"derived"}) # {} /\ "year_high" \notin q.data
NeedsQuote(plan) == FieldsOf(PlanTests(plan), {"tms", "depth", "derived"}) # {}
QuoteError(plan, q) ==
  /\ NeedsQuote(plan)
  /\ \/ ~q.listed
     \/ q.ltp = 0
     \/ /\ FieldsOf(PlanTests(plan), {"depth"}) # {} \/ "DEPTH_QUANTITY" \in PlanFunctions(plan)
        /\ ~q.depth

\* A sale of what is not held.  Nothing is checked when the map of the holdings is empty:
\* the account holds nothing, or its holdings could not be read.
MutantUnheld(plan, symbols, held) ==
  IF plan.side = "buy" \/ \A s \in DOMAIN held : held[s] = 0 THEN {} ELSE {s \in symbols : held[s] = 0}
Unheld(plan, symbols, held) ==
  IF plan.side = "buy" \/ \A s \in DOMAIN held : held[s] = 0 THEN {}
  ELSE {s \in symbols : held[s] = 0}
       \cup {s \in PlanSymbols(plan) : held[s] > 0 /\ \E rule \in RulesOf(plan) :
               s \in rule.symbols /\ rule.mode = "quantity" /\ rule.value > held[s]}

\* A fixed trigger replaces the WHEN of the rules for the symbol.
WithTrigger(plan, s) ==
  [plan EXCEPT !.rules = [i \in DOMAIN @ |-> IF s \in @[i].symbols THEN [@[i] EXCEPT !.tests = {"ltp"}] ELSE @[i]]]
Trigger(reference, drop) == (reference * (100 - drop)) \div 10
BaselineAvailable(q, drop) == q.listed /\ q.ltp > 0 /\ drop \in 1..99

\* The value of a field, 0 when it has none.
FieldValue(f, q) ==
  CASE FieldSource(f) = "tms" -> q.ltp
    [] FieldSource(f) \in {"alpha", "soft"} -> IF q.up /\ f \in q.data THEN q.figure ELSE 0
    [] FieldSource(f) = "derived" -> IF "year_high" \in q.data THEN q.ltp ELSE 0
    [] OTHER -> 0
Capturable(fields, q) ==
  fields # {} => q.listed /\ q.ltp > 0 /\ \A x \in fields : FieldValue(x[2], q) # 0
CaptureReferences(fields, q) == {<<x[1], x[2], FieldValue(x[2], q)>> : x \in fields}

\* run_schedule_preflight after its first gates, for one symbol of an order or, with
\* symbol "", for every symbol of the plan: the verdict and the symbols it names.
Preflight(plan, symbol, market, held, capture, drop) ==
  LET targets == IF symbol = "" THEN PlanSymbols(plan) ELSE {symbol}
      alpha == {s \in targets : AlphaError(plan, market[s])}
      unheld == Unheld(plan, targets, held)
      quote == {s \in targets : QuoteError(plan, market[s])}
  IN CASE alpha # {} -> [status |-> "missing_data", named |-> alpha]
       [] alpha = {} /\ unheld # {} -> [status |-> "invalid_query", named |-> unheld]
       [] alpha \cup unheld = {} /\ quote # {} -> [status |-> "missing_data", named |-> quote]
       [] /\ alpha \cup unheld \cup quote = {} /\ symbol # ""
          /\ \/ ~Capturable(ReferenceFields(plan, symbol), market[symbol])
             \/ capture /\ ~BaselineAvailable(market[symbol], drop)
            -> [status |-> "baseline_unavailable", named |-> {}]
       [] OTHER -> [status |-> "ready", named |-> {}]

-----------------------------------------------------------------------------
(* The form, and its checks against the account.                           *)

HasPlan(form) == form.plan.rules # <<>>
RuleFor(plan, s) == {i \in DOMAIN plan.rules : s \in plan.rules[i].symbols}
FirstRule(plan, s) == plan.rules[CHOOSE i \in RuleFor(plan, s) : \A j \in RuleFor(plan, s) : i <= j]

\* The quantity a form is stored with: that of its plan when it gives none, and none at
\* all when the plan's first rule sells a share of the holding.
PlannedQuantity(plan, s) ==
  LET sized == {i \in RuleFor(plan, s) : plan.rules[i].mode = "quantity"}
  IN IF sized = {} THEN 0
     ELSE Greater(plan.rules[CHOOSE i \in sized : \A j \in sized : i <= j].value, 0)
FormQuantity(form, s) ==
  IF ~HasPlan(form) THEN form.qty
  ELSE IF form.plan.rules[1].mode \in HoldingModes THEN 0
  ELSE IF form.qty > 0 THEN form.qty ELSE IfGiven(PlannedQuantity(form.plan, s), DefaultQuantity)

FormErrors(form, lot) ==
  /\ ~HasPlan(form)
  /\ \/ form.qty <= 0
     \/ form.price = 0
     \/ form.side = "buy" /\ ~form.odd /\ form.qty % lot # 0

\* The day's high bounds a purchase's price; a high of 0 is unknown.
AboveHigh(form, q) == form.side = "buy" /\ q.high # 0 /\ form.price > q.high

\* A sale that the holding does not cover, or that would leave an odd lot.
LotErrors(form, s, held, lot) ==
  LET planned == HasPlan(form) /\ RuleFor(form.plan, s) # {}
      rule == FirstRule(form.plan, s)
      want == IF planned THEN OrderQuantity(rule.mode, rule.value, 0, held, FormQuantity(form, s))
              ELSE FormQuantity(form, s)
      sale == NormalizedSell(want, held, lot)
  IN /\ form.side = "sell" /\ ~form.odd
     /\ \/ held = 0
        \/ /\ ~(planned /\ rule.mode \in HoldingModes) /\ want > 0
           /\ want > held \/ (~sale.all /\ sale.qty # want)

\* What the preview of the order estimates; -1, the quantity of the form, estimates nothing.
EstimatedQuantity(form, s, q, readable) ==
  LET rule == FirstRule(form.plan, s)
      held == IF readable THEN q.held ELSE 0
      guess == OrderQuantity(rule.mode, rule.value, q.ltp, held, IF rule.mode = "quantity" THEN rule.value ELSE 0)
  IN IF RuleFor(form.plan, s) = {}
        \/ (~readable /\ form.side = "sell" /\ rule.mode \in HoldingModes \cup {"quantity"}) THEN 0
     ELSE Greater(guess, 0)
=============================================================================
